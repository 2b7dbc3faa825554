CONSTANTS
    NSteps = 1
    NArtifacts = 2
    PullSteps <- AllButFirst
SPECIFICATION Spec
INVARIANT UploadsWaitForSteps
