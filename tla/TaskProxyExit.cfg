CONSTANTS
    NSteps = 2
    NArtifacts = 1
    PullSteps <- AllButFirst
SPECIFICATION Spec
INVARIANT RunsToCompletion
