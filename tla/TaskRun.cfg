\* Three steps, so that one of them has both a predecessor and a successor;
\* two artifacts, so that one of them finds the last channel drained.
CONSTANTS
    NSteps = 3
    NArtifacts = 2
    PullSteps <- AllButFirst
SPECIFICATION FairSpec
INVARIANTS
    StepsInOrder
    OneStepContainer
    GatherSound
    TornDown
PROPERTIES
    LogicReturns
    GoroutinesEnd
