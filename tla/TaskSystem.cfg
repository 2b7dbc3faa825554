\* One step and one artifact; three lines, so that one may come after "Task failed".
CONSTANTS
    MaxLines = 3
    Prompt = FALSE
    NSteps = 1
    NArtifacts = 1
    PullSteps = {1}
SPECIFICATION SysSpec
INVARIANTS
    ReportTruthful
    LogKept
    ResolvedAtReturn
    CompletedMeansDone
    LeftoversCancelled
PROPERTIES
    TaskEnds
    ImplementsRunTask
