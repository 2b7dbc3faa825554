SPECIFICATION FairSpec
INVARIANTS
    NothingLeftBehind
    SandboxUsable
PROPERTIES
    CreateReturns
    RunnerEnds
