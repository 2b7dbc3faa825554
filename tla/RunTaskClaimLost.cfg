CONSTANTS
    MaxLines = 3
    Prompt = TRUE
SPECIFICATION Spec
INVARIANT HoldsClaim
