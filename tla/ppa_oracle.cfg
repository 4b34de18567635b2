SPECIFICATION Spec
CONSTANTS
    Examples <- MCExamples
    TooLong = {"c"}
    Layers = 2
    Prompt <- MCPrompt
    Steps = 3
    Outputs <- MCOutputs
    NativeTopk = 2
    RefTopk = 9
    Stride = 9
    PerPage = 2
    Planes <- MCPlanes
    Capacity = 3
    Budget = 1
    MaxSteps = 0
    MaxFaults = 1
    Scopes <- MCScopes
    MaxCrashes = 1
INVARIANTS
    FirstTryReplays
    AnswersOnce
    ReportBacked
PROPERTIES
    ProgressKept
