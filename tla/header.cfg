\* One dispatch, three analysis tasks with their sources or without, one fault.
CONSTANTS
    AnalysisRun = "BaseEvalTask"
    ExecuteBound = TRUE
    Dispatches = {d1}
    Workers <- MCWorkers
    SourceChoices <- MCSources
    Stars = {120}
    LanguageNumbers <- MCLanguages
    Contributors = {3}
    Durations = {8}
    Signals = {"traction"}
    MaxFaults = 1
SPECIFICATION Spec
INVARIANTS
    TypeOK
    ReportIsBacked
    CountersAgree
    GithubAloneBreaks
PROPERTY HeaderEnds
CHECK_DEADLOCK FALSE
