\* Two dispatches of the chord for one run, one task of each, one fault.
CONSTANTS
    AnalysisRun = "BaseEvalTask"
    ExecuteBound = TRUE
    Dispatches = {d1, d2}
    Workers <- GithubOnly
    SourceChoices <- GithubNamed
    Stars = {120}
    LanguageNumbers <- MCLanguages
    Contributors = {3}
    Durations = {8}
    Signals = {"traction"}
    MaxFaults = 1
SPECIFICATION Spec
INVARIANT RowsPerDispatch
CHECK_DEADLOCK FALSE
