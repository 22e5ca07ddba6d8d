\* The code as committed: a cancel request beside one delivery of the orchestrator.
CONSTANTS
    Runs = {r1}
    Submissions = {s1}
    SubmissionOf <- OneSubmission
    Orchs = {o1}
    Finalizers = {}
    Cancels = {c1}
    RunOf <- AllOfOneRun
    MaxConcurrent = 1
    PatchStatuses = {}
    ContextKeys <- CommittedKeys
    AnalysisRun = "task_function"
    EvaluationModels <- CommittedModels
    MaxFaults = 0
SPECIFICATION Spec
PROPERTY TerminalIsFinal
CHECK_DEADLOCK FALSE
