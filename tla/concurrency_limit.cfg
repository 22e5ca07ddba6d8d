\* The code as committed: two trigger requests of one organization.
CONSTANTS
    Runs = {r1, r2}
    Submissions = {s1}
    SubmissionOf <- OneSubmission
    Orchs = {}
    Finalizers = {}
    Cancels = {}
    RunOf <- AllOfOneRun
    MaxConcurrent = 1
    PatchStatuses = {}
    ContextKeys <- CommittedKeys
    AnalysisRun = "task_function"
    EvaluationModels <- CommittedModels
    MaxFaults = 0
SPECIFICATION Spec
INVARIANT WithinConcurrencyLimit
CHECK_DEADLOCK FALSE
