\* The code as committed: one run, no faults, no cancel request, fair tasks.
CONSTANTS
    Runs = {r1}
    Submissions = {s1}
    SubmissionOf <- OneSubmission
    Orchs = {o1}
    Finalizers = {}
    Cancels = {}
    RunOf <- AllOfOneRun
    MaxConcurrent = 1
    PatchStatuses = {}
    ContextKeys <- CommittedKeys
    AnalysisRun = "task_function"
    EvaluationModels <- CommittedModels
    MaxFaults = 0
SPECIFICATION FairSpec
PROPERTY EventuallyDispatched
CHECK_DEADLOCK FALSE
