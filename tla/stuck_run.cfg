\* The code as committed: one run, no faults, no duplicates, fair tasks, and the
\* maintenance task started on the schedule its docstring claims.
CONSTANTS
    Runs = {r1}
    Submissions = {s1}
    SubmissionOf <- OneSubmission
    Orchs = {o1}
    Finalizers = {}
    Cancels = {}
    RunOf <- AllOfOneRun
    MaxConcurrent = 1
    PatchStatuses = {}
    ContextKeys <- CommittedKeys
    AnalysisRun = "task_function"
    EvaluationModels <- CommittedModels
    MaxFaults = 0
SPECIFICATION ScheduledSpec
PROPERTY EventuallySettled
CHECK_DEADLOCK FALSE
