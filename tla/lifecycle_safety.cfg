\* One run, two deliveries of the orchestrator and two of finalize, a cancel
\* request and one fault.  Dispatch and maintenance are repaired so that every
\* writer of the row takes part.
CONSTANTS
    Runs = {r1}
    Submissions = {s1}
    SubmissionOf <- OneSubmission
    Orchs = {o1, o2}
    Finalizers = {f1, f2}
    Cancels = {c1}
    RunOf <- AllOfOneRun
    MaxConcurrent = 1
    PatchStatuses = {"ARCHIVED"}
    ContextKeys <- RepairedKeys
    AnalysisRun = "BaseEvalTask"
    EvaluationModels <- RepairedModels
    MaxFaults = 1
SYMMETRY Deliveries
SPECIFICATION Spec
INVARIANTS
    TypeOK
    OneVerdict
    VerdictIsShown
    LockDiscipline
    OneNoticePerCompletion
    ScoredRunsWereDispatched
    EvaluatedMeansScored
    RunningIsAttended
PROPERTY VerdictSpec
CHECK_DEADLOCK FALSE
