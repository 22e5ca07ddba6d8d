\* Two dispatches of the pipeline for one run, a short and a long report from the
\* header, failing and invalid model answers, and one fault.
CONSTANTS
    Chains = {c1, c2}
    Reports <- MCReports
    LlmOutputs <- MCOutputs
    Variations <- MCVariations
    MaxFaults = 1
SPECIFICATION Spec
INVARIANTS
    TypeOK
    BilledOnce
    FinalizeHasScores
    OutagesDoNotBreak
    AssessedBeforeJudged
    ScoreIsDeserved
PROPERTIES
    ScoresAreFinal
    ChainsEnd
CHECK_DEADLOCK FALSE
