\* One dispatch of the pipeline and one lost worker.
CONSTANTS
    Chains = {c1}
    Reports <- OneReport
    LlmOutputs <- MCOutputs
    Variations <- MCVariations
    MaxFaults = 1
SPECIFICATION Spec
INVARIANT RedeliveryIsHarmless
CHECK_DEADLOCK FALSE
