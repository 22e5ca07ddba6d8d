------------------------- MODULE MCEvaluationChain -------------------------
(***************************************************************************)
(* Small instances of EvaluationChain.                                     *)
(***************************************************************************)
EXTENDS EvaluationChain, TLC

Claim(category, nums, superlative, growth, confidence) ==
    [category |-> category, nums |-> nums, superlative |-> superlative,
     growth |-> growth, confidence |-> confidence]

\* A team of 2 and a team of 20 (critical); 10 against 80 (severity exactly 0.8, the
\* upper end of high); a claim with every sign of fabrication.
Two == Claim("team", <<2>>, FALSE, {}, 90)
Twenty == Claim("team", <<20>>, FALSE, {}, 60)
Ten == Claim("traction", <<10, 7>>, FALSE, {}, 80)
Eighty == Claim("traction", <<80>>, FALSE, {"percent"}, 80)
Boast == Claim("product", <<5000>>, TRUE, {"users", "multiplier"}, 40)

\* Too few claims to compare; a critical and a high contradiction beside a
\* dubious claim.
MCReports == {<<Two>>, <<Ten, Eighty, Two, Twenty, Boast>>}
OneReport == {<<Two, Twenty, Boast>>}

Uniform(x) == [d \in Dimensions |-> x]

\* A model fails, answers with scores below the penalty of a contradiction, or
\* leaves [0, 1].
MCOutputs ==
    {[raises |-> TRUE, scores |-> None],
     [raises |-> FALSE, scores |-> [Uniform(300) EXCEPT !["traction"] = 250]],
     [raises |-> FALSE, scores |-> Uniform(12000)]}

MCVariations == {0 - 1000}
===========================================================================
