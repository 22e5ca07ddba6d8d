-------------------------- MODULE MCAnalysisHeader --------------------------
(***************************************************************************)
(* Small instances of AnalysisHeader.  pitch_deck is left out of them: its *)
(* outcomes, an error and a result without claims, are among those of      *)
(* video_analysis.                                                         *)
(***************************************************************************)
EXTENDS AnalysisHeader

MCWorkers == {"github_analysis", "video_analysis", "web_verification"}

\* A submission with every source, and one with a website only.
MCSources == {MCWorkers, {"web_verification"}}

\* One task only, to pit its deliveries against those of a second dispatch.
GithubOnly == {"github_analysis"}
GithubNamed == {GithubOnly}

\* A language without and one with a number in its name; the video is short
\* enough for the second to contradict its length.
MCLanguages == {<<>>, <<77>>}
===========================================================================
