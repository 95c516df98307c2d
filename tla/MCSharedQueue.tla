---------------------------- MODULE MCSharedQueue ----------------------------
(* SharedQueue for TLC.                                                       *)
EXTENDS SharedQueue, TLC

\* The endpoint subscribes to the verdicts.
Verdicts == { {"completed", "failed"} }
=============================================================================
