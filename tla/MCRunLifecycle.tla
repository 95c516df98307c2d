--------------------------- MODULE MCRunLifecycle ---------------------------
(* RunLifecycle for TLC: videos, runs, requests and workers are model values. *)
EXTENDS RunLifecycle, TLC

\* Every role is interchangeable in the safety properties.
Symmetry == Permutations(Videos) \cup Permutations(Runs)
            \cup Permutations(Clients) \cup Permutations(Workers)
=============================================================================
