-------------------------- MODULE MCQuotaAdmission --------------------------
(* QuotaAdmission for TLC: requests and keys are model values.              *)
EXTENDS QuotaAdmission, TLC

\* A run stores one unit.
StoringRun == {1}

\* Requests are interchangeable, and so are the keys of the project.
Symmetry == Permutations(Requests) \cup Permutations(Keys)
=============================================================================
