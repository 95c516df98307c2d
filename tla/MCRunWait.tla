------------------------------ MODULE MCRunWait ------------------------------
(* RunLifecycle with a client that waits, for TLC.                            *)
EXTENDS RunWait, TLC
=============================================================================
