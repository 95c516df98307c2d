---------------------------- MODULE RunContract ----------------------------
(***************************************************************************)
(* What MotionState promises about a ProcessingRun, with no process, queue *)
(* or database in sight: a run is created pending, is started at most      *)
(* once, ends at most once, and its outputs (Artifact rows and the usage   *)
(* events of processing) become visible in the very step that makes it     *)
(* completed.  RunLifecycle is shown to implement this module.             *)
(***************************************************************************)

CONSTANT Runs        \* ids of ProcessingRun rows

VARIABLES status,    \* status[r]: ProcessingRun.status, "absent" before insertion
          published  \* the runs whose outputs can be read

contractVars == <<status, published>>

\* libs/models.py RunStatus, and "absent" for a row that does not exist.
RunStatuses == {"absent", "pending", "running", "completed", "error"}

Terminal == {"completed", "error"}

Init ==
    /\ status = [r \in Runs |-> "absent"]
    /\ published = {}

\* A step moves one run along one edge of its lifecycle; no other run changes.
Move(r, from, to) ==
    /\ status[r] = from
    /\ status' = [status EXCEPT ![r] = to]

Create(r)   == Move(r, "absent", "pending")    /\ UNCHANGED published
Start(r)    == Move(r, "pending", "running")   /\ UNCHANGED published
Complete(r) == Move(r, "running", "completed") /\ published' = published \cup {r}
Fail(r)     == Move(r, "running", "error")     /\ UNCHANGED published

Next == \E r \in Runs : Create(r) \/ Start(r) \/ Complete(r) \/ Fail(r)

Spec == Init /\ [][Next]_contractVars
=============================================================================
