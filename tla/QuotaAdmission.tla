--------------------------- MODULE QuotaAdmission ---------------------------
(***************************************************************************)
(* How one project's requests for work get past its quotas.  Every request *)
(* runs in one READ COMMITTED transaction: get_current_project reads the   *)
(* API key and dirties its last_used_at, whose UPDATE is flushed by the    *)
(* next query and takes the row lock of that key; then the Project row is  *)
(* read, check_quota compares committed usage with the limits, and the     *)
(* rows and the usage event are committed, which frees the lock.  The lock *)
(* is all that serialises a check with the commits it should have counted: *)
(* requests that use two keys of the project do not see each other.        *)
(*                                                                         *)
(* usage_events.created_at defaults to now(), which Postgres evaluates at  *)
(* the start of the transaction; the month compared with the limit is the  *)
(* one of the API server's clock when check_quota runs.                    *)
(***************************************************************************)
EXTENDS Naturals, FiniteSets

CONSTANTS
    Requests,         \* requests ever sent
    Keys,             \* active API keys of the project
    MaxVideos,        \* Project.max_videos_per_month
    MaxStorage,       \* Project.max_storage_bytes
    Costs,            \* the bytes a completed run may store
    Months,           \* bound: the months 0 .. Months pass
    Suspensions,      \* bound: how often an operator suspends the project
    NoRequest, NoKey

ASSUME QuotaAssumption ==
    /\ IsFiniteSet(Keys) /\ Keys # {}
    /\ MaxVideos \in Nat /\ MaxStorage \in Nat
    /\ Months \in Nat /\ Suspensions \in Nat
    /\ Costs \subseteq Nat
    /\ NoRequest \notin Requests
    /\ NoKey \notin Keys

VARIABLES
    month,        \* the current calendar month
    suspended,    \* Project.is_suspended
    suspensions,  \* how often it was set
    uploads,      \* uploads[m]: the videos_uploaded events with created_at in month m
    storage,      \* the sum of all storage_bytes_written events
    runs,         \* runs committed and not yet finished by a worker
    lock,         \* lock[k]: the request holding the row lock of API key k
    pc,           \* pc[q]: where request q is
    sent,         \* sent[q]: what q asks for, with which key, in which month it began
    sawSuspended, \* requests that read is_suspended as true
    checkedLater, \* requests whose check_quota ran in a later month than they began
    straddled,    \* history: straddled[m], uploads of month m that were checked later
    slipped       \* history: requests committed since the door last closed

usage == <<uploads, storage, runs>>
requests == <<pc, sent, sawSuspended, checkedLater>>
history == <<straddled, slipped>>
vars == <<month, suspended, suspensions, usage, lock, requests, history>>

-----------------------------------------------------------------------------
Kinds == {"upload", "init", "reprocess"}
Pcs   == {"unsent", "waiting", "authenticated", "admitted", "answered"}

Nothing == [kind |-> "upload", key |-> NoKey, began |-> 0]

TypeOK ==
    /\ month \in 0..Months
    /\ suspended \in BOOLEAN
    /\ suspensions \in 0..Suspensions
    /\ uploads \in [0..Months -> Nat]
    /\ storage \in Nat
    /\ runs \in Nat
    /\ lock \in [Keys -> Requests \cup {NoRequest}]
    /\ pc \in [Requests -> Pcs]
    /\ sent \in [Requests -> [kind : Kinds, key : Keys \cup {NoKey}, began : 0..Months]]
    /\ sawSuspended \subseteq Requests
    /\ checkedLater \subseteq Requests
    /\ straddled \in [0..Months -> Nat]
    /\ slipped \in Nat

Init ==
    /\ month = 0
    /\ suspended = FALSE
    /\ suspensions = 0
    /\ uploads = [m \in 0..Months |-> 0]
    /\ storage = 0
    /\ runs = 0
    /\ lock = [k \in Keys |-> NoRequest]
    /\ pc = [q \in Requests |-> "unsent"]
    /\ sent = [q \in Requests |-> Nothing]
    /\ sawSuspended = {}
    /\ checkedLater = {}
    /\ straddled = [m \in 0..Months |-> 0]
    /\ slipped = 0

\* No request that arrives now can be admitted.
DoorClosed == suspended \/ storage >= MaxStorage

-----------------------------------------------------------------------------
(* One request.                                                             *)

\* The SELECT of the API key starts the transaction.
Send(q, kind, k) ==
    /\ pc[q] = "unsent"
    /\ pc' = [pc EXCEPT ![q] = "waiting"]
    /\ sent' = [sent EXCEPT ![q] = [kind |-> kind, key |-> k, began |-> month]]
    /\ UNCHANGED <<month, suspended, suspensions, usage, lock, sawSuspended, checkedLater,
                   history>>

\* Variant: the key row is not written, so that nothing waits for anything.
Authenticate_NoLock(q) ==
    LET k == sent[q].key IN
    /\ pc[q] = "waiting"
    /\ lock' = [lock EXCEPT ![k] = q]
    /\ pc' = [pc EXCEPT ![q] = "authenticated"]
    /\ sawSuspended' = IF suspended THEN sawSuspended \cup {q} ELSE sawSuspended
    /\ UNCHANGED <<month, suspended, suspensions, usage, sent, checkedLater, history>>

\* The UPDATE of last_used_at is flushed by the query for the Project: it waits for
\* whoever uses the same key, and the Project row is read after that.
Authenticate(q) ==
    LET k == sent[q].key IN
    /\ pc[q] = "waiting"
    /\ lock[k] = NoRequest
    /\ lock' = [lock EXCEPT ![k] = q]
    /\ pc' = [pc EXCEPT ![q] = "authenticated"]
    /\ sawSuspended' = IF suspended THEN sawSuspended \cup {q} ELSE sawSuspended
    /\ UNCHANGED <<month, suspended, suspensions, usage, sent, checkedLater, history>>

\* The transaction ends: the request is answered and its key is free again.
Answer(q) ==
    /\ lock' = [lock EXCEPT ![sent[q].key] = NoRequest]
    /\ pc' = [pc EXCEPT ![q] = "answered"]
    /\ sent' = [sent EXCEPT ![q] = Nothing]
    /\ sawSuspended' = sawSuspended \ {q}
    /\ checkedLater' = checkedLater \ {q}

IsUpload(q) == sent[q].kind \in {"upload", "init"}

\* Variant: the storage ceiling is compared for uploads only.
WithinQuota_UploadsOnly(q) ==
    /\ q \notin sawSuspended
    /\ IsUpload(q) => uploads[month] < MaxVideos /\ storage < MaxStorage

\* check_quota: suspension as read with the Project, then this month's uploads, then
\* storage.  No caller passes video_seconds, so their limit is compared with nothing and
\* they are left out.
WithinQuota(q) ==
    /\ q \notin sawSuspended
    /\ IsUpload(q) => uploads[month] < MaxVideos
    /\ storage < MaxStorage

\* check_quota passes, or raises and the transaction is rolled back.
CheckQuota(q) ==
    /\ pc[q] = "authenticated"
    /\ \/ /\ WithinQuota(q)
          /\ pc' = [pc EXCEPT ![q] = "admitted"]
          /\ checkedLater' = IF sent[q].began = month THEN checkedLater
                             ELSE checkedLater \cup {q}
          /\ UNCHANGED <<lock, sent, sawSuspended>>
       \/ /\ ~WithinQuota(q)
          /\ Answer(q)
    /\ UNCHANGED <<month, suspended, suspensions, usage, history>>

\* The commit of the rows and of the videos_uploaded event.
Commit(q) ==
    LET m == sent[q].began
        Count(n) == IF IsUpload(q) THEN [n EXCEPT ![m] = @ + 1] ELSE n IN
    /\ pc[q] = "admitted"
    /\ uploads' = Count(uploads)
    /\ straddled' = IF q \in checkedLater THEN Count(straddled) ELSE straddled
    /\ runs' = IF sent[q].kind = "init" THEN runs ELSE runs + 1
    /\ slipped' = IF DoorClosed THEN slipped + 1 ELSE slipped
    /\ Answer(q)
    /\ UNCHANGED <<month, suspended, suspensions, storage>>

\* Variant: the failed request's connection goes back without a rollback.
Fail_KeepsLock(q) ==
    /\ pc[q] \in {"authenticated", "admitted"}
    /\ pc' = [pc EXCEPT ![q] = "answered"]
    /\ UNCHANGED <<month, suspended, suspensions, usage, lock, sent, sawSuspended,
                   checkedLater, history>>

\* Anything raises before the commit (the file, object storage, the database, the
\* process): get_db, or Postgres when the connection drops, rolls back.
Fail(q) ==
    /\ pc[q] \in {"authenticated", "admitted"}
    /\ Answer(q)
    /\ UNCHANGED <<month, suspended, suspensions, usage, history>>

-----------------------------------------------------------------------------
(* Around it.                                                               *)

\* Variant: a run is finished again by a second delivery of its message.
RunEnds_Again ==
    /\ runs' = runs - 1
    /\ \/ \E c \in Costs :
             /\ storage' = storage + c
             /\ slipped' = IF ~DoorClosed THEN 0 ELSE slipped
       \/ UNCHANGED <<storage, slipped>>
    /\ UNCHANGED <<month, suspended, suspensions, uploads, lock, requests, straddled>>

\* A worker finishes a run: completed, its usage events are committed with it; or in
\* error, and it consumed nothing.
RunEnds ==
    /\ runs > 0
    /\ runs' = runs - 1
    /\ \/ \E c \in Costs :
             /\ storage' = storage + c
             /\ slipped' = IF ~DoorClosed THEN 0 ELSE slipped
       \/ UNCHANGED <<storage, slipped>>
    /\ UNCHANGED <<month, suspended, suspensions, uploads, lock, requests, straddled>>

NewMonth ==
    /\ month < Months
    /\ month' = month + 1
    /\ UNCHANGED <<suspended, suspensions, usage, lock, requests, history>>

\* An operator sets or clears is_suspended on the Project row.
Suspend ==
    /\ ~suspended
    /\ suspensions < Suspensions
    /\ suspended' = TRUE
    /\ suspensions' = suspensions + 1
    /\ slipped' = IF ~DoorClosed THEN 0 ELSE slipped
    /\ UNCHANGED <<month, usage, lock, requests, straddled>>

Resume ==
    /\ suspended
    /\ suspended' = FALSE
    /\ UNCHANGED <<month, suspensions, usage, lock, requests, history>>

RequestStep(q) == Authenticate(q) \/ CheckQuota(q) \/ Commit(q)

Next ==
    \/ \E q \in Requests :
          \/ \E kind \in Kinds, k \in Keys : Send(q, kind, k)
          \/ RequestStep(q) \/ Fail(q)
    \/ RunEnds \/ NewMonth \/ Suspend \/ Resume

Spec == Init /\ [][Next]_vars

-----------------------------------------------------------------------------
(***************************************************************************)
(* Properties.                                                             *)
(***************************************************************************)

\* A month's uploads overshoot the limit by at most one request per further key,
\* plus those that began before midnight of the last day and were checked after it:
\* the check is not atomic with the insert, only the key's row lock keeps it honest.
UploadOvershootBounded ==
    \A m \in 0..Months : uploads[m] <= MaxVideos + (Cardinality(Keys) - 1) + straddled[m]

\* Once the project is suspended, or its storage ceiling reached, at most one request
\* per key still gets its work committed.
DoorHolds == DoorClosed => slipped <= Cardinality(Keys)

\* A lock is held by exactly the request that is using its key: no answered request
\* keeps a key from its successors, and no two requests share one.
LocksInUse ==
    /\ \A q \in Requests :
          pc[q] \in {"authenticated", "admitted"} => lock[sent[q].key] = q
    /\ \A k \in Keys : lock[k] # NoRequest =>
          /\ sent[lock[k]].key = k
          /\ pc[lock[k]] \in {"authenticated", "admitted"}

\* README.md:561 gives max_videos_per_month as the videos that can be uploaded per month:
\* no month's uploads, of whichever keys, exceed it.
MonthlyUploadsWithinLimit == \A m \in 0..Months : uploads[m] <= MaxVideos
=============================================================================
