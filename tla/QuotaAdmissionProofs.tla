------------------------ MODULE QuotaAdmissionProofs ------------------------
(***************************************************************************)
(* Proofs about QuotaAdmission for every number of requests, keys, months  *)
(* and every limit.  The argument counts keys: each bound is the committed *)
(* work plus the keys whose lock holder is still on its way to a commit,   *)
(* and there are never more such keys than keys.                           *)
(***************************************************************************)
EXTENDS QuotaAdmission, FiniteSetTheorems, TLAPS

InTransaction(q) == pc[q] \in {"authenticated", "admitted"}

\* A request that was sent and not answered uses one of the project's keys.
KeysKnown == \A q \in Requests :
    pc[q] \in {"waiting", "authenticated", "admitted"} => sent[q].key \in Keys

\* The keys whose holder will add to the uploads of m, where it was also checked.
Admitted(m) == {k \in Keys :
    /\ lock[k] # NoRequest
    /\ pc[lock[k]] = "admitted"
    /\ IsUpload(lock[k])
    /\ sent[lock[k]].began = m
    /\ lock[k] \notin checkedLater}

\* The keys whose holder may still commit after the door has closed.
Slippers == {k \in Keys :
    /\ lock[k] # NoRequest
    /\ \/ pc[lock[k]] = "admitted"
       \/ /\ pc[lock[k]] = "authenticated"
          /\ lock[k] \notin sawSuspended
          /\ storage < MaxStorage}

UploadsCounted == \A m \in 0..Months :
    uploads[m] + Cardinality(Admitted(m)) <= MaxVideos + (Cardinality(Keys) - 1) + straddled[m]

SlippersCounted == DoorClosed => slipped + Cardinality(Slippers) <= Cardinality(Keys)

LInv == TypeOK /\ KeysKnown /\ LocksInUse
IInv == LInv /\ UploadsCounted /\ SlippersCounted

-----------------------------------------------------------------------------
\* Sets of keys have a size, and smaller sets a smaller one.
LEMMA KeySets ==
    /\ Cardinality(Keys) \in Nat \ {0}
    /\ \A S \in SUBSET Keys : Cardinality(S) \in Nat /\ Cardinality(S) <= Cardinality(Keys)
    /\ \A S, T \in SUBSET Keys : S \subseteq T => Cardinality(S) <= Cardinality(T)
    /\ \A T \in SUBSET Keys, k \in Keys : k \in T => Cardinality(T \ {k}) = Cardinality(T) - 1
  <1>1. IsFiniteSet(Keys) /\ Keys # {}
    BY QuotaAssumption
  <1>2. \A S \in SUBSET Keys : IsFiniteSet(S)
    BY <1>1, FS_Subset
  <1>3. \A S \in SUBSET Keys : Cardinality(S) \in Nat
    BY <1>2, FS_CardinalityType
  <1>4. ASSUME NEW S \in SUBSET Keys, NEW T \in SUBSET Keys, S \subseteq T
        PROVE  Cardinality(S) <= Cardinality(T)
    BY <1>2, <1>4, FS_Subset
  <1>5. ASSUME NEW T \in SUBSET Keys, NEW k \in Keys, k \in T
        PROVE  Cardinality(T \ {k}) = Cardinality(T) - 1
    BY <1>2, <1>5, FS_RemoveElement
  <1>6. Keys \in SUBSET Keys /\ Cardinality(Keys) # 0
    BY <1>1, FS_EmptySet
  <1> QED BY <1>3, <1>4, <1>5, <1>6

LEMMA InitIInv == Init => IInv
  <1> SUFFICES ASSUME Init PROVE IInv
    OBVIOUS
  <1> USE QuotaAssumption
  <1>1. TypeOK
    <2>1. Nothing \in [kind : Kinds, key : Keys \cup {NoKey}, began : 0..Months]
      BY DEF Nothing, Kinds
    <2>2. sent \in [Requests -> [kind : Kinds, key : Keys \cup {NoKey}, began : 0..Months]]
      BY <2>1 DEF Init
    <2>3. uploads \in [0..Months -> Nat] /\ straddled \in [0..Months -> Nat]
      BY DEF Init
    <2>4. lock \in [Keys -> Requests \cup {NoRequest}] /\ pc \in [Requests -> Pcs]
      BY DEF Init, Pcs
    <2>5. suspended \in BOOLEAN
      BY DEF Init
    <2>6. /\ month \in 0..Months /\ suspensions \in 0..Suspensions
          /\ storage \in Nat /\ runs \in Nat /\ slipped \in Nat
          /\ sawSuspended \subseteq Requests /\ checkedLater \subseteq Requests
      BY DEF Init
    <2> QED BY <2>2, <2>3, <2>4, <2>5, <2>6 DEF TypeOK
  <1>2. KeysKnown /\ LocksInUse
    BY DEF Init, KeysKnown, LocksInUse, Nothing
  <1>3. UploadsCounted
    <2>1. \A m \in 0..Months : Admitted(m) = {}
      BY DEF Init, Admitted
    <2>2. Cardinality({}) = 0
      BY FS_EmptySet
    <2>3. \A m \in 0..Months : uploads[m] = 0 /\ straddled[m] = 0
      BY DEF Init
    <2>4. Cardinality(Keys) \in Nat \ {0}
      BY KeySets
    <2>5. \A m \in 0..Months : Cardinality(Admitted(m)) = 0
      BY <2>1, <2>2
    <2> QED BY <2>3, <2>4, <2>5 DEF UploadsCounted
  <1>4. SlippersCounted
    <2>1. Slippers = {} /\ Cardinality({}) = 0
      BY FS_EmptySet DEF Init, Slippers
    <2> QED BY <2>1, KeySets DEF Init, SlippersCounted
  <1> QED BY <1>1, <1>2, <1>3, <1>4 DEF IInv, LInv

-----------------------------------------------------------------------------
(* Types and locks.                                                         *)

\* Who holds a lock is in its transaction, with that key.
LEMMA HoldersKnown ==
    ASSUME LInv, NEW k \in Keys, lock[k] # NoRequest
    PROVE  lock[k] \in Requests /\ InTransaction(lock[k]) /\ sent[lock[k]].key = k
  <1>1. lock[k] \in Requests
    BY DEF LInv, TypeOK
  <1> QED BY <1>1 DEF LInv, LocksInUse, InTransaction

LEMMA Bump ==
    ASSUME NEW f \in [0..Months -> Nat], NEW m \in 0..Months, NEW n \in Nat
    PROVE  [f EXCEPT ![m] = @ + n] \in [0..Months -> Nat]
  OBVIOUS

\* The end of a transaction, whatever ended it.
LEMMA AnswerFacts ==
    ASSUME LInv, NEW q \in Requests, InTransaction(q), Answer(q)
    PROVE  /\ sent[q].key \in Keys /\ lock[sent[q].key] = q
           /\ lock'[sent[q].key] = NoRequest
           /\ \A k \in Keys : k # sent[q].key => lock'[k] = lock[k] /\ lock[k] # q
           /\ \A r \in Requests : r # q => pc'[r] = pc[r] /\ sent'[r] = sent[r]
           /\ pc'[q] = "answered"
           /\ lock' \in [Keys -> Requests \cup {NoRequest}]
  BY QuotaAssumption DEF LInv, TypeOK, KeysKnown, LocksInUse, InTransaction, Answer

LEMMA AnswerLInv ==
    ASSUME LInv, NEW q \in Requests, InTransaction(q), Answer(q),
           UNCHANGED <<month, suspended, suspensions>>,
           uploads' \in [0..Months -> Nat], storage' \in Nat,
           runs' \in Nat, straddled' \in [0..Months -> Nat], slipped' \in Nat
    PROVE  LInv'
  <1> USE QuotaAssumption
  <1>1. TypeOK'
    <2>1. suspended' \in BOOLEAN
      BY DEF LInv, TypeOK
    <2>2. lock' \in [Keys -> Requests \cup {NoRequest}] /\ pc' \in [Requests -> Pcs]
      BY DEF LInv, TypeOK, Answer, Pcs
    <2>3. sent' \in [Requests -> [kind : Kinds, key : Keys \cup {NoKey}, began : 0..Months]]
      <3>1. Nothing \in [kind : Kinds, key : Keys \cup {NoKey}, began : 0..Months]
        BY DEF Nothing, Kinds
      <3> QED BY <3>1 DEF LInv, TypeOK, Answer
    <2>4. month' \in 0..Months /\ suspensions' \in 0..Suspensions
      BY DEF LInv, TypeOK
    <2>5. sawSuspended' \subseteq Requests /\ checkedLater' \subseteq Requests
      BY DEF LInv, TypeOK, Answer
    <2> QED BY <2>1, <2>2, <2>3, <2>4, <2>5 DEF TypeOK
  <1>2. /\ sent[q].key \in Keys /\ lock[sent[q].key] = q
        /\ lock'[sent[q].key] = NoRequest
        /\ \A k \in Keys : k # sent[q].key => lock'[k] = lock[k] /\ lock[k] # q
        /\ \A r \in Requests : r # q => pc'[r] = pc[r] /\ sent'[r] = sent[r]
        /\ pc'[q] = "answered"
    BY AnswerFacts
  <1>3. KeysKnown'
    BY <1>2 DEF LInv, KeysKnown
  <1>4. LocksInUse'
    <2>1. ASSUME NEW r \in Requests, pc'[r] \in {"authenticated", "admitted"}
          PROVE  lock'[sent'[r].key] = r
      <3>1. r # q /\ pc'[r] = pc[r] /\ sent'[r] = sent[r]
        BY <2>1, <1>2
      <3>2. sent[r].key \in Keys /\ lock[sent[r].key] = r
        BY <2>1, <3>1 DEF LInv, KeysKnown, LocksInUse
      <3> QED BY <1>2, <3>1, <3>2
    <2>2. ASSUME NEW k \in Keys, lock'[k] # NoRequest
          PROVE  sent'[lock'[k]].key = k /\ pc'[lock'[k]] \in {"authenticated", "admitted"}
      <3>1. lock'[k] = lock[k] /\ lock[k] # q
        BY <2>2, <1>2
      <3>2. /\ lock[k] \in Requests /\ sent[lock[k]].key = k
            /\ pc[lock[k]] \in {"authenticated", "admitted"}
        BY <2>2, <3>1 DEF LInv, TypeOK, LocksInUse
      <3> QED BY <1>2, <3>1, <3>2
    <2> QED BY <2>1, <2>2 DEF LocksInUse
  <1> QED BY <1>1, <1>3, <1>4 DEF LInv

LEMMA NextLInv == LInv /\ [Next]_vars => LInv'
  <1> SUFFICES ASSUME LInv, [Next]_vars PROVE LInv'
    OBVIOUS
  <1> USE QuotaAssumption
  <1>1. CASE UNCHANGED vars
    BY <1>1 DEF vars, usage, requests, history, LInv, TypeOK, KeysKnown, LocksInUse
  <1>2. ASSUME NEW q \in Requests, NEW kind \in Kinds, NEW k \in Keys, Send(q, kind, k) PROVE LInv'
    <2>1. TypeOK'
      BY <1>2 DEF LInv, TypeOK, Send, Nothing, Kinds, Pcs, usage, requests, history
    <2>2. KeysKnown'
      BY <1>2 DEF LInv, TypeOK, Send, KeysKnown, Nothing
    <2>3. LocksInUse'
      <3>1. /\ UNCHANGED lock /\ pc[q] = "unsent" /\ pc'[q] = "waiting"
            /\ \A r \in Requests : r # q => pc'[r] = pc[r] /\ sent'[r] = sent[r]
        BY <1>2 DEF LInv, TypeOK, Send
      <3>2. \A j \in Keys : lock[j] # NoRequest => lock[j] \in Requests /\ lock[j] # q
        BY <3>1, HoldersKnown DEF InTransaction
      <3>3. \A r \in Requests : pc'[r] \in {"authenticated", "admitted"} => r # q
        BY <3>1
      <3> QED BY <3>1, <3>2, <3>3 DEF LInv, LocksInUse
    <2> QED BY <2>1, <2>2, <2>3 DEF LInv
  <1>3. ASSUME NEW q \in Requests, Authenticate(q) PROVE LInv'
    <2>0. /\ lock' \in [Keys -> Requests \cup {NoRequest}] /\ pc' \in [Requests -> Pcs]
          /\ sawSuspended' \subseteq Requests
      BY <1>3 DEF LInv, TypeOK, Authenticate, Pcs
    <2>1. TypeOK'
      BY <1>3, <2>0 DEF LInv, TypeOK, Authenticate, usage, history
    <2>2. KeysKnown'
      BY <1>3 DEF LInv, TypeOK, Authenticate, KeysKnown
    <2>3. /\ sent[q].key \in Keys /\ lock[sent[q].key] = NoRequest /\ lock'[sent[q].key] = q
          /\ \A k \in Keys : k # sent[q].key => lock'[k] = lock[k]
          /\ pc'[q] = "authenticated" /\ sent' = sent
          /\ \A r \in Requests : r # q => pc'[r] = pc[r]
          /\ pc[q] = "waiting"
      BY <1>3 DEF LInv, TypeOK, Authenticate, KeysKnown
    <2>4. ASSUME NEW r \in Requests, pc'[r] \in {"authenticated", "admitted"}
          PROVE  lock'[sent'[r].key] = r
      <3>1. CASE r = q
        BY <3>1, <2>3
      <3>2. CASE r # q
        <4>1. sent[r].key \in Keys /\ lock[sent[r].key] = r
          BY <2>3, <2>4, <3>2 DEF LInv, KeysKnown, LocksInUse
        <4> QED BY <2>3, <4>1
      <3> QED BY <3>1, <3>2
    <2>5. ASSUME NEW k \in Keys, lock'[k] # NoRequest
          PROVE  sent'[lock'[k]].key = k /\ pc'[lock'[k]] \in {"authenticated", "admitted"}
      <3>1. CASE k = sent[q].key
        BY <3>1, <2>3
      <3>2. CASE k # sent[q].key
        <4>1. lock'[k] = lock[k] /\ lock[k] \in Requests
          BY <2>3, <2>5, <3>2 DEF LInv, TypeOK
        <4>2. sent[lock[k]].key = k /\ pc[lock[k]] \in {"authenticated", "admitted"}
          BY <2>5, <4>1 DEF LInv, LocksInUse
        <4>3. lock[k] # q
          BY <2>3, <4>2
        <4> QED BY <2>3, <4>1, <4>2, <4>3
      <3> QED BY <3>1, <3>2
    <2>6. LocksInUse'
      BY <2>4, <2>5 DEF LocksInUse
    <2> QED BY <2>1, <2>2, <2>6 DEF LInv
  <1>4. ASSUME NEW q \in Requests, CheckQuota(q) PROVE LInv'
    <2>1. CASE WithinQuota(q)
      <3>0. ~Answer(q)
        BY <1>4, <2>1 DEF LInv, TypeOK, CheckQuota, Answer
      <3>1. TypeOK'
        BY <1>4, <2>1 DEF LInv, TypeOK, CheckQuota, Pcs, usage, requests, history
      <3>2. /\ UNCHANGED <<lock, sent>> /\ pc[q] = "authenticated" /\ pc'[q] = "admitted"
            /\ \A r \in Requests : r # q => pc'[r] = pc[r]
        BY <1>4, <2>1 DEF LInv, TypeOK, CheckQuota
      <3>3. KeysKnown'
        BY <3>2 DEF LInv, KeysKnown
      <3>4. LocksInUse'
        <4>1. \A r \in Requests : pc'[r] \in {"authenticated", "admitted"}
                                    => pc[r] \in {"authenticated", "admitted"}
          BY <3>2
        <4>2. \A r \in Requests : pc[r] \in {"authenticated", "admitted"}
                                    => pc'[r] \in {"authenticated", "admitted"}
          BY <3>2
        <4>3. \A k \in Keys : lock[k] # NoRequest => lock[k] \in Requests
          BY DEF LInv, TypeOK
        <4> QED BY <3>2, <4>1, <4>2, <4>3 DEF LInv, LocksInUse
      <3> QED BY <3>1, <3>3, <3>4 DEF LInv
    <2>2. CASE ~WithinQuota(q)
      BY <1>4, <2>2, AnswerLInv DEF CheckQuota, InTransaction, LInv, TypeOK, usage, requests, history
    <2> QED BY <2>1, <2>2
  <1>5. ASSUME NEW q \in Requests, Commit(q) PROVE LInv'
    <2>1. /\ uploads' \in [0..Months -> Nat]
          /\ straddled' \in [0..Months -> Nat]
          /\ runs' \in Nat /\ slipped' \in Nat
          /\ UNCHANGED storage
      <3>1. /\ uploads' \in [0..Months -> Nat]
            /\ straddled' \in [0..Months -> Nat]
        <4>1. CASE IsUpload(q)
          <5>1. PICK m \in 0..Months : m = sent[q].began
            BY DEF LInv, TypeOK
          <5>2. /\ uploads' = [uploads EXCEPT ![m] = @ + 1]
                /\ straddled' = [straddled EXCEPT ![m] = @ + 1] \/ straddled' = straddled
            BY <1>5, <4>1, <5>1 DEF Commit
          <5>3. uploads' \in [0..Months -> Nat]
            BY <5>2, Bump DEF LInv, TypeOK
          <5>4. straddled' \in [0..Months -> Nat]
            <6>1. straddled \in [0..Months -> Nat]
              BY DEF LInv, TypeOK
            <6>2. [straddled EXCEPT ![m] = @ + 1] \in [0..Months -> Nat]
              BY <6>1, Bump
            <6> QED BY <5>2, <6>1, <6>2
          <5> QED BY <5>3, <5>4
        <4>2. CASE ~IsUpload(q)
          BY <1>5, <4>2 DEF LInv, TypeOK, Commit
        <4> QED BY <4>1, <4>2
      <3>2. runs' \in Nat
        BY <1>5 DEF LInv, TypeOK, Commit
      <3>3. slipped' \in Nat
        BY <1>5 DEF LInv, TypeOK, Commit
      <3> QED BY <1>5, <3>1, <3>2, <3>3 DEF Commit
    <2> QED BY <1>5, <2>1, AnswerLInv DEF Commit, InTransaction, LInv, TypeOK
  <1>6. ASSUME NEW q \in Requests, Fail(q) PROVE LInv'
    BY <1>6, AnswerLInv DEF Fail, InTransaction, LInv, TypeOK, usage, requests, history
  <1>7. CASE RunEnds
    <2>1. \A c \in Costs : c \in Nat
      OBVIOUS
    <2>2. TypeOK'
      <3>1. runs' \in Nat
        BY <1>7 DEF LInv, TypeOK, RunEnds
      <3>2. storage' \in Nat /\ slipped' \in Nat
        <4>1. CASE UNCHANGED <<storage, slipped>>
          BY <4>1 DEF LInv, TypeOK
        <4>2. ASSUME NEW c \in Costs, storage' = storage + c,
                     slipped' = IF ~DoorClosed THEN 0 ELSE slipped
              PROVE  storage' \in Nat /\ slipped' \in Nat
          <5>1. storage' \in Nat
            BY <2>1, <4>2 DEF LInv, TypeOK
          <5>2. slipped' \in Nat
            BY <4>2 DEF LInv, TypeOK
          <5> QED BY <5>1, <5>2
        <4> QED BY <1>7, <4>1, <4>2 DEF RunEnds
      <3> QED BY <1>7, <3>1, <3>2 DEF LInv, TypeOK, RunEnds, requests
    <2> QED BY <1>7, <2>2 DEF LInv, RunEnds, KeysKnown, LocksInUse, requests
  <1>8. CASE NewMonth
    <2>1. month' \in 0..Months /\ UNCHANGED <<suspended, suspensions, usage, lock, requests, history>>
      BY <1>8 DEF LInv, TypeOK, NewMonth
    <2>2. TypeOK'
      BY <2>1 DEF LInv, TypeOK, usage, requests, history
    <2>3. KeysKnown' /\ LocksInUse'
      BY <2>1 DEF LInv, KeysKnown, LocksInUse, requests
    <2> QED BY <2>2, <2>3 DEF LInv
  <1>9. CASE Suspend \/ Resume
    <2>1. suspended' \in BOOLEAN /\ suspensions' \in 0..Suspensions /\ slipped' \in Nat
      <3>1. suspended' \in BOOLEAN
        BY <1>9 DEF Suspend, Resume
      <3>2. suspensions' \in 0..Suspensions
        BY <1>9 DEF LInv, TypeOK, Suspend, Resume
      <3>3. slipped' \in Nat
        BY <1>9 DEF LInv, TypeOK, Suspend, Resume, history
      <3> QED BY <3>1, <3>2, <3>3
    <2>2. UNCHANGED <<month, usage, lock, requests, straddled>>
      BY <1>9 DEF Suspend, Resume, history
    <2>3. TypeOK'
      BY <2>1, <2>2 DEF LInv, TypeOK, usage, requests
    <2>4. KeysKnown' /\ LocksInUse'
      BY <2>2 DEF LInv, KeysKnown, LocksInUse, requests
    <2> QED BY <2>3, <2>4 DEF LInv
  <1> QED BY <1>1, <1>2, <1>3, <1>4, <1>5, <1>6, <1>7, <1>8, <1>9 DEF Next, RequestStep

-----------------------------------------------------------------------------
(* Uploads.                                                                 *)

\* A step after which no key admits more than before, and no upload was added.
LEMMA UploadsStayCounted ==
    ASSUME TypeOK, UploadsCounted, UNCHANGED <<uploads, straddled>>,
           \A m \in 0..Months : Admitted(m)' \subseteq Admitted(m)
    PROVE  UploadsCounted'
  <1> SUFFICES ASSUME NEW m \in 0..Months
               PROVE  uploads'[m] + Cardinality(Admitted(m)')
                        <= MaxVideos + (Cardinality(Keys) - 1) + straddled'[m]
    BY DEF UploadsCounted
  <1>1. Admitted(m) \in SUBSET Keys /\ Admitted(m)' \in SUBSET Keys
    BY DEF Admitted
  <1>2. /\ Cardinality(Admitted(m)') <= Cardinality(Admitted(m))
        /\ Cardinality(Admitted(m)') \in Nat /\ Cardinality(Admitted(m)) \in Nat
        /\ Cardinality(Keys) \in Nat
    BY <1>1, KeySets
  <1>3. uploads'[m] = uploads[m] /\ straddled'[m] = straddled[m]
        /\ uploads[m] \in Nat /\ straddled[m] \in Nat /\ MaxVideos \in Nat
    BY QuotaAssumption DEF TypeOK
  <1> QED BY <1>2, <1>3 DEF UploadsCounted

\* Leaving a transaction takes the request's key out of every count of keys.
LEMMA AnswerAdmits ==
    ASSUME LInv, NEW q \in Requests, InTransaction(q), Answer(q)
    PROVE  \A m : Admitted(m)' \subseteq Admitted(m) \ {sent[q].key}
  <1> SUFFICES ASSUME NEW m, NEW k \in Admitted(m)' PROVE k \in Admitted(m) \ {sent[q].key}
    OBVIOUS
  <1>1. k \in Keys /\ lock'[k] # NoRequest /\ pc'[lock'[k]] = "admitted" /\ IsUpload(lock[k])'
          /\ sent'[lock'[k]].began = m /\ lock'[k] \notin checkedLater'
    BY DEF Admitted
  <1>2. k # sent[q].key /\ lock'[k] = lock[k] /\ lock[k] # q
    BY <1>1, AnswerFacts
  <1>3. lock[k] \in Requests
    BY <1>1, <1>2 DEF LInv, TypeOK
  <1>4. pc'[lock[k]] = pc[lock[k]] /\ sent'[lock[k]] = sent[lock[k]]
    BY <1>2, <1>3, AnswerFacts
  <1>5. lock[k] \notin checkedLater
    BY <1>1, <1>2 DEF Answer
  <1>6. IsUpload(lock[k])
    BY <1>1, <1>2, <1>4 DEF IsUpload
  <1> QED BY <1>1, <1>2, <1>4, <1>5, <1>6 DEF Admitted

\* Admission adds only the request's own key, and only in the month it was checked.
LEMMA CheckAdmits ==
    ASSUME LInv, NEW q \in Requests, CheckQuota(q), WithinQuota(q), NEW m \in 0..Months
    PROVE  \/ Admitted(m)' \subseteq Admitted(m)
           \/ m = month /\ IsUpload(q)
  <1> SUFFICES ASSUME ~(m = month /\ IsUpload(q)), NEW k \in Admitted(m)'
               PROVE  k \in Admitted(m)
    OBVIOUS
  <1>1. /\ UNCHANGED <<lock, sent>>
        /\ \A r \in Requests : r # q => pc'[r] = pc[r]
        /\ checkedLater' = IF sent[q].began = month THEN checkedLater ELSE checkedLater \cup {q}
    BY DEF CheckQuota, LInv, TypeOK, Answer
  <1>2. k \in Keys /\ lock[k] # NoRequest /\ pc'[lock[k]] = "admitted" /\ IsUpload(lock[k])
          /\ sent[lock[k]].began = m /\ lock[k] \notin checkedLater'
    BY <1>1 DEF Admitted, IsUpload
  <1>3. lock[k] # q
    BY <1>1, <1>2
  <1>4. lock[k] \in Requests
    BY <1>2 DEF LInv, TypeOK
  <1> QED BY <1>1, <1>2, <1>3, <1>4 DEF Admitted

LEMMA NextUploads == LInv /\ UploadsCounted /\ [Next]_vars => UploadsCounted'
  <1> SUFFICES ASSUME LInv, UploadsCounted, [Next]_vars PROVE UploadsCounted'
    OBVIOUS
  <1> USE QuotaAssumption
  <1>t. TypeOK
    BY DEF LInv
  <1>1. CASE UNCHANGED <<uploads, straddled, lock, pc, sent, checkedLater>>
    <2>1. \A m : Admitted(m)' = Admitted(m)
      BY <1>1 DEF Admitted, IsUpload
    <2> QED BY <1>1, <1>t, <2>1, UploadsStayCounted
  <1>2. ASSUME NEW q \in Requests, NEW kind \in Kinds, NEW k \in Keys, Send(q, kind, k)
        PROVE  UploadsCounted'
    <2>1. /\ UNCHANGED <<lock, checkedLater, uploads, straddled>> /\ pc[q] = "unsent"
          /\ \A r \in Requests : r # q => pc'[r] = pc[r] /\ sent'[r] = sent[r]
      BY <1>2 DEF LInv, TypeOK, Send, usage, history
    <2>2. \A j \in Keys : lock[j] # NoRequest => lock[j] \in Requests /\ lock[j] # q
      BY <2>1, HoldersKnown DEF InTransaction
    <2>3. \A m : Admitted(m)' \subseteq Admitted(m)
      BY <2>1, <2>2 DEF Admitted, IsUpload
    <2> QED BY <1>t, <2>1, <2>3, UploadsStayCounted
  <1>3. ASSUME NEW q \in Requests, Authenticate(q) PROVE UploadsCounted'
    <2>1. /\ UNCHANGED <<sent, checkedLater, uploads, straddled>>
          /\ pc'[q] = "authenticated" /\ lock'[sent[q].key] = q
          /\ \A k \in Keys : k # sent[q].key => lock'[k] = lock[k]
          /\ \A r \in Requests : r # q => pc'[r] = pc[r]
          /\ pc[q] = "waiting"
      BY <1>3 DEF LInv, TypeOK, Authenticate, KeysKnown, usage, history
    <2>2. ASSUME NEW m, NEW k \in Admitted(m)' PROVE k \in Admitted(m)
      <3>1. k \in Keys /\ lock'[k] # NoRequest /\ pc'[lock'[k]] = "admitted"
            /\ IsUpload(lock'[k]) /\ sent[lock'[k]].began = m /\ lock'[k] \notin checkedLater
        BY <2>1, <2>2 DEF Admitted, IsUpload
      <3>2. k # sent[q].key /\ lock'[k] = lock[k]
        BY <2>1, <3>1
      <3>3. lock[k] \in Requests /\ lock[k] # q
        BY <2>1, <3>1, <3>2 DEF LInv, TypeOK
      <3> QED BY <2>1, <3>1, <3>2, <3>3 DEF Admitted
    <2> QED BY <1>t, <2>1, <2>2, UploadsStayCounted
  <1>4. ASSUME NEW q \in Requests, CheckQuota(q) PROVE UploadsCounted'
    <2>0. UNCHANGED <<uploads, straddled>>
      BY <1>4 DEF CheckQuota, usage, history
    <2>1. CASE WithinQuota(q)
      <3> SUFFICES ASSUME NEW m \in 0..Months
                   PROVE  uploads'[m] + Cardinality(Admitted(m)')
                            <= MaxVideos + (Cardinality(Keys) - 1) + straddled'[m]
        BY DEF UploadsCounted
      <3>1. Admitted(m) \in SUBSET Keys /\ Admitted(m)' \in SUBSET Keys
        BY DEF Admitted
      <3>2. /\ Cardinality(Admitted(m)') \in Nat /\ Cardinality(Admitted(m)) \in Nat
            /\ Cardinality(Admitted(m)') <= Cardinality(Keys)
            /\ Cardinality(Keys) \in Nat
            /\ Admitted(m)' \subseteq Admitted(m)
                 => Cardinality(Admitted(m)') <= Cardinality(Admitted(m))
        BY <3>1, KeySets
      <3>3. uploads'[m] = uploads[m] /\ straddled'[m] = straddled[m]
              /\ uploads[m] \in Nat /\ straddled[m] \in Nat
        BY <1>t, <2>0 DEF TypeOK
      <3>4. CASE Admitted(m)' \subseteq Admitted(m)
        BY <3>2, <3>3, <3>4 DEF UploadsCounted
      <3>5. CASE m = month /\ IsUpload(q)
        <4>1. uploads[m] < MaxVideos
          BY <2>1, <3>5 DEF WithinQuota
        <4> QED BY <3>2, <3>3, <4>1
      <3> QED BY <1>4, <2>1, <3>4, <3>5, CheckAdmits
    <2>2. CASE ~WithinQuota(q)
      <3>1. Answer(q) /\ InTransaction(q)
        BY <1>4, <2>2 DEF CheckQuota, InTransaction
      <3> QED BY <1>t, <2>0, <3>1, AnswerAdmits, UploadsStayCounted
    <2> QED BY <2>1, <2>2
  <1>5. ASSUME NEW q \in Requests, Commit(q) PROVE UploadsCounted'
    <2>1. InTransaction(q) /\ Answer(q) /\ pc[q] = "admitted"
      BY <1>5 DEF Commit, InTransaction
    <2>2. PICK b \in 0..Months : b = sent[q].began
      BY <1>t DEF TypeOK
    <2>3. PICK k \in Keys : k = sent[q].key /\ lock[k] = q
      BY <2>1, AnswerFacts
    <2>4. \A m : Admitted(m)' \subseteq Admitted(m) \ {k}
      BY <2>1, <2>3, AnswerAdmits
    <2>5. CASE ~IsUpload(q)
      <3>1. UNCHANGED <<uploads, straddled>>
        BY <1>5, <2>5 DEF Commit
      <3> QED BY <1>t, <2>4, <3>1, UploadsStayCounted
    <2>6. CASE IsUpload(q)
      <3> SUFFICES ASSUME NEW m \in 0..Months
                   PROVE  uploads'[m] + Cardinality(Admitted(m)')
                            <= MaxVideos + (Cardinality(Keys) - 1) + straddled'[m]
        BY DEF UploadsCounted
      <3>1. /\ Admitted(m) \in SUBSET Keys /\ Admitted(m)' \in SUBSET Keys
            /\ Admitted(m) \ {k} \in SUBSET Keys
        BY DEF Admitted
      <3>2. /\ Cardinality(Admitted(m)') \in Nat /\ Cardinality(Admitted(m)) \in Nat
            /\ Cardinality(Keys) \in Nat
            /\ Cardinality(Admitted(m)') <= Cardinality(Admitted(m))
            /\ k \in Admitted(m) => Cardinality(Admitted(m)') <= Cardinality(Admitted(m)) - 1
        BY <2>4, <3>1, KeySets
      <3>3. uploads[m] \in Nat /\ straddled[m] \in Nat
        BY <1>t DEF TypeOK
      <3>4. CASE m # b
        <4>1. uploads'[m] = uploads[m] /\ straddled'[m] = straddled[m]
          BY <1>5, <1>t, <2>2, <3>4 DEF Commit, TypeOK
        <4> QED BY <3>2, <3>3, <4>1 DEF UploadsCounted
      <3>5. CASE m = b /\ q \in checkedLater
        <4>1. uploads'[m] = uploads[m] + 1 /\ straddled'[m] = straddled[m] + 1
          BY <1>5, <1>t, <2>2, <2>6, <3>5 DEF Commit, TypeOK
        <4> QED BY <3>2, <3>3, <4>1 DEF UploadsCounted
      <3>6. CASE m = b /\ q \notin checkedLater
        <4>1. uploads'[m] = uploads[m] + 1 /\ straddled'[m] = straddled[m]
          BY <1>5, <1>t, <2>2, <2>6, <3>6 DEF Commit, TypeOK
        <4>2. k \in Admitted(m)
          BY <2>1, <2>2, <2>3, <2>6, <3>6 DEF Admitted
        <4> QED BY <3>2, <3>3, <4>1, <4>2 DEF UploadsCounted
      <3> QED BY <3>4, <3>5, <3>6
    <2> QED BY <2>5, <2>6
  <1>6. ASSUME NEW q \in Requests, Fail(q) PROVE UploadsCounted'
    <2>1. Answer(q) /\ InTransaction(q) /\ UNCHANGED <<uploads, straddled>>
      BY <1>6 DEF Fail, InTransaction, usage, history
    <2> QED BY <1>t, <2>1, AnswerAdmits, UploadsStayCounted
  <1>7. RunEnds \/ NewMonth \/ Suspend \/ Resume \/ UNCHANGED vars
          => UNCHANGED <<uploads, straddled, lock, pc, sent, checkedLater>>
    BY DEF RunEnds, NewMonth, Suspend, Resume, vars, usage, requests, history
  <1> QED BY <1>1, <1>2, <1>3, <1>4, <1>5, <1>6, <1>7 DEF Next, RequestStep

-----------------------------------------------------------------------------
(* The door.                                                                *)

LEMMA SlippersStayCounted ==
    ASSUME TypeOK, SlippersCounted, DoorClosed' => DoorClosed, UNCHANGED slipped,
           DoorClosed => Slippers' \subseteq Slippers
    PROVE  SlippersCounted'
  <1> SUFFICES ASSUME DoorClosed' PROVE slipped' + Cardinality(Slippers') <= Cardinality(Keys)
    BY DEF SlippersCounted
  <1>1. Slippers \in SUBSET Keys /\ Slippers' \in SUBSET Keys
    BY DEF Slippers
  <1>2. /\ Cardinality(Slippers') <= Cardinality(Slippers)
        /\ Cardinality(Slippers') \in Nat /\ Cardinality(Slippers) \in Nat
        /\ Cardinality(Keys) \in Nat
    BY <1>1, KeySets
  <1>3. slipped \in Nat
    BY DEF TypeOK
  <1> QED BY <1>2, <1>3 DEF SlippersCounted

\* The moment the door closes nothing has slipped through yet.
LEMMA DoorJustClosed ==
    ASSUME slipped' = 0
    PROVE  SlippersCounted'
  <1>1. Slippers' \in SUBSET Keys
    BY DEF Slippers
  <1>2. Cardinality(Slippers') \in Nat /\ Cardinality(Slippers') <= Cardinality(Keys)
    BY <1>1, KeySets
  <1> QED BY <1>2 DEF SlippersCounted

LEMMA AnswerSlips ==
    ASSUME LInv, NEW q \in Requests, InTransaction(q), Answer(q), UNCHANGED storage
    PROVE  Slippers' \subseteq Slippers \ {sent[q].key}
  <1> SUFFICES ASSUME NEW k \in Slippers' PROVE k \in Slippers \ {sent[q].key}
    OBVIOUS
  <1>1. /\ k \in Keys /\ lock'[k] # NoRequest
        /\ \/ pc'[lock'[k]] = "admitted"
           \/ /\ pc'[lock'[k]] = "authenticated"
              /\ lock'[k] \notin sawSuspended' /\ storage < MaxStorage
    BY DEF Slippers
  <1>2. k # sent[q].key /\ lock'[k] = lock[k] /\ lock[k] # q
    BY <1>1, AnswerFacts
  <1>3. lock[k] \in Requests
    BY <1>1, <1>2, HoldersKnown
  <1>4. pc'[lock[k]] = pc[lock[k]] /\ (lock[k] \notin sawSuspended' => lock[k] \notin sawSuspended)
    BY <1>2, <1>3, AnswerFacts DEF Answer
  <1> QED BY <1>1, <1>2, <1>4 DEF Slippers

LEMMA NextSlippers == LInv /\ SlippersCounted /\ [Next]_vars => SlippersCounted'
  <1> SUFFICES ASSUME LInv, SlippersCounted, [Next]_vars PROVE SlippersCounted'
    OBVIOUS
  <1> USE QuotaAssumption
  <1>t. TypeOK
    BY DEF LInv
  <1>1. CASE UNCHANGED <<suspended, storage, slipped, lock, pc, sawSuspended>>
    <2>1. Slippers' = Slippers /\ (DoorClosed' <=> DoorClosed)
      BY <1>1 DEF Slippers, DoorClosed
    <2> QED BY <1>1, <1>t, <2>1, SlippersStayCounted
  <1>2. ASSUME NEW q \in Requests, NEW kind \in Kinds, NEW k \in Keys, Send(q, kind, k)
        PROVE  SlippersCounted'
    <2>1. /\ UNCHANGED <<lock, sawSuspended, storage, slipped, suspended>> /\ pc[q] = "unsent"
          /\ \A r \in Requests : r # q => pc'[r] = pc[r]
      BY <1>2 DEF LInv, TypeOK, Send, usage, history
    <2>2. \A j \in Keys : lock[j] # NoRequest => lock[j] \in Requests /\ lock[j] # q
      BY <2>1, HoldersKnown DEF InTransaction
    <2>3. Slippers' \subseteq Slippers /\ (DoorClosed' <=> DoorClosed)
      BY <2>1, <2>2 DEF Slippers, DoorClosed
    <2> QED BY <1>t, <2>1, <2>3, SlippersStayCounted
  <1>3. ASSUME NEW q \in Requests, Authenticate(q) PROVE SlippersCounted'
    <2>1. /\ UNCHANGED <<storage, slipped, suspended>>
          /\ pc'[q] = "authenticated" /\ lock'[sent[q].key] = q
          /\ \A k \in Keys : k # sent[q].key => lock'[k] = lock[k]
          /\ \A r \in Requests : r # q => pc'[r] = pc[r]
          /\ pc[q] = "waiting"
          /\ sawSuspended' = IF suspended THEN sawSuspended \cup {q} ELSE sawSuspended
      BY <1>3 DEF LInv, TypeOK, Authenticate, KeysKnown, usage, history
    <2>2. ASSUME DoorClosed, NEW k \in Slippers' PROVE k \in Slippers
      <3>1. /\ k \in Keys /\ lock'[k] # NoRequest
            /\ \/ pc'[lock'[k]] = "admitted"
               \/ /\ pc'[lock'[k]] = "authenticated"
                  /\ lock'[k] \notin sawSuspended' /\ storage < MaxStorage
        BY <2>1, <2>2 DEF Slippers
      <3>2. k # sent[q].key
        <4>1. CASE suspended
          BY <2>1, <3>1, <4>1
        <4>2. CASE ~suspended
          BY <1>t, <2>1, <2>2, <3>1, <4>2 DEF DoorClosed, TypeOK
        <4> QED BY <4>1, <4>2
      <3>3. lock'[k] = lock[k]
        BY <2>1, <3>1, <3>2
      <3>4. lock[k] \in Requests /\ InTransaction(lock[k])
        BY <3>1, <3>3, HoldersKnown
      <3>5. lock[k] # q
        BY <2>1, <3>4 DEF InTransaction
      <3>6. pc'[lock[k]] = pc[lock[k]] /\ (lock[k] \notin sawSuspended' => lock[k] \notin sawSuspended)
        BY <2>1, <3>4, <3>5
      <3> QED BY <3>1, <3>3, <3>6 DEF Slippers
    <2>3. DoorClosed' <=> DoorClosed
      BY <2>1 DEF DoorClosed
    <2> QED BY <1>t, <2>1, <2>2, <2>3, SlippersStayCounted
  <1>4. ASSUME NEW q \in Requests, CheckQuota(q) PROVE SlippersCounted'
    <2>0. UNCHANGED <<storage, slipped, suspended>> /\ (DoorClosed' <=> DoorClosed)
      BY <1>4 DEF CheckQuota, usage, history, DoorClosed
    <2>1. CASE WithinQuota(q)
      <3>1. /\ UNCHANGED <<lock, sawSuspended>> /\ pc[q] = "authenticated"
            /\ \A r \in Requests : r # q => pc'[r] = pc[r]
            /\ q \notin sawSuspended /\ storage < MaxStorage
        BY <1>4, <1>t, <2>1 DEF CheckQuota, TypeOK, WithinQuota
      <3>2. ASSUME NEW k \in Slippers' PROVE k \in Slippers
        <4>1. /\ k \in Keys /\ lock[k] # NoRequest
              /\ \/ pc'[lock[k]] = "admitted"
                 \/ /\ pc'[lock[k]] = "authenticated"
                    /\ lock[k] \notin sawSuspended /\ storage < MaxStorage
          BY <2>0, <3>1, <3>2 DEF Slippers
        <4>2. CASE lock[k] = q
          BY <3>1, <4>1, <4>2 DEF Slippers
        <4>3. CASE lock[k] # q
          <5>1. pc'[lock[k]] = pc[lock[k]]
            BY <3>1, <4>1, <4>3, HoldersKnown
          <5> QED BY <4>1, <5>1 DEF Slippers
        <4> QED BY <4>2, <4>3
      <3> QED BY <1>t, <2>0, <3>2, SlippersStayCounted
    <2>2. CASE ~WithinQuota(q)
      <3>1. Answer(q) /\ InTransaction(q)
        BY <1>4, <2>2 DEF CheckQuota, InTransaction
      <3> QED BY <1>t, <2>0, <3>1, AnswerSlips, SlippersStayCounted
    <2> QED BY <2>1, <2>2
  <1>5. ASSUME NEW q \in Requests, Commit(q) PROVE SlippersCounted'
    <2>1. InTransaction(q) /\ Answer(q) /\ pc[q] = "admitted" /\ UNCHANGED storage
      BY <1>5 DEF Commit, InTransaction
    <2>2. DoorClosed' <=> DoorClosed
      BY <1>5 DEF Commit, DoorClosed
    <2>3. PICK k \in Keys : k = sent[q].key /\ lock[k] = q
      BY <2>1, AnswerFacts
    <2>4. Slippers' \subseteq Slippers \ {k} /\ k \in Slippers
      BY <2>1, <2>3, AnswerSlips DEF Slippers
    <2>5. ASSUME DoorClosed PROVE slipped' + Cardinality(Slippers') <= Cardinality(Keys)
      <3>1. Slippers \in SUBSET Keys /\ Slippers' \in SUBSET Keys /\ Slippers \ {k} \in SUBSET Keys
        BY DEF Slippers
      <3>2. /\ Cardinality(Slippers') <= Cardinality(Slippers) - 1
            /\ Cardinality(Slippers') \in Nat /\ Cardinality(Slippers) \in Nat
            /\ Cardinality(Keys) \in Nat
        BY <2>4, <3>1, KeySets
      <3>3. slipped' = slipped + 1 /\ slipped \in Nat
        BY <1>5, <1>t, <2>5 DEF Commit, TypeOK
      <3> QED BY <2>5, <3>2, <3>3 DEF SlippersCounted
    <2> QED BY <2>2, <2>5 DEF SlippersCounted
  <1>6. ASSUME NEW q \in Requests, Fail(q) PROVE SlippersCounted'
    <2>1. Answer(q) /\ InTransaction(q) /\ UNCHANGED <<storage, slipped, suspended>>
      BY <1>6 DEF Fail, InTransaction, usage, history
    <2>2. DoorClosed' <=> DoorClosed
      BY <2>1 DEF DoorClosed
    <2> QED BY <1>t, <2>1, <2>2, AnswerSlips, SlippersStayCounted
  <1>7. CASE RunEnds
    <2>1. UNCHANGED <<suspended, lock, pc, sawSuspended>>
      BY <1>7 DEF RunEnds, requests
    <2>2. storage' \in Nat /\ storage' >= storage
            /\ (slipped' = slipped \/ (~DoorClosed /\ slipped' = 0))
            /\ (UNCHANGED storage \/ slipped' = IF ~DoorClosed THEN 0 ELSE slipped)
      <3>1. \A c \in Costs : c \in Nat
        OBVIOUS
      <3>2. CASE UNCHANGED <<storage, slipped>>
        BY <1>t, <3>2 DEF TypeOK
      <3>3. ASSUME NEW c \in Costs, storage' = storage + c,
                   slipped' = IF ~DoorClosed THEN 0 ELSE slipped
            PROVE  storage' \in Nat /\ storage' >= storage
                     /\ (slipped' = slipped \/ (~DoorClosed /\ slipped' = 0))
        BY <1>t, <3>1, <3>3 DEF TypeOK
      <3> QED BY <1>7, <3>2, <3>3 DEF RunEnds
    <2>3. CASE ~DoorClosed /\ slipped' = 0
      BY <2>3, DoorJustClosed
    <2>4. CASE DoorClosed
      <3>1. slipped' = slipped
        BY <2>2, <2>4
      <3>2. storage \in Nat /\ (storage' < MaxStorage => storage < MaxStorage)
        BY <1>t, <2>2 DEF TypeOK
      <3>3. Slippers' \subseteq Slippers
        BY <2>1, <3>2 DEF Slippers
      <3> QED BY <1>t, <2>4, <3>1, <3>3, SlippersStayCounted
    <2>5. CASE ~DoorClosed /\ UNCHANGED <<storage, slipped>>
      BY <1>1, <2>1, <2>5
    <2> QED BY <2>2, <2>3, <2>4, <2>5
  <1>8. CASE Suspend
    <2>1. CASE ~DoorClosed
      BY <1>8, <2>1, DoorJustClosed DEF Suspend
    <2>2. CASE DoorClosed
      <3>1. UNCHANGED <<storage, slipped, lock, pc, sawSuspended>>
        BY <1>8, <2>2 DEF Suspend, usage, requests
      <3>2. Slippers' \subseteq Slippers
        BY <3>1 DEF Slippers
      <3> QED BY <1>t, <2>2, <3>1, <3>2, SlippersStayCounted
    <2> QED BY <2>1, <2>2
  <1>9. CASE Resume
    <2>1. UNCHANGED <<storage, slipped, lock, pc, sawSuspended>> /\ suspended /\ ~suspended'
      BY <1>9 DEF Resume, usage, requests, history
    <2>2. Slippers' \subseteq Slippers /\ DoorClosed
      BY <2>1 DEF Slippers, DoorClosed
    <2> QED BY <1>t, <2>1, <2>2, SlippersStayCounted
  <1>10. NewMonth \/ UNCHANGED vars
           => UNCHANGED <<suspended, storage, slipped, lock, pc, sawSuspended>>
    BY DEF NewMonth, vars, usage, requests, history
  <1> QED BY <1>1, <1>2, <1>3, <1>4, <1>5, <1>6, <1>7, <1>8, <1>9, <1>10 DEF Next, RequestStep

-----------------------------------------------------------------------------
(* The theorems.                                                            *)

\* The inductive invariant: types, locks, and the two counts of keys.
THEOREM AdmissionInvariant == Spec => []IInv
  <1>1. IInv /\ [Next]_vars => IInv'
    BY NextLInv, NextUploads, NextSlippers DEF IInv
  <1> QED BY InitIInv, <1>1, PTL DEF Spec

\* Variables stay within their types, however many keys and requests there are.
THEOREM AdmissionTypes == Spec => []TypeOK
  <1>1. IInv => TypeOK
    BY DEF IInv, LInv
  <1> QED BY <1>1, AdmissionInvariant, PTL

\* A row lock is never left behind, and never shared.
THEOREM LocksAlwaysInUse == Spec => []LocksInUse
  <1>1. IInv => LocksInUse
    BY DEF IInv, LInv
  <1> QED BY <1>1, AdmissionInvariant, PTL

\* Concurrent uploads overshoot the monthly limit by at most |Keys| - 1, whatever the
\* number of requests (straddling the month's end apart).
THEOREM OvershootAlwaysBounded == Spec => []UploadOvershootBounded
  <1>1. IInv => UploadOvershootBounded
    <2> SUFFICES ASSUME IInv, NEW m \in 0..Months
                 PROVE  uploads[m] <= MaxVideos + (Cardinality(Keys) - 1) + straddled[m]
      BY DEF UploadOvershootBounded
    <2>1. Admitted(m) \in SUBSET Keys
      BY DEF Admitted
    <2>2. Cardinality(Admitted(m)) \in Nat /\ Cardinality(Keys) \in Nat
      BY <2>1, KeySets
    <2>3. uploads[m] \in Nat /\ straddled[m] \in Nat /\ MaxVideos \in Nat
      BY QuotaAssumption DEF IInv, LInv, TypeOK
    <2> QED BY <2>2, <2>3 DEF IInv, UploadsCounted
  <1> QED BY <1>1, AdmissionInvariant, PTL

\* A suspension or a full store lets at most |Keys| more requests through.
THEOREM DoorAlwaysHolds == Spec => []DoorHolds
  <1>1. IInv => DoorHolds
    <2> SUFFICES ASSUME IInv, DoorClosed PROVE slipped <= Cardinality(Keys)
      BY DEF DoorHolds
    <2>1. Slippers \in SUBSET Keys
      BY DEF Slippers
    <2>2. Cardinality(Slippers) \in Nat /\ Cardinality(Keys) \in Nat
      BY <2>1, KeySets
    <2>3. slipped \in Nat
      BY DEF IInv, LInv, TypeOK
    <2> QED BY <2>2, <2>3 DEF IInv, SlippersCounted
  <1> QED BY <1>1, AdmissionInvariant, PTL
=============================================================================
