------------------------------- MODULE RunWait -------------------------------
(***************************************************************************)
(* Clients of the Python SDK that wait for a run (wait_for_run_completion in *)
(* motionstate_client/client.py) beside the system of RunLifecycle.  A poll *)
(* is two steps: the API reads the rows, and later the answer arrives; the  *)
(* run may move in between, and while the client sleeps.                    *)
(*                                                                         *)
(* Time is the waiter's own clock, in seconds since the call: it moves with *)
(* the waiter's steps, and the rest of the system does anything in between. *)
(***************************************************************************)
EXTENDS RunLifecycle

CONSTANTS
    Waiters,       \* calls of wait_for_run_completion
    Awaited,       \* the runs that are waited for
    Timeout,       \* its timeout
    PollInterval,  \* its poll_interval
    MaxLatency     \* bound: how long an answer is on its way

ASSUME WaitAssumption ==
    /\ Awaited \subseteq Runs
    /\ Timeout \in Nat
    /\ PollInterval \in Nat \ {0}
    /\ MaxLatency \in Nat

VARIABLE waiter   \* waiter[m]: a call, what it asked for, its clock, what it was told

waitVars == <<vars, waiter>>

-----------------------------------------------------------------------------
\* Once past the deadline a call takes no further round, so its clock stays below this.
Horizon == Timeout + PollInterval + MaxLatency

Ended == {"returned", "timedout", "aborted"}

\* early is a history: was the run over when more than one latency was left?
NoWait == [pc |-> "ready", video |-> NoVideo, run |-> NoRun, elapsed |-> 0,
           seen |-> "absent", early |-> FALSE]

WaitInit == Init /\ waiter = [m \in Waiters |-> NoWait]

\* _TERMINAL_STATUSES; "failed" is no RunStatus, and no run is ever given it.
TerminalStatuses == {"completed", "failed", "error"}

Over(r) == runStatus[r] \in {"completed", "error"}

\* The history after a step of m.
EarlyNow(m) ==
    waiter[m].early \/ (Over(waiter[m].run) /\ waiter[m].elapsed + MaxLatency < Timeout)

\* GET /videos/{id}/runs, as far as the row of run r goes: not listed, or its status.
Listed(v, r) == IF runVideo[r] = v THEN runStatus[r] ELSE "absent"

-----------------------------------------------------------------------------
\* The ids come from the caller: the run may be of another video, or not exist yet.
StartWait(m, v, r) ==
    /\ waiter[m].pc = "ready"
    /\ waiter' = [waiter EXCEPT ![m] = [NoWait EXCEPT !.pc = "polling", !.video = v, !.run = r]]
    /\ UNCHANGED vars

\* The request reaches the API and its queries are run.
ListRuns(m) ==
    LET call == waiter[m] IN
    /\ call.pc = "polling"
    /\ videoStatus[call.video] # "absent"
    /\ waiter' = [waiter EXCEPT ![m].pc = "answered", ![m].early = EarlyNow(m),
                               ![m].seen = Listed(call.video, call.run)]
    /\ UNCHANGED vars

\* 404: NotFoundError leaves the loop.
VideoNotFound(m) ==
    /\ waiter[m].pc = "polling"
    /\ videoStatus[waiter[m].video] = "absent"
    /\ waiter' = [waiter EXCEPT ![m] = [NoWait EXCEPT !.pc = "aborted"]]
    /\ UNCHANGED vars

\* Three ways to leave the answer behind, at time now; a sleep is part of the last one.
Returns(call)       == [call EXCEPT !.pc = "returned", !.elapsed = 0, !.early = FALSE]
TimesOut(call, now) == [call EXCEPT !.pc = "timedout", !.elapsed = now]

Sleeps(call, now) ==
    [call EXCEPT !.pc = "polling", !.elapsed = now + PollInterval, !.seen = "absent"]

\* Variant: the deadline is looked at before the answer.
Decide_DeadlineFirst(call, now) ==
    IF now >= Timeout THEN TimesOut(call, now)
    ELSE IF call.seen \in TerminalStatuses THEN Returns(call)
    ELSE Sleeps(call, now)

\* Variant: the deadline is set anew in every round.
Decide_DeadlineMoves(call, now) ==
    IF call.seen \in TerminalStatuses THEN Returns(call)
    ELSE Sleeps([call EXCEPT !.elapsed = 0], 0)

\* Variant: a run that somebody has started counts as done.
Decide_Started(call, now) ==
    IF call.seen \notin {"absent", "pending"} THEN Returns(call)
    ELSE IF now >= Timeout THEN TimesOut(call, now)
    ELSE Sleeps(call, now)

\* The body of the loop once the answer is there: a terminal status is returned, else the
\* deadline is looked at, else the call sleeps and polls again.
Decide(call, now) ==
    IF call.seen \in TerminalStatuses THEN Returns(call)
    ELSE IF now >= Timeout THEN TimesOut(call, now)
    ELSE Sleeps(call, now)

ReceiveRuns(m) ==
    /\ waiter[m].pc = "answered"
    /\ \E d \in 0..MaxLatency :
          waiter' = [waiter EXCEPT ![m] =
             Decide([waiter[m] EXCEPT !.early = EarlyNow(m)], waiter[m].elapsed + d)]
    /\ UNCHANGED vars

\* Any other error of one request, a 5xx or a lost connection: it is raised to the caller,
\* and the call does not poll again.
PollFails(m) ==
    /\ waiter[m].pc \in {"polling", "answered"}
    /\ waiter' = [waiter EXCEPT ![m] = [NoWait EXCEPT !.pc = "aborted"]]
    /\ UNCHANGED vars

WaiterStep(m) == ListRuns(m) \/ VideoNotFound(m) \/ ReceiveRuns(m)

-----------------------------------------------------------------------------
WaitNext ==
    \/ Next /\ UNCHANGED waiter
    \/ \E m \in Waiters :
          \/ \E v \in Videos, r \in Awaited : StartWait(m, v, r)
          \/ WaiterStep(m) \/ PollFails(m)

WaitSpec == WaitInit /\ [][WaitNext]_waitVars

\* On top of RunLifecycle's fairness: a call that has begun is executed, the API answers
\* or the request fails, and sleep returns.
FairWaitSpec ==
    /\ WaitSpec
    /\ Fairness
    /\ \A m \in Waiters : WF_waitVars(WaiterStep(m))

-----------------------------------------------------------------------------
(***************************************************************************)
(* Properties.                                                             *)
(***************************************************************************)

\* What a call returned stays true: the row keeps the status the caller was given, however
\* old the answer is, and with "completed" the outputs are there to be fetched.
ReturnedIsFinal ==
    \A m \in Waiters :
        LET call == waiter[m] IN
        call.pc = "returned" =>
            /\ Over(call.run)
            /\ runStatus[call.run] = call.seen
            /\ call.seen = "completed" => call.run \in outputs

\* PollingTimeout is raised only after the timeout and at most one sleep and one request
\* after it, and never about a run of the video that was over more than one latency before
\* the deadline: the last poll comes later than that.
TimeoutIsHonest ==
    \A m \in Waiters :
        LET call == waiter[m] IN
        call.pc = "timedout" =>
            /\ call.elapsed \in Timeout..(Horizon - 1)
            /\ runVideo[call.run] = call.video => ~call.early

\* Every call ends, also when its run is stranded and no status will ever be terminal.
WaitEnds == \A m \in Waiters : (waiter[m].pc # "ready") ~> (waiter[m].pc \in Ended)
=============================================================================
