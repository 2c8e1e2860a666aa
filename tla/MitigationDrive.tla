-------------------------- MODULE MitigationDrive ---------------------------
(***************************************************************************)
(* One P9 measurement run: drive() of scripts/azure-mitigation.py with the *)
(* threads _measure() starts around it.                                    *)
(*                                                                         *)
(*   scheduler  walks the planned arrivals without waiting for a wave to   *)
(*              finish, cancels the rest on a monitor error or a backlog,  *)
(*              and requests the release of the experiment fault           *)
(*   workers    two thread pools, one for issue reads and one for git      *)
(*              reads, take submitted operations in order                  *)
(*   monitors   the sentinel and the snapshot collector                    *)
(*   release    one task that patches the two experiment fault knobs       *)
(*                                                                         *)
(* Time is a tick counter, 0 at origin; clock() is now.                    *)
(***************************************************************************)
EXTENDS Integers, FiniteSets

CONSTANTS
  N,             \* number of planned arrivals
  Kind,          \* Kind[n]: "issue" or "git"
  At,            \* At[n]: planned tick of arrival n
  Mitigation,    \* mitigation_seconds: tick of the fault release
  End,           \* mitigation_seconds + recovery_seconds
  Horizon,       \* bound on time: the clock stops here
  IssueWorkers,  \* size of the issue pool (12)
  Backlog        \* unfinished operations that cancel the campaign (49)

Items == 1 .. N
Kinds == {"issue", "git"}

\* plan() and schedule(): arrivals come in waves from 0 to the end of the
\* recovery interval, which lies after the release.
ASSUME PlanAssumption ==
  /\ N \in Nat \ {0}
  /\ Kind \in [Items -> Kinds]
  /\ At \in [Items -> Nat]
  /\ \A m, n \in Items : m <= n => At[m] <= At[n]
  /\ Mitigation \in Nat /\ End \in Nat /\ Horizon \in Nat
  /\ Mitigation <= At[N] /\ At[N] < End /\ End <= Horizon
  /\ IssueWorkers \in Nat \ {0} /\ Backlog \in Nat \ {0}

VARIABLES
  now,         \* clock() - origin
  cursor,      \* the arrival the scheduler is at; N + 1 after the last
  pc,          \* scheduler: "check", "dispatch", "join", "ended"
  campaign,    \* "live", or "cancelled" once the Event cancelled is set
  stage,       \* stage[n]: where operation n is
  attempts,    \* attempts[n]: number of attempts started
  row,         \* row[n]: outcome of the terminal row of n, "open" before
  release,     \* progress of the release task
  releasedAt,  \* tick of the release record
  sentinel,    \* "healthy" while the Event sentinel_ok is set
  alarms,      \* "failed": the Event failed; "late": the 570 s guard has passed
  run          \* "open", then the last record: "end" or "failure"

schedulerVars == <<cursor, pc, campaign>>
operationVars == <<stage, attempts, row>>
releaseVars == <<release, releasedAt>>
monitorVars == <<sentinel, alarms>>
vars == <<now, schedulerVars, operationVars, releaseVars, monitorVars, run>>

Outcomes == {"completed", "cancelled", "not-issued"}
Stages == {"planned", "queued", "ready", "attempt", "backoff", "done"}

Width(k) == IF k = "issue" THEN IssueWorkers ELSE 1
Alarms == {"failed", "late"}
MonitorError == alarms # {}
Cancelled == campaign = "cancelled"

\* Futures that are not done, and those a worker of a pool is busy with.
Pending == {n \in Items : stage[n] \in {"queued", "ready", "attempt", "backoff"}}
BusyLeak(k) ==  \* mutant: a finished operation keeps its worker
  {n \in Items : Kind[n] = k /\ stage[n] \in {"ready", "attempt", "backoff", "done"}}
Busy(k) == {n \in Items : Kind[n] = k /\ stage[n] \in {"ready", "attempt", "backoff"}}

Init ==
  /\ now = 0
  /\ cursor = 1 /\ pc = "check" /\ campaign = "live"
  /\ stage = [n \in Items |-> "planned"]
  /\ attempts = [n \in Items |-> 0]
  /\ row = [n \in Items |-> "open"]
  /\ release = "none" /\ releasedAt = 0
  /\ sentinel = "healthy" /\ alarms = {}
  /\ run = "open"

-----------------------------------------------------------------------------
(* The scheduler.                                                          *)

\* The first look at the monitors for an arrival.
Check ==
  /\ pc = "check"
  /\ cursor <= N
  /\ campaign' = IF MonitorError THEN "cancelled" ELSE campaign
  /\ pc' = "dispatch"
  /\ UNCHANGED <<now, cursor, operationVars, releaseVars, monitorVars, run>>

\* Due at its planned time; a cancelled campaign does not wait any more.
DueOnTime == At[cursor] <= now  \* mutant: a cancelled campaign waits for every arrival
Due == Cancelled \/ At[cursor] <= now

\* The release is requested once: at the first arrival of the recovery
\* interval, or as soon as the campaign is cancelled.
ReleaseDueEarly == At[cursor] + 1 >= Mitigation  \* mutant: off by one wave
ReleaseDueOnTime == At[cursor] >= Mitigation  \* mutant: a cancel releases nothing
ReleaseDue == At[cursor] >= Mitigation \/ Cancelled
RequestRelease ==
  IF release = "none" /\ ReleaseDue THEN release' = "requested" ELSE UNCHANGED release

SkipSilently(n) ==  \* mutant: a missed arrival leaves no row
  /\ stage' = [stage EXCEPT ![n] = "done"]
  /\ UNCHANGED row
NotIssued(n) ==
  /\ stage' = [stage EXCEPT ![n] = "done"]
  /\ row' = [row EXCEPT ![n] = "not-issued"]
Submit(n) ==
  /\ stage' = [stage EXCEPT ![n] = "queued"]
  /\ UNCHANGED row

OverBacklog == Cardinality(Pending) > Backlog  \* mutant: off by one
BacklogFull == Cardinality(Pending) >= Backlog

\* Wait for the arrival, request the release, look at the monitors again and
\* submit the operation, or cancel the campaign and record the arrival missed.
Dispatch ==
  /\ pc = "dispatch"
  /\ Due
  /\ RequestRelease
  /\ IF Cancelled \/ MonitorError \/ BacklogFull
     THEN campaign' = "cancelled" /\ NotIssued(cursor)
     ELSE Submit(cursor) /\ UNCHANGED campaign
  /\ cursor' = cursor + 1
  /\ pc' = "check"
  /\ UNCHANGED <<now, attempts, releasedAt, monitorVars, run>>

\* After the last arrival: wait for the end of the recovery interval, then
\* cancel what no worker has taken.
Finish ==
  /\ pc = "check"
  /\ cursor > N
  /\ Cancelled \/ now >= End
  /\ campaign' = "cancelled"
  /\ pc' = "join"
  /\ UNCHANGED <<now, cursor, operationVars, releaseVars, monitorVars, run>>

\* Every future has a result; drive() returns.
Join ==
  /\ pc = "join"
  /\ Pending = {}
  /\ pc' = "ended"
  /\ UNCHANGED <<now, cursor, campaign, operationVars, releaseVars, monitorVars, run>>

-----------------------------------------------------------------------------
(* The workers: operation() of drive().                                    *)

Enter(n, o) ==
  /\ stage' = [stage EXCEPT ![n] = "done"]
  /\ row' = [row EXCEPT ![n] = o]

CompleteUnlessCancelled(n) ==  \* mutant: an issued operation looks unissued
  Enter(n, IF Cancelled THEN "cancelled" ELSE "completed")
Complete(n) == Enter(n, "completed")

\* The oldest submitted operation of a pool with a free worker; a cancelled
\* or overdue one is not issued.
Take(n) ==
  /\ stage[n] = "queued"
  /\ \A m \in Items : Kind[m] = Kind[n] /\ stage[m] = "queued" => n <= m
  /\ Cardinality(Busy(Kind[n])) < Width(Kind[n])
  /\ IF Cancelled \/ now >= End
     THEN Enter(n, "cancelled")
     ELSE stage' = [stage EXCEPT ![n] = "ready"] /\ UNCHANGED row
  /\ UNCHANGED <<now, schedulerVars, attempts, releaseVars, monitorVars, run>>

StartAttempt(n) ==
  /\ attempts' = [attempts EXCEPT ![n] = @ + 1]
  /\ stage' = [stage EXCEPT ![n] = "attempt"]
  /\ UNCHANGED row

\* The first attempt follows the check of Take without looking again.
FirstAttempt(n) ==
  /\ stage[n] = "ready"
  /\ StartAttempt(n)
  /\ UNCHANGED <<now, schedulerVars, releaseVars, monitorVars, run>>

\* The answer of an attempt.  A denial is an overload, and retryable, only
\* while the direct sentinel is healthy; only issue reads are retried, once.
MayRetryAgain(n) == Kind[n] = "issue"  \* mutant: no limit on attempts
MayRetry(n) == Kind[n] = "issue" /\ attempts[n] < 2

EndAttempt(n) ==
  /\ stage[n] = "attempt"
  /\ \/ Complete(n)
     \/ /\ sentinel = "healthy"
        /\ MayRetry(n)
        /\ stage' = [stage EXCEPT ![n] = "backoff"]
        /\ UNCHANGED row
  /\ UNCHANGED <<now, schedulerVars, attempts, releaseVars, monitorVars, run>>

\* The second attempt, unless the campaign was cancelled during the backoff.
EndBackoff(n) ==
  /\ stage[n] = "backoff"
  /\ IF Cancelled THEN Complete(n) /\ UNCHANGED attempts ELSE StartAttempt(n)
  /\ UNCHANGED <<now, schedulerVars, releaseVars, monitorVars, run>>

-----------------------------------------------------------------------------
(* The release task: a record, then the two patches, either of which may   *)
(* raise.                                                                  *)

Release ==
  /\ release = "requested" /\ release' = "recorded" /\ releasedAt' = now
  /\ UNCHANGED <<now, schedulerVars, operationVars, monitorVars, run>>

PatchHold ==
  /\ release = "recorded" /\ release' \in {"hold-removed", "failed"}
  /\ UNCHANGED <<now, schedulerVars, operationVars, releasedAt, monitorVars, run>>

PatchCapacity ==
  /\ release = "hold-removed" /\ release' \in {"done", "failed"}
  /\ UNCHANGED <<now, schedulerVars, operationVars, releasedAt, monitorVars, run>>

-----------------------------------------------------------------------------
(* The monitors, whose last round may outlast drive(), and time.           *)

SentinelProbe ==
  /\ run = "open"
  /\ \/ sentinel' = "healthy" /\ UNCHANGED alarms
     \/ sentinel' = "unhealthy" /\ alarms' = alarms \cup {"failed"}
  /\ UNCHANGED <<now, schedulerVars, operationVars, releaseVars, run>>

MonitorFails ==
  /\ run = "open" /\ alarms' = alarms \cup {"failed"}
  /\ UNCHANGED <<now, schedulerVars, operationVars, releaseVars, sentinel, run>>

Deadline ==
  /\ run = "open" /\ alarms' = alarms \cup {"late"}
  /\ UNCHANGED <<now, schedulerVars, operationVars, releaseVars, sentinel, run>>

Tick ==
  /\ now < Horizon /\ now' = now + 1
  /\ UNCHANGED <<schedulerVars, operationVars, releaseVars, monitorVars, run>>

\* _measure joins the monitors and the release task, takes a last snapshot and
\* requires that nothing failed; a snapshot may fail too.
ReleaseNotJoined == TRUE  \* mutant: the release task is not joined
ReleaseSettled == release \in {"none", "done", "failed"}

RunEnds ==
  /\ pc = "ended" /\ run = "open"
  /\ ReleaseSettled
  /\ \/ release # "failed" /\ "failed" \notin alarms /\ run' = "end"
     \/ run' = "failure"
  /\ UNCHANGED <<now, schedulerVars, operationVars, releaseVars, monitorVars>>

-----------------------------------------------------------------------------
Scheduler == Check \/ Dispatch \/ Finish \/ Join
Worker(n) == Take(n) \/ FirstAttempt(n) \/ EndAttempt(n) \/ EndBackoff(n)
ReleaseTask == Release \/ PatchHold \/ PatchCapacity
Monitors == SentinelProbe \/ MonitorFails \/ Deadline

Stopped == run # "open" /\ UNCHANGED vars

Next ==
  \/ Scheduler \/ ReleaseTask \/ Monitors \/ Tick \/ RunEnds \/ Stopped
  \/ \E n \in Items : Worker(n)

Spec == Init /\ [][Next]_vars

\* Threads run and requests have timeouts.
Threads ==
  /\ WF_vars(Scheduler) /\ WF_vars(ReleaseTask) /\ WF_vars(RunEnds)
  /\ \A n \in Items : WF_vars(Worker(n))

FairSpec == Spec /\ Threads  \* the clock may stop
=============================================================================
