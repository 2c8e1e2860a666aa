----------------------- MODULE MitigationDriveProps ------------------------
(***************************************************************************)
(* Correctness properties of one P9 measurement run.                       *)
(***************************************************************************)
EXTENDS MitigationDrive

\* The variables keep their types.
TypeInv ==
  /\ now \in 0 .. Horizon
  /\ cursor \in 1 .. N + 1
  /\ pc \in {"check", "dispatch", "join", "ended"}
  /\ campaign \in {"live", "cancelled"}
  /\ stage \in [Items -> Stages]
  /\ attempts \in [Items -> 0 .. 2]
  /\ row \in [Items -> Outcomes \cup {"open"}]
  /\ release \in {"none", "requested", "recorded", "hold-removed", "done", "failed"}
  /\ releasedAt \in 0 .. Horizon
  /\ sentinel \in {"healthy", "unhealthy"}
  /\ alarms \in SUBSET Alarms
  /\ run \in {"open", "end", "failure"}

\* drive() 910-911: every planned arrival gets exactly one terminal row, and
\* drive() returns only when none is missing, whatever is cancelled and
\* whoever writes the row.
Ledger == INSTANCE ArrivalLedger WITH Open <- "open", closed <- (pc = "ended")
LedgerSpec == Ledger!Spec

\* drive() 948-975, _measure() 1949-1967: seen from the campaign a run is a demand
\* in two phases and two patches between them, closed when both are over, however
\* scheduler, workers, monitors and the release task interleave.
Demand ==
  IF release = "none" THEN "mitigation"
  ELSE IF pc # "ended" THEN "recovery"
  ELSE IF \A n \in Items : row[n] = "completed" THEN "complete" ELSE "cut"
Patches ==
  CASE release = "none" -> "off"
    [] release \in {"requested", "recorded"} -> "hold"
    [] release = "hold-removed" -> "capacity"
    [] OTHER -> release
Phases == INSTANCE RunPhases
  WITH demand <- Demand, release <- Patches, closed <- (run # "open")
PhasesSpec == Phases!Spec

\* What each thread still has to do, in steps: an operation at most six, among
\* them two attempts and the backoff between them.
OperationLeft(n) ==
  CASE stage[n] = "planned" -> 6 [] stage[n] = "queued" -> 5 [] stage[n] = "ready" -> 4
    [] stage[n] = "attempt" -> IF attempts[n] = 1 THEN 3 ELSE 1
    [] stage[n] = "backoff" -> 2 [] OTHER -> 0
SchedulerLeft ==
  CASE pc = "check" -> 2 * (N + 1 - cursor) + 2 [] pc = "dispatch" -> 2 * (N + 1 - cursor) + 1
    [] pc = "join" -> 1 [] OTHER -> 0
ReleaseLeft ==
  CASE release = "none" -> 4 [] release = "requested" -> 3 [] release = "recorded" -> 2
    [] release = "hold-removed" -> 1 [] OTHER -> 0
RunLeft == IF run = "open" THEN 1 ELSE 0

\* drive() 913-975: nobody works for ever.  Whatever the monitors and the clock do
\* meanwhile, no thread gets more to do, and every step of one is done with.
FiniteWork ==
  [][/\ \A n \in Items : OperationLeft(n)' \in 0 .. OperationLeft(n)
     /\ SchedulerLeft' \in 0 .. SchedulerLeft
     /\ ReleaseLeft' \in 0 .. ReleaseLeft /\ RunLeft' \in 0 .. RunLeft
     /\ UNCHANGED <<now, monitorVars>> =>
          \/ \E n \in Items : OperationLeft(n)' < OperationLeft(n)
          \/ SchedulerLeft' < SchedulerLeft \/ ReleaseLeft' < ReleaseLeft \/ RunLeft' < RunLeft]_vars

\* drive() 910-975, _measure() 1949-1967: whoever calls drive() may rely on the
\* rows of the arrivals, on the phases of the run and on its work being finite.
DriveContract == LedgerSpec /\ PhasesSpec /\ FiniteWork

\* drive() 941, 955-956: at most 49 operations are unfinished and no pool has
\* more operations in progress than workers, although futures finish while
\* the scheduler counts.
LoadBounded ==
  /\ Cardinality(Pending) <= Backlog
  /\ \A k \in Kinds : Cardinality(Busy(k)) <= Width(k)

\* demand_report() 986-991: an operation without an answer has no attempt, a
\* finished one has one, or two if it reads an issue, also when it was
\* cancelled in its backoff.
AttemptsMatchRows ==
  \A n \in Items :
    /\ row[n] \in {"not-issued", "cancelled"} => attempts[n] = 0
    /\ row[n] = "completed" =>
         attempts[n] \in 1 .. (IF Kind[n] = "issue" THEN 2 ELSE 1)

\* drive() 946-975, _measure() 1949-1967: once the campaign is cancelled or its
\* time is over, some thread of an open run can go on, whatever the others wait for.
SchedulerMoves ==
  \/ pc = "check" /\ (cursor <= N \/ Cancelled \/ now >= End)
  \/ pc = "dispatch" /\ Due
  \/ pc = "join" /\ Pending = {}
WorkerMoves(n) ==
  \/ stage[n] \in {"ready", "attempt", "backoff"}
  \/ /\ stage[n] = "queued" /\ Cardinality(Busy(Kind[n])) < Width(Kind[n])
     /\ \A m \in Items : Kind[m] = Kind[n] /\ stage[m] = "queued" => n <= m
NoStandstill ==
  run = "open" /\ (Cancelled \/ now >= End) =>
    \/ SchedulerMoves \/ \E n \in Items : WorkerMoves(n)
    \/ release \in {"requested", "recorded", "hold-removed"}
    \/ pc = "ended" /\ ReleaseSettled

\* drive() 936-975, operation() 913-934: bounded load, honest rows and no
\* standstill, however scheduler, workers and monitors interleave.
DriveSafe == TypeInv /\ LoadBounded /\ AttemptsMatchRows /\ NoStandstill

\* recovery() 1043, 1058: an accepted run whose whole demand was served has
\* removed the fault, and not before the mitigation interval was over: the
\* early release of a cancelled campaign never looks like a recovery.
AcceptedRunReleasedOnTime ==
  run = "end" /\ (\A n \in Items : row[n] = "completed") =>
    release = "done" /\ releasedAt >= Mitigation

\* drive() 948-952: a cancelled campaign does not keep the fault until the
\* planned release: no second arrival is missed before it is requested.
CancelReleasesFault ==
  Cardinality({n \in Items : row[n] = "not-issued"}) >= 2 => release # "none"

\* _measure() 1949-1967: once arrivals have started, no run is closed,
\* accepted or failed, while the two fault knobs were not touched or are still
\* being patched.
FaultReleasedAtEnd == run # "open" => release \in {"done", "failed"}

\* drive() 948-952, _measure() 1949-1967: every run that has started removes the
\* fault: at the planned time, at once when it is cancelled, and always before
\* it is closed.
FaultIsRemoved ==
  /\ AcceptedRunReleasedOnTime
  /\ CancelReleasesFault
  /\ FaultReleasedAtEnd

\* drive() 946-947, 956-965: a cancelled campaign drains without waiting for
\* the times of the arrivals it will not issue.
CancelDrains == Cancelled ~> run # "open"

\* drive() 972-975, _measure() 1964-1993: as long as time goes on every run
\* ends, accepted or failed.
RunSettles == WF_vars(Tick) => <>(run # "open")

\* drive() 946-975: both together.
RunsEnd == CancelDrains /\ RunSettles
=============================================================================
