----------------------- MODULE MitigationDriveProofs -----------------------
(***************************************************************************)
(* Proofs about MitigationDrive for every schedule, every pool size and    *)
(* every backlog bound.                                                    *)
(*                                                                         *)
(* IInv ties the row of an arrival to the stage it is in (RowInv, WalkInv),*)
(* the scheduler's phase to the work that is left (PhaseInv), the number   *)
(* of attempts to the stage (AttemptInv), and the release to the missed    *)
(* arrivals: it is early only when an arrival has been missed, and it is   *)
(* outstanding while at most the last arrival has been (ReleaseInv).       *)
(***************************************************************************)
EXTENDS MitigationDriveProps, FiniteSetTheorems, WellFoundedInduction, TLAPS

Missed(n) == row[n] = "not-issued"

RowInv == \A n \in Items : row[n] = "open" <=> stage[n] # "done"

WalkInv == \A n \in Items : stage[n] = "planned" <=> n >= cursor

PhaseInv ==
  /\ pc = "dispatch" => cursor <= N
  /\ pc \in {"join", "ended"} => cursor = N + 1 /\ Cancelled
  /\ pc = "ended" => \A n \in Items : stage[n] = "done"

Limit(n) == IF Kind[n] = "issue" THEN 2 ELSE 1

AttemptInv ==
  \A n \in Items :
    /\ stage[n] \in {"planned", "queued", "ready"} => attempts[n] = 0
    /\ stage[n] = "attempt" => attempts[n] \in 1 .. Limit(n)
    /\ stage[n] = "backoff" => attempts[n] = 1 /\ Kind[n] = "issue"
    /\ row[n] \in {"not-issued", "cancelled"} => attempts[n] = 0
    /\ row[n] = "completed" => attempts[n] \in 1 .. Limit(n)

ReleaseInv ==
  /\ release # "none" => now >= Mitigation \/ \E n \in Items : Missed(n)
  /\ release \notin {"none", "requested"} =>
       releasedAt >= Mitigation \/ \E n \in Items : Missed(n)
  /\ release = "none" => cursor <= N
  /\ release = "none" => \A n \in Items : Missed(n) => Cancelled /\ n = cursor - 1

ClosedInv ==
  /\ run # "open" => pc = "ended" /\ release \in {"done", "failed"}
  /\ run = "end" => release = "done"

IInv ==
  /\ TypeInv
  /\ RowInv
  /\ WalkInv
  /\ PhaseInv
  /\ AttemptInv
  /\ ReleaseInv
  /\ ClosedInv

-----------------------------------------------------------------------------
(* The invariant is inductive.                                             *)

LEMMA InitInv == Init => IInv
  BY PlanAssumption
  DEF Init, IInv, TypeInv, RowInv, WalkInv, PhaseInv, AttemptInv, ReleaseInv, ClosedInv,
      Items, Stages, Outcomes, Alarms, Limit, Missed, Cancelled

\* One turn of the scheduler: an arrival is missed under a cancelled campaign,
\* or submitted.
LEMMA Dispatched ==
  ASSUME TypeInv, PhaseInv, Dispatch
  PROVE  /\ cursor \in Items /\ cursor' = cursor + 1 /\ pc' = "check" /\ RequestRelease
         /\ UNCHANGED <<now, attempts, releasedAt, sentinel, alarms, run>>
         /\ \/ /\ campaign' = "cancelled"
               /\ stage' = [stage EXCEPT ![cursor] = "done"]
               /\ row' = [row EXCEPT ![cursor] = "not-issued"]
            \/ /\ campaign' = campaign /\ ~Cancelled
               /\ stage' = [stage EXCEPT ![cursor] = "queued"]
               /\ row' = row
<1>1. cursor \in Items /\ cursor' = cursor + 1 /\ pc' = "check" /\ RequestRelease
  BY PlanAssumption DEF TypeInv, PhaseInv, Dispatch, Items
<1>2. UNCHANGED <<now, attempts, releasedAt, sentinel, alarms, run>>
  BY DEF Dispatch, monitorVars
<1>3. \/ campaign' = "cancelled" /\ NotIssued(cursor)
      \/ ~Cancelled /\ Submit(cursor) /\ UNCHANGED campaign
  <2> HIDE PlanAssumption DEF TypeInv, PhaseInv
  <2>1. IF Cancelled \/ MonitorError \/ BacklogFull
        THEN campaign' = "cancelled" /\ NotIssued(cursor)
        ELSE Submit(cursor) /\ UNCHANGED campaign
    BY DEF Dispatch
  <2> QED
    BY <2>1
<1>4. CASE campaign' = "cancelled" /\ NotIssued(cursor)
  BY <1>1, <1>2, <1>4 DEF NotIssued
<1>5. CASE ~Cancelled /\ Submit(cursor) /\ UNCHANGED campaign
  BY <1>1, <1>2, <1>5 DEF Submit
<1> QED
  BY <1>3, <1>4, <1>5

\* Every step keeps the types.
LEMMA TypeStep == IInv /\ [Next]_vars => TypeInv'
<1> SUFFICES ASSUME IInv, [Next]_vars PROVE TypeInv'
  OBVIOUS
<1> USE PlanAssumption
<1> USE DEF IInv, TypeInv, AttemptInv, WalkInv, PhaseInv, Items, Stages, Outcomes, Alarms, Limit, Kinds,
            schedulerVars, operationVars, releaseVars, monitorVars,
            Complete, Enter, StartAttempt, MayRetry, Submit, NotIssued, RequestRelease
<1>1. ASSUME Check PROVE TypeInv'
  BY <1>1 DEF Check
<1>2. ASSUME Dispatch PROVE TypeInv'
  <2> HIDE DEF IInv, AttemptInv, WalkInv, PhaseInv, Items, Stages, Outcomes, Limit, Complete, Enter, StartAttempt,
           MayRetry, Submit, NotIssued
  <2>1. TypeInv /\ PhaseInv
    BY DEF IInv
  <2>2. /\ stage' \in [Items -> Stages] /\ row' \in [Items -> Outcomes \cup {"open"}]
        /\ campaign' \in {"live", "cancelled"}
    BY <1>2, <2>1, Dispatched DEF TypeInv, Stages, Outcomes
  <2>3. cursor' \in 1 .. N + 1 /\ release' \in {release, "requested"}
    BY <1>2, <2>1, Dispatched DEF Items
  <2>4. pc' = "check" /\ UNCHANGED <<now, attempts, releasedAt, sentinel, alarms, run>>
    BY <1>2, <2>1, Dispatched
  <2> QED
    BY <2>1, <2>2, <2>3, <2>4 DEF TypeInv
<1>3. ASSUME Finish PROVE TypeInv'
  BY <1>3 DEF Finish
<1>4. ASSUME Join PROVE TypeInv'
  BY <1>4 DEF Join
<1>5. ASSUME NEW n \in Items, Take(n) PROVE TypeInv'
  <2>1. CASE Cancelled \/ now >= End
    <3>1. Enter(n, "cancelled")
      BY <1>5, <2>1 DEF Take
    <3>2. stage' \in [Items -> Stages] /\ row' \in [Items -> Outcomes \cup {"open"}]
      BY <3>1
    <3> QED
      BY <1>5, <3>2 DEF Take
  <2>2. CASE ~(Cancelled \/ now >= End)
    BY <1>5, <2>2 DEF Take
  <2> QED
    BY <2>1, <2>2
<1>6. ASSUME NEW n \in Items, FirstAttempt(n) PROVE TypeInv'
  BY <1>6 DEF FirstAttempt
<1>7. ASSUME NEW n \in Items, EndAttempt(n) PROVE TypeInv'
  <2>1. CASE Complete(n)
    BY <1>7, <2>1 DEF EndAttempt
  <2>2. CASE ~Complete(n)
    <3>1. stage' = [stage EXCEPT ![n] = "backoff"] /\ UNCHANGED <<row, attempts>> /\ stage[n] = "attempt"
      BY <1>7, <2>2 DEF EndAttempt
    <3> QED
      BY <1>7, <2>2, <3>1 DEF EndAttempt
  <2> QED
    BY <2>1, <2>2
<1>8. ASSUME NEW n \in Items, EndBackoff(n) PROVE TypeInv'
  <2>1. attempts[n] = 1
    BY <1>8 DEF EndBackoff
  <2>2. CASE Cancelled
    <3>1. Complete(n) /\ UNCHANGED attempts
      BY <1>8, <2>2 DEF EndBackoff
    <3>2. stage' \in [Items -> Stages] /\ row' \in [Items -> Outcomes \cup {"open"}]
      BY <3>1
    <3> QED
      BY <1>8, <3>1, <3>2 DEF EndBackoff
  <2>3. CASE ~Cancelled
    BY <1>8, <2>1, <2>3 DEF EndBackoff
  <2> QED
    BY <2>2, <2>3
<1>9. ASSUME Release PROVE TypeInv'
  BY <1>9 DEF Release
<1>10. ASSUME PatchHold PROVE TypeInv'
  BY <1>10 DEF PatchHold
<1>11. ASSUME PatchCapacity PROVE TypeInv'
  BY <1>11 DEF PatchCapacity
<1>12. ASSUME SentinelProbe PROVE TypeInv'
  BY <1>12 DEF SentinelProbe
<1>13. ASSUME MonitorFails PROVE TypeInv'
  BY <1>13 DEF MonitorFails
<1>14. ASSUME Deadline PROVE TypeInv'
  BY <1>14 DEF Deadline
<1>15. ASSUME Tick PROVE TypeInv'
  BY <1>15 DEF Tick
<1>16. ASSUME RunEnds PROVE TypeInv'
  BY <1>16 DEF RunEnds
<1>17. CASE UNCHANGED vars
  BY <1>17 DEF vars
<1> QED
  BY <1>1, <1>2, <1>3, <1>4, <1>5, <1>6, <1>7, <1>8, 
     <1>9, <1>10, <1>11, <1>12, <1>13, <1>14, <1>15, <1>16, <1>17
  DEF Next, Scheduler, Worker, ReleaseTask, Monitors, Stopped

\* A step of a worker moves one arrival on, and files its row when it is done.
LEMMA WorkerRows ==
  ASSUME TypeInv, RowInv, WalkInv, NEW n \in Items, stage[n] \notin {"planned", "done"}, cursor' = cursor,
         \E o \in Outcomes, s \in Stages \ {"planned"} :
           stage' = [stage EXCEPT ![n] = s] /\ row' = IF s = "done" THEN [row EXCEPT ![n] = o] ELSE row
  PROVE  (RowInv /\ WalkInv)'
<1>1. PICK o \in Outcomes, s \in Stages \ {"planned"} :
        stage' = [stage EXCEPT ![n] = s] /\ row' = IF s = "done" THEN [row EXCEPT ![n] = o] ELSE row
  OBVIOUS
<1>2. /\ stage'[n] = s /\ \A m \in Items \ {n} : stage'[m] = stage[m] /\ row'[m] = row[m]
      /\ row'[n] = IF s = "done" THEN o ELSE row[n]
  BY <1>1 DEF TypeInv
<1>3. row[n] = "open" /\ o # "open"
  BY DEF RowInv, Outcomes
<1>4. RowInv'
  BY <1>2, <1>3 DEF RowInv
<1>5. WalkInv'
  BY <1>2 DEF WalkInv
<1> QED
  BY <1>4, <1>5

\* A row is filed in the step that finishes its arrival, and the scheduler
\* walks the arrivals in order.
LEMMA RowStep == IInv /\ [Next]_vars => (RowInv /\ WalkInv)'
<1> SUFFICES ASSUME IInv, [Next]_vars PROVE (RowInv /\ WalkInv)'
  OBVIOUS
<1> USE PlanAssumption
<1> USE DEF IInv, TypeInv, RowInv, WalkInv, PhaseInv, Items, Stages, Outcomes,
            schedulerVars, operationVars, releaseVars, monitorVars,
            Complete, Enter, StartAttempt, MayRetry, Submit, NotIssued, RequestRelease
<1>1. ASSUME Check PROVE (RowInv /\ WalkInv)'
  BY <1>1 DEF Check
<1>2. ASSUME Dispatch PROVE (RowInv /\ WalkInv)'
  <2> HIDE DEF IInv, TypeInv, PhaseInv, Complete, Enter, StartAttempt, MayRetry, Submit, NotIssued, RequestRelease
  <2>1. TypeInv /\ PhaseInv /\ RowInv /\ WalkInv
    BY DEF IInv
  <2> HIDE DEF Items, Stages, Outcomes, RowInv, WalkInv
  <2>2. /\ cursor \in Items /\ cursor' = cursor + 1
        /\ stage' \in {[stage EXCEPT ![cursor] = "done"], [stage EXCEPT ![cursor] = "queued"]}
    BY <1>2, <2>1, Dispatched
  <2>3. \/ stage' = [stage EXCEPT ![cursor] = "done"] /\ row' = [row EXCEPT ![cursor] = "not-issued"]
        \/ stage' = [stage EXCEPT ![cursor] = "queued"] /\ row' = row
    BY <1>2, <2>1, Dispatched
  <2>4. stage \in [Items -> Stages] /\ row \in [Items -> Outcomes \cup {"open"}]
    BY <2>1 DEF TypeInv
  <2>5. stage[cursor] = "planned"
    BY <2>1, <2>2 DEF WalkInv, Items
  <2>6. RowInv'
    BY <2>1, <2>2, <2>3, <2>4, <2>5 DEF RowInv
  <2>7. \A m \in Items : m # cursor => stage'[m] = stage[m]
    BY <2>2, <2>4
  <2>8. stage'[cursor] # "planned"
    BY <2>2, <2>4
  <2>9. \A m \in Items : m >= cursor + 1 <=> (m >= cursor /\ m # cursor)
    BY <2>2 DEF Items
  <2> QED
    BY <2>1, <2>2, <2>6, <2>7, <2>8, <2>9 DEF WalkInv
<1>3. ASSUME Finish PROVE (RowInv /\ WalkInv)'
  BY <1>3 DEF Finish
<1>4. ASSUME Join PROVE (RowInv /\ WalkInv)'
  BY <1>4 DEF Join
<1>5. ASSUME NEW n \in Items, Take(n) PROVE (RowInv /\ WalkInv)'
  <2>1. /\ stage[n] \notin {"planned", "done"} /\ cursor' = cursor
        /\ \E o \in Outcomes, s \in Stages \ {"planned"} :
             stage' = [stage EXCEPT ![n] = s] /\ row' = IF s = "done" THEN [row EXCEPT ![n] = o] ELSE row
    BY <1>5 DEF Take
  <2> QED
    BY <2>1, WorkerRows DEF Stages
<1>6. ASSUME NEW n \in Items, FirstAttempt(n) PROVE (RowInv /\ WalkInv)'
  <2>1. /\ stage[n] \notin {"planned", "done"} /\ cursor' = cursor
        /\ \E o \in Outcomes, s \in Stages \ {"planned"} :
             stage' = [stage EXCEPT ![n] = s] /\ row' = IF s = "done" THEN [row EXCEPT ![n] = o] ELSE row
    BY <1>6 DEF FirstAttempt
  <2> QED
    BY <2>1, WorkerRows DEF Stages
<1>7. ASSUME NEW n \in Items, EndAttempt(n) PROVE (RowInv /\ WalkInv)'
  <2>1. stage[n] \notin {"planned", "done"} /\ cursor' = cursor
    BY <1>7 DEF EndAttempt
  <2>2. \/ stage' = [stage EXCEPT ![n] = "done"] /\ row' = [row EXCEPT ![n] = "completed"]
        \/ stage' = [stage EXCEPT ![n] = "backoff"] /\ row' = row
    BY <1>7 DEF EndAttempt
  <2>3. \E o \in Outcomes, s \in Stages \ {"planned"} :
          stage' = [stage EXCEPT ![n] = s] /\ row' = IF s = "done" THEN [row EXCEPT ![n] = o] ELSE row
    <3> HIDE DEF IInv, TypeInv, RowInv, WalkInv, PhaseInv, Items
    <3>1. "completed" \in Outcomes /\ {"done", "backoff"} \subseteq Stages \ {"planned"}
      OBVIOUS
    <3> HIDE DEF Outcomes, Stages
    <3> QED
      BY <2>2, <3>1
  <2> QED
    BY <2>1, <2>3, WorkerRows
<1>8. ASSUME NEW n \in Items, EndBackoff(n) PROVE (RowInv /\ WalkInv)'
  <2>1. stage[n] \notin {"planned", "done"} /\ cursor' = cursor
    BY <1>8 DEF EndBackoff
  <2>2. \/ stage' = [stage EXCEPT ![n] = "done"] /\ row' = [row EXCEPT ![n] = "completed"]
        \/ stage' = [stage EXCEPT ![n] = "attempt"] /\ row' = row
    BY <1>8 DEF EndBackoff
  <2>3. \E o \in Outcomes, s \in Stages \ {"planned"} :
          stage' = [stage EXCEPT ![n] = s] /\ row' = IF s = "done" THEN [row EXCEPT ![n] = o] ELSE row
    <3> HIDE DEF IInv, TypeInv, RowInv, WalkInv, PhaseInv, Items
    <3>1. "completed" \in Outcomes /\ {"done", "attempt"} \subseteq Stages \ {"planned"}
      OBVIOUS
    <3> HIDE DEF Outcomes, Stages
    <3> QED
      BY <2>2, <3>1
  <2> QED
    BY <2>1, <2>3, WorkerRows
<1>9. ASSUME Release PROVE (RowInv /\ WalkInv)'
  BY <1>9 DEF Release
<1>10. ASSUME PatchHold PROVE (RowInv /\ WalkInv)'
  BY <1>10 DEF PatchHold
<1>11. ASSUME PatchCapacity PROVE (RowInv /\ WalkInv)'
  BY <1>11 DEF PatchCapacity
<1>12. ASSUME SentinelProbe PROVE (RowInv /\ WalkInv)'
  BY <1>12 DEF SentinelProbe
<1>13. ASSUME MonitorFails PROVE (RowInv /\ WalkInv)'
  BY <1>13 DEF MonitorFails
<1>14. ASSUME Deadline PROVE (RowInv /\ WalkInv)'
  BY <1>14 DEF Deadline
<1>15. ASSUME Tick PROVE (RowInv /\ WalkInv)'
  BY <1>15 DEF Tick
<1>16. ASSUME RunEnds PROVE (RowInv /\ WalkInv)'
  BY <1>16 DEF RunEnds
<1>17. CASE UNCHANGED vars
  BY <1>17 DEF vars
<1> QED
  BY <1>1, <1>2, <1>3, <1>4, <1>5, <1>6, <1>7, <1>8, 
     <1>9, <1>10, <1>11, <1>12, <1>13, <1>14, <1>15, <1>16, <1>17
  DEF Next, Scheduler, Worker, ReleaseTask, Monitors, Stopped

\* drive() returns only when every arrival is finished.
LEMMA PhaseStep == IInv /\ [Next]_vars => PhaseInv'
<1> SUFFICES ASSUME IInv, [Next]_vars PROVE PhaseInv'
  OBVIOUS
<1> USE PlanAssumption
<1> USE DEF IInv, TypeInv, RowInv, WalkInv, PhaseInv, Items, Stages, Cancelled, Pending,
            schedulerVars, operationVars, releaseVars, monitorVars,
            Complete, Enter, StartAttempt, MayRetry, Submit, NotIssued, RequestRelease
<1>1. ASSUME Check PROVE PhaseInv'
  BY <1>1 DEF Check
<1>2. ASSUME Dispatch PROVE PhaseInv'
  BY <1>2 DEF Dispatch
<1>3. ASSUME Finish PROVE PhaseInv'
  BY <1>3 DEF Finish
<1>4. ASSUME Join PROVE PhaseInv'
  <2>1. cursor = N + 1 /\ Cancelled /\ cursor' = cursor /\ campaign' = campaign /\ pc' = "ended"
    BY <1>4 DEF Join
  <2>2. \A n \in Items : stage[n] = "done"
    <3> SUFFICES ASSUME NEW n \in Items PROVE stage[n] = "done"
      OBVIOUS
    <3>1. stage[n] \in Stages /\ n \notin Pending
      BY <1>4 DEF Join
    <3>2. stage[n] # "planned"
      BY <2>1
    <3> QED
      BY <3>1, <3>2
  <2>3. stage' = stage
    BY <1>4 DEF Join
  <2> QED
    BY <2>1, <2>2, <2>3
<1>5. ASSUME NEW n \in Items, Take(n) PROVE PhaseInv'
  BY <1>5 DEF Take
<1>6. ASSUME NEW n \in Items, FirstAttempt(n) PROVE PhaseInv'
  BY <1>6 DEF FirstAttempt
<1>7. ASSUME NEW n \in Items, EndAttempt(n) PROVE PhaseInv'
  BY <1>7 DEF EndAttempt
<1>8. ASSUME NEW n \in Items, EndBackoff(n) PROVE PhaseInv'
  BY <1>8 DEF EndBackoff
<1>9. ASSUME Release PROVE PhaseInv'
  BY <1>9 DEF Release
<1>10. ASSUME PatchHold PROVE PhaseInv'
  BY <1>10 DEF PatchHold
<1>11. ASSUME PatchCapacity PROVE PhaseInv'
  BY <1>11 DEF PatchCapacity
<1>12. ASSUME SentinelProbe PROVE PhaseInv'
  BY <1>12 DEF SentinelProbe
<1>13. ASSUME MonitorFails PROVE PhaseInv'
  BY <1>13 DEF MonitorFails
<1>14. ASSUME Deadline PROVE PhaseInv'
  BY <1>14 DEF Deadline
<1>15. ASSUME Tick PROVE PhaseInv'
  BY <1>15 DEF Tick
<1>16. ASSUME RunEnds PROVE PhaseInv'
  BY <1>16 DEF RunEnds
<1>17. CASE UNCHANGED vars
  BY <1>17 DEF vars
<1> QED
  BY <1>1, <1>2, <1>3, <1>4, <1>5, <1>6, <1>7, <1>8, 
     <1>9, <1>10, <1>11, <1>12, <1>13, <1>14, <1>15, <1>16, <1>17
  DEF Next, Scheduler, Worker, ReleaseTask, Monitors, Stopped

\* The attempts of an arrival fit its stage and its row.
LEMMA AttemptStep == IInv /\ [Next]_vars => AttemptInv'
<1> SUFFICES ASSUME IInv, [Next]_vars PROVE AttemptInv'
  OBVIOUS
<1> USE PlanAssumption
<1> USE DEF IInv, TypeInv, RowInv, AttemptInv, WalkInv, PhaseInv, Items, Stages, Outcomes, Limit, Kinds,
            schedulerVars, operationVars, releaseVars, monitorVars,
            Complete, Enter, StartAttempt, MayRetry, Submit, NotIssued, RequestRelease
<1>1. ASSUME Check PROVE AttemptInv'
  BY <1>1 DEF Check
<1>2. ASSUME Dispatch PROVE AttemptInv'
  <2>1. TypeInv /\ PhaseInv /\ AttemptInv /\ WalkInv
    OBVIOUS
  <2> HIDE PlanAssumption DEF IInv, TypeInv, RowInv, AttemptInv, WalkInv, PhaseInv, Items, Stages, Outcomes, Limit,
           Kinds, Complete, Enter, StartAttempt, MayRetry, Submit, NotIssued, RequestRelease
  <2>2. cursor \in Items /\ attempts' = attempts
    BY <1>2, <2>1, Dispatched
  <2>3. attempts[cursor] = 0
    BY <2>1, <2>2 DEF WalkInv, AttemptInv, Items
  <2>4. /\ \A m \in Items \ {cursor} : stage'[m] = stage[m] /\ row'[m] = row[m]
        /\ stage'[cursor] \in {"done", "queued"}
        /\ row'[cursor] \in {"not-issued", row[cursor]}
    BY <1>2, <2>1, Dispatched DEF TypeInv
  <2>5. row[cursor] # "completed"
    BY <2>1, <2>2, <2>3 DEF AttemptInv, Limit
  <2>6. \A m \in Items : Limit(m)' = Limit(m)
    BY DEF Limit
  <2> QED
    BY <2>1, <2>2, <2>3, <2>4, <2>5, <2>6 DEF AttemptInv
<1>3. ASSUME Finish PROVE AttemptInv'
  BY <1>3 DEF Finish
<1>4. ASSUME Join PROVE AttemptInv'
  BY <1>4 DEF Join
<1>5. ASSUME NEW n \in Items, Take(n) PROVE AttemptInv'
  <2>1. CASE Cancelled \/ now >= End
    BY <1>5, <2>1 DEF Take
  <2>2. CASE ~(Cancelled \/ now >= End)
    BY <1>5, <2>2 DEF Take
  <2> QED
    BY <2>1, <2>2
<1>6. ASSUME NEW n \in Items, FirstAttempt(n) PROVE AttemptInv'
  <2>1. attempts[n] = 0 /\ attempts'[n] = 1 /\ stage'[n] = "attempt" /\ row' = row
    BY <1>6 DEF FirstAttempt
  <2>2. row[n] = "open"
    BY <1>6 DEF FirstAttempt
  <2>3. \A m \in Items \ {n} : attempts'[m] = attempts[m] /\ stage'[m] = stage[m]
    BY <1>6 DEF FirstAttempt
  <2>4. stage[n] = "ready" /\ 1 \in 1 .. Limit(n)
    BY <1>6 DEF FirstAttempt
  <2>5. AttemptInv
    OBVIOUS
  <2> HIDE PlanAssumption DEF IInv, TypeInv, RowInv, AttemptInv, WalkInv, PhaseInv, Items, Stages, Outcomes, Limit,
           Kinds, Complete, Enter, StartAttempt, MayRetry, Submit, NotIssued, RequestRelease
  <2>6. Limit(n)' = Limit(n) /\ \A m \in Items : Limit(m)' = Limit(m)
    BY DEF Limit
  <2> QED
    BY <2>1, <2>2, <2>3, <2>4, <2>5, <2>6 DEF AttemptInv
<1>7. ASSUME NEW n \in Items, EndAttempt(n) PROVE AttemptInv'
  <2>1. CASE Complete(n)
    BY <1>7, <2>1 DEF EndAttempt
  <2>2. CASE ~Complete(n)
    <3>1. stage' = [stage EXCEPT ![n] = "backoff"] /\ UNCHANGED <<row, attempts>> /\ stage[n] = "attempt"
      BY <1>7, <2>2 DEF EndAttempt
    <3> QED
      BY <1>7, <2>2, <3>1 DEF EndAttempt
  <2> QED
    BY <2>1, <2>2
<1>8. ASSUME NEW n \in Items, EndBackoff(n) PROVE AttemptInv'
  <2>1. CASE Cancelled
    BY <1>8, <2>1 DEF EndBackoff
  <2>2. CASE ~Cancelled
    <3>1. /\ attempts' = [attempts EXCEPT ![n] = @ + 1] /\ stage' = [stage EXCEPT ![n] = "attempt"] /\ row' = row
          /\ stage[n] = "backoff"
      BY <1>8, <2>2 DEF EndBackoff
    <3>2. AttemptInv /\ TypeInv /\ row[n] = "open"
      BY <3>1
    <3> HIDE PlanAssumption DEF IInv, TypeInv, RowInv, AttemptInv, WalkInv, PhaseInv, Items, Stages, Outcomes, Limit,
             Kinds, Complete, Enter, StartAttempt, MayRetry, Submit, NotIssued, RequestRelease
    <3>3. attempts[n] = 1 /\ Limit(n) = 2
      BY <3>1, <3>2 DEF AttemptInv, Limit
    <3>4. /\ attempts'[n] = 2 /\ stage'[n] = "attempt"
          /\ \A m \in Items \ {n} : attempts'[m] = attempts[m] /\ stage'[m] = stage[m]
      BY <3>1, <3>2, <3>3 DEF TypeInv
    <3>5. \A m \in Items : Limit(m)' = Limit(m)
      BY DEF Limit
    <3> QED
      BY <3>1, <3>2, <3>3, <3>4, <3>5 DEF AttemptInv
  <2> QED
    BY <2>1, <2>2
<1>9. ASSUME Release PROVE AttemptInv'
  BY <1>9 DEF Release
<1>10. ASSUME PatchHold PROVE AttemptInv'
  BY <1>10 DEF PatchHold
<1>11. ASSUME PatchCapacity PROVE AttemptInv'
  BY <1>11 DEF PatchCapacity
<1>12. ASSUME SentinelProbe PROVE AttemptInv'
  BY <1>12 DEF SentinelProbe
<1>13. ASSUME MonitorFails PROVE AttemptInv'
  BY <1>13 DEF MonitorFails
<1>14. ASSUME Deadline PROVE AttemptInv'
  BY <1>14 DEF Deadline
<1>15. ASSUME Tick PROVE AttemptInv'
  BY <1>15 DEF Tick
<1>16. ASSUME RunEnds PROVE AttemptInv'
  BY <1>16 DEF RunEnds
<1>17. CASE UNCHANGED vars
  BY <1>17 DEF vars
<1> QED
  BY <1>1, <1>2, <1>3, <1>4, <1>5, <1>6, <1>7, <1>8, 
     <1>9, <1>10, <1>11, <1>12, <1>13, <1>14, <1>15, <1>16, <1>17
  DEF Next, Scheduler, Worker, ReleaseTask, Monitors, Stopped

\* A step of a worker that enters no missed arrival says nothing of the release.
LEMMA RowsKept ==
  ASSUME TypeInv, ReleaseInv, UNCHANGED <<release, releasedAt, now, cursor, campaign>>,
         NEW n \in Items, row[n] # "not-issued",
         row' \in {row, [row EXCEPT ![n] = "completed"], [row EXCEPT ![n] = "cancelled"]}
  PROVE  ReleaseInv'
<1>1. \A m \in Items : Missed(m)' <=> Missed(m)
  BY DEF TypeInv, Missed
<1> QED
  BY <1>1 DEF ReleaseInv, Cancelled

\* An early release goes with a missed arrival.
LEMMA ReleaseStep == IInv /\ [Next]_vars => ReleaseInv'
<1> SUFFICES ASSUME IInv, [Next]_vars PROVE ReleaseInv'
  OBVIOUS
<1> USE PlanAssumption
<1> USE DEF IInv, TypeInv, RowInv, WalkInv, PhaseInv, ReleaseInv, Items, Stages, Missed, Cancelled,
            Due, ReleaseDue, schedulerVars, operationVars, releaseVars, monitorVars,
            Complete, Enter, StartAttempt, MayRetry, Submit, NotIssued, RequestRelease
<1>1. ASSUME Check PROVE ReleaseInv'
  BY <1>1 DEF Check
<1>2. ASSUME Dispatch PROVE ReleaseInv'
  <2> HIDE DEF IInv, TypeInv, RowInv, WalkInv, PhaseInv, ReleaseInv, Items, Stages, Missed, Cancelled, Due, ReleaseDue,
           Complete, Enter, StartAttempt, MayRetry, Submit, NotIssued, RequestRelease
  <2>1. TypeInv /\ PhaseInv /\ RowInv /\ WalkInv /\ ReleaseInv
    BY DEF IInv
  <2>2. CASE release' # "none"
    <3>1. \A m \in Items : Missed(m) => row'[m] = "not-issued"
      BY <1>2, <2>1, Dispatched DEF TypeInv, Missed
    <3>2. release # "none" => now >= Mitigation \/ \E m \in Items : row'[m] = "not-issued"
      BY <2>1, <3>1 DEF ReleaseInv
    <3>3. release = "none" => now >= Mitigation \/ \E m \in Items : row'[m] = "not-issued"
      <4> SUFFICES ASSUME release = "none"
                   PROVE  now >= Mitigation \/ \E m \in Items : row'[m] = "not-issued"
        OBVIOUS
      <4>1. ReleaseDue /\ Due /\ cursor \in Items
        BY <1>2, <2>1, <2>2, Dispatched DEF RequestRelease, Dispatch
      <4>2. CASE Cancelled
        <5>1. row' = [row EXCEPT ![cursor] = "not-issued"]
          BY <1>2, <2>1, <4>2, Dispatched
        <5>2. row'[cursor] = "not-issued"
          BY <2>1, <4>1, <5>1 DEF TypeInv
        <5> QED
          BY <4>1, <5>2
      <4>3. CASE ~Cancelled
        <5>1. At[cursor] >= Mitigation /\ At[cursor] <= now /\ At[cursor] \in Nat /\ now \in Nat
          BY <2>1, <4>1, <4>3, PlanAssumption DEF ReleaseDue, Due, TypeInv
        <5> QED
          BY <5>1, PlanAssumption
      <4> QED
        BY <4>2, <4>3
    <3>4. now' = now /\ releasedAt' = releasedAt /\ release' \in {release, "requested"}
      BY <1>2, <2>1, Dispatched DEF RequestRelease
    <3>5. release' \notin {"none", "requested"} =>
            releasedAt >= Mitigation \/ \E m \in Items : row'[m] = "not-issued"
      BY <2>1, <3>1, <3>4 DEF ReleaseInv
    <3> QED
      BY <2>2, <3>2, <3>3, <3>4, <3>5 DEF ReleaseInv, Missed
  <2>3. CASE release' = "none"
    <3>1. release = "none" /\ ~ReleaseDue /\ cursor \in Items /\ cursor' = cursor + 1
      BY <1>2, <2>1, <2>3, Dispatched DEF RequestRelease
    <3>2. ~Cancelled /\ At[cursor] < Mitigation
      BY <3>1, PlanAssumption DEF ReleaseDue
    <3>3. \A m \in Items : ~Missed(m)
      BY <2>1, <3>1, <3>2 DEF ReleaseInv
    <3>4. cursor' <= N
      <4>1. cursor # N /\ cursor \in 1 .. N
        BY <3>1, <3>2, PlanAssumption DEF Items
      <4> QED
        BY <3>1, <4>1, PlanAssumption
    <3>5. \A m \in Items : row'[m] = "not-issued" => campaign' = "cancelled" /\ m = cursor
      BY <1>2, <2>1, <3>3, Dispatched DEF TypeInv, Missed
    <3>6. \A m \in Items : m = cursor => m = cursor' - 1
      BY <3>1 DEF Items
    <3> QED
      BY <2>3, <3>4, <3>5, <3>6 DEF ReleaseInv, Missed, Cancelled
  <2> QED
    BY <2>2, <2>3
<1>3. ASSUME Finish PROVE ReleaseInv'
  BY <1>3 DEF Finish
<1>4. ASSUME Join PROVE ReleaseInv'
  BY <1>4 DEF Join
<1>5. ASSUME NEW n \in Items, Take(n) PROVE ReleaseInv'
  <2>1. UNCHANGED <<release, releasedAt, now, cursor, campaign>>
    BY <1>5 DEF Take
  <2>2. row[n] # "not-issued" /\ row' \in {row, [row EXCEPT ![n] = "completed"], [row EXCEPT ![n] = "cancelled"]}
    BY <1>5 DEF Take
  <2> QED
    BY <2>1, <2>2, RowsKept
<1>6. ASSUME NEW n \in Items, FirstAttempt(n) PROVE ReleaseInv'
  <2>1. UNCHANGED <<release, releasedAt, now, cursor, campaign>>
    BY <1>6 DEF FirstAttempt
  <2>2. row[n] # "not-issued" /\ row' \in {row, [row EXCEPT ![n] = "completed"], [row EXCEPT ![n] = "cancelled"]}
    BY <1>6 DEF FirstAttempt
  <2> QED
    BY <2>1, <2>2, RowsKept
<1>7. ASSUME NEW n \in Items, EndAttempt(n) PROVE ReleaseInv'
  <2>1. UNCHANGED <<release, releasedAt, now, cursor, campaign>>
    BY <1>7 DEF EndAttempt
  <2>2. row[n] # "not-issued" /\ row' \in {row, [row EXCEPT ![n] = "completed"], [row EXCEPT ![n] = "cancelled"]}
    BY <1>7 DEF EndAttempt
  <2> QED
    BY <2>1, <2>2, RowsKept
<1>8. ASSUME NEW n \in Items, EndBackoff(n) PROVE ReleaseInv'
  <2>1. UNCHANGED <<release, releasedAt, now, cursor, campaign>>
    BY <1>8 DEF EndBackoff
  <2>2. row[n] # "not-issued" /\ row' \in {row, [row EXCEPT ![n] = "completed"], [row EXCEPT ![n] = "cancelled"]}
    BY <1>8 DEF EndBackoff
  <2> QED
    BY <2>1, <2>2, RowsKept
<1>9. ASSUME Release PROVE ReleaseInv'
  BY <1>9 DEF Release
<1>10. ASSUME PatchHold PROVE ReleaseInv'
  BY <1>10 DEF PatchHold
<1>11. ASSUME PatchCapacity PROVE ReleaseInv'
  BY <1>11 DEF PatchCapacity
<1>12. ASSUME SentinelProbe PROVE ReleaseInv'
  BY <1>12 DEF SentinelProbe
<1>13. ASSUME MonitorFails PROVE ReleaseInv'
  BY <1>13 DEF MonitorFails
<1>14. ASSUME Deadline PROVE ReleaseInv'
  BY <1>14 DEF Deadline
<1>15. ASSUME Tick PROVE ReleaseInv'
  BY <1>15 DEF Tick
<1>16. ASSUME RunEnds PROVE ReleaseInv'
  BY <1>16 DEF RunEnds
<1>17. CASE UNCHANGED vars
  BY <1>17 DEF vars
<1> QED
  BY <1>1, <1>2, <1>3, <1>4, <1>5, <1>6, <1>7, <1>8, 
     <1>9, <1>10, <1>11, <1>12, <1>13, <1>14, <1>15, <1>16, <1>17
  DEF Next, Scheduler, Worker, ReleaseTask, Monitors, Stopped

\* The last record follows the release.
LEMMA ClosedStep == IInv /\ [Next]_vars => ClosedInv'
<1> SUFFICES ASSUME IInv, [Next]_vars PROVE ClosedInv'
  OBVIOUS
<1> USE PlanAssumption
<1> USE DEF IInv, TypeInv, PhaseInv, ReleaseInv, ClosedInv, Items, ReleaseSettled,
            schedulerVars, operationVars, releaseVars, monitorVars,
            Complete, Enter, StartAttempt, MayRetry, Submit, NotIssued, RequestRelease
<1>1. ASSUME Check PROVE ClosedInv'
  BY <1>1 DEF Check
<1>2. ASSUME Dispatch PROVE ClosedInv'
  BY <1>2 DEF Dispatch
<1>3. ASSUME Finish PROVE ClosedInv'
  BY <1>3 DEF Finish
<1>4. ASSUME Join PROVE ClosedInv'
  BY <1>4 DEF Join
<1>5. ASSUME NEW n \in Items, Take(n) PROVE ClosedInv'
  BY <1>5 DEF Take
<1>6. ASSUME NEW n \in Items, FirstAttempt(n) PROVE ClosedInv'
  BY <1>6 DEF FirstAttempt
<1>7. ASSUME NEW n \in Items, EndAttempt(n) PROVE ClosedInv'
  BY <1>7 DEF EndAttempt
<1>8. ASSUME NEW n \in Items, EndBackoff(n) PROVE ClosedInv'
  BY <1>8 DEF EndBackoff
<1>9. ASSUME Release PROVE ClosedInv'
  BY <1>9 DEF Release
<1>10. ASSUME PatchHold PROVE ClosedInv'
  BY <1>10 DEF PatchHold
<1>11. ASSUME PatchCapacity PROVE ClosedInv'
  BY <1>11 DEF PatchCapacity
<1>12. ASSUME SentinelProbe PROVE ClosedInv'
  BY <1>12 DEF SentinelProbe
<1>13. ASSUME MonitorFails PROVE ClosedInv'
  BY <1>13 DEF MonitorFails
<1>14. ASSUME Deadline PROVE ClosedInv'
  BY <1>14 DEF Deadline
<1>15. ASSUME Tick PROVE ClosedInv'
  BY <1>15 DEF Tick
<1>16. ASSUME RunEnds PROVE ClosedInv'
  BY <1>16 DEF RunEnds
<1>17. CASE UNCHANGED vars
  BY <1>17 DEF vars
<1> QED
  BY <1>1, <1>2, <1>3, <1>4, <1>5, <1>6, <1>7, <1>8, 
     <1>9, <1>10, <1>11, <1>12, <1>13, <1>14, <1>15, <1>16, <1>17
  DEF Next, Scheduler, Worker, ReleaseTask, Monitors, Stopped

LEMMA StepInv == IInv /\ [Next]_vars => IInv'
  BY TypeStep, RowStep, PhaseStep, AttemptStep, ReleaseStep, ClosedStep DEF IInv

\* Rows, stages, attempts and the release fit together in every reachable state.
THEOREM Invariance == Spec => []IInv
  BY InitInv, StepInv, PTL DEF Spec

\* The variables of a run keep their types, whatever the schedule and the pools.
THEOREM TypeCorrect == Spec => []TypeInv
  BY Invariance, PTL DEF IInv

-----------------------------------------------------------------------------
(* What follows from it.                                                   *)

\* An operation that was not issued has no attempt, an answered one has one,
\* or two if it reads an issue.
THEOREM RowsCountAttempts == Spec => []AttemptsMatchRows
<1>1. IInv => AttemptsMatchRows
  BY DEF IInv, AttemptInv, AttemptsMatchRows, Limit
<1> QED
  BY <1>1, Invariance, PTL

\* An accepted run whose whole demand was served has removed the fault, and
\* not before the mitigation interval was over.
THEOREM ReleaseIsOnTime == Spec => []AcceptedRunReleasedOnTime
<1>1. IInv => AcceptedRunReleasedOnTime
  BY DEF IInv, ReleaseInv, ClosedInv, Missed, AcceptedRunReleasedOnTime
<1> QED
  BY <1>1, Invariance, PTL

\* No run that has started its arrivals is closed with the fault in place.
THEOREM FaultIsReleased == Spec => []FaultReleasedAtEnd
<1>1. IInv => FaultReleasedAtEnd
  BY DEF IInv, ClosedInv, FaultReleasedAtEnd
<1> QED
  BY <1>1, Invariance, PTL

\* While the release is outstanding, at most the last arrival has been missed.
THEOREM CancelIsPrompt == Spec => []CancelReleasesFault
<1>1. IInv => CancelReleasesFault
  <2> SUFFICES ASSUME IInv, release = "none"
               PROVE  ~(Cardinality({n \in Items : Missed(n)}) >= 2)
    BY DEF CancelReleasesFault, Missed
  <2>1. {n \in Items : Missed(n)} \subseteq {cursor - 1}
    BY DEF IInv, ReleaseInv
  <2>2. IsFiniteSet({cursor - 1}) /\ Cardinality({cursor - 1}) = 1
    BY FS_Singleton
  <2>3. /\ IsFiniteSet({n \in Items : Missed(n)})
        /\ Cardinality({n \in Items : Missed(n)}) <= 1
    BY <2>1, <2>2, FS_Subset
  <2>4. Cardinality({n \in Items : Missed(n)}) \in Nat
    BY <2>3, FS_CardinalityType
  <2> QED
    BY <2>3, <2>4
<1> QED
  BY <1>1, Invariance, PTL

-----------------------------------------------------------------------------
(* Bounds on the work in progress.                                         *)

LEMMA FiniteParts ==
  /\ IsFiniteSet(Items) /\ IsFiniteSet(Pending) /\ IsFiniteSet(Pending')
  /\ \A k \in Kinds : IsFiniteSet(Busy(k)) /\ IsFiniteSet(Busy(k)')
<1>1. IsFiniteSet(Items)
  BY PlanAssumption, FS_Interval DEF Items
<1>2. \A S \in SUBSET Items : IsFiniteSet(S)
  BY <1>1, FS_Subset
<1> QED
  BY <1>1, <1>2 DEF Pending, Busy

\* A set bounded in number stays so when it does not grow, and when it grows
\* by one element below the bound.
LEMMA NoGrowth ==
  ASSUME NEW S, NEW T, NEW b \in Nat, IsFiniteSet(S), T \subseteq S, Cardinality(S) <= b
  PROVE  Cardinality(T) <= b
<1>1. IsFiniteSet(T) /\ Cardinality(T) <= Cardinality(S)
  BY FS_Subset
<1>2. Cardinality(T) \in Nat /\ Cardinality(S) \in Nat
  BY <1>1, FS_CardinalityType
<1> QED
  BY <1>1, <1>2

LEMMA GrowthByOne ==
  ASSUME NEW S, NEW T, NEW x, NEW b \in Nat, IsFiniteSet(S),
         T \subseteq S \cup {x}, Cardinality(S) < b
  PROVE  Cardinality(T) <= b
<1>1. /\ IsFiniteSet(S \cup {x})
      /\ Cardinality(S \cup {x}) = IF x \in S THEN Cardinality(S) ELSE Cardinality(S) + 1
  BY FS_AddElement
<1>2. Cardinality(S) \in Nat /\ Cardinality(S \cup {x}) \in Nat
  BY <1>1, FS_CardinalityType
<1>3. Cardinality(S \cup {x}) <= b
  BY <1>1, <1>2
<1> QED
  BY <1>1, <1>3, NoGrowth

\* Only a submission adds an unfinished operation.
LEMMA PendingStep ==
  IInv /\ [Next]_vars =>
    \/ Pending' \subseteq Pending
    \/ ~BacklogFull /\ Pending' \subseteq Pending \cup {cursor}
<1> SUFFICES ASSUME IInv, [Next]_vars
             PROVE  \/ Pending' \subseteq Pending
                    \/ ~BacklogFull /\ Pending' \subseteq Pending \cup {cursor}
  OBVIOUS
<1> USE DEF Pending, schedulerVars, operationVars, releaseVars, monitorVars, IInv, TypeInv
<1>1. CASE Dispatch
  BY <1>1 DEF Dispatch, Submit, NotIssued
<1>2. CASE stage' = stage
  BY <1>2
<1>3. ASSUME NEW n \in Items, Worker(n) PROVE Pending' \subseteq Pending
  BY <1>3 DEF Worker, Take, FirstAttempt, EndAttempt, EndBackoff, StartAttempt, Complete, Enter
<1>4. Dispatch \/ stage' = stage \/ \E n \in Items : Worker(n)
  BY DEF Next, Scheduler, Check, Finish, Join, ReleaseTask, Release, PatchHold, PatchCapacity,
         Monitors, SentinelProbe, MonitorFails, Deadline, Tick, RunEnds, Stopped, vars
<1> QED
  BY <1>1, <1>2, <1>3, <1>4

\* Only a worker that is free takes an operation, of its own pool.
LEMMA BusyStep ==
  ASSUME IInv, [Next]_vars, NEW k \in Kinds
  PROVE  \/ Busy(k)' \subseteq Busy(k)
         \/ /\ Cardinality(Busy(k)) < Width(k)
            /\ \E n \in Items : Busy(k)' \subseteq Busy(k) \cup {n}
<1> USE DEF Busy, schedulerVars, operationVars, releaseVars, monitorVars, IInv, TypeInv
<1>1. CASE Dispatch
  BY <1>1 DEF Dispatch, Submit, NotIssued
<1>2. CASE stage' = stage
  BY <1>2
<1>3. ASSUME NEW n \in Items, Take(n), Kind[n] = k
      PROVE  /\ Cardinality(Busy(k)) < Width(k)
             /\ Busy(k)' \subseteq Busy(k) \cup {n}
  BY <1>3 DEF Take, Enter
<1>4. ASSUME NEW n \in Items, Take(n), Kind[n] # k PROVE Busy(k)' \subseteq Busy(k)
  BY <1>4 DEF Take, Enter
<1>5. ASSUME NEW n \in Items, FirstAttempt(n) \/ EndAttempt(n) \/ EndBackoff(n)
      PROVE  Busy(k)' \subseteq Busy(k)
  BY <1>5 DEF FirstAttempt, EndAttempt, EndBackoff, StartAttempt, Complete, Enter
<1>6. Dispatch \/ stage' = stage \/ \E n \in Items : Worker(n)
  BY DEF Next, Scheduler, Check, Finish, Join, ReleaseTask, Release, PatchHold, PatchCapacity,
         Monitors, SentinelProbe, MonitorFails, Deadline, Tick, RunEnds, Stopped, vars
<1> QED
  BY <1>1, <1>2, <1>3, <1>4, <1>5, <1>6 DEF Worker

\* At most Backlog operations are unfinished, and no pool is oversubscribed.
THEOREM LoadIsBounded == Spec => []LoadBounded
<1> USE PlanAssumption
<1>1. Init => LoadBounded
  <2> SUFFICES ASSUME Init PROVE LoadBounded
    OBVIOUS
  <2>1. Pending = {} /\ \A k \in Kinds : Busy(k) = {}
    BY DEF Init, Pending, Busy
  <2>2. Cardinality({}) = 0
    BY FS_EmptySet
  <2> QED
    BY <2>1, <2>2 DEF LoadBounded, Width
<1>2. IInv /\ LoadBounded /\ [Next]_vars => LoadBounded'
  <2> SUFFICES ASSUME IInv, LoadBounded, [Next]_vars PROVE LoadBounded'
    OBVIOUS
  <2>1. Cardinality(Pending') <= Backlog
    <3>1. CASE Pending' \subseteq Pending
      BY <3>1, FiniteParts, NoGrowth DEF LoadBounded
    <3>2. CASE ~BacklogFull /\ Pending' \subseteq Pending \cup {cursor}
      <4>1. Cardinality(Pending) < Backlog
        BY <3>2, FiniteParts, FS_CardinalityType DEF BacklogFull
      <4> QED
        BY <3>2, <4>1, FiniteParts, GrowthByOne
    <3> QED
      BY <3>1, <3>2, PendingStep
  <2>2. ASSUME NEW k \in Kinds PROVE Cardinality(Busy(k)') <= Width(k)
    <3>1. Width(k) \in Nat
      BY DEF Width
    <3>2. CASE Busy(k)' \subseteq Busy(k)
      BY <3>1, <3>2, FiniteParts, NoGrowth DEF LoadBounded
    <3>3. ASSUME Cardinality(Busy(k)) < Width(k),
                 NEW n \in Items, Busy(k)' \subseteq Busy(k) \cup {n}
          PROVE  Cardinality(Busy(k)') <= Width(k)
      BY <3>1, <3>3, FiniteParts, GrowthByOne
    <3> QED
      BY <3>2, <3>3, BusyStep
  <2> QED
    BY <2>1, <2>2 DEF LoadBounded, Width
<1> QED
  BY <1>1, <1>2, Invariance, PTL DEF Spec

-----------------------------------------------------------------------------
(* The run implements the arrival ledger.                                  *)

\* A step of the run enters a row, closes the ledger or leaves it alone.
LEMMA LedgerStep == IInv /\ [Next]_vars => [Ledger!Next]_<<row, pc = "ended">>
<1> SUFFICES ASSUME IInv, [Next]_vars PROVE [Ledger!Next]_<<row, pc = "ended">>
  OBVIOUS
<1> USE DEF schedulerVars, operationVars, releaseVars, monitorVars
<1> DEFINE Same == row' = row /\ (pc' = "ended" <=> pc = "ended")
<1> DEFINE Filed(n, o) ==
      /\ pc # "ended" /\ pc' # "ended"
      /\ row[n] = "open" /\ row' = [row EXCEPT ![n] = o]
<1>a. ASSUME Same PROVE [Ledger!Next]_<<row, pc = "ended">>
  BY <1>a
<1>b. ASSUME NEW n \in Items, NEW o \in Outcomes, Filed(n, o)
      PROVE  [Ledger!Next]_<<row, pc = "ended">>
  <2>1. Ledger!Enter(n, o)
    BY <1>b DEF Ledger!Enter
  <2> QED
    BY <2>1 DEF Ledger!Next
<1>1. ASSUME Check PROVE Same
  BY <1>1 DEF Check
<1>2. ASSUME Dispatch PROVE Same \/ Filed(cursor, "not-issued")
  BY <1>2 DEF Dispatch, NotIssued, Submit, IInv, TypeInv, RowInv, WalkInv, PhaseInv, Items
<1>3. ASSUME Finish PROVE Same
  BY <1>3 DEF Finish
<1>4. ASSUME Join PROVE [Ledger!Next]_<<row, pc = "ended">>
  <2>1. (pc # "ended") /\ (pc' = "ended") /\ row' = row /\ cursor = N + 1
    BY <1>4 DEF Join, IInv, PhaseInv
  <2>2. \A n \in Items : row[n] # "open"
    BY <1>4, <2>1, PlanAssumption
    DEF Join, Pending, IInv, TypeInv, RowInv, WalkInv, Items, Stages
  <2>3. Ledger!Close
    BY <2>1, <2>2 DEF Ledger!Close
  <2> QED
    BY <2>3 DEF Ledger!Next
<1>5. ASSUME NEW n \in Items, Take(n) PROVE Same \/ Filed(n, "cancelled")
  BY <1>5 DEF Take, Enter, IInv, RowInv, PhaseInv
<1>6. ASSUME NEW n \in Items, FirstAttempt(n) PROVE Same
  BY <1>6 DEF FirstAttempt, StartAttempt
<1>7. ASSUME NEW n \in Items, EndAttempt(n) PROVE Same \/ Filed(n, "completed")
  BY <1>7 DEF EndAttempt, Complete, Enter, IInv, RowInv, PhaseInv
<1>8. ASSUME NEW n \in Items, EndBackoff(n) PROVE Same \/ Filed(n, "completed")
  BY <1>8 DEF EndBackoff, StartAttempt, Complete, Enter, IInv, RowInv, PhaseInv
<1>9. ASSUME ReleaseTask \/ Monitors \/ Tick \/ RunEnds \/ UNCHANGED vars PROVE Same
  BY <1>9 DEF ReleaseTask, Release, PatchHold, PatchCapacity, Monitors, SentinelProbe,
              MonitorFails, Deadline, Tick, RunEnds, vars
<1>10. cursor \in Items \/ ~Dispatch
  BY PlanAssumption DEF Dispatch, IInv, TypeInv, PhaseInv, Items
<1>11. {"completed", "cancelled", "not-issued"} = Outcomes
  BY DEF Outcomes
<1>12. CASE Dispatch
  BY <1>a, <1>b, <1>2, <1>10, <1>11, <1>12
<1>13. ASSUME NEW n \in Items, Worker(n) PROVE [Ledger!Next]_<<row, pc = "ended">>
  BY <1>a, <1>b, <1>5, <1>6, <1>7, <1>8, <1>11, <1>13 DEF Worker
<1> QED
  BY <1>a, <1>1, <1>3, <1>4, <1>9, <1>12, <1>13 DEF Next, Scheduler, Stopped

\* Every planned arrival gets exactly one terminal row, and drive() returns
\* only when none is missing: the run implements ArrivalLedger.
THEOREM ImplementsLedger == Spec => LedgerSpec
<1>1. Init => Ledger!Init
  BY DEF Init, Ledger!Init
<1>2. Spec => Ledger!Spec
  BY <1>1, Invariance, LedgerStep, PTL DEF Spec, Ledger!Spec
<1> QED
  BY <1>2 DEF LedgerSpec

-----------------------------------------------------------------------------
(* A run comes to its end: the parts of RunsEnd that need no fairness.     *)

\* Among the arrivals of a kind that wait for a worker there is a first one.
LEMMA FirstInLine ==
  ASSUME NEW Q \in SUBSET Items, Q # {}
  PROVE  \E n \in Q : \A m \in Q : n <= m
<1>1. Q \subseteq Nat
  BY DEF Items
<1>2. PICK n \in Q : \A m \in Q : ~(<<m, n>> \in OpToRel(<, Nat))
  BY <1>1, NatLessThanWellFounded, WFMin
<1>3. \A m \in Q : ~(m < n)
  BY <1>1, <1>2 DEF OpToRel
<1> QED
  BY <1>1, <1>3

\* With nobody at work, the first in line of any kind finds a worker.
LEMMA FreeWorker ==
  ASSUME IInv, Pending # {}
  PROVE  \E n \in Items : WorkerMoves(n)
<1> SUFFICES ASSUME \A n \in Items : stage[n] \notin {"ready", "attempt", "backoff"}
             PROVE  \E n \in Items : WorkerMoves(n)
  BY DEF WorkerMoves
<1>1. PICK x \in Items : stage[x] = "queued"
  BY DEF Pending
<1> DEFINE Q == {m \in Items : Kind[m] = Kind[x] /\ stage[m] = "queued"}
<1>2. Q \in SUBSET Items /\ x \in Q
  BY <1>1
<1>3. PICK n \in Q : \A m \in Q : n <= m
  BY <1>2, FirstInLine
<1>4. n \in Items /\ stage[n] = "queued" /\ Kind[n] = Kind[x]
  BY <1>3
<1>5. \A m \in Items : Kind[m] = Kind[n] /\ stage[m] = "queued" => n <= m
  BY <1>3, <1>4
<1>6. Cardinality(Busy(Kind[n])) < Width(Kind[n])
  <2>1. Busy(Kind[n]) = {}
    BY DEF Busy
  <2>2. Cardinality(Busy(Kind[n])) = 0
    BY <2>1, FS_EmptySet
  <2> QED
    BY <2>2, PlanAssumption DEF Width
<1> QED
  BY <1>4, <1>5, <1>6 DEF WorkerMoves

\* A run that is cancelled or out of time never comes to a standstill: its
\* scheduler, a worker, the release task or _measure() can go on.
THEOREM RunNeverStands == Spec => []NoStandstill
<1>1. IInv => NoStandstill
  <2> SUFFICES ASSUME IInv, run = "open", Cancelled \/ now >= End
               PROVE  \/ SchedulerMoves \/ \E n \in Items : WorkerMoves(n)
                      \/ release \in {"requested", "recorded", "hold-removed"}
                      \/ pc = "ended" /\ ReleaseSettled
    BY DEF NoStandstill
  <2>1. CASE pc = "check"
    BY <2>1 DEF SchedulerMoves
  <2>2. CASE pc = "dispatch"
    <3>1. cursor \in Items
      BY <2>2, PlanAssumption DEF IInv, TypeInv, PhaseInv, Items
    <3>2. now >= End => At[cursor] <= now
      BY <3>1, PlanAssumption DEF IInv, TypeInv, Items
    <3> QED
      BY <2>2, <3>2 DEF SchedulerMoves, Due
  <2>3. CASE pc = "join"
    BY <2>3, FreeWorker DEF SchedulerMoves
  <2>4. CASE pc = "ended"
    BY <2>4 DEF IInv, TypeInv, ReleaseSettled
  <2> QED
    BY <2>1, <2>2, <2>3, <2>4 DEF IInv, TypeInv
<1> QED
  BY <1>1, Invariance, PTL

\* What is left to do is counted.
LEMMA LeftCounts ==
  ASSUME IInv
  PROVE  /\ \A n \in Items : OperationLeft(n) \in 0 .. 6
         /\ SchedulerLeft \in Nat /\ ReleaseLeft \in 0 .. 4 /\ RunLeft \in 0 .. 1
<1>1. \A n \in Items : OperationLeft(n) \in 0 .. 6
  BY DEF OperationLeft
<1>2. SchedulerLeft \in Nat
  BY PlanAssumption DEF SchedulerLeft, IInv, TypeInv
<1>3. ReleaseLeft \in 0 .. 4 /\ RunLeft \in 0 .. 1
  BY DEF ReleaseLeft, RunLeft
<1> QED
  BY <1>1, <1>2, <1>3

\* One operation goes on and the others stay where they are.
LEMMA OperationShrinks ==
  ASSUME IInv, NEW n \in Items, stage' = [stage EXCEPT ![n] = stage'[n]],
         attempts' = [attempts EXCEPT ![n] = attempts'[n]],
         OperationLeft(n)' < OperationLeft(n)
  PROVE  \A m \in Items : OperationLeft(m)' <= OperationLeft(m)
<1> SUFFICES ASSUME NEW m \in Items PROVE OperationLeft(m)' <= OperationLeft(m)
  OBVIOUS
<1>1. CASE m = n
  <2>1. OperationLeft(n) \in 0 .. 6 /\ OperationLeft(n)' \in 0 .. 6
    BY DEF OperationLeft
  <2> QED
    BY <1>1, <2>1
<1>2. CASE m # n
  <2>1. stage'[m] = stage[m] /\ attempts'[m] = attempts[m]
    BY <1>2 DEF IInv, TypeInv
  <2>2. OperationLeft(m)' = OperationLeft(m)
    BY <2>1 DEF OperationLeft
  <2> QED
    BY <2>2, LeftCounts
<1> QED
  BY <1>1, <1>2

\* The steps an operation has left when it is where it is, and where it goes.
LEMMA WorkerShrinks ==
  ASSUME IInv, NEW n \in Items, Worker(n)
  PROVE  /\ OperationLeft(n)' < OperationLeft(n)
         /\ stage' = [stage EXCEPT ![n] = stage'[n]]
         /\ attempts' = [attempts EXCEPT ![n] = attempts'[n]]
         /\ UNCHANGED <<now, schedulerVars, releaseVars, monitorVars, run>>
<1> USE DEF IInv, TypeInv
<1>1. CASE Take(n)
  <2>1. stage[n] = "queued" /\ stage'[n] \in {"ready", "done"} /\ attempts' = attempts
    BY <1>1 DEF Take, Enter
  <2>2. stage' = [stage EXCEPT ![n] = stage'[n]]
    BY <1>1 DEF Take, Enter
  <2>3. OperationLeft(n) = 5 /\ OperationLeft(n)' \in {4, 0}
    BY <2>1 DEF OperationLeft
  <2> QED
    BY <1>1, <2>1, <2>2, <2>3 DEF Take
<1>2. CASE FirstAttempt(n)
  <2>1. stage[n] = "ready" /\ attempts[n] = 0 /\ stage'[n] = "attempt" /\ attempts'[n] = 1
    BY <1>2 DEF FirstAttempt, StartAttempt, AttemptInv
  <2>2. OperationLeft(n) = 4 /\ OperationLeft(n)' = 3
    BY <2>1 DEF OperationLeft
  <2> QED
    BY <1>2, <2>2 DEF FirstAttempt, StartAttempt
<1>3. CASE EndAttempt(n)
  <2>1. CASE Complete(n)
    <3>1. stage[n] = "attempt" /\ stage'[n] = "done"
      BY <1>3, <2>1 DEF EndAttempt, Complete, Enter
    <3>2. OperationLeft(n) \in {1, 3} /\ OperationLeft(n)' = 0
      BY <3>1 DEF OperationLeft
    <3> QED
      BY <1>3, <2>1, <3>2 DEF EndAttempt, Complete, Enter
  <2>2. CASE MayRetry(n) /\ stage' = [stage EXCEPT ![n] = "backoff"]
    <3>1. stage[n] = "attempt" /\ attempts[n] = 1 /\ stage'[n] = "backoff"
      BY <1>3, <2>2, PlanAssumption DEF EndAttempt, MayRetry, AttemptInv, Limit, Kinds
    <3>2. OperationLeft(n) = 3 /\ OperationLeft(n)' = 2
      BY <3>1 DEF OperationLeft
    <3> QED
      BY <1>3, <2>2, <3>2 DEF EndAttempt
  <2> QED
    BY <1>3, <2>1, <2>2 DEF EndAttempt
<1>4. CASE EndBackoff(n)
  <2>0. stage[n] = "backoff" /\ attempts[n] = 1 /\ OperationLeft(n) = 2
    BY <1>4 DEF EndBackoff, AttemptInv, OperationLeft
  <2>1. CASE Cancelled
    <3>1. stage'[n] = "done" /\ OperationLeft(n)' = 0
      BY <1>4, <2>1 DEF EndBackoff, Complete, Enter, OperationLeft
    <3> QED
      BY <1>4, <2>0, <2>1, <3>1 DEF EndBackoff, Complete, Enter
  <2>2. CASE ~Cancelled
    <3>1. stage'[n] = "attempt" /\ attempts'[n] = 2
      BY <1>4, <2>0, <2>2 DEF EndBackoff, StartAttempt
    <3>2. OperationLeft(n)' = 1
      BY <3>1 DEF OperationLeft
    <3> QED
      BY <1>4, <2>0, <2>2, <3>2 DEF EndBackoff, StartAttempt
  <2> QED
    BY <2>1, <2>2
<1> QED
  BY <1>1, <1>2, <1>3, <1>4 DEF Worker

\* So no thread of a run works for ever: an operation has at most six steps, the
\* release four, and the scheduler two for each arrival that is left.
THEOREM WorkIsFinite == Spec => FiniteWork
<1> DEFINE NoMore == /\ \A n \in Items : OperationLeft(n)' <= OperationLeft(n)
                     /\ SchedulerLeft' <= SchedulerLeft
                     /\ ReleaseLeft' <= ReleaseLeft /\ RunLeft' <= RunLeft
           Less == \/ \E n \in Items : OperationLeft(n)' < OperationLeft(n)
                   \/ SchedulerLeft' < SchedulerLeft \/ ReleaseLeft' < ReleaseLeft \/ RunLeft' < RunLeft
<1>1. ASSUME IInv, Next PROVE NoMore /\ (UNCHANGED <<now, monitorVars>> => Less \/ UNCHANGED vars)
  <2> USE DEF schedulerVars, operationVars, releaseVars, monitorVars
  <2>0. /\ \A n \in Items : OperationLeft(n) \in Int
        /\ SchedulerLeft \in Int /\ ReleaseLeft \in Int /\ RunLeft \in Int
    BY <1>1, LeftCounts
  <2>a. ASSUME UNCHANGED operationVars PROVE \A n \in Items : OperationLeft(n)' <= OperationLeft(n)
    <3>1. \A n \in Items : OperationLeft(n)' = OperationLeft(n)
      BY <2>a DEF OperationLeft
    <3> QED
      BY <2>0, <3>1
  <2>b. ASSUME UNCHANGED schedulerVars PROVE SchedulerLeft' <= SchedulerLeft
    <3>1. SchedulerLeft' = SchedulerLeft
      BY <2>b DEF SchedulerLeft
    <3> QED
      BY <2>0, <3>1
  <2>c. ASSUME UNCHANGED releaseVars PROVE ReleaseLeft' <= ReleaseLeft
    <3>1. ReleaseLeft' = ReleaseLeft
      BY <2>c DEF ReleaseLeft
    <3> QED
      BY <2>0, <3>1
  <2>d. ASSUME UNCHANGED run PROVE RunLeft' <= RunLeft
    <3>1. RunLeft' = RunLeft
      BY <2>d DEF RunLeft
    <3> QED
      BY <2>0, <3>1
  <2>1. CASE Check
    <3>1. pc = "check" /\ pc' = "dispatch" /\ cursor' = cursor
      BY <2>1 DEF Check
    <3>2. SchedulerLeft' < SchedulerLeft /\ SchedulerLeft' <= SchedulerLeft
      BY <1>1, <3>1, PlanAssumption DEF SchedulerLeft, IInv, TypeInv
    <3>3. UNCHANGED <<operationVars, releaseVars, run>>
      BY <2>1 DEF Check
    <3> QED
      BY <2>a, <2>c, <2>d, <3>2, <3>3
  <2>2. CASE Dispatch
    <3>1. pc = "dispatch" /\ pc' = "check" /\ cursor' = cursor + 1 /\ cursor \in Items
      BY <1>1, <2>2, PlanAssumption DEF Dispatch, IInv, TypeInv, PhaseInv, Items
    <3>2. SchedulerLeft' < SchedulerLeft /\ SchedulerLeft' <= SchedulerLeft
      BY <1>1, <3>1, PlanAssumption DEF SchedulerLeft, IInv, TypeInv
    <3>3. ReleaseLeft' <= ReleaseLeft
      <4>1. CASE release' = release
        BY <2>0, <4>1 DEF ReleaseLeft
      <4>2. CASE release = "none" /\ release' = "requested"
        BY <4>2 DEF ReleaseLeft
      <4> QED
        BY <2>2, <4>1, <4>2 DEF Dispatch, RequestRelease
    <3>4. \A n \in Items : OperationLeft(n)' <= OperationLeft(n)
      <4>0. PICK n \in Items : n = cursor
        BY <3>1
      <4>1. stage[n] = "planned" /\ stage'[n] \in {"queued", "done"}
        BY <1>1, <2>2, <4>0, PlanAssumption DEF Dispatch, NotIssued, Submit, IInv, TypeInv, WalkInv, Items
      <4>2. OperationLeft(n) = 6 /\ OperationLeft(n)' \in {5, 0}
        BY <4>1 DEF OperationLeft
      <4>3. stage' = [stage EXCEPT ![n] = stage'[n]]
        BY <1>1, <2>2, <4>0 DEF Dispatch, NotIssued, Submit, IInv, TypeInv
      <4>4. attempts' = [attempts EXCEPT ![n] = attempts'[n]]
        BY <1>1, <2>2, <4>0 DEF Dispatch, IInv, TypeInv
      <4>5. OperationLeft(n)' < OperationLeft(n)
        BY <4>2
      <4> QED
        BY <1>1, <4>3, <4>4, <4>5, OperationShrinks
    <3>5. UNCHANGED run
      BY <2>2 DEF Dispatch
    <3> QED
      BY <2>d, <3>2, <3>3, <3>4, <3>5
  <2>3. CASE Finish \/ Join
    <3>1. SchedulerLeft' < SchedulerLeft /\ SchedulerLeft' <= SchedulerLeft
      BY <1>1, <2>3, PlanAssumption DEF Finish, Join, SchedulerLeft, IInv, TypeInv
    <3>2. UNCHANGED <<operationVars, releaseVars, run>>
      BY <2>3 DEF Finish, Join
    <3> QED
      BY <2>a, <2>c, <2>d, <3>1, <3>2
  <2>4. CASE ReleaseTask
    <3>1. ReleaseLeft' < ReleaseLeft /\ ReleaseLeft' <= ReleaseLeft
      BY <2>4 DEF ReleaseTask, Release, PatchHold, PatchCapacity, ReleaseLeft
    <3>2. UNCHANGED <<operationVars, schedulerVars, run>>
      BY <2>4 DEF ReleaseTask, Release, PatchHold, PatchCapacity
    <3> QED
      BY <2>a, <2>b, <2>d, <3>1, <3>2
  <2>5. CASE RunEnds
    <3>1. RunLeft' < RunLeft /\ RunLeft' <= RunLeft
      BY <2>5 DEF RunEnds, RunLeft
    <3>2. UNCHANGED <<operationVars, schedulerVars, releaseVars>>
      BY <2>5 DEF RunEnds
    <3> QED
      BY <2>a, <2>b, <2>c, <3>1, <3>2
  <2>6. ASSUME NEW n \in Items, Worker(n) PROVE NoMore /\ Less
    <3>1. /\ OperationLeft(n)' < OperationLeft(n)
          /\ UNCHANGED <<now, schedulerVars, releaseVars, monitorVars, run>>
      BY <1>1, <2>6, WorkerShrinks
    <3>2. \A m \in Items : OperationLeft(m)' <= OperationLeft(m)
      BY <1>1, <2>6, WorkerShrinks, OperationShrinks
    <3> QED
      BY <2>b, <2>c, <2>d, <3>1, <3>2
  <2>7. CASE Monitors \/ Tick
    <3>1. UNCHANGED <<schedulerVars, operationVars, releaseVars, run>>
      BY <2>7 DEF Monitors, SentinelProbe, MonitorFails, Deadline, Tick
    <3>2. NoMore
      BY <2>a, <2>b, <2>c, <2>d, <3>1
    <3> QED
      BY <3>1, <3>2 DEF vars
  <2>8. CASE Stopped
    BY <2>8, <2>a, <2>b, <2>c, <2>d DEF Stopped, vars
  <2> QED
    BY <1>1, <2>1, <2>2, <2>3, <2>4, <2>5, <2>6, <2>7, <2>8 DEF Next, Scheduler
<1>2. ASSUME IInv, IInv', NoMore
      PROVE  /\ \A n \in Items : OperationLeft(n)' \in 0 .. OperationLeft(n)
             /\ SchedulerLeft' \in 0 .. SchedulerLeft
             /\ ReleaseLeft' \in 0 .. ReleaseLeft /\ RunLeft' \in 0 .. RunLeft
  <2>1. /\ \A n \in Items : OperationLeft(n) \in 0 .. 6
        /\ SchedulerLeft \in Nat /\ ReleaseLeft \in 0 .. 4 /\ RunLeft \in 0 .. 1
    BY <1>2, LeftCounts
  <2>2. /\ \A n \in Items : OperationLeft(n)' \in 0 .. 6
        /\ ReleaseLeft' \in 0 .. 4 /\ RunLeft' \in 0 .. 1
    BY DEF OperationLeft, ReleaseLeft, RunLeft
  <2>3. SchedulerLeft' \in Nat
    BY <1>2, PlanAssumption DEF SchedulerLeft, IInv, TypeInv
  <2> QED
    BY <1>2, <2>1, <2>2, <2>3
<1> HIDE DEF Less
<1>3. IInv /\ IInv' /\ [Next]_vars =>
        [/\ \A n \in Items : OperationLeft(n)' \in 0 .. OperationLeft(n)
         /\ SchedulerLeft' \in 0 .. SchedulerLeft
         /\ ReleaseLeft' \in 0 .. ReleaseLeft /\ RunLeft' \in 0 .. RunLeft
         /\ UNCHANGED <<now, monitorVars>> => Less]_vars
  BY <1>1, <1>2
<1> USE DEF Less
<1> QED
  BY <1>3, Invariance, PTL DEF Spec, FiniteWork

-----------------------------------------------------------------------------
(* The run implements the phases the campaign relies on.                   *)

Phase == <<Demand, Patches, run # "open">>

\* The rows of a run that has ended are final: nothing is unfinished.
LEMMA RowsAreFinal == IInv /\ pc = "ended" /\ [Next]_vars => row' = row
<1> SUFFICES ASSUME IInv, pc = "ended", [Next]_vars PROVE row' = row
  OBVIOUS
<1>1. \A n \in Items : ~Worker(n)
  BY DEF IInv, PhaseInv, Worker, Take, FirstAttempt, EndAttempt, EndBackoff
<1>2. ~Dispatch
  BY DEF Dispatch
<1> QED
  BY <1>1, <1>2
  DEF Next, Scheduler, Check, Finish, Join, ReleaseTask, Release, PatchHold, PatchCapacity, Monitors,
      SentinelProbe, MonitorFails, Deadline, Tick, RunEnds, Stopped, vars, operationVars

\* A step of the run lifts the fault, ends the demand, patches a knob, closes
\* the run, or is not seen from outside.
LEMMA PhaseSeen == IInv /\ [Next]_vars => [Phases!Next]_Phase
<1> SUFFICES ASSUME IInv, [Next]_vars PROVE [Phases!Next]_Phase
  OBVIOUS
<1> USE DEF schedulerVars, operationVars, releaseVars, monitorVars
<1>1. CASE Dispatch
  <2>1. pc = "dispatch" /\ pc' = "check" /\ run' = run
    BY <1>1 DEF Dispatch
  <2>2. CASE release' = release
    <3>1. Demand' = Demand /\ Patches' = Patches
      BY <2>1, <2>2 DEF Demand, Patches
    <3> QED
      BY <2>1, <3>1 DEF Phase
  <2>3. CASE release = "none" /\ release' = "requested"
    <3>1. Phases!Lift
      BY <2>1, <2>3 DEF Phases!Lift, Demand, Patches
    <3> QED
      BY <3>1 DEF Phases!Next
  <2> QED
    BY <1>1, <2>2, <2>3 DEF Dispatch, RequestRelease
<1>2. CASE Join
  <2>1. release # "none" /\ run = "open"
    BY <1>2, PlanAssumption DEF Join, IInv, TypeInv, PhaseInv, ReleaseInv, ClosedInv
  <2>2. pc = "join" /\ pc' = "ended" /\ release' = release /\ row' = row /\ run' = run
    BY <1>2 DEF Join
  <2>3. Demand = "recovery" /\ Demand' \in {"complete", "cut"} /\ Patches' = Patches
    BY <2>1, <2>2 DEF Demand, Patches
  <2>4. Patches # "off"
    BY <2>1 DEF Patches, IInv, TypeInv
  <2>5. Phases!Complete \/ Phases!Cut
    BY <2>2, <2>3, <2>4 DEF Phases!Complete, Phases!Cut
  <2> QED
    BY <2>5 DEF Phases!Next
<1>3. CASE Release
  <2>1. Demand' = Demand /\ Patches' = Patches /\ run' = run
    BY <1>3 DEF Release, Demand, Patches
  <2> QED
    BY <2>1 DEF Phase
<1>4. CASE PatchHold \/ PatchCapacity
  <2>1. Demand' = Demand /\ run' = run
    BY <1>4 DEF PatchHold, PatchCapacity, Demand
  <2>2. Phases!Patch
    BY <1>4, <2>1 DEF PatchHold, PatchCapacity, Patches, Phases!Patch
  <2> QED
    BY <2>2 DEF Phases!Next
<1>5. CASE RunEnds
  <2>1. pc = "ended" /\ run = "open" /\ run' # "open" /\ UNCHANGED <<pc, row, release>>
    BY <1>5 DEF RunEnds
  <2>2. release \in {"done", "failed"}
    BY <1>5, <2>1, PlanAssumption DEF RunEnds, ReleaseSettled, IInv, PhaseInv, ReleaseInv, TypeInv
  <2>3. Demand' = Demand /\ Patches' = Patches
    BY <2>1 DEF Demand, Patches
  <2>4. Demand \in {"complete", "cut"} /\ Patches \in {"done", "failed"}
    BY <2>1, <2>2 DEF Demand, Patches
  <2>5. Phases!Close
    BY <2>1, <2>3, <2>4 DEF Phases!Close
  <2> QED
    BY <2>5 DEF Phases!Next
<1>6. ASSUME pc' = pc \/ {pc, pc'} \subseteq {"check", "dispatch", "join"}, release' = release, run' = run
      PROVE  [Phases!Next]_Phase
  <2>1. pc = "ended" => row' = row
    BY RowsAreFinal
  <2>2. Demand' = Demand /\ Patches' = Patches
    BY <1>6, <2>1 DEF Demand, Patches
  <2> QED
    BY <1>6, <2>2 DEF Phase
<1>7. CASE Check \/ Finish
  BY <1>6, <1>7 DEF Check, Finish
<1>8. ASSUME NEW n \in Items, Worker(n) PROVE [Phases!Next]_Phase
  BY <1>6, <1>8 DEF Worker, Take, FirstAttempt, EndAttempt, EndBackoff
<1>9. CASE Monitors \/ Tick \/ UNCHANGED vars
  BY <1>6, <1>9 DEF Monitors, SentinelProbe, MonitorFails, Deadline, Tick, vars
<1> QED
  BY <1>1, <1>2, <1>3, <1>4, <1>5, <1>7, <1>8, <1>9 DEF Next, Scheduler, ReleaseTask, Stopped

\* Scheduler, workers, release task and monitors together are, for the campaign,
\* a run in the phases of RunPhases; its arrivals are those of ArrivalLedger.
THEOREM KeepsContract == Spec => DriveContract
<1>1. Init => Phases!Init
  BY DEF Init, Phases!Init, Demand, Patches
<1>2. IInv /\ [Next]_vars => [Phases!Next]_<<Demand, Patches, run # "open">>
  BY PhaseSeen DEF Phase
<1>3. Spec => Phases!Spec
  BY <1>1, <1>2, Invariance, PTL DEF Spec, Phases!Spec
<1> QED
  BY <1>3, ImplementsLedger, WorkIsFinite DEF DriveContract, PhasesSpec

\* The load is bounded and attempts agree with rows.
THEOREM DriveIsSafe == Spec => []DriveSafe
  BY TypeCorrect, LoadIsBounded, RowsCountAttempts, RunNeverStands, PTL DEF DriveSafe

\* The fault goes on time, at once when cancelled, and before a run is closed.
THEOREM FaultGoes == Spec => []FaultIsRemoved
  BY ReleaseIsOnTime, CancelIsPrompt, FaultIsReleased, PTL DEF FaultIsRemoved
=============================================================================
