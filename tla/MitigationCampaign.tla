------------------------- MODULE MitigationCampaign -------------------------
(***************************************************************************)
(* The P9 campaign around drive(): invocations of azure-mitigation.py      *)
(* measure share one append-only ledger under a flock, a row is counted    *)
(* before any workload, and each run is three threads beside the driver:   *)
(* the sentinel of the direct path, the monitor that collects snapshots,   *)
(* and the release of the fault.  freeze and compare read what is left.    *)
(* HealthyInitialization comes first; drive() itself is MitigationDrive.   *)
(***************************************************************************)
EXTENDS HealthyInitialization

CONSTANTS
  Processes,     \* invocations that can exist at the same time
  Plans,         \* plans with an approval
  Arms,          \* arms of the comparison
  Calibrations,  \* approval['limits']: calibrations of a campaign, 2 in the code
  Interference,  \* "yes" when others change the fault during a run, "no"
  NoOne

ASSUME MitigationAssumption ==
  /\ NoOne \notin Processes \cup Plans
  /\ "calibration" \notin Arms
  /\ Calibrations \in Nat
  /\ Interference \in {"yes", "no"}

\* A run is the measured run of an arm, or a calibration, whose arm decides
\* nothing here.
Kinds == Arms \cup {"calibration"}

VARIABLES
  pc,         \* pc[p]: what the main thread of invocation p does next
  run,        \* run[p]: the rest of its state
  lock,       \* whose flock it is
  ledger,     \* rows [kind, plan, result]: "consumed", or "valid" once reviewed
  frozen,     \* the plans with a frozen manifest
  compared    \* the plan of a successful comparison, or NoOne

faultVars == <<lifted, effective>>
reportVars == <<frozen, compared>>
campaignVars == <<pc, run, lock, ledger, reportVars>>
vars == <<campaignVars, prepVars, faultVars>>

\* kind and plan it was asked for, index of its row, how far drive() is, live
\* threads, sentinel_ok, snapshot in progress, failed with its cause, patch in
\* progress.
NoRun ==
  [kind |-> "none", plan |-> NoOne, row |-> 0, demand |-> "none", live |-> {},
   native |-> "unseen", monitor |-> "idle", failed |-> "no", release |-> "off"]

Init ==
  /\ pc = [p \in Processes |-> "idle"] /\ run = [p \in Processes |-> NoRun]
  /\ lock = NoOne /\ ledger = <<>>
  /\ PrepInit
  /\ frozen = {} /\ compared = NoOne

Goto(p, l) == pc' = [pc EXCEPT ![p] = l]
At(p, from, to) == pc[p] = from /\ Goto(p, to)

\* Whatever ends the main thread closes the ledger, and with it the flock.
LockKept(p) == UNCHANGED lock  \* mutant: the ledger is opened without a with block
Unlock(p) == lock' = IF lock = p THEN NoOne ELSE lock
Leave(p) ==
  /\ Goto(p, "idle")
  /\ run' = [run EXCEPT ![p] = NoRun]
  /\ Unlock(p)

-----------------------------------------------------------------------------
(* Entry: the lock, the gate, the row.                                     *)

\* An invocation that finds the flock taken ends there, and changes nothing.
LockIgnored(p) == lock' = p  \* mutant: the error of LOCK_NB is passed over
TakeLock(p) == lock = NoOne /\ lock' = p
Open(p) ==
  /\ TakeLock(p) /\ At(p, "idle", "gate")
  /\ UNCHANGED <<run, ledger, prepVars, faultVars, reportVars>>

Entry(k, q) == [kind |-> k, plan |-> q, result |-> "consumed"]
Rows(rows, k) == {i \in DOMAIN rows : rows[i].kind = k}
Budget(rows, q) ==
  /\ Cardinality(Rows(rows, "calibration")) <= Calibrations
  /\ \A a \in Arms : Cardinality(Rows(rows, a)) <= 1
  /\ \A i \in DOMAIN rows : rows[i].kind # "calibration" => rows[i].plan = q
\* approval['healthy_gate_passed'] is a flag of the person who approves, and is
\* not compared with the initialization ledger: that it is set only after a
\* complete initialization is an assumption about that person.
healthyGatePassed == "complete" \in initLedger
EntryNotCounted(k, q) == healthyGatePassed /\ Budget(ledger, q)  \* mutant: execution_gate(..., ledger)
Gate(k, q) == healthyGatePassed /\ Budget(Append(ledger, Entry(k, q)), q)

\* The row is on disk before anything else happens.
Count(p) ==
  /\ At(p, "gate", "prepare")
  /\ \E k \in Kinds, q \in Plans :
       /\ Gate(k, q)
       /\ ledger' = Append(ledger, Entry(k, q))
       /\ run' = [run EXCEPT ![p].kind = k, ![p].plan = q, ![p].row = Len(ledger) + 1]
  /\ UNCHANGED <<lock, prepVars, faultVars, reportVars>>
Refuse(p) ==
  /\ pc[p] = "gate"
  /\ Leave(p)
  /\ UNCHANGED <<ledger, prepVars, faultVars, reportVars>>

-----------------------------------------------------------------------------
(* The main thread of a run.                                               *)

AnyFreeze(p) == frozen # {}  \* mutant: the plan of the manifest is not compared
Frozen(p) == run[p].plan \in frozen
FaultInPlace == effective = {}

\* The manifest is the frozen one, the target has the fault, and so has it in
\* the first snapshot; then the threads.
Prepare(p) ==
  /\ At(p, "prepare", "preflight")
  /\ run[p].kind = "calibration" \/ Frozen(p)
  /\ FaultInPlace
  /\ run' = [run EXCEPT ![p].live = {"sentinel", "monitor"}]
  /\ UNCHANGED <<lock, ledger, prepVars, faultVars, reportVars>>

\* Whatever raises before the threads exist ends the invocation.
Raise(p) ==
  /\ pc[p] = "prepare"
  /\ Leave(p)
  /\ UNCHANGED <<ledger, prepVars, faultVars, reportVars>>

Preflight(p) ==
  /\ pc[p] = "preflight" /\ run[p].native = "ok" /\ run[p].failed = "no"
  /\ Goto(p, "drive")
  /\ run' = [run EXCEPT ![p].demand = "mitigation"]
  /\ UNCHANGED <<lock, ledger, prepVars, faultVars, reportVars>>

\* No arrival was issued and nothing asks for the release.
PreflightFails(p) ==
  /\ pc[p] = "preflight" /\ (run[p].native # "ok" \/ run[p].failed # "no")
  /\ Goto(p, "join")
  /\ UNCHANGED <<run, lock, ledger, prepVars, faultVars, reportVars>>

\* drive(): the scheduled release, the end of the schedule, or the cut that
\* monitor_error (failed, or 570 s) asks for at some arrival.
DriveReleases(p) ==
  /\ pc[p] = "drive" /\ run[p].demand = "mitigation" /\ run[p].failed = "no"
  /\ run' = [run EXCEPT ![p].demand = "recovery", ![p].release = "hold"]
  /\ UNCHANGED <<pc, lock, ledger, prepVars, faultVars, reportVars>>
DriveCompletes(p) ==
  /\ run[p].demand = "recovery" /\ At(p, "drive", "join")
  /\ run' = [run EXCEPT ![p].demand = "complete"]
  /\ UNCHANGED <<lock, ledger, prepVars, faultVars, reportVars>>
DriveCuts(p) ==
  /\ At(p, "drive", "join")
  /\ run' = [run EXCEPT ![p].demand = "cut",
                        ![p].release = IF @ = "off" THEN "hold" ELSE @]
  /\ UNCHANGED <<lock, ledger, prepVars, faultVars, reportVars>>

\* stop is set; every thread ends, and the release is waited for.
Stopping(p) == pc[p] = "join"
ReleaseLeftAlone(p) == run[p].live = {}  \* mutant: only the monitors are waited for
Joined(p) == run[p].live = {} /\ run[p].release \notin Knobs
NotRaised(p) == run[p].demand # "none" /\ run[p].release # "failed"

Join(p) ==
  /\ Joined(p) /\ NotRaised(p)
  /\ At(p, "join", "final")
  /\ UNCHANGED <<run, lock, ledger, prepVars, faultVars, reportVars>>
JoinRaises(p) ==
  /\ pc[p] = "join" /\ Joined(p) /\ ~NotRaised(p)
  /\ Leave(p)
  /\ UNCHANGED <<ledger, prepVars, faultVars, reportVars>>

\* The last snapshot, run_end, and what validate and the review then make of
\* the saved run: valid, at most, when the demand is complete.
NotCut(p) == TRUE  \* mutant: require_complete_demand is left out
CompleteDemand(p) == run[p].demand = "complete"
Ended(p) ==
  /\ pc[p] = "final" /\ run[p].failed = "no"
  /\ \/ UNCHANGED ledger
     \/ CompleteDemand(p) /\ ledger' = [ledger EXCEPT ![run[p].row].result = "valid"]
  /\ Leave(p)
  /\ UNCHANGED <<prepVars, faultVars, reportVars>>
FinalRaises(p) ==
  /\ pc[p] = "final"
  /\ Leave(p)
  /\ UNCHANGED <<ledger, prepVars, faultVars, reportVars>>

-----------------------------------------------------------------------------
(* The threads.                                                            *)

Latch(r, cause) == IF r.failed = "no" THEN [r EXCEPT !.failed = cause] ELSE r

\* A probe that is in progress when stop is set still counts.
Sentinel(p) ==
  /\ "sentinel" \in run[p].live
  /\ \/ run' = [run EXCEPT ![p].native = "ok"]
     \/ run' = [run EXCEPT ![p] = Latch([@ EXCEPT !.native = "denied"], "probe")]
  /\ UNCHANGED <<pc, lock, ledger, prepVars, faultVars, reportVars>>
SentinelStops(p) ==
  /\ "sentinel" \in run[p].live /\ Stopping(p)
  /\ run' = [run EXCEPT ![p].live = @ \ {"sentinel"}]
  /\ UNCHANGED <<pc, lock, ledger, prepVars, faultVars, reportVars>>

\* A snapshot notes whether the release has started, and reads the
\* configuration of the targets later.
Collect(p) ==
  /\ "monitor" \in run[p].live /\ run[p].monitor = "idle" /\ ~Stopping(p)
  /\ run' = [run EXCEPT ![p].monitor = IF run[p].release = "off" THEN "before" ELSE "after"]
  /\ UNCHANGED <<pc, lock, ledger, prepVars, faultVars, reportVars>>

\* Before the release the fault must be there; after it anything between the
\* fault and its absence is allowed.
Collected(p) ==
  /\ run[p].monitor = "after" \/ (run[p].monitor = "before" /\ FaultInPlace)
  /\ run' = [run EXCEPT ![p].monitor = "idle"]
  /\ UNCHANGED <<pc, lock, ledger, prepVars, faultVars, reportVars>>
MonitorFails(p, cause) ==
  LET idle == [run[p] EXCEPT !.monitor = "idle", !.live = @ \ {"monitor"}]
  IN run' = [run EXCEPT ![p] = Latch(idle, cause)]
Drifted(p) ==
  /\ run[p].monitor = "before" /\ ~FaultInPlace
  /\ MonitorFails(p, "drift")
  /\ UNCHANGED <<pc, lock, ledger, prepVars, faultVars, reportVars>>
\* Any guard of a snapshot may fail, or its budget of 30 s end.
SnapshotFails(p) ==
  /\ run[p].monitor # "idle"
  /\ MonitorFails(p, "snapshot")
  /\ UNCHANGED <<pc, lock, ledger, prepVars, faultVars, reportVars>>
MonitorStops(p) ==
  /\ "monitor" \in run[p].live /\ run[p].monitor = "idle" /\ Stopping(p)
  /\ run' = [run EXCEPT ![p].live = @ \ {"monitor"}]
  /\ UNCHANGED <<pc, lock, ledger, prepVars, faultVars, reportVars>>

Monitor(p) == Collect(p) \/ Collected(p) \/ Drifted(p) \/ SnapshotFails(p) \/ MonitorStops(p)

\* Runtime.release: two patches; one that fails may have had its effect.
Release(p) ==
  /\ run[p].release \in Knobs
  /\ \/ /\ lifted' = lifted \cup {run[p].release}
        /\ run' = [run EXCEPT ![p].release = IF @ = "hold" THEN "capacity" ELSE "done"]
     \/ /\ lifted' \in {lifted, lifted \cup {run[p].release}}
        /\ run' = [run EXCEPT ![p].release = "failed"]
  /\ UNCHANGED <<pc, lock, ledger, prepVars, effective, reportVars>>

Kill(p) ==
  /\ pc[p] # "idle"
  /\ Leave(p)
  /\ UNCHANGED <<ledger, prepVars, faultVars, reportVars>>

-----------------------------------------------------------------------------
(* The cluster, its operator, and what is made of the runs.                *)

Converge ==
  /\ \E k \in Knobs :
       effective' = IF k \in lifted THEN effective \cup {k} ELSE effective \ {k}
  /\ effective' # effective
  /\ UNCHANGED <<campaignVars, prepVars, lifted>>

\* Between runs the operator reinstalls the fault.  The operator, or the kubectl
\* of a killed run, which outlives it, may change it during another one.  During
\* an initialization that could only do what Abandon does.
Others ==
  /\ ~Active
  /\ \/ lock = NoOne /\ lifted' = {}
     \/ Interference = "yes" /\ lifted' \in SUBSET Knobs
  /\ lifted' # lifted
  /\ UNCHANGED <<campaignVars, prepVars, effective>>

ValidRun(i, k, q) == ledger[i] = [kind |-> k, plan |-> q, result |-> "valid"]

Freeze(q) ==
  /\ \E i \in DOMAIN ledger : ValidRun(i, "calibration", q)
  /\ frozen' = frozen \cup {q}
  /\ UNCHANGED <<pc, run, lock, ledger, prepVars, faultVars, compared>>

Compare(q) ==
  /\ compared = NoOne /\ q \in frozen
  /\ \A a \in Arms : \E i \in DOMAIN ledger : ValidRun(i, a, q)
  /\ compared' = q
  /\ UNCHANGED <<pc, run, lock, ledger, prepVars, faultVars, frozen>>

-----------------------------------------------------------------------------
Main(p) ==
  \/ Count(p) \/ Refuse(p) \/ Prepare(p) \/ Raise(p)
  \/ Preflight(p) \/ PreflightFails(p) \/ DriveReleases(p) \/ DriveCompletes(p) \/ DriveCuts(p)
  \/ Join(p) \/ JoinRaises(p) \/ Ended(p) \/ FinalRaises(p)
Threads(p) == Sentinel(p) \/ SentinelStops(p) \/ Monitor(p) \/ Release(p)

Next ==
  \/ \E p \in Processes : Open(p) \/ Main(p) \/ Threads(p) \/ Kill(p)
  \/ Initialization /\ UNCHANGED campaignVars
  \/ Converge \/ Others
  \/ \E q \in Plans : Freeze(q) \/ Compare(q)

Spec == Init /\ [][Next]_vars
=============================================================================
