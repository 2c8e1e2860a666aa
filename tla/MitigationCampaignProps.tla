---------------------- MODULE MitigationCampaignProps -----------------------
(***************************************************************************)
(* Correctness properties of the P9 campaign around drive().               *)
(***************************************************************************)
EXTENDS MitigationCampaign

\* The variables keep their types.  The flock lasts exactly as long as the
\* invocation that took it, and an invocation that has ended, however it did,
\* leaves nothing but its row (_measure 1876-1886).
TypeInv ==
  /\ pc \in [Processes -> {"idle", "gate", "prepare", "preflight", "drive", "join", "final"}]
  /\ run \in [Processes ->
       [kind : Kinds \cup {"none"}, plan : Plans \cup {NoOne}, row : Nat,
        demand : {"none", "mitigation", "recovery", "complete", "cut"},
        live : SUBSET {"sentinel", "monitor"}, native : {"unseen", "ok", "denied"},
        monitor : {"idle", "before", "after"}, failed : {"no", "probe", "snapshot", "drift"},
        release : Knobs \cup {"off", "done", "failed"}]]
  /\ lock \in Processes \cup {NoOne}
  /\ ledger \in Seq([kind : Kinds, plan : Plans, result : {"consumed", "valid"}])
  /\ lifted \subseteq Knobs /\ effective \subseteq Knobs
  /\ frozen \subseteq Plans /\ compared \in Plans \cup {NoOne}
  /\ prep \in [pc : {"idle", "settle", "settleCpu", "baseline", "launch", "journey", "telemetry",
                     "telemetryCpu", "accounting"},
               cpu : [history : Nat, recovered : {"yes", "no"}, candidate : Nat,
                      completed : {"yes", "no"}, stamp : Nat, turn : Nat],
               reading : [warnings : Nat, hpa : {"failed", "active"}, turn : Nat]]
  /\ initLedger \subseteq {"intent", "complete"} /\ journey \in [started : Nat, live : {"yes", "no"}]
  /\ cluster \in [hpa : {"failed", "active"}, turn : Nat, warnings : Nat, stamp : Nat,
                  fresh : SUBSET (1 .. Samples)]
  /\ \A p \in Processes : pc[p] = "idle" => lock # p /\ run[p] = NoRun

Completing == initLedger' # initLedger /\ "complete" \in initLedger'

\* initialize 1833-1836: one healthy journey per source.  However an earlier
\* invocation has ended, none starts the journey again.
JourneyOnce == journey.started <= 1

\* initialize 1833-1836, healthy_initialize 1796: the result stands on the one
\* journey, which has ended, and on a CPU sample of a positive poll that has seen
\* the last warnings and is still current when the result is written, after the
\* telemetry and the accounting of the path.
FreshAtCompletion ==
  [][Completing =>
       /\ journey.started = 1 /\ journey.live = "no"
       /\ <<prep.reading.warnings, prep.cpu.stamp>> \in seen
       /\ prep.cpu.stamp \in cluster.fresh]_vars

\* CPUStartup 1521, 1587, 1598: once any poll has found the autoscaler
\* recovered, no warning came up to the last reading of the events, and if
\* there had been warnings at all, two different samples said so.
WarningsSettled ==
  [][Completing =>
       /\ \A x \in seen : x[1] = prep.reading.warnings
       /\ prep.reading.warnings # 0 => Cardinality({x[2] : x \in seen}) >= 2]_vars

Working(p) == run[p].demand # "none"

\* _measure 1883-1886, docs/p9-mitigation-recovery.md 400: a run is consumed
\* before any workload, also a failed or killed one.  Whatever was killed and
\* started again, demand flows only under a row of its own, and the rows keep
\* to the approved budget.
BudgetHolds ==
  /\ \A p \in Processes :
       Working(p) =>
         /\ run[p].row \in DOMAIN ledger
         /\ ledger[run[p].row].kind = run[p].kind /\ ledger[run[p].row].plan = run[p].plan
         /\ \A o \in Processes \ {p} : run[o].row # run[p].row
  /\ Cardinality(Rows(ledger, "calibration")) <= Calibrations
  /\ \A a \in Arms : Cardinality(Rows(ledger, a)) <= 1

\* _measure 1876, 1879: two runs never load the shared gate at the same time.
OneRunAtATime ==
  \A p, o \in Processes : Working(p) /\ Working(o) => p = o

\* initialize 1833-1836, _measure 1876-1886: journey and runs are consumed before
\* they start, once, within the budget, and one after the other.
ConsumedOnce == TypeInv /\ JourneyOnce /\ BudgetHolds /\ OneRunAtATime

\* frozen 884, compare 2346: a comparison is about one plan.  Each arm was run
\* exactly once, with that plan, in a valid run, and after a valid calibration
\* of that plan, whatever calibrations and refusals there were besides.
ComparisonIsSound ==
  compared # NoOne =>
    \A a \in Arms :
      /\ Cardinality(Rows(ledger, a)) = 1
      /\ \A i \in Rows(ledger, a) :
           /\ ValidRun(i, a, compared)
           /\ \E j \in 1 .. i - 1 : ValidRun(j, "calibration", compared)

\* _measure 1952-1963, validate 2201, require_complete_demand 1010: a run that
\* counts as valid had its whole demand, saw no failing probe or snapshot up to
\* the join of its threads, and has lifted the fault itself, both knobs.
ValidRunIsWhole ==
  [][\A i \in DOMAIN ledger :
       ledger[i].result # "valid" /\ ledger'[i].result = "valid" =>
         \E p \in Processes :
           /\ run[p].row = i /\ run[p].demand = "complete" /\ run[p].live = {}
           /\ run[p].native = "ok" /\ run[p].failed = "no" /\ run[p].release = "done"]_vars

\* _measure 1949-1961: a run that has ended without being killed leaves no patch
\* behind that could lift the fault under the next one.
NothingPendingAfterRun ==
  [][\A p \in Processes :
       lifted' # lifted /\ run'[p] # run[p] => lock = p /\ pc[p] \in {"drive", "join"}]_vars

\* _measure 1949-1965: a run of the campaign goes through the phases that drive()
\* promises, from its preflight to the join of its threads.  A kill ends it in
\* any of them.
Phases(p) == INSTANCE RunPhases
  WITH demand <- run[p].demand, release <- run[p].release, closed <- (pc[p] = "final")
RunsKeepPhases ==
  [][\A p \in Processes :
       run'[p].demand # "none" =>
         IF run[p].demand = "none" THEN Phases(p)!Init'
         ELSE [Phases(p)!Next]_<<run[p].demand, run[p].release, pc[p] = "final">>]_vars

\* _measure 1949-1965: within a run the fault is lifted when drive() says so, and
\* between two runs not at all.
RunKeepsContract == NothingPendingAfterRun /\ RunsKeepPhases

\* docs/p9-mitigation-recovery.md 283-285: while the fault is released, hold
\* 1000 to 0 and capacity 2 to 1024 are allowed values, kept as gaps.  With
\* nobody else touching the fault, no snapshot takes the release for a drift.
OwnReleaseIsNoDrift == \A p \in Processes : run[p].failed # "drift"
=============================================================================
