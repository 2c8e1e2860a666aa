----------------------- MODULE HealthyInitialization ------------------------
(***************************************************************************)
(* azure-mitigation.py initialize: before any run of a P9 campaign, one    *)
(* healthy developer journey per source, between two phases that only      *)
(* read.  CPUStartup decides in both whether the CPU autoscaler has        *)
(* recovered from the warnings of its startup, on readings of HPA, events  *)
(* and CPU sample that are taken one after the other.                      *)
(*                                                                         *)
(* The fault of the experiment is two knobs, the hold of the simulator and *)
(* the capacity of its sidecar.  A knob that is lifted in the              *)
(* configuration gets effective at the target in its own time.             *)
(***************************************************************************)
EXTENDS Integers, Sequences, FiniteSets

CONSTANTS
  Warnings,  \* bound: warnings the autoscaler emits during an initialization
  Samples,   \* bound: CPU samples the metrics server exports during one
  Turns      \* bound: times ScalingActive gets True during one

ASSUME InitializationAssumption == Warnings \in Nat /\ Samples \in Nat \ {0} /\ Turns \in Nat

Knobs == {"hold", "capacity"}

VARIABLES
  prep,        \* the invocation that has the flock of the ledger
  initLedger,  \* rows of this source: "intent", "complete"
  journey,     \* journeys started, and whether one is running
  cluster,     \* what the readings of an invocation find
  seen,        \* history: <<warnings, sample>> of the polls that were positive
  lifted,      \* the knobs that are lifted in the configuration
  effective    \* the knobs that are lifted at the target

prepVars == <<prep, initLedger, journey, cluster, seen>>

\* CPUStartup: what it remembers from one poll to the next.
NoCpu ==
  [history |-> 0, recovered |-> "no", candidate |-> 0, completed |-> "no",
   stamp |-> 0, turn |-> 0]
NoReading == [warnings |-> 0, hpa |-> "failed", turn |-> 0]
NoPrep == [pc |-> "idle", cpu |-> NoCpu, reading |-> NoReading]
\* Autoscaler, latest sample (0: none, or one from before the Pod was Ready),
\* and the samples that are not older than their limit.
NoCluster == [hpa |-> "failed", turn |-> 0, warnings |-> 0, stamp |-> 0, fresh |-> {}]

PrepInit ==
  /\ prep = NoPrep /\ initLedger = {} /\ journey = [started |-> 0, live |-> "no"]
  /\ cluster = NoCluster /\ seen = {}
  /\ lifted = Knobs /\ effective = Knobs

Healthy == effective = Knobs
Active == prep.pc # "idle"

-----------------------------------------------------------------------------
(* CPUStartup.observe on one poll: reading r of events and HPA, sample s.  *)

\* Positive, and not before the last warning.
HpaPositive(r) == r.hpa = "active"
Usable(s) == s # 0
Recovered(r, s, quiet) == HpaPositive(r) /\ Usable(s) /\ s \in cluster.fresh
LatchedAtQuiet(r, s, quiet) ==  \* mutant: recovery_seen is set after the quiet interval
  Recovered(r, s, quiet) /\ quiet = "yes"
Positive(r, s, quiet) == Recovered(r, s, quiet) /\ quiet = "yes"
\* An old export of a time that was positive: no proof, and no reset.
Stale(r, s, quiet) ==
  /\ HpaPositive(r) /\ Usable(s) /\ s \notin cluster.fresh
  /\ quiet = "yes" /\ r.turn = prep.cpu.turn

Latches(r, s, quiet) == Recovered(r, s, quiet)

\* A warning after the recovery, a sample older than a validated one, or a
\* regression after completion ends the initialization.
Accepted(r, s, quiet) ==
  /\ prep.cpu.recovered = "yes" => r.warnings = prep.cpu.history
  /\ Usable(s) => s >= prep.cpu.stamp
  /\ prep.cpu.completed = "yes" => Positive(r, s, quiet) \/ Stale(r, s, quiet)

\* Retained warnings take two advancing samples a quiet interval apart.
Candidate(r) == IF r.warnings = prep.cpu.history THEN prep.cpu.candidate ELSE 0
Completes(r, s, quiet, apart) ==
  /\ Positive(r, s, quiet)
  /\ r.warnings = 0 \/ (Candidate(r) # 0 /\ apart = "yes" /\ s > Candidate(r))

Observed(r, s, quiet, apart) ==
  LET positive == Positive(r, s, quiet)
      done == prep.cpu.completed = "yes" \/ Completes(r, s, quiet, apart)
  IN [history |-> r.warnings,
      recovered |-> IF Latches(r, s, quiet) THEN "yes" ELSE prep.cpu.recovered,
      completed |-> IF done THEN "yes" ELSE "no",
      candidate |-> IF done \/ Stale(r, s, quiet) \/ (positive /\ Candidate(r) # 0) THEN Candidate(r)
                    ELSE IF positive THEN s ELSE 0,
      stamp |-> IF positive THEN s ELSE prep.cpu.stamp,
      turn |-> IF positive THEN r.turn ELSE prep.cpu.turn]

-----------------------------------------------------------------------------
(* initialize and healthy_initialize.                                      *)

Step(from, to) == prep.pc = from /\ prep' = [prep EXCEPT !.pc = to]

\* A journey is consumed by its intent, whatever has become of it.
NotCompleted == "complete" \notin initLedger  \* mutant: a journey that failed is repeated
NotConsumed == "intent" \notin initLedger

\* The cluster may be anywhere in its startup.
Initialize ==
  /\ ~Active /\ NotConsumed
  /\ prep' = [NoPrep EXCEPT !.pc = "settle"]
  /\ \E h \in {"failed", "active"}, w \in 0 .. 1, s \in 0 .. 1 :
       cluster' = [NoCluster EXCEPT !.hpa = h, !.warnings = w, !.stamp = s, !.fresh = {1} \cap {s}]
  /\ seen' = {}
  /\ UNCHANGED <<initLedger, journey, lifted, effective>>

\* The first half of a poll: configuration, HPA and events.
SafetyReading ==
  /\ prep.pc \in {"settle", "telemetry"} /\ Healthy
  /\ prep' = [prep EXCEPT
       !.pc = IF @ = "settle" THEN "settleCpu" ELSE "telemetryCpu",
       !.reading = [warnings |-> cluster.warnings, hpa |-> cluster.hpa, turn |-> cluster.turn]]
  /\ UNCHANGED <<initLedger, journey, cluster, seen, lifted, effective>>

\* A replica of the metrics server may still have the sample before the latest.
Readable == {cluster.stamp} \cup ((1 .. cluster.stamp) \cap {cluster.stamp - 1})

\* The second half.  The target's telemetry may be there or not.
CpuReading ==
  /\ prep.pc \in {"settleCpu", "telemetryCpu"}
  /\ \E s \in Readable, quiet, apart, telemetry \in {"yes", "no"} :
       LET r == prep.reading
           cpu == Observed(r, s, quiet, apart)
           ready == cpu.completed = "yes" /\ Positive(r, s, quiet)
       IN /\ Accepted(r, s, quiet)
          /\ prep' = [prep EXCEPT !.cpu = cpu,
               !.pc = IF @ = "settleCpu" THEN (IF ready THEN "baseline" ELSE "settle")
                      ELSE IF ready /\ telemetry = "yes" THEN "accounting" ELSE "telemetry"]
          /\ seen' = IF Recovered(r, s, quiet) THEN seen \cup {<<r.warnings, s>>} ELSE seen
  /\ UNCHANGED <<initLedger, journey, cluster, lifted, effective>>

\* The intent is on disk before the journey starts.
Intent ==
  /\ Step("baseline", "launch")
  /\ initLedger' = initLedger \cup {"intent"}
  /\ UNCHANGED <<journey, cluster, seen, lifted, effective>>
Launch ==
  /\ Step("launch", "journey")
  /\ journey' = [started |-> journey.started + 1, live |-> "yes"]
  /\ UNCHANGED <<initLedger, cluster, seen, lifted, effective>>
JourneyValid ==
  /\ Step("journey", "telemetry") /\ journey.live = "no"
  /\ UNCHANGED <<initLedger, journey, cluster, seen, lifted, effective>>

\* After the accounting of the path the CPU sample must still be young enough.
AnyAge(s) == TRUE  \* mutant: the age is only checked when the sample is read
StillFresh(s) == s \in cluster.fresh
Complete ==
  /\ prep.pc = "accounting" /\ StillFresh(prep.cpu.stamp)
  /\ initLedger' = initLedger \cup {"complete"}
  /\ prep' = NoPrep /\ cluster' = NoCluster /\ seen' = {}
  /\ UNCHANGED <<journey, lifted, effective>>

\* Any guard, command, validation or deadline may fail, and any step be killed;
\* the process group of the journey goes on for a while.
Abandon ==
  /\ Active
  /\ prep' = NoPrep /\ cluster' = NoCluster /\ seen' = {}
  /\ UNCHANGED <<initLedger, journey, lifted, effective>>

JourneyEnds ==
  /\ journey.live = "yes" /\ journey' = [journey EXCEPT !.live = "no"]
  /\ UNCHANGED <<prep, initLedger, cluster, seen, lifted, effective>>

\* The autoscaler, the metrics server and the age of its samples.
Startup ==
  /\ Active
  /\ \/ /\ cluster.warnings < Warnings
        /\ cluster' = [cluster EXCEPT !.warnings = @ + 1, !.hpa = "failed"]
     \/ cluster' = [cluster EXCEPT !.hpa = "failed"] /\ cluster' # cluster
     \/ /\ cluster.hpa = "failed" /\ cluster.turn < Turns
        /\ cluster' = [cluster EXCEPT !.hpa = "active", !.turn = @ + 1]
     \/ /\ cluster.stamp < Samples
        /\ cluster' = [cluster EXCEPT !.stamp = @ + 1, !.fresh = @ \cup {cluster.stamp + 1}]
     \/ \E s \in cluster.fresh :
          /\ \A o \in cluster.fresh : s <= o
          /\ cluster' = [cluster EXCEPT !.fresh = @ \ {s}]
  /\ UNCHANGED <<prep, initLedger, journey, seen, lifted, effective>>

Initialization ==
  \/ Initialize \/ SafetyReading \/ CpuReading \/ Intent \/ Launch \/ JourneyValid
  \/ Complete \/ Abandon \/ JourneyEnds \/ Startup
=============================================================================
