---------------------------- MODULE GateExperiment ----------------------------
(***************************************************************************)
(* The two experiments on the shared gate.                                 *)
(*                                                                         *)
(*   "saturation"  run() and result() of shared-gate-saturation.py: one    *)
(*                 process that calibrates, freezes, measures without and  *)
(*                 then with retries, and stops at the first invalid run   *)
(*   "cascade"     the commands of azure-cascade.py, which an operator     *)
(*                 calls in any order and again after a failure: measure,  *)
(*                 review, freeze and pair; a run has several waves        *)
(*                                                                         *)
(* Any read of the cluster may fail, a run may be interrupted or killed,   *)
(* and the HAProxy Pod, which its uid in the configuration stands for, may *)
(* be replaced.                                                            *)
(***************************************************************************)
EXTENDS SharedGate

CONSTANTS
  Waves,        \* waves of a cascade run
  Generations   \* HAProxy Pods there are, one after the other

ASSUME ExperimentAssumption == Waves \in Nat \ {0} /\ Generations \in Nat \ {0}

VARIABLES
  harness,     \* which experiment this is
  pc,          \* what the process does next
  phase,       \* the run in progress or the last one
  wave,        \* the wave the run is at
  raised,      \* "yes" once the work of the run has raised
  stop,        \* the event the monitors look at: "clear" or "set"
  monitor,     \* the monitor threads: "off", "running", "broken" or "ended"
  samples,     \* "good" while the direct path has answered every sentinel
  quiet,       \* "yes" while no reading has found a check outstanding
  generation,  \* the HAProxy Pod; what configuration() reads
  actual,      \* the configuration the run has recorded
  last,        \* the one behind its last counters
  frozen,      \* frozen.json; 0 while there is none
  accepted,    \* accepted[p]: configuration of the valid run of p, or 0
  window,      \* window[p]: Pods that run has used
  amplified,   \* "yes" if the accepted retry run sent more attempts
  paired       \* "valid" once there is a result

runVars == <<phase, wave, raised, stop, monitor, samples, quiet, actual, last>>
resultVars == <<frozen, accepted, window, amplified, paired>>
vars == <<gateVars, harness, pc, runVars, generation, resultVars>>

Harnesses == {"saturation", "cascade"}
Measured == {"no-retry", "retry"}
Phases == {"calibration"} \cup Measured
Opening == {"logs", "counters"}
Closing == {"join", "settle", "after", "path"}
Running == Opening \cup {"wave", "work"} \cup Closing
P4 == harness = "saturation"
WaveCount == IF P4 THEN 1 ELSE Waves

Init ==
  /\ InitGate /\ harness \in Harnesses /\ pc = "ready"
  /\ phase = "calibration" /\ wave = 0 /\ raised = "no" /\ stop = "clear"
  /\ monitor = "off" /\ samples = "good" /\ quiet = "yes"
  /\ generation = 1 /\ actual = 1 /\ last = 1 /\ frozen = 0
  /\ accepted = [p \in Measured |-> 0] /\ window = [p \in Measured |-> {}]
  /\ amplified = "no" /\ paired = "none"

\* A saturation process is over after the first failure; a cascade command
\* leaves its directory to the operator, who may call the next one. What a
\* failed run has recorded is never read.
Quit == pc' = IF P4 THEN "ended" ELSE "ready"
Discard ==
  /\ recording' = "none" /\ counters' = NoCounters /\ logs' = NoRows
  /\ client' = NoAttempts /\ truth' = NoTruth /\ faults' = 0
Over == Quit /\ Discard

-----------------------------------------------------------------------------
(* measure(): before the load.                                             *)

\* Calibrated until there is something frozen, and every measured run until it
\* is valid; without retries first, in a saturation process.
Due(p) ==
  IF p = "calibration" THEN frozen = 0
  ELSE accepted[p] = 0 /\ (p = "retry" => accepted["no-retry"] # 0)

AsFrozen(p) == p = "calibration" \/ generation = frozen
Outstanding == Active > 0

Begin(p) ==
  /\ pc = "ready" /\ Due(p)
  /\ IF AsFrozen(p) /\ ~(P4 /\ Outstanding) THEN pc' = "logs" ELSE Quit
  /\ phase' = p /\ wave' = 0 /\ raised' = "no" /\ stop' = "clear" /\ monitor' = "off"
  /\ samples' = "good" /\ quiet' = "yes" /\ actual' = generation /\ last' = generation
  /\ limit' = (IF p = "retry" THEN 2 ELSE 1)
  /\ left' = [own |-> 0, other |-> left.own + left.other,
              cutOwn |-> 0, cutOther |-> left.cutOwn + left.cutOther]
  /\ stage' = [o \in Ops |-> "idle"] /\ tries' = [o \in Ops |-> 0]
  /\ Discard
  /\ UNCHANGED <<git, gitLeft, late, harness, generation, resultVars>>

SeenQuiet == IF Outstanding THEN "no" ELSE quiet

BeforeLogs ==
  /\ pc = "logs" /\ pc' = "counters" /\ recording' = "logs"
  /\ UNCHANGED <<loadVars, counters, logs, client, truth, faults, harness, runVars, generation, resultVars>>

\* A cascade run on a gate that is still busy goes on; its records prove nothing.
BeforeCounters ==
  /\ pc = "counters" /\ pc' = "wave"
  /\ recording' = IF Outstanding /\ ~P4 THEN "none" ELSE "both"
  /\ quiet' = SeenQuiet /\ monitor' = "running"
  /\ UNCHANGED <<loadVars, counters, logs, client, truth, faults, harness, phase, wave, raised, stop, samples, actual, last, generation, resultVars>>

-----------------------------------------------------------------------------
(* measure(): the load, its monitors and the threads that must end.        *)

Submit ==
  /\ pc = "wave" /\ pc' = "work" /\ wave' = wave + 1
  /\ stage' = [o \in Ops |-> "planned"] /\ tries' = [o \in Ops |-> 0]
  /\ IF P4 THEN UNCHANGED <<git, gitLeft>> ELSE git' = "ready" /\ gitLeft' = GitChecks
  /\ UNCHANGED <<limit, left, late, recording, counters, logs, client, truth, faults, harness, phase, raised, stop, monitor, samples, quiet, actual, last, generation, resultVars>>

\* The `finally` of the load: the monitors are told to stop however it ends.
StopAfterSuccess(r) == stop' = IF r = "yes" THEN stop ELSE "set"  \* mutant: no finally
StopMonitors(r) == stop' = "set"
Leave(r) ==
  /\ pc' = "join" /\ raised' = r /\ StopMonitors(r)
  /\ IF r = "yes" THEN Discard ELSE UNCHANGED recordVars

\* A cascade looks at its monitors after every wave, and at its pace.
WaveEnd ==
  /\ pc = "work" /\ WorkDone
  /\ \/ wave < WaveCount /\ monitor # "broken" /\ pc' = "wave" /\ UNCHANGED <<raised, stop, recordVars>>
     \/ wave = WaveCount /\ (P4 \/ monitor # "broken") /\ Leave("no")
     \/ ~P4 /\ Leave("yes")
  /\ UNCHANGED <<loadVars, harness, phase, wave, monitor, samples, quiet, actual, last, generation, resultVars>>

\* Before the first wave an interrupt may come outside of that `try`, in a
\* saturation run it always does: nothing tells the threads to start or to stop.
Interrupt ==
  /\ pc \in {"wave", "work"}
  /\ \/ (P4 => pc = "work") /\ Leave("yes")
     \/ wave = 0 /\ pc' = "join" /\ raised' = "yes" /\ Discard /\ UNCHANGED stop
  /\ UNCHANGED <<loadVars, harness, phase, wave, monitor, samples, quiet, actual, last, generation, resultVars>>

\* A monitor raises and its thread is over, or it records a failed sentinel.
Disturbed ==
  /\ monitor = "running" /\ pc \in {"work"} \cup (IF P4 THEN {} ELSE {"wave"}) /\ Disturb
  /\ \/ monitor' = "broken" /\ UNCHANGED samples
     \/ samples' = "bad" /\ UNCHANGED monitor
  /\ UNCHANGED <<limit, workVars, left, late, recording, counters, logs, client, truth, harness, pc, phase, wave, raised, stop, quiet, actual, last, generation, resultVars>>

MonitorEnd ==
  /\ monitor = "running" /\ stop = "set" /\ monitor' = "ended"
  /\ UNCHANGED <<gateVars, harness, pc, phase, wave, raised, stop, samples, quiet, actual, last, generation, resultVars>>

\* The executors wait for every submitted operation and for all monitors, those
\* that have not raised until they see `stop`; then the exceptions come out.
MonitorsIgnored == raised = "no"  \* mutant: the futures of the monitors are not asked
LoadSound == raised = "no" /\ monitor # "broken"

Join ==
  /\ pc = "join" /\ WorkDone /\ stop = "set" /\ monitor \in {"ended", "broken"}
  /\ IF LoadSound THEN pc' = "settle" /\ UNCHANGED recordVars ELSE Over
  /\ UNCHANGED <<loadVars, harness, runVars, generation, resultVars>>

-----------------------------------------------------------------------------
(* measure(): after the load.                                              *)

ConfigurationOnce == TRUE  \* mutant: the configuration is not read again
ConfigurationKept == generation = actual

Settle ==
  /\ pc = "settle"
  /\ IF ConfigurationKept /\ ~(P4 /\ Outstanding) THEN pc' = "after" /\ UNCHANGED recordVars ELSE Over
  /\ UNCHANGED <<loadVars, harness, runVars, generation, resultVars>>

AfterCounters ==
  /\ pc = "after" /\ pc' = "path"
  /\ recording' = (IF recording = "both" THEN "logs" ELSE "none") /\ quiet' = SeenQuiet
  /\ last' = generation
  /\ UNCHANGED <<loadVars, counters, logs, client, truth, faults, harness, phase, wave, raised, stop, monitor, samples, actual, generation, resultVars>>

\* The last row of a proxy may not be flushed yet.
AfterLogs ==
  /\ pc = "path" /\ pc' = "judge" /\ recording' = "none"
  /\ \/ Calm /\ UNCHANGED <<late, logs, truth>>
     \/ /\ Disturb /\ late' = "row"
        /\ \/ /\ \E r \in {"served", "refused"} : logs[r] > 0 /\ logs' = [logs EXCEPT ![r] = @ - 1]
              /\ UNCHANGED truth
           \/ /\ logs.ingress > 0 /\ truth' = [truth EXCEPT !.missed = @ + 1]
              /\ \/ logs' = [logs EXCEPT !.ingress = @ - 1]
                 \/ logs.unmapped > 0 /\ logs' = [logs EXCEPT !.ingress = @ - 1, !.unmapped = @ - 1]
  /\ UNCHANGED <<limit, workVars, left, counters, client, harness, runVars, generation, resultVars>>

\* A command fails, or the process is interrupted in between.
Abort ==
  /\ pc \in Opening \cup {"settle", "after", "path"} /\ Over
  /\ UNCHANGED <<loadVars, harness, runVars, generation, resultVars>>

\* The end of the process or its runner. What it has sent stays at the gate.
Kill ==
  /\ pc \in Running /\ Over
  /\ left' = [left EXCEPT !.own = @ + Cardinality(Held) + (IF git = "held" THEN 1 ELSE 0)]
  /\ stage' = [o \in Ops |-> "idle"] /\ tries' = [o \in Ops |-> 0]
  /\ git' = "idle" /\ gitLeft' = 0 /\ monitor' = "off"
  /\ UNCHANGED <<limit, late, harness, phase, wave, raised, stop, samples, quiet, actual, last, generation, resultVars>>

-----------------------------------------------------------------------------
(* What the saved rows and counters of a run must say.                     *)

ImpactOnly == client.failed > 0 /\ client.odd = 0 /\ samples = "good"
TargetRows == logs.served + logs.refused

\* No request of the ingress has failed for another reason than its check.
AnyRefusalOfIngress == TRUE  \* mutant: the details of the ingress rows are not looked at
IngressRefusalsMapped == logs.unmapped = 0

\* As many requests at the ingress as HAProxy has answered, and none given up.
AbortsIgnored == logs.ingress = counters.dispatched  \* mutant: cli_abrt is not looked at
IngressAnswered == logs.ingress = counters.dispatched /\ counters.aborts = 0

AnyCheck == TRUE  \* mutant: the attempt ids of the checks are not looked up
OwnChecks == logs.strange = 0

\* validate_run(): a Git read has checks of its own, so only totals agree.
CascadeValid ==
  /\ ImpactOnly /\ quiet = "yes" /\ counters.overflow > 0
  /\ counters.dispatched = TargetRows
  /\ counters.dispatched = counters.total + counters.overflow
  /\ logs.refused = counters.overflow /\ counters.total = logs.checks
  /\ IngressRefusalsMapped /\ IngressAnswered /\ OwnChecks
  /\ counters.dispatched >= client.sent

\* validate_measurement().
TotalsOnly == CascadeValid  \* mutant: the totals of the gate agree with each other only
SaturationValid ==
  /\ ImpactOnly /\ counters.overflow > 0
  /\ counters.dispatched = client.sent /\ TargetRows = client.sent
  /\ logs.refused = counters.overflow /\ counters.overflow = client.failed
  /\ logs.checks = counters.total /\ logs.checks + logs.refused = client.sent
  /\ IngressRefusalsMapped /\ IngressAnswered /\ OwnChecks

Valid == IF P4 THEN SaturationValid ELSE CascadeValid

\* A valid run may still be refused: no sample of the pressure, no overlapping
\* sentinel, or a review that finds another bottleneck.
RetriesSent == client.sent > WaveCount * LogicalOps

Accept ==
  IF phase = "calibration"
  THEN pc' = "freeze" /\ UNCHANGED <<accepted, window, amplified>>
  ELSE /\ accepted' = [accepted EXCEPT ![phase] = actual]
       /\ window' = [window EXCEPT ![phase] = {actual, last}]
       /\ amplified' = IF phase = "retry" /\ RetriesSent THEN "yes" ELSE amplified
       /\ pc' = "ready"

Judge ==
  /\ pc = "judge"
  /\ \/ Valid /\ Accept /\ Discard
     \/ Over /\ UNCHANGED <<accepted, window, amplified>>
  /\ UNCHANGED <<loadVars, harness, runVars, generation, frozen, paired>>

-----------------------------------------------------------------------------
(* What is made of the runs.                                               *)

\* The saturation process reads the configuration again to freeze it; a cascade
\* freezes the one its calibration has recorded.
Freeze ==
  /\ pc = "freeze" /\ pc' = "ready"
  /\ frozen' = IF P4 THEN generation ELSE actual
  /\ UNCHANGED <<gateVars, harness, runVars, generation, accepted, window, amplified, paired>>

\* result() and paired().
Comparable == frozen # 0 /\ \A p \in Measured : accepted[p] = frozen

Pair ==
  /\ pc = "ready" /\ Comparable /\ (P4 => amplified = "yes")
  /\ paired' = "valid" /\ pc' = "ended"
  /\ UNCHANGED <<gateVars, harness, runVars, generation, frozen, accepted, window, amplified>>

-----------------------------------------------------------------------------
(* The HAProxy Deployment replaces its Pod: the ingress denies what it has  *)
(* sent on, the target keeps the checks, and the counters start at 0.       *)

Replace ==
  /\ generation < Generations /\ generation' = generation + 1
  /\ IF pc \in Running THEN Disturb ELSE Calm
  /\ left' = [own |-> 0, other |-> 0, cutOther |-> Strays,
              cutOwn |-> Orphans + Cardinality(Held) + (IF git = "held" THEN 1 ELSE 0)]
  /\ stage' = [o \in Ops |-> IF stage[o] = "held" THEN "lost" ELSE stage[o]]
  /\ git' = (IF git = "held" THEN "lost" ELSE git)
  /\ Counted([counters EXCEPT !.dispatched = 0, !.aborts = 0])
  /\ \E n \in 0 .. left.other : Logged([logs EXCEPT !.ingress = @ + n])
  /\ UNCHANGED <<limit, tries, gitLeft, late, recording, client, truth, harness, pc, runVars, resultVars>>

Measure ==
  \/ BeforeLogs \/ BeforeCounters \/ Submit \/ WaveEnd \/ MonitorEnd \/ Join
  \/ Settle \/ AfterCounters \/ AfterLogs \/ Judge
Work == (ClientStep \/ GitRead) /\ UNCHANGED <<harness, pc, runVars, generation, resultVars>>
\* Between two runs nothing is counted.
Environment == GateStep /\ pc \in Running /\ UNCHANGED <<harness, pc, runVars, generation, resultVars>>

Next ==
  \/ \E p \in Phases : Begin(p)
  \/ Measure \/ Work \/ Environment
  \/ Interrupt \/ Disturbed \/ Abort \/ Kill \/ Freeze \/ Pair \/ Replace

Spec == Init /\ [][Next]_vars
FairSpec == Spec /\ WF_vars(Measure) /\ WF_vars(Work)
=============================================================================
