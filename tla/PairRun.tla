------------------------------- MODULE PairRun -------------------------------
(***************************************************************************)
(* run_pair() of scripts/local-isolation-pair.py on one owned cluster, one *)
(* invocation after another: the original target is scaled away, the       *)
(* shared and then the isolated arm is set up and measured (the window of  *)
(* IsolationDrive), and the fixture is restored whatever stopped the run.  *)
(*                                                                         *)
(* A kubectl call may fail before, during or after its effect; Pods follow *)
(* their Deployment later; a run may be interrupted, or killed at any      *)
(* point, and the cluster stays as it is for the next invocation.          *)
(***************************************************************************)
EXTENDS IsolationDrive

Pools == {"shared", "critical", "bulk"}
Objects == Pools \cup {"capacity"}

\* local_render(): the pools (Deployment and Service) of an arm and the one
\* Sidecar both arms name alike.
PoolsOf(a) == IF a = "shared" THEN {"shared"} ELSE Classes
Inventory(a) == PoolsOf(a) \cup {"capacity"}

VARIABLES
  pc,        \* what run_pair() does next
  mode,      \* "run", then "restore"
  outcome,   \* "ok", "failed" (failure.json) or "interrupted"
  owned,     \* Run.owned: arms whose inventory may exist
  problems,  \* steps of restore() that raised
  baseHold,  \* baseline(): the hold found at the start
  verdict,   \* verdict[a]: summary of the measured arm
  monitor,   \* what the monitor threads of the window saw
  restored,  \* restoration.json: "unknown", "yes" or "no"
  result,    \* result.json: "none", "insufficient" or "conclusive"
  objects,   \* P10 objects in the cluster
  pods,      \* pods[p]: the Pods of a pool
  target,    \* the original ext-authz-sim: "serving", "stopping", "stopped", "starting"
  configmap, \* the configuration in the ConfigMap of HAProxy: "base" or an arm
  haproxy,   \* the configuration the running HAProxy has read: "base" or an arm
  rolling,   \* HAProxy is restarted and the new Pod is not the only one yet
  hold       \* the hold patched into the fixture: "base" or "pair"

processVars == <<mode, outcome, owned, problems, baseHold, verdict, monitor, restored, result>>
proxyVars == <<configmap, haproxy, rolling>>
clusterVars == <<objects, pods, target, proxyVars, hold>>
pairVars == <<pc, processVars, clusterVars>>
vars == <<windowVars, arm, pairVars>>

Owned == UNION {Inventory(a) : a \in owned}
NoPods == \A p \in Pools : pods[p] = "none"
Over == {"refused", "ended", "killed"}
Steps == {"gate", "scale", "vacate", "remove", "reap", "setup", "apply", "rollout", "route",
          "restart", "converge", "identify", "warm", "open", "measure", "drain", "hold", "serve", "ready", "verify", "finish"}

InitProcess ==
  /\ mode = "run" /\ outcome = "ok" /\ owned = {} /\ problems = {} /\ baseHold = "base"
  /\ verdict = [a \in Arms |-> "none"] /\ monitor = "off"
  /\ restored = "unknown" /\ result = "none"

Init ==
  /\ InitWindow /\ arm = "shared"
  /\ pc = "gate" /\ InitProcess
  /\ objects = {} /\ pods = [p \in Pools |-> "none"]
  /\ target = "serving" /\ hold = "base"
  /\ configmap = "base" /\ haproxy = "base" /\ rolling = FALSE

-----------------------------------------------------------------------------
(* Where a step leads.                                                     *)

Go(p) == pc' = p /\ UNCHANGED <<mode, outcome, problems>>

\* An exception: run_pair() records the failure and restores; restore() records
\* the step and takes the next one.
Raise(next) ==
  /\ pc' = IF mode = "run" THEN "remove" ELSE next
  /\ mode' = "restore"
  /\ outcome' = IF mode = "run" THEN "failed" ELSE outcome
  /\ problems' = IF mode = "run" THEN problems ELSE problems \cup {pc}

GoOrRaise(p) == Go(p) \/ Raise(p)
idle == <<windowVars, arm>>

-----------------------------------------------------------------------------
(* Before the first arm.                                                   *)

\* left_over(): objects an arm would create, and Pods of any pool.  Of HAProxy
\* baseline() reads the ConfigMap, not what the running one has read.
LeftOverObjects == objects = {}  \* mutant: Pods of a removed pool are not looked for
NothingLeft == objects = {} /\ NoPods

Gate ==
  /\ pc = "gate"
  /\ IF NothingLeft /\ configmap = "base" /\ target \in {"serving", "starting"}
     THEN Go("scale") /\ baseHold' = hold
     ELSE Go("refused") /\ UNCHANGED baseHold
  /\ UNCHANGED <<idle, owned, verdict, monitor, restored, result, clusterVars>>

ScaleAway ==
  /\ pc = "scale"
  /\ \/ target' = "stopping" /\ GoOrRaise("vacate")
     \/ Raise("vacate") /\ UNCHANGED target
  /\ UNCHANGED <<idle, owned, baseHold, verdict, monitor, restored, result, objects, pods, proxyVars, hold>>

Vacate ==
  /\ pc = "vacate"
  /\ \/ target = "stopped" /\ Go("setup")
     \/ Raise("setup")
  /\ UNCHANGED <<idle, owned, baseHold, verdict, monitor, restored, result, clusterVars>>

-----------------------------------------------------------------------------
(* remove_owned(), for the previous arm and in restore().                  *)

\* Every owned inventory is deleted, also after one that failed.
Delete ==
  /\ pc = "remove"
  /\ \E gone \in SUBSET (objects \cap Owned) :
       /\ objects' = objects \ gone
       /\ \/ gone = objects \cap Owned /\ Go("reap")
          \/ Raise("route")
  /\ UNCHANGED <<idle, owned, baseHold, verdict, monitor, restored, result, pods, target, proxyVars, hold>>

\* Ownership ends when the Pods are gone and the objects read back absent.
ForgetEarly == TRUE  \* mutant: the Pods are not waited for
Absent == NoPods /\ objects \cap Owned = {}

ReapWithoutDeadline ==  \* mutant: the Pods are waited for without a deadline
  /\ pc = "reap"
  /\ Absent
  /\ owned' = {}
  /\ Go(IF mode = "run" THEN "setup" ELSE "route")
  /\ UNCHANGED <<idle, baseHold, verdict, monitor, restored, result, clusterVars>>
Reap ==
  /\ pc = "reap"
  /\ \/ /\ Absent
        /\ owned' = {}
        /\ Go(IF mode = "run" THEN "setup" ELSE "route")
     \/ Raise("route") /\ UNCHANGED owned
  /\ UNCHANGED <<idle, baseHold, verdict, monitor, restored, result, clusterVars>>

-----------------------------------------------------------------------------
(* One arm: setup() and measure().                                         *)

\* The inventory is registered before anything is created.
RegisterNothing == owned  \* mutant: a partial apply is nobody's
Registered == owned \cup {arm}

Setup ==
  /\ pc = "setup"
  /\ owned' = Registered
  /\ \/ hold' = "pair" /\ GoOrRaise("apply")
     \/ Raise("apply") /\ UNCHANGED hold
  /\ UNCHANGED <<idle, baseHold, verdict, monitor, restored, result, objects, pods, target, proxyVars>>

ApplyPools ==
  /\ pc = "apply"
  /\ \E new \in SUBSET Inventory(arm) :
       /\ objects' = objects \cup new
       /\ \/ new = Inventory(arm) /\ Go("rollout")
          \/ Raise("rollout")
  /\ UNCHANGED <<idle, owned, baseHold, verdict, monitor, restored, result, pods, target, proxyVars, hold>>

Rollout ==
  /\ pc = "rollout"
  /\ \/ (\A p \in PoolsOf(arm) : pods[p] = "ready") /\ Go("route")
     \/ Raise("route")
  /\ UNCHANGED <<idle, owned, baseHold, verdict, monitor, restored, result, clusterVars>>

\* local.apply() with the arm's configuration, in restore() with the base one:
\* the ConfigMap is applied, HAProxy restarted and, as it reads the ConfigMap only
\* when it starts, the new Pod awaited at the ingress.  What fails ends all three.
AfterRoute == IF mode = "run" THEN "identify" ELSE "hold"

Route ==
  /\ pc = "route"
  /\ \/ /\ configmap' = IF mode = "run" THEN arm ELSE "base"
        /\ Go("restart") \/ Raise("hold")
     \/ Raise("hold") /\ UNCHANGED configmap
  /\ UNCHANGED <<idle, owned, baseHold, verdict, monitor, restored, result, objects, pods, target, haproxy, rolling, hold>>

Restart ==
  /\ pc = "restart"
  /\ \/ rolling' = TRUE /\ (Go("converge") \/ Raise("hold"))
     \/ Raise("hold") /\ UNCHANGED rolling
  /\ UNCHANGED <<idle, owned, baseHold, verdict, monitor, restored, result, objects, pods, target, configmap, haproxy, hold>>

\* rollout status and converge(): the ingress knows one HAProxy, the new one.
RestartIsEnough == TRUE  \* mutant: the new Pod is not waited for
NewPod == ~rolling

Converge ==
  /\ pc = "converge"
  /\ (NewPod /\ Go(AfterRoute)) \/ Raise("hold")
  /\ UNCHANGED <<idle, owned, baseHold, verdict, monitor, restored, result, clusterVars>>

\* identify(): the Pods that are not terminating are exactly those of the arm.
Identify ==
  /\ pc = "identify"
  /\ \/ /\ \A p \in Pools : pods[p] = "ready" <=> p \in PoolsOf(arm)
        /\ \A p \in Pools : pods[p] # "starting"
        /\ Go("warm")
     \/ Raise("warm")
  /\ UNCHANGED <<idle, owned, baseHold, verdict, monitor, restored, result, clusterVars>>

\* Requests through the arm until routing, native auth and the statistics of
\* every target answer; none of them is measured.
WarmUp ==
  /\ pc = "warm"
  /\ GoOrRaise("open")
  /\ UNCHANGED <<idle, owned, baseHold, verdict, monitor, restored, result, clusterVars>>

\* The monitor threads have started and the first snapshots are taken.
OpenWindow ==
  /\ pc = "open"
  /\ \/ window' = "open" /\ Fresh /\ Go("measure")
     \/ Raise("measure") /\ UNCHANGED windowVars
  /\ UNCHANGED <<arm, owned, baseHold, verdict, monitor, restored, result, clusterVars>>

\* What the sampler, the guards and the sentinel saw while drive() ran: nothing,
\* a hole in the samples, a competing bottleneck, or an exception of theirs.
Seen == {"healthy", "gap", "competing", "failed"}

Drained == \A t \in Targets : orphans[t] = 0

\* drive() never looks at the monitor threads: what they saw counts afterwards.
Drain ==
  /\ pc = "measure" /\ window = "done"
  /\ \/ Drained /\ Go("drain") /\ UNCHANGED windowVars
        /\ monitor' \in Seen
     \/ Raise("drain") /\ window' = "closed" /\ Fresh /\ UNCHANGED monitor
  /\ UNCHANGED <<arm, owned, baseHold, verdict, restored, result, clusterVars>>

\* validate(): the client report, the pool guard, the accounting by class, the
\* unchanged runtime (one HAProxy process, the same hold), the confounder guards,
\* and the coverage of the samples.  Which routing HAProxy has is not looked at.
PoolGuard == (\A p \in PoolsOf(arm) : pods[p] = "ready") /\ \A t \in Targets : Active(t) = 0
RuntimeUnchanged == ~rolling /\ hold = "pair"
NoCompetitor == monitor # "competing"
Covered == monitor # "gap"

Judged ==
  IF ~(ClientReport /\ PoolGuard /\ ChecksAccount /\ RuntimeUnchanged /\ NoCompetitor) THEN "invalid"
  ELSE IF Covered THEN "valid" ELSE "insufficient"

\* The threads are stopped, the accounting is made and the arm is judged.  An
\* accounting that does not agree, or logs that lag, fail the run; an invalid
\* arm does not.
SameArmAgain == arm  \* mutant: the shared arm is measured for ever
AfterArm == IF arm = "shared" THEN "isolated" ELSE arm
Conclude ==
  /\ pc = "drain"
  /\ window' = "closed" /\ Fresh /\ monitor' = "off"
  /\ \/ /\ monitor # "failed" /\ WindowAccounts
        /\ verdict' = [verdict EXCEPT ![arm] = Judged]
        /\ arm' = AfterArm
        /\ pc' = "remove"
        /\ mode' = IF arm = "shared" THEN "run" ELSE "restore"
        /\ UNCHANGED <<outcome, problems>>
     \/ Raise("remove") /\ UNCHANGED <<verdict, arm>>
  /\ UNCHANGED <<owned, baseHold, restored, result, clusterVars>>

-----------------------------------------------------------------------------
(* The rest of restore(), and the end.                                     *)

PatchHold ==
  /\ pc = "hold"
  /\ \/ hold' = baseHold /\ GoOrRaise("serve")
     \/ Raise("serve") /\ UNCHANGED hold
  /\ UNCHANGED <<idle, owned, baseHold, verdict, monitor, restored, result, objects, pods, target, proxyVars>>

ScaleBack ==
  /\ pc = "serve"
  /\ \/ target' = (IF target = "serving" THEN target ELSE "starting") /\ GoOrRaise("ready")
     \/ Raise("ready") /\ UNCHANGED target
  /\ UNCHANGED <<idle, owned, baseHold, verdict, monitor, restored, result, objects, pods, proxyVars, hold>>

Ready ==
  /\ pc = "ready"
  /\ (target = "serving" /\ Go("verify")) \/ Raise("verify")
  /\ UNCHANGED <<idle, owned, baseHold, verdict, monitor, restored, result, clusterVars>>

\* verify(): the fixture is read back, of HAProxy the ConfigMap; an exception of
\* any step stays one.
FixtureIsBack ==
  objects = {} /\ NoPods /\ owned = {} /\ configmap = "base" /\ hold = baseHold /\ target = "serving"
FoundRestored == problems = {} /\ FixtureIsBack

Verify ==
  /\ pc = "verify"
  /\ restored' \in {"no"} \cup IF FoundRestored THEN {"yes"} ELSE {}
  /\ Go("finish")
  /\ UNCHANGED <<idle, owned, baseHold, verdict, monitor, result, clusterVars>>

\* finish(): compare() of the two arms, which raises on an invalid one.
ResultAnyway == outcome # "interrupted"  \* mutant: a result is saved of any run
ResultEarned == outcome = "ok" /\ restored = "yes" /\ \A a \in Arms : verdict[a] \in {"valid", "insufficient"}

Finish ==
  /\ pc = "finish"
  /\ Go("ended")
  /\ result' = IF ~ResultEarned THEN "none"
               ELSE IF \E a \in Arms : verdict[a] = "insufficient" THEN "insufficient" ELSE "conclusive"
  /\ UNCHANGED <<idle, owned, baseHold, verdict, monitor, restored, clusterVars>>

-----------------------------------------------------------------------------
(* Faults and controllers.                                                 *)

\* KeyboardInterrupt or cancellation inside the try: the finally block runs.
Interrupt ==
  /\ mode = "run" /\ pc \notin Over \cup {"gate"}
  /\ mode' = "restore" /\ outcome' = "interrupted" /\ pc' = "remove"
  /\ window' = "closed" /\ Fresh /\ monitor' = "off"
  /\ UNCHANGED <<arm, owned, problems, baseHold, verdict, restored, result, clusterVars>>

\* The process or its runner is gone; nothing of it remains but the cluster.
Kill ==
  /\ pc \notin Over \cup {"gate"}
  /\ pc' = "killed"
  /\ window' = "closed" /\ Fresh /\ arm' = "shared"
  /\ mode' = "run" /\ outcome' = "ok" /\ owned' = {} /\ problems' = {} /\ baseHold' = "base"
  /\ verdict' = [a \in Arms |-> "none"] /\ monitor' = "off" /\ restored' = "unknown" /\ result' = "none"
  /\ UNCHANGED clusterVars

NextRun ==
  /\ pc \in Over
  /\ pc' = "gate"
  /\ arm' = "shared" /\ UNCHANGED windowVars
  /\ mode' = "run" /\ outcome' = "ok" /\ owned' = {} /\ problems' = {} /\ baseHold' = "base"
  /\ verdict' = [a \in Arms |-> "none"] /\ monitor' = "off" /\ restored' = "unknown" /\ result' = "none"
  /\ UNCHANGED clusterVars

\* The Deployment controller and the garbage collector, for the Pods of a pool.
PodStep(p) ==
  /\ \/ p \in objects /\ pods[p] = "none" /\ pods' = [pods EXCEPT ![p] = "starting"]
     \/ p \in objects /\ pods[p] = "starting" /\ pods' = [pods EXCEPT ![p] = "ready"]
     \/ p \notin objects /\ pods[p] \in {"starting", "ready"} /\ pods' = [pods EXCEPT ![p] = "terminating"]
     \/ pods[p] = "terminating" /\ pods' = [pods EXCEPT ![p] = "none"]
  /\ UNCHANGED <<idle, pc, processVars, objects, target, proxyVars, hold>>

\* The new HAProxy Pod reads the ConfigMap as it is and takes over.
ProxyStep ==
  /\ rolling
  /\ haproxy' = configmap /\ rolling' = FALSE
  /\ UNCHANGED <<idle, pc, processVars, objects, pods, target, configmap, hold>>

TargetStep ==
  /\ \/ target = "stopping" /\ target' = "stopped"
     \/ target = "starting" /\ target' = "serving"
  /\ UNCHANGED <<idle, pc, processVars, objects, pods, proxyVars, hold>>

Process ==
  \/ Gate \/ ScaleAway \/ Vacate \/ Delete \/ Reap
  \/ Setup \/ ApplyPools \/ Rollout \/ Route \/ Restart \/ Converge \/ Identify \/ WarmUp \/ OpenWindow \/ Drain \/ Conclude
  \/ PatchHold \/ ScaleBack \/ Ready \/ Verify \/ Finish

Drive == WindowStep /\ UNCHANGED <<arm, pairVars>>

Next ==
  \/ Process \/ Drive \/ Interrupt \/ Kill \/ NextRun
  \/ (\E p \in Pools : PodStep(p)) \/ TargetStep \/ ProxyStep

Spec == Init /\ [][Next]_vars

\* Every wait of the process has a timeout and every request of the client an
\* answer, so neither the cluster nor the faults need any fairness.
FairSpec == Spec /\ WF_vars(Process) /\ WF_vars(Drive)
=============================================================================
