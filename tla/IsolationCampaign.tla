------------------------- MODULE IsolationCampaign --------------------------
(***************************************************************************)
(* The P10 campaign on Azure: run_campaign() of scripts/azure-isolation.py *)
(* with its approval gate, append-only ledger, owned mutations, healthy    *)
(* and fault runs, and the rollback that every exit runs.                  *)
(*                                                                         *)
(* Invocations that share a ledger path contend for it at any time; one    *)
(* with another ledger (another approval) is not started before the rest   *)
(* have ended.  An invocation may be killed, and then rolls nothing back.  *)
(* Other operators may edit or replace the shared ConfigMap and replace    *)
(* the objects of a campaign; Istio pushes configuration and pods come and *)
(* go in their own time.                                                   *)
(***************************************************************************)
EXTENDS Integers, Sequences

CONSTANTS
  Campaigns,  \* invocations of azure-isolation.py campaign
  Paths,      \* ledger paths
  LedgerOf,   \* the ledger path an invocation is given
  NoOne,      \* absent
  Other,      \* somebody else
  Calibrations,  \* "yes" and "no": whether a campaign is run with --calibration
  Edits       \* what other operators may do: see EditKinds

EditKinds ==
  {"edit",       \* change the data of the shared ConfigMap
   "mesh",       \* delete and recreate the shared ConfigMap
   "policy",     \* replace the policy by another of the same name
   "namespace"}  \* replace the namespace by another of the same name

ASSUME CampaignAssumption ==
  /\ LedgerOf \in [Campaigns -> Paths]
  /\ NoOne # Other /\ {NoOne, Other} \cap Campaigns = {}
  /\ Edits \subseteq EditKinds
  /\ Calibrations \subseteq {"yes", "no"}

Arms == {"shared", "isolated"}
Steps == {"setup", "healthy", "calibration", "measured"}
FaultRuns == {"calibration", "measured"} \X Arms
Outcomes == {"valid", "rejected"}  \* rejected: invalid or insufficient

VARIABLES
  pc,         \* pc[c]: the next command of invocation c
  ledger,     \* ledger[p]: the invocation that created the file
  rows,       \* rows[p]: its rows, <<step, arm>>
  outcome,    \* outcome[c][<<step, arm>>] of the fault runs
  verdict,    \* verdict[c]: "none", "restored", "incomplete"
  exit,       \* exit[c]: "none", "success", "error"
  calibrate,  \* "yes" with --calibration
  position,   \* index in sequence(calibrate)
  arm,        \* self.arm, "none" while no mapping has been read back
  owned,      \* what is registered as owned: "namespace", "mesh", "policy"
  policyUid,  \* whose policy self.policy['uid'] is, NoOne before it is read
  kept,       \* the ConfigMap as it was read before the overlay
  failure,    \* "none" or "some"
  problems,   \* steps of the rollback that raised
  namespace,  \* whose experiment namespace exists
  policy,     \* whose CUSTOM policy exists
  mesh,       \* the shared ConfigMap: UID, whose provider, other edits
  ingress,    \* whose gate is effective at the ingress
  deployed,   \* the pools whose Deployments exist, or "none"
  pods,       \* the pools that have pods, terminating ones included
  config,     \* the pool selection in HAProxy's ConfigMap
  proxy       \* the pool selection HAProxy runs with

recordVars == <<ledger, rows, outcome, verdict, exit>>
selfVars == <<calibrate, position, arm, owned, policyUid, kept, failure, problems>>
poolVars == <<deployed, pods, config, proxy>>
clusterVars == <<namespace, policy, mesh, ingress, poolVars>>
vars == <<pc, recordVars, selfVars, clusterVars>>

Running ==
  {"check", "applyFixtures", "rollout", "patchMesh", "applyPolicy", "readPolicy", "converge",
   "next", "remove", "drain", "admit", "restart", "admitted", "act", "probe", "identify", "window"}
Rollback ==
  {"policy", "deletePolicy", "policyGone", "mesh", "patchBack", "meshBack",
   "namespace", "deleteNamespace", "namespaceGone", "verify"}
Active == Running \cup Rollback \cup {"finish"}
Ended == {"refused", "exited", "killed"}

NoOutcome == [r \in FaultRuns |-> "none"]
NoPools == deployed' = "none" /\ pods' = {} /\ config' = "none" /\ proxy' = "none"
Normal == [uid |-> "old", provider |-> NoOne, edited |-> "no"]

Init ==
  /\ pc = [c \in Campaigns |-> "gate"]
  /\ ledger = [p \in Paths |-> NoOne] /\ rows = [p \in Paths |-> <<>>]
  /\ outcome = [c \in Campaigns |-> NoOutcome]
  /\ verdict = [c \in Campaigns |-> "none"] /\ exit = [c \in Campaigns |-> "none"]
  /\ calibrate = "no" /\ position = 1 /\ arm = "none" /\ owned = {}
  /\ policyUid = NoOne /\ kept = Normal /\ failure = "none" /\ problems = {}
  /\ namespace = NoOne /\ policy = NoOne /\ mesh = Normal /\ ingress = NoOne
  /\ deployed = "none" /\ pods = {} /\ config = "none" /\ proxy = "none"

\* What a process knew is gone when it ends.
Forget ==
  /\ calibrate' = "no" /\ position' = 1 /\ arm' = "none" /\ owned' = {}
  /\ policyUid' = NoOne /\ kept' = Normal /\ failure' = "none" /\ problems' = {}

At(c, from, to) == pc[c] = from /\ pc' = [pc EXCEPT ![c] = to]

-----------------------------------------------------------------------------
(* Entry: the approval gate and the exclusive creation of the ledger.      *)

\* A campaign of another approval is started when all others are over.
Gate(c) ==
  /\ \A d \in Campaigns : LedgerOf[d] # LedgerOf[c] => pc[d] \in Ended \cup {"gate"}
  /\ At(c, "gate", IF ledger[LedgerOf[c]] = NoOne THEN "open" ELSE "refused")
  /\ UNCHANGED <<recordVars, selfVars, clusterVars>>

OpenAnyway(c) == TRUE  \* mutant: open(path, 'w')
OpenExclusive(c) == ledger[LedgerOf[c]] = NoOne

Refused(c) ==
  /\ ~OpenExclusive(c)
  /\ At(c, "open", "refused")
  /\ UNCHANGED <<recordVars, selfVars, clusterVars>>

Open(c) ==
  /\ OpenExclusive(c)
  /\ At(c, "open", "check")
  /\ ledger' = [ledger EXCEPT ![LedgerOf[c]] = c]
  /\ calibrate' \in Calibrations
  /\ UNCHANGED <<rows, outcome, verdict, exit, position, arm, owned, policyUid, kept, failure, problems,
                 clusterVars>>

\* step_gate: budgets, and no fault run before the healthy run of its arm.
Started(c, step, a) == \E k \in DOMAIN rows[LedgerOf[c]] : rows[LedgerOf[c]][k] = <<step, a>>
StepGate(c, step, a) ==
  \/ step = "setup"
  \/ step = "healthy" /\ ~Started(c, "healthy", a)
  \/ step \in {"calibration", "measured"} /\ ~Started(c, step, a) /\ Started(c, "healthy", a)

ActUnrecorded(c, step, a) == UNCHANGED rows  \* mutant: an action starts without its row
Consume(c, step, a) ==
  /\ StepGate(c, step, a)
  /\ rows' = [rows EXCEPT ![LedgerOf[c]] = Append(@, <<step, a>>)]

-----------------------------------------------------------------------------
(* start(): every object is registered as owned before it is created.      *)

\* Nothing of an experiment may exist; the overlay cannot be computed for a
\* ConfigMap that has the provider.
NoNamespace == namespace = NoOne  \* mutant: the other leftovers are not looked for
NothingThere ==
  namespace = NoOne /\ policy = NoOne /\ ingress = NoOne /\ mesh.provider = NoOne

Check(c) ==
  /\ At(c, "check", "applyFixtures")
  /\ NothingThere
  /\ Consume(c, "setup", "shared")
  /\ kept' = mesh /\ owned' = {"namespace"}
  /\ UNCHANGED <<ledger, outcome, verdict, exit, calibrate, position, arm, policyUid, failure, problems,
                 clusterVars>>

ApplyFixtures(c) ==
  /\ At(c, "applyFixtures", "rollout")
  /\ namespace' = c
  /\ deployed' = "shared" /\ config' = "shared" /\ proxy' = "shared"
  /\ UNCHANGED <<recordVars, selfVars, policy, mesh, ingress, pods>>

RegisterLate == UNCHANGED owned  \* mutant: registered after the patch
RegisterMesh == owned' = owned \cup {"mesh"}
Rollout(c) ==
  /\ At(c, "rollout", "patchMesh")
  /\ deployed \in pods
  /\ RegisterMesh
  /\ UNCHANGED <<recordVars, calibrate, position, arm, policyUid, kept, failure, problems, clusterVars>>

\* The patch, by name, has the data that was read before and the provider.
PatchMesh(c) ==
  /\ At(c, "patchMesh", "applyPolicy")
  /\ mesh' = [mesh EXCEPT !.provider = c, !.edited = kept.edited]
  /\ owned' = owned \cup {"policy"}
  /\ UNCHANGED <<recordVars, calibrate, position, arm, policyUid, kept, failure, problems,
                 namespace, policy, ingress, poolVars>>

ApplyPolicy(c) ==
  /\ At(c, "applyPolicy", "readPolicy")
  /\ policy' = c
  /\ UNCHANGED <<recordVars, selfVars, namespace, mesh, ingress, poolVars>>

ReadPolicy(c) ==
  /\ At(c, "readPolicy", "converge")
  /\ policyUid' = policy
  /\ UNCHANGED <<recordVars, calibrate, position, arm, owned, kept, failure, problems, clusterVars>>

Converged == policy = policyUid /\ ingress # NoOne

Converge(c) ==
  /\ At(c, "converge", "next")
  /\ Converged
  /\ arm' = "shared"
  /\ UNCHANGED <<recordVars, calibrate, position, owned, policyUid, kept, failure, problems, clusterVars>>

-----------------------------------------------------------------------------
(* sequence() and setup(), the drained transition between two arms.        *)

Sequence ==
  <<<<"healthy", "shared">>, <<"healthy", "isolated">>>> \o
  IF calibrate = "yes"
  THEN <<<<"calibration", "isolated">>, <<"calibration", "shared">>,
         <<"measured", "shared">>, <<"measured", "isolated">>>>
  ELSE <<<<"measured", "isolated">>, <<"measured", "shared">>>>

Step == Sequence[position][1]
Target == Sequence[position][2]
More == position <= Len(Sequence)

SameArm(c) ==
  /\ At(c, "next", "act")
  /\ More /\ arm = Target
  /\ UNCHANGED <<recordVars, selfVars, clusterVars>>

OtherArm(c) ==
  /\ At(c, "next", "remove")
  /\ More /\ arm # Target
  /\ Consume(c, "setup", Target)
  /\ arm' = "none"
  /\ UNCHANGED <<ledger, outcome, verdict, exit, calibrate, position, owned, policyUid, kept, failure,
                 problems, clusterVars>>

RemovePools(c) ==
  /\ At(c, "remove", "drain")
  /\ deployed' = "none"
  /\ UNCHANGED <<recordVars, selfVars, namespace, policy, mesh, ingress, pods, config, proxy>>

DeploymentsGone == deployed = "none"  \* mutant: the old pods are not waited for
Drained == pods = {}
Drain(c) ==
  /\ At(c, "drain", "admit")
  /\ Drained
  /\ UNCHANGED <<recordVars, selfVars, clusterVars>>

Admit(c) ==
  /\ At(c, "admit", "restart")
  /\ deployed' = Target /\ config' = Target
  /\ UNCHANGED <<recordVars, selfVars, namespace, policy, mesh, ingress, pods, proxy>>

NoRestart == UNCHANGED proxy  \* mutant: HAProxy keeps its old selection
RestartProxy == proxy' = config
Restart(c) ==
  /\ At(c, "restart", "admitted")
  /\ deployed \in pods
  /\ RestartProxy
  /\ UNCHANGED <<recordVars, selfVars, namespace, policy, mesh, ingress, deployed, pods, config>>

Admitted(c) ==
  /\ At(c, "admitted", "act")
  /\ Converged
  /\ arm' = Target
  /\ UNCHANGED <<recordVars, calibrate, position, owned, policyUid, kept, failure, problems, clusterVars>>

-----------------------------------------------------------------------------
(* healthy() and measure(): the row, the identity of the pools, the run.   *)

Act(c) ==
  /\ At(c, "act", IF Step = "healthy" THEN "probe" ELSE "identify")
  /\ Consume(c, Step, Target)
  /\ UNCHANGED <<ledger, outcome, verdict, exit, selfVars, clusterVars>>

Healthy(c) ==
  /\ At(c, "probe", "next")
  /\ pods = {Target}
  /\ position' = position + 1
  /\ UNCHANGED <<recordVars, calibrate, arm, owned, policyUid, kept, failure, problems, clusterVars>>

Identify(c) ==
  /\ At(c, "identify", "window")
  /\ pods = {Target}
  /\ UNCHANGED <<recordVars, selfVars, clusterVars>>

\* The run is saved and judged; a calibration that is not valid stops here.
GoOn(o) == TRUE  \* mutant: the verdict of a calibration is ignored
MayGoOn(o) == Step # "calibration" \/ o = "valid"
Measure(c) ==
  /\ pc[c] = "window"
  /\ \E o \in Outcomes :
       /\ outcome' = [outcome EXCEPT ![c][<<Step, Target>>] = o]
       /\ IF MayGoOn(o)
          THEN At(c, "window", "next") /\ position' = position + 1 /\ UNCHANGED failure
          ELSE At(c, "window", "policy") /\ failure' = "some" /\ UNCHANGED position
  /\ UNCHANGED <<ledger, rows, verdict, exit, calibrate, arm, owned, policyUid, kept, problems, clusterVars>>

SequenceOver(c) ==
  /\ At(c, "next", "policy")
  /\ ~More
  /\ UNCHANGED <<recordVars, selfVars, clusterVars>>

\* Any command may raise, before or after its effect; every wait has a
\* deadline.
PatientDrain == Running \ {"drain"}  \* mutant: the drain has no deadline
MayFail == Running
Fail(c) ==
  /\ pc[c] \in MayFail
  /\ pc' = [pc EXCEPT ![c] = "policy"]
  /\ failure' = "some"
  /\ UNCHANGED <<recordVars, calibrate, position, arm, owned, policyUid, kept, problems, clusterVars>>

-----------------------------------------------------------------------------
(* restore(): policy, ConfigMap, namespace, read-back.  A step that raises *)
(* is recorded and the next one runs.                                      *)

OnlyPc == UNCHANGED <<recordVars, selfVars, clusterVars>>
Released(o) ==
  /\ owned' = owned \ {o}
  /\ UNCHANGED <<recordVars, calibrate, position, arm, policyUid, kept, failure, problems, clusterVars>>

OwnsAll(o) == TRUE  \* mutant: whatever exists is taken for the campaign's own
Owns(o) == o \in owned

\* By UID, or by label as long as the UID has not been read.
OwnPolicy(c) == policy = policyUid \/ (policyUid = NoOne /\ policy = c)
FindPolicy(c) ==
  /\ \/ ~Owns("policy") /\ At(c, "policy", "mesh")
     \/ Owns("policy") /\ policy = NoOne /\ At(c, "policy", "policyGone")
     \/ Owns("policy") /\ policy # NoOne /\ OwnPolicy(c) /\ At(c, "policy", "deletePolicy")
  /\ OnlyPc

DeletePolicy(c) ==
  /\ At(c, "deletePolicy", "policyGone")
  /\ policy' = NoOne
  /\ UNCHANGED <<recordVars, selfVars, namespace, mesh, ingress, poolVars>>

PolicyGone(c) == At(c, "policyGone", "mesh") /\ policy = NoOne /\ Released("policy")

FindMesh(c) ==
  /\ \/ ~Owns("mesh") /\ At(c, "mesh", "namespace")
     \/ Owns("mesh") /\ mesh = kept /\ At(c, "mesh", "meshBack")
     \/ Owns("mesh") /\ mesh # kept /\ mesh.uid = kept.uid /\ At(c, "mesh", "patchBack")
  /\ OnlyPc

PatchBack(c) ==
  /\ At(c, "patchBack", "meshBack")
  /\ mesh' = [mesh EXCEPT !.provider = kept.provider, !.edited = kept.edited]
  /\ UNCHANGED <<recordVars, selfVars, namespace, policy, ingress, poolVars>>

ReadBack == mesh.provider = kept.provider /\ mesh.edited = kept.edited
MeshBack(c) == At(c, "meshBack", "namespace") /\ ReadBack /\ Released("mesh")

FindNamespace(c) ==
  /\ \/ ~Owns("namespace") /\ At(c, "namespace", "verify")
     \/ Owns("namespace") /\ namespace = NoOne /\ At(c, "namespace", "namespaceGone")
     \/ Owns("namespace") /\ namespace = c /\ At(c, "namespace", "deleteNamespace")
  /\ OnlyPc

DeleteNamespace(c) ==
  /\ At(c, "deleteNamespace", "namespaceGone")
  /\ namespace' = NoOne /\ NoPools
  /\ UNCHANGED <<recordVars, selfVars, policy, mesh, ingress>>

NamespaceGone(c) ==
  At(c, "namespaceGone", "verify") /\ namespace = NoOne /\ Released("namespace")

StepOf(label) ==
  CASE label \in {"policy", "deletePolicy", "policyGone"} -> "policy"
    [] label \in {"mesh", "patchBack", "meshBack"} -> "mesh"
    [] label \in {"namespace", "deleteNamespace", "namespaceGone"} -> "namespace"
    [] label = "verify" -> "verify"
AgainAfter(step) == step  \* mutant: a step of the rollback that raised is tried again
After(step) ==
  CASE step = "policy" -> "mesh" [] step = "mesh" -> "namespace" [] step = "namespace" -> "verify"
    [] step = "verify" -> "finish"

Pending(c, raised) ==  \* mutant: a status nobody knows
  verdict' = [verdict EXCEPT ![c] = IF raised = {} THEN "restored" ELSE "pending"]
Conclude(c, raised) ==
  verdict' = [verdict EXCEPT ![c] = IF raised = {} THEN "restored" ELSE "incomplete"]

NotPropagated == ingress = NoOne \/ policy = NoOne  \* mutant: the ingress is not read back
IngressNormal == ingress = NoOne
Verify(c) ==
  /\ At(c, "verify", "finish")
  /\ IngressNormal
  /\ Conclude(c, problems)
  /\ UNCHANGED <<ledger, rows, outcome, exit, selfVars, clusterVars>>

Forgotten(step) == problems  \* mutant: the exception is swallowed
Recorded(step) == problems \cup {step}
RollbackFails(c) ==
  /\ pc[c] \in Rollback
  /\ LET step == StepOf(pc[c]) IN
       /\ pc' = [pc EXCEPT ![c] = After(step)]
       /\ problems' = Recorded(step)
       /\ IF step = "verify" THEN Conclude(c, problems') ELSE UNCHANGED verdict
  /\ UNCHANGED <<ledger, rows, outcome, exit, calibrate, position, arm, owned, policyUid, kept, failure,
                 clusterVars>>

\* The comparison of the two measured runs is made for a restored system.
Complete(c) == failure = "none" /\ verdict[c] = "restored"
Finish(c) ==
  /\ At(c, "finish", "exited")
  /\ \E e \in {"success", "error"} :
       /\ exit' = [exit EXCEPT ![c] = e]
       /\ e = "success" => Complete(c) /\ \A a \in Arms : outcome[c][<<"measured", a>>] = "valid"
  /\ Forget
  /\ UNCHANGED <<ledger, rows, outcome, verdict, clusterVars>>

Kill(c) ==
  /\ pc[c] \in Active
  /\ pc' = [pc EXCEPT ![c] = "killed"]
  /\ Forget
  /\ UNCHANGED <<recordVars, clusterVars>>

-----------------------------------------------------------------------------
(* Everybody else.                                                         *)

Outside == UNCHANGED <<pc, recordVars, selfVars>>

Istio ==
  /\ ingress' = IF policy # NoOne THEN mesh.provider ELSE NoOne
  /\ ingress' # ingress
  /\ Outside /\ UNCHANGED <<namespace, policy, mesh, poolVars>>

PodStarts ==
  /\ deployed \notin pods \cup {"none"} /\ pods' = pods \cup {deployed}
  /\ Outside /\ UNCHANGED <<namespace, policy, mesh, ingress, deployed, config, proxy>>

PodStops ==
  /\ \E a \in pods \ {deployed} : pods' = pods \ {a}
  /\ Outside /\ UNCHANGED <<namespace, policy, mesh, ingress, deployed, config, proxy>>

ProxyReplaced ==
  /\ config # proxy /\ proxy' = config
  /\ Outside /\ UNCHANGED <<namespace, policy, mesh, ingress, deployed, pods, config>>

EditMesh ==
  /\ "edit" \in Edits /\ mesh.edited = "no"
  /\ mesh' = [mesh EXCEPT !.edited = "yes"]
  /\ Outside /\ UNCHANGED <<namespace, policy, ingress, poolVars>>

ReplaceMesh ==
  /\ "mesh" \in Edits /\ mesh.uid = "old"
  /\ mesh' = [Normal EXCEPT !.uid = "new"]
  /\ Outside /\ UNCHANGED <<namespace, policy, ingress, poolVars>>

ReplacePolicy ==
  /\ "policy" \in Edits /\ policy \in Campaigns
  /\ policy' = Other
  /\ Outside /\ UNCHANGED <<namespace, mesh, ingress, poolVars>>

ReplaceNamespace ==
  /\ "namespace" \in Edits /\ namespace \in Campaigns
  /\ namespace' = Other /\ NoPools
  /\ Outside /\ UNCHANGED <<policy, mesh, ingress>>

-----------------------------------------------------------------------------
Enter(c) == Gate(c) \/ Refused(c) \/ Open(c)
Start(c) == \/ Check(c) \/ ApplyFixtures(c) \/ Rollout(c) \/ PatchMesh(c) \/ ApplyPolicy(c)
            \/ ReadPolicy(c) \/ Converge(c)
Setup(c) == \/ SameArm(c) \/ OtherArm(c) \/ RemovePools(c) \/ Drain(c) \/ Admit(c) \/ Restart(c)
            \/ Admitted(c)
Run(c) == Act(c) \/ Healthy(c) \/ Identify(c) \/ Measure(c) \/ SequenceOver(c)
Restore(c) == \/ FindPolicy(c) \/ DeletePolicy(c) \/ PolicyGone(c) \/ FindMesh(c) \/ PatchBack(c)
              \/ MeshBack(c) \/ FindNamespace(c) \/ DeleteNamespace(c) \/ NamespaceGone(c) \/ Verify(c)
              \/ RollbackFails(c)
Process(c) == Enter(c) \/ Start(c) \/ Setup(c) \/ Run(c) \/ Fail(c) \/ Restore(c) \/ Finish(c)
Cluster == Istio \/ PodStarts \/ PodStops \/ ProxyReplaced
Others == EditMesh \/ ReplaceMesh \/ ReplacePolicy \/ ReplaceNamespace
AllEnded == (\A c \in Campaigns : pc[c] \in Ended) /\ UNCHANGED vars

Next == (\E c \in Campaigns : Process(c) \/ Kill(c)) \/ Cluster \/ Others \/ AllEnded

Spec == Init /\ [][Next]_vars

\* The process goes on: a command returns or raises.
FairSpec == Spec /\ \A c \in Campaigns : WF_vars(Process(c))
=============================================================================
