----------------------- MODULE IsolationCampaignProps ----------------------
(***************************************************************************)
(* Correctness properties of the P10 campaign.                             *)
(***************************************************************************)
EXTENDS IsolationCampaign, FiniteSets

Somebody == Campaigns \cup {NoOne, Other}
Pools == Arms \cup {"none"}
MeshStates ==
  [uid : {"old", "new"}, provider : Campaigns \cup {NoOne}, edited : {"yes", "no"}]

\* The variables keep their types.
TypeInv ==
  /\ pc \in [Campaigns -> {"gate", "open"} \cup Active \cup Ended]
  /\ ledger \in [Paths -> Campaigns \cup {NoOne}]
  /\ rows \in [Paths -> Seq(Steps \X Arms)]
  /\ outcome \in [Campaigns -> [FaultRuns -> Outcomes \cup {"none"}]]
  /\ verdict \in [Campaigns -> {"none", "restored", "incomplete"}]
  /\ exit \in [Campaigns -> {"none", "success", "error"}]
  /\ calibrate \in {"yes", "no"} /\ position \in 1 .. 7 /\ arm \in Pools
  /\ owned \subseteq {"namespace", "mesh", "policy"}
  /\ policyUid \in Somebody /\ kept \in MeshStates
  /\ failure \in {"none", "some"} /\ problems \subseteq {"policy", "mesh", "namespace", "verify"}
  /\ namespace \in Somebody /\ policy \in Somebody
  /\ mesh \in MeshStates /\ ingress \in Campaigns \cup {NoOne}
  /\ deployed \in Pools /\ pods \subseteq Arms /\ config \in Pools /\ proxy \in Pools

\* approval_gate 125, Ledger.__init__ 148: one approval is one campaign.  Of
\* the invocations with one ledger only one ever gets past it, whatever the
\* others saw before, and however it ended.
OneCampaign ==
  \A p \in Paths :
    Cardinality({c \in Campaigns :
      LedgerOf[c] = p /\ pc[c] \in Active \cup {"exited", "killed"}}) <= 1

\* start() 736, 739-741: a campaign builds on nothing that another one left
\* behind, killed or not restored; it only starts on a clean cluster.
LeftoversRefused ==
  \A c \in Campaigns :
    pc[c] \in {"applyFixtures", "rollout", "patchMesh"} =>
      /\ namespace \in {NoOne, c, Other} /\ policy = NoOne
      /\ mesh.provider = NoOne /\ ingress = NoOne

\* approval_gate 125, start() 736-741: what an approval has begun is neither
\* begun again, nor built upon by the campaign of another one.
CampaignsApart == OneCampaign /\ LeftoversRefused

\* step_gate 129: a started action is consumed whatever its outcome.  Whatever
\* a campaign has done to the cluster, or keeps as a run, has its row in the
\* ledger, also after a failure or a kill.
ConsumedBeforeActing ==
  \A c \in Campaigns :
    /\ namespace = c \/ policy = c \/ mesh.provider = c => Started(c, "setup", "shared")
    /\ namespace = c /\ "isolated" \in pods => Started(c, "setup", "isolated")
    /\ \A r \in FaultRuns : outcome[c][r] # "none" => Started(c, r[1], r[2])

\* Campaign 693: ownership is registered before the mutation it covers and
\* released only after a read-back, so that no failure, wherever it strikes,
\* lets the rollback forget an object.
OwnershipCoversObjects ==
  \A c \in Campaigns :
    pc[c] \in Active =>
      /\ namespace = c => "namespace" \in owned
      /\ policy = c => "policy" \in owned
      /\ mesh.provider = c => "mesh" \in owned

\* step_gate 129, Campaign 693: whatever a campaign changes is on record before,
\* in the ledger for those who come later, in what it owns for its rollback.
RecordedBeforeActing == TypeInv /\ ConsumedBeforeActing /\ OwnershipCoversObjects

\* restoration_verdict 389: a campaign reported as restored has left none of
\* its objects in the cluster and no gate at the ingress, and none comes back,
\* although others replace objects and Istio lags behind.
RestoredIsClean ==
  \A c \in Campaigns :
    verdict[c] = "restored" =>
      namespace # c /\ policy # c /\ mesh.provider # c /\ ingress # c

\* restore() 1087: the provider and the namespace with HAProxy are taken away
\* under a policy of the campaign, which would then deny every request to
\* Forgejo, only if the removal of the policy has failed and is reported.
DanglingPolicyIsReported ==
  [][\A c \in Campaigns :
       /\ pc'[c] # pc[c] /\ policy' = c
       /\ (mesh.provider = c /\ mesh'.provider # c) \/ (namespace = c /\ namespace' # c)
       => "policy" \in problems']_vars

\* The objects of a campaign in the cluster, by what they are registered as.
Objects(c) ==
  {o \in {"namespace", "policy", "mesh"} :
     CASE o = "namespace" -> namespace = c [] o = "policy" -> policy = c [] o = "mesh" -> mesh.provider = c}
AtWork(c) == pc[c] \in Active
OwnedBy(c) == IF AtWork(c) THEN owned ELSE {}
Own(c) == INSTANCE OwnedObjects WITH
  working <- AtWork(c), owned <- OwnedBy(c), present <- Objects(c)

\* Campaign 693, start() 736-741: a campaign begins without any object of its
\* own, makes what it has registered, and whatever its rollback could not
\* remove, or a kill left behind, never grows again.
KeepsToItsOwn ==
  /\ \A c \in Campaigns : Own(c)!Init
  /\ [][\A c \in Campaigns : [Own(c)!Next]_<<AtWork(c), OwnedBy(c), Objects(c)>>]_vars

\* The commands a campaign still has before it: after start() nine for each run of the
\* sequence, with a change of arm, and then the rollback.
RollbackLeft(label) ==
  CASE label = "policy" -> 11 [] label = "deletePolicy" -> 10 [] label = "policyGone" -> 9
    [] label = "mesh" -> 8 [] label = "patchBack" -> 7 [] label = "meshBack" -> 6
    [] label = "namespace" -> 5 [] label = "deleteNamespace" -> 4 [] label = "namespaceGone" -> 3
    [] label = "verify" -> 2 [] label = "finish" -> 1 [] OTHER -> 0
RunLeft(label) ==
  CASE label = "next" -> 20 [] label = "remove" -> 19 [] label = "drain" -> 18 [] label = "admit" -> 17
    [] label = "restart" -> 16 [] label = "admitted" -> 15 [] label = "act" -> 14
    [] label = "identify" -> 13 [] label \in {"probe", "window"} -> 12 [] OTHER -> 0
StartLeft(label) ==
  CASE label = "gate" -> 83 [] label = "open" -> 82 [] label = "check" -> 81 [] label = "applyFixtures" -> 80
    [] label = "rollout" -> 79 [] label = "patchMesh" -> 78 [] label = "applyPolicy" -> 77
    [] label = "readPolicy" -> 76 [] label = "converge" -> 75 [] OTHER -> 0
Left(label, k) ==
  IF RunLeft(label) > 0 THEN RunLeft(label) + 9 * (7 - k) ELSE StartLeft(label) + RollbackLeft(label)
CommandsLeft(c) == Left(pc[c], position)

\* run_campaign 1149-1187: whatever raises, and whatever others do to the cluster,
\* each step of a campaign is one of a bounded number it has left.
FiniteCampaign ==
  [][/\ \A c \in Campaigns : CommandsLeft(c)' \in 0 .. CommandsLeft(c)
     /\ \/ \E c \in Campaigns : CommandsLeft(c)' < CommandsLeft(c)
        \/ UNCHANGED <<pc, recordVars, selfVars>>]_vars

\* run_campaign 1149-1187: what a campaign owes to the cluster it works in.  It
\* keeps to its own objects, does not take the gateway's provider away under a
\* policy that needs it, and comes to an end.
CampaignContract == KeepsToItsOwn /\ DanglingPolicyIsReported /\ FiniteCampaign

\* restore() 1098, 1120: the rollback of a campaign removes no policy and no
\* namespace of another one.
OthersLeftAlone ==
  [][\A c, d \in Campaigns :
       c # d /\ pc'[c] # pc[c] =>
         /\ policy = d => policy' = d
         /\ namespace = d => namespace' = d
         /\ mesh.provider = d => mesh'.provider = d]_vars

\* setup() 797-819: the pods of two pools never exist side by side, which the
\* quota of four pods has no room for.
PoolsNeverOverlap == Cardinality(pods) <= 1

\* measure() 925-931: during the window of a run the arm it is about is the
\* one HAProxy sends to, the only one with pods, and the one read back.
MeasuredOnArm ==
  \A c \in Campaigns :
    pc[c] = "window" /\ namespace = c => pods = {Target} /\ proxy = Target /\ arm = Target

\* setup() 797-819, measure() 925-931: one arm at a time, and the right one.
ArmsApart == PoolsNeverOverlap /\ MeasuredOnArm

\* run_campaign 1149-1183: a success stands for a restored system, both
\* measured runs valid, each after the healthy run of its arm, and no
\* calibration that was not valid.
SuccessIsEarned ==
  \A c \in Campaigns :
    exit[c] = "success" =>
      /\ verdict[c] = "restored"
      /\ \A a \in Arms : outcome[c][<<"measured", a>>] = "valid" /\ Started(c, "healthy", a)
      /\ \A a \in Arms : outcome[c][<<"calibration", a>>] \in {"none", "valid"}

\* run_campaign 1174: a campaign that has begun gets to a verdict about its
\* rollback, unless it is killed.
RollbackIsConcluded ==
  \A c \in Campaigns : pc[c] = "check" ~> pc[c] = "killed" \/ exit[c] # "none"

\* azure-cascade.py 151, docs/p10-critical-bulk-isolation.md 133: the restore of
\* the shared ConfigMap is guarded by its UID and its data.  A rollback does
\* not undo the edit another operator made in the meantime.
EditsSurviveRestore ==
  [][\A c \in Campaigns :
       pc[c] = "patchBack" /\ pc'[c] = "meshBack" /\ mesh.edited = "yes" => mesh'.edited = "yes"]_vars
=============================================================================
