----------------------- MODULE IsolationCampaignProofs ----------------------
(***************************************************************************)
(* Proofs about the P10 campaign, for any number of invocations and ledger *)
(* paths and whatever the other operators may do.                          *)
(***************************************************************************)
EXTENDS IsolationCampaignProps, FiniteSetTheorems, TLAPS

USE CampaignAssumption

-----------------------------------------------------------------------------
(* The sequence of runs and the types.                                     *)

\* What sequence() may return: runs other than a setup, four or six of them.
LEMMA SequenceRuns ==
  ASSUME calibrate \in {"yes", "no"}
  PROVE  /\ Len(Sequence) \in {4, 6}
         /\ \A k \in 1 .. Len(Sequence) : Sequence[k] \in {"healthy", "calibration", "measured"} \X Arms
<1>1. CASE calibrate = "yes"
  BY <1>1 DEF Sequence, Arms
<1>2. CASE calibrate = "no"
  BY <1>2 DEF Sequence, Arms
<1> QED
  BY <1>1, <1>2

\* The parts of the type invariant.
PcType == pc \in [Campaigns -> {"gate", "open"} \cup Active \cup Ended]
RecordType ==
  /\ ledger \in [Paths -> Campaigns \cup {NoOne}]
  /\ rows \in [Paths -> Seq(Steps \X Arms)]
  /\ outcome \in [Campaigns -> [FaultRuns -> Outcomes \cup {"none"}]]
  /\ verdict \in [Campaigns -> {"none", "restored", "incomplete"}]
  /\ exit \in [Campaigns -> {"none", "success", "error"}]
SelfType ==
  /\ calibrate \in {"yes", "no"} /\ position \in 1 .. 7 /\ arm \in Pools
  /\ owned \subseteq {"namespace", "mesh", "policy"}
  /\ policyUid \in Somebody /\ kept \in MeshStates
  /\ failure \in {"none", "some"} /\ problems \subseteq {"policy", "mesh", "namespace", "verify"}
ClusterType ==
  /\ namespace \in Somebody /\ policy \in Somebody
  /\ mesh \in MeshStates /\ ingress \in Campaigns \cup {NoOne}
  /\ deployed \in Pools /\ pods \subseteq Arms /\ config \in Pools /\ proxy \in Pools

LEMMA TypeParts == TypeInv <=> PcType /\ RecordType /\ SelfType /\ ClusterType
  BY DEF TypeInv, PcType, RecordType, SelfType, ClusterType

\* A run that is under way is one of the sequence.
WalkInv ==
  \A c \in Campaigns :
    /\ pc[c] \in {"remove", "drain", "admit", "restart", "admitted", "act", "probe", "identify", "window"} => More
    /\ pc[c] = "probe" => Step = "healthy"
    /\ pc[c] \in {"identify", "window"} => Step # "healthy"

LEMMA RunTypes ==
  ASSUME SelfType, More
  PROVE  /\ Step \in {"healthy", "calibration", "measured"} /\ Target \in Arms
         /\ Step # "healthy" => <<Step, Target>> \in FaultRuns
         /\ position + 1 \in 1 .. 7
<1>1. /\ Len(Sequence) \in {4, 6} /\ position \in 1 .. Len(Sequence)
      /\ Sequence[position] \in {"healthy", "calibration", "measured"} \X Arms
  BY SequenceRuns DEF SelfType, More
<1>2. Step \in {"healthy", "calibration", "measured"} /\ Target \in Arms
  BY <1>1 DEF Step, Target
<1> QED
  BY <1>1, <1>2 DEF FaultRuns

LEMMA InitType == Init => TypeInv /\ WalkInv
  BY DEF Init, TypeInv, WalkInv, NoOutcome, Normal, MeshStates, Pools, Somebody, FaultRuns, Active, Running,
     Ended, Outcomes

-----------------------------------------------------------------------------
USE DEF At, recordVars, selfVars, clusterVars, poolVars

\* Every label a command leads to is one of the program.
LEMMA PcStep ==
  ASSUME PcType, NEW c \in Campaigns, Process(c) \/ Kill(c)
  PROVE  PcType' /\ \A d \in Campaigns \ {c} : pc'[d] = pc[d]
<1> USE DEF PcType, Active, Running, Rollback, Ended
<1>1. CASE Enter(c)
  BY <1>1 DEF Enter, Gate, Refused, Open
<1>2. CASE Start(c)
  BY <1>2 DEF Start, Check, ApplyFixtures, Rollout, PatchMesh, ApplyPolicy, ReadPolicy, Converge
<1>3. CASE Setup(c)
  BY <1>3 DEF Setup, SameArm, OtherArm, RemovePools, Drain, Admit, Restart, Admitted
<1>4. CASE Run(c) \/ Fail(c)
  BY <1>4 DEF Run, Act, Healthy, Identify, Measure, SequenceOver, Fail
<1>5. CASE Restore(c)
  BY <1>5 DEF Restore, FindPolicy, DeletePolicy, PolicyGone, FindMesh, PatchBack, MeshBack,
     FindNamespace, DeleteNamespace, NamespaceGone, Verify, RollbackFails, After, StepOf
<1>6. CASE Finish(c) \/ Kill(c)
  BY <1>6 DEF Finish, Kill
<1> QED
  BY <1>1, <1>2, <1>3, <1>4, <1>5, <1>6 DEF Process

LEMMA ConsumeType ==
  ASSUME RecordType, NEW c \in Campaigns, NEW step \in Steps, NEW a \in Arms, Consume(c, step, a)
  PROVE  rows' \in [Paths -> Seq(Steps \X Arms)]
  BY DEF RecordType, Consume

LEMMA RecordStep ==
  ASSUME RecordType, SelfType, WalkInv, NEW c \in Campaigns, Process(c) \/ Kill(c)
  PROVE  RecordType'
<1>1. CASE Enter(c)
  BY <1>1 DEF RecordType, Enter, Gate, Refused, Open
<1>2. CASE Check(c)
  BY <1>2, ConsumeType DEF RecordType, Check, Steps, Arms
<1>3. CASE Start(c) /\ ~Check(c)
  BY <1>3 DEF RecordType, Start, ApplyFixtures, Rollout, PatchMesh, ApplyPolicy, ReadPolicy, Converge
<1>4. CASE OtherArm(c)
  BY <1>4, ConsumeType, RunTypes DEF RecordType, OtherArm, Steps
<1>5. CASE Act(c)
  BY <1>5, ConsumeType, RunTypes DEF RecordType, Act, Steps, WalkInv
<1>6. CASE Measure(c)
  <2>1. <<Step, Target>> \in FaultRuns
    BY <1>6, RunTypes DEF Measure, WalkInv
  <2>2. outcome' \in [Campaigns -> [FaultRuns -> Outcomes \cup {"none"}]]
    BY <1>6, <2>1 DEF RecordType, Measure
  <2> QED
    BY <1>6, <2>2 DEF RecordType, Measure
<1>7. CASE (Setup(c) /\ ~OtherArm(c)) \/ (Run(c) /\ ~Act(c) /\ ~Measure(c)) \/ Fail(c)
  BY <1>7 DEF RecordType, Setup, SameArm, RemovePools, Drain, Admit, Restart, Admitted,
     Run, Healthy, Identify, SequenceOver, Fail
<1>8. CASE Restore(c) \/ Finish(c) \/ Kill(c)
  BY <1>8 DEF RecordType, Restore, FindPolicy, DeletePolicy, PolicyGone, FindMesh, PatchBack, MeshBack,
     FindNamespace, DeleteNamespace, NamespaceGone, Verify, RollbackFails, Released, OnlyPc, Conclude, Finish, Kill
<1> QED
  BY <1>1, <1>2, <1>3, <1>4, <1>5, <1>6, <1>7, <1>8 DEF Process, Start, Setup, Run

LEMMA SelfStep ==
  ASSUME SelfType, ClusterType, WalkInv, NEW c \in Campaigns, Process(c) \/ Kill(c)
  PROVE  SelfType'
<1>1. CASE Enter(c)
  BY <1>1 DEF SelfType, Enter, Gate, Refused, Open
<1>2. CASE Start(c)
  BY <1>2 DEF SelfType, ClusterType, Start, Check, ApplyFixtures, Rollout, RegisterMesh, PatchMesh, ApplyPolicy,
     ReadPolicy, Converge, Pools, Arms
<1>3. CASE Setup(c)
  BY <1>3, RunTypes DEF SelfType, Setup, SameArm, OtherArm, RemovePools, Drain, Admit, Restart, Admitted, Pools,
     WalkInv
<1>4. CASE Healthy(c) \/ Measure(c)
  <2>1. position' \in 1 .. 7
    BY <1>4, RunTypes DEF Healthy, Measure, WalkInv, SelfType
  <2> QED
    BY <1>4, <2>1 DEF SelfType, Healthy, Measure
<1>5. CASE (Run(c) /\ ~Healthy(c) /\ ~Measure(c)) \/ Fail(c)
  BY <1>5 DEF SelfType, Run, Act, Identify, SequenceOver, Fail
<1>6. CASE RollbackFails(c)
  BY <1>6 DEF SelfType, RollbackFails, StepOf, Recorded, Rollback
<1>7. CASE Restore(c) /\ ~RollbackFails(c)
  BY <1>7 DEF SelfType, Restore, FindPolicy, DeletePolicy, PolicyGone, FindMesh, PatchBack, MeshBack,
     FindNamespace, DeleteNamespace, NamespaceGone, Verify, Released, OnlyPc
<1>8. CASE Finish(c) \/ Kill(c)
  BY <1>8 DEF SelfType, Finish, Kill, Forget, Pools, Somebody, MeshStates, Normal
<1> QED
  BY <1>1, <1>2, <1>3, <1>4, <1>5, <1>6, <1>7, <1>8 DEF Process, Run, Restore

LEMMA ClusterStep ==
  ASSUME SelfType, ClusterType, WalkInv, NEW c \in Campaigns, Process(c) \/ Kill(c)
  PROVE  ClusterType'
<1> USE DEF ClusterType, Pools, Arms
<1>1. CASE Enter(c) \/ Run(c) \/ Fail(c) \/ Finish(c) \/ Kill(c)
  BY <1>1 DEF Enter, Gate, Refused, Open, Run, Act, Healthy, Identify, Measure, SequenceOver, Fail, Finish, Kill
<1>2. CASE Start(c)
  <2>1. CASE PatchMesh(c)
    <3>1. mesh' = [mesh EXCEPT !.provider = c, !.edited = kept.edited] /\ UNCHANGED <<namespace, policy, ingress, poolVars>>
      BY <2>1 DEF PatchMesh
    <3>2. mesh \in MeshStates /\ kept \in MeshStates
      BY DEF SelfType
    <3>3. mesh' \in MeshStates
      BY <3>1, <3>2 DEF MeshStates
    <3> QED
      BY <3>1, <3>3
  <2>2. CASE ApplyFixtures(c) \/ ApplyPolicy(c)
    BY <2>2 DEF ApplyFixtures, ApplyPolicy, Somebody
  <2>3. CASE Check(c) \/ Rollout(c) \/ ReadPolicy(c) \/ Converge(c)
    BY <2>3 DEF Check, Rollout, ReadPolicy, Converge
  <2> QED
    BY <1>2, <2>1, <2>2, <2>3 DEF Start
<1>3. CASE Admit(c)
  BY <1>3, RunTypes DEF Admit, WalkInv
<1>4. CASE Setup(c) /\ ~Admit(c)
  BY <1>4 DEF Setup, SameArm, OtherArm, RemovePools, Drain, Restart, RestartProxy, Admitted
<1>5. CASE Restore(c)
  <2>1. CASE PatchBack(c)
    <3>1. mesh' = [mesh EXCEPT !.provider = kept.provider, !.edited = kept.edited] /\ UNCHANGED <<namespace, policy, ingress, poolVars>>
      BY <2>1 DEF PatchBack
    <3>2. mesh \in MeshStates /\ kept \in MeshStates
      BY DEF SelfType
    <3>3. mesh' \in MeshStates
      BY <3>1, <3>2 DEF MeshStates
    <3> QED
      BY <3>1, <3>3
  <2>2. CASE DeletePolicy(c) \/ DeleteNamespace(c)
    BY <2>2 DEF DeletePolicy, DeleteNamespace, NoPools, Somebody
  <2>3. CASE FindPolicy(c) \/ PolicyGone(c) \/ FindMesh(c) \/ MeshBack(c) \/ FindNamespace(c) \/ NamespaceGone(c)
             \/ Verify(c) \/ RollbackFails(c)
    BY <2>3 DEF FindPolicy, PolicyGone, FindMesh, MeshBack, FindNamespace, NamespaceGone, Verify, RollbackFails,
       Released, OnlyPc
  <2> QED
    BY <1>5, <2>1, <2>2, <2>3 DEF Restore
<1> QED
  BY <1>1, <1>2, <1>3, <1>4, <1>5 DEF Process, Setup

\* What the cluster and the other operators may do to it.
LEMMA OutsideType ==
  ASSUME ClusterType, Cluster \/ Others
  PROVE  ClusterType' /\ UNCHANGED <<pc, recordVars, selfVars>>
<1> USE DEF ClusterType, Pools, Arms, Somebody, MeshStates, Outside
<1>1. CASE Cluster
  BY <1>1 DEF Cluster, Istio, PodStarts, PodStops, ProxyReplaced
<1>2. CASE EditMesh \/ ReplaceMesh
  BY <1>2 DEF EditMesh, ReplaceMesh, Normal
<1>3. CASE ReplacePolicy \/ ReplaceNamespace
  BY <1>3 DEF ReplacePolicy, ReplaceNamespace, NoPools
<1> QED
  BY <1>1, <1>2, <1>3 DEF Others

-----------------------------------------------------------------------------
(* One invocation at a time.                                               *)

\* Whoever has got past the ledger is the one that created it; invocations with
\* different ledgers are not under way together.
OneInv ==
  /\ \A c \in Campaigns : pc[c] \in Active \cup {"exited", "killed"} => ledger[LedgerOf[c]] = c
  /\ \A c, d \in Campaigns :
       LedgerOf[c] # LedgerOf[d] => pc[c] \in Ended \cup {"gate"} \/ pc[d] \in Ended \cup {"gate"}

\* What the Campaign object knows belongs to the one that is active.
IdleInv ==
  /\ (\A c \in Campaigns : pc[c] \notin Active) =>
       /\ position = 1 /\ arm = "none" /\ owned = {} /\ policyUid = NoOne /\ kept = Normal
       /\ failure = "none" /\ problems = {}
  /\ \A c \in Campaigns :
       pc[c] = "check" =>
         /\ position = 1 /\ arm = "none" /\ owned = {} /\ policyUid = NoOne /\ kept = Normal
         /\ failure = "none" /\ problems = {}

LEMMA Alone ==
  ASSUME OneInv, NEW c \in Campaigns, NEW d \in Campaigns, pc[c] \in Active, pc[d] \in Active \cup {"open"}
  PROVE  c = d \/ (pc[d] = "open" /\ ledger[LedgerOf[d]] = c)
  BY DEF OneInv, Active, Running, Rollback, Ended

\* The steps by which an active invocation goes on.
Works(c) == Start(c) \/ Setup(c) \/ Run(c) \/ Fail(c) \/ Restore(c) \/ Finish(c) \/ Kill(c)

LEMMA WorksActive ==
  ASSUME PcType, NEW c \in Campaigns, Works(c)
  PROVE  pc[c] \in Active /\ pc'[c] \in Active \cup {"exited", "killed"} /\ ledger' = ledger
<1> USE DEF PcType, Active, Running, Rollback, Works
<1>1. CASE Start(c) \/ Finish(c) \/ Kill(c)
  BY <1>1 DEF Start, Check, ApplyFixtures, Rollout, PatchMesh, ApplyPolicy, ReadPolicy, Converge, Finish, Kill
<1>2. CASE Setup(c)
  BY <1>2 DEF Setup, SameArm, OtherArm, RemovePools, Drain, Admit, Restart, Admitted
<1>3. CASE Run(c) \/ Fail(c)
  BY <1>3 DEF Run, Act, Healthy, Identify, Measure, SequenceOver, Fail, MayFail
<1>4. CASE Restore(c)
  BY <1>4 DEF Restore, FindPolicy, DeletePolicy, PolicyGone, FindMesh, PatchBack, MeshBack, FindNamespace,
     DeleteNamespace, NamespaceGone, Verify, RollbackFails, Released, OnlyPc, After, StepOf
<1> QED
  BY <1>1, <1>2, <1>3, <1>4

\* Nobody else is active before or after a step of one that is.
LEMMA OthersRest ==
  ASSUME PcType, OneInv, NEW c \in Campaigns, Works(c)
  PROVE  \A d \in Campaigns \ {c} : pc'[d] = pc[d] /\ pc[d] \notin Active
  BY WorksActive, Alone, PcStep DEF Works, Process, Active, Running, Rollback

LEMMA OneStep ==
  ASSUME PcType, RecordType, OneInv, NEW c \in Campaigns, Process(c) \/ Kill(c)
  PROVE  OneInv'
<1>1. CASE Works(c)
  BY <1>1, WorksActive, OthersRest DEF OneInv, PcType, Active, Running, Rollback, Ended
<1>2. CASE Gate(c) \/ Refused(c)
  BY <1>2 DEF OneInv, PcType, Gate, Refused, Active, Running, Rollback, Ended
<1>3. CASE Open(c)
  <2>1. \A d \in Campaigns : LedgerOf[d] = LedgerOf[c] => pc[d] \notin Active \cup {"exited", "killed"}
    BY <1>3 DEF OneInv, Open, OpenExclusive
  <2> QED
    BY <1>3, <2>1 DEF OneInv, PcType, RecordType, Open, Active, Running, Rollback, Ended
<1> QED
  BY <1>1, <1>2, <1>3 DEF Process, Enter, Works

LEMMA IdleStep ==
  ASSUME PcType, OneInv, IdleInv, NEW c \in Campaigns, Process(c) \/ Kill(c)
  PROVE  IdleInv'
<1>1. CASE Finish(c) \/ Kill(c)
  <2>1. pc'[c] \notin Active
    BY <1>1 DEF PcType, Finish, Kill, Active, Running, Rollback
  <2>2. Forget
    BY <1>1 DEF Finish, Kill
  <2> QED
    BY <1>1, <2>1, <2>2, OthersRest DEF IdleInv, Forget, Works, Normal
<1>2. CASE Works(c) /\ ~(Finish(c) \/ Kill(c))
  <2>1. pc'[c] \in Active /\ pc'[c] # "check"
    <3> USE DEF PcType, Active, Running, Rollback
    <3>1. CASE Start(c) \/ Fail(c)
      BY <3>1 DEF Start, Check, ApplyFixtures, Rollout, PatchMesh, ApplyPolicy, ReadPolicy, Converge, Fail
    <3>2. CASE Setup(c) \/ Run(c)
      BY <3>2 DEF Setup, SameArm, OtherArm, RemovePools, Drain, Admit, Restart, Admitted,
         Run, Act, Healthy, Identify, Measure, SequenceOver
    <3>3. CASE Restore(c)
      BY <3>3 DEF Restore, FindPolicy, DeletePolicy, PolicyGone, FindMesh, PatchBack, MeshBack, FindNamespace,
         DeleteNamespace, NamespaceGone, Verify, RollbackFails, After, StepOf
    <3> QED
      BY <1>2, <3>1, <3>2, <3>3 DEF Works
  <2> QED
    BY <1>2, <2>1, OthersRest DEF IdleInv, Active, Running
<1>3. CASE Gate(c) \/ Refused(c)
  BY <1>3 DEF IdleInv, PcType, Gate, Refused, Active, Running, Rollback
<1>4. CASE Open(c)
  <2>1. \A d \in Campaigns : pc[d] \notin Active
    BY <1>4 DEF OneInv, Open, OpenExclusive, Active, Running, Rollback, Ended
  <2> QED
    BY <1>4, <2>1 DEF IdleInv, PcType, Open, Active, Running, Rollback
<1> QED
  BY <1>1, <1>2, <1>3, <1>4 DEF Process, Enter, Works

\* Only one in start() or after it can be in the sequence of runs.
LEMMA WalkStep ==
  ASSUME PcType, OneInv, WalkInv, SelfType, NEW c \in Campaigns, Process(c) \/ Kill(c)
  PROVE  WalkInv'
<1>1. CASE Gate(c) \/ Refused(c)
  BY <1>1 DEF WalkInv, PcType, Gate, Refused, Step, More, Sequence
<1>2. CASE Open(c)
  <2>1. \A d \in Campaigns : pc'[d] \notin Active \ {"check"}
    BY <1>2 DEF OneInv, PcType, Open, OpenExclusive, Active, Running, Rollback, Ended
  <2> QED
    BY <2>1 DEF WalkInv, Active, Running
<1>3. CASE Works(c)
  <2>1. \A d \in Campaigns \ {c} : pc'[d] \notin Active
    BY <1>3, OthersRest
  <2>2. CASE SameArm(c) \/ OtherArm(c) \/ RemovePools(c) \/ Drain(c) \/ Admit(c) \/ Restart(c) \/ Admitted(c)
             \/ Act(c) \/ Identify(c)
    <3>1. /\ More' = More /\ Step' = Step /\ More
          /\ pc'[c] \in {"probe"} => Step = "healthy"
          /\ pc'[c] \in {"identify", "window"} => Step # "healthy"
      BY <2>2 DEF WalkInv, PcType, SameArm, OtherArm, RemovePools, Drain, Admit, Restart, Admitted, Act, Identify,
         Step, More, Sequence
    <3> QED
      BY <2>1, <3>1 DEF WalkInv, Active, Running
  <2>3. CASE Works(c) /\ pc'[c] \notin {"remove", "drain", "admit", "restart", "admitted", "act", "probe", "identify",
                                         "window"}
    BY <2>1, <2>3 DEF WalkInv, Active, Running
  <2>4. CASE Start(c) \/ Fail(c) \/ Restore(c) \/ Finish(c) \/ Kill(c) \/ Healthy(c) \/ Measure(c) \/ SequenceOver(c)
    <3>1. pc'[c] \notin {"remove", "drain", "admit", "restart", "admitted", "act", "probe", "identify", "window"}
      BY <2>4 DEF PcType, Start, Check, ApplyFixtures, Rollout, PatchMesh, ApplyPolicy, ReadPolicy, Converge, Fail,
         Restore, FindPolicy, DeletePolicy, PolicyGone, FindMesh, PatchBack, MeshBack, FindNamespace,
         DeleteNamespace, NamespaceGone, Verify, RollbackFails, After, StepOf, Finish, Kill, Healthy, Measure,
         SequenceOver, Rollback
    <3> QED
      BY <1>3, <2>3, <3>1
  <2> QED
    BY <1>3, <2>2, <2>4 DEF Works, Setup, Run
<1> QED
  BY <1>1, <1>2, <1>3 DEF Process, Enter, Works

-----------------------------------------------------------------------------
(* What a campaign owns, and what is there of it.                          *)

Touched(c) == namespace = c \/ policy = c \/ mesh.provider = c \/ ingress = c

\* Labels of rollback steps behind the one for the policy, and the one for the
\* ConfigMap.
AfterPolicy == {"mesh", "patchBack", "meshBack", "namespace", "deleteNamespace", "namespaceGone", "verify", "finish"}
AfterMesh == {"namespace", "deleteNamespace", "namespaceGone", "verify", "finish"}

OwnInv ==
  /\ kept.provider = NoOne
  /\ \A c \in Campaigns :
       /\ pc[c] \in {"gate", "open", "check", "refused"} => ~Touched(c)
       /\ pc[c] \in Running \ {"check"} => "namespace" \in owned
       /\ pc[c] = "deleteNamespace" => "namespace" \in owned
       /\ pc[c] \in {"patchMesh", "patchBack"} => "mesh" \in owned
       /\ pc[c] \in {"applyPolicy", "deletePolicy"} => "policy" \in owned
       /\ pc[c] \in Active =>
            /\ namespace = c => "namespace" \in owned
            /\ policy = c => "policy" \in owned
            /\ mesh.provider = c => "mesh" \in owned
       /\ pc[c] \in Active /\ owned # {} =>
            /\ namespace \in {NoOne, c, Other} /\ policy \in {NoOne, c, Other}
            /\ mesh.provider \in {NoOne, c} /\ ingress \in {NoOne, c}
       /\ pc[c] = "applyFixtures" => namespace = NoOne
       /\ pc[c] \in Running \ {"check", "applyFixtures"} => namespace \in {c, Other}
       /\ pc[c] \in {"applyFixtures", "rollout", "patchMesh"} =>
            policy = NoOne /\ mesh.provider = NoOne /\ ingress = NoOne

\* The rollback, as long as no step of it has raised.
CleanInv ==
  \A c \in Campaigns :
    /\ pc[c] \in AfterPolicy /\ "policy" \notin problems => policy # c
    /\ pc[c] \in AfterMesh /\ "mesh" \notin problems => mesh.provider # c
    /\ pc[c] \in {"verify", "finish"} /\ "namespace" \notin problems => namespace # c
    /\ verdict[c] = "restored" => pc[c] \in {"finish", "exited", "killed"} /\ ~Touched(c)

LEMMA OwnStep ==
  ASSUME PcType, SelfType, ClusterType, OneInv, IdleInv, OwnInv, NEW c \in Campaigns, Process(c) \/ Kill(c)
  PROVE  OwnInv'
<1> USE DEF Touched
<1>1. CASE Gate(c) \/ Refused(c)
  BY <1>1 DEF OwnInv, PcType, Gate, Refused, Active, Running, Rollback
<1>2. CASE Open(c)
  <2>1. \A d \in Campaigns : pc[d] \notin Active
    BY <1>2 DEF OneInv, Open, OpenExclusive, Active, Running, Rollback, Ended
  <2> QED
    BY <1>2, <2>1 DEF IdleInv, OwnInv, PcType, Open, Active, Running, Rollback
<1>3. CASE Works(c)
  <2>1. \A d \in Campaigns \ {c} : pc'[d] = pc[d] /\ pc[d] \notin Active
    BY <1>3, OthersRest
  <2>2. pc[c] \in Active
    BY <1>3, WorksActive
  <2> USE <2>1, <2>2 DEF OwnInv, PcType, Active, Running, Rollback
  <2>3. CASE Check(c)
    BY <2>3 DEF Check, NothingThere, IdleInv
  <2>4. CASE ApplyFixtures(c)
    BY <2>4 DEF ApplyFixtures, SelfType
  <2>5. CASE Rollout(c)
    BY <2>5 DEF Rollout, RegisterMesh
  <2>6. CASE PatchMesh(c)
    BY <2>6 DEF PatchMesh, ClusterType, MeshStates
  <2>7. CASE ApplyPolicy(c)
    BY <2>7 DEF ApplyPolicy, ClusterType
  <2>8. CASE ReadPolicy(c) \/ Converge(c)
    BY <2>8 DEF ReadPolicy, Converge
  <2>9. CASE Setup(c)
    BY <2>9 DEF Setup, SameArm, OtherArm, RemovePools, Drain, Admit, Restart, Admitted
  <2>10. CASE Run(c) \/ Fail(c)
    BY <2>10 DEF Run, Act, Healthy, Identify, Measure, SequenceOver, Fail, MayFail
  <2>11. CASE FindPolicy(c) \/ FindMesh(c) \/ FindNamespace(c) \/ Verify(c)
    BY <2>11 DEF FindPolicy, FindMesh, FindNamespace, Verify, Owns, OnlyPc
  <2>12. CASE DeletePolicy(c) \/ PolicyGone(c)
    BY <2>12 DEF DeletePolicy, PolicyGone, Released, ClusterType
  <2>13. CASE PatchBack(c) \/ MeshBack(c)
    <3>1. mesh'.provider = NoOne
          /\ owned' \in {owned, owned \ {"mesh"}} /\ kept' = kept
          /\ UNCHANGED <<namespace, policy, ingress>> /\ pc'[c] \in {"meshBack", "namespace"}
      BY <2>13 DEF PatchBack, MeshBack, ReadBack, Released, ClusterType, MeshStates
    <3>2. mesh'.provider # c
      BY <3>1
    <3> QED
      BY <3>1, <3>2
  <2>14. CASE DeleteNamespace(c) \/ NamespaceGone(c)
    BY <2>14 DEF DeleteNamespace, NamespaceGone, Released
  <2>15. CASE RollbackFails(c)
    <3>1. pc'[c] \in {"mesh", "namespace", "verify", "finish"} /\ UNCHANGED <<owned, policyUid, kept, clusterVars>>
      BY <2>15 DEF RollbackFails, After, StepOf
    <3> QED
      BY <3>1
  <2>16. CASE Finish(c) \/ Kill(c)
    BY <2>16 DEF Finish, Kill, Forget, Normal
  <2> QED
    BY <1>3, <2>3, <2>4, <2>5, <2>6, <2>7, <2>8, <2>9, <2>10, <2>11, <2>12, <2>13, <2>14, <2>15, <2>16
       DEF Works, Start, Restore
<1> QED
  BY <1>1, <1>2, <1>3 DEF Process, Enter, Works

LEMMA OwnOutside ==
  ASSUME PcType, ClusterType, OwnInv, Cluster \/ Others
  PROVE  OwnInv'
<1> USE DEF OwnInv, Touched, Outside, Active, Running, Rollback, ClusterType
<1>1. CASE Istio
  BY <1>1 DEF Istio
<1>2. CASE PodStarts \/ PodStops \/ ProxyReplaced
  BY <1>2 DEF PodStarts, PodStops, ProxyReplaced
<1>3. CASE EditMesh \/ ReplaceMesh
  BY <1>3 DEF EditMesh, ReplaceMesh, Normal, MeshStates
<1>4. CASE ReplacePolicy
  BY <1>4 DEF ReplacePolicy
<1>5. CASE ReplaceNamespace
  BY <1>5 DEF ReplaceNamespace
<1> QED
  BY <1>1, <1>2, <1>3, <1>4, <1>5 DEF Cluster, Others

LEMMA CleanStep ==
  ASSUME PcType, RecordType, SelfType, ClusterType, OneInv, OwnInv, CleanInv,
         NEW c \in Campaigns, Process(c) \/ Kill(c)
  PROVE  CleanInv'
<1> USE DEF Touched
<1>1. CASE Enter(c)
  BY <1>1 DEF CleanInv, PcType, Enter, Gate, Refused, Open, AfterPolicy, AfterMesh
<1>2. CASE Works(c)
  <2>1. \A d \in Campaigns \ {c} : pc'[d] = pc[d] /\ pc[d] \notin Active
    BY <1>2, OthersRest
  <2>2. AfterPolicy \cup AfterMesh \subseteq Active
    BY DEF AfterPolicy, AfterMesh, Active, Rollback
  <2>3. \A d \in Campaigns \ {c} : verdict[d] = "restored" => pc[d] \in {"exited", "killed"} /\ ~Touched(d)
    BY <2>1 DEF CleanInv, Active
  <2> USE <2>1, <2>2, <2>3 DEF CleanInv, PcType, AfterPolicy, AfterMesh, Running, Rollback, Active
  <2>4. CASE Check(c) \/ Rollout(c) \/ ReadPolicy(c) \/ Converge(c) \/ Setup(c)
    BY <2>4 DEF Check, Rollout, ReadPolicy, Converge, Setup, SameArm, OtherArm, RemovePools, Drain, Admit, Restart,
       Admitted
  <2>5. CASE ApplyFixtures(c) \/ PatchMesh(c) \/ ApplyPolicy(c)
    <3>1. /\ pc'[c] \in {"rollout", "applyPolicy", "readPolicy"} /\ UNCHANGED <<verdict, ingress, problems>>
          /\ namespace' \in {namespace, c} /\ policy' \in {policy, c} /\ mesh'.provider \in {mesh.provider, c}
      <4>1. CASE ApplyFixtures(c)
        BY <4>1 DEF ApplyFixtures
      <4>2. CASE PatchMesh(c)
        BY <4>2 DEF PatchMesh, ClusterType, MeshStates
      <4>3. CASE ApplyPolicy(c)
        BY <4>3 DEF ApplyPolicy
      <4> QED
        BY <2>5, <4>1, <4>2, <4>3
    <3>2. verdict[c] # "restored"
      BY <2>5 DEF ApplyFixtures, PatchMesh, ApplyPolicy
    <3> QED
      BY <3>1, <3>2
  <2>6. CASE Run(c) \/ Fail(c)
    BY <2>6 DEF Run, Act, Healthy, Identify, Measure, SequenceOver, Fail, MayFail
  <2>7. CASE FindPolicy(c) \/ FindMesh(c) \/ FindNamespace(c)
    BY <2>7 DEF FindPolicy, FindMesh, FindNamespace, Owns, OnlyPc, OwnInv
  <2>8. CASE DeletePolicy(c) \/ PolicyGone(c)
    BY <2>8 DEF DeletePolicy, PolicyGone, Released
  <2>9. CASE PatchBack(c) \/ MeshBack(c)
    <3>1. mesh'.provider = NoOne /\ UNCHANGED <<namespace, policy, ingress, verdict, problems>>
      BY <2>9 DEF PatchBack, MeshBack, ReadBack, Released, ClusterType, MeshStates, OwnInv
    <3>2. \/ pc[c] = "patchBack" /\ pc'[c] = "meshBack"
          \/ pc[c] = "meshBack" /\ pc'[c] = "namespace"
      BY <2>9 DEF PatchBack, MeshBack
    <3> QED
      BY <3>1, <3>2
  <2>10. CASE DeleteNamespace(c) \/ NamespaceGone(c)
    BY <2>10 DEF DeleteNamespace, NamespaceGone, Released
  <2>11. CASE Verify(c)
    <3>1. verdict'[c] = "restored" => problems = {}
      BY <2>11 DEF Verify, Conclude, RecordType
    <3>2. \A d \in Campaigns \ {c} : verdict'[d] = verdict[d]
      BY <2>11 DEF Verify, Conclude, RecordType
    <3> QED
      BY <2>11, <3>1, <3>2 DEF Verify, IngressNormal
  <2>12. CASE RollbackFails(c)
    <3>1. /\ problems' = problems \cup {StepOf(pc[c])} /\ pc'[c] = After(StepOf(pc[c]))
          /\ UNCHANGED <<namespace, policy, mesh, ingress>> /\ pc[c] \in Rollback
      BY <2>12 DEF RollbackFails, Recorded
    <3>2. \/ StepOf(pc[c]) = "policy" /\ pc'[c] = "mesh"
          \/ StepOf(pc[c]) = "mesh" /\ pc'[c] = "namespace" /\ pc[c] \in AfterPolicy
          \/ StepOf(pc[c]) = "namespace" /\ pc'[c] = "verify" /\ pc[c] \in AfterMesh
          \/ StepOf(pc[c]) = "verify" /\ pc'[c] = "finish" /\ pc[c] = "verify"
      BY <3>1 DEF StepOf, After
    <3>3. (\A d \in Campaigns \ {c} : verdict'[d] = verdict[d]) /\ verdict'[c] # "restored"
      <4>1. verdict[c] # "restored" /\ problems' # {}
        BY <3>1
      <4>2. verdict' \in {verdict, [verdict EXCEPT ![c] = "incomplete"]}
        BY <2>12, <4>1 DEF RollbackFails, Conclude
      <4> QED
        BY <4>1, <4>2 DEF RecordType
    <3> QED
      BY <3>1, <3>2, <3>3
  <2>13. CASE Finish(c) \/ Kill(c)
    BY <2>13 DEF Finish, Kill
  <2> QED
    BY <1>2, <2>4, <2>5, <2>6, <2>7, <2>8, <2>9, <2>10, <2>11, <2>12, <2>13 DEF Works, Start, Restore
<1> QED
  BY <1>1, <1>2 DEF Process, Enter, Works

LEMMA CleanOutside ==
  ASSUME PcType, ClusterType, CleanInv, Cluster \/ Others
  PROVE  CleanInv'
<1> USE DEF CleanInv, Touched, Outside, ClusterType
<1>1. CASE Cluster
  BY <1>1 DEF Cluster, Istio, PodStarts, PodStops, ProxyReplaced
<1>2. CASE EditMesh \/ ReplaceMesh
  BY <1>2 DEF EditMesh, ReplaceMesh, Normal, MeshStates
<1>3. CASE ReplacePolicy \/ ReplaceNamespace
  BY <1>3 DEF ReplacePolicy, ReplaceNamespace
<1> QED
  BY <1>1, <1>2, <1>3 DEF Others

-----------------------------------------------------------------------------
(* One arm at a time.                                                      *)

PoolInv ==
  /\ \A a, b \in pods : a = b
  /\ deployed # "none" => pods \subseteq {deployed}
  /\ namespace = NoOne => pods = {} /\ deployed = "none"
  /\ \A c \in Campaigns :
       /\ pc[c] \in {"drain", "admit"} => deployed = "none"
       /\ pc[c] = "admit" => pods = {}
       /\ pc[c] \in {"act", "probe", "identify", "window"} => arm = Target
       /\ namespace = c =>
            /\ pc[c] \in {"rollout", "patchMesh", "applyPolicy", "readPolicy", "converge"}
               => deployed = "shared" /\ config = "shared" /\ proxy = "shared"
            /\ pc[c] = "restart" => deployed = Target /\ config = Target
            /\ pc[c] = "admitted" => deployed = Target /\ config = Target /\ proxy = Target
            /\ pc[c] \in {"next", "act", "probe", "identify", "window"}
               => deployed = arm /\ config = arm /\ proxy = arm
            /\ pc[c] = "window" => pods = {Target}

LEMMA PoolStep ==
  ASSUME PcType, SelfType, ClusterType, WalkInv, OneInv, OwnInv, PoolInv,
         NEW c \in Campaigns, Process(c) \/ Kill(c)
  PROVE  PoolInv'
<1>1. CASE Gate(c) \/ Refused(c)
  <2>1. Target' = Target
    BY <1>1 DEF Gate, Refused, Target, Sequence
  <2> QED
    BY <1>1, <2>1 DEF PoolInv, PcType, Gate, Refused
<1>2. CASE Open(c)
  <2>1. \A d \in Campaigns : pc'[d] \notin Active \ {"check"}
    BY <1>2 DEF OneInv, PcType, Open, OpenExclusive, Active, Running, Rollback, Ended
  <2> QED
    BY <1>2, <2>1 DEF PoolInv, Open, Active, Running
<1>3. CASE Works(c)
  <2>1. \A d \in Campaigns \ {c} : pc'[d] \notin Active
    BY <1>3, OthersRest
  <2> USE <2>1 DEF PoolInv, PcType, Active, Running
  <2>2. CASE Check(c) \/ Rollout(c) \/ PatchMesh(c) \/ ApplyPolicy(c) \/ ReadPolicy(c)
    BY <2>2 DEF Check, Rollout, PatchMesh, ApplyPolicy, ReadPolicy
  <2>3. CASE ApplyFixtures(c)
    BY <2>3 DEF ApplyFixtures, OwnInv
  <2>4. CASE Converge(c)
    BY <2>4 DEF Converge
  <2>5. CASE SameArm(c) \/ OtherArm(c) \/ Drain(c) \/ Act(c) \/ Identify(c)
    <3>1. Target' = Target
      BY <2>5 DEF SameArm, OtherArm, Drain, Act, Identify, Target, Sequence
    <3> QED
      BY <2>5, <3>1 DEF SameArm, OtherArm, Drain, Drained, Act, Identify
  <2>6. CASE RemovePools(c)
    BY <2>6 DEF RemovePools, OwnInv
  <2>7. CASE Admit(c) \/ Restart(c) \/ Admitted(c)
    <3>1. Target' = Target /\ Target \in Arms
      BY <2>7, RunTypes DEF Admit, Restart, Admitted, Target, Sequence, WalkInv
    <3> QED
      BY <2>7, <3>1 DEF Admit, Restart, RestartProxy, Admitted, OwnInv, Arms
  <2>8. CASE Healthy(c) \/ Measure(c) \/ SequenceOver(c) \/ Fail(c)
    BY <2>8 DEF Healthy, Measure, SequenceOver, Fail, MayFail
  <2>9. CASE Restore(c)
    BY <2>9 DEF Restore, FindPolicy, DeletePolicy, PolicyGone, FindMesh, PatchBack, MeshBack, FindNamespace,
       DeleteNamespace, NamespaceGone, Verify, RollbackFails, After, StepOf, Rollback, NoPools, Released, OnlyPc
  <2>10. CASE Finish(c) \/ Kill(c)
    BY <2>10 DEF Finish, Kill
  <2> QED
    BY <1>3, <2>2, <2>3, <2>4, <2>5, <2>6, <2>7, <2>8, <2>9, <2>10 DEF Works, Start, Setup, Run
<1> QED
  BY <1>1, <1>2, <1>3 DEF Process, Enter, Works

LEMMA PoolOutside ==
  ASSUME PcType, ClusterType, PoolInv, Cluster \/ Others
  PROVE  PoolInv'
<1>1. Target' = Target
  BY DEF Cluster, Others, Istio, PodStarts, PodStops, ProxyReplaced, EditMesh, ReplaceMesh, ReplacePolicy,
     ReplaceNamespace, Outside, Target, Sequence
<1> USE DEF PoolInv, Outside, ClusterType
<1>2. CASE Istio \/ EditMesh \/ ReplaceMesh \/ ReplacePolicy
  BY <1>1, <1>2 DEF Istio, EditMesh, ReplaceMesh, ReplacePolicy
<1>3. CASE PodStarts \/ PodStops
  BY <1>1, <1>3 DEF PodStarts, PodStops
<1>4. CASE ProxyReplaced
  BY <1>1, <1>4 DEF ProxyReplaced
<1>5. CASE ReplaceNamespace
  BY <1>1, <1>5 DEF ReplaceNamespace, NoPools
<1> QED
  BY <1>2, <1>3, <1>4, <1>5 DEF Cluster, Others

-----------------------------------------------------------------------------
(* What is on record.                                                      *)

RowInv ==
  \A c \in Campaigns :
    /\ pc[c] \in Running \ {"check"} => Started(c, "setup", "shared")
    /\ pc[c] \in {"remove", "drain", "admit", "restart", "admitted"} => Started(c, "setup", Target)
    /\ pc[c] \in {"identify", "window"} => Started(c, Step, Target) /\ Started(c, "healthy", Target)
    /\ namespace = c \/ policy = c \/ mesh.provider = c => Started(c, "setup", "shared")
    /\ namespace = c /\ (deployed = "isolated" \/ "isolated" \in pods) => Started(c, "setup", "isolated")
    /\ \A r \in FaultRuns : outcome[c][r] # "none" => Started(c, r[1], r[2]) /\ Started(c, "healthy", r[2])

\* A row that has been appended is there, and so are all others.
LEMMA RowsGrow ==
  ASSUME RecordType, NEW c \in Campaigns, NEW step \in Steps, NEW a \in Arms, Consume(c, step, a)
  PROVE  /\ Started(c, step, a)'
         /\ \A d \in Campaigns, s \in Steps, b \in Arms : Started(d, s, b) => Started(d, s, b)'
<1> DEFINE l == rows[LedgerOf[c]]
<1>1. l \in Seq(Steps \X Arms) /\ rows' = [rows EXCEPT ![LedgerOf[c]] = Append(l, <<step, a>>)]
      /\ LedgerOf[c] \in Paths
  BY DEF RecordType, Consume
<1>2. /\ DOMAIN Append(l, <<step, a>>) = 1 .. Len(l) + 1 /\ DOMAIN l = 1 .. Len(l) /\ Len(l) \in Nat
      /\ Append(l, <<step, a>>)[Len(l) + 1] = <<step, a>>
      /\ \A k \in 1 .. Len(l) : Append(l, <<step, a>>)[k] = l[k]
  BY <1>1
<1> HIDE DEF l
<1>3. rows'[LedgerOf[c]] = Append(l, <<step, a>>)
      /\ \A p \in Paths \ {LedgerOf[c]} : rows'[p] = rows[p]
  BY <1>1 DEF RecordType
<1>4. Len(l) + 1 \in DOMAIN rows'[LedgerOf[c]] /\ rows'[LedgerOf[c]][Len(l) + 1] = <<step, a>>
  BY <1>2, <1>3
<1>5. \A k \in DOMAIN rows[LedgerOf[c]] :
        k \in DOMAIN rows'[LedgerOf[c]] /\ rows'[LedgerOf[c]][k] = rows[LedgerOf[c]][k]
  BY <1>2, <1>3 DEF l
<1> QED
  BY <1>3, <1>4, <1>5 DEF Started

LEMMA RowStep ==
  ASSUME PcType, RecordType, SelfType, ClusterType, WalkInv, OneInv, OwnInv, PoolInv, RowInv,
         NEW c \in Campaigns, Process(c) \/ Kill(c)
  PROVE  RowInv'
<1> DEFINE Kept == \A d \in Campaigns, s \in Steps, b \in Arms : Started(d, s, b) => Started(d, s, b)'
<1> USE DEF Steps, Arms
<1>1. CASE Gate(c) \/ Refused(c)
  <2>1. Target' = Target /\ Step' = Step /\ \A d, s, b : Started(d, s, b)' <=> Started(d, s, b)
    BY <1>1 DEF Gate, Refused, Target, Step, Sequence, Started
  <2> QED
    BY <1>1, <2>1 DEF RowInv, PcType, Gate, Refused, Running
<1>2. CASE Open(c)
  <2>1. \A d \in Campaigns : pc'[d] \notin Active \ {"check"}
    BY <1>2 DEF OneInv, PcType, Open, OpenExclusive, Active, Running, Rollback, Ended
  <2>2. \A d, s, b : Started(d, s, b)' <=> Started(d, s, b)
    BY <1>2 DEF Open, Started
  <2> QED
    BY <1>2, <2>1, <2>2 DEF RowInv, Open, Active, Running
<1>3. CASE Works(c)
  <2>1. \A d \in Campaigns \ {c} : pc'[d] \notin Active
    BY <1>3, OthersRest
  <2>2. CASE Check(c)
    <3>1. Started(c, "setup", "shared")' /\ Kept
      BY <2>2, RowsGrow DEF Check
    <3> QED
      BY <2>1, <2>2, <3>1 DEF RowInv, PcType, Check, FaultRuns, Active, Running
  <2>3. CASE OtherArm(c)
    <3>1. Target \in Arms /\ Target' = Target
      BY <2>3, RunTypes DEF OtherArm, Target, Sequence
    <3>2. Started(c, "setup", Target)' /\ Kept
      BY <2>3, <3>1, RowsGrow DEF OtherArm
    <3> QED
      BY <2>1, <2>3, <3>1, <3>2 DEF RowInv, PcType, OtherArm, FaultRuns, Active, Running
  <2>4. CASE Act(c)
    <3>1. Target \in Arms /\ Step \in Steps /\ Target' = Target /\ Step' = Step
      BY <2>4, RunTypes DEF Act, Target, Step, Sequence, WalkInv
    <3>2. Started(c, Step, Target)' /\ Kept
      BY <2>4, <3>1, RowsGrow DEF Act
    <3>3. pc'[c] = "identify" => Started(c, "healthy", Target)
      BY <2>4, <3>1, RunTypes DEF Act, Consume, StepGate, PcType, WalkInv
    <3> QED
      BY <2>1, <2>4, <3>1, <3>2, <3>3 DEF RowInv, PcType, Act, FaultRuns, Active, Running
  <2>5. CASE Works(c) /\ ~Check(c) /\ ~OtherArm(c) /\ ~Act(c)
    <3>1. UNCHANGED rows
      BY <2>5 DEF Works, Start, ApplyFixtures, Rollout, PatchMesh, ApplyPolicy, ReadPolicy, Converge,
         Setup, SameArm, RemovePools, Drain, Admit, Restart, Admitted, Run, Healthy, Identify, Measure,
         SequenceOver, Fail, Restore, FindPolicy, DeletePolicy, PolicyGone, FindMesh, PatchBack, MeshBack,
         FindNamespace, DeleteNamespace, NamespaceGone, Verify, RollbackFails, Released, OnlyPc, Finish, Kill
    <3>2. \A d, s, b : Started(d, s, b)' <=> Started(d, s, b)
      BY <3>1 DEF Started
    <3> USE <2>1, <3>2 DEF RowInv, PcType, Active, Running
    <3>3. CASE ApplyFixtures(c)
      BY <3>3 DEF ApplyFixtures, OwnInv, PoolInv
    <3>4. CASE PatchMesh(c)
      BY <3>4 DEF PatchMesh, ClusterType, MeshStates
    <3>5. CASE Rollout(c) \/ ApplyPolicy(c) \/ ReadPolicy(c) \/ Converge(c)
      BY <3>5 DEF Rollout, ApplyPolicy, ReadPolicy, Converge
    <3>6. CASE SameArm(c) \/ RemovePools(c) \/ Drain(c) \/ Identify(c)
      <4>1. Target' = Target /\ Step' = Step
        BY <3>6 DEF SameArm, RemovePools, Drain, Identify, Target, Step, Sequence
      <4> QED
        BY <3>6, <4>1 DEF SameArm, RemovePools, Drain, Identify
    <3>7. CASE Admit(c) \/ Restart(c) \/ Admitted(c)
      <4>1. Target' = Target /\ Target \in Arms
        BY <3>7, RunTypes DEF Admit, Restart, Admitted, Target, Sequence, WalkInv
      <4> QED
        BY <3>7, <4>1 DEF Admit, Restart, Admitted, OwnInv
    <3>8. CASE Measure(c)
      <4>1. <<Step, Target>> \in FaultRuns
        BY <3>8, RunTypes DEF Measure, WalkInv
      <4>2. \A d \in Campaigns, r \in FaultRuns :
              outcome'[d][r] # outcome[d][r] => d = c /\ r = <<Step, Target>>
        <5>1. PICK o \in Outcomes : outcome' = [outcome EXCEPT ![c][<<Step, Target>>] = o]
          BY <3>8 DEF Measure
        <5> QED
          BY <4>1, <5>1 DEF RecordType
      <4>3. pc[c] = "window" /\ pc'[c] \in {"next", "policy"} /\ UNCHANGED <<namespace, policy, mesh, deployed, pods>>
        BY <3>8 DEF Measure
      <4>4. Started(c, Step, Target) /\ Started(c, "healthy", Target)
        BY <4>3
      <4>5. \A d \in Campaigns, r \in FaultRuns :
              outcome'[d][r] # "none" => Started(d, r[1], r[2]) /\ Started(d, "healthy", r[2])
        BY <4>2, <4>4
      <4> QED
        BY <4>3, <4>5
    <3>9. CASE Healthy(c) \/ SequenceOver(c) \/ Fail(c)
      BY <3>9 DEF Healthy, SequenceOver, Fail, MayFail
    <3>10. CASE Restore(c)
      <4>1. /\ pc'[c] \notin Running /\ outcome' = outcome
            /\ namespace' \in {namespace, NoOne} /\ policy' \in {policy, NoOne}
            /\ mesh'.provider \in {mesh.provider, NoOne}
            /\ namespace' = c => UNCHANGED <<deployed, pods>>
        <5> USE DEF Rollback
        <5>1. CASE PatchBack(c)
          BY <5>1 DEF PatchBack, ClusterType, MeshStates, OwnInv
        <5>2. CASE RollbackFails(c)
          BY <5>2 DEF RollbackFails, After, StepOf
        <5>3. CASE DeleteNamespace(c)
          BY <5>3 DEF DeleteNamespace
        <5> QED
          BY <3>10, <5>1, <5>2, <5>3 DEF Restore, FindPolicy, DeletePolicy, PolicyGone, FindMesh, MeshBack,
             FindNamespace, NamespaceGone, Verify, Released, OnlyPc
      <4>2. \A d \in Campaigns : namespace' = d => UNCHANGED <<deployed, pods>>
        <5>1. namespace' = NoOne \/ UNCHANGED <<deployed, pods>>
          BY <3>10 DEF Restore, FindPolicy, DeletePolicy, PolicyGone, FindMesh, PatchBack, MeshBack, FindNamespace,
             DeleteNamespace, NamespaceGone, Verify, RollbackFails, Released, OnlyPc
        <5> QED
          BY <5>1
      <4> QED
        BY <4>1, <4>2
    <3>11. CASE Finish(c) \/ Kill(c)
      BY <3>11 DEF Finish, Kill
    <3> QED
      BY <2>5, <3>3, <3>4, <3>5, <3>6, <3>7, <3>8, <3>9, <3>10, <3>11 DEF Works, Start, Setup, Run
  <2> QED
    BY <1>3, <2>2, <2>3, <2>4, <2>5
<1> QED
  BY <1>1, <1>2, <1>3 DEF Process, Enter, Works

LEMMA RowOutside ==
  ASSUME PcType, ClusterType, RowInv, Cluster \/ Others
  PROVE  RowInv'
<1>1. Target' = Target /\ Step' = Step /\ UNCHANGED <<pc, outcome>>
      /\ \A d, s, b : Started(d, s, b)' <=> Started(d, s, b)
  BY OutsideType DEF Target, Step, Sequence, Started
<1> USE DEF RowInv, Outside, ClusterType
<1>2. CASE Istio \/ PodStops \/ ProxyReplaced \/ ReplacePolicy
  BY <1>1, <1>2 DEF Istio, PodStops, ProxyReplaced, ReplacePolicy
<1>3. CASE PodStarts
  BY <1>1, <1>3 DEF PodStarts
<1>4. CASE EditMesh \/ ReplaceMesh
  BY <1>1, <1>4 DEF EditMesh, ReplaceMesh, Normal, MeshStates
<1>5. CASE ReplaceNamespace
  BY <1>1, <1>5 DEF ReplaceNamespace, NoPools
<1> QED
  BY <1>2, <1>3, <1>4, <1>5 DEF Cluster, Others

-----------------------------------------------------------------------------
(* What a success stands for.                                              *)

SoundOutcome(o) == \A a \in Arms : o[<<"calibration", a>>] \in {"none", "valid"}

SuccessInv ==
  \A c \in Campaigns :
    /\ pc[c] \in {"gate", "open", "check"} => outcome[c] = NoOutcome
    /\ pc[c] \in Active /\ failure = "none" => SoundOutcome(outcome[c])
    /\ exit[c] = "success" =>
         /\ pc[c] = "exited" /\ verdict[c] = "restored" /\ SoundOutcome(outcome[c])
         /\ \A a \in Arms : outcome[c][<<"measured", a>>] = "valid"

LEMMA NoOutcomeSound == SoundOutcome(NoOutcome)
  BY DEF SoundOutcome, NoOutcome, FaultRuns

LEMMA SuccessStep ==
  ASSUME PcType, RecordType, SelfType, WalkInv, OneInv, SuccessInv, NEW c \in Campaigns, Process(c) \/ Kill(c)
  PROVE  SuccessInv'
<1>1. CASE Enter(c)
  BY <1>1, NoOutcomeSound, Alone DEF SuccessInv, PcType, Enter, Gate, Refused, Open, Active, Running, Rollback
<1>2. CASE Works(c)
  <2>1. \A d \in Campaigns \ {c} : pc'[d] = pc[d] /\ pc[d] \notin Active
    BY <1>2, OthersRest
  <2>2. pc[c] \in Active /\ exit[c] # "success"
    BY <1>2, WorksActive DEF SuccessInv, Active, Running, Rollback
  <2> USE <2>1, <2>2 DEF SuccessInv, PcType, Active, Running, Rollback
  <2>3. CASE Start(c) \/ Setup(c)
    BY <2>3, NoOutcomeSound DEF Start, Check, ApplyFixtures, Rollout, PatchMesh, ApplyPolicy, ReadPolicy, Converge,
       Setup, SameArm, OtherArm, RemovePools, Drain, Admit, Restart, Admitted
  <2>4. CASE Measure(c)
    <3>1. PICK o \in Outcomes :
            /\ outcome' = [outcome EXCEPT ![c][<<Step, Target>>] = o]
            /\ IF MayGoOn(o) THEN pc'[c] = "next" /\ UNCHANGED failure
               ELSE pc'[c] = "policy" /\ failure' = "some"
      <4> HIDE DEF SuccessInv, PcType, Active, Running, Rollback
      <4>1. /\ pc \in [Campaigns -> {"gate", "open"} \cup Active \cup Ended]
            /\ pc[c] = "window"
        BY <2>4 DEF PcType, Measure
      <4>2. PICK o \in Outcomes :
              /\ outcome' = [outcome EXCEPT ![c][<<Step, Target>>] = o]
              /\ IF MayGoOn(o) THEN At(c, "window", "next") /\ UNCHANGED failure
                 ELSE At(c, "window", "policy") /\ failure' = "some"
        <5> HIDE DEF At
        <5> QED
          BY <2>4 DEF Measure
      <4>3. /\ At(c, "window", "next") => pc'[c] = "next"
            /\ At(c, "window", "policy") => pc'[c] = "policy"
        BY <4>1
      <4> HIDE DEF At
      <4> QED
        BY <4>2, <4>3
    <3>2. <<Step, Target>> \in FaultRuns
      BY <2>4, RunTypes DEF Measure, WalkInv
    <3>3. \A d \in Campaigns \ {c} : outcome'[d] = outcome[d]
      BY <3>1 DEF RecordType
    <3>4. \A a \in Arms : outcome'[c][<<"calibration", a>>] =
                           IF Step = "calibration" /\ Target = a THEN o ELSE outcome[c][<<"calibration", a>>]
      BY <3>1, <3>2 DEF RecordType, FaultRuns
    <3>5. SoundOutcome(outcome[c]) /\ MayGoOn(o) => SoundOutcome(outcome'[c])
      <4> HIDE <2>1, <2>2 DEF SuccessInv, PcType, Active, Running, Rollback
      <4>1. Step = "calibration" /\ MayGoOn(o) => o = "valid"
        BY DEF MayGoOn
      <4> HIDE DEF Step, Target
      <4> QED
        BY <3>4, <4>1 DEF SoundOutcome
    <3>6. UNCHANGED <<verdict, exit>>
      BY <2>4 DEF Measure
    <3> QED
      BY <3>1, <3>3, <3>5, <3>6
  <2>5. CASE (Run(c) /\ ~Measure(c)) \/ Fail(c)
    BY <2>5 DEF Run, Act, Healthy, Identify, SequenceOver, Fail, MayFail
  <2>6. CASE Restore(c)
    <3>1. /\ UNCHANGED <<outcome, exit, failure>> /\ \A d \in Campaigns \ {c} : verdict'[d] = verdict[d]
      BY <2>6 DEF Restore, FindPolicy, DeletePolicy, PolicyGone, FindMesh, PatchBack, MeshBack, FindNamespace,
         DeleteNamespace, NamespaceGone, Verify, RollbackFails, Released, OnlyPc, Conclude, RecordType
    <3>2. pc'[c] # "check" /\ pc'[c] \notin {"gate", "open"}
      BY <2>6 DEF Restore, FindPolicy, DeletePolicy, PolicyGone, FindMesh, PatchBack, MeshBack, FindNamespace,
         DeleteNamespace, NamespaceGone, Verify, RollbackFails, After, StepOf, Rollback
    <3> QED
      BY <3>1, <3>2
  <2>7. CASE Finish(c)
    <3>1. /\ UNCHANGED <<outcome, verdict>> /\ pc'[c] = "exited"
          /\ \A d \in Campaigns \ {c} : exit'[d] = exit[d]
      BY <2>7 DEF Finish, RecordType
    <3>2. exit'[c] = "success" =>
            /\ failure = "none" /\ verdict[c] = "restored"
            /\ \A a \in Arms : outcome[c][<<"measured", a>>] = "valid"
      BY <2>7 DEF Finish, Complete, RecordType
    <3> QED
      BY <3>1, <3>2
  <2>8. CASE Kill(c)
    <3>1. UNCHANGED <<outcome, verdict, exit>> /\ pc'[c] = "killed"
      BY <2>8 DEF Kill
    <3> QED
      BY <3>1
  <2> QED
    BY <1>2, <2>3, <2>4, <2>5, <2>6, <2>7, <2>8 DEF Works
<1> QED
  BY <1>1, <1>2 DEF Process, Works

-----------------------------------------------------------------------------
(* The inductive invariant.                                                *)

IInv ==
  /\ PcType /\ RecordType /\ SelfType /\ ClusterType
  /\ WalkInv /\ OneInv /\ IdleInv /\ OwnInv /\ CleanInv /\ PoolInv /\ RowInv /\ SuccessInv

LEMMA InitInv == Init => IInv
<1> SUFFICES ASSUME Init PROVE IInv
  OBVIOUS
<1> USE DEF Init, Active, Running, Rollback, Ended
<1>1. PcType /\ RecordType /\ SelfType /\ ClusterType /\ WalkInv
  BY InitType, TypeParts
<1>2. /\ \A c \in Campaigns : pc[c] = "gate" /\ verdict[c] = "none"
      /\ position = 1 /\ arm = "none" /\ owned = {} /\ policyUid = NoOne /\ kept = Normal
      /\ failure = "none" /\ problems = {} /\ namespace = NoOne /\ policy = NoOne /\ mesh = Normal
      /\ ingress = NoOne
  BY DEF Init
<1> HIDE DEF Init
<1>3. OneInv /\ IdleInv /\ OwnInv /\ CleanInv
  BY <1>2 DEF OneInv, IdleInv, OwnInv, CleanInv, AfterPolicy, AfterMesh, Touched, Normal
<1> USE DEF Init
<1>4. PoolInv
  BY DEF PoolInv
<1>5. RowInv /\ SuccessInv
  BY DEF RowInv, SuccessInv, NoOutcome, Normal
<1> QED
  BY <1>1, <1>2, <1>3, <1>4, <1>5 DEF IInv

LEMMA NextInv == IInv /\ [Next]_vars => IInv'
<1> SUFFICES ASSUME IInv, [Next]_vars PROVE IInv'
  OBVIOUS
<1>1. ASSUME NEW c \in Campaigns, Process(c) \/ Kill(c) PROVE IInv'
  BY <1>1, PcStep, RecordStep, SelfStep, ClusterStep, WalkStep, OneStep, IdleStep, OwnStep, CleanStep, PoolStep,
     RowStep, SuccessStep DEF IInv
<1>2. CASE Cluster \/ Others
  <2>1. ClusterType' /\ UNCHANGED <<pc, recordVars, selfVars>>
    BY <1>2, OutsideType DEF IInv
  <2>2. OwnInv' /\ CleanInv' /\ PoolInv' /\ RowInv'
    BY <1>2, OwnOutside, CleanOutside, PoolOutside, RowOutside DEF IInv
  <2>3. PcType' /\ RecordType' /\ SelfType' /\ OneInv' /\ IdleInv'
    BY <2>1 DEF IInv, PcType, RecordType, SelfType, OneInv, IdleInv
  <2>4. WalkInv' /\ SuccessInv'
    BY <2>1 DEF IInv, WalkInv, SuccessInv, More, Step, Sequence
  <2> QED
    BY <2>1, <2>2, <2>3, <2>4 DEF IInv
<1>3. CASE UNCHANGED vars
  <2>0. UNCHANGED <<pc, ledger, rows, outcome, verdict, exit, calibrate, position, arm, owned, policyUid, kept,
                    failure, problems, namespace, policy, mesh, ingress, deployed, pods, config, proxy>>
    BY <1>3 DEF vars
  <2> USE <2>0 DEF IInv
  <2>1. PcType' /\ RecordType' /\ SelfType' /\ ClusterType' /\ OneInv' /\ IdleInv'
    BY DEF PcType, RecordType, SelfType, ClusterType, OneInv, IdleInv
  <2>2. WalkInv' /\ SuccessInv'
    BY DEF WalkInv, SuccessInv, More, Step, Sequence
  <2>3. OwnInv' /\ CleanInv'
    BY DEF OwnInv, CleanInv, Touched
  <2>4. PoolInv' /\ RowInv'
    <3>1. Target' = Target /\ Step' = Step /\ \A d, t, b : Started(d, t, b)' <=> Started(d, t, b)
      BY DEF Target, Step, Sequence, Started
    <3> QED
      BY <3>1 DEF PoolInv, RowInv
  <2> QED
    BY <2>1, <2>2, <2>3, <2>4
<1> QED
  BY <1>1, <1>2, <1>3 DEF Next, AllEnded

-----------------------------------------------------------------------------
(* The theorems.                                                           *)

\* The invariant that carries everything below.
THEOREM Invariance == Spec => []IInv
  BY InitInv, NextInv, PTL DEF Spec

\* Whatever a campaign has changed has its row in the ledger and, while it runs,
\* is registered for its rollback (step_gate, Campaign).
THEOREM ChangesAreRecorded == Spec => []RecordedBeforeActing
<1>1. IInv => TypeInv
  BY TypeParts DEF IInv
<1>2. IInv => ConsumedBeforeActing
  BY DEF IInv, RowInv, ConsumedBeforeActing
<1>3. IInv => OwnershipCoversObjects
  BY DEF IInv, OwnInv, OwnershipCoversObjects
<1> QED
  BY <1>1, <1>2, <1>3, Invariance, PTL DEF RecordedBeforeActing

\* A campaign reported as restored has left nothing (restoration_verdict).
THEOREM RestoredLeavesNothing == Spec => []RestoredIsClean
<1>1. IInv => RestoredIsClean
  BY DEF IInv, CleanInv, Touched, RestoredIsClean
<1> QED
  BY <1>1, Invariance, PTL

\* The pods of two arms are never side by side, and a run is measured on its
\* own (setup, measure).
THEOREM ArmsNeverMix == Spec => []ArmsApart
<1>1. IInv => PoolsNeverOverlap
  <2> SUFFICES ASSUME IInv PROVE Cardinality(pods) <= 1
    BY DEF PoolsNeverOverlap
  <2>1. CASE pods = {}
    BY <2>1, FS_EmptySet
  <2>2. ASSUME NEW a \in pods PROVE Cardinality(pods) <= 1
    <3>1. pods = {a}
      BY DEF IInv, PoolInv
    <3>2. Cardinality({a}) = 1
      BY FS_Singleton
    <3> QED
      BY <3>1, <3>2
  <2> QED
    BY <2>1, <2>2
<1>2. IInv => MeasuredOnArm
  BY DEF IInv, PoolInv, MeasuredOnArm
<1> QED
  BY <1>1, <1>2, Invariance, PTL DEF ArmsApart

\* A success has been earned (run_campaign).
THEOREM SuccessesAreEarned == Spec => []SuccessIsEarned
<1>1. IInv => SuccessIsEarned
  <2> SUFFICES ASSUME IInv, NEW c \in Campaigns, exit[c] = "success", NEW a \in Arms
               PROVE  /\ verdict[c] = "restored" /\ outcome[c][<<"measured", a>>] = "valid"
                      /\ Started(c, "healthy", a) /\ outcome[c][<<"calibration", a>>] \in {"none", "valid"}
    BY DEF SuccessIsEarned, Arms
  <2>1. verdict[c] = "restored" /\ outcome[c][<<"measured", a>>] = "valid" /\ SoundOutcome(outcome[c])
    BY DEF IInv, SuccessInv
  <2>2. <<"measured", a>> \in FaultRuns
    BY DEF FaultRuns
  <2>3. Started(c, "healthy", a)
    BY <2>1, <2>2 DEF IInv, RowInv
  <2> QED
    BY <2>1, <2>3 DEF SoundOutcome
<1> QED
  BY <1>1, Invariance, PTL

\* One approval is one campaign, and none builds on what another one has left
\* (approval_gate, Ledger, start).
THEOREM CampaignsStayApart == Spec => []CampaignsApart
<1>1. IInv => OneCampaign
  <2> SUFFICES ASSUME IInv, NEW p \in Paths
               PROVE  Cardinality({c \in Campaigns :
                        LedgerOf[c] = p /\ pc[c] \in Active \cup {"exited", "killed"}}) <= 1
    BY DEF OneCampaign
  <2>1. {c \in Campaigns : LedgerOf[c] = p /\ pc[c] \in Active \cup {"exited", "killed"}} \subseteq {ledger[p]}
    BY DEF IInv, OneInv
  <2> QED
    <3>1. IsFiniteSet({ledger[p]}) /\ Cardinality({ledger[p]}) = 1
      BY FS_Singleton
    <3> QED
      BY <2>1, <3>1, FS_Subset
<1>2. IInv => LeftoversRefused
  <2> SUFFICES ASSUME IInv, NEW c \in Campaigns, pc[c] \in {"applyFixtures", "rollout", "patchMesh"}
               PROVE  /\ namespace \in {NoOne, c, Other} /\ policy = NoOne
                      /\ mesh.provider = NoOne /\ ingress = NoOne
    BY DEF LeftoversRefused
  <2> QED
    BY DEF IInv, OwnInv, Active, Running
<1> QED
  BY <1>1, <1>2, Invariance, PTL DEF CampaignsApart

\* A campaign removes nothing of another one (restore).
THEOREM NothingOfOthersGoes == Spec => OthersLeftAlone
<1> DEFINE Spared ==
             \A c, d \in Campaigns :
               c # d /\ pc'[c] # pc[c] =>
                 /\ policy = d => policy' = d
                 /\ namespace = d => namespace' = d
                 /\ mesh.provider = d => mesh'.provider = d
<1>1. IInv /\ [Next]_vars => [Spared]_vars
  <2> SUFFICES ASSUME IInv, Next, NEW c \in Campaigns, NEW d \in Campaigns, c # d, pc'[c] # pc[c]
               PROVE  /\ policy = d => policy' = d
                      /\ namespace = d => namespace' = d
                      /\ mesh.provider = d => mesh'.provider = d
    OBVIOUS
  <2>1. Process(c) \/ Kill(c)
    <3>1. ASSUME NEW e \in Campaigns, Process(e) \/ Kill(e) PROVE e = c
      BY <3>1, PcStep DEF IInv
    <3>2. ~(Cluster \/ Others \/ AllEnded)
      BY OutsideType DEF IInv, AllEnded, vars
    <3> QED
      BY <3>1, <3>2 DEF Next
  <2>2. CASE Enter(c)
    BY <2>2 DEF Enter, Gate, Refused, Open
  <2>3. CASE Works(c)
    <3>1. pc[c] \in Active
      BY <2>3, WorksActive DEF IInv
    <3> USE <3>1 DEF IInv, OwnInv, Active, Running, Rollback
    <3>2. CASE Start(c)
      BY <3>2 DEF Start, Check, ApplyFixtures, Rollout, PatchMesh, ApplyPolicy, ReadPolicy, Converge
    <3>3. CASE Setup(c) \/ Run(c) \/ Fail(c) \/ Finish(c) \/ Kill(c)
      BY <3>3 DEF Setup, SameArm, OtherArm, RemovePools, Drain, Admit, Restart, Admitted, Run, Act, Healthy,
         Identify, Measure, SequenceOver, Fail, Finish, Kill
    <3>4. CASE Restore(c)
      BY <3>4 DEF Restore, FindPolicy, DeletePolicy, PolicyGone, FindMesh, PatchBack, MeshBack, FindNamespace,
         DeleteNamespace, NamespaceGone, Verify, RollbackFails, Released, OnlyPc
    <3> QED
      BY <2>3, <3>2, <3>3, <3>4 DEF Works
  <2> QED
    BY <2>1, <2>2, <2>3 DEF Process, Works
<1> QED
  BY <1>1, Invariance, PTL DEF Spec, OthersLeftAlone

\* A campaign takes the provider and the namespace away from under its policy
\* only when it reports that the policy could not be removed (restore).
THEOREM DanglingIsReported == Spec => DanglingPolicyIsReported
<1> DEFINE Reported ==
             \A c \in Campaigns :
               /\ pc'[c] # pc[c] /\ policy' = c
               /\ (mesh.provider = c /\ mesh'.provider # c) \/ (namespace = c /\ namespace' # c)
               => "policy" \in problems'
<1>1. IInv /\ [Next]_vars => [Reported]_vars
  <2> SUFFICES ASSUME IInv, Next, NEW c \in Campaigns, pc'[c] # pc[c], policy' = c,
                      (mesh.provider = c /\ mesh'.provider # c) \/ (namespace = c /\ namespace' # c)
               PROVE  "policy" \in problems'
    OBVIOUS
  <2>1. Process(c) \/ Kill(c)
    <3>1. ASSUME NEW e \in Campaigns, Process(e) \/ Kill(e) PROVE e = c
      BY <3>1, PcStep DEF IInv
    <3>2. ~(Cluster \/ Others \/ AllEnded)
      BY OutsideType DEF IInv, AllEnded, vars
    <3> QED
      BY <3>1, <3>2 DEF Next
  <2>2. PatchBack(c) \/ DeleteNamespace(c)
    <3>1. ~Enter(c) /\ ~Setup(c) /\ ~Run(c) /\ ~Fail(c) /\ ~Finish(c) /\ ~Kill(c)
      BY DEF Enter, Gate, Refused, Open, Setup, SameArm, OtherArm, RemovePools, Drain, Admit, Restart, Admitted,
         Run, Act, Healthy, Identify, Measure, SequenceOver, Fail, Finish, Kill
    <3>2. ~Start(c)
      BY DEF Start, Check, ApplyFixtures, Rollout, PatchMesh, ApplyPolicy, ReadPolicy, Converge, IInv, ClusterType,
         MeshStates
    <3> QED
      BY <2>1, <3>1, <3>2 DEF Process, Restore, FindPolicy, DeletePolicy, PolicyGone, FindMesh, MeshBack,
         FindNamespace, NamespaceGone, Verify, RollbackFails, Released, OnlyPc
  <2>3. pc[c] \in AfterPolicy /\ policy' = policy /\ problems' = problems
    BY <2>2 DEF PatchBack, DeleteNamespace, AfterPolicy
  <2> QED
    BY <2>3 DEF IInv, CleanInv
<1> QED
  BY <1>1, Invariance, PTL DEF Spec, DanglingPolicyIsReported

-----------------------------------------------------------------------------
(* A campaign keeps to its own.                                            *)

\* What comes into the cluster in a step, under the name of c, is in S.
Adds(c, S) ==
  /\ namespace' = c => namespace = c \/ "namespace" \in S
  /\ policy' = c => policy = c \/ "policy" \in S
  /\ mesh'.provider = c => mesh.provider = c \/ "mesh" \in S

LEMMA AddedObjects ==
  ASSUME NEW c \in Campaigns, NEW S, Adds(c, S)
  PROVE  Objects(c)' \subseteq Objects(c) \cup S
  BY DEF Adds, Objects

\* A command of a campaign adds what the campaign has registered, and nothing
\* under the name of another one.
LEMMA WorksAdd ==
  ASSUME IInv, NEW d \in Campaigns, Works(d), NEW c \in Campaigns
  PROVE  Adds(c, IF c = d THEN owned ELSE {})
<1>1. pc[d] \in Active
  BY WorksActive DEF IInv
<1>2. /\ pc[d] = "applyFixtures" => "namespace" \in owned
      /\ pc[d] = "patchMesh" => "mesh" \in owned
      /\ pc[d] = "applyPolicy" => "policy" \in owned
      /\ kept.provider = NoOne
  BY DEF IInv, OwnInv, Running
<1> USE DEF Adds
<1>3. CASE ApplyFixtures(d) \/ ApplyPolicy(d)
  BY <1>2, <1>3 DEF ApplyFixtures, ApplyPolicy
<1>4. CASE PatchMesh(d)
  <2>1. mesh'.provider = d /\ namespace' = namespace /\ policy' = policy
    BY <1>4 DEF PatchMesh, IInv, ClusterType, MeshStates
  <2> QED
    BY <1>2, <1>4, <2>1 DEF PatchMesh
<1>5. CASE PatchBack(d)
  <2>1. mesh'.provider = NoOne /\ namespace' = namespace /\ policy' = policy
    BY <1>2, <1>5 DEF PatchBack, IInv, ClusterType, MeshStates
  <2> QED
    BY <2>1
<1>6. CASE DeletePolicy(d) \/ DeleteNamespace(d)
  BY <1>6 DEF DeletePolicy, DeleteNamespace
<1>7. CASE Check(d) \/ Rollout(d) \/ ReadPolicy(d) \/ Converge(d) \/ Setup(d) \/ Run(d) \/ Fail(d) \/ Finish(d)
           \/ Kill(d)
  BY <1>7 DEF Check, Rollout, ReadPolicy, Converge, Setup, SameArm, OtherArm, RemovePools, Drain, Admit, Restart,
     Admitted, Run, Act, Healthy, Identify, Measure, SequenceOver, Fail, Finish, Kill
<1>8. CASE FindPolicy(d) \/ PolicyGone(d) \/ FindMesh(d) \/ MeshBack(d) \/ FindNamespace(d) \/ NamespaceGone(d)
           \/ Verify(d) \/ RollbackFails(d)
  BY <1>8 DEF FindPolicy, PolicyGone, FindMesh, MeshBack, FindNamespace, NamespaceGone, Verify, RollbackFails,
     Released, OnlyPc
<1> QED
  BY <1>3, <1>4, <1>5, <1>6, <1>7, <1>8 DEF Works, Start, Restore

\* Nobody else adds anything under the name of a campaign.
LEMMA OthersAdd ==
  ASSUME ClusterType, NEW c \in Campaigns, Cluster \/ Others \/ AllEnded
  PROVE  Adds(c, {})
<1> USE DEF Adds
<1>1. CASE Cluster \/ AllEnded
  BY <1>1 DEF Cluster, Istio, PodStarts, PodStops, ProxyReplaced, AllEnded, vars
<1>2. CASE EditMesh \/ ReplaceMesh
  BY <1>2 DEF EditMesh, ReplaceMesh, Normal, ClusterType, MeshStates
<1>3. CASE ReplacePolicy \/ ReplaceNamespace
  BY <1>3 DEF ReplacePolicy, ReplaceNamespace
<1> QED
  BY <1>1, <1>2, <1>3 DEF Others

\* What is there of a working campaign is registered.
LEMMA ObjectsAreOwned == ASSUME IInv, NEW c \in Campaigns, AtWork(c) PROVE Objects(c) \subseteq owned
  BY DEF IInv, OwnInv, Objects, AtWork

\* A command of c is work on its own, and the last one leaves what is there.
LEMMA OwnWork ==
  ASSUME IInv, IInv', NEW c \in Campaigns, Works(c)
  PROVE  Own(c)!Next
<1>1. AtWork(c) /\ OwnedBy(c) = owned
  BY WorksActive DEF IInv, AtWork, OwnedBy
<1>2. CASE AtWork(c)'
  <2>1. Objects(c)' \subseteq Objects(c) \cup owned
    BY WorksAdd, AddedObjects
  <2>2. Objects(c)' \subseteq owned'
    BY <1>2 DEF IInv, OwnInv, Objects, AtWork
  <2>3. OwnedBy(c)' = owned'
    BY <1>2 DEF OwnedBy
  <2> QED
    BY <1>1, <1>2, <2>1, <2>2, <2>3 DEF Own!Next, Own!Work
<1>3. CASE ~AtWork(c)'
  <2>1. Finish(c) \/ Kill(c)
    <3> USE DEF AtWork, IInv, PcType, Active, Running, Rollback
    <3>1. ~Start(c)
      BY <1>3 DEF Start, Check, ApplyFixtures, Rollout, PatchMesh, ApplyPolicy, ReadPolicy, Converge
    <3>2. ~Setup(c) /\ ~Run(c) /\ ~Fail(c)
      BY <1>3 DEF Setup, SameArm, OtherArm, RemovePools, Drain, Admit, Restart, Admitted, Run, Act, Healthy,
         Identify, Measure, SequenceOver, Fail
    <3>3. ~Restore(c)
      BY <1>3 DEF Restore, FindPolicy, DeletePolicy, PolicyGone, FindMesh, PatchBack, MeshBack, FindNamespace,
         DeleteNamespace, NamespaceGone, Verify, RollbackFails, After, StepOf
    <3> QED
      BY <3>1, <3>2, <3>3 DEF Works
  <2>2. Objects(c)' = Objects(c)
    BY <2>1 DEF Finish, Kill, Objects
  <2>3. OwnedBy(c)' = {}
    BY <1>3 DEF OwnedBy
  <2> QED
    BY <1>1, <1>3, <2>2, <2>3 DEF Own!Next, Own!End
<1> QED
  BY <1>2, <1>3

\* Nobody is active when a ledger is created.
LEMMA OpenAlone ==
  ASSUME IInv, NEW c \in Campaigns, Open(c)
  PROVE  \A d \in Campaigns : pc[d] \notin Active
  BY DEF IInv, OneInv, Open, OpenExclusive, Active, Running, Rollback, Ended

\* Before its work a campaign has nothing in the cluster, and begins with nothing.
LEMMA OwnEntry ==
  ASSUME IInv, NEW c \in Campaigns, Enter(c)
  PROVE  [Own(c)!Next]_<<AtWork(c), OwnedBy(c), Objects(c)>>
<1>1. ~AtWork(c) /\ OwnedBy(c) = {} /\ Objects(c) = {} /\ Objects(c)' = Objects(c)
  BY DEF Enter, Gate, Refused, Open, IInv, OwnInv, Touched, AtWork, OwnedBy, Objects, Active, Running, Rollback
<1>2. CASE Gate(c) \/ Refused(c)
  <2>1. AtWork(c)' = FALSE /\ OwnedBy(c)' = {}
    BY <1>2 DEF Gate, Refused, IInv, PcType, AtWork, OwnedBy, Active, Running, Rollback
  <2>2. AtWork(c) = FALSE
    BY <1>1 DEF AtWork
  <2>3. UNCHANGED <<AtWork(c), OwnedBy(c), Objects(c)>>
    BY <1>1, <2>1, <2>2
  <2> QED
    BY <2>3
<1>3. CASE Open(c)
  <2>1. AtWork(c)' /\ owned' = owned
    BY <1>3 DEF Open, IInv, PcType, AtWork, Active, Running
  <2>2. owned = {}
    BY <1>3, OpenAlone DEF IInv, IdleInv
  <2>3. OwnedBy(c)' = {}
    BY <2>1, <2>2 DEF OwnedBy
  <2> QED
    BY <1>1, <2>1, <2>3 DEF Own!Next, Own!Begin
<1> QED
  BY <1>2, <1>3 DEF Enter

\* Steps of others, whoever they are, at most take away what a campaign has made.
LEMMA OwnRest ==
  ASSUME NEW c \in Campaigns, Adds(c, {}), AtWork(c)' = AtWork(c), OwnedBy(c)' = OwnedBy(c)
  PROVE  Own(c)!Next
  BY AddedObjects DEF Own!Next, Own!Vanish

LEMMA OwnNext ==
  ASSUME IInv, IInv', NEW c \in Campaigns, Next
  PROVE  [Own(c)!Next]_<<AtWork(c), OwnedBy(c), Objects(c)>>
<1>1. ASSUME NEW d \in Campaigns, Process(d) \/ Kill(d)
      PROVE  [Own(c)!Next]_<<AtWork(c), OwnedBy(c), Objects(c)>>
  <2>1. CASE d = c
    BY <1>1, <2>1, OwnWork, OwnEntry DEF Process, Works
  <2>2. CASE d # c /\ Works(d)
    <3>1. pc'[c] = pc[c] /\ pc[c] \notin Active
      BY <2>2, OthersRest DEF IInv
    <3>2. AtWork(c)' = AtWork(c) /\ OwnedBy(c)' = OwnedBy(c)
      BY <3>1 DEF AtWork, OwnedBy
    <3>3. Adds(c, {})
      BY <2>2, WorksAdd
    <3> QED
      BY <3>2, <3>3, OwnRest
  <2>3. CASE d # c /\ Enter(d)
    <3>1. pc'[c] = pc[c] /\ owned' = owned /\ Objects(c)' = Objects(c)
      BY <2>3 DEF Enter, Gate, Refused, Open, Objects, IInv, PcType
    <3>2. AtWork(c)' = AtWork(c) /\ OwnedBy(c)' = OwnedBy(c)
      BY <3>1 DEF AtWork, OwnedBy
    <3> QED
      BY <3>1, <3>2
  <2> QED
    BY <1>1, <2>1, <2>2, <2>3 DEF Process, Works
<1>2. CASE Cluster \/ Others \/ AllEnded
  <2>1. pc' = pc /\ owned' = owned
    BY <1>2, OutsideType DEF IInv, AllEnded, vars
  <2>2. AtWork(c)' = AtWork(c) /\ OwnedBy(c)' = OwnedBy(c)
    BY <2>1 DEF AtWork, OwnedBy
  <2> QED
    BY <1>2, <2>2, OthersAdd, OwnRest DEF IInv
<1> QED
  BY <1>1, <1>2 DEF Next

\* Each campaign refines OwnedObjects: it begins without anything of its own in
\* the cluster, makes only what it has registered before, and what its rollback
\* or a kill leaves behind never grows again (Campaign 693, start 736-741).
THEOREM CampaignsKeepToTheirOwn == Spec => KeepsToItsOwn
<1> DEFINE Kept == \A c \in Campaigns : [Own(c)!Next]_<<AtWork(c), OwnedBy(c), Objects(c)>>
<1>1. ASSUME Init, NEW c \in Campaigns PROVE Own(c)!Init
  <2>1. pc[c] = "gate" /\ namespace = NoOne /\ policy = NoOne /\ mesh.provider = NoOne /\ NoOne # c
    BY <1>1 DEF Init, Normal
  <2>2. AtWork(c) = FALSE /\ OwnedBy(c) = {}
    BY <2>1 DEF AtWork, OwnedBy, Active, Running, Rollback
  <2>3. Objects(c) = {}
    BY <2>1 DEF Objects
  <2> QED
    BY <2>2, <2>3 DEF Own!Init
<1>2. IInv /\ IInv' /\ [Next]_vars => [Kept]_vars
  BY OwnNext
<1>3. Init => \A c \in Campaigns : Own(c)!Init
  BY <1>1
<1> QED
  BY <1>2, <1>3, Invariance, PTL DEF Spec, KeepsToItsOwn
-----------------------------------------------------------------------------
(* A campaign comes to an end.                                             *)

\* What is counted is a number, and comes in three parts.
LEMMA LeftTypes ==
  ASSUME NEW label, NEW k \in 1 .. 7
  PROVE  /\ RunLeft(label) \in {0} \cup 12 .. 20 /\ RollbackLeft(label) \in 0 .. 11
         /\ StartLeft(label) \in {0} \cup 75 .. 83 /\ Left(label, k) \in Nat
<1>1. RunLeft(label) \in {0} \cup 12 .. 20
  BY DEF RunLeft
<1>2. RollbackLeft(label) \in 0 .. 11
  BY DEF RollbackLeft
<1>3. StartLeft(label) \in {0} \cup 75 .. 83
  BY DEF StartLeft
<1> QED
  BY <1>1, <1>2, <1>3 DEF Left

\* Whatever raises in a run leaves more than the rollback to do.
LEMMA LeftInRun ==
  ASSUME NEW k \in 1 .. 7, NEW l \in Running
  PROVE  Left(l, k) > 11
  BY DEF Left, RunLeft, RollbackLeft, StartLeft, Running

\* The commands of start().
LEMMA StartFalls ==
  ASSUME NEW k \in 1 .. 7
  PROVE  /\ Left("gate", k) = 83 /\ Left("open", k) = 82 /\ Left("check", k) = 81
         /\ Left("applyFixtures", k) = 80 /\ Left("rollout", k) = 79 /\ Left("patchMesh", k) = 78
         /\ Left("applyPolicy", k) = 77 /\ Left("readPolicy", k) = 76 /\ Left("converge", k) = 75
         /\ \A l \in Ended : Left(l, k) = 0
  BY DEF Left, RunLeft, RollbackLeft, StartLeft, Ended

\* The commands of the rollback.
LEMMA RollbackFalls ==
  ASSUME NEW k \in 1 .. 7
  PROVE  /\ Left("policy", k) = 11 /\ Left("deletePolicy", k) = 10 /\ Left("policyGone", k) = 9
         /\ Left("mesh", k) = 8 /\ Left("patchBack", k) = 7 /\ Left("meshBack", k) = 6
         /\ Left("namespace", k) = 5 /\ Left("deleteNamespace", k) = 4 /\ Left("namespaceGone", k) = 3
         /\ Left("verify", k) = 2 /\ Left("finish", k) = 1
  BY DEF Left, RunLeft, RollbackLeft, StartLeft

\* The commands of a run of the sequence.
LEMMA RunFalls ==
  ASSUME NEW k \in 1 .. 7
  PROVE  /\ Left("next", k) = 20 + 9 * (7 - k) /\ Left("remove", k) = 19 + 9 * (7 - k)
         /\ Left("drain", k) = 18 + 9 * (7 - k) /\ Left("admit", k) = 17 + 9 * (7 - k)
         /\ Left("restart", k) = 16 + 9 * (7 - k) /\ Left("admitted", k) = 15 + 9 * (7 - k)
         /\ Left("act", k) = 14 + 9 * (7 - k) /\ Left("identify", k) = 13 + 9 * (7 - k)
         /\ Left("probe", k) = 12 + 9 * (7 - k) /\ Left("window", k) = 12 + 9 * (7 - k)
  BY DEF Left, RunLeft

\* Every command of a campaign, and the one that raises, is one less to come.
LEMMA CommandFalls ==
  ASSUME PcType, SelfType, SelfType', IdleInv, OneInv, NEW c \in Campaigns, Process(c) \/ Kill(c)
  PROVE  Left(pc'[c], position') < Left(pc[c], position)
<1> DEFINE k == position  m == position'
<1>0. k \in 1 .. 7 /\ m \in 1 .. 7
  BY DEF SelfType
<1>1. CASE Enter(c)
  <2>1. (pc[c] = "gate" /\ pc'[c] \in {"open", "refused"}) \/ (pc[c] = "open" /\ pc'[c] \in {"check", "refused"})
    BY <1>1 DEF PcType, Enter, Gate, Refused, Open
  <2> QED
    BY <1>0, <2>1, StartFalls DEF Ended
<1>2. CASE Start(c)
  <2>1. \/ pc[c] = "check" /\ pc'[c] = "applyFixtures"
        \/ pc[c] = "applyFixtures" /\ pc'[c] = "rollout"
        \/ pc[c] = "rollout" /\ pc'[c] = "patchMesh"
        \/ pc[c] = "patchMesh" /\ pc'[c] = "applyPolicy"
        \/ pc[c] = "applyPolicy" /\ pc'[c] = "readPolicy"
        \/ pc[c] = "readPolicy" /\ pc'[c] = "converge"
        \/ pc[c] = "converge" /\ pc'[c] = "next"
    BY <1>2 DEF PcType, Start, Check, ApplyFixtures, Rollout, PatchMesh, ApplyPolicy, ReadPolicy, Converge
  <2> DEFINE b == pc[c]  a == pc'[c]
  <2> HIDE DEF k, m, a, b
  <2>2. Left("next", m) <= 74
    BY <1>0, RunFalls
  <2>3. Left(b, k) \in 75 .. 81 /\ (a # "next" => Left(a, m) = Left(b, k) - 1)
    BY <1>0, <2>1, StartFalls DEF a, b
  <2>4. Left(a, m) < Left(b, k)
    <3>1. Left(a, m) \in Int
      BY <1>0, LeftTypes
    <3> QED
      BY <2>2, <2>3, <3>1
  <2> QED
    BY <2>4 DEF k, m, a, b
<1>3. CASE Setup(c)
  <2>1. \/ pc[c] = "next" /\ pc'[c] \in {"act", "remove"}
        \/ pc[c] = "remove" /\ pc'[c] = "drain"
        \/ pc[c] = "drain" /\ pc'[c] = "admit"
        \/ pc[c] = "admit" /\ pc'[c] = "restart"
        \/ pc[c] = "restart" /\ pc'[c] = "admitted"
        \/ pc[c] = "admitted" /\ pc'[c] = "act"
    BY <1>3 DEF PcType, Setup, SameArm, OtherArm, RemovePools, Drain, Admit, Restart, Admitted
  <2>2. m = k
    BY <1>3 DEF Setup, SameArm, OtherArm, RemovePools, Drain, Admit, Restart, Admitted
  <2> HIDE DEF k, m
  <2>3. Left(pc'[c], k) < Left(pc[c], k)
    BY <1>0, <2>1, RunFalls
  <2> QED
    BY <2>2, <2>3 DEF k, m
<1>4. CASE Act(c) \/ Identify(c)
  <2>1. \/ pc[c] = "act" /\ pc'[c] \in {"probe", "identify"}
        \/ pc[c] = "identify" /\ pc'[c] = "window"
    BY <1>4 DEF PcType, Act, Identify
  <2>2. m = k
    BY <1>4 DEF Act, Identify
  <2> HIDE DEF k, m
  <2>3. Left(pc'[c], k) < Left(pc[c], k)
    BY <1>0, <2>1, RunFalls
  <2> QED
    BY <2>2, <2>3 DEF k, m
<1>5. CASE (Healthy(c) \/ Measure(c)) /\ pc'[c] = "next"
  <2>1. pc[c] \in {"probe", "window"}
    BY <1>5 DEF Healthy, Measure
  <2>2. m = k + 1
    BY <1>5 DEF PcType, Healthy, Measure
  <2> HIDE DEF k, m
  <2>3. Left("next", m) = 20 + 9 * (7 - m)
    BY <1>0, RunFalls
  <2>4. Left(pc[c], k) = 12 + 9 * (7 - k)
    BY <1>0, <2>1, RunFalls
  <2>5. Left("next", m) < Left(pc[c], k)
    BY <1>0, <2>2, <2>3, <2>4
  <2> QED
    BY <1>5, <2>5 DEF k, m
<1>6. CASE pc[c] \in Running /\ pc'[c] = "policy"
  BY <1>0, <1>6, LeftInRun, RollbackFalls
<1>7. CASE Restore(c)
  <2> USE DEF PcType
  <2>1. \/ pc[c] = "policy" /\ pc'[c] \in {"mesh", "policyGone", "deletePolicy"}
        \/ pc[c] = "deletePolicy" /\ pc'[c] \in {"policyGone", "mesh"}
        \/ pc[c] = "policyGone" /\ pc'[c] = "mesh"
        \/ pc[c] = "mesh" /\ pc'[c] \in {"namespace", "meshBack", "patchBack"}
        \/ pc[c] = "patchBack" /\ pc'[c] \in {"meshBack", "namespace"}
        \/ pc[c] = "meshBack" /\ pc'[c] = "namespace"
        \/ pc[c] = "namespace" /\ pc'[c] \in {"verify", "namespaceGone", "deleteNamespace"}
        \/ pc[c] = "deleteNamespace" /\ pc'[c] \in {"namespaceGone", "verify"}
        \/ pc[c] = "namespaceGone" /\ pc'[c] = "verify"
        \/ pc[c] = "verify" /\ pc'[c] = "finish"
    BY <1>7 DEF Restore, FindPolicy, DeletePolicy, PolicyGone, FindMesh, PatchBack, MeshBack, FindNamespace,
       DeleteNamespace, NamespaceGone, Verify, RollbackFails, After, StepOf, Rollback
  <2> QED
    BY <1>0, <2>1, RollbackFalls
<1>8. CASE Finish(c) \/ Kill(c)
  <2>1. pc[c] \in Active /\ pc'[c] \in Ended
    BY <1>8 DEF PcType, Finish, Kill, Active, Ended
  <2>2. Left(pc'[c], m) = 0
    BY <1>0, <2>1, StartFalls
  <2> DEFINE l == pc[c]
  <2>3. CASE pc[c] \in Running
    <3> HIDE DEF k, m, l
    <3>1. Left(l, k) > 11
      BY <1>0, <2>3, LeftInRun DEF l
    <3>2. 0 < Left(l, k)
      BY <1>0, <3>1, LeftTypes
    <3> QED
      BY <2>2, <3>2 DEF k, m, l
  <2>4. CASE pc[c] \in Rollback \cup {"finish"}
    BY <1>0, <2>2, <2>4, RollbackFalls DEF Rollback
  <2> QED
    BY <2>1, <2>3, <2>4 DEF Active
<1>9. Run(c) => Act(c) \/ Identify(c) \/ ((Healthy(c) \/ Measure(c)) /\ pc'[c] = "next")
                \/ (pc[c] \in Running /\ pc'[c] = "policy")
  BY DEF PcType, Run, Act, Identify, Healthy, Measure, SequenceOver, Running
<1>10. Fail(c) => pc[c] \in Running /\ pc'[c] = "policy"
  BY DEF PcType, Fail, MayFail
<1> QED
  BY <1>1, <1>2, <1>3, <1>4, <1>5, <1>6, <1>7, <1>8, <1>9, <1>10 DEF Process

\* What the others have to do does not depend on the one that is working.
LEMMA OthersLeft ==
  ASSUME PcType, OneInv, SelfType, SelfType', NEW c \in Campaigns, Process(c) \/ Kill(c),
         NEW d \in Campaigns \ {c}
  PROVE  Left(pc'[d], position') = Left(pc[d], position)
<1>1. pc'[d] = pc[d]
  BY PcStep
<1>2. CASE Enter(c)
  BY <1>1, <1>2 DEF Enter, Gate, Refused, Open
<1>3. CASE Works(c)
  <2>1. pc[d] \notin Active
    BY <1>3, OthersRest
  <2>2. RunLeft(pc[d]) = 0
    BY <2>1 DEF RunLeft, Active, Running
  <2> QED
    BY <1>1, <2>2 DEF Left
<1> QED
  BY <1>2, <1>3 DEF Process, Works

\* Whatever raises and whatever others do, a campaign has a bounded number of
\* commands before it, and each one that it carries out is one less: none is
\* retried and no run is repeated (run_campaign 1149-1187, sequence 1110-1124).
THEOREM CampaignIsFinite == Spec => FiniteCampaign
<1> DEFINE Falls ==
             /\ \A c \in Campaigns : CommandsLeft(c)' \in 0 .. CommandsLeft(c)
             /\ \/ \E c \in Campaigns : CommandsLeft(c)' < CommandsLeft(c)
                \/ UNCHANGED <<pc, recordVars, selfVars>>
<1>1. ASSUME IInv, IInv', Next PROVE Falls
  <2>1. position \in 1 .. 7 /\ position' \in 1 .. 7
    BY <1>1 DEF IInv, SelfType
  <2>2. \A d \in Campaigns : Left(pc[d], position) \in Nat /\ Left(pc'[d], position') \in Nat
    BY <2>1, LeftTypes
  <2>3. ASSUME NEW c \in Campaigns, Process(c) \/ Kill(c) PROVE Falls
    <3>1. Left(pc'[c], position') < Left(pc[c], position)
      BY <1>1, <2>3, CommandFalls DEF IInv
    <3>2. \A d \in Campaigns \ {c} : Left(pc'[d], position') = Left(pc[d], position)
      BY <1>1, <2>3, OthersLeft DEF IInv
    <3>3. \A d \in Campaigns : Left(pc'[d], position') \in 0 .. Left(pc[d], position)
      BY <2>2, <3>1, <3>2
    <3> QED
      BY <3>1, <3>3 DEF CommandsLeft
  <2>4. CASE Cluster \/ Others \/ AllEnded
    <3>1. UNCHANGED <<pc, recordVars, selfVars>>
      BY <1>1, <2>4, OutsideType DEF IInv, AllEnded, vars
    <3>2. \A d \in Campaigns : Left(pc'[d], position') = Left(pc[d], position)
      BY <3>1
    <3>3. \A d \in Campaigns : Left(pc'[d], position') \in 0 .. Left(pc[d], position)
      BY <2>2, <3>2
    <3> QED
      BY <3>1, <3>3 DEF CommandsLeft
  <2> QED
    BY <1>1, <2>3, <2>4 DEF Next
<1>2. IInv /\ IInv' /\ [Next]_vars => [Falls]_vars
  BY <1>1
<1> QED
  BY <1>2, Invariance, PTL DEF Spec, FiniteCampaign

\* What a campaign owes to the cluster it works in (run_campaign 1149-1187).
THEOREM CampaignKeepsContract == Spec => CampaignContract
  BY CampaignsKeepToTheirOwn, DanglingIsReported, CampaignIsFinite, PTL DEF CampaignContract
=============================================================================
