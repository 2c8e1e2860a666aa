----------------------- MODULE CheckpointRestoreProofs ----------------------
(***************************************************************************)
(* Proofs about the checkpoint, the restore and the rollback, for both     *)
(* modes, a failure or a kill at any command, and any interleaving with    *)
(* Argo CD, the kubelet and Forgejo's queue.                               *)
(***************************************************************************)
EXTENDS CheckpointRestoreProps, TLAPS

-----------------------------------------------------------------------------
(* The inductive invariant.                                                *)

\* The commands, in the order of the script.
Before == {"create", "mark", "deploy", "ready", "fixture"}
Drained == {"scale", "stopping", "dump", "tar"}
Copying == {"pause", "patch", "paused", "flush"} \cup Drained
OnB == {"startB", "readyB", "writeB", "pausedB", "flushB", "scaleB", "stoppingB"}
OnSource == (Before \ {"create"}) \cup Copying \cup OnB \cup {"remove"}
Fresh == {"createTarget", "markTarget", "prepare", "prepared", "restoreDb"}
Restoring == Fresh \cup {"restoreData", "restored"}
OnTarget ==
  {"prepare", "prepared", "restoreDb", "restoreData", "restored", "readyTarget", "verify", "newWrite",
   "return", "regression", "retain"}

\* Nothing runs, and nothing will start it.
Quiet == policy # "auto" /\ operation = "none" /\ replicas = "none" /\ writer = "none"

\* Both halves are there.
Restored == "fixture" \in tar /\ tar \subseteq fs /\ dump \subseteq db

OwnerInv ==
  /\ pc \in OnSource => cluster = "source"
  /\ pc \in OnTarget \cup {"markTarget"} => cluster = "target"
  /\ pc \in {"create", "createTarget"} => cluster = "none"
  /\ pc \in OnTarget => marker = "target"

QuietInv ==
  /\ pc = "paused" => policy = "paused"
  /\ pc \in {"flush"} \cup Drained => policy = "paused" /\ operation = "none"
  /\ pc = "stopping" => replicas = "none"
  /\ pc \in {"dump", "tar", "startB"} \cup Restoring => Quiet
  /\ helper = "running" => Quiet /\ pc \notin Commands \ {"tar", "restoreDb", "restoreData"}
  /\ pc \in {"restoreDb", "restoreData"} => helper = "running"

\* What was copied is the fixture and nothing else, in both halves.
BundleInv ==
  /\ pc \in Before => fs = {} /\ db = {} /\ dump = {} /\ tar = {}
  /\ pc \in Copying => fs = {"fixture"} /\ db \subseteq fs /\ tar = {}
  /\ pc \in Drained => db = fs
  /\ pc = "tar" => dump = fs
  /\ pc \in Commands \ (Before \cup Copying) => tar = {"fixture"}
  /\ tar # {} => dump = tar

RestoreInv ==
  /\ pc \in Fresh => fs = {} /\ db = {}
  /\ pc = "restoreData" => fs = {} /\ db = dump
  /\ pc \in {"restored", "readyTarget", "verify", "newWrite"} => fs = tar /\ db = dump
  /\ pc \in {"return", "regression", "retain"} => Restored
  /\ cluster = "target" => Quiet \/ Restored

ExitInv ==
  /\ done = 1 => pc \notin Commands /\ marker = "target"
  /\ pc \in {"removeRaw", "publish"} /\ rc = 0 /\ done = 1 => cluster = "none"
  /\ CleanExit

\* Where there is no cluster there is nothing to write, and nobody to do it.
PlaceInv == cluster = "none" => Quiet /\ helper = "none" /\ fs = {} /\ db = {}

IInv == TypeInv /\ OwnerInv /\ QuietInv /\ BundleInv /\ RestoreInv /\ ExitInv /\ PlaceInv

-----------------------------------------------------------------------------
(* Every step keeps it: one step of the proof for each action.             *)

USE ModesAssumption

\* The parts of the invariant and the places of the script.
USE DEF Commands, TrapSteps, Before, Drained, Copying, OnB, OnSource, Fresh, Restoring, OnTarget,
        Goto, Quiet, Restored

\* From the creation of the source to the validated bundle.
LEMMA SourceKeeps == ASSUME IInv, SourceSteps PROVE IInv'
<1> USE DEF IInv, TypeInv, OwnerInv, QuietInv, BundleInv, RestoreInv, ExitInv, PlaceInv, CleanExit, Versions, Writes,
           scriptVars, argoVars, podVars, dataVars, bundleVars, clusterVars
<1>1. CASE CreateSource
  BY <1>1 DEF CreateSource, Create, EmptyCluster, FreshVolumes
<1>2. CASE MarkSource
  BY <1>2 DEF MarkSource, Mark
<1>3. CASE DeploySource
  BY <1>3 DEF DeploySource, SelectImage, Upgrade
<1>4. CASE SourceReady
  BY <1>4 DEF SourceReady, Await, Settled, OnlyScript
<1>5. CASE Fixture
  BY <1>5 DEF Fixture, Journey
<1>6. CASE SourceStable
  BY <1>6 DEF SourceStable, Await, Settled, OnlyScript
<1>7. CASE StopAutosync
  BY <1>7 DEF StopAutosync
<1>8. CASE ConfirmStop
  BY <1>8 DEF ConfirmStop, AutosyncStopped, OnlyScript
<1>9. CASE FlushQueues
  BY <1>9 DEF FlushQueues, Flush, QueueDrained, OnlyScript
<1>10. CASE StopForgejo
  BY <1>10 DEF StopForgejo, ScaleDown
<1>11. CASE ForgejoStopped
  BY <1>11 DEF ForgejoStopped, AwaitStop, WriterAbsent, OnlyScript
<1>12. CASE DumpDatabase
  BY <1>12 DEF DumpDatabase
<1>13. CASE ArchiveData
  BY <1>13 DEF ArchiveData, Upgrade
<1> QED
  BY <1>1, <1>2, <1>3, <1>4, <1>5, <1>6, <1>7, <1>8, <1>9, <1>10, <1>11, <1>12, <1>13 DEF SourceSteps

\* Version B writes to the source only: the bundle is already complete.
LEMMA UpgradeKeeps == ASSUME IInv, UpgradeSteps PROVE IInv'
<1> USE DEF IInv, TypeInv, OwnerInv, QuietInv, BundleInv, RestoreInv, ExitInv, PlaceInv, CleanExit, Versions, Writes,
           scriptVars, argoVars, podVars, dataVars, bundleVars, clusterVars
<1>1. CASE StartB
  BY <1>1 DEF StartB, SelectImage, WriterAbsent
<1>2. CASE ReadyB
  BY <1>2 DEF ReadyB, Await, Settled, OnlyScript
<1>3. CASE WriteB
  BY <1>3 DEF WriteB, Journey
<1>4. CASE PausedB
  BY <1>4 DEF PausedB, Await, Settled, OnlyScript
<1>5. CASE FlushB
  BY <1>5 DEF FlushB, Flush, QueueDrained, OnlyScript
<1>6. CASE StopB
  BY <1>6 DEF StopB, ScaleDown
<1>7. CASE StoppedB
  BY <1>7 DEF StoppedB, AwaitStop, WriterAbsent, OnlyScript
<1> QED
  BY <1>1, <1>2, <1>3, <1>4, <1>5, <1>6, <1>7 DEF UpgradeSteps

\* The source goes, and the target is restored before anything runs on it.
LEMMA TargetKeeps == ASSUME IInv, TargetSteps PROVE IInv'
<1> USE DEF IInv, TypeInv, OwnerInv, QuietInv, BundleInv, RestoreInv, ExitInv, PlaceInv, CleanExit, Versions, Writes,
           scriptVars, argoVars, podVars, dataVars, bundleVars, clusterVars
<1>1. CASE RemoveSource
  BY <1>1 DEF RemoveSource, EmptyCluster, FreshVolumes
<1>2. CASE CreateTarget
  BY <1>2 DEF CreateTarget, Create, EmptyCluster, FreshVolumes
<1>3. CASE MarkTarget
  BY <1>3 DEF MarkTarget, Mark
<1>4. CASE PrepareTarget
  BY <1>4 DEF PrepareTarget, TargetDeferred
<1>5. CASE StartHelper
  BY <1>5 DEF StartHelper, WriterAbsent
<1>6. CASE RestoreDatabase
  BY <1>6 DEF RestoreDatabase
<1>7. CASE RestoreData
  BY <1>7 DEF RestoreData
<1>8. CASE StartTarget
  BY <1>8 DEF StartTarget, SelectImage, WriterAbsent
<1>9. CASE ReadyTarget
  BY <1>9 DEF ReadyTarget, Await, Settled, OnlyScript
<1>10. CASE VerifyTarget
  BY <1>10 DEF VerifyTarget, Continuous, OnlyScript
<1>11. CASE NewWrite
  BY <1>11 DEF NewWrite, Journey, Upgrade
<1>12. CASE ReturnArgo
  BY <1>12 DEF ReturnArgo
<1>13. CASE Finish
  BY <1>13 DEF Finish, Settled
<1> QED
  BY <1>1, <1>2, <1>3, <1>4, <1>5, <1>6, <1>7, <1>8, <1>9, <1>10, <1>11, <1>12, <1>13 DEF TargetSteps

\* A failure or a kill at any command, and what the trap does about it.
LEMMA TrapKeeps == ASSUME IInv, Fail \/ Trap \/ Kill PROVE IInv'
<1> USE DEF IInv, TypeInv, OwnerInv, QuietInv, BundleInv, RestoreInv, ExitInv, PlaceInv, CleanExit, Versions, Writes,
           scriptVars, argoVars, podVars, dataVars, bundleVars, clusterVars
<1>1. CASE Fail
  BY <1>1 DEF Fail, MayFail
<1>2. CASE CleanUp
  BY <1>2 DEF CleanUp, EmptyCluster, FreshVolumes, DownFailed
<1>3. CASE RemoveRaw
  BY <1>3 DEF RemoveRaw
<1>4. CASE Publish
  BY <1>4 DEF Publish
<1>5. CASE Kill
  BY <1>5 DEF Kill, OnlyScript
<1> QED
  BY <1>1, <1>2, <1>3, <1>4, <1>5 DEF Trap

\* Argo CD, the kubelet and the queue, at any moment.
LEMMA ClusterKeeps == ASSUME IInv, Cluster PROVE IInv'
<1> USE DEF IInv, TypeInv, OwnerInv, QuietInv, BundleInv, RestoreInv, ExitInv, PlaceInv, CleanExit, Versions, Writes,
           scriptVars, argoVars, podVars, dataVars, bundleVars, clusterVars
<1>1. CASE ArgoStarts
  BY <1>1 DEF ArgoStarts
<1>2. CASE ArgoSyncs
  BY <1>2 DEF ArgoSyncs
<1>3. CASE Kubelet
  BY <1>3 DEF Kubelet
<1>4. CASE Queue
  BY <1>4 DEF Queue
<1> QED
  BY <1>1, <1>2, <1>3, <1>4 DEF Cluster

\* The initial states.
LEMMA Start == Init => IInv
BY DEF Init, IInv, TypeInv, OwnerInv, QuietInv, BundleInv, RestoreInv, ExitInv, PlaceInv, CleanExit, Versions, Writes

\* Every step keeps the inductive invariant.
LEMMA Step == IInv /\ [Next]_vars => IInv'
<1> SUFFICES ASSUME IInv, [Next]_vars PROVE IInv'
  OBVIOUS
<1>1. CASE Script
  BY <1>1, SourceKeeps, UpgradeKeeps, TargetKeeps, TrapKeeps DEF Script
<1>2. CASE Kill
  BY <1>2, TrapKeeps
<1>3. CASE Cluster
  BY <1>3, ClusterKeeps
<1>4. CASE UNCHANGED vars
  BY <1>4 DEF vars, scriptVars, argoVars, podVars, dataVars, bundleVars, clusterVars, IInv, TypeInv,
              OwnerInv, QuietInv, BundleInv, RestoreInv, ExitInv, PlaceInv, CleanExit
<1> QED
  BY <1>1, <1>2, <1>3, <1>4 DEF Next, Ended

-----------------------------------------------------------------------------
(* The theorems.                                                           *)

\* Where the script is tells what the cluster, the marker, the volumes and the
\* bundle hold, whatever failed and whatever ran beside it.
THEOREM Invariance == Spec => []IInv
BY Start, Step, PTL DEF Spec

\* 510-544, 588-623: the database and the data are copied, and restored, while
\* no Forgejo pod runs or can be started, and both halves of a bundle are of
\* that moment.
THEOREM CopiesAreCoordinated == Spec => []BundleIsCoordinated
<1>1. IInv => BundleIsCoordinated
  BY DEF IInv, TypeInv, QuietInv, BundleInv, BundleIsCoordinated, CopiesWithoutWriter, CheckpointCoordinated
<1> QED
  BY <1>1, Invariance, PTL

-----------------------------------------------------------------------------
(* The checkpoint and the restore as one step each.                        *)

copiedVars == <<cluster, fs, VisibleRows, tar>>

\* A step that leaves the four variables alone is a stutter.
LEMMA Unseen ==
  ASSUME UNCHANGED <<cluster, fs, db, tar>>, helper' = helper \/ cluster # "target"
  PROVE  UNCHANGED copiedVars
BY DEF copiedVars, VisibleRows

\* With its cluster the service goes, and comes back empty.
LEMMA Closes ==
  ASSUME IInv, cluster' = "none", EmptyCluster, tar' = tar
  PROVE  Copied!Close
BY DEF Copied!Close, EmptyCluster, FreshVolumes, VisibleRows

\* On the source: the archive is the abstract copy, of a database that was
\* dumped with the same contents.
LEMMA SourceCopies ==
  ASSUME IInv, SourceSteps
  PROVE  [Copied!Next]_copiedVars
<1> USE DEF IInv, OwnerInv, QuietInv, BundleInv, PlaceInv, scriptVars, argoVars, podVars, dataVars, bundleVars,
           clusterVars
<1>1. CASE CreateSource
  <2>1. cluster = "none" /\ cluster' = "source" /\ fs = {} /\ db = {} /\ tar = {} /\ tar' = tar
    BY <1>1 DEF CreateSource, Create
  <2>2. fs' = {} /\ db' = {}
    BY <1>1 DEF CreateSource, Create, EmptyCluster, FreshVolumes
  <2>3. Copied!Open
    BY <2>1, <2>2 DEF Copied!Open, VisibleRows
  <2> QED
    BY <2>3 DEF Copied!Next
<1>2. CASE Fixture
  <2>1. cluster = "source" /\ fs' = fs \cup {"fixture"} /\ UNCHANGED <<cluster, db, tar>>
    BY <1>2 DEF Fixture, Journey
  <2>2. Copied!Write
    BY <2>1 DEF Copied!Write, Copied!InUse, VisibleRows, Writes
  <2> QED
    BY <2>2 DEF Copied!Next
<1>3. CASE ArchiveData
  <2>1. cluster = "source" /\ tar = {} /\ db = fs /\ tar' = fs /\ UNCHANGED <<cluster, fs, db>>
    BY <1>3 DEF ArchiveData
  <2>2. Copied!Copy
    BY <2>1 DEF Copied!Copy, VisibleRows
  <2> QED
    BY <2>2 DEF Copied!Next
<1>4. CASE DumpDatabase
  <2>1. cluster = "source" /\ UNCHANGED <<cluster, fs, db, tar>>
    BY <1>4 DEF DumpDatabase
  <2> QED
    BY <2>1, Unseen
<1>5. CASE MarkSource \/ DeploySource \/ SourceReady \/ SourceStable \/ StopAutosync \/ ConfirmStop
           \/ FlushQueues \/ StopForgejo \/ ForgejoStopped
  <2>1. UNCHANGED <<cluster, fs, db, tar, helper>>
    BY <1>5 DEF MarkSource, Mark, DeploySource, SelectImage, SourceReady, SourceStable, Await, StopAutosync,
       ConfirmStop, FlushQueues, Flush, StopForgejo, ScaleDown, ForgejoStopped, AwaitStop, OnlyScript
  <2> QED
    BY <2>1, Unseen
<1> QED
  BY <1>1, <1>2, <1>3, <1>4, <1>5 DEF SourceSteps

\* Version B writes where the copy has been taken already.
LEMMA UpgradeCopies ==
  ASSUME IInv, UpgradeSteps
  PROVE  [Copied!Next]_copiedVars
<1> USE DEF IInv, OwnerInv, scriptVars, argoVars, podVars, dataVars, bundleVars, clusterVars
<1>1. CASE WriteB
  <2>1. cluster = "source" /\ fs' = fs \cup {"b-only"} /\ UNCHANGED <<cluster, db, tar>>
    BY <1>1 DEF WriteB, Journey
  <2>2. Copied!Write
    BY <2>1 DEF Copied!Write, Copied!InUse, VisibleRows, Writes
  <2> QED
    BY <2>2 DEF Copied!Next
<1>2. CASE StartB \/ ReadyB \/ PausedB \/ FlushB \/ StopB \/ StoppedB
  <2>1. UNCHANGED <<cluster, fs, db, tar, helper>>
    BY <1>2 DEF StartB, SelectImage, ReadyB, PausedB, Await, FlushB, Flush, StopB, ScaleDown, StoppedB, AwaitStop,
       OnlyScript
  <2> QED
    BY <2>1, Unseen
<1> QED
  BY <1>1, <1>2 DEF UpgradeSteps

\* On the target: the second of the two restores is the abstract one.
LEMMA TargetCopies ==
  ASSUME IInv, TargetSteps
  PROVE  [Copied!Next]_copiedVars
<1> USE DEF IInv, OwnerInv, QuietInv, BundleInv, RestoreInv, PlaceInv, scriptVars, argoVars, podVars, dataVars,
           bundleVars, clusterVars
<1>1. CASE RemoveSource
  <2>1. Copied!Close
    BY <1>1, Closes DEF RemoveSource
  <2> QED
    BY <2>1 DEF Copied!Next
<1>2. CASE CreateTarget
  <2>1. cluster = "none" /\ cluster' = "target" /\ fs = {} /\ db = {} /\ tar # {} /\ tar' = tar
    BY <1>2 DEF CreateTarget, Create
  <2>2. fs' = {} /\ db' = {}
    BY <1>2 DEF CreateTarget, Create, EmptyCluster, FreshVolumes
  <2>3. Copied!Open
    BY <2>1, <2>2 DEF Copied!Open, VisibleRows
  <2> QED
    BY <2>3 DEF Copied!Next
<1>3. CASE StartHelper
  <2>1. cluster = "target" /\ UNCHANGED <<cluster, fs, db, tar>> /\ db = {}
    BY <1>3 DEF StartHelper
  <2> QED
    BY <2>1 DEF copiedVars, VisibleRows
<1>4. CASE RestoreDatabase
  <2>1. cluster = "target" /\ UNCHANGED <<cluster, fs, tar, helper>> /\ helper = "running"
    BY <1>4 DEF RestoreDatabase
  <2> QED
    BY <2>1 DEF copiedVars, VisibleRows
<1>5. CASE RestoreData
  <2>1. /\ cluster = "target" /\ fs = {} /\ db = dump /\ dump = tar /\ fs' = fs \cup tar /\ helper' = "none"
        /\ UNCHANGED <<cluster, db, tar>>
    BY <1>5 DEF RestoreData
  <2>2. helper = "running"
    BY <1>5 DEF RestoreData
  <2>3. Copied!Restore
    BY <2>1, <2>2 DEF Copied!Restore, VisibleRows
  <2> QED
    BY <2>3 DEF Copied!Next
<1>6. CASE NewWrite
  <2>1. /\ cluster = "target" /\ fs = tar /\ db = dump /\ dump = tar /\ tar # {}
        /\ fs' = fs \cup {"post"} /\ UNCHANGED <<cluster, db, tar, helper>>
    BY <1>6 DEF NewWrite, Journey
  <2>2. helper # "running"
    BY <1>6 DEF NewWrite, Journey, Quiet
  <2>3. Copied!Write
    BY <2>1, <2>2 DEF Copied!Write, Copied!InUse, VisibleRows, Writes
  <2> QED
    BY <2>3 DEF Copied!Next
<1>7. CASE MarkTarget \/ PrepareTarget \/ StartTarget \/ ReadyTarget \/ VerifyTarget \/ ReturnArgo \/ Finish
  <2>1. UNCHANGED <<cluster, fs, db, tar, helper>>
    BY <1>7 DEF MarkTarget, Mark, PrepareTarget, StartTarget, SelectImage, ReadyTarget, Await, VerifyTarget,
       ReturnArgo, Finish, OnlyScript
  <2> QED
    BY <2>1, Unseen
<1> QED
  BY <1>1, <1>2, <1>3, <1>4, <1>5, <1>6, <1>7 DEF TargetSteps

\* A failure, a kill and the trap copy nothing.
LEMMA TrapCopies ==
  ASSUME IInv, Fail \/ Trap \/ Kill
  PROVE  [Copied!Next]_copiedVars
<1> USE DEF scriptVars, argoVars, podVars, dataVars, bundleVars, clusterVars
<1>1. CASE CleanUp
  <2>1. CASE cluster' = "none" /\ EmptyCluster
    <3>1. Copied!Close
      BY <1>1, <2>1, Closes DEF CleanUp
    <3> QED
      BY <3>1 DEF Copied!Next
  <2>2. CASE ~(cluster' = "none" /\ EmptyCluster)
    <3>1. UNCHANGED <<cluster, fs, db, tar, helper>>
      BY <1>1, <2>2 DEF CleanUp
    <3> QED
      BY <3>1, Unseen
  <2> QED
    BY <2>1, <2>2
<1>2. CASE Fail \/ RemoveRaw \/ Publish \/ Kill
  <2>1. UNCHANGED <<cluster, fs, db, tar, helper>>
    BY <1>2 DEF Fail, RemoveRaw, Publish, Kill, OnlyScript
  <2> QED
    BY <2>1, Unseen
<1> QED
  BY <1>1, <1>2 DEF Trap

\* Forgejo's queue commits on a service that is in use.
LEMMA ClusterCopies ==
  ASSUME IInv, Cluster
  PROVE  [Copied!Next]_copiedVars
<1> USE DEF argoVars, podVars, dataVars, bundleVars
<1>1. CASE Queue
  <2>1. writer # "none" /\ UNCHANGED <<cluster, fs, tar, helper>>
    BY <1>1 DEF Queue
  <2>2. PICK w \in fs : db' = db \cup {w}
    BY <1>1 DEF Queue
  <2>3. helper # "running" /\ cluster # "none" /\ cluster \in {"none", "source", "target"}
    BY <2>1 DEF IInv, TypeInv, QuietInv, PlaceInv
  <2>4. cluster = "target" => tar # {} /\ tar \subseteq fs \cap db
    BY <2>1 DEF IInv, RestoreInv, BundleInv
  <2>5. Copied!Settle
    BY <2>1, <2>2, <2>3, <2>4 DEF Copied!Settle, Copied!InUse, VisibleRows
  <2> QED
    BY <2>5 DEF Copied!Next
<1>2. CASE ArgoStarts \/ ArgoSyncs \/ Kubelet
  <2>1. UNCHANGED <<cluster, fs, db, tar, helper>>
    BY <1>2 DEF ArgoStarts, ArgoSyncs, Kubelet
  <2> QED
    BY <2>1, Unseen
<1> QED
  BY <1>1, <1>2 DEF Cluster

\* Before the script there is no service and no copy.
LEMMA CopiedStart == Init => Copied!Init
BY DEF Init, Copied!Init, VisibleRows

\* Each step of the script, and of the controllers beside it, is a step of the
\* abstract checkpoint or none.
LEMMA CopiedStep == IInv /\ [Next]_vars => [Copied!Next]_copiedVars
<1> SUFFICES ASSUME IInv, [Next]_vars PROVE [Copied!Next]_copiedVars
  OBVIOUS
<1>1. CASE Script
  BY <1>1, SourceCopies, UpgradeCopies, TargetCopies, TrapCopies DEF Script
<1>2. CASE Kill \/ Cluster
  BY <1>2, TrapCopies, ClusterCopies
<1>3. CASE UNCHANGED vars
  BY <1>3, Unseen DEF vars, podVars, dataVars, bundleVars, clusterVars
<1> QED
  BY <1>1, <1>2, <1>3 DEF Next, Ended

\* 510-544, 570-667: the script implements AtomicCheckpoint: although database
\* and data are copied one after the other, and restored one after the other,
\* the copy is one moment of both and the restore one step to whoever uses the
\* service.  From its first pod to its verification the target runs on it.
THEOREM TargetHoldsCheckpoint == Spec => TargetIsCheckpoint
<1>1. IInv => TargetStartsRestored
  BY DEF IInv, RestoreInv, TargetStartsRestored
<1>2. IInv => RestoredIsCheckpoint
  BY DEF IInv, BundleInv, RestoreInv, RestoredIsCheckpoint
<1>3. Spec => Copied!Spec
  BY CopiedStart, CopiedStep, Invariance, PTL DEF Spec, Copied!Spec, copiedVars
<1>4. Spec => [][(TargetStartsRestored /\ RestoredIsCheckpoint)']_vars
  BY <1>1, <1>2, Invariance, PTL
<1> QED
  BY <1>3, <1>4 DEF TargetIsCheckpoint

\* 39-85: whatever fails on the way, the exit code is 0 only for a validated
\* result with the clusters and the raw data gone.
THEOREM ExitIsClean == Spec => []CleanExit
<1>1. IInv => CleanExit
  BY DEF IInv, ExitInv
<1> QED
  BY <1>1, Invariance, PTL
=============================================================================
