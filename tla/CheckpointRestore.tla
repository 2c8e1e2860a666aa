------------------------- MODULE CheckpointRestore -------------------------
(***************************************************************************)
(* scripts/local-recover.sh: an owned source cluster, a coordinated        *)
(* checkpoint of PostgreSQL and the application data, and a fresh owned    *)
(* target cluster restored from it.  Mode "upgrade" also starts version B  *)
(* on the source after the checkpoint, writes to it, and rolls back.       *)
(*                                                                         *)
(* The script is one sequential process; any command of it may fail (set   *)
(* -e, fail) and it may be killed.  Beside it run, as the script uses      *)
(* them, the Argo CD controller, the kubelet and Forgejo's own queue.      *)
(* LocalLifecycle has the other invocations on the host; here there is     *)
(* only this one.                                                          *)
(***************************************************************************)
EXTENDS FiniteSets, Integers

CONSTANT Modes  \* the modes checked
ASSUME ModesAssumption == Modes \subseteq {"recovery", "upgrade"} /\ Modes # {}

VARIABLES
  mode,       \* MODE
  pc,         \* the next command of the script
  rc,         \* 1 once a command has failed: the exit code of the trap
  done,       \* DONE
  cluster,    \* whose cluster exists: "none", "source", "target"
  marker,     \* the server ID in $MARKER, "none" when it is empty
  policy,     \* the Application: "absent", "auto", "paused"
  image,      \* the version its sources select: "A", "B"
  operation,  \* .operation: "none", "pending"
  replicas,   \* the version the Deployment asks for, "none" at 0 replicas
  writer,     \* the version of the running Forgejo pod, or "none"
  fs,         \* writes on the Forgejo volume
  db,         \* writes whose database part is committed too
  helper,     \* "running" while recovery-data-helper has the volume
  dump, tar,  \* contents of database.dump and application-data.tar
  raw,        \* $RAW: "present", "removed"
  result      \* "none", "valid" after the last validation has passed

scriptVars == <<rc, done, marker>>
argoVars == <<policy, image, operation>>
podVars == <<replicas, writer, helper>>
dataVars == <<fs, db>>
bundleVars == <<dump, tar, raw>>
clusterVars == <<argoVars, podVars, dataVars>>
vars == <<mode, pc, scriptVars, cluster, clusterVars, bundleVars, result>>

Writes == {"fixture", "b-only", "post"}
Upgrade == mode = "upgrade"

\* A cluster that has just been created, or none: no Application, no pod and
\* empty volumes.
VolumesKept == UNCHANGED dataVars  \* mutant: the volumes outlive the cluster
FreshVolumes == fs' = {} /\ db' = {}
EmptyCluster ==
  /\ policy' = "absent" /\ image' = "A" /\ operation' = "none"
  /\ replicas' = "none" /\ writer' = "none" /\ helper' = "none"
  /\ FreshVolumes

Init ==
  /\ mode \in Modes
  /\ pc = "create" /\ rc = 0 /\ done = 0
  /\ cluster = "none" /\ marker = "none"
  /\ policy = "absent" /\ image = "A" /\ operation = "none"
  /\ replicas = "none" /\ writer = "none"
  /\ fs = {} /\ db = {}
  /\ helper = "none" /\ dump = {} /\ tar = {} /\ raw = "present"
  /\ result = "none"

Goto(from, to) == pc = from /\ pc' = to
OnlyScript == UNCHANGED <<mode, scriptVars, cluster, clusterVars, bundleVars, result>>

Settled == operation = "none" /\ replicas = image /\ writer = image

-----------------------------------------------------------------------------
(* The source: local-up.sh with the marker, then a normal or a paused app. *)

Create(from, owner, to) ==
  /\ Goto(from, to)
  /\ cluster = "none"
  /\ cluster' = owner
  /\ EmptyCluster
  /\ UNCHANGED <<mode, scriptVars, bundleVars, result>>

Mark(from, to) ==
  /\ Goto(from, to)
  /\ marker' = cluster
  /\ UNCHANGED <<mode, rc, done, cluster, clusterVars, bundleVars, result>>

CreateSource == Create("create", "source", "mark")
MarkSource == Mark("mark", "deploy")

\* The Application of local-up.sh syncs by itself; the one of select_image is
\* applied paused and gets a manual sync.
SelectImage(from, version, to) ==
  /\ Goto(from, to)
  /\ policy' = "paused" /\ image' = version /\ operation' = "pending"
  /\ UNCHANGED <<mode, scriptVars, cluster, podVars, dataVars, bundleVars, result>>

DeploySource ==
  \/ /\ ~Upgrade
     /\ Goto("deploy", "ready")
     /\ policy' = "auto"
     /\ UNCHANGED <<mode, scriptVars, cluster, image, operation, podVars, dataVars, bundleVars, result>>
  \/ Upgrade /\ SelectImage("deploy", "A", "ready")

\* assert_normal_app or wait_paused_app, rollout status and health.
Await(from, to) == Goto(from, to) /\ Settled /\ OnlyScript
SourceReady == Await("ready", "fixture")

\* A journey writes a commit and an Issue; Forgejo finishes the rest from its
\* queue.
Journey(from, write, to) ==
  /\ Goto(from, to)
  /\ writer # "none"
  /\ fs' = fs \cup {write}
  /\ UNCHANGED <<mode, scriptVars, cluster, argoVars, podVars, db, bundleVars, result>>

Fixture == Journey("fixture", "fixture", "pause")

-----------------------------------------------------------------------------
(* The checkpoint.                                                         *)

\* Stop autosync; the app has to be settled before and without an operation
\* after the patch.
SourceStable == Await("pause", "patch")
StopAutosync ==
  /\ Goto("patch", "paused")
  /\ policy' = "paused"
  /\ UNCHANGED <<mode, scriptVars, cluster, image, operation, podVars, dataVars, bundleVars, result>>

PolicyPaused == policy = "paused"  \* mutant: a running operation goes unnoticed
AutosyncStopped == policy = "paused" /\ operation = "none"
ConfirmStop == Goto("paused", "flush") /\ AutosyncStopped /\ OnlyScript

FlushIssued == writer # "none"  \* mutant: the flush does not wait for the queue
QueueDrained == writer # "none" /\ db = fs
Flush(from, to) == Goto(from, to) /\ QueueDrained /\ OnlyScript

ScaleDown(from, to) ==
  /\ Goto(from, to)
  /\ replicas' = "none"
  /\ UNCHANGED <<mode, scriptVars, cluster, argoVars, writer, helper, dataVars, bundleVars, result>>

\* The pod is deleted and assert_no_pods lists no Forgejo pod.
WriterAbsent == writer = "none"
AwaitStop(from, to) == Goto(from, to) /\ WriterAbsent /\ OnlyScript

FlushQueues == Flush("flush", "scale")
StopForgejo == ScaleDown("scale", "stopping")
ForgejoStopped == AwaitStop("stopping", "dump")

DumpDatabase ==
  /\ Goto("dump", "tar")
  /\ dump' = db /\ helper' = "running"
  /\ UNCHANGED <<mode, scriptVars, cluster, argoVars, replicas, writer, dataVars, tar, raw, result>>

\* The archive, the secrets and the manifest, validated as a bundle.
ArchiveData ==
  /\ Goto("tar", IF Upgrade THEN "startB" ELSE "remove")
  /\ tar' = fs /\ helper' = "none"
  /\ UNCHANGED <<mode, scriptVars, cluster, argoVars, replicas, writer, dataVars, dump, raw, result>>

-----------------------------------------------------------------------------
(* upgrade_and_mark: version B on the source, after the checkpoint.        *)

StartB ==
  /\ WriterAbsent
  /\ SelectImage("startB", "B", "readyB")
ReadyB == Await("readyB", "writeB")
WriteB == Journey("writeB", "b-only", "pausedB")
PausedB == Await("pausedB", "flushB")
FlushB == Flush("flushB", "scaleB")
StopB == ScaleDown("scaleB", "stoppingB")
StoppedB == AwaitStop("stoppingB", "remove")

-----------------------------------------------------------------------------
(* The target.                                                             *)

\* local-down.sh in owned mode has removed the cluster of the marker, and the
\* marker is emptied for the next one.
RemoveSource ==
  /\ Goto("remove", "createTarget")
  /\ marker = cluster /\ cluster' = "none" /\ marker' = "none"
  /\ EmptyCluster
  /\ UNCHANGED <<mode, rc, done, bundleVars, result>>

\* local-up.sh with the restore secrets ends before it applies the
\* Application, so that nothing starts Forgejo.
CreateTarget == Create("createTarget", "target", "markTarget")
MarkTarget == Mark("markTarget", "prepare")

TargetAutoStarts == policy' = "auto"  \* mutant: the target gets its Application
TargetDeferred == UNCHANGED policy
PrepareTarget ==
  /\ Goto("prepare", "prepared")
  /\ TargetDeferred
  /\ UNCHANGED <<mode, scriptVars, cluster, image, operation, podVars, dataVars, bundleVars, result>>

\* No pod in the namespace, then the helper on the new volume.
StartHelper ==
  /\ Goto("prepared", "restoreDb")
  /\ WriterAbsent
  /\ helper' = "running"
  /\ UNCHANGED <<mode, scriptVars, cluster, argoVars, replicas, writer, dataVars, bundleVars, result>>

RestoreDatabase ==
  /\ Goto("restoreDb", "restoreData")
  /\ db' = db \cup dump
  /\ UNCHANGED <<mode, scriptVars, cluster, argoVars, podVars, fs, bundleVars, result>>

RestoreData ==
  /\ Goto("restoreData", "restored")
  /\ fs' = fs \cup tar /\ helper' = "none"
  /\ UNCHANGED <<mode, scriptVars, cluster, argoVars, replicas, writer, db, bundleVars, result>>

\* A paused Application with a manual sync, in both modes of version A.
StartTarget ==
  /\ WriterAbsent
  /\ SelectImage("restored", "A", "readyTarget")
ReadyTarget == Await("readyTarget", "verify")

\* Retained state, sessions and, after a rollback, the absence of B's writes.
Continuous == "fixture" \in fs /\ "fixture" \in db /\ "b-only" \notin fs \cup db
VerifyTarget == Goto("verify", "newWrite") /\ Continuous /\ OnlyScript

NewWrite == Journey("newWrite", "post", IF Upgrade THEN "retain" ELSE "return")

\* Recovery returns the Application to autosync and runs the regression;
\* an upgrade ends in maintenance on A.
ReturnArgo ==
  /\ Goto("return", "regression")
  /\ policy' = "auto"
  /\ UNCHANGED <<mode, scriptVars, cluster, image, operation, podVars, dataVars, bundleVars, result>>

Finish ==
  /\ \/ Goto("regression", "cleanup") /\ policy = "auto"
     \/ Goto("retain", "cleanup") /\ policy = "paused"
  /\ Settled
  /\ done' = 1
  /\ UNCHANGED <<mode, rc, marker, cluster, clusterVars, bundleVars, result>>

-----------------------------------------------------------------------------
(* The EXIT trap.                                                          *)

Commands ==
  {"create", "mark", "deploy", "ready", "fixture", "pause", "patch", "paused", "flush", "scale",
   "stopping", "dump", "tar", "startB", "readyB", "writeB", "pausedB", "flushB", "scaleB",
   "stoppingB", "remove", "createTarget", "markTarget", "prepare", "prepared", "restoreDb",
   "restoreData", "restored", "readyTarget", "verify", "newWrite", "return", "regression", "retain"}
TrapSteps == {"cleanup", "removeRaw", "publish"}

\* The steps whose commands all have a deadline: kubectl with a timeout or a request
\* timeout, flush-queues under timeout(1), bounded polls, and the end of the trap.
\* Elsewhere a command may take for ever: helper_stop and kubectl delete, exec,
\* pg_dump, pg_restore, the curl of the version, k3d in local-up.sh and local-down.sh.
Timed ==
  {"ready", "paused", "flush", "stopping", "readyB", "pausedB", "flushB", "stoppingB",
   "readyTarget", "removeRaw", "publish"}
Untimed == (Commands \cup TrapSteps) \ Timed

MayFail == pc \in Commands
Fail ==
  /\ MayFail
  /\ pc' = "cleanup" /\ rc' = 1
  /\ UNCHANGED <<mode, done, marker, cluster, clusterVars, bundleVars, result>>

\* local-down.sh removes the cluster the marker names; a failure of it, which
\* may leave the cluster, becomes the exit code.
DownFailureAdded == rc' = rc + 1  \* mutant: the exit codes add up
DownFailureIgnored == UNCHANGED rc  \* mutant: the status of the cleanup is lost
DownFailed == rc' = 1

CleanUp ==
  /\ Goto("cleanup", "removeRaw")
  /\ \/ /\ marker = "none"
        /\ UNCHANGED <<rc, cluster, clusterVars>>
     \/ /\ marker # "none" /\ cluster \in {marker, "none"}
        /\ cluster' = "none" /\ EmptyCluster
        /\ UNCHANGED rc
     \/ /\ marker # "none"
        /\ DownFailed
        /\ UNCHANGED <<cluster, clusterVars>>
  /\ UNCHANGED <<mode, done, marker, bundleVars, result>>

RemoveRaw ==
  /\ Goto("removeRaw", "publish")
  /\ raw' \in {"removed", "present"}
  /\ UNCHANGED <<mode, scriptVars, cluster, clusterVars, dump, tar, result>>

\* A result is written after a clean end; the validator wants raw_cleaned.
Publish ==
  /\ Goto("publish", "exited")
  /\ IF rc = 0 /\ done = 1 /\ raw = "removed"
     THEN \/ result' = "valid" /\ UNCHANGED rc
          \/ rc' = 1 /\ UNCHANGED result
     ELSE rc' = 1 /\ UNCHANGED result
  /\ UNCHANGED <<mode, done, marker, cluster, clusterVars, bundleVars>>

Kill ==
  /\ pc \in Commands \cup TrapSteps
  /\ pc' = "killed"
  /\ OnlyScript

-----------------------------------------------------------------------------
(* The cluster beside the script.                                          *)

\* With autosync the controller may start a sync at any moment; one that is
\* under way ends whatever the policy has become.
ArgoStarts ==
  /\ policy = "auto" /\ operation = "none"
  /\ operation' = "pending"
  /\ UNCHANGED <<mode, pc, scriptVars, cluster, policy, image, podVars, dataVars, bundleVars, result>>

ArgoSyncs ==
  /\ operation = "pending"
  /\ operation' = "none" /\ replicas' = image
  /\ UNCHANGED <<mode, pc, scriptVars, cluster, policy, image, writer, helper, dataVars, bundleVars, result>>

\* A pod of another version is stopped before the new one starts.
Kubelet ==
  /\ writer # replicas
  /\ writer' = IF writer = "none" THEN replicas ELSE "none"
  /\ UNCHANGED <<mode, pc, scriptVars, cluster, argoVars, replicas, helper, dataVars, bundleVars, result>>

Queue ==
  /\ writer # "none"
  /\ \E w \in fs \ db : db' = db \cup {w}
  /\ UNCHANGED <<mode, pc, scriptVars, cluster, argoVars, podVars, fs, bundleVars, result>>

-----------------------------------------------------------------------------
SourceSteps ==
  \/ CreateSource \/ MarkSource \/ DeploySource \/ SourceReady \/ Fixture
  \/ SourceStable \/ StopAutosync \/ ConfirmStop \/ FlushQueues \/ StopForgejo \/ ForgejoStopped
  \/ DumpDatabase \/ ArchiveData
UpgradeSteps == StartB \/ ReadyB \/ WriteB \/ PausedB \/ FlushB \/ StopB \/ StoppedB
TargetSteps ==
  \/ RemoveSource \/ CreateTarget \/ MarkTarget \/ PrepareTarget \/ StartHelper
  \/ RestoreDatabase \/ RestoreData \/ StartTarget \/ ReadyTarget \/ VerifyTarget
  \/ NewWrite \/ ReturnArgo \/ Finish
Trap == CleanUp \/ RemoveRaw \/ Publish
Script == SourceSteps \/ UpgradeSteps \/ TargetSteps \/ Fail \/ Trap
Cluster == ArgoStarts \/ ArgoSyncs \/ Kubelet \/ Queue
Ended == pc \in {"exited", "killed"} /\ UNCHANGED vars

Next == Script \/ Kill \/ Cluster \/ Ended

Spec == Init /\ [][Next]_vars

\* Only a command with a deadline is sure to succeed or fail in the end.
FairSpec == Spec /\ WF_vars(pc \in Timed /\ Script)
=============================================================================
