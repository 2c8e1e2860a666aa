----------------------- MODULE CheckpointRestoreProps ----------------------
(***************************************************************************)
(* Correctness properties of the checkpoint, the restore and the rollback. *)
(***************************************************************************)
EXTENDS CheckpointRestore

Versions == {"A", "B"}

\* The variables keep their types.
TypeInv ==
  /\ mode \in Modes
  /\ pc \in Commands \cup TrapSteps \cup {"exited", "killed"}
  /\ rc \in {0, 1} /\ done \in {0, 1}
  /\ cluster \in {"none", "source", "target"} /\ marker \in {"none", "source", "target"}
  /\ policy \in {"absent", "auto", "paused"} /\ image \in Versions
  /\ operation \in {"none", "pending"}
  /\ replicas \in Versions \cup {"none"} /\ writer \in Versions \cup {"none"}
  /\ {fs, db, dump, tar} \subseteq SUBSET Writes
  /\ helper \in {"none", "running"} /\ raw \in {"present", "removed"}
  /\ result \in {"none", "valid"}

\* 510-544, 588-623: no Forgejo pod runs while the database is dumped, the
\* data archived or either restored, and none shares the volume with the
\* helper, also when the script fails or dies in between and Argo CD and the
\* kubelet go on.
CopiesWithoutWriter ==
  /\ pc \in {"dump", "tar", "prepared", "restoreDb", "restoreData", "restored"} => writer = "none"
  /\ helper = "running" => writer = "none"

\* 515-529: the two halves of a bundle are of the same moment, although
\* Forgejo commits part of a write to the database later.
CheckpointCoordinated == tar # {} => dump = tar

\* 510-544, 588-623: a bundle is one moment of a Forgejo that nobody writes to,
\* and is restored to one nobody writes to.
BundleIsCoordinated == TypeInv /\ CopiesWithoutWriter /\ CheckpointCoordinated

\* 570-640: the first Forgejo pod of the target finds both halves restored.
TargetStartsRestored ==
  cluster = "target" /\ writer # "none" => tar # {} /\ tar \subseteq fs /\ dump \subseteq db

\* 405-428, 655-667: what is verified on the target is the checkpoint and
\* nothing else; no write of version B came through the rollback.
RestoredIsCheckpoint ==
  pc \in {"verify", "newWrite"} => fs = tar /\ db = dump /\ "fixture" \in tar /\ "b-only" \notin tar

\* Between the restore of the database and the one of the data the volumes are
\* the helper's; nobody else sees what is in them.
VisibleRows == IF cluster = "target" /\ helper = "running" THEN {} ELSE db
Copied == INSTANCE AtomicCheckpoint
  WITH Documents <- Writes, place <- cluster, files <- fs, rows <- VisibleRows, copy <- tar

\* 510-544, 570-667: to whoever uses Forgejo the checkpoint is one moment of
\* its database and its data, and the restore one step, although the script
\* copies and restores them in four and Forgejo commits when it likes; from its
\* first pod to its verification the target runs on that checkpoint.
TargetIsCheckpoint == Copied!Spec /\ [][(TargetStartsRestored /\ RestoredIsCheckpoint)']_vars

\* 39-85: an invocation that exits with 0 has a validated result, and has
\* removed its clusters and its raw data.
CleanExit ==
  pc = "exited" /\ rc = 0 => result = "valid" /\ cluster = "none" /\ raw = "removed"

=============================================================================
