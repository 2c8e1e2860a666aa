------------------------ MODULE LocalLifecycleProps -------------------------
(***************************************************************************)
(* What make local, make up and make down promise about the fixed-name     *)
(* cluster when several of them run on one host.                           *)
(***************************************************************************)
EXTENDS LocalLifecycle, Naturals

\* Every variable of the lifecycle has its type, and a server container
\* belongs to an existing cluster.
TypeInv ==
  /\ pc \in [Invocations -> Labels]
  /\ lock \in Invocations \cup {NoOne}
  /\ owner \in Invocations \cup {NoOne}
  /\ server \in {NoOne, owner}
  /\ marker \in [Invocations -> Invocations \cup {NoOne}]
  /\ diag \in [Invocations -> Invocations \cup {NoOne}]
  /\ output \in [Checkouts -> Invocations \cup {NoOne}]
  /\ failed \in [Invocations -> BOOLEAN]
  /\ dirty \in [Invocations -> BOOLEAN]

\* local-up.sh 49-52: k3d create never runs beside a cluster of another
\* invocation, so the rollback of a failed create, which deletes by name,
\* can reach nothing but the nodes of that create.
NoCreateOverAnother ==
  \A i \in Invocations : pc[i] \in {"create", "creating"} => owner \in {NoOne, i}

\* local-run.sh 3-6: the marker of an invocation never names the server of a
\* cluster that another invocation created.
MarkerNamesOwnCluster ==
  \A i \in Invocations : marker[i] \in {NoOne, i}

\* local-up.sh 15-18: bootstrap diagnostics look at the cluster the
\* invocation created itself, and the kubeconfig they go through does not
\* lead to another cluster.
DiagnosticsInspectOwnCluster ==
  \A i \in Invocations :
    pc[i] = "diagnose" =>
      server = i /\ output[CheckoutOf[i]] \in {i, NoOne}

\* Until an explicit make down gets the lock, the kubectl work of an
\* invocation (deploy, verify) goes to the cluster it created: no other
\* invocation removes that cluster, replaces it or overwrites the kubeconfig.
\* An explicit make down between the release of the lock and the kubeconfig
\* fetch breaks this.
NoExplicitDown == \A d \in Downs : pc[d] \in {"downTools", "downLock"}
WorkReachesOwnCluster ==
  NoExplicitDown =>
    \A i \in Invocations :
      pc[i] \in {"deploy", "verify"} => owner = i /\ output[CheckoutOf[i]] = i

\* local-run.sh 3-6, local-up.sh 15-18, 49-52: although everything goes by one
\* fixed name, an invocation creates, marks, deploys, verifies and diagnoses no
\* cluster but its own, however the others interleave.
StaysOnOwnCluster ==
  /\ TypeInv
  /\ NoCreateOverAnother
  /\ MarkerNamesOwnCluster
  /\ DiagnosticsInspectOwnCluster
  /\ WorkReachesOwnCluster

\* README "Local platform", local-run.sh 3-6: a cluster disappears only
\* through its creator (rollback of its create, or its owned cleanup) or
\* through an explicit make down; a kill removes nothing.
OnlyCreatorOrExplicitDownRemoves ==
  [][owner # NoOne /\ owner' # owner =>
       \E i \in Invocations :
         /\ i = owner \/ i \in Downs
         /\ pc[i] \in {"creating", "delete"} /\ pc'[i] \notin {pc[i], "killed"}]_vars

\* local-up.sh 44-52, local-down.sh 38-53: the cluster is a resource under one
\* name and one lock.  It is created and removed under the lock only, created
\* where there is none, and removed by its creator or an explicit make down.
Cluster == INSTANCE NamedResource
  WITH Users <- Invocations, Removers <- Downs, Nobody <- NoOne, holder <- lock, creator <- owner
ClusterSpec == Cluster!Spec

\* local-up.sh 44-52, local-down.sh 38-53: both together.  A cluster disappears at
\* the hands of someone who may remove it and does so under the lock.
ChangedByHolder == OnlyCreatorOrExplicitDownRemoves /\ ClusterSpec

\* local-down.sh 4-6: the owned cleanup of an invocation removes the
\* credentials of no existing cluster but its own, although it deletes by path
\* in a checkout that other invocations use.
CleanupSparesForeignCredentials ==
  [][\A i \in Runs :
       pc[i] = "removeOutput" /\ pc'[i] = "residual" =>
         LET holder == output[CheckoutOf[i]]
         IN holder \in {NoOne, i} \/ holder # owner \/ output' = output]_vars

\* local-down.sh 55-81: whoever ends local-down.sh without an error leaves no
\* cluster and no credentials in its checkout, whatever failed on the way.
CleanExitLeavesNothing ==
  [][\A i \in Invocations :
       pc[i] = "residual" /\ pc'[i] = "done" /\ ~dirty'[i] =>
         owner' = NoOne /\ output'[CheckoutOf[i]] = NoOne]_vars

\* local-run.sh 14-30: a make local that has ended with its cluster in place has
\* failed, and either its cleanup has said so or it had no marker to clean up by.
NothingLeftSilently ==
  \A i \in Runs :
    pc[i] = "done" /\ owner = i => dirty[i] \/ (failed[i] /\ marker[i] = NoOne)

\* The commands of the three scripts that an invocation may still have before it.
CommandsLeft(i) ==
  LET l == pc[i]
  IN CASE l = "upTools" -> 19 [] l = "upLock" -> 18 [] l = "check" -> 17 [] l = "create" -> 16 [] l = "creating" -> 15
       [] l = "mark" -> 14 [] l = "unlock" -> 13 [] l = "kubeconfig" -> 12 [] l = "deploy" -> 11 [] l = "verify" -> 10
       [] l = "diagLock" -> 9 [] l = "diagCheck" -> 8 [] l = "diagnose" -> 7 [] l = "downTools" -> 6
       [] l = "downLock" -> 5 [] l = "downCheck" -> 4 [] l = "delete" -> 3 [] l = "removeOutput" -> 2
       [] l = "residual" -> 1 [] OTHER -> 0

\* local-up.sh 30-38, local-run.sh 14-30: whatever fails, traps and cleanups only
\* go forward; every step is a command that one invocation had left, and moves
\* no other.
FiniteScripts ==
  [][\E i \in Invocations :
       CommandsLeft(i)' < CommandsLeft(i) /\ \A j \in Invocations \ {i} : pc'[j] = pc[j]]_vars

\* local-up.sh 24, 82, local-down.sh 27: the lock is waited for by nobody who has it
\* and held by nobody who has to wait, so somebody can go on until all have
\* ended, also when no wait for it has a timeout.
CanGoOn(i) == pc[i] \notin Ended /\ (pc[i] \in {"diagLock", "downLock"} => lock = NoOne)
NobodyStands == (\E i \in Invocations : pc[i] \notin Ended) => \E i \in Invocations : CanGoOn(i)

\* local-run.sh 14-30, local-down.sh 55-81: every invocation gets to its end, and
\* what is left behind then is never denied, neither by the exit of the cleanup
\* nor by any later step of the make local around it.
EndsAreHonest ==
  FiniteScripts /\ CleanExitLeavesNothing /\ [][NobodyStands /\ NothingLeftSilently']_vars

\* local-run.sh 14-30: a make local that created a cluster ends, whether its
\* verification passes or not, and by then its cleanup has removed the cluster.
\* Whatever fails on the way, one that ends with its cluster in place says so,
\* or could never name it; only a kill leaves it silently.
OwnedClusterIsCleanedUp ==
  \A i \in Runs :
    owner = i ~>
      \/ pc[i] = "killed"
      \/ pc[i] = "done" /\ (owner = i => dirty[i] \/ marker[i] = NoOne)

\* README "Local platform": make local cleans up the cluster it created
\* itself, whether it succeeds or fails.  A cluster of a make local that has
\* ended unkilled was at least named in its marker, so that cleanup ran.
CreatorCleansUp ==
  \A i \in Runs : pc[i] = "done" /\ owner = i => marker[i] = i
=============================================================================
