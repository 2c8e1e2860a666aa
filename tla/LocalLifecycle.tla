--------------------------- MODULE LocalLifecycle ---------------------------
(***************************************************************************)
(* The fixed-name k3d cluster capacity-cascade-local and the invocations   *)
(* that create, use and delete it: scripts/local-run.sh (make local),      *)
(* scripts/local-up.sh (make up) and scripts/local-down.sh (make down).    *)
(*                                                                         *)
(* Every invocation is a process with a program counter.  They share the   *)
(* host: one flock'd file, one cluster name, and, when started from the    *)
(* same checkout, one runtime output (.tmp/kubeconfig).  A cluster is      *)
(* identified by the invocation that created it, which stands for the      *)
(* server container ID that local-up.sh writes to the ownership marker.    *)
(*                                                                         *)
(* Everything outside the scripts may fail: Faults names the failures a    *)
(* run of the model allows.  kubectl work (Deploy, Verify) may always      *)
(* fail.                                                                   *)
(***************************************************************************)
CONSTANTS
  Runs,        \* invocations of local-run.sh: up with a marker, verify, owned down
  Ups,         \* invocations of local-up.sh alone: no marker, no cleanup
  Downs,       \* invocations of local-down.sh alone: explicit mode
  Checkouts,   \* repository checkouts, each with its own .tmp directory
  CheckoutOf,  \* the checkout an invocation was started from
  NoOne,       \* "no invocation": free lock, absent cluster, empty marker
  Faults       \* the failures of the environment that may happen

Invocations == Runs \cup Ups \cup Downs

FaultKinds ==
  {"tools",    \* install-tools.sh cannot supply the pinned tools
   "query",    \* a k3d or docker query fails
   "create",   \* k3d cluster create fails and rolls back
   "delete",   \* k3d cluster delete fails
   "output",   \* rm of the runtime output fails
   "timeout",  \* flock -w gives up
   "kill"}     \* the invocation is killed and its EXIT trap does not run

ASSUME InvocationsAssumption ==
  /\ Runs \cap Ups = {} /\ Runs \cap Downs = {} /\ Ups \cap Downs = {}
  /\ NoOne \notin Invocations
  /\ CheckoutOf \in [Invocations -> Checkouts]
  /\ Faults \subseteq FaultKinds

VARIABLES
  pc,      \* pc[i]: the line of the script invocation i is at
  lock,    \* the invocation whose open descriptor 9 holds the flock
  owner,   \* creator of the k3d cluster that exists now
  server,  \* server container of the fixed-name cluster, if there is one
  marker,  \* marker[i]: server ID in the ownership marker of i
  diag,    \* diag[i]: local-up.sh's diagnostics_server_id
  output,  \* output[c]: cluster whose credentials .tmp/kubeconfig of c holds
  failed,  \* failed[i]: the steps before the cleanup ended with rc # 0
  dirty    \* dirty[i]: local-down.sh's rc # 0

vars == <<pc, lock, owner, server, marker, diag, output, failed, dirty>>

Locked ==  \* program points inside the create/delete lock
  {"check", "create", "creating", "mark", "unlock",
   "diagCheck", "diagnose", "downCheck", "delete", "removeOutput", "residual"}

Ended == {"done", "killed"}

Labels ==
  Locked \cup Ended \cup
  {"upTools", "upLock", "kubeconfig", "deploy", "diagLock", "verify",
   "downTools", "downLock"}

Goto(i, l) == pc' = [pc EXCEPT ![i] = l]
Fail(i) == failed' = [failed EXCEPT ![i] = TRUE]
Dirty(i) == dirty' = [dirty EXCEPT ![i] = TRUE]
May(f) == f \in Faults

AcquireUnchecked(i) == lock' = i  \* mutant: the result of flock is ignored
Acquire(i) == lock = NoOne /\ lock' = i
Release(i) == lock' = IF lock = i THEN NoOne ELSE lock

\* local-up.sh has exited: local-run.sh's trap cleans up only with a marker.
AfterUpPassed(i) ==  \* mutant: the trap is installed after local-up.sh
  IF marker[i] # NoOne /\ pc[i] = "verify" THEN "downTools" ELSE "done"
AfterUp(i) == IF marker[i] # NoOne THEN "downTools" ELSE "done"

\* local-up.sh exits with an error: its own trap diagnoses an owned cluster
\* first; descriptor 9, and with it the lock, is closed by the exit.
UpFails(i) ==
  /\ Fail(i)
  /\ Release(i)
  /\ Goto(i, IF diag[i] # NoOne THEN "diagLock" ELSE AfterUp(i))

Init ==
  /\ pc = [i \in Invocations |-> IF i \in Downs THEN "downTools" ELSE "upTools"]
  /\ lock = NoOne
  /\ owner = NoOne
  /\ server = NoOne
  /\ marker = [i \in Invocations |-> NoOne]
  /\ diag = [i \in Invocations |-> NoOne]
  /\ output = [c \in Checkouts |-> NoOne]
  /\ failed = [i \in Invocations |-> FALSE]
  /\ dirty = [i \in Invocations |-> FALSE]

-----------------------------------------------------------------------------
(* local-up.sh: create under the lock.                                     *)

\* Install the tools and check the restore secrets.
UpTools(i) ==
  /\ pc[i] = "upTools"
  /\ \/ Goto(i, "upLock") /\ UNCHANGED <<lock, failed>>
     \/ May("tools") /\ UpFails(i)
  /\ UNCHANGED <<owner, server, marker, diag, output, dirty>>

\* flock -n: a busy lock fails the invocation at once.
UpLock(i) ==
  /\ pc[i] = "upLock"
  /\ \/ Acquire(i) /\ Goto(i, "check") /\ UNCHANGED failed
     \/ lock # NoOne /\ UpFails(i)
  /\ UNCHANGED <<owner, server, marker, diag, output, dirty>>

\* k3d cluster list must succeed and show no cluster of that name.
AbsentOrUnknown == owner = NoOne \/ May("query")  \* mutant: k3d cluster get
ProvenAbsent == owner = NoOne

UpCheck(i) ==
  /\ pc[i] = "check"
  /\ \/ ProvenAbsent /\ Goto(i, "create") /\ UNCHANGED <<lock, failed>>
     \/ (owner # NoOne \/ May("query")) /\ UpFails(i)
  /\ UNCHANGED <<owner, server, marker, diag, output, dirty>>

\* k3d cluster create has started; nodes with the fixed name may exist.
BeginCreate(i) ==
  /\ pc[i] = "create"
  /\ IF owner = NoOne THEN owner' = i ELSE UNCHANGED owner
  /\ Goto(i, "creating")
  /\ UNCHANGED <<lock, server, marker, diag, output, failed, dirty>>

\* What k3d cluster create leaves behind when it ends: a whole cluster, or a
\* rollback by name, complete or not.
CreateSucceeds(i) == owner = i /\ server' = i /\ UNCHANGED owner
CreateRollsBack(i) ==
  /\ owner # i \/ May("create")
  /\ \/ owner' = NoOne /\ server' = NoOne
     \/ UNCHANGED owner /\ server' \in {NoOne, owner}

EndCreate(i) ==
  /\ pc[i] = "creating"
  /\ \/ /\ CreateSucceeds(i)
        /\ Goto(i, IF i \in Runs THEN "mark" ELSE "unlock")
        /\ UNCHANGED <<lock, failed>>
     \/ CreateRollsBack(i) /\ UpFails(i)
  /\ UNCHANGED <<marker, diag, output, dirty>>

\* docker ps gives the server container ID for the ownership marker.
Mark(i) ==
  /\ pc[i] = "mark"
  /\ \/ /\ server # NoOne
        /\ marker' = [marker EXCEPT ![i] = server]
        /\ Goto(i, "unlock")
        /\ UNCHANGED <<lock, failed>>
     \/ /\ server = NoOne \/ May("query")
        /\ UpFails(i)
        /\ UNCHANGED marker
  /\ UNCHANGED <<owner, server, diag, output, dirty>>

Unlock(i) ==
  /\ pc[i] = "unlock"
  /\ Release(i)
  /\ Goto(i, "kubeconfig")
  /\ UNCHANGED <<owner, server, marker, diag, output, failed, dirty>>

\* k3d kubeconfig get names the cluster, so it fetches whatever exists now; a
\* failure leaves the file truncated by the redirection.
FetchKubeconfig(i) ==
  /\ pc[i] = "kubeconfig"
  /\ \/ /\ server # NoOne
        /\ output' = [output EXCEPT ![CheckoutOf[i]] = server]
        /\ diag' = [diag EXCEPT ![i] = marker[i]]
        /\ Goto(i, "deploy")
        /\ UNCHANGED <<lock, failed>>
     \/ /\ server = NoOne \/ May("query")
        /\ output' = [output EXCEPT ![CheckoutOf[i]] = NoOne]
        /\ UpFails(i)
        /\ UNCHANGED diag
  /\ UNCHANGED <<owner, server, marker, dirty>>

\* kubectl reaches a cluster only through the kubeconfig of the checkout.
Reachable(i) == server # NoOne /\ output[CheckoutOf[i]] = server

Deploy(i) ==
  /\ pc[i] = "deploy"
  /\ \/ /\ Reachable(i)
        /\ Goto(i, IF i \in Runs THEN "verify" ELSE "done")
        /\ UNCHANGED <<lock, failed>>
     \/ UpFails(i)
  /\ UNCHANGED <<owner, server, marker, diag, output, dirty>>

-----------------------------------------------------------------------------
(* local-up.sh: diagnostics of a failed bootstrap, under the lock.         *)

EndDiagnosticsOpen(i) == UNCHANGED lock /\ Goto(i, AfterUp(i))  \* mutant: descriptor 9 survives the trap
EndDiagnostics(i) == Release(i) /\ Goto(i, AfterUp(i))

DiagLock(i) ==
  /\ pc[i] = "diagLock"
  /\ \/ Acquire(i) /\ Goto(i, "diagCheck")
     \/ lock # NoOne /\ May("timeout") /\ EndDiagnostics(i)
  /\ UNCHANGED <<owner, server, marker, diag, output, failed, dirty>>

\* Only the cluster whose server ID local-up.sh recorded is inspected.
AnyServer(i) == server # NoOne  \* mutant: the ID is not compared
SameServer(i) == server # NoOne /\ server = diag[i]

DiagCheck(i) ==
  /\ pc[i] = "diagCheck"
  /\ \/ SameServer(i) /\ Goto(i, "diagnose") /\ UNCHANGED lock
     \/ (~SameServer(i) \/ May("query")) /\ EndDiagnostics(i)
  /\ UNCHANGED <<owner, server, marker, diag, output, failed, dirty>>

Diagnose(i) ==
  /\ pc[i] = "diagnose"
  /\ EndDiagnostics(i)
  /\ UNCHANGED <<owner, server, marker, diag, output, failed, dirty>>

-----------------------------------------------------------------------------
(* local-run.sh: baseline, runtime and shared-gate verification.           *)
Verify(i) ==
  /\ pc[i] = "verify"
  /\ (Reachable(i) /\ UNCHANGED failed) \/ Fail(i)
  /\ Goto(i, AfterUp(i))
  /\ UNCHANGED <<lock, owner, server, marker, diag, output, dirty>>

-----------------------------------------------------------------------------
(* local-down.sh: owned (with a marker) or explicit delete.                *)

DownTools(i) ==
  /\ pc[i] = "downTools"
  /\ UNCHANGED dirty \/ (May("tools") /\ Dirty(i))
  /\ Goto(i, "downLock")
  /\ UNCHANGED <<lock, owner, server, marker, diag, output, failed>>

\* flock -w 300
DownLock(i) ==
  /\ pc[i] = "downLock"
  /\ \/ /\ Acquire(i)
        /\ Goto(i, IF i \in Downs THEN "delete" ELSE "downCheck")
        /\ UNCHANGED dirty
     \/ lock # NoOne /\ May("timeout") /\ Dirty(i) /\ Goto(i, "done") /\ UNCHANGED lock
  /\ UNCHANGED <<owner, server, marker, diag, output, failed>>

\* Owned mode goes on only with a proof: the cluster is absent, or its server
\* ID is the one in the marker.
OwnedByName(i) == owner = NoOne \/ server # NoOne  \* mutant: the ID is not compared
Owned(i) == owner = NoOne \/ (server # NoOne /\ server = marker[i])

DownCheck(i) ==
  /\ pc[i] = "downCheck"
  /\ \/ Owned(i) /\ Goto(i, "delete") /\ UNCHANGED <<lock, dirty>>
     \/ (~Owned(i) \/ May("query")) /\ Dirty(i) /\ Release(i) /\ Goto(i, "done")
  /\ UNCHANGED <<owner, server, marker, diag, output, failed>>

\* k3d cluster get decides whether there is something to delete; it cannot
\* tell absence from a failed query.
DeleteKeepsServer == owner # NoOne /\ owner' = NoOne /\ UNCHANGED server  \* mutant
DeleteOk == owner # NoOne /\ owner' = NoOne /\ server' = NoOne
DeleteFails ==
  /\ owner # NoOne /\ May("delete")
  /\ \/ owner' = NoOne /\ server' = NoOne
     \/ UNCHANGED owner /\ server' \in {NoOne, server}
NothingToDelete == (owner = NoOne \/ May("query")) /\ UNCHANGED <<owner, server>>

Delete(i) ==
  /\ pc[i] = "delete"
  /\ \/ (DeleteOk \/ NothingToDelete) /\ UNCHANGED dirty
     \/ DeleteFails /\ Dirty(i)
  /\ Goto(i, "removeOutput")
  /\ UNCHANGED <<lock, marker, diag, output, failed>>

\* The credentials go even when the delete failed.
RemoveOutput(i) ==
  /\ pc[i] = "removeOutput"
  /\ \/ output' = [output EXCEPT ![CheckoutOf[i]] = NoOne] /\ UNCHANGED dirty
     \/ May("output") /\ Dirty(i) /\ UNCHANGED output
  /\ Goto(i, "residual")
  /\ UNCHANGED <<lock, owner, server, marker, diag, failed>>

\* A residual cluster is seen by k3d or by docker, and a query that fails
\* counts as a residue too.
ResidueUnseen == owner = NoOne \/ May("query")  \* mutant: a failed query passes
NoResidue == owner = NoOne

Residual(i) ==
  /\ pc[i] = "residual"
  /\ \/ NoResidue /\ UNCHANGED dirty
     \/ (owner # NoOne \/ May("query") \/ May("delete")) /\ Dirty(i)
  /\ Release(i)
  /\ Goto(i, "done")
  /\ UNCHANGED <<owner, server, marker, diag, output, failed>>

-----------------------------------------------------------------------------
(* Death of an invocation: no trap runs and its descriptors are closed.    *)
(* Killed in the middle of a create or a delete, it leaves a cluster with  *)
(* or without its server container.  A k3d process that outlives its shell *)
(* has inherited descriptor 9 and keeps the lock: that is EndCreate or     *)
(* Delete followed by the Kill.                                            *)
Kill(i) ==
  /\ May("kill")
  /\ pc[i] \notin Ended
  /\ \/ UNCHANGED server
     \/ pc[i] = "creating" /\ owner = i /\ server' = i
     \/ pc[i] = "delete" /\ server' = NoOne
  /\ Goto(i, "killed")
  /\ Release(i)
  /\ UNCHANGED <<owner, marker, diag, output, failed, dirty>>

-----------------------------------------------------------------------------
Up(i) == \/ UpTools(i) \/ UpLock(i) \/ UpCheck(i) \/ BeginCreate(i) \/ EndCreate(i)
         \/ Mark(i) \/ Unlock(i) \/ FetchKubeconfig(i) \/ Deploy(i)
Diagnostics(i) == DiagLock(i) \/ DiagCheck(i) \/ Diagnose(i)
Down(i) == \/ DownTools(i) \/ DownLock(i) \/ DownCheck(i) \/ Delete(i)
           \/ RemoveOutput(i) \/ Residual(i)

Step(i) == Up(i) \/ Diagnostics(i) \/ Verify(i) \/ Down(i)

\* The system stops when every invocation has ended.
AllEnded == (\A i \in Invocations : pc[i] \in Ended) /\ UNCHANGED vars

Next == (\E i \in Invocations : Step(i) \/ Kill(i)) \/ AllEnded

Spec == Init /\ [][Next]_vars

\* A script runs until it ends, and flock grants a free lock to a waiter.
FairSpec == Spec /\ \A i \in Invocations : WF_vars(Step(i))
=============================================================================
