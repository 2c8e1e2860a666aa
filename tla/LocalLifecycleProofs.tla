------------------------ MODULE LocalLifecycleProofs ------------------------
(***************************************************************************)
(* Proofs about LocalLifecycle for every set of invocations and checkouts  *)
(* and every set of faults.                                                *)
(*                                                                         *)
(* The argument rests on IInv: an invocation is between its lock and its   *)
(* unlock exactly when it holds the flock (LockInv), so what it has seen   *)
(* of the cluster there cannot change under it (SeenInv); a cluster exists *)
(* only after its creator got past create (FreshInv); and whatever is      *)
(* written to a kubeconfig is the cluster of that moment (CredentialInv).  *)
(***************************************************************************)
EXTENDS LocalLifecycleProps, TLAPS

BeforeCreate == {"upTools", "upLock", "check", "create"}

LockInv == \A i \in Invocations : pc[i] \in Locked <=> lock = i

FreshInv ==
  \A i \in Invocations :
    pc[i] \in BeforeCreate =>
      /\ owner # i /\ marker[i] = NoOne /\ diag[i] = NoOne
      /\ \A c \in Checkouts : output[c] # i

MarkInv ==
  \A i \in Invocations :
    /\ marker[i] \in {NoOne, i}
    /\ diag[i] \in {NoOne, i}
    /\ pc[i] \in {"creating", "mark", "unlock", "kubeconfig"} => diag[i] = NoOne
    /\ pc[i] \in {"diagLock", "diagCheck", "diagnose"} => diag[i] = i

SeenInv ==
  \A i \in Invocations :
    /\ pc[i] = "create" => owner = NoOne
    /\ pc[i] \in {"creating", "mark", "unlock"} => owner = i
    /\ pc[i] = "diagnose" => server = i
    /\ pc[i] \in {"delete", "removeOutput", "residual"} /\ i \notin Downs
         => owner \in {NoOne, i}

CredentialInv ==
  \A i \in Invocations :
    diag[i] = i /\ owner = i => output[CheckoutOf[i]] \in {NoOne, i}

IInv ==
  /\ TypeInv
  /\ LockInv
  /\ FreshInv
  /\ MarkInv
  /\ SeenInv
  /\ CredentialInv

-----------------------------------------------------------------------------
(* Types.                                                                  *)

LEMMA InitType == Init => TypeInv
  BY InvocationsAssumption DEF Init, TypeInv, Labels, Locked, Ended

\* Every step keeps the types.  What docker answers, and so what is written to
\* a marker or a kubeconfig, is a server ID or nothing.
LEMMA TypeStep == TypeInv /\ [Next]_vars => TypeInv'
<1> SUFFICES ASSUME TypeInv, [Next]_vars PROVE TypeInv'
  OBVIOUS
<1> USE InvocationsAssumption
<1> USE DEF TypeInv, Labels, Locked, Ended,
            Goto, Fail, Dirty, May, Acquire, Release, AfterUp, UpFails, EndDiagnostics
<1>1. ASSUME NEW i \in Invocations, UpTools(i) PROVE TypeInv'
  BY <1>1 DEF UpTools
<1>2. ASSUME NEW i \in Invocations, UpLock(i) PROVE TypeInv'
  BY <1>2 DEF UpLock
<1>3. ASSUME NEW i \in Invocations, UpCheck(i) PROVE TypeInv'
  BY <1>3 DEF UpCheck, ProvenAbsent
<1>4. ASSUME NEW i \in Invocations, BeginCreate(i) PROVE TypeInv'
  BY <1>4 DEF BeginCreate
<1>5. ASSUME NEW i \in Invocations, EndCreate(i) PROVE TypeInv'
  BY <1>5 DEF EndCreate, CreateSucceeds, CreateRollsBack
<1>6. ASSUME NEW i \in Invocations, Mark(i) PROVE TypeInv'
  <2>1. server \in Invocations \cup {NoOne}
    OBVIOUS
  <2>2. marker' \in [Invocations -> Invocations \cup {NoOne}]
    BY <1>6, <2>1 DEF Mark
  <2> QED
    BY <1>6, <2>2 DEF Mark
<1>7. ASSUME NEW i \in Invocations, Unlock(i) PROVE TypeInv'
  BY <1>7 DEF Unlock
<1>8. ASSUME NEW i \in Invocations, FetchKubeconfig(i) PROVE TypeInv'
  <2>1. server \in Invocations \cup {NoOne}
    OBVIOUS
  <2>2. output' \in [Checkouts -> Invocations \cup {NoOne}]
    BY <1>8, <2>1 DEF FetchKubeconfig
  <2> QED
    BY <1>8, <2>2 DEF FetchKubeconfig
<1>9. ASSUME NEW i \in Invocations, Deploy(i) PROVE TypeInv'
  BY <1>9 DEF Deploy, Reachable
<1>10. ASSUME NEW i \in Invocations, DiagLock(i) PROVE TypeInv'
  BY <1>10 DEF DiagLock
<1>11. ASSUME NEW i \in Invocations, DiagCheck(i) PROVE TypeInv'
  BY <1>11 DEF DiagCheck, SameServer
<1>12. ASSUME NEW i \in Invocations, Diagnose(i) PROVE TypeInv'
  BY <1>12 DEF Diagnose
<1>13. ASSUME NEW i \in Invocations, Verify(i) PROVE TypeInv'
  BY <1>13 DEF Verify, Reachable
<1>14. ASSUME NEW i \in Invocations, DownTools(i) PROVE TypeInv'
  BY <1>14 DEF DownTools
<1>15. ASSUME NEW i \in Invocations, DownLock(i) PROVE TypeInv'
  BY <1>15 DEF DownLock
<1>16. ASSUME NEW i \in Invocations, DownCheck(i) PROVE TypeInv'
  BY <1>16 DEF DownCheck, Owned
<1>17. ASSUME NEW i \in Invocations, Delete(i) PROVE TypeInv'
  BY <1>17 DEF Delete, DeleteOk, DeleteFails, NothingToDelete
<1>18. ASSUME NEW i \in Invocations, RemoveOutput(i) PROVE TypeInv'
  BY <1>18 DEF RemoveOutput
<1>19. ASSUME NEW i \in Invocations, Residual(i) PROVE TypeInv'
  BY <1>19 DEF Residual, NoResidue
<1>20. ASSUME NEW i \in Invocations, Kill(i) PROVE TypeInv'
  BY <1>20 DEF Kill, Ended
<1>21. CASE UNCHANGED vars
  BY <1>21 DEF vars
<1> QED
  BY <1>1, <1>2, <1>3, <1>4, <1>5, <1>6, <1>7, <1>8, <1>9, <1>10, <1>11, <1>12, <1>13, <1>14, <1>15, <1>16, <1>17, <1>18, <1>19, <1>20, <1>21
  DEF Next, Step, Up, Diagnostics, Down, AllEnded

\* The variables of the lifecycle have their types in every reachable state.
THEOREM TypeCorrect == Spec => []TypeInv
<1>1. Init => TypeInv
  BY InitType
<1>2. TypeInv /\ [Next]_vars => TypeInv'
  BY TypeStep
<1> QED
  BY <1>1, <1>2, PTL DEF Spec

-----------------------------------------------------------------------------
(* The inductive invariant.                                                *)

LEMMA InitInv == Init => IInv
<1> SUFFICES ASSUME Init PROVE IInv
  OBVIOUS
<1>1. TypeInv
  BY InitType
<1>2. LockInv
  BY InvocationsAssumption DEF Init, LockInv, Locked
<1>3. FreshInv /\ MarkInv /\ SeenInv /\ CredentialInv
  BY InvocationsAssumption
  DEF Init, FreshInv, BeforeCreate, MarkInv, SeenInv, CredentialInv
<1> QED
  BY <1>1, <1>2, <1>3 DEF IInv

\* Every step of every invocation keeps IInv.
LEMMA InvStep == IInv /\ [Next]_vars => IInv'
<1> SUFFICES ASSUME IInv, [Next]_vars PROVE IInv'
  OBVIOUS
<1>0. TypeInv'
  BY TypeStep DEF IInv
<1> USE <1>0, InvocationsAssumption
<1> USE DEF IInv, TypeInv, LockInv, FreshInv, MarkInv, SeenInv, CredentialInv,
            BeforeCreate, Labels, Locked, Ended,
            Goto, Fail, Dirty, May, Acquire, Release, AfterUp, UpFails, EndDiagnostics
<1>1. ASSUME NEW i \in Invocations, UpTools(i) PROVE IInv'
  BY <1>1 DEF UpTools
<1>2. ASSUME NEW i \in Invocations, UpLock(i) PROVE IInv'
  BY <1>2 DEF UpLock
<1>3. ASSUME NEW i \in Invocations, UpCheck(i) PROVE IInv'
  BY <1>3 DEF UpCheck, ProvenAbsent
<1>4. ASSUME NEW i \in Invocations, BeginCreate(i) PROVE IInv'
  BY <1>4 DEF BeginCreate
<1>5. ASSUME NEW i \in Invocations, EndCreate(i) PROVE IInv'
  BY <1>5 DEF EndCreate, CreateSucceeds, CreateRollsBack
<1>6. ASSUME NEW i \in Invocations, Mark(i) PROVE IInv'
  BY <1>6 DEF Mark
<1>7. ASSUME NEW i \in Invocations, Unlock(i) PROVE IInv'
  BY <1>7 DEF Unlock
<1>8. ASSUME NEW i \in Invocations, FetchKubeconfig(i) PROVE IInv'
  BY <1>8 DEF FetchKubeconfig
<1>9. ASSUME NEW i \in Invocations, Deploy(i) PROVE IInv'
  BY <1>9 DEF Deploy, Reachable
<1>10. ASSUME NEW i \in Invocations, DiagLock(i) PROVE IInv'
  BY <1>10 DEF DiagLock
<1>11. ASSUME NEW i \in Invocations, DiagCheck(i) PROVE IInv'
  BY <1>11 DEF DiagCheck, SameServer
<1>12. ASSUME NEW i \in Invocations, Diagnose(i) PROVE IInv'
  BY <1>12 DEF Diagnose
<1>13. ASSUME NEW i \in Invocations, Verify(i) PROVE IInv'
  BY <1>13 DEF Verify, Reachable
<1>14. ASSUME NEW i \in Invocations, DownTools(i) PROVE IInv'
  BY <1>14 DEF DownTools
<1>15. ASSUME NEW i \in Invocations, DownLock(i) PROVE IInv'
  BY <1>15 DEF DownLock
<1>16. ASSUME NEW i \in Invocations, DownCheck(i) PROVE IInv'
  BY <1>16 DEF DownCheck, Owned
<1>17. ASSUME NEW i \in Invocations, Delete(i) PROVE IInv'
  BY <1>17 DEF Delete, DeleteOk, DeleteFails, NothingToDelete
<1>18. ASSUME NEW i \in Invocations, RemoveOutput(i) PROVE IInv'
  BY <1>18 DEF RemoveOutput
<1>19. ASSUME NEW i \in Invocations, Residual(i) PROVE IInv'
  BY <1>19 DEF Residual, NoResidue
<1>20. ASSUME NEW i \in Invocations, Kill(i) PROVE IInv'
  BY <1>20 DEF Kill, Ended
<1>21. CASE UNCHANGED vars
  BY <1>21 DEF vars
<1> QED
  BY <1>1, <1>2, <1>3, <1>4, <1>5, <1>6, <1>7, <1>8, <1>9, <1>10, <1>11, <1>12, <1>13, <1>14, <1>15, <1>16, <1>17, <1>18, <1>19, <1>20, <1>21
  DEF Next, Step, Up, Diagnostics, Down, AllEnded
\* IInv holds in every reachable state.
THEOREM Invariance == Spec => []IInv
<1>1. Init => IInv
  BY InitInv
<1>2. IInv /\ [Next]_vars => IInv'
  BY InvStep
<1> QED
  BY <1>1, <1>2, PTL DEF Spec

-----------------------------------------------------------------------------
(* What the lifecycle promises.                                            *)

\* A k3d create never runs beside the cluster of another invocation.
THEOREM CreateAlone == Spec => []NoCreateOverAnother
<1>1. IInv => NoCreateOverAnother
  BY DEF IInv, SeenInv, NoCreateOverAnother
<1> QED
  BY <1>1, Invariance, PTL

\* A marker never names a cluster of another invocation.
THEOREM MarkerIsOwn == Spec => []MarkerNamesOwnCluster
<1>1. IInv => MarkerNamesOwnCluster
  BY DEF IInv, MarkInv, MarkerNamesOwnCluster
<1> QED
  BY <1>1, Invariance, PTL

\* Bootstrap diagnostics inspect only the cluster of their invocation.
THEOREM DiagnosticsAreOwn == Spec => []DiagnosticsInspectOwnCluster
<1>1. IInv => DiagnosticsInspectOwnCluster
  <2> SUFFICES ASSUME IInv, NEW i \in Invocations, pc[i] = "diagnose"
               PROVE  server = i /\ output[CheckoutOf[i]] \in {i, NoOne}
    BY DEF DiagnosticsInspectOwnCluster
  <2>1. server = i /\ diag[i] = i
    BY DEF IInv, SeenInv, MarkInv
  <2>2. owner = i
    BY <2>1, InvocationsAssumption DEF IInv, TypeInv
  <2> QED
    BY <2>1, <2>2 DEF IInv, CredentialInv
<1> QED
  BY <1>1, Invariance, PTL

\* A cluster disappears only through its creator or an explicit make down.
THEOREM RemovalIsAuthorised == Spec => OnlyCreatorOrExplicitDownRemoves
<1> DEFINE Authorised ==
      owner # NoOne /\ owner' # owner =>
        \E i \in Invocations :
          /\ i = owner \/ i \in Downs
          /\ pc[i] \in {"creating", "delete"} /\ pc'[i] \notin {pc[i], "killed"}
<1>1. ASSUME IInv, Next PROVE Authorised
  <2> SUFFICES ASSUME owner # NoOne, owner' # owner
               PROVE  Authorised
    OBVIOUS
  <2>1. PICK i \in Invocations : BeginCreate(i) \/ EndCreate(i) \/ Delete(i)
    BY <1>1
    DEF Next, Step, Up, Diagnostics, Down, AllEnded, vars, UpTools, UpLock,
        UpCheck, Mark, Unlock, FetchKubeconfig, Deploy, DiagLock, DiagCheck,
        Diagnose, Verify, DownTools, DownLock, DownCheck, RemoveOutput,
        Residual, Kill
  <2>2. ~BeginCreate(i)
    BY DEF BeginCreate
  <2>3. CASE EndCreate(i)
    <3>1. pc[i] = "creating" /\ owner = i
      BY <1>1, <2>3 DEF EndCreate, IInv, SeenInv
    <3>2. pc'[i] \notin {pc[i], "killed"}
      BY <1>1, <2>3, <3>1
      DEF EndCreate, UpFails, AfterUp, Goto, IInv, TypeInv
    <3> QED
      BY <3>1, <3>2
  <2>4. CASE Delete(i)
    <3>1. pc[i] = "delete" /\ (owner = i \/ i \in Downs)
      BY <1>1, <2>4 DEF Delete, IInv, SeenInv
    <3>2. pc'[i] \notin {pc[i], "killed"}
      BY <1>1, <2>4, <3>1 DEF Delete, Goto, IInv, TypeInv
    <3> QED
      BY <3>1, <3>2
  <2> QED
    BY <2>1, <2>2, <2>3, <2>4
<1>2. IInv /\ [Next]_vars => [Authorised]_vars
  BY <1>1
<1> QED
  BY <1>2, Invariance, PTL DEF Spec, OnlyCreatorOrExplicitDownRemoves

\* The owned cleanup of an invocation removes no credentials of another
\* existing cluster.
THEOREM CleanupIsOwn == Spec => CleanupSparesForeignCredentials
<1> DEFINE Spared ==
      \A i \in Runs :
        pc[i] = "removeOutput" /\ pc'[i] = "residual" =>
          LET holder == output[CheckoutOf[i]]
          IN holder \in {NoOne, i} \/ holder # owner \/ output' = output
<1>1. IInv => Spared
  <2> SUFFICES ASSUME IInv, NEW i \in Runs, pc[i] = "removeOutput"
               PROVE  owner \in {NoOne, i}
    OBVIOUS
  <2>1. i \in Invocations /\ i \notin Downs
    BY InvocationsAssumption DEF Invocations
  <2> QED
    BY <2>1 DEF IInv, SeenInv
<1>2. IInv /\ [Next]_vars => [Spared]_vars
  BY <1>1
<1> QED
  BY <1>2, Invariance, PTL DEF Spec, CleanupSparesForeignCredentials

-----------------------------------------------------------------------------
(* Before an explicit make down gets the lock.                             *)

\* An invocation keeps its cluster, and the kubeconfig of its checkout, from
\* the release of the lock to its cleanup.
KeptInv ==
  NoExplicitDown =>
    \A i \in Invocations :
      /\ pc[i] = "kubeconfig" => owner = i
      /\ pc[i] \in {"deploy", "verify"} => owner = i /\ output[CheckoutOf[i]] = i

\* A make down goes through the steps of local-down.sh only, and back to none
\* of them.
DownInv ==
  \A d \in Downs :
    pc[d] \in {"downTools", "downLock", "delete", "removeOutput", "residual", "done", "killed"}

LEMMA DownStep ==
  IInv /\ DownInv /\ [Next]_vars => DownInv' /\ (NoExplicitDown' => NoExplicitDown)
<1> SUFFICES ASSUME IInv, DownInv, [Next]_vars, NEW d \in Downs
             PROVE  /\ pc'[d] \in {"downTools", "downLock", "delete", "removeOutput", "residual", "done", "killed"}
                    /\ pc'[d] \in {"downTools", "downLock"} => pc[d] \in {"downTools", "downLock"}
  BY DEF DownInv, NoExplicitDown
<1> DEFINE Goal ==
      /\ pc'[d] \in {"downTools", "downLock", "delete", "removeOutput", "residual", "done", "killed"}
      /\ pc'[d] \in {"downTools", "downLock"} => pc[d] \in {"downTools", "downLock"}
<1> d \in Invocations /\ d \notin Runs /\ d \notin Ups
  BY InvocationsAssumption DEF Invocations
<1> USE DEF DownInv, IInv, TypeInv, Goto, AfterUp, UpFails, EndDiagnostics
<1>1. ASSUME NEW i \in Invocations, UpTools(i) PROVE Goal
  BY <1>1 DEF UpTools
<1>2. ASSUME NEW i \in Invocations, UpLock(i) PROVE Goal
  BY <1>2 DEF UpLock
<1>3. ASSUME NEW i \in Invocations, UpCheck(i) PROVE Goal
  BY <1>3 DEF UpCheck, ProvenAbsent
<1>4. ASSUME NEW i \in Invocations, BeginCreate(i) PROVE Goal
  BY <1>4 DEF BeginCreate
<1>5. ASSUME NEW i \in Invocations, EndCreate(i) PROVE Goal
  BY <1>5 DEF EndCreate, CreateSucceeds, CreateRollsBack
<1>6. ASSUME NEW i \in Invocations, Mark(i) PROVE Goal
  BY <1>6 DEF Mark
<1>7. ASSUME NEW i \in Invocations, Unlock(i) PROVE Goal
  BY <1>7 DEF Unlock
<1>8. ASSUME NEW i \in Invocations, FetchKubeconfig(i) PROVE Goal
  BY <1>8 DEF FetchKubeconfig
<1>9. ASSUME NEW i \in Invocations, Deploy(i) PROVE Goal
  BY <1>9 DEF Deploy, Reachable
<1>10. ASSUME NEW i \in Invocations, DiagLock(i) PROVE Goal
  BY <1>10 DEF DiagLock
<1>11. ASSUME NEW i \in Invocations, DiagCheck(i) PROVE Goal
  BY <1>11 DEF DiagCheck, SameServer
<1>12. ASSUME NEW i \in Invocations, Diagnose(i) PROVE Goal
  BY <1>12 DEF Diagnose
<1>13. ASSUME NEW i \in Invocations, Verify(i) PROVE Goal
  BY <1>13 DEF Verify, Reachable
<1>14. ASSUME NEW i \in Invocations, DownTools(i) PROVE Goal
  BY <1>14 DEF DownTools
<1>15. ASSUME NEW i \in Invocations, DownLock(i) PROVE Goal
  BY <1>15 DEF DownLock
<1>16. ASSUME NEW i \in Invocations, DownCheck(i) PROVE Goal
  BY <1>16 DEF DownCheck, Owned
<1>17. ASSUME NEW i \in Invocations, Delete(i) PROVE Goal
  BY <1>17 DEF Delete, DeleteOk, DeleteFails, NothingToDelete
<1>18. ASSUME NEW i \in Invocations, RemoveOutput(i) PROVE Goal
  BY <1>18 DEF RemoveOutput
<1>19. ASSUME NEW i \in Invocations, Residual(i) PROVE Goal
  BY <1>19 DEF Residual, NoResidue
<1>20. ASSUME NEW i \in Invocations, Kill(i) PROVE Goal
  BY <1>20 DEF Kill, Ended
<1>21. CASE UNCHANGED vars
  BY <1>21 DEF vars
<1> QED
  BY <1>1, <1>2, <1>3, <1>4, <1>5, <1>6, <1>7, <1>8, <1>9, <1>10, <1>11, <1>12, <1>13, <1>14, <1>15, <1>16, <1>17, <1>18, <1>19, <1>20, <1>21
  DEF Next, Step, Up, Diagnostics, Down, AllEnded

LEMMA KeptStep == IInv /\ DownInv /\ KeptInv /\ [Next]_vars => KeptInv'
<1> SUFFICES ASSUME IInv, DownInv, KeptInv, [Next]_vars, NoExplicitDown, NoExplicitDown'
             PROVE  KeptInv'
  BY DownStep DEF KeptInv
<1> USE InvocationsAssumption
<1> USE DEF KeptInv, IInv, TypeInv, LockInv, SeenInv, Labels, Locked, Ended,
            Goto, Fail, Dirty, May, Acquire, Release, AfterUp, UpFails, EndDiagnostics
<1>0. ASSUME NEW i \in Invocations, pc[i] \in {"delete", "removeOutput", "residual"}
      PROVE  i \notin Downs
  BY <1>0 DEF NoExplicitDown
<1>1. ASSUME NEW i \in Invocations, UpTools(i) PROVE KeptInv'
  BY <1>1 DEF UpTools
<1>2. ASSUME NEW i \in Invocations, UpLock(i) PROVE KeptInv'
  BY <1>2 DEF UpLock
<1>3. ASSUME NEW i \in Invocations, UpCheck(i) PROVE KeptInv'
  BY <1>3 DEF UpCheck, ProvenAbsent
<1>4. ASSUME NEW i \in Invocations, BeginCreate(i) PROVE KeptInv'
  BY <1>4 DEF BeginCreate
<1>5. ASSUME NEW i \in Invocations, EndCreate(i) PROVE KeptInv'
  BY <1>5 DEF EndCreate, CreateSucceeds, CreateRollsBack
<1>6. ASSUME NEW i \in Invocations, Mark(i) PROVE KeptInv'
  BY <1>6 DEF Mark
<1>7. ASSUME NEW i \in Invocations, Unlock(i) PROVE KeptInv'
  BY <1>7 DEF Unlock
<1>8. ASSUME NEW i \in Invocations, FetchKubeconfig(i) PROVE KeptInv'
  BY <1>8 DEF FetchKubeconfig
<1>9. ASSUME NEW i \in Invocations, Deploy(i) PROVE KeptInv'
  BY <1>9 DEF Deploy, Reachable
<1>10. ASSUME NEW i \in Invocations, DiagLock(i) PROVE KeptInv'
  BY <1>10 DEF DiagLock
<1>11. ASSUME NEW i \in Invocations, DiagCheck(i) PROVE KeptInv'
  BY <1>11 DEF DiagCheck, SameServer
<1>12. ASSUME NEW i \in Invocations, Diagnose(i) PROVE KeptInv'
  BY <1>12 DEF Diagnose
<1>13. ASSUME NEW i \in Invocations, Verify(i) PROVE KeptInv'
  BY <1>13 DEF Verify, Reachable
<1>14. ASSUME NEW i \in Invocations, DownTools(i) PROVE KeptInv'
  BY <1>14 DEF DownTools
<1>15. ASSUME NEW i \in Invocations, DownLock(i) PROVE KeptInv'
  BY <1>15 DEF DownLock
<1>16. ASSUME NEW i \in Invocations, DownCheck(i) PROVE KeptInv'
  BY <1>16 DEF DownCheck, Owned
<1>17. ASSUME NEW i \in Invocations, Delete(i) PROVE KeptInv'
  BY <1>0, <1>17 DEF Delete, DeleteOk, DeleteFails, NothingToDelete
<1>18. ASSUME NEW i \in Invocations, RemoveOutput(i) PROVE KeptInv'
  BY <1>0, <1>18 DEF RemoveOutput
<1>19. ASSUME NEW i \in Invocations, Residual(i) PROVE KeptInv'
  BY <1>19 DEF Residual, NoResidue
<1>20. ASSUME NEW i \in Invocations, Kill(i) PROVE KeptInv'
  BY <1>20 DEF Kill, Ended
<1>21. CASE UNCHANGED vars
  BY <1>21 DEF vars
<1> QED
  BY <1>1, <1>2, <1>3, <1>4, <1>5, <1>6, <1>7, <1>8, <1>9, <1>10, <1>11, <1>12, <1>13, <1>14, <1>15, <1>16, <1>17, <1>18, <1>19, <1>20, <1>21
  DEF Next, Step, Up, Diagnostics, Down, AllEnded

\* Until an explicit down gets the lock, kubectl work goes to the cluster of its invocation.
THEOREM WorkIsOwn == Spec => []WorkReachesOwnCluster
<1>1. Init => DownInv /\ KeptInv
  <2>1. ASSUME NEW d \in Downs PROVE d \in Invocations
    BY DEF Invocations
  <2> QED
    BY <2>1 DEF Init, DownInv, KeptInv
<1>2. KeptInv => WorkReachesOwnCluster
  BY DEF KeptInv, WorkReachesOwnCluster
<1> QED
  BY <1>1, <1>2, DownStep, KeptStep, Invariance, PTL DEF Spec

-----------------------------------------------------------------------------
(* What a clean end of local-down.sh leaves behind.                        *)

\* The credentials are removed before the residual check and may be fetched
\* again by an invocation that has freed the lock: only from a cluster that is
\* still there, and that nobody but the holder of the lock could remove.
ResidueInv ==
  \A i \in Invocations :
    pc[i] = "residual" /\ ~dirty[i] /\ owner = NoOne => output[CheckoutOf[i]] = NoOne

\* Every step of every invocation keeps ResidueInv.
LEMMA ResidueStep == IInv /\ ResidueInv /\ [Next]_vars => ResidueInv'
<1> SUFFICES ASSUME IInv, ResidueInv, [Next]_vars PROVE ResidueInv'
  OBVIOUS
<1> USE InvocationsAssumption
<1> USE DEF ResidueInv, IInv, TypeInv, LockInv, Labels, Locked, Ended,
            Goto, Fail, Dirty, May, Acquire, Release, AfterUp, UpFails, EndDiagnostics
<1>1. ASSUME NEW i \in Invocations, UpTools(i) PROVE ResidueInv'
  BY <1>1 DEF UpTools
<1>2. ASSUME NEW i \in Invocations, UpLock(i) PROVE ResidueInv'
  BY <1>2 DEF UpLock
<1>3. ASSUME NEW i \in Invocations, UpCheck(i) PROVE ResidueInv'
  BY <1>3 DEF UpCheck, ProvenAbsent
<1>4. ASSUME NEW i \in Invocations, BeginCreate(i) PROVE ResidueInv'
  BY <1>4 DEF BeginCreate
<1>5. ASSUME NEW i \in Invocations, EndCreate(i) PROVE ResidueInv'
  BY <1>5 DEF EndCreate, CreateSucceeds, CreateRollsBack
<1>6. ASSUME NEW i \in Invocations, Mark(i) PROVE ResidueInv'
  BY <1>6 DEF Mark
<1>7. ASSUME NEW i \in Invocations, Unlock(i) PROVE ResidueInv'
  BY <1>7 DEF Unlock
<1>8. ASSUME NEW i \in Invocations, FetchKubeconfig(i) PROVE ResidueInv'
  BY <1>8 DEF FetchKubeconfig
<1>9. ASSUME NEW i \in Invocations, Deploy(i) PROVE ResidueInv'
  BY <1>9 DEF Deploy, Reachable
<1>10. ASSUME NEW i \in Invocations, DiagLock(i) PROVE ResidueInv'
  BY <1>10 DEF DiagLock
<1>11. ASSUME NEW i \in Invocations, DiagCheck(i) PROVE ResidueInv'
  BY <1>11 DEF DiagCheck, SameServer
<1>12. ASSUME NEW i \in Invocations, Diagnose(i) PROVE ResidueInv'
  BY <1>12 DEF Diagnose
<1>13. ASSUME NEW i \in Invocations, Verify(i) PROVE ResidueInv'
  BY <1>13 DEF Verify, Reachable
<1>14. ASSUME NEW i \in Invocations, DownTools(i) PROVE ResidueInv'
  BY <1>14 DEF DownTools
<1>15. ASSUME NEW i \in Invocations, DownLock(i) PROVE ResidueInv'
  BY <1>15 DEF DownLock
<1>16. ASSUME NEW i \in Invocations, DownCheck(i) PROVE ResidueInv'
  BY <1>16 DEF DownCheck, Owned
<1>17. ASSUME NEW i \in Invocations, Delete(i) PROVE ResidueInv'
  BY <1>17 DEF Delete, DeleteOk, DeleteFails, NothingToDelete
<1>18. ASSUME NEW i \in Invocations, RemoveOutput(i) PROVE ResidueInv'
  BY <1>18 DEF RemoveOutput
<1>19. ASSUME NEW i \in Invocations, Residual(i) PROVE ResidueInv'
  BY <1>19 DEF Residual, NoResidue
<1>20. ASSUME NEW i \in Invocations, Kill(i) PROVE ResidueInv'
  BY <1>20 DEF Kill, Ended
<1>21. CASE UNCHANGED vars
  BY <1>21 DEF vars
<1> QED
  BY <1>1, <1>2, <1>3, <1>4, <1>5, <1>6, <1>7, <1>8, <1>9, <1>10, <1>11, <1>12, <1>13, <1>14, <1>15, <1>16, <1>17, <1>18, <1>19, <1>20, <1>21
  DEF Next, Step, Up, Diagnostics, Down, AllEnded

\* local-down.sh that ends without an error has left no cluster and no
\* credentials in its checkout.
THEOREM CleanEndIsClean == Spec => CleanExitLeavesNothing
<1> DEFINE Clean ==
      \A i \in Invocations :
        pc[i] = "residual" /\ pc'[i] = "done" /\ ~dirty'[i] =>
          owner' = NoOne /\ output'[CheckoutOf[i]] = NoOne
<1>1. Init => ResidueInv
  BY DEF Init, ResidueInv
<1>2. ASSUME IInv, ResidueInv, Next PROVE Clean
  <2> SUFFICES ASSUME NEW i \in Invocations, pc[i] = "residual", pc'[i] = "done", ~dirty'[i]
               PROVE  owner' = NoOne /\ output'[CheckoutOf[i]] = NoOne
    OBVIOUS
  <2>1. Residual(i)
    <3>1. PICK j \in Invocations : Step(j) \/ Kill(j)
      BY <1>2 DEF Next, AllEnded, vars
    <3>2. PICK l : Goto(j, l)
      BY <3>1
      DEF Step, Up, Diagnostics, Down, UpTools, UpLock, UpCheck, BeginCreate, EndCreate, Mark, Unlock,
          FetchKubeconfig, Deploy, DiagLock, DiagCheck, Diagnose, Verify, DownTools, DownLock, DownCheck,
          Delete, RemoveOutput, Residual, Kill, UpFails, EndDiagnostics
    <3>3. j = i
      BY <1>2, <3>2 DEF Goto, IInv, TypeInv
    <3>4. ~Kill(i)
      BY <1>2 DEF Kill, Goto, IInv, TypeInv
    <3> QED
      BY <3>1, <3>3, <3>4
      DEF Step, Up, Diagnostics, Down, UpTools, UpLock, UpCheck, BeginCreate, EndCreate, Mark, Unlock,
          FetchKubeconfig, Deploy, DiagLock, DiagCheck, Diagnose, Verify, DownTools, DownLock, DownCheck,
          Delete, RemoveOutput
  <2>2. ~dirty[i] /\ owner = NoOne
    BY <1>2, <2>1 DEF Residual, NoResidue, Dirty, IInv, TypeInv
  <2> QED
    BY <1>2, <2>1, <2>2 DEF Residual, ResidueInv
<1>3. IInv /\ ResidueInv /\ [Next]_vars => [Clean]_vars
  BY <1>2
<1> QED
  BY <1>1, <1>3, ResidueStep, Invariance, PTL DEF Spec, CleanExitLeavesNothing

-----------------------------------------------------------------------------
(* The cluster as a resource under one name and one lock.                  *)

\* Every step takes, uses or gives back the lock as the abstract resource
\* allows: LockInv says that the steps inside the lock are its holder's, SeenInv
\* that what a create or a removal finds is what was checked.
LEMMA ResourceStep == IInv /\ [Next]_vars => [Cluster!Next]_<<lock, owner>>
<1> SUFFICES ASSUME IInv, [Next]_vars PROVE [Cluster!Next]_<<lock, owner>>
  OBVIOUS
<1> USE InvocationsAssumption
<1> USE DEF IInv, TypeInv, LockInv, SeenInv, Labels, Locked, Ended, Acquire, Release,
            UpFails, EndDiagnostics,
            Cluster!Next, Cluster!Take, Cluster!Give, Cluster!Create, Cluster!Remove
<1>1. ASSUME NEW i \in Invocations, UpTools(i) PROVE [Cluster!Next]_<<lock, owner>>
  BY <1>1 DEF UpTools
<1>2. ASSUME NEW i \in Invocations, UpLock(i) PROVE [Cluster!Next]_<<lock, owner>>
  BY <1>2 DEF UpLock
<1>3. ASSUME NEW i \in Invocations, UpCheck(i) PROVE [Cluster!Next]_<<lock, owner>>
  BY <1>3 DEF UpCheck, ProvenAbsent
<1>4. ASSUME NEW i \in Invocations, BeginCreate(i) PROVE [Cluster!Next]_<<lock, owner>>
  BY <1>4 DEF BeginCreate
<1>5. ASSUME NEW i \in Invocations, EndCreate(i) PROVE [Cluster!Next]_<<lock, owner>>
  BY <1>5 DEF EndCreate, CreateSucceeds, CreateRollsBack
<1>6. ASSUME NEW i \in Invocations, Mark(i) PROVE [Cluster!Next]_<<lock, owner>>
  BY <1>6 DEF Mark
<1>7. ASSUME NEW i \in Invocations, Unlock(i) PROVE [Cluster!Next]_<<lock, owner>>
  BY <1>7 DEF Unlock
<1>8. ASSUME NEW i \in Invocations, FetchKubeconfig(i) PROVE [Cluster!Next]_<<lock, owner>>
  BY <1>8 DEF FetchKubeconfig
<1>9. ASSUME NEW i \in Invocations, Deploy(i) PROVE [Cluster!Next]_<<lock, owner>>
  BY <1>9 DEF Deploy, Reachable
<1>10. ASSUME NEW i \in Invocations, DiagLock(i) PROVE [Cluster!Next]_<<lock, owner>>
  BY <1>10 DEF DiagLock
<1>11. ASSUME NEW i \in Invocations, DiagCheck(i) PROVE [Cluster!Next]_<<lock, owner>>
  BY <1>11 DEF DiagCheck, SameServer
<1>12. ASSUME NEW i \in Invocations, Diagnose(i) PROVE [Cluster!Next]_<<lock, owner>>
  BY <1>12 DEF Diagnose
<1>13. ASSUME NEW i \in Invocations, Verify(i) PROVE [Cluster!Next]_<<lock, owner>>
  BY <1>13 DEF Verify, Reachable
<1>14. ASSUME NEW i \in Invocations, DownTools(i) PROVE [Cluster!Next]_<<lock, owner>>
  BY <1>14 DEF DownTools
<1>15. ASSUME NEW i \in Invocations, DownLock(i) PROVE [Cluster!Next]_<<lock, owner>>
  BY <1>15 DEF DownLock
<1>16. ASSUME NEW i \in Invocations, DownCheck(i) PROVE [Cluster!Next]_<<lock, owner>>
  BY <1>16 DEF DownCheck, Owned
<1>17. ASSUME NEW i \in Invocations, Delete(i) PROVE [Cluster!Next]_<<lock, owner>>
  BY <1>17 DEF Delete, DeleteOk, DeleteFails, NothingToDelete
<1>18. ASSUME NEW i \in Invocations, RemoveOutput(i) PROVE [Cluster!Next]_<<lock, owner>>
  BY <1>18 DEF RemoveOutput
<1>19. ASSUME NEW i \in Invocations, Residual(i) PROVE [Cluster!Next]_<<lock, owner>>
  BY <1>19 DEF Residual, NoResidue
<1>20. ASSUME NEW i \in Invocations, Kill(i) PROVE [Cluster!Next]_<<lock, owner>>
  BY <1>20 DEF Kill, Ended
<1>21. CASE UNCHANGED vars
  BY <1>21 DEF vars
<1> QED
  BY <1>1, <1>2, <1>3, <1>4, <1>5, <1>6, <1>7, <1>8, <1>9, <1>10, <1>11, <1>12, <1>13, <1>14, <1>15, <1>16, <1>17, <1>18, <1>19, <1>20, <1>21
  DEF Next, Step, Up, Diagnostics, Down, AllEnded

\* Several make local, make up and make down on one host treat the cluster as
\* a resource that only the holder of the lock creates, where there is none, and
\* removes, if it is its own or explicitly.
THEOREM ImplementsResource == Spec => ClusterSpec
<1>1. Init => Cluster!Init
  BY DEF Init, Cluster!Init
<1> QED
  BY <1>1, ResourceStep, Invariance, PTL DEF Spec, ClusterSpec, Cluster!Spec

-----------------------------------------------------------------------------
(* What a make local that has ended leaves behind.                         *)

\* From the lock's release on, a make local has its marker; whoever ends with a
\* cluster in place ends through a failure, of its cleanup or before its marker.
TraceInv ==
  /\ NothingLeftSilently
  /\ \A i \in Runs :
       /\ pc[i] \in {"unlock", "kubeconfig", "deploy", "verify"} => marker[i] = i
       /\ diag[i] # NoOne => marker[i] = i

\* Every step of every invocation keeps TraceInv.
LEMMA TraceStep == IInv /\ TraceInv /\ [Next]_vars => TraceInv'
<1> SUFFICES ASSUME IInv, TraceInv, [Next]_vars PROVE TraceInv'
  OBVIOUS
<1> USE InvocationsAssumption
<1> USE DEF TraceInv, NothingLeftSilently, IInv, TypeInv, LockInv, MarkInv, SeenInv, Labels, Locked, Ended,
            Goto, Fail, Dirty, May, Acquire, Release, AfterUp, UpFails, EndDiagnostics
<1>0. Runs \subseteq Invocations
  BY DEF Invocations
<1> USE <1>0
<1>1. ASSUME NEW i \in Invocations, UpTools(i) PROVE TraceInv'
  BY <1>1 DEF UpTools
<1>2. ASSUME NEW i \in Invocations, UpLock(i) PROVE TraceInv'
  BY <1>2 DEF UpLock
<1>3. ASSUME NEW i \in Invocations, UpCheck(i) PROVE TraceInv'
  BY <1>3 DEF UpCheck, ProvenAbsent
<1>4. ASSUME NEW i \in Invocations, BeginCreate(i) PROVE TraceInv'
  BY <1>4 DEF BeginCreate
<1>5. ASSUME NEW i \in Invocations, EndCreate(i) PROVE TraceInv'
  BY <1>5 DEF EndCreate, CreateSucceeds, CreateRollsBack
<1>6. ASSUME NEW i \in Invocations, Mark(i) PROVE TraceInv'
  BY <1>6 DEF Mark
<1>7. ASSUME NEW i \in Invocations, Unlock(i) PROVE TraceInv'
  BY <1>7 DEF Unlock
<1>8. ASSUME NEW i \in Invocations, FetchKubeconfig(i) PROVE TraceInv'
  BY <1>8 DEF FetchKubeconfig
<1>9. ASSUME NEW i \in Invocations, Deploy(i) PROVE TraceInv'
  BY <1>9 DEF Deploy, Reachable
<1>10. ASSUME NEW i \in Invocations, DiagLock(i) PROVE TraceInv'
  BY <1>10 DEF DiagLock
<1>11. ASSUME NEW i \in Invocations, DiagCheck(i) PROVE TraceInv'
  BY <1>11 DEF DiagCheck, SameServer
<1>12. ASSUME NEW i \in Invocations, Diagnose(i) PROVE TraceInv'
  BY <1>12 DEF Diagnose
<1>13. ASSUME NEW i \in Invocations, Verify(i) PROVE TraceInv'
  BY <1>13 DEF Verify, Reachable
<1>14. ASSUME NEW i \in Invocations, DownTools(i) PROVE TraceInv'
  BY <1>14 DEF DownTools
<1>15. ASSUME NEW i \in Invocations, DownLock(i) PROVE TraceInv'
  BY <1>15 DEF DownLock
<1>16. ASSUME NEW i \in Invocations, DownCheck(i) PROVE TraceInv'
  BY <1>16 DEF DownCheck, Owned
<1>17. ASSUME NEW i \in Invocations, Delete(i) PROVE TraceInv'
  BY <1>17 DEF Delete, DeleteOk, DeleteFails, NothingToDelete
<1>18. ASSUME NEW i \in Invocations, RemoveOutput(i) PROVE TraceInv'
  BY <1>18 DEF RemoveOutput
<1>19. ASSUME NEW i \in Invocations, Residual(i) PROVE TraceInv'
  BY <1>19 DEF Residual, NoResidue
<1>20. ASSUME NEW i \in Invocations, Kill(i) PROVE TraceInv'
  BY <1>20 DEF Kill, Ended
<1>21. CASE UNCHANGED vars
  BY <1>21 DEF vars
<1> QED
  BY <1>1, <1>2, <1>3, <1>4, <1>5, <1>6, <1>7, <1>8, <1>9, <1>10, <1>11, <1>12, <1>13, <1>14, <1>15, <1>16, <1>17, <1>18, <1>19, <1>20, <1>21
  DEF Next, Step, Up, Diagnostics, Down, AllEnded

\* A make local that has ended unkilled with its cluster in place ended with an
\* error: its cleanup failed, or it could never name its cluster.
THEOREM NothingIsLeftSilently == Spec => []NothingLeftSilently
<1>1. Init => TraceInv
  <2>1. Runs \subseteq Invocations /\ Runs \cap Downs = {}
    BY InvocationsAssumption DEF Invocations
  <2> QED
    BY <2>1 DEF Init, TraceInv, NothingLeftSilently
<1>2. TraceInv => NothingLeftSilently
  BY DEF TraceInv
<1> QED
  BY <1>1, <1>2, TraceStep, Invariance, PTL DEF Spec

-----------------------------------------------------------------------------
(* Every invocation gets to its end.                                       *)

\* An invocation moves forward in its script, and moves no other.
LEMMA StepForward ==
  ASSUME TypeInv, NEW i \in Invocations, Step(i) \/ Kill(i)
  PROVE  /\ CommandsLeft(i)' < CommandsLeft(i)
         /\ \A j \in Invocations \ {i} : pc'[j] = pc[j]
<1> DEFINE Forward == /\ CommandsLeft(i)' < CommandsLeft(i)
                      /\ \A j \in Invocations \ {i} : pc'[j] = pc[j]
<1> USE DEF Goto, AfterUp, UpFails, EndDiagnostics
<1>0. pc \in [Invocations -> Labels]
  BY DEF TypeInv
<1> USE <1>0
<1>1. ASSUME UpTools(i) PROVE Forward
  <2>1. pc[i] = "upTools" /\ pc'[i] \in {"upLock", "diagLock", "downTools", "done"}
    BY <1>1 DEF UpTools
  <2>2. \A j \in Invocations \ {i} : pc'[j] = pc[j]
    BY <1>1 DEF UpTools
  <2> QED
    BY <2>1, <2>2 DEF CommandsLeft
<1>2. ASSUME UpLock(i) PROVE Forward
  <2>1. pc[i] = "upLock" /\ pc'[i] \in {"check", "diagLock", "downTools", "done"}
    BY <1>2 DEF UpLock
  <2>2. \A j \in Invocations \ {i} : pc'[j] = pc[j]
    BY <1>2 DEF UpLock
  <2> QED
    BY <2>1, <2>2 DEF CommandsLeft
<1>3. ASSUME UpCheck(i) PROVE Forward
  <2>1. pc[i] = "check" /\ pc'[i] \in {"create", "diagLock", "downTools", "done"}
    BY <1>3 DEF UpCheck
  <2>2. \A j \in Invocations \ {i} : pc'[j] = pc[j]
    BY <1>3 DEF UpCheck
  <2> QED
    BY <2>1, <2>2 DEF CommandsLeft
<1>4. ASSUME BeginCreate(i) PROVE Forward
  <2>1. pc[i] = "create" /\ pc'[i] = "creating"
    BY <1>4 DEF BeginCreate
  <2>2. \A j \in Invocations \ {i} : pc'[j] = pc[j]
    BY <1>4 DEF BeginCreate
  <2> QED
    BY <2>1, <2>2 DEF CommandsLeft
<1>5. ASSUME EndCreate(i) PROVE Forward
  <2>1. pc[i] = "creating" /\ pc'[i] \in {"mark", "unlock", "diagLock", "downTools", "done"}
    BY <1>5 DEF EndCreate
  <2>2. \A j \in Invocations \ {i} : pc'[j] = pc[j]
    BY <1>5 DEF EndCreate
  <2> QED
    BY <2>1, <2>2 DEF CommandsLeft
<1>6. ASSUME Mark(i) PROVE Forward
  <2>1. pc[i] = "mark" /\ pc'[i] \in {"unlock", "diagLock", "downTools", "done"}
    BY <1>6 DEF Mark
  <2>2. \A j \in Invocations \ {i} : pc'[j] = pc[j]
    BY <1>6 DEF Mark
  <2> QED
    BY <2>1, <2>2 DEF CommandsLeft
<1>7. ASSUME Unlock(i) PROVE Forward
  <2>1. pc[i] = "unlock" /\ pc'[i] = "kubeconfig"
    BY <1>7 DEF Unlock
  <2>2. \A j \in Invocations \ {i} : pc'[j] = pc[j]
    BY <1>7 DEF Unlock
  <2> QED
    BY <2>1, <2>2 DEF CommandsLeft
<1>8. ASSUME FetchKubeconfig(i) PROVE Forward
  <2>1. pc[i] = "kubeconfig" /\ pc'[i] \in {"deploy", "diagLock", "downTools", "done"}
    BY <1>8 DEF FetchKubeconfig
  <2>2. \A j \in Invocations \ {i} : pc'[j] = pc[j]
    BY <1>8 DEF FetchKubeconfig
  <2> QED
    BY <2>1, <2>2 DEF CommandsLeft
<1>9. ASSUME Deploy(i) PROVE Forward
  <2>1. pc[i] = "deploy" /\ pc'[i] \in {"verify", "done", "diagLock", "downTools"}
    BY <1>9 DEF Deploy
  <2>2. \A j \in Invocations \ {i} : pc'[j] = pc[j]
    BY <1>9 DEF Deploy
  <2> QED
    BY <2>1, <2>2 DEF CommandsLeft
<1>10. ASSUME DiagLock(i) PROVE Forward
  <2>1. pc[i] = "diagLock" /\ pc'[i] \in {"diagCheck", "downTools", "done"}
    BY <1>10 DEF DiagLock
  <2>2. \A j \in Invocations \ {i} : pc'[j] = pc[j]
    BY <1>10 DEF DiagLock
  <2> QED
    BY <2>1, <2>2 DEF CommandsLeft
<1>11. ASSUME DiagCheck(i) PROVE Forward
  <2>1. pc[i] = "diagCheck" /\ pc'[i] \in {"diagnose", "downTools", "done"}
    BY <1>11 DEF DiagCheck
  <2>2. \A j \in Invocations \ {i} : pc'[j] = pc[j]
    BY <1>11 DEF DiagCheck
  <2> QED
    BY <2>1, <2>2 DEF CommandsLeft
<1>12. ASSUME Diagnose(i) PROVE Forward
  <2>1. pc[i] = "diagnose" /\ pc'[i] \in {"downTools", "done"}
    BY <1>12 DEF Diagnose
  <2>2. \A j \in Invocations \ {i} : pc'[j] = pc[j]
    BY <1>12 DEF Diagnose
  <2> QED
    BY <2>1, <2>2 DEF CommandsLeft
<1>13. ASSUME Verify(i) PROVE Forward
  <2>1. pc[i] = "verify" /\ pc'[i] \in {"downTools", "done"}
    BY <1>13 DEF Verify
  <2>2. \A j \in Invocations \ {i} : pc'[j] = pc[j]
    BY <1>13 DEF Verify
  <2> QED
    BY <2>1, <2>2 DEF CommandsLeft
<1>14. ASSUME DownTools(i) PROVE Forward
  <2>1. pc[i] = "downTools" /\ pc'[i] = "downLock"
    BY <1>14 DEF DownTools
  <2>2. \A j \in Invocations \ {i} : pc'[j] = pc[j]
    BY <1>14 DEF DownTools
  <2> QED
    BY <2>1, <2>2 DEF CommandsLeft
<1>15. ASSUME DownLock(i) PROVE Forward
  <2>1. pc[i] = "downLock" /\ pc'[i] \in {"delete", "downCheck", "done"}
    BY <1>15 DEF DownLock
  <2>2. \A j \in Invocations \ {i} : pc'[j] = pc[j]
    BY <1>15 DEF DownLock
  <2> QED
    BY <2>1, <2>2 DEF CommandsLeft
<1>16. ASSUME DownCheck(i) PROVE Forward
  <2>1. pc[i] = "downCheck" /\ pc'[i] \in {"delete", "done"}
    BY <1>16 DEF DownCheck
  <2>2. \A j \in Invocations \ {i} : pc'[j] = pc[j]
    BY <1>16 DEF DownCheck
  <2> QED
    BY <2>1, <2>2 DEF CommandsLeft
<1>17. ASSUME Delete(i) PROVE Forward
  <2>1. pc[i] = "delete" /\ pc'[i] = "removeOutput"
    BY <1>17 DEF Delete
  <2>2. \A j \in Invocations \ {i} : pc'[j] = pc[j]
    BY <1>17 DEF Delete
  <2> QED
    BY <2>1, <2>2 DEF CommandsLeft
<1>18. ASSUME RemoveOutput(i) PROVE Forward
  <2>1. pc[i] = "removeOutput" /\ pc'[i] = "residual"
    BY <1>18 DEF RemoveOutput
  <2>2. \A j \in Invocations \ {i} : pc'[j] = pc[j]
    BY <1>18 DEF RemoveOutput
  <2> QED
    BY <2>1, <2>2 DEF CommandsLeft
<1>19. ASSUME Residual(i) PROVE Forward
  <2>1. pc[i] = "residual" /\ pc'[i] = "done"
    BY <1>19 DEF Residual
  <2>2. \A j \in Invocations \ {i} : pc'[j] = pc[j]
    BY <1>19 DEF Residual
  <2> QED
    BY <2>1, <2>2 DEF CommandsLeft
<1>20. ASSUME Kill(i) PROVE Forward
  <2>1. pc'[i] = "killed" /\ pc[i] \in Labels \ Ended
    BY <1>20 DEF Kill
  <2>2. \A j \in Invocations \ {i} : pc'[j] = pc[j]
    BY <1>20 DEF Kill
  <2> QED
    BY <2>1, <2>2 DEF CommandsLeft, Labels, Locked, Ended
<1> QED
  BY <1>1, <1>2, <1>3, <1>4, <1>5, <1>6, <1>7, <1>8, <1>9, <1>10, <1>11, <1>12, <1>13, <1>14, <1>15, <1>16, <1>17, <1>18, <1>19, <1>20 DEF Step, Up, Diagnostics, Down

\* Every step of the three scripts is a command that one invocation had left.
THEOREM ScriptsAreFinite == Spec => FiniteScripts
<1> DEFINE Forward ==
      \E i \in Invocations :
        CommandsLeft(i)' < CommandsLeft(i) /\ \A j \in Invocations \ {i} : pc'[j] = pc[j]
<1>1. TypeInv /\ [Next]_vars => [Forward]_vars
  <2> SUFFICES ASSUME TypeInv, Next, vars' # vars PROVE Forward
    OBVIOUS
  <2>1. PICK i \in Invocations : Step(i) \/ Kill(i)
    BY DEF Next, AllEnded
  <2> QED
    BY <2>1, StepForward
<1> QED
  BY <1>1, TypeCorrect, PTL DEF Spec, FiniteScripts

\* Whoever has to wait for the lock waits for its holder, who is inside the lock
\* (LockInv) and waits for nobody.
THEOREM SomebodyGoesOn == Spec => []NobodyStands
<1>1. IInv => NobodyStands
  <2> SUFFICES ASSUME IInv, NEW i \in Invocations, pc[i] \notin Ended
               PROVE  \E j \in Invocations : CanGoOn(j)
    BY DEF NobodyStands
  <2>1. CASE lock = NoOne
    BY <2>1 DEF CanGoOn
  <2>2. CASE lock # NoOne
    <3>1. lock \in Invocations /\ pc[lock] \in Locked
      BY <2>2 DEF IInv, TypeInv, LockInv
    <3> QED
      BY <3>1 DEF CanGoOn, Locked, Ended
  <2> QED
    BY <2>1, <2>2
<1> QED
  BY <1>1, Invariance, PTL

-----------------------------------------------------------------------------
(* The properties of the runs that have several parts.                     *)

\* The cluster goes at the hands of its creator or an explicit make down, and
\* nothing happens to it outside the lock.
THEOREM ChangesAreLocked == Spec => ChangedByHolder
  BY RemovalIsAuthorised, ImplementsResource DEF ChangedByHolder

\* Every invocation gets to its end, and no local-down.sh and no make local ends
\* without an error over what it has left behind.
THEOREM EndsHonestly == Spec => EndsAreHonest
<1>1. Spec => [][NobodyStands /\ NothingLeftSilently']_vars
  BY SomebodyGoesOn, NothingIsLeftSilently, PTL
<1> QED
  BY <1>1, ScriptsAreFinite, CleanEndIsClean DEF EndsAreHonest

\* Create, marker, diagnostics and kubectl work stay on the cluster of their
\* invocation, with types for all variables.
THEOREM OwnClusterAlone == Spec => []StaysOnOwnCluster
  BY TypeCorrect, CreateAlone, MarkerIsOwn, DiagnosticsAreOwn, WorkIsOwn, PTL DEF StaysOnOwnCluster
=============================================================================
