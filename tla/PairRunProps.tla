----------------------------- MODULE PairRunProps -----------------------------
EXTENDS PairRun

(* Every variable keeps its shape; a window is open only while an arm is    *)
(* measured, and only restore() records problems.                          *)
TypeInv ==
  /\ pc \in Steps \cup Over /\ mode \in {"run", "restore"}
  /\ outcome \in {"ok", "failed", "interrupted"} /\ owned \subseteq Arms /\ arm \in Arms
  /\ problems \subseteq Steps /\ (problems # {} => mode = "restore")
  /\ objects \subseteq Objects /\ {configmap, haproxy} \subseteq Arms \cup {"base"} /\ rolling \in BOOLEAN /\ {hold, baseHold} \subseteq {"base", "pair"}
  /\ now \in 0..Horizon /\ cursor \in 1..(N + 1) /\ orphans \in [Targets -> 0..N]
  /\ row \in [Items -> Outcomes \cup {"open"}] /\ attempts \in [Items -> 0..MaxAttempts]
  /\ window \in {"closed", "open", "done"} /\ (window = "open" => pc = "measure")

(* While a run lives, every P10 object and every Pod of a pool belongs to   *)
(* an inventory it owns, wherever a step stopped halfway: what restore()    *)
(* deletes is all there is and only its own (Run.owned).                    *)
OwnershipCoversPools ==
  pc \notin Over \cup {"gate"} =>
    /\ objects \subseteq Owned
    /\ \A p \in Pools : pods[p] # "none" => p \in Owned

(* A window is only ever measured on the Pods of its own arm, with the      *)
(* running HAProxy routing to them, the held decision in place and the      *)
(* original target gone, however late Pods of the other arm or an earlier   *)
(* HAProxy end (wait_gone, pool_pods, converge).                            *)
PoolsNeverMix ==
  window # "closed" =>
    /\ \A p \in Pools : pods[p] = (IF p \in PoolsOf(arm) THEN "ready" ELSE "none")
    /\ configmap = arm /\ haproxy = arm /\ ~rolling
    /\ hold = "pair" /\ target = "stopped"

(* An invocation gets past its gate only on a fixture without objects or    *)
(* Pods of an earlier one that was killed or could not restore, with the    *)
(* original ConfigMap of HAProxy and the original target.  (Neither the     *)
(* hold nor the configuration the running HAProxy has read is looked at.)   *)
LeftoversRefused ==
  pc = "scale" => objects = {} /\ NoPods /\ configmap = "base" /\ target \in {"serving", "starting"}

(* run_pair(): what is in the cluster belongs to the run that lives, and an *)
(* arm is measured on its own part of it alone.                             *)
FixtureIsOwned == TypeInv /\ OwnershipCoversPools /\ PoolsNeverMix /\ LeftoversRefused

(* A result is saved only when the fixture is as the run found it and both *)
(* arms were judged usable; once the run is over neither changes behind it  *)
(* (run_pair() returns before finish() otherwise).  The running HAProxy has *)
(* the base configuration too, which verify() does not look at.             *)
ResultAfterRestore ==
  result # "none" =>
    /\ FixtureIsBack /\ haproxy = "base" /\ ~rolling
    /\ \A a \in Arms : verdict[a] \in {"valid", "insufficient"}
    /\ result = "conclusive" => \A a \in Arms : verdict[a] = "valid"

\* The verdict of the arm that is being concluded, before it is saved.
Accepted == pc = "drain" /\ monitor = "healthy" /\ WindowAccounts /\ Judged = "valid"

\* Attempts of a class that ended in an overload, as the clients saw it.
SeenOverloads(k) ==
  Attempted(k) - Cardinality({n \in Items : Kind[n] = k /\ row[n] = "success"})

(* In an accepted window every overload a client saw is one rejection of a  *)
(* pool, class by class, and no check is still held: nothing that looked    *)
(* like an overload came from elsewhere (client_report with                *)
(* window_accounting and accounting).                                      *)
AcceptedIsAttributed ==
  Accepted =>
    /\ \A k \in Classes : SeenOverloads(k) = rejected[k]
    /\ \A t \in Targets : Active(t) = 0

(* In the isolated arm no Critical check is rejected as long as Critical    *)
(* has no more workers than its pool has capacity, whatever Bulk does,      *)
(* unless a Critical client gave up on a check that is still held.          *)
BulkNeverRejectsCritical ==
  arm = "isolated" /\ Workers["critical"] <= Capacity /\ rejected["critical"] > 0
    => \E n \in Items : Kind[n] = "critical" /\ row[n] = "failed"

Ledger == INSTANCE ArrivalLedger WITH
  Open <- "open", closed <- window = "done"

(* Within a window drive() keeps the ledger of ArrivalLedger: each arrival  *)
(* gets one row, also one over the backlog or issued too late, and the end  *)
(* record comes after all of them.                                         *)
WindowKeepsLedger ==
  [][window = "open" /\ window' # "closed" => Ledger!Next]_<<row, window = "done">>

\* What an operation still has to do, in steps: two for each request of an attempt.
StepsLeft(s, a, p) ==
  LET rest == 4 * (MaxAttempts - a) + 2 * (2 - p)
  IN  CASE s = "planned" -> 4 * MaxAttempts + 2 [] s = "queued" -> 4 * MaxAttempts + 1
        [] s = "ready" -> rest + 2 [] s \in Targets -> rest + 1 [] OTHER -> 0
OperationLeft(n) == StepsLeft(stage[n], attempts[n], part[n])

(* In a window nobody works for ever (operation() and its retries): from    *)
(* one tick to the next each step is one of those an operation has left, or *)
(* lets go of a check nobody waits for, or ends the window.                *)
FiniteWindow ==
  [][window = "open" /\ window' # "closed" =>
       /\ \A n \in Items : OperationLeft(n)' \in 0 .. OperationLeft(n)
       /\ now' = now =>
            \/ \E n \in Items : OperationLeft(n)' < OperationLeft(n)
            \/ UNCHANGED <<stage, part, attempts>> /\ \E t \in Targets : orphans'[t] < orphans[t]
            \/ window' = "done"]_windowVars

(* Once the duration of a window is over nobody waits for somebody who      *)
(* waits: an arrival, a worker, an answer or the end of drive() goes on.    *)
NextMoves ==
  IF cursor <= N THEN At[cursor] <= now ELSE now >= Duration /\ Unfinished = {}
OperationMoves(n) ==
  \/ stage[n] = "ready" /\ \E t \in Targets : Serves(t, Kind[n])
  \/ stage[n] \in Targets
  \/ /\ stage[n] = "queued" /\ Cardinality(Busy(Kind[n])) < Workers[Kind[n]]
     /\ \A m \in Items : Kind[m] = Kind[n] /\ stage[m] = "queued" => n <= m
WindowMoves == window = "open" /\ now >= Duration => NextMoves \/ \E n \in Items : OperationMoves(n)

(* drive() promises for a window: one row for each arrival, a bounded amount *)
(* of work, and after each step one more that can be taken until it is over. *)
WindowContract == WindowKeepsLedger /\ FiniteWindow /\ [][WindowMoves']_vars

\* Everything of P10 in the cluster: objects, and Pods that outlive their pool.
Present == objects \cup {p \in Pools : pods[p] # "none"}
Alive == pc \notin Over \cup {"gate"}
Own == INSTANCE OwnedObjects WITH
  working <- Alive, owned <- IF Alive THEN Owned ELSE {}, present <- Present

(* run_pair(), Run.owned: a run begins on a fixture without any trace of    *)
(* another one, adds to it only what it has registered, and what it could  *)
(* not remove, or a kill has left behind, never grows again.               *)
KeepsToItsOwn == Own!Spec

\* The steps a run still has around its windows, at a label, in a mode and an arm.
RestoreLeft(p) ==
  CASE p = "remove" -> 11 [] p = "reap" -> 10 [] p = "route" -> 9 [] p = "restart" -> 8 [] p = "converge" -> 7
    [] p = "hold" -> 6 [] p = "serve" -> 5 [] p = "ready" -> 4 [] p = "verify" -> 3 [] p = "finish" -> 2
    [] OTHER -> 0
ArmLeft(p) ==
  CASE p \in {"scale", "remove"} -> 24 [] p \in {"vacate", "reap"} -> 23 [] p = "setup" -> 22
    [] p = "apply" -> 21 [] p = "rollout" -> 20 [] p = "route" -> 19 [] p = "restart" -> 18
    [] p = "converge" -> 17 [] p = "identify" -> 16 [] p = "warm" -> 15 [] p = "open" -> 14
    [] p = "measure" -> 13 [] p = "drain" -> 12 [] OTHER -> 0
CommandsLeft(p, m, a) ==
  IF m = "restore" THEN RestoreLeft(p)
  ELSE IF ArmLeft(p) > 0 /\ a = "shared" THEN ArmLeft(p) + 13 ELSE ArmLeft(p)
RunLeft == CommandsLeft(pc, mode, arm)

(* run_pair(), restore(): whatever raises, and whatever the controllers do, *)
(* a run takes a bounded number of steps around its windows.               *)
FiniteCommands ==
  [][Alive =>
       /\ RunLeft' \in 0 .. RunLeft
       /\ RunLeft' < RunLeft \/ UNCHANGED <<pc, processVars, arm>>]_vars

(* What run_pair() owes to the cluster it is started in: it keeps to its    *)
(* own, its windows keep their contract, and it comes to an end.           *)
PairContract == KeepsToItsOwn /\ WindowContract /\ FiniteCommands

(* An invocation that got past the gate ends, and unless it was killed it   *)
(* has judged whether the fixture is back (the finally block).              *)
RestoreIsTried ==
  pc = "scale" ~> pc = "killed" \/ (pc = "ended" /\ restored # "unknown")
=============================================================================
