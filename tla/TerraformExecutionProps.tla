---------------------- MODULE TerraformExecutionProps -----------------------
EXTENDS TerraformExecution

(* Every run is at a step of execute(); only a run that applies, or failed  *)
(* or was killed at it, has the state lock, and nobody has work without it. *)
TypeInv ==
  /\ now \in 0..Horizon /\ main \in {"approved", "moved"} /\ outside \in 0..Outside
  /\ pc \in [Dispatches -> Steps \cup Ended \cup {"gate"}]
  /\ listed \in [Dispatches -> SUBSET Managed] /\ todo \in [Dispatches -> SUBSET Managed]
  /\ state \in [Managed -> Values] /\ cloud \in [Managed -> Values]
  /\ serial \in Nat /\ lock \in Dispatches \cup {NoOne}
  /\ \A d \in Dispatches :
       /\ lock = d => pc[d] \in {"applying", "failed", "killed"}
       /\ todo[d] # {} => pc[d] = "applying" /\ lock = d

(* Once main has moved or the approval has expired, a run that has not yet  *)
(* passed its last check never applies: a plan cannot outlive its approval *)
(* by being made early (the validate and check_source before apply).        *)
NoLateApply ==
  \A d \in Dispatches :
    [](~Approved /\ pc[d] \in {"recheck", "plan", "list", "guard", "confirm"} => [](pc[d] # "applying"))

(* The serial stands for the state: an apply begins on the state its plan   *)
(* was made for, and until it ends nobody else changes it, although plan,  *)
(* approval and apply are far apart and a run that stops may leave the lock.*)
Basis == [d \in Dispatches |-> IF pc[d] \in {"list", "guard", "confirm", "apply", "applying"}
                               THEN {plan[d].prior} ELSE {}]
Store == INSTANCE CurrentPlans
  WITH Clients <- Dispatches, Documents <- [Managed -> Values], Nobody <- NoOne,
       document <- state, holder <- lock, basis <- Basis
StoreSpec == Store!Spec

(* The commands a run may still have before it, and the objects its apply    *)
(* has not dealt with.                                                     *)
CommandsLeft(p) ==
  CASE p = "gate" -> 11 [] p = "enter" -> 10 [] p = "init" -> 9 [] p = "recheck" -> 8 [] p = "plan" -> 7
    [] p = "list" -> 6 [] p = "guard" -> 5 [] p = "confirm" -> 4 [] p = "apply" -> 3 [] p = "applying" -> 2
    [] p = "inventory" -> 1 [] OTHER -> 0
ObjectsLeft(d) == IF CommandsLeft(pc[d]) > 2 THEN Cardinality(Managed) ELSE Cardinality(todo[d])
StepsLeft(d) == CommandsLeft(pc[d]) + ObjectsLeft(d)

(* execute(): no command and no object has a second turn, whatever drifts,  *)
(* fails or is changed by others meanwhile; a run and its lock are bounded  *)
(* by the stack it is about.                                               *)
FiniteDispatch ==
  [][\A d \in Dispatches :
       /\ StepsLeft(d)' \in 0 .. StepsLeft(d)
       /\ Gate(d) \/ Run(d) \/ Kill(d) => StepsLeft(d)' # StepsLeft(d)]_vars

(* execute() from plan to apply: the plan that is applied is still approved *)
(* and still the plan of this state, and each object of it has one turn.   *)
PlansStayCurrent == NoLateApply /\ StoreSpec /\ FiniteDispatch

(* What a destroy still has to delete is always exactly what the state still*)
(* holds: it began with the whole state at the approved count, whatever    *)
(* disappeared from Azure or changed in the state since it was planned      *)
(* (validate_destroy and the refusal of stale plans).                      *)
DestroyIsExact ==
  \A d \in Dispatches :
    pc[d] = "applying" /\ Approval[d].operation = "destroy" =>
      /\ todo[d] = Present(state)
      /\ Cardinality(listed[d]) = Approval[d].count

(* execute() at every step: the lock discipline and the exact destroy.      *)
StackSafe == TypeInv /\ DestroyIsExact

(* An existing server is changed by a dispatch only if that runs under the  *)
(* rotation policy or is a destroy, also when the server drifted after the  *)
(* guard looked at the plan (POLICY_REQUIRED).                              *)
ServerUntouched ==
  [][cloud[Server] # "absent" /\ cloud'[Server] # cloud[Server] /\ outside' = outside
     => \E d \in Dispatches :
          /\ pc[d] = "applying"
          /\ (Approval[d].policy = "rotation" \/ Approval[d].operation = "destroy")]_vars

(* A rotation leaves every object but the server as it is, in Azure and in  *)
(* the state, whatever drifted before it was planned.                      *)
RotationOnly ==
  [][\A d \in Dispatches :
       pc[d] = "applying" /\ Approval[d].policy = "rotation" /\ outside' = outside
       => \A a \in Managed \ {Server} : cloud'[a] = cloud[a] /\ state'[a] = state[a]]_vars

(* What an apply may change of a stack in use: nothing of its server without *)
(* the rotation policy, and nothing but the server with it.                *)
OnlyApprovedChanges == ServerUntouched /\ RotationOnly
=============================================================================
