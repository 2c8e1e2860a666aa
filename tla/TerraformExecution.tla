------------------------ MODULE TerraformExecution -------------------------
(***************************************************************************)
(* One remote-state stack under the P6 gate: the dispatches of             *)
(* .github/workflows/azure-execution.yml that run scripts/azure-execution.py*)
(* gate and execute.                                                       *)
(*                                                                         *)
(* The workflow's concurrency group runs one dispatch at a time.  Beside it*)
(* main moves, the approval window passes, objects change or disappear in  *)
(* Azure without Terraform, and an operator changes the state by hand.     *)
(* Terraform refuses a saved plan when the state is no longer the one it   *)
(* was made for, and holds the state lock while it applies; a run that     *)
(* fails or is killed may leave it, and the script releases none.          *)
(***************************************************************************)
EXTENDS Integers, FiniteSets

CONSTANTS
  Dispatches,  \* dispatched workflow runs
  Approval,    \* Approval[d]: [operation, policy, count] that the run is given
  Managed,     \* the addresses in the stack's source
  Server,      \* the PostgreSQL server, if it is in the stack
  NoOne,       \* nobody holds the state lock
  Until,       \* the tick at which the approvals expire
  Horizon,     \* bound on time
  Outside      \* bound on changes made outside the dispatches

Operations == {"plan", "apply", "destroy"}
Policies == {"none", "rotation"}  \* rotation: password version 1 to 2

ASSUME ApprovalAssumption ==
  /\ IsFiniteSet(Managed)
  /\ Approval \in [Dispatches -> [operation : Operations, policy : Policies, count : Nat \ {0}]]
  /\ \A d \in Dispatches : Approval[d].policy = "rotation" => Approval[d].operation # "destroy"
  /\ NoOne \notin Dispatches
  /\ Until \in Nat /\ Horizon \in Nat /\ Outside \in Nat

\* An object's attributes: password version (1 for all other objects), changed
\* in a configured attribute, or in one the configuration does not name.
Objects == {"v1", "v2", "edited", "noisy"}
Values == Objects \cup {"absent"}

VARIABLES
  now,       \* ticks; an approval is valid before Until
  main,      \* "approved" while main is the approved source
  pc,        \* pc[d]: the next command of the run
  plan,      \* plan[d]: the saved plan and the state serial it was made for
  listed,    \* listed[d]: terraform state list, before a destroy
  todo,      \* todo[d]: addresses the running apply has not dealt with
  state,     \* the remote state
  serial,    \* its serial
  lock,      \* holder of the state lock
  cloud,     \* the objects in Azure
  outside    \* number of changes made by others

runVars == <<pc, plan, listed, todo>>
stackVars == <<state, serial, lock, cloud>>
worldVars == <<now, main, outside>>
vars == <<runVars, stackVars, worldVars>>

Ended == {"refused", "done", "failed", "killed"}
Steps == {"enter", "init", "recheck", "plan", "list", "guard", "confirm", "apply", "applying", "inventory"}

Present(s) == {a \in Managed : s[a] # "absent"}
NoPlan == [serial |-> 0, before |-> [a \in Managed |-> "absent"], prior |-> [a \in Managed |-> "absent"],
           actions |-> [a \in Managed |-> "no-op"]]

Init ==
  /\ now = 0 /\ main = "approved" /\ outside = 0
  /\ pc = [d \in Dispatches |-> "gate"]
  /\ plan = [d \in Dispatches |-> NoPlan]
  /\ listed = [d \in Dispatches |-> {}] /\ todo = [d \in Dispatches |-> {}]
  /\ state \in {[a \in Managed |-> "absent"], [a \in Managed |-> "v1"]} /\ cloud = state
  /\ serial = 0 /\ lock = NoOne

At(d, from, to) == pc[d] = from /\ pc' = [pc EXCEPT ![d] = to]

-----------------------------------------------------------------------------
(* validate() and check_source(): the approval window and the exact source.*)

Approved == now < Until /\ main = "approved"
Idle(d) == \A e \in Dispatches \ {d} : pc[e] \in Ended \cup {"gate"}

\* Only one run of the concurrency group is active.
Gate(d) ==
  /\ Idle(d) /\ Approved
  /\ At(d, "gate", "enter")
  /\ UNCHANGED <<plan, listed, todo, stackVars, worldVars>>

Enter(d) == Approved /\ At(d, "enter", "init") /\ UNCHANGED <<plan, listed, todo, stackVars, worldVars>>

InitBackend(d) == At(d, "init", "recheck") /\ UNCHANGED <<plan, listed, todo, stackVars, worldVars>>

Recheck(d) == Approved /\ At(d, "recheck", "plan") /\ UNCHANGED <<plan, listed, todo, stackVars, worldVars>>

-----------------------------------------------------------------------------
(* The plan is made for the refreshed state and guarded.                   *)

Wanted(d, a) == IF a = Server /\ Approval[d].policy = "rotation" THEN "v2" ELSE "v1"

\* Drift outside the configuration needs no change.
Action(d, a) ==
  IF Approval[d].operation = "destroy"
  THEN IF cloud[a] = "absent" \/ state[a] = "absent" THEN {"no-op"} ELSE {"delete"}
  ELSE IF cloud[a] = "absent" \/ state[a] = "absent" THEN {"create"}
  ELSE IF cloud[a] \in {Wanted(d, a), "noisy"} /\ ~(cloud[a] = "noisy" /\ Wanted(d, a) = "v2")
  THEN {"no-op"}
  ELSE {"update", "replace"}

Plan(d) ==
  /\ At(d, "plan", IF Approval[d].operation = "destroy" THEN "list" ELSE "guard")
  /\ lock = NoOne
  /\ \E actions \in [Managed -> {"no-op", "create", "update", "replace", "delete"}] :
       /\ \A a \in Managed : actions[a] \in Action(d, a)
       /\ plan' = [plan EXCEPT ![d] = [serial |-> serial, before |-> cloud, prior |-> state, actions |-> actions]]
  /\ UNCHANGED <<listed, todo, stackVars, worldVars>>

List(d) ==
  /\ At(d, "list", "guard")
  /\ listed' = [listed EXCEPT ![d] = Present(state)]
  /\ UNCHANGED <<plan, todo, stackVars, worldVars>>

Deletes(d) == {a \in Managed : plan[d].actions[a] = "delete"}
Drifted(d) == {a \in Managed : plan[d].prior[a] # "absent" /\ plan[d].prior[a] # plan[d].before[a]}

\* validate_destroy: exactly the live state, at the approved count.
DestroyAnySet(d) == Cardinality(Deletes(d)) <= Approval[d].count  \* mutant: a bound instead of the set
DestroyGuard(d) ==
  /\ Cardinality(listed[d]) = Approval[d].count
  /\ Deletes(d) = listed[d]

\* Without a policy an existing server is not changed by an apply.
ServerNotReplaced(d) == plan[d].actions[Server] # "replace"  \* mutant: an update is not looked for
ServerGuard(d) ==
  Approval[d].operation = "apply" => plan[d].actions[Server] \in {"no-op", "create"}

\* The rotation: the server from version 1 to 2, and nothing else; an object
\* may have drifted, but not have disappeared.
ServerUpdated(d) == plan[d].actions[Server] = "update"  \* mutant: the other objects are not looked at
RotationGuard(d) ==
  /\ \A a \in Drifted(d) : plan[d].before[a] # "absent"
  /\ plan[d].actions[Server] = "update" /\ plan[d].before[Server] \in {"v1", "noisy"}
  /\ \A a \in Managed \ {Server} : plan[d].actions[a] = "no-op"

Accepted(d) ==
  IF Approval[d].operation = "destroy" THEN DestroyGuard(d)
  ELSE IF Approval[d].policy = "rotation" THEN RotationGuard(d)
  ELSE Server \in Managed => ServerGuard(d)

Guard(d) ==
  /\ Accepted(d)
  /\ At(d, "guard", IF Approval[d].operation = "plan" THEN "inventory" ELSE "confirm")
  /\ UNCHANGED <<plan, listed, todo, stackVars, worldVars>>

-----------------------------------------------------------------------------
(* The saved plan is applied.                                              *)

Unconfirmed == TRUE  \* mutant: the approval is not looked at again
StillApproved == Approved
Confirm(d) ==
  /\ StillApproved
  /\ At(d, "confirm", "apply")
  /\ UNCHANGED <<plan, listed, todo, stackVars, worldVars>>

\* Terraform: a stale plan is refused.
Stale(d) == TRUE  \* mutant: the configuration is applied, not the saved plan
Current(d) == plan[d].serial = serial
Apply(d) ==
  /\ At(d, "apply", "applying")
  /\ lock = NoOne /\ Current(d)
  /\ lock' = d
  /\ todo' = [todo EXCEPT ![d] = {a \in Managed : plan[d].actions[a] # "no-op"}]
  /\ UNCHANGED <<plan, listed, state, serial, cloud, worldVars>>

After(d, a) == IF plan[d].actions[a] = "delete" THEN "absent" ELSE Wanted(d, a)

\* An object that exists is not created, one that is gone not updated.
Possible(d) ==
  {a \in todo[d] : /\ plan[d].actions[a] = "create" => cloud[a] = "absent"
                   /\ plan[d].actions[a] = "update" => cloud[a] # "absent"}

\* One object and its entry in the state.
ApplyOne(d) ==
  /\ pc[d] = "applying"
  /\ \E a \in Possible(d) :
       /\ cloud' = [cloud EXCEPT ![a] = After(d, a)]
       /\ state' = [state EXCEPT ![a] = After(d, a)]
       /\ todo' = [todo EXCEPT ![d] = @ \ {a}]
  /\ serial' = serial + 1
  /\ UNCHANGED <<pc, plan, listed, lock, worldVars>>

ApplyEnds(d) ==
  /\ todo[d] = {} /\ At(d, "applying", "inventory")
  /\ lock' = NoOne
  /\ UNCHANGED <<plan, listed, todo, state, serial, cloud, worldVars>>

\* The temporary directory goes with the run.
Discard(d) ==
  /\ plan' = [plan EXCEPT ![d] = NoPlan]
  /\ listed' = [listed EXCEPT ![d] = {}] /\ todo' = [todo EXCEPT ![d] = {}]

Inventory(d) == At(d, "inventory", "done") /\ Discard(d) /\ UNCHANGED <<stackVars, worldVars>>

\* Any check or command may refuse or fail.  Whether a failed terraform has given
\* its lock back the script does not know: it leaves lock and state to an operator.
Fail(d) ==
  /\ pc[d] \in Steps
  /\ pc' = [pc EXCEPT ![d] = IF @ \in {"enter", "init"} THEN "refused" ELSE "failed"]
  /\ lock' \in {lock, IF lock = d THEN NoOne ELSE lock}
  /\ Discard(d) /\ UNCHANGED <<state, serial, cloud, worldVars>>

\* Cancellation or the end of the runner: an object may have been changed
\* that the state does not know of.  Nobody holds the plan any more.
Kill(d) ==
  /\ pc[d] \in Steps
  /\ pc' = [pc EXCEPT ![d] = "killed"]
  /\ \/ UNCHANGED cloud
     \/ \E a \in Possible(d) : pc[d] = "applying" /\ cloud' = [cloud EXCEPT ![a] = After(d, a)]
  /\ Discard(d) /\ UNCHANGED <<state, serial, lock, worldVars>>

-----------------------------------------------------------------------------
(* Everybody else.                                                         *)

Other == outside < Outside /\ outside' = outside + 1 /\ UNCHANGED <<runVars, now, main>>

Drift ==
  /\ Other
  /\ \E a \in Managed : \E v \in {"edited", "noisy", "absent"} :
       cloud[a] # "absent" /\ cloud' = [cloud EXCEPT ![a] = v]
  /\ UNCHANGED <<state, serial, lock>>

\* An operator breaks a lock nobody uses any more, forgets an object or
\* imports one.
Operator ==
  /\ Other
  /\ \/ lock # NoOne /\ pc[lock] \in {"failed", "killed"} /\ lock' = NoOne /\ UNCHANGED <<state, serial>>
     \/ lock = NoOne /\ serial' = serial + 1 /\ UNCHANGED lock
        /\ \E a \in Managed : state' = [state EXCEPT ![a] = IF @ = "absent" THEN cloud[a] ELSE "absent"]
  /\ UNCHANGED cloud

MainMoves == main = "approved" /\ main' = "moved" /\ UNCHANGED <<runVars, stackVars, now, outside>>
Tick == now < Horizon /\ now' = now + 1 /\ UNCHANGED <<runVars, stackVars, main, outside>>

-----------------------------------------------------------------------------
Run(d) ==
  \/ Enter(d) \/ InitBackend(d) \/ Recheck(d) \/ Plan(d) \/ List(d) \/ Guard(d) \/ Confirm(d)
  \/ Apply(d) \/ ApplyOne(d) \/ ApplyEnds(d) \/ Inventory(d) \/ Fail(d)

Next ==
  \/ \E d \in Dispatches : Gate(d) \/ Run(d) \/ Kill(d)
  \/ Drift \/ Operator \/ MainMoves \/ Tick

Spec == Init /\ [][Next]_vars
=============================================================================
