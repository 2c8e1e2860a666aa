---------------------- MODULE TerraformExecutionProofs ----------------------
(***************************************************************************)
(* Proofs about the Terraform gate, for any dispatches, approvals, stack,  *)
(* expiry and number of changes made outside.                              *)
(***************************************************************************)
EXTENDS TerraformExecutionProps, FiniteSetTheorems, TLAPS

PlanTypes ==
  [serial : Nat, before : [Managed -> Values], prior : [Managed -> Values],
   actions : [Managed -> {"no-op", "create", "update", "replace", "delete"}]]

\* The state lock is held throughout an apply, and only then is there work.
LockInv ==
  \A d \in Dispatches :
    /\ pc[d] = "applying" => lock = d
    /\ lock = d => pc[d] \in {"applying", "failed", "killed"}
    /\ todo[d] # {} => pc[d] = "applying"

\* As long as the serial is the one a plan was made for, the plan and the list
\* beside it describe the state.
PlanInv ==
  \A d \in Dispatches :
    pc[d] \in {"list", "guard", "confirm", "apply"} =>
      /\ plan[d].serial <= serial
      /\ plan[d].serial = serial => plan[d].prior = state
      /\ /\ plan[d].serial = serial
         /\ Approval[d].operation = "destroy"
         /\ pc[d] # "list"
         => listed[d] = Present(state)

\* A destroy plans nothing but deletions.
DestroyInv ==
  \A d \in Dispatches :
    pc[d] \in {"list", "guard", "confirm", "apply", "applying"} /\ Approval[d].operation = "destroy"
    => \A a \in Managed : plan[d].actions[a] \in {"no-op", "delete"}

\* What is being applied was accepted by the guard.
GuardInv ==
  \A d \in Dispatches :
    pc[d] \in {"confirm", "apply", "applying"} => Accepted(d) /\ Approval[d].operation # "plan"

\* The rest of an apply: part of its plan; all of the state, if it destroys.
TodoInv ==
  \A d \in Dispatches :
    pc[d] = "applying" =>
      /\ todo[d] \subseteq {a \in Managed : plan[d].actions[a] # "no-op"}
      /\ Approval[d].operation = "destroy" => todo[d] = Present(state)

IInv ==
  /\ TypeInv /\ plan \in [Dispatches -> PlanTypes]
  /\ LockInv /\ PlanInv /\ DestroyInv /\ GuardInv /\ TodoInv

-----------------------------------------------------------------------------
USE ApprovalAssumption

LEMMA NoPlanType == NoPlan \in PlanTypes
  BY DEF NoPlan, PlanTypes, Values, Objects

LEMMA InitInv == Init => IInv
<1> SUFFICES ASSUME Init PROVE IInv
  OBVIOUS
<1>1. TypeInv
  BY DEF Init, TypeInv, Values, Objects, Steps
<1>2. plan \in [Dispatches -> PlanTypes]
  BY NoPlanType DEF Init
<1>3. LockInv /\ PlanInv /\ DestroyInv /\ GuardInv /\ TodoInv
  BY DEF Init, LockInv, PlanInv, DestroyInv, GuardInv, TodoInv
<1> QED
  BY <1>1, <1>2, <1>3 DEF IInv

\* TypeInv with its last conjunct apart, and both together again.
LEMMA TypeParts ==
  TypeInv <=>
    /\ now \in 0..Horizon /\ main \in {"approved", "moved"} /\ outside \in 0..Outside
    /\ pc \in [Dispatches -> Steps \cup Ended \cup {"gate"}]
    /\ listed \in [Dispatches -> SUBSET Managed] /\ todo \in [Dispatches -> SUBSET Managed]
    /\ state \in [Managed -> Values] /\ cloud \in [Managed -> Values]
    /\ serial \in Nat /\ lock \in Dispatches \cup {NoOne}
    /\ \A d \in Dispatches :
         /\ lock = d => pc[d] \in {"applying", "failed", "killed"}
         /\ todo[d] # {} => pc[d] = "applying" /\ lock = d
  BY DEF TypeInv

\* A step of one run that only moves it on, touching neither stack nor plan.
LEMMA MoveOn ==
  ASSUME IInv, NEW d \in Dispatches,
         NEW from \in {"gate", "enter", "init", "recheck", "confirm"},
         At(d, from, IF from = "gate" THEN "enter" ELSE IF from = "enter" THEN "init"
                     ELSE IF from = "init" THEN "recheck"
                     ELSE IF from = "recheck" THEN "plan" ELSE "apply"),
         UNCHANGED <<plan, listed, todo, stackVars, worldVars>>
  PROVE  IInv'
<1> USE DEF At, stackVars, worldVars
<1>1. TypeInv'
  BY DEF IInv, TypeInv, Steps, Ended
<1>2. LockInv'
  BY DEF IInv, TypeInv, LockInv
<1>3. PlanInv' /\ DestroyInv'
  BY DEF IInv, TypeInv, PlanInv, DestroyInv, Present
<1>4. GuardInv' /\ TodoInv'
  BY DEF IInv, TypeInv, GuardInv, TodoInv, Accepted, DestroyGuard, Deletes, RotationGuard, Drifted,
         ServerGuard, Present
<1> QED
  BY <1>1, <1>2, <1>3, <1>4 DEF IInv

\* What the guard says of a run depends on nothing but its plan and its list.
LEMMA AcceptedKept ==
  ASSUME NEW d \in Dispatches, plan'[d] = plan[d], listed'[d] = listed[d]
  PROVE  Accepted(d)' <=> Accepted(d)
  BY DEF Accepted, DestroyGuard, Deletes, RotationGuard, Drifted, ServerGuard

LEMMA PlanStep ==
  ASSUME IInv, NEW d \in Dispatches, Plan(d)
  PROVE  IInv'
<1> USE DEF At, stackVars, worldVars
<1>1. PICK actions \in [Managed -> {"no-op", "create", "update", "replace", "delete"}] :
        /\ \A a \in Managed : actions[a] \in Action(d, a)
        /\ plan' = [plan EXCEPT ![d] =
                     [serial |-> serial, before |-> cloud, prior |-> state, actions |-> actions]]
  BY DEF Plan
<1>2. plan' \in [Dispatches -> PlanTypes]
  BY <1>1 DEF IInv, TypeInv, PlanTypes
<1>3. plan'[d] = [serial |-> serial, before |-> cloud, prior |-> state, actions |-> actions]
      /\ \A e \in Dispatches \ {d} : plan'[e] = plan[e] /\ pc'[e] = pc[e]
  BY <1>1 DEF IInv, TypeInv, Plan
<1>4. UNCHANGED <<listed, todo, state, serial, lock, cloud, now, main, outside>>
      /\ pc[d] = "plan" /\ pc'[d] \in {"list", "guard"}
      /\ (Approval[d].operation = "destroy" => pc'[d] = "list")
  BY DEF Plan, IInv, TypeInv
<1>5. TypeInv'
  BY DEF Plan, IInv, TypeInv, Steps, Ended
<1>6. LockInv'
  BY <1>3, <1>4 DEF IInv, LockInv
<1>7. PlanInv'
  BY <1>3, <1>4 DEF IInv, TypeInv, PlanInv, Present
<1>8. DestroyInv'
  <2>1. Approval[d].operation = "destroy" => \A a \in Managed : actions[a] \in {"no-op", "delete"}
    BY <1>1 DEF Action
  <2> QED
    BY <2>1, <1>3, <1>4 DEF IInv, DestroyInv
<1>9. GuardInv'
  BY <1>3, <1>4, AcceptedKept DEF IInv, GuardInv
<1>10. TodoInv'
  BY <1>3, <1>4 DEF IInv, TodoInv, Present
<1> QED
  BY <1>2, <1>5, <1>6, <1>7, <1>8, <1>9, <1>10 DEF IInv

LEMMA ListStep ==
  ASSUME IInv, NEW d \in Dispatches, List(d)
  PROVE  IInv'
<1> USE DEF At, stackVars, worldVars
<1>1. /\ UNCHANGED <<plan, todo, state, serial, lock, cloud, now, main, outside>>
      /\ pc[d] = "list" /\ pc'[d] = "guard" /\ listed'[d] = Present(state)
      /\ \A e \in Dispatches \ {d} : listed'[e] = listed[e] /\ pc'[e] = pc[e]
  BY DEF List, IInv, TypeInv
<1>2. TypeInv'
  BY DEF List, IInv, TypeInv, Steps, Ended, Present
<1>3. LockInv' /\ DestroyInv' /\ TodoInv'
  BY <1>1 DEF IInv, LockInv, DestroyInv, TodoInv, Present
<1>4. PlanInv'
  BY <1>1 DEF IInv, PlanInv, Present
<1>5. GuardInv'
  BY <1>1, AcceptedKept DEF IInv, GuardInv
<1> QED
  BY <1>1, <1>2, <1>3, <1>4, <1>5 DEF IInv

LEMMA GuardStep ==
  ASSUME IInv, NEW d \in Dispatches, Guard(d)
  PROVE  IInv'
<1> USE DEF At, stackVars, worldVars
<1>1. /\ UNCHANGED <<plan, listed, todo, state, serial, lock, cloud, now, main, outside>>
      /\ pc[d] = "guard" /\ pc'[d] \in {"inventory", "confirm"} /\ Accepted(d)
      /\ pc'[d] = "confirm" => Approval[d].operation # "plan"
      /\ \A e \in Dispatches \ {d} : pc'[e] = pc[e]
  BY DEF Guard, IInv, TypeInv
<1>2. TypeInv'
  BY DEF Guard, IInv, TypeInv, Steps, Ended
<1>3. LockInv' /\ DestroyInv' /\ TodoInv'
  BY <1>1 DEF IInv, LockInv, DestroyInv, TodoInv, Present
<1>4. PlanInv'
  BY <1>1 DEF IInv, PlanInv, Present
<1>5. GuardInv'
  BY <1>1, AcceptedKept DEF IInv, GuardInv
<1> QED
  BY <1>1, <1>2, <1>3, <1>4, <1>5 DEF IInv

\* The serial has not moved, so the destroy begins with the state as listed.
LEMMA ApplyStep ==
  ASSUME IInv, NEW d \in Dispatches, Apply(d)
  PROVE  IInv'
<1> USE DEF At, worldVars
<1>1. /\ UNCHANGED <<plan, listed, state, serial, cloud, now, main, outside>>
      /\ pc[d] = "apply" /\ pc'[d] = "applying" /\ lock = NoOne /\ lock' = d
      /\ todo'[d] = {a \in Managed : plan[d].actions[a] # "no-op"} /\ plan[d].serial = serial
      /\ \A e \in Dispatches \ {d} : todo'[e] = todo[e] /\ pc'[e] = pc[e]
  BY DEF Apply, Current, IInv, TypeInv
<1>2. \A e \in Dispatches : pc[e] # "applying" /\ todo[e] = {}
  BY <1>1 DEF IInv, LockInv
<1>3. TypeInv'
  BY <1>2 DEF Apply, Current, IInv, TypeInv, Steps, Ended
<1>4. LockInv' /\ PlanInv' /\ DestroyInv'
  BY <1>1, <1>2 DEF IInv, LockInv, PlanInv, DestroyInv, Present
<1>5. GuardInv'
  BY <1>1, AcceptedKept DEF IInv, GuardInv
<1>6. Approval[d].operation = "destroy" => todo'[d] = Present(state)
  <2> HAVE Approval[d].operation = "destroy"
  <2>1. todo'[d] = Deletes(d)
    BY <1>1 DEF IInv, DestroyInv, Deletes
  <2>2. Deletes(d) = listed[d]
    BY <1>1 DEF IInv, GuardInv, Accepted, DestroyGuard
  <2>3. listed[d] = Present(state)
    BY <1>1 DEF IInv, PlanInv
  <2> QED
    BY <2>1, <2>2, <2>3
<1>7. TodoInv'
  BY <1>1, <1>2, <1>6 DEF IInv, TodoInv, Present
<1> QED
  BY <1>1, <1>3, <1>4, <1>5, <1>7 DEF IInv

LEMMA ApplyOneStep ==
  ASSUME IInv, NEW d \in Dispatches, ApplyOne(d)
  PROVE  IInv'
<1> USE DEF worldVars
<1>1. PICK a \in Possible(d) :
        /\ cloud' = [cloud EXCEPT ![a] = After(d, a)]
        /\ state' = [state EXCEPT ![a] = After(d, a)]
        /\ todo' = [todo EXCEPT ![d] = @ \ {a}]
  BY DEF ApplyOne
<1>2. /\ UNCHANGED <<pc, plan, listed, lock, now, main, outside>>
      /\ pc[d] = "applying" /\ serial' = serial + 1 /\ lock = d
  BY DEF ApplyOne, IInv, LockInv
<1>3. a \in Managed /\ a \in todo[d] /\ plan[d].actions[a] # "no-op"
  BY <1>1, <1>2 DEF Possible, IInv, TypeInv, TodoInv
<1>4. \A e \in Dispatches \ {d} : pc[e] # "applying" /\ todo'[e] = todo[e]
  BY <1>1, <1>2 DEF IInv, TypeInv, LockInv
<1>5. TypeInv'
  BY <1>1, <1>2, <1>3 DEF IInv, TypeInv, After, Wanted, Values, Objects
<1>6. LockInv' /\ DestroyInv'
  BY <1>1, <1>2, <1>4 DEF IInv, TypeInv, LockInv, DestroyInv
<1>7. PlanInv'
  <2>1. \A e \in Dispatches : plan[e].serial \in Nat
    BY DEF IInv, PlanTypes
  <2> QED
    BY <1>2, <2>1 DEF IInv, TypeInv, PlanInv
<1>8. GuardInv'
  BY <1>2, AcceptedKept DEF IInv, GuardInv
<1>9. TodoInv'
  <2>1. Approval[d].operation = "destroy" => todo'[d] = Present(state')
    <3> HAVE Approval[d].operation = "destroy"
    <3>1. todo[d] = Present(state) /\ plan[d].actions[a] = "delete"
      BY <1>2, <1>3 DEF IInv, TodoInv, DestroyInv
    <3>2. state'[a] = "absent" /\ \A b \in Managed \ {a} : state'[b] = state[b]
      BY <1>1, <1>3, <3>1 DEF After, IInv, TypeInv
    <3> QED
      BY <1>1, <1>3, <3>1, <3>2 DEF Present, IInv, TypeInv
  <2>2. todo'[d] \subseteq todo[d]
    BY <1>1 DEF IInv, TypeInv
  <2> QED
    BY <1>2, <1>4, <2>1, <2>2 DEF IInv, TodoInv, Present
<1> QED
  BY <1>2, <1>5, <1>6, <1>7, <1>8, <1>9 DEF IInv

LEMMA ApplyEndsStep ==
  ASSUME IInv, NEW d \in Dispatches, ApplyEnds(d)
  PROVE  IInv'
<1> USE DEF At, worldVars
<1>1. /\ UNCHANGED <<plan, listed, todo, state, serial, cloud, now, main, outside>>
      /\ pc[d] = "applying" /\ pc'[d] = "inventory" /\ lock = d /\ lock' = NoOne /\ todo[d] = {}
      /\ \A e \in Dispatches \ {d} : pc'[e] = pc[e] /\ pc[e] # "applying" /\ todo[e] = {}
  BY DEF ApplyEnds, IInv, TypeInv, LockInv
<1>2. TypeInv'
  BY <1>1 DEF ApplyEnds, IInv, TypeInv, Steps, Ended
<1>3. LockInv' /\ PlanInv' /\ DestroyInv' /\ TodoInv'
  BY <1>1 DEF IInv, LockInv, PlanInv, DestroyInv, TodoInv, Present
<1>4. GuardInv'
  BY <1>1, AcceptedKept DEF IInv, GuardInv
<1> QED
  BY <1>1, <1>2, <1>3, <1>4 DEF IInv

\* A run that ends drops its plan; only an apply's lock can go or stay with it.
LEMMA EndStep ==
  ASSUME IInv, NEW d \in Dispatches, Discard(d),
         NEW last \in Ended, pc' = [pc EXCEPT ![d] = last],
         pc[d] \in Steps, pc[d] = "applying" => last \in {"failed", "killed"},
         lock' \in {lock, IF lock = d THEN NoOne ELSE lock},
         cloud' \in [Managed -> Values], UNCHANGED <<state, serial, worldVars>>
  PROVE  IInv'
<1> USE DEF worldVars
<1>1. /\ UNCHANGED <<state, serial, now, main, outside>>
      /\ pc'[d] = last /\ todo'[d] = {} /\ lock' \in {lock, NoOne}
      /\ lock' = d => last \in {"failed", "killed"}
      /\ \A e \in Dispatches \ {d} :
           /\ pc'[e] = pc[e] /\ todo'[e] = todo[e] /\ listed'[e] = listed[e] /\ plan'[e] = plan[e]
           /\ lock' = e <=> lock = e
  BY DEF Discard, IInv, TypeInv, LockInv, Steps
<1>2. plan' \in [Dispatches -> PlanTypes]
  BY NoPlanType DEF IInv, Discard
<1>3. TypeInv'
  BY <1>1 DEF Discard, IInv, TypeInv, Steps, Ended
<1>4. LockInv' /\ PlanInv' /\ DestroyInv' /\ TodoInv'
  BY <1>1 DEF IInv, LockInv, PlanInv, DestroyInv, TodoInv, Present, Ended
<1>5. GuardInv'
  BY <1>1, AcceptedKept DEF IInv, GuardInv, Ended
<1> QED
  BY <1>2, <1>3, <1>4, <1>5 DEF IInv

LEMMA AfterType ==
  ASSUME IInv, NEW d \in Dispatches, NEW a \in Possible(d)
  PROVE  [cloud EXCEPT ![a] = After(d, a)] \in [Managed -> Values]
  BY DEF IInv, TypeInv, After, Wanted, Values, Objects

\* Changes from outside never touch a run; a change of the state moves its serial,
\* and nobody makes one while the state is locked.
LEMMA OutsideStep ==
  ASSUME IInv, Drift \/ Operator \/ MainMoves \/ Tick
  PROVE  IInv'
<1> USE DEF runVars, stackVars
<1>1. /\ UNCHANGED <<pc, plan, listed, todo>>
      /\ \/ serial' = serial /\ state' = state /\ lock' = lock
         \/ serial' = serial /\ state' = state /\ lock' = NoOne /\ lock # NoOne /\ pc[lock] \in {"failed", "killed"}
         \/ serial' = serial + 1 /\ lock = NoOne /\ lock' = NoOne
  BY DEF Drift, Operator, Other, MainMoves, Tick
<1>2. now' \in 0..Horizon /\ main' \in {"approved", "moved"} /\ outside' \in 0..Outside
  BY DEF Drift, Operator, Other, MainMoves, Tick, IInv, TypeInv
<1>3. cloud' \in [Managed -> Values] /\ state' \in [Managed -> Values]
  <2>1. CASE Drift
    BY <2>1 DEF Drift, IInv, TypeInv, Values, Objects
  <2>2. CASE Operator
    BY <2>2 DEF Operator, IInv, TypeInv, Values, Objects
  <2>3. CASE MainMoves \/ Tick
    BY <2>3 DEF MainMoves, Tick, IInv, TypeInv
  <2> QED
    BY <2>1, <2>2, <2>3
<1>4. TypeInv'
  BY <1>1, <1>2, <1>3 DEF IInv, TypeInv, LockInv
<1>5. LockInv' /\ DestroyInv'
  BY <1>1 DEF IInv, LockInv, DestroyInv
<1>6. PlanInv'
  <2>1. \A e \in Dispatches : plan[e].serial \in Nat
    BY DEF IInv, PlanTypes
  <2> QED
    BY <1>1, <2>1 DEF IInv, TypeInv, PlanInv, Present
<1>7. GuardInv'
  BY <1>1, AcceptedKept DEF IInv, GuardInv
<1>8. TodoInv'
  BY <1>1 DEF IInv, TodoInv, LockInv, Present
<1> QED
  BY <1>1, <1>4, <1>5, <1>6, <1>7, <1>8 DEF IInv

LEMMA NextInv == IInv /\ [Next]_vars => IInv'
<1> SUFFICES ASSUME IInv, [Next]_vars PROVE IInv'
  OBVIOUS
<1>1. ASSUME NEW d \in Dispatches, Gate(d) \/ Enter(d) \/ InitBackend(d) \/ Recheck(d) \/ Confirm(d)
      PROVE  IInv'
  <2>1. CASE Gate(d)
    BY <2>1, MoveOn DEF Gate
  <2>2. CASE Enter(d)
    BY <2>2, MoveOn DEF Enter
  <2>3. CASE InitBackend(d)
    BY <2>3, MoveOn DEF InitBackend
  <2>4. CASE Recheck(d)
    BY <2>4, MoveOn DEF Recheck
  <2>5. CASE Confirm(d)
    BY <2>5, MoveOn DEF Confirm
  <2> QED
    BY <1>1, <2>1, <2>2, <2>3, <2>4, <2>5
<1>2. ASSUME NEW d \in Dispatches, Inventory(d) PROVE IInv'
  <2>1. /\ Discard(d) /\ pc' = [pc EXCEPT ![d] = "done"] /\ lock' = lock /\ pc[d] = "inventory"
        /\ cloud' \in [Managed -> Values] /\ UNCHANGED <<state, serial, worldVars>>
    BY <1>2 DEF Inventory, At, stackVars, IInv, TypeInv
  <2> QED
    BY <2>1, EndStep DEF Ended, Steps
<1>3. ASSUME NEW d \in Dispatches, Fail(d) PROVE IInv'
  <2>1. /\ Discard(d) /\ lock' \in {lock, IF lock = d THEN NoOne ELSE lock} /\ pc[d] \in Steps
        /\ cloud' \in [Managed -> Values] /\ UNCHANGED <<state, serial, worldVars>>
    BY <1>3 DEF Fail, IInv, TypeInv
  <2>2. pc' = [pc EXCEPT ![d] = IF pc[d] \in {"enter", "init"} THEN "refused" ELSE "failed"]
    BY <1>3 DEF Fail
  <2> QED
    BY <2>1, <2>2, EndStep DEF Ended
<1>4. ASSUME NEW d \in Dispatches, Kill(d) PROVE IInv'
  <2>1. cloud' \in [Managed -> Values]
    BY <1>4, AfterType DEF Kill, IInv, TypeInv
  <2>2. /\ Discard(d) /\ pc' = [pc EXCEPT ![d] = "killed"] /\ lock' = lock /\ pc[d] \in Steps
        /\ UNCHANGED <<state, serial, worldVars>>
    BY <1>4 DEF Kill
  <2> QED
    BY <2>1, <2>2, EndStep DEF Ended
<1>5. CASE UNCHANGED vars
  BY <1>5 DEF vars, runVars, stackVars, worldVars, IInv, TypeInv, LockInv, PlanInv, DestroyInv, GuardInv,
     TodoInv, Present, Accepted, DestroyGuard, Deletes, RotationGuard, Drifted, ServerGuard
<1>6. CASE Next
  BY <1>6, <1>1, <1>2, <1>3, <1>4, PlanStep, ListStep, GuardStep, ApplyStep, ApplyOneStep, ApplyEndsStep,
     OutsideStep DEF Next, Run
<1> QED
  BY <1>5, <1>6

-----------------------------------------------------------------------------
\* The invariant that carries everything below.
THEOREM Invariance == Spec => []IInv
  BY InitInv, NextInv, PTL DEF Spec

\* A destroy deletes exactly the listed state, at the approved count, and the
\* state lock is held by an apply or left by a run that failed or was killed
\* (validate_destroy, Terraform's refusal of stale plans).
THEOREM StackIsSafe == Spec => []StackSafe
<1>1. IInv => StackSafe
  BY DEF IInv, GuardInv, TodoInv, Accepted, DestroyGuard, StackSafe, DestroyIsExact
<1> QED
  BY <1>1, Invariance, PTL

\* An apply changes an existing server only under the rotation policy and
\* nothing but the server under it (POLICY_REQUIRED, the rotation policy).
THEOREM ChangesAreApproved ==
  ASSUME Server \in Managed
  PROVE  Spec => OnlyApprovedChanges
<1> DEFINE ServerStep ==
             cloud[Server] # "absent" /\ cloud'[Server] # cloud[Server] /\ outside' = outside
             => \E d \in Dispatches :
                  /\ pc[d] = "applying"
                  /\ (Approval[d].policy = "rotation" \/ Approval[d].operation = "destroy")
           RotationStep ==
             \A d \in Dispatches :
               pc[d] = "applying" /\ Approval[d].policy = "rotation" /\ outside' = outside
               => \A a \in Managed \ {Server} : cloud'[a] = cloud[a] /\ state'[a] = state[a]
<1>1. ASSUME IInv, Next, outside' = outside
      PROVE  \/ UNCHANGED <<cloud, state>>
             \/ \E d \in Dispatches, a \in Managed :
                  /\ pc[d] = "applying" /\ a \in Possible(d)
                  /\ cloud' = [cloud EXCEPT ![a] = After(d, a)]
                  /\ state' \in {state, [state EXCEPT ![a] = After(d, a)]}
  <2>1. outside \in Nat
    BY <1>1 DEF IInv, TypeInv
  <2>2. \A d \in Dispatches : Possible(d) \subseteq Managed
    BY <1>1 DEF Possible, IInv, TypeInv
  <2>3. ~Other
    BY <1>1, <2>1 DEF Other
  <2>4. ASSUME NEW d \in Dispatches, Run(d) \/ Gate(d) PROVE
             \/ UNCHANGED <<cloud, state>>
             \/ ApplyOne(d)
    BY <2>4 DEF Run, Gate, Enter, InitBackend, Recheck, Plan, List, Guard, Confirm, Apply, Current, ApplyEnds,
       Inventory, Fail, stackVars
  <2>5. CASE MainMoves \/ Tick
    BY <2>5 DEF MainMoves, Tick, stackVars
  <2>6. ASSUME NEW d \in Dispatches, ApplyOne(d)
        PROVE  \E a \in Managed : /\ pc[d] = "applying" /\ a \in Possible(d)
                                  /\ cloud' = [cloud EXCEPT ![a] = After(d, a)]
                                  /\ state' = [state EXCEPT ![a] = After(d, a)]
    BY <2>2, <2>6 DEF ApplyOne
  <2>7. ASSUME NEW d \in Dispatches, Kill(d)
        PROVE  \/ UNCHANGED <<cloud, state>>
               \/ \E a \in Managed : /\ pc[d] = "applying" /\ a \in Possible(d)
                                     /\ cloud' = [cloud EXCEPT ![a] = After(d, a)]
                                     /\ state' = state
    BY <2>2, <2>7 DEF Kill
  <2> QED
    BY <1>1, <2>3, <2>4, <2>5, <2>6, <2>7 DEF Next, Drift, Operator
<1>2. ASSUME IInv, Next PROVE ServerStep
  <2> SUFFICES ASSUME cloud[Server] # "absent", cloud'[Server] # cloud[Server], outside' = outside
               PROVE  \E d \in Dispatches :
                        /\ pc[d] = "applying"
                        /\ (Approval[d].policy = "rotation" \/ Approval[d].operation = "destroy")
    OBVIOUS
  <2>1. PICK d \in Dispatches, a \in Managed :
          /\ pc[d] = "applying" /\ a \in Possible(d)
          /\ cloud' = [cloud EXCEPT ![a] = After(d, a)]
    BY <1>1, <1>2
  <2>2. a = Server
    BY <1>2, <2>1 DEF IInv, TypeInv
  <2>3. plan[d].actions[Server] \notin {"no-op", "create"}
    BY <1>2, <2>1, <2>2 DEF Possible, IInv, TodoInv
  <2>4. Accepted(d) /\ Approval[d].operation # "plan"
    BY <1>2, <2>1 DEF IInv, GuardInv
  <2>5. Approval[d].operation \in {"apply", "destroy"}
    BY <2>4 DEF Operations
  <2>6. Approval[d].policy = "rotation" \/ Approval[d].operation = "destroy"
    BY <2>3, <2>4, <2>5 DEF Accepted, ServerGuard
  <2> QED
    BY <2>1, <2>6
<1>3. ASSUME IInv, Next PROVE RotationStep
  <2> SUFFICES ASSUME NEW d \in Dispatches, pc[d] = "applying", Approval[d].policy = "rotation",
                      outside' = outside, NEW b \in Managed \ {Server}
               PROVE  cloud'[b] = cloud[b] /\ state'[b] = state[b]
    OBVIOUS
  <2>1. CASE UNCHANGED <<cloud, state>>
    BY <2>1
  <2>2. ASSUME NEW e \in Dispatches, NEW a \in Managed, pc[e] = "applying", a \in Possible(e),
               cloud' = [cloud EXCEPT ![a] = After(e, a)],
               state' \in {state, [state EXCEPT ![a] = After(e, a)]}
        PROVE  cloud'[b] = cloud[b] /\ state'[b] = state[b]
    <3>1. e = d
      BY <1>3, <2>2 DEF IInv, LockInv
    <3>2. RotationGuard(d)
      BY <1>3 DEF IInv, GuardInv, Accepted
    <3>3. plan[d].actions[a] # "no-op"
      BY <1>3, <2>2, <3>1 DEF Possible, IInv, TodoInv
    <3>4. a = Server
      BY <3>2, <3>3 DEF RotationGuard
    <3> QED
      BY <1>3, <2>2, <3>4 DEF IInv, TypeInv
  <2> QED
    BY <1>1, <1>3, <2>1, <2>2
<1>4. IInv /\ [Next]_vars => [ServerStep]_vars /\ [RotationStep]_vars
  BY <1>2, <1>3
<1> QED
  BY <1>4, Invariance, PTL DEF Spec, OnlyApprovedChanges, ServerUntouched, RotationOnly

\* A plan does not outlive its approval: a run that finds main moved or the
\* window closed before its last check will not apply.
THEOREM NoApplyIsLate == Spec => NoLateApply
<1> DEFINE Late(d) == ~Approved /\ pc[d] \notin {"apply", "applying"}
<1>1. ASSUME NEW d \in Dispatches, IInv, Late(d), [Next]_vars PROVE Late(d)'
  <2>1. ~Approved'
    BY <1>1 DEF Approved, Next, Run, Gate, Enter, InitBackend, Recheck, Plan, List, Guard, Confirm, Apply, Current,
       ApplyOne, ApplyEnds, Inventory, Fail, Kill, Drift, Operator, Other, MainMoves, Tick, vars, worldVars,
       runVars, IInv, TypeInv
  <2>2. pc'[d] \notin {"apply", "applying"}
    <3>1. ASSUME NEW e \in Dispatches, Gate(e) \/ Run(e) \/ Kill(e)
          PROVE  pc'[d] \notin {"apply", "applying"}
      BY <1>1, <3>1 DEF Gate, Run, Enter, InitBackend, Recheck, Plan, List, Guard, Confirm, StillApproved,
         Apply, ApplyOne, ApplyEnds, Inventory, Fail, Kill, At, IInv, TypeInv
    <3>2. CASE Drift \/ Operator \/ MainMoves \/ Tick
      BY <1>1, <3>2 DEF Drift, Operator, Other, MainMoves, Tick, runVars
    <3>3. CASE UNCHANGED vars
      BY <1>1, <3>3 DEF vars, runVars
    <3> QED
      BY <1>1, <3>1, <3>2, <3>3 DEF Next
  <2> QED
    BY <2>1, <2>2
<1>2. ASSUME NEW d \in Dispatches
      PROVE  Spec => [](~Approved /\ pc[d] \in {"recheck", "plan", "list", "guard", "confirm"}
                        => [](pc[d] # "applying"))
  <2>1. ~Approved /\ pc[d] \in {"recheck", "plan", "list", "guard", "confirm"} => Late(d)
    OBVIOUS
  <2>2. Late(d) => pc[d] # "applying"
    OBVIOUS
  <2>3. IInv /\ Late(d) /\ [Next]_vars => Late(d)'
    BY <1>1
  <2> HIDE DEF Late
  <2> QED
    BY <2>1, <2>2, <2>3, Invariance, PTL DEF Spec
<1> QED
  BY <1>2 DEF NoLateApply
-----------------------------------------------------------------------------
(* Plan, approval and apply as looking, deciding and changing.             *)

Planned == {"list", "guard", "confirm", "apply", "applying"}
Stored == <<state, lock, Basis>>

\* A run that keeps its plan, or has none before and after, keeps its basis.
LEMMA BasisKept ==
  ASSUME plan' = plan, \A d \in Dispatches : pc'[d] \in Planned <=> pc[d] \in Planned
  PROVE  Basis' = Basis
  BY DEF Basis, Planned

\* A run that drops its plan, or has passed the steps that use it, has no basis.
LEMMA BasisDropped ==
  ASSUME NEW d \in Dispatches, pc'[d] \notin Planned,
         \A e \in Dispatches \ {d} : pc'[e] = pc[e] /\ plan'[e] = plan[e]
  PROVE  Basis' = [Basis EXCEPT ![d] = {}]
  BY DEF Basis, Planned

\* Steps of a run that are not seen from the stack's state.
LEMMA QuietStep ==
  ASSUME IInv, NEW d \in Dispatches,
         Gate(d) \/ Enter(d) \/ InitBackend(d) \/ Recheck(d) \/ List(d) \/ Confirm(d)
  PROVE  UNCHANGED Stored
<1>1. UNCHANGED <<plan, state, lock>>
  BY DEF Gate, Enter, InitBackend, Recheck, List, Confirm, stackVars
<1>2. \A e \in Dispatches : pc'[e] \in Planned <=> pc[e] \in Planned
  BY DEF Gate, Enter, InitBackend, Recheck, List, Confirm, At, Planned, IInv, TypeInv
<1> QED
  BY <1>1, <1>2, BasisKept DEF Stored

\* A step of a run that ends with nothing to apply.
LEMMA LeaveStep ==
  ASSUME IInv, NEW d \in Dispatches, Inventory(d) \/ Fail(d) \/ Kill(d) \/ ApplyEnds(d)
  PROVE  Store!Leave(d)
<1>1. /\ pc'[d] \notin Planned
      /\ \A e \in Dispatches \ {d} : pc'[e] = pc[e] /\ plan'[e] = plan[e]
  BY DEF Inventory, Fail, Kill, ApplyEnds, At, Discard, Planned, IInv, TypeInv
<1>2. state' = state
  BY DEF Inventory, Fail, Kill, ApplyEnds, stackVars
<1>3. lock' \in {lock, IF lock = d THEN NoOne ELSE lock}
  BY DEF Inventory, Fail, Kill, ApplyEnds, At, stackVars, IInv, LockInv
<1> QED
  BY <1>1, <1>2, <1>3, BasisDropped DEF Store!Leave

\* A step of a run on the plan it has.
LEMMA PlannedStep ==
  ASSUME IInv, NEW d \in Dispatches, Plan(d) \/ Guard(d) \/ Apply(d) \/ ApplyOne(d)
  PROVE  [Store!Next]_Stored
<1>1. CASE Plan(d)
  <2>1. /\ lock = NoOne /\ UNCHANGED <<state, lock>> /\ pc'[d] \in Planned /\ plan'[d].prior = state
        /\ \A e \in Dispatches \ {d} : pc'[e] = pc[e] /\ plan'[e] = plan[e]
    BY <1>1 DEF Plan, At, Planned, stackVars, IInv, TypeInv
  <2>2. Basis' = [Basis EXCEPT ![d] = {state}]
    BY <2>1 DEF Basis, Planned
  <2>3. Store!Look(d)
    BY <2>1, <2>2 DEF Store!Look
  <2> QED
    BY <2>3 DEF Store!Next
<1>2. CASE Guard(d)
  <2>1. UNCHANGED <<plan, state, lock>> /\ \A e \in Dispatches \ {d} : pc'[e] = pc[e]
    BY <1>2 DEF Guard, At, stackVars, IInv, TypeInv
  <2>2. CASE pc'[d] = "confirm"
    <3>1. \A e \in Dispatches : pc'[e] \in Planned <=> pc[e] \in Planned
      BY <1>2, <2>1, <2>2 DEF Guard, At, Planned
    <3> QED
      BY <2>1, <3>1, BasisKept DEF Stored
  <2>3. CASE pc'[d] = "inventory"
    <3>1. Store!Leave(d)
      BY <2>1, <2>3, BasisDropped DEF Store!Leave, Planned
    <3> QED
      BY <3>1 DEF Store!Next
  <2> QED
    BY <1>2, <2>2, <2>3 DEF Guard, At, IInv, TypeInv
<1>3. CASE Apply(d)
  <2>1. /\ UNCHANGED <<plan, state>> /\ lock = NoOne /\ lock' = d /\ pc[d] = "apply" /\ pc'[d] = "applying"
        /\ plan[d].serial = serial /\ \A e \in Dispatches \ {d} : pc'[e] = pc[e]
    BY <1>3 DEF Apply, Current, At, IInv, TypeInv
  <2>2. Basis' = Basis
    BY <2>1, BasisKept DEF Planned
  <2>3. state \in Basis[d]
    BY <2>1 DEF Basis, IInv, PlanInv
  <2>4. Store!Begin(d)
    BY <2>1, <2>2, <2>3 DEF Store!Begin
  <2> QED
    BY <2>4 DEF Store!Next
<1>4. CASE ApplyOne(d)
  <2>1. UNCHANGED <<pc, plan, lock>> /\ pc[d] = "applying"
    BY <1>4 DEF ApplyOne
  <2>2. lock = d /\ Basis[d] # {} /\ Basis' = Basis
    BY <2>1, BasisKept DEF Basis, IInv, LockInv
  <2>3. state' \in [Managed -> Values]
    BY <1>4, ApplyOneStep DEF IInv, TypeInv
  <2>4. Store!Change(d)
    BY <2>1, <2>2, <2>3 DEF Store!Change
  <2> QED
    BY <2>4 DEF Store!Next
<1> QED
  BY <1>1, <1>2, <1>3, <1>4

\* Others change the state only while nobody applies, and free the lock of a run
\* that failed or was killed.
LEMMA OthersStep ==
  ASSUME IInv, Drift \/ Operator \/ MainMoves \/ Tick
  PROVE  [Store!Next]_Stored
<1>1. Basis' = Basis
  BY BasisKept DEF Drift, Operator, Other, MainMoves, Tick, runVars
<1>2. state' \in [Managed -> Values]
  BY OutsideStep DEF IInv, TypeInv
<1>3. CASE UNCHANGED <<state, lock>>
  BY <1>1, <1>3 DEF Stored
<1>4. CASE lock = NoOne /\ lock' = lock
  <2>1. Store!Others
    BY <1>1, <1>2, <1>4 DEF Store!Others
  <2> QED
    BY <2>1 DEF Store!Next
<1>5. CASE lock # NoOne /\ pc[lock] \in {"failed", "killed"} /\ lock' = NoOne /\ state' = state
  <2>1. PICK d \in Dispatches : lock = d
    BY <1>5 DEF IInv, TypeInv
  <2>2. Basis[d] = {}
    BY <1>5, <2>1 DEF Basis
  <2>3. Store!Free(d)
    BY <1>1, <1>5, <2>1, <2>2 DEF Store!Free
  <2> QED
    BY <2>1, <2>3 DEF Store!Next
<1> QED
  BY <1>3, <1>4, <1>5 DEF Drift, Operator, MainMoves, Tick, stackVars

-----------------------------------------------------------------------------
(* A run has a bounded number of commands and objects.                     *)

\* The objects of a run are some of the stack's.
LEMMA ObjectSizes ==
  ASSUME TypeInv, NEW d \in Dispatches
  PROVE  /\ IsFiniteSet(todo[d]) /\ Cardinality(todo[d]) \in Nat /\ Cardinality(Managed) \in Nat
         /\ Cardinality(todo[d]) <= Cardinality(Managed)
<1>1. todo[d] \subseteq Managed
  BY DEF TypeInv
<1> QED
  BY <1>1, FS_Subset, FS_CardinalityType

LEMMA CommandTypes == \A p : CommandsLeft(p) \in 0 .. 11
  BY DEF CommandsLeft

\* A step of a run is its next command, with no more objects than before once
\* it has begun to apply; or it deals with one of them.
LEMMA RunMoves ==
  ASSUME IInv, NEW d \in Dispatches, Gate(d) \/ Run(d) \/ Kill(d)
  PROVE  /\ \A e \in Dispatches \ {d} : pc'[e] = pc[e] /\ todo'[e] = todo[e]
         /\ \/ /\ CommandsLeft(pc'[d]) < CommandsLeft(pc[d])
               /\ CommandsLeft(pc[d]) > 2 \/ todo'[d] \subseteq todo[d]
            \/ /\ pc' = pc /\ pc[d] = "applying"
               /\ \E a \in todo[d] : todo'[d] = todo[d] \ {a}
<1>0. pc \in [Dispatches -> Steps \cup Ended \cup {"gate"}] /\ todo \in [Dispatches -> SUBSET Managed]
  BY DEF IInv, TypeInv
<1>1. \A e \in Dispatches \ {d} : pc'[e] = pc[e] /\ todo'[e] = todo[e]
  BY <1>0 DEF Gate, Run, Kill, Enter, InitBackend, Recheck, Plan, List, Guard, Confirm, Apply, ApplyOne, ApplyEnds,
     Inventory, Fail, At, Discard
<1>2. CASE ApplyOne(d)
  <2>1. pc' = pc /\ pc[d] = "applying"
    BY <1>2 DEF ApplyOne
  <2>2. PICK a \in Possible(d) : todo' = [todo EXCEPT ![d] = @ \ {a}]
    BY <1>2 DEF ApplyOne
  <2>3. a \in todo[d] /\ todo'[d] = todo[d] \ {a}
    BY <1>0, <2>2 DEF Possible
  <2> QED
    BY <1>1, <2>1, <2>3
<1>3. CASE Inventory(d) \/ Fail(d) \/ Kill(d)
  <2>1. pc[d] \in Steps /\ pc'[d] \in Ended /\ todo'[d] = {}
    BY <1>0, <1>3 DEF Inventory, Fail, Kill, At, Discard, Steps, Ended
  <2>2. CommandsLeft(pc[d]) >= 1 /\ CommandsLeft(pc'[d]) = 0
    BY <2>1 DEF CommandsLeft, Steps, Ended
  <2>3. CommandsLeft(pc'[d]) < CommandsLeft(pc[d])
    BY <2>2, CommandTypes
  <2> QED
    BY <1>1, <2>1, <2>3
<1>4. CASE ApplyEnds(d)
  <2>1. pc[d] = "applying" /\ pc'[d] = "inventory" /\ todo' = todo
    BY <1>0, <1>4 DEF ApplyEnds, At
  <2>2. CommandsLeft(pc[d]) = 2 /\ CommandsLeft(pc'[d]) = 1
    BY <2>1 DEF CommandsLeft
  <2> QED
    BY <1>1, <2>1, <2>2
<1>5. CASE \/ Gate(d) \/ Enter(d) \/ InitBackend(d) \/ Recheck(d) \/ Plan(d) \/ List(d)
           \/ Confirm(d) \/ Apply(d)
  <2>1. \E q \in {<<"gate", "enter">>, <<"enter", "init">>, <<"init", "recheck">>, <<"recheck", "plan">>,
                  <<"plan", "list">>, <<"plan", "guard">>, <<"list", "guard">>, <<"confirm", "apply">>,
                  <<"apply", "applying">>} : At(d, q[1], q[2])
    BY <1>5 DEF Gate, Enter, InitBackend, Recheck, Plan, List, Confirm, Apply
  <2>2. PICK q \in {<<"gate", "enter">>, <<"enter", "init">>, <<"init", "recheck">>, <<"recheck", "plan">>,
                  <<"plan", "list">>, <<"plan", "guard">>, <<"list", "guard">>, <<"confirm", "apply">>,
                  <<"apply", "applying">>} : pc[d] = q[1] /\ pc'[d] = q[2]
    BY <1>0, <2>1 DEF At
  <2>3. CommandsLeft(q[2]) < CommandsLeft(q[1]) /\ CommandsLeft(q[1]) > 2
    BY DEF CommandsLeft
  <2> QED
    BY <1>1, <2>2, <2>3
<1>6. CASE Guard(d)
  <2>1. pc[d] = "guard" /\ pc'[d] \in {"confirm", "inventory"}
    BY <1>0, <1>6 DEF Guard, At
  <2>2. CommandsLeft(pc'[d]) < CommandsLeft(pc[d]) /\ CommandsLeft(pc[d]) > 2
    BY <2>1 DEF CommandsLeft
  <2> QED
    BY <1>1, <2>2
<1> QED
  BY <1>2, <1>3, <1>4, <1>5, <1>6 DEF Run

\* With its next command, or one object less, a run has less before it.
LEMMA RunShrinks ==
  ASSUME IInv, IInv', NEW d \in Dispatches, Gate(d) \/ Run(d) \/ Kill(d)
  PROVE  /\ StepsLeft(d)' \in 0 .. StepsLeft(d) /\ StepsLeft(d)' # StepsLeft(d)
         /\ \A e \in Dispatches \ {d} : StepsLeft(e)' = StepsLeft(e)
<1> DEFINE c == CommandsLeft(pc[d])
           n == CommandsLeft(pc'[d])
           m == Cardinality(Managed)
           s == Cardinality(todo[d])
           t == Cardinality(todo'[d])
<1>1. c \in 0 .. 11 /\ n \in 0 .. 11
  BY CommandTypes
<1>2. TypeInv /\ todo'[d] \subseteq Managed
  BY DEF IInv, TypeInv
<1>3. m \in Nat /\ s \in Nat /\ s <= m /\ IsFiniteSet(todo[d])
  BY <1>2, ObjectSizes
<1>4. t \in Nat /\ t <= m
  BY <1>2, ApprovalAssumption, FS_Subset, FS_CardinalityType
<1>5. \/ n < c /\ (c > 2 \/ t <= s)
      \/ n = 2 /\ c = 2 /\ t = s - 1
  <2>1. CASE n < c /\ (c > 2 \/ todo'[d] \subseteq todo[d])
    BY <1>3, <2>1, FS_Subset
  <2>2. CASE pc' = pc /\ pc[d] = "applying" /\ \E a \in todo[d] : todo'[d] = todo[d] \ {a}
    <3>1. PICK a \in todo[d] : todo'[d] = todo[d] \ {a}
      BY <2>2
    <3>3. t = s - 1
      BY <1>3, <3>1, FS_RemoveElement
    <3>2. c = 2 /\ n = 2
      BY <2>2 DEF CommandsLeft
    <3> QED
      BY <3>2, <3>3
  <2> QED
    BY <2>1, <2>2, RunMoves
<1>6. /\ StepsLeft(d) = c + (IF c > 2 THEN m ELSE s)
      /\ StepsLeft(d)' = n + (IF n > 2 THEN m ELSE t)
  BY DEF StepsLeft, ObjectsLeft
<1>7. \A e \in Dispatches \ {d} : StepsLeft(e)' = StepsLeft(e)
  BY RunMoves DEF StepsLeft, ObjectsLeft
<1> HIDE DEF c, n, m, s, t
<1>8. /\ n + (IF n > 2 THEN m ELSE t) \in 0 .. (c + (IF c > 2 THEN m ELSE s))
      /\ n + (IF n > 2 THEN m ELSE t) # c + (IF c > 2 THEN m ELSE s)
  BY <1>1, <1>3, <1>4, <1>5
<1> QED
  BY <1>6, <1>7, <1>8

\* Every step of a run is one of those it has left, and nobody else gives it
\* more: a dispatch takes at most eleven commands and one turn for each object.
THEOREM DispatchIsFinite == Spec => FiniteDispatch
<1> DEFINE Less(d) == /\ StepsLeft(d)' \in 0 .. StepsLeft(d)
                      /\ Gate(d) \/ Run(d) \/ Kill(d) => StepsLeft(d)' # StepsLeft(d)
<1>1. ASSUME IInv, IInv', [Next]_vars PROVE \A d \in Dispatches : Less(d)
  <2>0. \A e \in Dispatches : StepsLeft(e) \in Nat
    <3>1. ASSUME NEW e \in Dispatches PROVE StepsLeft(e) \in Nat
      BY <1>1, ObjectSizes, CommandTypes DEF StepsLeft, ObjectsLeft, IInv
    <3> QED
      BY <3>1
  <2>1. ASSUME NEW d \in Dispatches, Gate(d) \/ Run(d) \/ Kill(d) PROVE \A e \in Dispatches : Less(e)
    <3>1. Less(d)
      BY <1>1, <2>1, RunShrinks
    <3>2. ASSUME NEW e \in Dispatches \ {d} PROVE Less(e)
      <4>1. StepsLeft(e)' = StepsLeft(e)
        BY <1>1, <2>1, RunShrinks
      <4>2. ~(Gate(e) \/ Run(e) \/ Kill(e))
        <5> SUFFICES ASSUME Gate(e) \/ Run(e) \/ Kill(e) PROVE FALSE
          OBVIOUS
        <5>1. StepsLeft(e)' # StepsLeft(e)
          BY <1>1, RunShrinks
        <5> QED
          BY <4>1, <5>1
      <4> QED
        BY <2>0, <4>1, <4>2
    <3> QED
      BY <3>1, <3>2
  <2>2. CASE Drift \/ Operator \/ MainMoves \/ Tick \/ UNCHANGED vars
    <3>1. UNCHANGED <<pc, todo>>
      BY <2>2 DEF Drift, Operator, Other, MainMoves, Tick, vars, runVars
    <3>2. \A e \in Dispatches : StepsLeft(e)' = StepsLeft(e)
      BY <3>1 DEF StepsLeft, ObjectsLeft
    <3>3. \A e \in Dispatches : ~(Gate(e) \/ Run(e) \/ Kill(e))
      BY <1>1, <3>2, RunShrinks
    <3> QED
      BY <2>0, <3>2, <3>3
  <2> QED
    BY <1>1, <2>1, <2>2 DEF Next
<1>2. IInv /\ IInv' /\ [Next]_vars => [\A d \in Dispatches : Less(d)]_vars
  BY <1>1
<1> QED
  BY <1>2, Invariance, PTL DEF Spec, FiniteDispatch

-----------------------------------------------------------------------------
\* What is applied is still approved and was planned for the state it meets: the
\* runs, the operator and the serial keep the state as CurrentPlans asks, and
\* every run has a bounded number of steps.
THEOREM PlansAreCurrent == Spec => PlansStayCurrent
<1>1. Init => Store!Init
  BY DEF Init, Store!Init, Basis, Values, Objects
<1>2. IInv /\ [Next]_vars => [Store!Next]_<<state, lock, Basis>>
  <2> SUFFICES ASSUME IInv, [Next]_vars PROVE [Store!Next]_Stored
    BY DEF Stored
  <2>1. ASSUME NEW d \in Dispatches, Gate(d) \/ Run(d) \/ Kill(d)
        PROVE  [Store!Next]_Stored
    <3>1. CASE Inventory(d) \/ Fail(d) \/ Kill(d) \/ ApplyEnds(d)
      BY <3>1, LeaveStep DEF Store!Next
    <3> QED
      BY <2>1, <3>1, QuietStep, PlannedStep DEF Run
  <2>2. CASE UNCHANGED vars
    BY <2>2, BasisKept DEF vars, runVars, stackVars, Stored
  <2> QED
    BY <2>1, <2>2, OthersStep DEF Next
<1>3. Spec => StoreSpec
  BY <1>1, <1>2, Invariance, PTL DEF Spec, StoreSpec, Store!Spec
<1> QED
  BY <1>3, NoApplyIsLate, DispatchIsFinite DEF PlansStayCurrent
=============================================================================
