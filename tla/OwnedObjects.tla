----------------------------- MODULE OwnedObjects -----------------------------
(***************************************************************************)
(* What a worker owes to a place that others use as well: it begins where  *)
(* nothing is left, makes only what it has registered as its own, and      *)
(* gives a registration up only when the thing is gone.  What is there     *)
(* when it ends, or dies, stays behind under no registration, and nothing  *)
(* comes on top of it.                                                     *)
(***************************************************************************)
VARIABLES
  working,
  owned,    \* the things registered
  present   \* the things that exist

Init == working = FALSE /\ owned = {} /\ present = {}

Begin == ~working /\ present = {} /\ working' = TRUE /\ UNCHANGED <<owned, present>>

Work ==
  /\ working /\ UNCHANGED working
  /\ present' \subseteq present \cup owned /\ present' \subseteq owned'

End == working /\ working' = FALSE /\ owned' = {} /\ UNCHANGED present

\* With time, or at the hands of others.
Vanish == present' \subseteq present /\ UNCHANGED <<working, owned>>

Next == Begin \/ Work \/ End \/ Vanish

Spec == Init /\ [][Next]_<<working, owned, present>>
=============================================================================
