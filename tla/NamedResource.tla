---------------------------- MODULE NamedResource ----------------------------
(***************************************************************************)
(* What a resource that exists once, under one fixed name, owes to the     *)
(* users of a host: one lock stands for it.  Whoever holds the lock may    *)
(* create it where there is none, and may remove what it created itself; a *)
(* foreign one only if it is a user that removes on purpose.  Nothing      *)
(* happens to it while nobody holds the lock.                              *)
(***************************************************************************)
CONSTANTS Users, Removers, Nobody

VARIABLES holder, creator

Init == holder = Nobody /\ creator = Nobody

Take(u) == holder = Nobody /\ holder' = u /\ UNCHANGED creator
Give(u) == holder = u /\ holder' = Nobody /\ UNCHANGED creator

Create(u) == holder = u /\ creator = Nobody /\ creator' = u /\ UNCHANGED holder

\* A failing remover gives the lock back with the same step.
Remove(u) ==
  /\ holder = u /\ (creator = u \/ u \in Removers) /\ creator' = Nobody
  /\ holder' \in {u, Nobody}

Next == \E u \in Users : Take(u) \/ Give(u) \/ Create(u) \/ Remove(u)

Spec == Init /\ [][Next]_<<holder, creator>>
=============================================================================
