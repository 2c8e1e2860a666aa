---------------------------- MODULE CurrentPlans ----------------------------
(***************************************************************************)
(* What a shared document owes to clients that look at it, decide later    *)
(* and change it later still: a client begins to change it only if it is   *)
(* what the client has looked at, and from then on nobody else changes it. *)
(* A client that gives up or dies may leave it to whoever frees it.        *)
(***************************************************************************)
CONSTANTS Clients, Documents, Nobody

VARIABLES
  document,
  holder,   \* the client that changes it, or one that has stopped at it
  basis     \* basis[c]: {} or {the document c has looked at}

Init == document \in Documents /\ holder = Nobody /\ basis = [c \in Clients |-> {}]

Look(c) ==
  /\ holder = Nobody /\ basis' = [basis EXCEPT ![c] = {document}]
  /\ UNCHANGED <<document, holder>>

Begin(c) == holder = Nobody /\ document \in basis[c] /\ holder' = c /\ UNCHANGED <<document, basis>>

Change(c) == holder = c /\ basis[c] # {} /\ document' \in Documents /\ UNCHANGED <<holder, basis>>

\* With its change made, given up, or dead.
Leave(c) ==
  /\ basis' = [basis EXCEPT ![c] = {}]
  /\ holder' \in {holder, IF holder = c THEN Nobody ELSE holder}
  /\ UNCHANGED document

Free(c) == holder = c /\ basis[c] = {} /\ holder' = Nobody /\ UNCHANGED <<document, basis>>

Others == holder = Nobody /\ document' \in Documents /\ UNCHANGED <<holder, basis>>

Next == Others \/ \E c \in Clients : Look(c) \/ Begin(c) \/ Change(c) \/ Leave(c) \/ Free(c)

Spec == Init /\ [][Next]_<<document, holder, basis>>
=============================================================================
