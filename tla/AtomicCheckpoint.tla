--------------------------- MODULE AtomicCheckpoint ---------------------------
(***************************************************************************)
(* What a backup owes to the users of a service with two stores, in which  *)
(* a document is in the files first and in the rows some time later: the   *)
(* copy is one moment at which they agree, a new place begins empty, gets  *)
(* both halves of the copy in one step, and is used only after that.       *)
(***************************************************************************)
CONSTANT Documents

VARIABLES
  place,  \* where the service is: "none", "source", "target"
  files, rows,
  copy    \* {} before there is one

Init == place = "none" /\ files = {} /\ rows = {} /\ copy = {}

Open ==
  /\ place = "none" /\ place' = IF copy = {} THEN "source" ELSE "target"
  /\ UNCHANGED <<files, rows, copy>>

Close == place' = "none" /\ files' = {} /\ rows' = {} /\ UNCHANGED copy

InUse == place = "source" \/ (place = "target" /\ copy # {} /\ copy \subseteq files \cap rows)

Write == InUse /\ (\E d \in Documents : files' = files \cup {d}) /\ UNCHANGED <<place, rows, copy>>

Settle == InUse /\ (\E d \in files : rows' = rows \cup {d}) /\ UNCHANGED <<place, files, copy>>

Copy == place = "source" /\ copy = {} /\ rows = files /\ copy' = files /\ UNCHANGED <<place, files, rows>>

Restore ==
  /\ place = "target" /\ files = {} /\ rows = {}
  /\ files' = copy /\ rows' = copy
  /\ UNCHANGED <<place, copy>>

Next == Open \/ Close \/ Write \/ Settle \/ Copy \/ Restore

Spec == Init /\ [][Next]_<<place, files, rows, copy>>
=============================================================================
