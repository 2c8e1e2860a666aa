----------------------------- MODULE BoundedPool -----------------------------
(***************************************************************************)
(* What a pool of Size places owes to those who share it: nobody is let in *)
(* while it is full, one at a time goes in and out, and a place that is    *)
(* taken stays taken until the work that took it is done, whoever has gone *)
(* away in the meantime.                                                   *)
(***************************************************************************)
EXTENDS Naturals

CONSTANT Size

VARIABLE taken

Init == taken = 0

Enter == taken < Size /\ taken' = taken + 1

Leave == taken > 0 /\ taken' = taken - 1

Spec == Init /\ [][Enter \/ Leave]_taken
=============================================================================
