--------------------------- MODULE ArrivalLedger ----------------------------
(***************************************************************************)
(* What an open-loop load driver promises about its planned arrivals:      *)
(* every arrival gets exactly one terminal row, no row is changed later,   *)
(* and the campaign closes only when no arrival is missing, so that the    *)
(* denominator of every reported fraction is the whole schedule.           *)
(***************************************************************************)
CONSTANTS Items, Outcomes, Open

VARIABLES row, closed

Init == row = [n \in Items |-> Open] /\ closed = FALSE

Enter(n, o) ==
  /\ ~closed
  /\ row[n] = Open
  /\ row' = [row EXCEPT ![n] = o]
  /\ UNCHANGED closed

Close ==
  /\ ~closed
  /\ \A n \in Items : row[n] # Open
  /\ closed' = TRUE
  /\ UNCHANGED row

Next == Close \/ \E n \in Items, o \in Outcomes : Enter(n, o)

Spec == Init /\ [][Next]_<<row, closed>>
=============================================================================
