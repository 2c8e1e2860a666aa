------------------------------ MODULE RunPhases ------------------------------
(***************************************************************************)
(* What one measurement run owes to the campaign around it: its demand     *)
(* meets the fault first and the recovery from it afterwards, so the       *)
(* fault is lifted between the two, or when the demand is cut, by two      *)
(* patches of which either may fail; and the run is not closed before its  *)
(* demand is over and the lift has been tried.                             *)
(***************************************************************************)
VARIABLES demand, release, closed

Init == demand = "mitigation" /\ release = "off" /\ closed = FALSE

Lift ==
  /\ demand = "mitigation" /\ demand' = "recovery" /\ release' = "hold"
  /\ UNCHANGED closed

Complete == demand = "recovery" /\ demand' = "complete" /\ UNCHANGED <<release, closed>>

\* A demand that is cut lifts the fault unless that is under way.
Cut ==
  /\ demand \in {"mitigation", "recovery"} /\ demand' = "cut"
  /\ release' = IF release = "off" THEN "hold" ELSE release
  /\ UNCHANGED closed

Patch ==
  /\ \/ release = "hold" /\ release' \in {"capacity", "failed"}
     \/ release = "capacity" /\ release' \in {"done", "failed"}
  /\ UNCHANGED <<demand, closed>>

Close ==
  /\ ~closed /\ demand \in {"complete", "cut"} /\ release \in {"done", "failed"}
  /\ closed' = TRUE /\ UNCHANGED <<demand, release>>

Next == Lift \/ Complete \/ Cut \/ Patch \/ Close

Spec == Init /\ [][Next]_<<demand, release, closed>>
=============================================================================
