------------------------ MODULE MCMitigationCampaign ------------------------
(* Two invocations at a time, two plans and two of the four arms.          *)
EXTENDS MitigationCampaignProps, TLC
CONSTANTS p1, p2, v1, v2, C1, C3
MCSymmetry ==
  Permutations({p1, p2}) \cup Permutations({v1, v2}) \cup Permutations({C1, C3})
=============================================================================
