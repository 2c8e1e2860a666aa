\* Two invocations with one approval and one with another; only the campaigns change the cluster.
SPECIFICATION Spec
CONSTANTS
  c1 = c1
  c2 = c2
  c3 = c3
  p1 = p1
  p2 = p2
  Campaigns = {c1, c2, c3}
  Paths = {p1, p2}
  LedgerOf <- MCTwoLedgers
  NoOne = NoOne
  Other = Other
  Calibrations <- MCWithout
  Edits <- MCNoEdits
SYMMETRY MCSymmetry
INVARIANTS
  CampaignsApart
PROPERTIES
  OthersLeftAlone
