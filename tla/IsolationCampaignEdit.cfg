\* Another operator edits the shared ConfigMap during a campaign.
SPECIFICATION Spec
CONSTANTS
  c1 = c1
  c2 = c2
  c3 = c3
  p1 = p1
  p2 = p2
  Campaigns = {c1}
  Paths = {p1, p2}
  LedgerOf <- MCOneLedger
  NoOne = NoOne
  Other = Other
  Calibrations <- MCBoth
  Edits <- MCOnlyEdit
PROPERTIES
  EditsSurviveRestore
