------------------------ MODULE MCIsolationCampaign ------------------------
(***************************************************************************)
(* Two invocations with one ledger, and one with a ledger of its own.      *)
(***************************************************************************)
EXTENDS IsolationCampaignProps, TLC
CONSTANTS c1, c2, c3, p1, p2
MCOneLedger == [c \in Campaigns |-> p1]
MCTwoLedgers == [c \in Campaigns |-> IF c = c3 THEN p2 ELSE p1]
\* The two invocations with one ledger may change places.
MCSymmetry == Permutations({c1, c2})
MCBoth == {"yes", "no"}
MCWithout == {"no"}
MCEdits == EditKinds
MCNoEdits == {}
MCOnlyEdit == {"edit"}
=============================================================================
