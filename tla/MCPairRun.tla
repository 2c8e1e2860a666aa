------------------------------ MODULE MCPairRun ------------------------------
EXTENDS PairRunProps

\* A Bulk and a Critical arrival at once and a Bulk arrival a tick later.
MCKind == [n \in Items |-> IF n = 2 THEN "critical" ELSE "bulk"]
MCAt == [n \in Items |-> IF n = 3 THEN 1 ELSE 0]
MCWorkers == [k \in Classes |-> 1]
=============================================================================
