-------------------------- MODULE MCLocalLifecycle --------------------------
(* Small hosts for TLC: r1, u1 and d1 share a checkout, r2 has its own.    *)
EXTENDS LocalLifecycleProps, TLC

CONSTANTS r1, r2, u1, d1, shared, own

MCCheckoutOf == [i \in Invocations |-> IF i = r2 THEN own ELSE shared]

AllFaults == FaultKinds
QueryFaults == {"query"}
=============================================================================
