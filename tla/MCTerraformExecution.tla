----------------------- MODULE MCTerraformExecution ------------------------
EXTENDS TerraformExecutionProps, TLC

CONSTANTS build, rotate, remove, server, network

\* A stack is built or completed, its server's password is rotated, and it is
\* destroyed, in any order.
MCApproval ==
  (build :> [operation |-> "apply", policy |-> "none", count |-> 1])
  @@ (rotate :> [operation |-> "apply", policy |-> "rotation", count |-> 1])
  @@ (remove :> [operation |-> "destroy", policy |-> "none", count |-> 2])
=============================================================================
