------------------------ MODULE MCCheckpointRestore ------------------------
(***************************************************************************)
(* Both modes; the model is finite without further bounds.                 *)
(***************************************************************************)
EXTENDS CheckpointRestoreProps
ModesDef == {"recovery", "upgrade"}
=============================================================================
