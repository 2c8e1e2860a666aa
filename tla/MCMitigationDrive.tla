------------------------- MODULE MCMitigationDrive -------------------------
(***************************************************************************)
(* Three waves, one tick apart: the release is due in the last.            *)
(***************************************************************************)
EXTENDS MitigationDriveProps
KindShort == <<"issue", "git", "issue", "issue">>
AtShort == <<0, 1, 1, 2>>
=============================================================================
