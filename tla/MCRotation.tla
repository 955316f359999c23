----------------------------- MODULE MCRotation -----------------------------
(* Small instances of FileRotation for TLC: three names instead of ten. *)
EXTENDS FileRotation

NoneOrTwo == {0, 2}
None == {0}
=============================================================================
