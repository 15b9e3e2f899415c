------------------------- MODULE MCChecksumContext -------------------------
(* Small instances of ChecksumContext for TLC. *)
EXTENDS ChecksumContext, TLC

MCEnabled == {0, 2}
MCEnabledAll == {0, 1, 2}
============================================================================
