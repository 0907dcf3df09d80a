---------------------------- MODULE MCVideoRepeater ----------------------------
(* Small instances of VideoRepeater for TLC. *)
EXTENDS VideoRepeater

=============================================================================
