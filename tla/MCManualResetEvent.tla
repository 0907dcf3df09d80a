-------------------------- MODULE MCManualResetEvent --------------------------
(* Small instances of ManualResetEvent for TLC. *)
EXTENDS ManualResetEvent

=============================================================================
