-------------------------- MODULE MCVideoSourceData --------------------------
(* Small instances of VideoSourceData for TLC. *)
EXTENDS VideoSourceData, TLC

ListenerSymmetry == Permutations(Listeners)

=============================================================================
