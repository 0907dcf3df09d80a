--------------------------- MODULE MCProcessingGraph ---------------------------
(* Small instances of ProcessingGraph for TLC. *)
EXTENDS ProcessingGraph, TLC

\* Each kind of step before an image is made and between two.
MCGraphs == {<<"buffered", "script", "buffered">>, <<"inPlace", "buffered", "buffered">>}

MCSymmetry == Permutations(Images)

=============================================================================
