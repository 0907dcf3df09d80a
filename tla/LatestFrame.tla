----------------------------- MODULE LatestFrame -----------------------------
(***************************************************************************)
(* What the hand-over of frames from a video source to its listeners       *)
(* promises: a place for one frame.  A frame offered by the source is      *)
(* stored there, or not; the listeners are given the frame stored last.    *)
(* Frames may be skipped and may be given twice, but never in the wrong    *)
(* order and never one that was replaced.                                  *)
(***************************************************************************)
EXTENDS Naturals

VARIABLES
  offered,     (* number of frames offered so far; frames are numbered from 1 *)
  stored,      (* the frame in the place, 0 when there is none                *)
  delivered    (* the frame last given to the listeners, 0 before the first   *)

vars == <<offered, stored, delivered>>

Init == offered = 0 /\ stored = 0 /\ delivered = 0

Offer ==
  /\ offered' = offered + 1
  /\ UNCHANGED <<stored, delivered>>

\* The newest frame takes the place, or is lost on the way with the one before.
Store ==
  /\ offered # stored
  /\ stored' \in {offered, 0}
  /\ UNCHANGED <<offered, delivered>>

Deliver ==
  /\ stored # 0
  /\ delivered' = stored
  /\ UNCHANGED <<offered, stored>>

Next == Offer \/ Store \/ Deliver

Spec == Init /\ [][Next]_vars

\* The frame in the place may be lost although it is the newest, when it is put there again.
Lose ==
  /\ stored' = 0
  /\ UNCHANGED <<offered, delivered>>

LossySpec == Init /\ [][Next \/ Lose]_vars

\* Listeners never get a frame older than one they were given.
NeverBackwards == [][delivered' >= delivered]_vars

=============================================================================
