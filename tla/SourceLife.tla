----------------------------- MODULE SourceLife ------------------------------
(***************************************************************************)
(* What the automation server and one of its video sources promise each    *)
(* other: how the plug-in's thread, the processing thread and the object   *)
(* that has both come and go.  The server is a keeper of many such lives,  *)
(* the inside of a source is one of them.                                  *)
(*                                                                         *)
(* The order of things: the processing thread comes with the object and    *)
(* starts the source's thread; the object is finalized only when both were *)
(* told to exit and the source was unsubscribed from; its destruction      *)
(* begins after finalization and ends after the processing thread.  What   *)
(* is not promised shows, too: a processing thread that is late starts the *)
(* source's thread whatever has become of the object.                      *)
(***************************************************************************)

VARIABLES
  source,      (* the plug-in's thread                                      *)
  processing,  (* the processing thread                                     *)
  told,        (* the processing thread was told to exit                    *)
  heard,       (* the plug-in has the object as its listener                *)
  kept         (* the object: where it is kept by the server                *)

vars == <<source, processing, told, heard, kept>>

\* No object yet.
Init ==
  /\ source = "none" /\ processing = "none" /\ told = FALSE /\ heard = FALSE /\ kept = "none"

\* The object is made and has its processing thread.
Started ==
  /\ source = "none" /\ processing = "preparing" /\ told = FALSE /\ heard = TRUE
  /\ kept = "running"

Start ==
  /\ kept = "none"
  /\ source' = "none" /\ processing' = "preparing" /\ told' = FALSE /\ heard' = TRUE
  /\ kept' = "running"

\* The processing thread starts the source's, or is over when it cannot.
SourceStarts ==
  /\ processing = "preparing"
  /\ source = "none"
  /\ \/ source' = "running" /\ processing' = "processing"
     \/ processing' = "done" /\ UNCHANGED source
  /\ UNCHANGED <<told, heard, kept>>

ProcessingExits ==
  /\ processing = "processing"
  /\ told
  /\ processing' = "done"
  /\ UNCHANGED <<source, told, heard, kept>>

SourceExits ==
  /\ source = "signalled"
  /\ source' = "exited"
  /\ UNCHANGED <<processing, told, heard, kept>>

\* Finalization begins: the processing thread is told, then the source unsubscribed from.
Tell ==
  /\ kept = "running"
  /\ told' = TRUE
  /\ heard' \in {heard, FALSE}
  /\ UNCHANGED <<source, processing, kept>>

SignalSource == source' = IF source = "running" THEN "signalled" ELSE source

Finalize ==
  /\ kept = "running"
  /\ kept' = "finalizing" /\ told' = TRUE /\ heard' = FALSE
  /\ SignalSource
  /\ UNCHANGED processing

\* Once more, by who waits for the source's thread.
Signal ==
  /\ kept = "finalizing"
  /\ SignalSource
  /\ UNCHANGED <<processing, told, heard, kept>>

\* A source that does not run is taken out of the queue; destruction begins.
Destruct ==
  /\ kept = "finalizing"
  /\ source \notin {"running", "signalled"}
  /\ kept' = "joining"
  /\ UNCHANGED <<source, processing, told, heard>>

Destroy ==
  /\ kept \in {"finalizing", "joining"}
  /\ processing = "done"
  /\ kept' = "gone"
  /\ UNCHANGED <<source, processing, told, heard>>

Next ==
  \/ Start \/ SourceStarts \/ ProcessingExits \/ SourceExits
  \/ Tell \/ Finalize \/ Signal \/ Destruct \/ Destroy

Spec == Init /\ [][Next]_vars

StartedSpec == Started /\ [][Next]_vars

=============================================================================
