---------------------------- MODULE ProcessingGraph ----------------------------
(* The video processing graph of a source: its preparation (PreparePlugins),   *)
(* its run on a frame (PerformNewFrameProcessing and the DoXxxPlugin methods)   *)
(* with the buffer of images that is reused from frame to frame, the            *)
(* configuration a client changes while it runs, and the performance history.   *)
(*                                                                              *)
(* An image is known by its memory, and by how many steps of the graph what is  *)
(* in it has been through since the last frame came.  Who may run when is       *)
(* VideoSourceData's: here a frame comes only between two runs (both are under  *)
(* VideoProcessingSync), perhaps over one not run yet; and a run may begin      *)
(* without a new frame, as the two events allow.  Memory suffices.              *)
EXTENDS Integers, Sequences, SequencesExt, FiniteSets

CONSTANTS
  N,                    (* steps of the graph                                 *)
  Graphs,               (* the graphs considered: what kind each step is      *)
  Images, NoImage,      (* blocks of image memory                             *)
  HistoryLength         (* PERFORMANCE_HISTORY_LENGTH                         *)

Steps == 1..N
Kinds == {"inPlace", "buffered", "script"}

ASSUME GraphAssumption ==
  /\ N \in Nat
  /\ Graphs \subseteq [Steps -> Kinds]
  /\ NoImage \notin Images
  /\ HistoryLength \in Nat \ {0}

VARIABLES
  graph, plugin,        (* the steps: their kind; has it a plug-in instance?  *)
  stepFailed,           (* StepFailedInitialization, 0 for none               *)
  pc,                   (* what the processing thread is at                   *)
  step,                 (* the step the loop is at                            *)
  index,                (* currentImageIndex                                  *)
  done, failed,         (* videoProcessingStepsDone; is there an errorMessage? *)
  buffer, last,         (* ProcessingGraphBuffer and LastImage                *)
  content,              (* how many steps each image has been through         *)
  fresh, again,         (* is there a frame not run yet; had this run none?   *)
  pending,              (* UpdatedVideoProcessingConfig, per step             *)
  applied,              (* the configuration the plug-in was given last       *)
  need, running,        (* NeedToRun- and IsPerformanceMonitroRunning         *)
  ring, next            (* time histories, 0 being the graph's, and their next index *)

steps     == <<graph, plugin, stepFailed>>
run       == <<pc, step, index, done, failed, again>>
images    == <<buffer, last, content, fresh>>
updates   == <<pending, applied>>
monitor   == <<need, running>>
history   == <<ring, next>>
graphVars == <<steps, run, images, updates, monitor, history>>

Stale == -1

EmptyHistory == [k \in 0..N |-> <<>>]
FirstIndices == [k \in 0..N |-> 0]

GraphInit ==
  /\ graph \in Graphs /\ plugin = [s \in Steps |-> FALSE] /\ stepFailed = 0
  /\ pc = "prepare" /\ step = 1 /\ index = 0 /\ done = 0 /\ failed = FALSE /\ again = FALSE
  /\ buffer = <<>> /\ last = NoImage /\ content = [i \in Images |-> Stale] /\ fresh = FALSE
  /\ pending = [s \in Steps |-> "none"] /\ applied = [s \in Steps |-> "latest"]
  /\ need = FALSE /\ running = FALSE
  /\ ring = EmptyHistory /\ next = FirstIndices

-----------------------------------------------------------------------------
(* Preparation and frames.                                                 *)

\* The loop is meant to end with the first step that fails, but the error message it tests is
\* never set: every step is created, and the last script that is broken is remembered.
PreparePlugins ==
  /\ pc = "prepare" /\ pc' = "idle"
  /\ plugin' \in [Steps -> BOOLEAN]
  /\ \E broken \in SUBSET {s \in Steps : plugin'[s] /\ graph[s] = "script"} :
       \/ broken = {} /\ stepFailed' = 0
       \/ stepFailed' \in broken /\ \A s \in broken : s <= stepFailed'
  /\ UNCHANGED <<graph, step, index, done, failed, again, images, updates, monitor, history>>

Unused == Images \ (Range(buffer) \cup {last})

\* The frame is copied over the first image of the buffer, or into new memory when that has
\* another size; the buffer's first image is then the one copied to.
OnNewImage(image) ==
  /\ pc = "idle"
  /\ last' = image
  /\ buffer' = IF buffer = <<>> THEN <<image>> ELSE [buffer EXCEPT ![1] = image]
  /\ content' = [i \in Images |-> IF i = image THEN 0 ELSE Stale]
  /\ fresh' = TRUE
  /\ UNCHANGED <<steps, run, updates, monitor, history>>

\* Faulty: LastImage is not taken back to the buffer's first image before the copy.
NewFrame_KeepsLast ==
  \E image \in Unused \cup ({last} \ {NoImage}) : OnNewImage(image)

NewFrame ==
  \E image \in Unused \cup (IF buffer = <<>> THEN {} ELSE {buffer[1]}) : OnNewImage(image)

-----------------------------------------------------------------------------
(* A run of the graph.                                                     *)

Begin ==
  /\ pc = "idle" /\ last # NoImage
  /\ pc' = "run" /\ step' = 1 /\ index' = 0 /\ done' = 0 /\ failed' = FALSE
  /\ again' = ~fresh /\ fresh' = FALSE
  /\ content' = IF fresh THEN content ELSE [i \in Images |-> Stale]
  /\ UNCHANGED <<steps, buffer, last, updates, monitor, history>>

InLoop == pc = "run" /\ step \in Steps /\ ~failed

Older(times)       == [j \in DOMAIN times |-> IF times[j] < HistoryLength THEN times[j] + 1
                                              ELSE times[j]]
Recorded(times, i) == IF Len(times) < HistoryLength THEN Append(Older(times), 0)
                      ELSE [Older(times) EXCEPT ![i + 1] = 0]
Following(times, i) == IF Len(times) < HistoryLength THEN i
                       ELSE IF i + 1 < HistoryLength THEN i + 1 ELSE 0

\* The time taken is stored in the ring of its own, in place of the oldest once that is full.
Record(k) ==
  IF running THEN /\ ring' = [ring EXCEPT ![k] = Recorded(@, next[k])]
                  /\ next' = [next EXCEPT ![k] = Following(ring[k], @)]
             ELSE UNCHANGED history

Succeeds == /\ done' = done + 1 /\ step' = step + 1
            /\ Record(step) /\ UNCHANGED <<steps, pc, failed, again, fresh, updates, monitor>>
Fails    == /\ failed' = TRUE /\ step' = step + 1
            /\ Record(step) /\ UNCHANGED <<steps, pc, done, again, fresh, updates, monitor>>

\* A script that failed to initialize or a missing plug-in ends the graph, and nothing is timed.
StepIsMissing ==
  /\ InLoop /\ (step = stepFailed \/ ~plugin[step])
  /\ failed' = TRUE
  /\ step' = IF step = stepFailed THEN step ELSE step + 1
  /\ UNCHANGED <<steps, pc, index, done, again, images, updates, monitor, history>>

IsRun(kind) == InLoop /\ step # stepFailed /\ plugin[step] /\ graph[step] = kind

Processed(image) == IF content[image] = Stale THEN Stale ELSE content[image] + 1

\* ProcessImage on LastImage; one that fails may leave its marks, or refuse the format.
InPlace ==
  /\ IsRun("inPlace")
  /\ \/ Succeeds /\ content' = [content EXCEPT ![last] = Processed(last)]
     \/ Fails    /\ content' \in {content, [content EXCEPT ![last] = Processed(last)]}
  /\ UNCHANGED <<index, buffer, last>>

\* From LastImage into the next image of the buffer, or into new memory when there is none;
\* processed onto itself an image is not processed.
Reused == index + 2 <= Len(buffer)

BufferedInto(image) ==
  /\ last' = image
  /\ content' = [content EXCEPT ![image] = IF image = last THEN Stale ELSE Processed(last)]

Stored(image) == IF Reused THEN [buffer EXCEPT ![index + 2] = image] ELSE Append(buffer, image)

\* Faulty: the new image is not kept in the buffer.
Buffered_Unstored ==
  /\ IsRun("buffered")
  /\ Succeeds
  /\ \E image \in IF Reused THEN {buffer[index + 2]} ELSE Unused : BufferedInto(image)
  /\ index' = index + 1
  /\ UNCHANGED buffer

Buffered ==
  /\ IsRun("buffered")
  /\ \/ /\ Succeeds
        /\ \E image \in IF Reused THEN {buffer[index + 2]} ELSE Unused :
             BufferedInto(image) /\ buffer' = Stored(image)
     \/ /\ Fails
        /\ content' \in {content} \cup
             {[content EXCEPT ![i] = Stale] : i \in IF Reused THEN {buffer[index + 2]} ELSE {}}
        /\ UNCHANGED <<buffer, last>>
  /\ index' = index + 1

\* A format that is refused leaves the index where it is.
BufferedRefused ==
  /\ IsRun("buffered")
  /\ Fails
  /\ UNCHANGED <<index, buffer, last, content>>

\* A script may set the image, which is copied over LastImage or, having another size, cloned.
ScriptImages == Unused \cup {last}

Script ==
  /\ IsRun("script")
  /\ \E image \in ScriptImages :
       /\ last' = image
       /\ \/ Succeeds /\ content' = [content EXCEPT ![image] = Processed(last)]
          \/ Fails    /\ content' \in {[content EXCEPT ![image] = Processed(last)],
                                       [content EXCEPT ![image] = content[last]]}
  /\ UNCHANGED <<index, buffer>>

Step == StepIsMissing \/ InPlace \/ Buffered \/ BufferedRefused \/ Script

\* The frame information is brought up to date under VideoFrameInfoSync: histories begin anew
\* when the monitor is turned on, the graph's time is stored when it was on, and what was
\* configured since the last frame goes to the plug-ins there are.
GraphIsOver == pc = "run" /\ (failed \/ step \notin Steps)

\* Faulty: the index of the histories is not taken back.
UpdateMonitor_KeepsIndex ==
  /\ IF need /\ ~running THEN ring' = EmptyHistory /\ UNCHANGED next ELSE Record(0)
  /\ running' = need

UpdateMonitor ==
  /\ IF need /\ ~running THEN ring' = EmptyHistory /\ next' = FirstIndices ELSE Record(0)
  /\ running' = need

ApplyUpdates ==
  /\ applied' = [s \in Steps |-> IF plugin[s] /\ pending[s] # "none" THEN pending[s]
                                 ELSE applied[s]]
  /\ pending' = [s \in Steps |-> "none"]

FinishGraph ==
  /\ GraphIsOver /\ pc' = "notify"
  /\ UpdateMonitor /\ ApplyUpdates
  /\ UNCHANGED <<steps, step, index, done, failed, again, images, need>>

\* The listeners are given LastImage even when the graph is not complete.
Notify ==
  /\ pc = "notify" /\ pc' = "idle"
  /\ UNCHANGED <<steps, step, index, done, failed, again, images, updates, monitor, history>>

-----------------------------------------------------------------------------
(* Calls of clients, at any time.                                          *)

\* Faulty: an update that waits already is not replaced.
SetConfiguration_Inserts(s) ==
  /\ pending' = [pending EXCEPT ![s] = IF @ = "none" THEN "latest" ELSE "older"]
  /\ applied' = [applied EXCEPT ![s] = "older"]
  /\ UNCHANGED <<steps, run, images, monitor, history>>

SetConfiguration(s) ==
  /\ pending' = [pending EXCEPT ![s] = "latest"]
  /\ applied' = [applied EXCEPT ![s] = "older"]
  /\ UNCHANGED <<steps, run, images, monitor, history>>

EnableMonitor ==
  /\ need' \in BOOLEAN
  /\ UNCHANGED <<steps, run, images, updates, running, history>>

GraphNext ==
  \/ PreparePlugins \/ NewFrame \/ Begin \/ Step \/ FinishGraph \/ Notify
  \/ EnableMonitor \/ \E s \in Steps : SetConfiguration(s)

GraphSpec == GraphInit /\ [][GraphNext]_graphVars

-----------------------------------------------------------------------------
(* Properties.                                                             *)

\* The types; no image of the buffer is skipped, so that each push_back of a run lands where
\* the step's index says.
GraphTypeOK ==
  /\ graph \in Graphs /\ plugin \in [Steps -> BOOLEAN] /\ stepFailed \in 0..N
  /\ pc \in {"prepare", "idle", "run", "notify"}
  /\ step \in 1..(N + 1) /\ index \in Nat /\ done \in 0..N
  /\ failed \in BOOLEAN /\ again \in BOOLEAN /\ fresh \in BOOLEAN
  /\ buffer \in Seq(Images) /\ last \in Images \cup {NoImage}
  /\ content \in [Images -> Stale..N]
  /\ pending \in [Steps -> {"none", "latest", "older"}]
  /\ applied \in [Steps -> {"latest", "older"}]
  /\ need \in BOOLEAN /\ running \in BOOLEAN
  /\ ring \in [0..N -> Seq(0..HistoryLength)] /\ next \in [0..N -> 0..(HistoryLength - 1)]
  /\ last # NoImage => index + (IF failed THEN 0 ELSE 1) <= Len(buffer)

\* What listeners are given is the frame that came last, run through as many steps as the frame
\* information tells, and perhaps part of the one that failed: not an image of an earlier
\* frame the buffer holds.  A run without a new frame is excepted: it may have worked on the
\* result of the run before.
NotifiedIsProcessed ==
  pc = "notify" /\ ~again =>
    content[last] \in IF failed THEN {done, done + 1} ELSE {done}

\* Of the configurations a step was given, the latest is never lost to an earlier one, nor to
\* the graph that runs: it is the plug-in's or will be after the frame.
UpdatesAreKept == \A s \in Steps : plugin[s] => "latest" \in {applied[s], pending[s]}

\* The averages are taken over the latest times since the monitor was turned on and nothing
\* else: no time is overwritten while older ones stay.
HistoryIsRecent == \A k \in 0..N : Range(ring[k]) = 0..(Len(ring[k]) - 1)

=============================================================================
