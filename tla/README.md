# TLA+ models of Computer Vision Sandbox

Models, model checks and machine-checked proofs of the concurrent core of Computer Vision
Sandbox (C/C++): the automation server with its video sources and their processing graph, the
synchronization event everything in it meets at, the video repeater plug-ins, the thread of
HTTP commands with the Raspberry Pi camera that uses it, and the MJPEG stream.

## 1. The system

A user composes video sources, image and video processing plug-ins and scripts into a
*sandbox*. The GUI hands the sandbox to the **automation server**, which runs it:

```
 application (GUI thread)                     listeners (views, players)
    | add/start/finalize, listeners,                 ^ OnNewVideoFrame / OnError
    | frame dropping, stop                           |
    v                                                |
 XAutomationServer --- server thread (polls the finalization queue every 200 ms)
    |  ServerSync
    +-- VideoSourceData 1..n
    |      plug-in's thread --OnNewImage--> LastImage --events--> processing thread -> graph
    +-- ScriptingThreadData 1..m (a thread each, runs a script at an interval)
    +-- host variables (read and written by scripts)
```

| Component | State | Operations | Hard behaviour | What makes it correct |
|---|---|---|---|---|
| Video source in the server (`VideoSourceData`) | `LastImage`, counters, two events, three mutexes, listeners | `OnNewImage`, `OnError`, processing loop, add/remove listener, finalize, destroy | three threads, two events that are reset by hand, callbacks under locks | no frame out of order, no lost wake-up, nobody called after unsubscribing, destroyed only when unused |
| Automation server | six maps, an identifier counter, finalization queue | start/stop, add/start/finalize of sources and threads, polling, draining | objects come and go while the queue is drained; joining with a mutex held | an object is in one map, goes one way, and is destroyed when its threads are over |
| Manual reset event | counter, flag, mutex, condition variable | signal, reset, wait, timed wait | spurious wake-ups, signal + reset before the waiter runs, counter and time overflow | behaves like an atomic event |
| Video repeater | two images, two events, a registry of raw pointers | start, stop, push, background thread | reset after test, shared identifiers, restart with old state | registry tells who runs; images and stops arrive |
| Processing graph | steps, plug-ins, image buffer, pending configuration, performance history | prepare, run, update configuration, turn the monitor on | partial initialization, images used again from frame to frame, changes while it runs | listeners get the latest frame; no configuration is lost; averages are of the latest times |
| HTTP commands thread | queue, counter, two events, listener | start, stop, enqueue, clear, set listener, worker | events reset while others queue and stop; callbacks under a mutex; a command that fails twice or both fails and completes | no command lost, no wake-up lost, each reported once |
| Raspberry Pi camera plug-in | device, commands thread, version request, one mutex | start, stop, wait, properties, callbacks, listener | two threads to stop, a listener that stops the thread it is called by, two mutexes in both orders | stops take place, nobody called after unsubscribing, no thread left when destroyed |
| MJPEG stream | parser buffer and indices, pause, first try | start, stop, connect again, receive a piece | boundaries over pieces, errors while stopping, cameras that stall | whole images in order, indices in the buffer, stops whatever the camera does |
| Host variables, JPEG stream, video file writer, threads and timers | | | sequential, or as the above | not modelled, see section 7 |
| Plug-in manager, plug-in interface, Lua bindings, imaging and vision, devices, GUI, FFmpeg/DirectShow wrappers | | | sequential, numeric, or calls of libraries | not modelled, see section 7 |

How they interact: the application calls `XAutomationServer`, whose methods lock
`ServerSync`; a plug-in's thread calls `OnNewImage` with the plug-in's own mutex locked;
the processing thread calls listeners with `VideoProcessingSync` and `ListenerSync` locked;
the push plug-in of one source's graph signals the thread of a repeater, which is another
source of the same server. A Raspberry Pi camera has two threads of its own: the image stream,
which calls the server, and the commands thread, which calls the plug-in. All signalling is by
manual reset events.

## 2. Modules

| Module | What it models |
|---|---|
| `LatestFrame` | abstract: a place for the latest frame, filled and emptied at different speeds; what one source and one repeater are |
| `SourceLife` | abstract: how an object with its two threads comes and goes; what `AutomationServer` and `VideoSourceData` agree on |
| `VideoSourceData` | one video source: plug-in's thread `src`, processing thread `prc`, and `ctl`, whoever is inside the server for it |
| `AutomationServer` | the server's maps, the life cycle of sources and scripting threads, server thread |
| `AtomicEvent` | abstract: an event that lets go all waiting threads at once |
| `ManualResetEvent` | its PThreads implementation |
| `VideoRepeater` | repeaters, push plug-in and registry |
| `ProcessingGraph` | one source's graph: preparation, run, image buffer, configuration, performance monitor |
| `HttpCommandsThread` | the commands thread and everything that can be called of it |
| `RaspberryPiCamera` | the plug-in that uses it: composes `HttpCommandsThread` (EXTENDS) with owner, setter, device and listener |
| `MjpegStream` | the thread that connects to a camera, and its parser |
| `MC...` | the modules as TLC gets them |
| `..._proofs` | theorems about the module of that name; `MjpegImages_proofs` goes on from `MjpegStream_proofs` |

The modules are split along the locks. `VideoSourceData` has the inside of one source with
each lock, unlock and event operation a step of its own; `AutomationServer` has many objects
and takes what holds `ServerSync` as one step, which `CallbackReturns` of `VideoSourceData`
justifies: the mutexes inside a source become free whatever the server does, as long as
handlers do not call the server (see run `handler_deadlock`). `SourceLife` is where the two
meet: both are proved to implement it, the one for each of its sources, the other for the
source it is the inside of. Both take events as atomic:
`SignalNewFrame` and `SignalFree` set the event and let go the waiting thread in one step.
That is what `AtomicEvent` says, and `EventIsAtomic` proves of the implementation.
`ProcessingGraph` is what `VideoSourceData` has as the one step `GraphRun`: it takes from there
that frames come between runs only, and that a run may come twice on a frame. In
`RaspberryPiCamera` every step is a step of `HttpCommandsThread` together with what the plug-in
does, or leaves its variables alone (`CameraUsesCommandsThread` proves it), so what is proved of
the thread alone, for any user, holds of the camera.

### How state and actions correspond to the code

*VideoSourceData.* `prc`, `src` and `ctl` are program counters; their values name the place
in `VideoProcessingThreadHandler` / `PerformNewFrameProcessing` / `NotifyNewFrame`,
`OnNewImage` / `OnError`, and the methods of the server. `newFrame`, `free` and `exitEvent`
are the events, `pluginSync`, `listenerSync` and `processingSync` the mutexes with their
owner. `lastImage` is which frame `LastImage` is a copy of, and after how many runs of the
graph; pixels are not modelled. `subscribed` is the listener list; `toNotify` is what the
loop over it has left. `offered` and `delivered` are history. An action is what a thread does between
two points where others can come between: `ResetNewFrame`, `Recheck` and `BecomeBusy` are
lines 1168, 1170 and 1173 of `XAutomationServer.cpp`. `FinalizeVideoSource` is five actions, as it takes and
releases three mutexes in turn. The plug-in's thread has the shape of `vs_effects`, the
repository's simplest video source: a loop that waits for its exit event, and calls the
server with the plug-in's mutex held.

*AutomationServer.* One set of identifiers per map. A source is its plug-in's thread
(`source`), its processing thread (`processing`) and whether the plug-in calls back
(`listening`). `ServerPoll`, `CleanVisit`, `CleanJoined` and `CleanThreads` are a round of
the server thread; the `Drain...` actions are what it does after `ExitEvent`.

*ManualResetEvent.* A step is what is done while the mutex is held. `WakeUp` is both a time out
and a wake-up for no reason. `last` is `lastCounterValue`, and `waitTill` the computed time; time
itself does not pass in the model. A guard in `Signal` says that 2^32 signals do not
come between a wake-up and its thread getting the mutex (with that many, the counter would look
unchanged).

*VideoRepeater.* `worker` is the background thread's place in `VideoSourceWorker`; `target`
is the pointer a push plug-in has looked up and not yet used; images are numbers in the order
they were pushed, 0 for null. Memory may run out at each clone, which leaves null; `failedAt` is
history: how many images had been pushed when the client was last told so. `Start` is two steps,
as the thread it creates (107) runs before the repeater is registered (109): in between the
repeater is in `starting`, which stands for `Sync` being locked, and stops, notifications of the
client and other starts wait (`SyncFree`).

*ProcessingGraph.* An image is a block of memory; `content` says how many steps what is in
it has been through since the last frame came, or that it is stale. `buffer` is
`ProcessingGraphBuffer`, `last` is `LastImage`, and both name blocks, so that it shows when
two of them are the same. `InPlace` is a plug-in that changes `LastImage`, `Buffered` one that
writes to the next image of the buffer, `Script` a script that may set the image. `FinishGraph`
is the part of `PerformNewFrameProcessing` under `VideoFrameInfoSync` (1438-1501).
`ring[0]` and `next[0]` are `TotalGraphTime` and `GraphTimeIndex`, the others those of the steps; a
time is represented by its age. `pending` and `applied` say of the configuration a step was
given last whether it waits, is in force, or has been overtaken by a later one.

*HttpCommandsThread.* `worker` is the place in `ControlLoop`; `inError` and `inCompletion` are
inside the listener, where `Sync` is locked: whatever else locks it has `~InCallback` as a guard,
except what the listener itself calls. `WorkerPop` is the block under `QueueSync` with the
setting up of the request; `WorkerRequest` is a round of the inner loop, in which libcurl may
fail, overflow the buffer or end the transfer, alone or together; `WorkerDone` is the response.
`told` and `settled` are history.

*RaspberryPiCamera.* `owner` is the thread that starts, unsubscribes, stops and destroys the
plug-in, as `XAutomationServerData` does (its `FinalizeVideoSource`, then `CleanAlreadyFinalized`
or `WaitAllFinalizingObjects`). It holds `pluginSync` in the places listed in `Holding`. `RetryVersion`,
`ReadAnswer` and `StopFakeCamera` are `HttpCommand_OnError` and `HttpCommand_OnCompletion`,
called while `worker` is in the callback.

*MjpegStream.* What a camera sends is a sequence of symbols and the buffer holds positions in it,
so that what was given can be compared with what was sent; a position of 0 is a byte that
the overlapping `memcpy` (786) may have damaged. `pc` is `sleep` in the wait of the outer loop
and `connected` in the inner one. `Receive` is one call of `CurlWriteMemoryCallback`, with a piece of any length:
`CheckBoundary`, `FindStart`, `GiveImage` and `SearchOn` are its parts in order.

## 3. Runs

| Run | Question | Bounds |
|---|---|---|
| `frames_safety` | Does a source hand over frames safely with everything that can go wrong? Types, mutual waiting, lost stop, calls after unsubscribing, destruction, counters, graph without an image, stable image, refinement of `LatestFrame` | 3 frames, 1 listener |
| `frames_progress` | Do frames, callbacks and finalization complete; is there a deadlock? | 2 frames, 1 listener |
| `server` | Does the life cycle hold with a queue, a poll and a stop that race? | 2 objects, any mix |
| `event` | Does the implementation of the event implement the atomic event? | 2 threads, counter modulo 3, 16 ns seconds |
| `repeater` | Are registry, images and stops right? | 2 repeaters, 2 identifiers, 1 pusher, 2 images, 2 starts |
| `camera` | Is any command, wake-up or stop lost between owner, setter, device and commands thread? | 2 starts, 1 retry, 1 property, 7 commands |
| `graph` | Do listeners get the right image, steps the right configuration, and averages the right times? | 2 graphs of 3 steps, 5 images, rings of 2 |
| `mjpeg` | Are images found whole however the stream is cut; does the thread stop? | 3 cameras of 3 or 4 images, buffer of 22 |
| `removed_still_running` | finding 1 | as `frames_progress` |
| `handler_deadlock` | finding 2 | " |
| `repeater_not_stopped` | finding 3 | 1 repeater |
| `camera_destroyed` | finding 4 | 1 start, no property |

**Why the bounds are enough to be of use.** A frame interacts with the frame before it (it
blocks, is dropped, overwrites or is announced twice) and with the one being processed, so three frames
show every combination of being stored, announced and processed; liveness needs a frame and
a later one. One listener can be added, called, removed and added once more; the theorems
about listeners are proved for any set of them. Two objects in the server suffice for one to be
joined while the other is added, started or finalized. Two threads are needed for a signal
that wakes one only; counter modulo 3 makes it wrap while threads wait. Two repeaters can
share an identifier or not, and two starts are two repeaters or a restart.
A second start of the camera finds the queue, events, identifiers and failure flag of the first; one
retry is the last one as well as the first, and a property can be set in between everything
else. The bound on commands, 2 * (1 + 2) + 1, is never the one that stops the camera: whenever
`CameraAssumption` holds, a request that is due finds the bound not yet reached
(`NothingIsHeldUp`). The
two graphs have each kind of step before and after an image of the buffer is used; five images are
one more than the buffer and `LastImage` can hold, so that new memory is never refused; rings of two
fill, wrap and begin anew. The three
cameras announce half their boundary, all of it, or none, and have what looks like the
beginning of a boundary or an image inside an image; pieces of every length are tried, and the
buffer overflows when it has to hold a whole stream. Every property
of a passing run has a faulty variant of a definition (named `Definition_Fault`, just
before the definition) under which TLC finds it violated with the same bounds.

**Deadlock** is checked in `frames_progress`, `server`, `event`, `graph` and `mjpeg`. It is not in
`frames_safety`, where an unsubscribing handler may deadlock (finding 2), in `repeater` and
`camera`, where everything may rest when the starts are used up, nor in the runs of findings.

## 4. Fairness

- `VideoSourceData`: weak fairness of both threads and of what an application thread has
  begun inside the server: threads keep running. Nobody need call the server, and the
  source need not produce. Strong fairness of `OnNewImageLock`, `GraphLock` and
  `FinalizeCallback`: each waits for a mutex others take and release again and again, and
  a mutex of the operating system does not starve a thread for ever.
- `AutomationServer`: the server thread, processing threads, and a plug-in's or script's
  thread *that was told to exit*. That a told thread exits is the contract of
  `SignalToStop`; plug-ins like `vs_effects` keep it (`FinalizedIsDestroyed`), the video
  repeater does not always (finding 3).
- `ManualResetEvent`: a thread that woke up gets the mutex. Time outs need not happen.
- `VideoRepeater`: the background thread keeps running, and a start that has created the thread
  registers the repeater. Nobody need push or stop.
- `RaspberryPiCamera`: threads keep running, mutexes starve nobody (strong fairness of those who
  wait for one), and a device that was told to ends. Nothing is expected of the camera: a
  request need not end before the thread was told to exit or has failed, since
  `curl_multi_wait` returns within 2 seconds. Nobody need start or set properties.
- `MjpegStream`: the thread keeps running, for the same reason. The camera need not send, and
  nobody need stop.
- `ProcessingGraph` has safety properties only.

## 5. What is proved

For every value of the constants, with TLAPS. Assumptions are those named `...Assumption`
in the modules (naturals, `NoListener` is no listener, a counter of at least two values).

**VideoSourceData_proofs.** All safety properties of `frames_safety`, including both action properties and the refinement of `LatestFrame`. None is inductive alone. The
inductive invariant `Inv` joins: who owns which mutex in which place (`LockInv`), how far
source, processing thread and finalization can be apart (`LifeInv`), that a processing
thread about to wait finds the event signalled if it has to exit (`WakeInv`, which makes
`StopIsNeverMissed` inductive), that the list being walked through is a part of the
subscribed ones (`ListenerInv`), the exact lag between counters and `FrameInfo` in each
place of `OnNewImage` (`CountInv`), that frames in the place are older than the one being
offered (`FrameInv`), and that whoever wakes the processing thread has stored an image, or tells
it to exit, unless a later copy has failed and been reported, or is being (`ImageInv`). One lemma per thread shows that its steps leave the rest alone, one
per part that `Next` preserves it. `ImplementsLatestFrame` then
maps each step to a step of `LatestFrame` or a stutter: `NewFrameNotify` offers,
the copies store, `NotifyLock` delivers. What is proved of `LatestFrame` alone, that frames
are given in their order, then holds of the source (`NeverAnOlderFrame`).
`LivesAsServerHasIt` maps the same steps to those of `SourceLife`: setting the flag and
`SetListener(nullptr)` to `Tell`, `SignalToStop` to `Finalize`, the two ways out of the
finalization queue to `Destruct`, the join in the destructor to `Destroy`; nothing else shows.

**AutomationServer_proofs.** `TypeOK`, `OneMapPerObject`, `RemovedIsOver`,
`DrainLeavesNothing` and `PhaseOnlyAdvances`, for any number of objects. `Inv` adds to the
types that the maps are disjoint and below the identifier counter (`MapsInv`), that
only objects in a running or finalizing map have threads (`ThreadsInv`), and that while
the server drains nothing is added or running (`DrainInv`), from which
`DrainLeavesNothing` follows, as only finalizing objects are left to go. `SourcesLiveAsPromised`:
each source is a `SourceLife`, through whatever method or round of the server thread it is
taken. It needs that a running source is neither told nor unheard and a finalizing one is both,
and that what the server thread is visiting or has yet to visit is in the queue (`LivesInv`),
which holds as no method comes in while it cleans up or drains.

**ManualResetEvent_proofs.** `NobodySleepsOn` with `RaisedIsCounted`: a
thread inside a wait while the event is up has a counter value to go by even if it is
reset. `EventIsAtomic`: every step is a step of `AtomicEvent` or a stutter.
`ShortWaitsAreExact`: when msec * 1000000 is below 2^32, timed waits are for as long as
asked. `EventTypeCorrect`: the types.

**VideoRepeater_proofs.** Types, and `RegistryIsAccurate`, from the invariants that a running
thread that has not unregistered is registered, unless its start is still under way or another
repeater has taken its identifier, and that a thread whose start is under way cannot be told to
stop, so has not unregistered (`StartingRun`): without `Sync` in `SignalToStop` it could, and the
start would register a repeater that is over. `RepeaterImplementsPlace`: each repeater is a place for the latest image, with what
was pushed to it as offered, its clone as stored and what was sent as delivered. The place
is lossy (`LossySpec`): the same image may be cloned again, after a second signal or a second start,
and fail to be that time. `RepeatsInOrder`: an image never follows a later one; from
`FrameInv`, that neither the pushed image nor the clone is older than what was sent.

**RaspberryPiCamera_proofs.** First of the commands thread with any user: its types;
`QueuedIsSignalled`, which is inductive with the types; `InOrder`, that identifiers in the queue increase and are above
the one under way; `EveryCommandIsAccounted`; and `ReportedOnce`, for which an invariant
ties what was told of the current command to `FailureDetected` and the place of the thread. Then
that the camera's steps are such steps, and `UnsubscribedIsQuiet`: from the moment the listener
is taken away, which waits for the callback to end, nothing can enter one until it is set again.
`CameraTypes` has the types of the plug-in, and bounds the identifiers given out by
`starts * (MaxRetries + 2) + settings`. That needs an account of requests not yet made:
`BudgetInv` adds to the identifiers given what the owner, the setter and the answer being
reported are still going to queue, and the retries left; with `VersionInv`, that after the
last retry nothing is left whose answer could cause another, and `LifeInv`, that a plug-in that
is not started has no thread. Each step moves an amount from one of these to another, or drops it.

**ProcessingGraph_proofs.** `UpdatesAreKept`, with: what waits is never an overtaken configuration; `HistoryIsRecent`,
from `Ordered`: before a ring is full it holds the ages downwards, and when it is full they go round from the index on,
so that what is replaced is the oldest (the ages modulo the length); `NotifiedIsProcessed`, from an
invariant on a run in progress: `LastImage` has been through exactly the steps done unless the
run is without a new frame, and is the buffer's image at the index or one a script has made;
and `GraphTypeOK`, whose hard part is that the buffer is never shorter than a step's index
needs, so that `push_back` puts the image where the index says.

**MjpegStream_proofs.** `StreamTypeOK`, the content of which is that every length the parser
computes is one: one lemma per part of the parser takes indices inside the buffer to such
indices, for any stream, pieces, boundary and buffer size.

**MjpegImages_proofs.** `GivenAreWhole`, that every image handed over is one the camera sent.
The invariant says that the buffer holds what was received since the end of the image given
last (`Base`), that the search for a start has passed over none and the search for an end over none
after it, and that what was given are consecutive images; so the next one cut out is the next of the
stream. One lemma per part of `ReceivePiece`. This is the only proof that uses
`CamerasAssumption`: images do not overlap, what looks like the start of one is one or is
inside one that is ended by a boundary, the boundary, where it is announced, follows each image
and is in none, and without one images follow each other directly. Without it the parser has nothing to tell images apart by. It asks
nothing of how the stream is cut into pieces.

**Only model-checked:** liveness (`StoredIsDelivered`, `CallbackReturns`,
`FinalizedIsDestroyed`, `QueueIsEmptied`, `StopCompletes`, `SignalledLeave`, `PushedIsSent`,
`StopOutsideGap`, `StopsTakePlace` and `StopTakesPlace`), which is out of the prover's
reach. Every invariant and action property of a passing run is proved.

**Only proved:** `LivesAsPromised`, `LiveAsPromised`, `RepeatsLatest` and `RepeatsInOrder` are in no run. TLC
cannot check an instance with a parameter, which the second and third are; for one source and
one repeater at a time both were found to hold before they were proved.

## 6. Findings

1. A source finalized before its processing thread has started it is destroyed while
   it starts and is left running (`removed_still_running`). `LateStart` in
   `AutomationServer` excludes exactly this from its liveness properties.
2. Unsubscribing in a handler, which comments allow, can deadlock the server
   (`handler_deadlock`).
3. The stop of a video repeater can be swallowed by its reset of the image event
   (`repeater_not_stopped`). In the same gap the last pushed image can be lost until the
   next one; `PushedIsSent` and `StopOutsideGap` say what holds outside the gap.
4. A Raspberry Pi camera is taken for finished, and destroyed by the server, when its stream has
   ended but its commands thread still runs (`camera_destroyed`).

Seen while modelling, and in the models, without a run of their own:

- A frame can be processed twice, and the frame before it never: the frame event is reset (1168)
  before the free event is (1173). `again` in `ProcessingGraph` is such a run; it starts from the result of the
  run before, and a step with an image of its own may then have the same image as source and
  destination.
- When memory for a copy runs out after a frame was announced, `LastImage` is null when the
  processing thread comes for that frame, and dereferenced (1310): `GraphCrash`. `GraphHasImage`
  says that this is the only way to it, and that the failure has been reported before.
- A new listener can be given an unprocessed frame as the recent one: `AddListenerRecent` of
  `VideoSourceData` finds `VideoProcessingSync` free between a frame and its processing.
- On POSIX, waiting for 4295 ms or more is cut short by 32-bit overflow
  (`XManualResetEventImpl_PThreads.cpp` 106, `XThreadImpl_PThreads.cpp` 132). `ShortWaitsAreExact`
  says which waits are right. The make files in the repository build the Win32 implementation,
  which is not affected.
- `LockedOut` in `RaspberryPiCamera`: the commands thread wants the plug-in's mutex to stop a fake
  camera while a thread with that mutex waits for the commands thread. `StopsTakePlace`
  holds but for this, so the hazard of line 688 has no property: it is real.
- The answer about the version is taken for one about a property when it comes before `Start`
  has assigned its identifier, so a fake camera is not stopped; and an error of the thread itself, whose
  identifier is 0, for one about the version before the first start has.
- A GET after a POST is sent as a POST: nothing takes `CURLOPT_POSTFIELDS` back
  (`XHttpCommandsThread.cpp` 456-459).
- A script that fails to initialize is run all the same when a later one fails too: one step is remembered.
- The performance monitor's `TotalAverageGraphTime` is not initialized before the first
  frame it measures.
- `GetVideoProcessingStepConfiguration` (408-428) reads plug-ins without the mutex under which
  the processing thread uses them.
- `XMjpegHttpStream`: a camera that refuses connections is tried again without pause and without
  an error; an image that is complete when the thread has been told to exit is reported as "Failed
  decoding JPEG image"; the rest of the buffer is moved with `memcpy` although it overlaps;
  one image at most is taken out per piece, so a backlog stays; and the start of the next image
  is missed when it is split over two pieces and no boundary is known, in which case two
  images are given as one.

## 7. What is not modelled

- The plug-in manager and interface, Lua bindings, GUI, devices other than the Raspberry Pi camera, image
  formats, and the FFmpeg and DirectShow wrappers: sequential code, or calls of libraries. Imaging and vision are numeric
  algorithms on pixels that TLC cannot enumerate. What is under `externals` is not the system's.
- Host variables: two maps, each of whose operations is one critical section; nothing interleaves.
- The video file writer: sequential, ruled by a wall clock, FFmpeg and the file system.
- `XJpegHttpStream`: the loop of `XMjpegHttpStream` without its parser.
- Threads, mutexes and timers themselves: steps of the other modules.
- Allocation failures other than of images in `VideoSourceData` and `VideoRepeater` (in
  `ProcessingGraph` memory suffices), and failure to create the processing thread in
  `VideoSourceData` (it is in `AutomationServer`).
- `Terminate` of plug-ins and of the server, which kills a thread wherever it is: nothing in the
  server calls the former, and the latter leaves whatever it held locked.
- The destruction of repeaters and of the registry object under raw pointers in use, and
  handlers that remove other listeners than themselves: in the hazard list without a property.
- The Win32 and C++11 versions of the events; the C++11 one differs only in how it computes
  the time to wait till.
- Torn reads of strings (`LastError`), and data races of the camera plug-in on
  `VersionRequestId` beyond their order.

## 8. Plan

Done: the modules of section 2, with a passing run each, and the theorems of section 5.

What could follow:

1. `GraphRun` of `VideoSourceData` as the abstraction of `ProcessingGraph`: each run of the
   latter a step of the former. (`AutomationServer` and `VideoSourceData` meet in `SourceLife`.)
2. A list of listeners with iterators; the registry's and the repeaters' life time.
3. `XJpegHttpStream` with the frame interval; a stream of `MjpegStream` as the device of
   `RaspberryPiCamera`.
