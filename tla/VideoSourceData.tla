--------------------------- MODULE VideoSourceData ---------------------------
(***************************************************************************)
(* One running video source of the automation server, from the moment      *)
(* StartVideoSource has created its video processing thread to the moment  *)
(* its VideoSourceData object is destroyed (XAutomationServer.cpp).        *)
(*                                                                         *)
(* Three threads meet in it:                                               *)
(*   src  the background thread of the video source plug-in, which calls   *)
(*        OnNewImage / OnError while it holds the plug-in's own mutex;     *)
(*   prc  the video processing thread, which prepares the plug-ins, starts *)
(*        the video source, then waits for a frame, runs the graph on it   *)
(*        and notifies the listeners;                                      *)
(*   ctl  whichever thread holds ServerSync for this source: an            *)
(*        application thread inside a method of XAutomationServer, or the  *)
(*        server thread that removes finalized sources.                    *)
(*                                                                         *)
(* VideoFrameInfoSync is a leaf mutex (nothing is locked and nobody waits  *)
(* while it is held), so what it guards is done in one step.  Listeners    *)
(* are called for errors in one step, for frames one by one.               *)
(***************************************************************************)
EXTENDS Naturals

CONSTANTS
  MaxFrames,            (* bound: OnNewImage is called at most so often     *)
  Listeners,            (* IAutomationVideoSourceListener objects           *)
  NoListener,           (* none of them                                     *)
  CopyMayFail,          (* may CopyDataOrClone run out of memory?           *)
  HandlerUnsubscribes   (* may a listener remove itself from its handler?   *)

ASSUME ConstantsAssumption ==
  /\ MaxFrames \in Nat
  /\ NoListener \notin Listeners
  /\ CopyMayFail \in BOOLEAN
  /\ HandlerUnsubscribes \in BOOLEAN

VARIABLES
  src, prc, ctl,        (* where each thread is                             *)
  pluginSync,           (* owner of the video source plug-in's Sync         *)
  listenerSync,         (* owner of ListenerSync                            *)
  processingSync,       (* owner of VideoProcessingSync                     *)
  newFrame,             (* NewFrameIsAvailableEvent is signalled            *)
  free,                 (* ProcessingThreadIsFreeEvent is signalled         *)
  exitEvent,            (* the plug-in's ExitEvent is signalled             *)
  needToExit,           (* NeedToExitProcessingThread                       *)
  dropWhenBusy,         (* DropVideoFramesWhenBusy                          *)
  callback,             (* the plug-in has this object as its listener      *)
  subscribed,           (* Listeners                                        *)
  toNotify,             (* listeners the loop of NotifyNewFrame has yet to call *)
  calling,              (* the listener whose OnNewVideoFrame prc is in     *)
  who,                  (* the listener ctl adds or removes                 *)
  lastImage,            (* LastImage: which frame, after how many runs of the graph *)
  lastError,            (* LastError is not empty                           *)
  graphError,           (* errorMessage of PerformNewFrameProcessing        *)
  delivered,            (* history: the frame last handed to the listeners  *)
  offered,              (* history: calls of OnNewImage; numbers the frames *)
  dropIt,               (* local of OnNewImage                              *)
  framesBlocked, framesDropped,
  info                  (* FrameInfo: its three counters                    *)

locks    == <<pluginSync, listenerSync, processingSync>>
events   == <<newFrame, free, exitEvent>>
control  == <<needToExit, dropWhenBusy, callback>>
notified == <<subscribed, toNotify, calling, who>>
image    == <<lastImage, lastError, graphError, delivered>>
counters == <<offered, dropIt, framesBlocked, framesDropped, info>>
vars     == <<src, prc, ctl, locks, events, control, notified, image, counters>>

-----------------------------------------------------------------------------
NoImage  == [frame |-> 0, passes |-> 0]
NoThread == "none"

\* src is inside OnNewImage or OnError exactly in the states of SrcInCallback.
SrcInFrame    == {"enter", "check", "await", "blocked", "count", "lock", "copy", "copyFailed"}
SrcInCallback == SrcInFrame \cup {"error"}
SrcStates     == SrcInCallback \cup {"off", "run", "imageReady", "errorReady", "exited"}
SrcIsRunning  == src \notin {"off", "exited"}

\* prc is inside PerformNewFrameProcessing, with its mutex, in those of PrcInGraph.
PrcInGraph == {"graph", "lockList", "notify", "inHandler", "unsubscribe", "report"}
PrcStates  == PrcInGraph \cup
              {"prepare", "prepareFailed", "start", "startFailed", "firstFree", "loop", "wait",
               "blocked", "reset", "recheck", "busy", "lock", "setFree", "done", "crashed"}

\* ctl holds ServerSync in every state but those of ServerSyncIsFree.
ServerSyncIsFree == ctl \in {"idle", "finalizing", "destroyed"}
CtlFinalized     == {"clearListeners", "unlisten", "signalStop", "finalizing", "joinSource",
                     "joinProcessing", "destroyed"}
CtlStates        == {"idle", "adding", "tryLock", "recent", "removing", "signalNew"}
                    \cup CtlFinalized

Init ==
  /\ src = "off" /\ prc = "prepare" /\ ctl = "idle"
  /\ pluginSync = NoThread /\ listenerSync = NoThread /\ processingSync = NoThread
  /\ newFrame = FALSE /\ free = FALSE /\ exitEvent = FALSE
  /\ needToExit = FALSE /\ dropWhenBusy = FALSE /\ callback = TRUE
  /\ subscribed = {} /\ toNotify = {} /\ calling = NoListener /\ who = NoListener
  /\ lastImage = NoImage /\ lastError = FALSE /\ graphError = FALSE /\ delivered = 0
  /\ offered = 0 /\ dropIt = FALSE /\ framesBlocked = 0 /\ framesDropped = 0
  /\ info = [received |-> 0, blocked |-> 0, dropped |-> 0]

\* Signalling a manual reset event sets it and lets go every thread already
\* waiting in it, even if the event is reset before that thread runs again.
SignalNewFrame ==
  /\ newFrame' = TRUE
  /\ prc' = IF prc = "blocked" THEN "reset" ELSE prc

SignalFree ==
  /\ free' = TRUE
  /\ src' = IF src = "blocked" THEN "count" ELSE src

-----------------------------------------------------------------------------
(* The plug-in's background thread.                                        *)

\* The worker loop: a frame or an error is ready, unless it was told to stop.
SourceProduces ==
  /\ src = "run"
  /\ ~exitEvent
  /\ \/ src' = "imageReady" /\ offered < MaxFrames
     \/ src' = "errorReady"
  /\ UNCHANGED <<prc, ctl, locks, events, control, notified, image, counters>>

SourceExits ==
  /\ src = "run"
  /\ exitEvent
  /\ src' = "exited"
  /\ UNCHANGED <<prc, ctl, locks, events, control, notified, image, counters>>

NewFrameNotify ==
  /\ src = "imageReady"
  /\ pluginSync = NoThread
  /\ IF callback
       THEN /\ src' = "enter" /\ pluginSync' = "src" /\ offered' = offered + 1
       ELSE /\ src' = "run" /\ UNCHANGED <<pluginSync, offered>>
  /\ UNCHANGED <<prc, ctl, listenerSync, processingSync, events, control, notified, image,
                 dropIt, framesBlocked, framesDropped, info>>

ErrorMessageNotify ==
  /\ src = "errorReady"
  /\ pluginSync = NoThread
  /\ IF callback
       THEN src' = "error" /\ pluginSync' = "src"
       ELSE src' = "run" /\ UNCHANGED pluginSync
  /\ UNCHANGED <<prc, ctl, listenerSync, processingSync, events, control, notified, image,
                 counters>>

\* OnError: ReportError under ListenerSync, then the callback returns.
OnError ==
  /\ src = "error"
  /\ listenerSync = NoThread
  /\ lastError' = TRUE
  /\ src' = "run" /\ pluginSync' = NoThread
  /\ UNCHANGED <<prc, ctl, listenerSync, processingSync, events, control, notified, lastImage,
                 graphError, delivered, counters>>

\* OnNewImage returns at once when the processing thread was told to exit.
OnNewImageEnter ==
  /\ src = "enter"
  /\ IF needToExit
       THEN src' = "run" /\ pluginSync' = NoThread
       ELSE src' = "check" /\ UNCHANGED pluginSync
  /\ UNCHANGED <<prc, ctl, listenerSync, processingSync, events, control, notified, image,
                 counters>>

\* IsSignaled of the free event: a busy thread costs a drop or a wait.
OnNewImageCheck ==
  /\ src = "check"
  /\ dropIt' = (~free /\ dropWhenBusy)
  /\ framesBlocked' = IF free THEN framesBlocked ELSE framesBlocked + 1
  /\ framesDropped' = IF dropIt' THEN framesDropped + 1 ELSE framesDropped
  /\ src' = IF free \/ dropIt' THEN "count" ELSE "await"
  /\ UNCHANGED <<prc, ctl, locks, events, control, notified, image, offered, info>>

OnNewImageAwait ==
  /\ src = "await"
  /\ src' = IF free THEN "count" ELSE "blocked"
  /\ UNCHANGED <<prc, ctl, locks, events, control, notified, image, counters>>

\* Faulty: dropped frames are counted as received, too.
OnNewImageCount_AllReceived ==
  /\ src = "count"
  /\ info' = [received |-> info.received + 1, blocked |-> framesBlocked, dropped |-> framesDropped]
  /\ IF dropIt
       THEN src' = "run" /\ pluginSync' = NoThread
       ELSE src' = "lock" /\ UNCHANGED pluginSync
  /\ UNCHANGED <<prc, ctl, listenerSync, processingSync, events, control, notified, image,
                 offered, dropIt, framesBlocked, framesDropped>>

OnNewImageCount ==
  /\ src = "count"
  /\ info' = [received |-> IF dropIt THEN info.received ELSE info.received + 1,
              blocked  |-> framesBlocked,
              dropped  |-> framesDropped]
  /\ IF dropIt
       THEN src' = "run" /\ pluginSync' = NoThread
       ELSE src' = "lock" /\ UNCHANGED pluginSync
  /\ UNCHANGED <<prc, ctl, listenerSync, processingSync, events, control, notified, image,
                 offered, dropIt, framesBlocked, framesDropped>>

\* Faulty: LastImage is replaced without VideoProcessingSync.
OnNewImageLock_Skipped ==
  /\ src = "lock"
  /\ src' = "copy"
  /\ UNCHANGED <<prc, ctl, locks, events, control, notified, image, counters>>

OnNewImageLock ==
  /\ src = "lock"
  /\ processingSync = NoThread
  /\ processingSync' = "src"
  /\ src' = "copy"
  /\ UNCHANGED <<prc, ctl, pluginSync, listenerSync, events, control, notified, image, counters>>

\* The frame becomes LastImage and the processing thread is told.
OnNewImageCopy ==
  /\ src = "copy"
  /\ lastImage' = [frame |-> offered, passes |-> 0]
  /\ lastError' = FALSE
  /\ SignalNewFrame
  /\ src' = "run" /\ pluginSync' = NoThread /\ processingSync' = NoThread
  /\ UNCHANGED <<ctl, listenerSync, free, exitEvent, control, notified, graphError, delivered,
                 counters>>

OnNewImageCopyFails ==
  /\ src = "copy"
  /\ CopyMayFail
  /\ lastImage' = NoImage
  /\ src' = "copyFailed"
  /\ UNCHANGED <<prc, ctl, locks, events, control, notified, lastError, graphError, delivered,
                 counters>>

OnNewImageReport ==
  /\ src = "copyFailed"
  /\ listenerSync = NoThread
  /\ lastError' = TRUE
  /\ src' = "run" /\ pluginSync' = NoThread /\ processingSync' = NoThread
  /\ UNCHANGED <<prc, ctl, listenerSync, events, control, notified, lastImage, graphError,
                 delivered, counters>>

-----------------------------------------------------------------------------
(* The video processing thread.                                            *)

\* PreparePlugins; a step that cannot be prepared is reported.
PreparePlugins ==
  /\ prc = "prepare"
  /\ prc' \in {"start", "prepareFailed"}
  /\ UNCHANGED <<src, ctl, locks, events, control, notified, image, counters>>

PrepareReport ==
  /\ prc = "prepareFailed"
  /\ listenerSync = NoThread
  /\ lastError' = TRUE
  /\ prc' = "start"
  /\ UNCHANGED <<src, ctl, locks, events, control, notified, lastImage, graphError, delivered,
                 counters>>

\* VideoSource->Start: the exit event is reset, then the thread is created.
StartSource ==
  /\ prc = "start"
  /\ pluginSync = NoThread
  /\ exitEvent' = FALSE
  /\ \/ src' = "run" /\ prc' = "firstFree"
     \/ prc' = "startFailed" /\ UNCHANGED src
  /\ UNCHANGED <<ctl, locks, newFrame, free, control, notified, image, counters>>

StartReport ==
  /\ prc = "startFailed"
  /\ listenerSync = NoThread
  /\ lastError' = TRUE
  /\ prc' = "done"
  /\ UNCHANGED <<src, ctl, locks, events, control, notified, lastImage, graphError, delivered,
                 counters>>

FirstFree ==
  /\ prc = "firstFree"
  /\ SignalFree
  /\ prc' = "loop"
  /\ UNCHANGED <<ctl, locks, newFrame, exitEvent, control, notified, image, counters>>

LoopTest ==
  /\ prc = "loop"
  /\ prc' = IF needToExit THEN "done" ELSE "wait"
  /\ UNCHANGED <<src, ctl, locks, events, control, notified, image, counters>>

\* Faulty: the event is reset before the wait and not after it.
WaitFrame_ResetsFirst ==
  /\ prc = "wait"
  /\ newFrame' = FALSE
  /\ prc' = "blocked"
  /\ UNCHANGED <<src, ctl, locks, free, exitEvent, control, notified, image, counters>>

WaitFrame ==
  /\ prc = "wait"
  /\ prc' = IF newFrame THEN "reset" ELSE "blocked"
  /\ UNCHANGED <<src, ctl, locks, events, control, notified, image, counters>>

ResetNewFrame ==
  /\ prc = "reset"
  /\ newFrame' = FALSE
  /\ prc' = "recheck"
  /\ UNCHANGED <<src, ctl, locks, free, exitEvent, control, notified, image, counters>>

\* Faulty: the thread says it is busy before it knows that there is a frame.
Recheck_BusyFirst ==
  /\ prc = "recheck"
  /\ free' = FALSE
  /\ prc' = IF needToExit THEN "done" ELSE "busy"
  /\ UNCHANGED <<src, ctl, locks, newFrame, exitEvent, control, notified, image, counters>>

\* Faulty: the flag is not tested again after the wait.
Recheck_Dropped ==
  /\ prc = "recheck"
  /\ prc' = "busy"
  /\ UNCHANGED <<src, ctl, locks, events, control, notified, image, counters>>

Recheck ==
  /\ prc = "recheck"
  /\ prc' = IF needToExit THEN "done" ELSE "busy"
  /\ UNCHANGED <<src, ctl, locks, events, control, notified, image, counters>>

BecomeBusy ==
  /\ prc = "busy"
  /\ free' = FALSE
  /\ prc' = "lock"
  /\ UNCHANGED <<src, ctl, locks, newFrame, exitEvent, control, notified, image, counters>>

GraphLock ==
  /\ prc = "lock"
  /\ processingSync = NoThread
  /\ processingSync' = "prc"
  /\ prc' = "graph"
  /\ UNCHANGED <<src, ctl, pluginSync, listenerSync, events, control, notified, image, counters>>

\* Faulty: the result is put where the frame before is kept.
GraphRun_OldBuffer ==
  /\ prc = "graph"
  /\ lastImage # NoImage
  /\ lastImage' = [frame |-> lastImage.frame - 1, passes |-> lastImage.passes + 1]
  /\ graphError' \in BOOLEAN
  /\ prc' = "lockList"
  /\ UNCHANGED <<src, ctl, locks, events, control, notified, lastError, delivered, counters>>

\* The graph runs on LastImage and leaves its result there; a step may fail.
GraphRun ==
  /\ prc = "graph"
  /\ lastImage # NoImage
  /\ lastImage' = [lastImage EXCEPT !.passes = @ + 1]
  /\ graphError' \in BOOLEAN
  /\ prc' = "lockList"
  /\ UNCHANGED <<src, ctl, locks, events, control, notified, lastError, delivered, counters>>

\* LastImage->Width of a null pointer.
GraphCrash ==
  /\ prc = "graph"
  /\ lastImage = NoImage
  /\ prc' = "crashed"
  /\ UNCHANGED <<src, ctl, locks, events, control, notified, image, counters>>

NotifyLock ==
  /\ prc = "lockList"
  /\ listenerSync = NoThread
  /\ listenerSync' = "prc"
  /\ toNotify' = subscribed
  /\ delivered' = lastImage.frame
  /\ prc' = "notify"
  /\ UNCHANGED <<src, ctl, pluginSync, processingSync, events, control, subscribed, calling, who,
                 lastImage, lastError, graphError, counters>>

NotifyOne ==
  /\ prc = "notify"
  /\ \E l \in toNotify : calling' = l /\ toNotify' = toNotify \ {l}
  /\ prc' = "inHandler"
  /\ UNCHANGED <<src, ctl, locks, events, control, subscribed, who, image, counters>>

HandlerReturns ==
  /\ prc = "inHandler"
  /\ prc' = "notify"
  /\ calling' = NoListener
  /\ UNCHANGED <<src, ctl, locks, events, control, subscribed, toNotify, who, image, counters>>

\* The handler calls RemoveVideoSourceListener for itself, which locks ServerSync
\* and then, once more, the ListenerSync its thread already holds.
HandlerUnsubscribing ==
  /\ HandlerUnsubscribes
  /\ prc = "inHandler"
  /\ prc' = "unsubscribe"
  /\ UNCHANGED <<src, ctl, locks, events, control, notified, image, counters>>

HandlerUnsubscribed ==
  /\ prc = "unsubscribe"
  /\ ServerSyncIsFree
  /\ subscribed' = IF ctl = "idle" THEN subscribed \ {calling} ELSE subscribed
  /\ calling' = NoListener
  /\ prc' = "notify"
  /\ UNCHANGED <<src, ctl, locks, events, control, toNotify, who, image, counters>>

NotifyDone ==
  /\ prc = "notify"
  /\ toNotify = {}
  /\ listenerSync' = NoThread
  /\ IF graphError
       THEN prc' = "report" /\ UNCHANGED processingSync
       ELSE prc' = "setFree" /\ processingSync' = NoThread
  /\ UNCHANGED <<src, ctl, pluginSync, events, control, notified, image, counters>>

GraphReport ==
  /\ prc = "report"
  /\ listenerSync = NoThread
  /\ lastError' = TRUE
  /\ processingSync' = NoThread
  /\ prc' = "setFree"
  /\ UNCHANGED <<src, ctl, pluginSync, listenerSync, events, control, notified, lastImage,
                 graphError, delivered, counters>>

\* Faulty: the frame event is reset once more after the frame was processed.
SetFree_ResetsFrame ==
  /\ prc = "setFree"
  /\ SignalFree
  /\ newFrame' = FALSE
  /\ prc' = "loop"
  /\ UNCHANGED <<ctl, locks, exitEvent, control, notified, image, counters>>

SetFree ==
  /\ prc = "setFree"
  /\ SignalFree
  /\ prc' = "loop"
  /\ UNCHANGED <<ctl, locks, newFrame, exitEvent, control, notified, image, counters>>

-----------------------------------------------------------------------------
(* The holder of ServerSync.                                               *)

EnableVideoFrameDropping ==
  /\ ctl = "idle"
  /\ dropWhenBusy' = ~dropWhenBusy
  /\ UNCHANGED <<src, prc, ctl, locks, events, needToExit, callback, notified, image, counters>>

\* Faulty: a null listener is not refused.
AddListener_Null ==
  /\ ctl = "idle"
  /\ who' \in Listeners \cup {NoListener}
  /\ ctl' = "adding"
  /\ UNCHANGED <<src, prc, locks, events, control, subscribed, toNotify, calling, image, counters>>

AddListener ==
  /\ ctl = "idle"
  /\ who' \in Listeners      \* a null pointer is refused
  /\ ctl' = "adding"
  /\ UNCHANGED <<src, prc, locks, events, control, subscribed, toNotify, calling, image, counters>>

\* notifyWithRecent asks for the last image, too.
AddListenerPush ==
  /\ ctl = "adding"
  /\ listenerSync = NoThread
  /\ subscribed' = subscribed \cup {who}
  /\ ctl' \in {"idle", "tryLock"}
  /\ UNCHANGED <<src, prc, locks, events, control, toNotify, calling, who, image, counters>>

AddListenerTryLock ==
  /\ ctl = "tryLock"
  /\ IF processingSync = NoThread
       THEN ctl' = "recent" /\ processingSync' = "ctl"
       ELSE ctl' = "idle" /\ UNCHANGED processingSync
  /\ UNCHANGED <<src, prc, pluginSync, listenerSync, events, control, notified, image, counters>>

\* The new listener has been given LastImage and LastError, those there are.
AddListenerRecent ==
  /\ ctl = "recent"
  /\ processingSync' = NoThread
  /\ ctl' = "idle"
  /\ UNCHANGED <<src, prc, pluginSync, listenerSync, events, control, notified, image, counters>>

RemoveListener ==
  /\ ctl = "idle"
  /\ who' \in Listeners
  /\ ctl' = "removing"
  /\ UNCHANGED <<src, prc, locks, events, control, subscribed, toNotify, calling, image, counters>>

RemoveListenerErase ==
  /\ ctl = "removing"
  /\ listenerSync = NoThread
  /\ subscribed' = subscribed \ {who}
  /\ ctl' = "idle"
  /\ UNCHANGED <<src, prc, locks, events, control, toNotify, calling, who, image, counters>>

\* FinalizeVideoSource, in the order of its statements.
FinalizeFlag ==
  /\ ctl = "idle"
  /\ needToExit' = TRUE
  /\ ctl' = "signalNew"
  /\ UNCHANGED <<src, prc, locks, events, dropWhenBusy, callback, notified, image, counters>>

FinalizeSignal ==
  /\ ctl = "signalNew"
  /\ SignalNewFrame
  /\ ctl' = "clearListeners"
  /\ UNCHANGED <<src, locks, free, exitEvent, control, notified, image, counters>>

\* Faulty: the list is cleared without ListenerSync.
FinalizeListeners_Unlocked ==
  /\ ctl = "clearListeners"
  /\ subscribed' = {}
  /\ ctl' = "unlisten"
  /\ UNCHANGED <<src, prc, locks, events, control, toNotify, calling, who, image, counters>>

FinalizeListeners ==
  /\ ctl = "clearListeners"
  /\ listenerSync = NoThread
  /\ subscribed' = {}
  /\ ctl' = "unlisten"
  /\ UNCHANGED <<src, prc, locks, events, control, toNotify, calling, who, image, counters>>

\* SetListener(nullptr) waits for the plug-in's mutex, so for a callback under way.
FinalizeCallback ==
  /\ ctl = "unlisten"
  /\ pluginSync = NoThread
  /\ callback' = FALSE
  /\ ctl' = "signalStop"
  /\ UNCHANGED <<src, prc, locks, events, needToExit, dropWhenBusy, notified, image, counters>>

\* Faulty: the video source is not told to stop.
FinalizeSource_Forgotten ==
  /\ ctl = "signalStop"
  /\ ctl' = "finalizing"
  /\ UNCHANGED <<src, prc, locks, events, control, notified, image, counters>>

\* SignalToStop of the plug-in does nothing unless its thread is running.
FinalizeSource ==
  /\ ctl = "signalStop"
  /\ pluginSync = NoThread
  /\ exitEvent' = (exitEvent \/ SrcIsRunning)
  /\ ctl' = "finalizing"
  /\ UNCHANGED <<src, prc, locks, newFrame, free, control, notified, image, counters>>

\* The destructor of VideoSourceData, up to the Join of its thread.
Destructing ==
  /\ ctl' = "joinProcessing"
  /\ needToExit' = TRUE
  /\ SignalNewFrame

\* CleanAlreadyFinalized, every 200 ms in the server thread.
CleanAlreadyFinalized ==
  /\ ctl = "finalizing"
  /\ pluginSync = NoThread
  /\ ~SrcIsRunning
  /\ Destructing
  /\ UNCHANGED <<src, locks, free, exitEvent, dropWhenBusy, callback, notified, image, counters>>

\* WaitAllFinalizingObjects when the server stops: WaitForStop of the plug-in signals
\* its thread if that is running and joins it; then the object goes.
WaitForStop ==
  /\ ctl = "finalizing"
  /\ pluginSync = NoThread
  /\ exitEvent' = (exitEvent \/ SrcIsRunning)
  /\ ctl' = "joinSource"
  /\ UNCHANGED <<src, prc, locks, newFrame, free, control, notified, image, counters>>

JoinSource ==
  /\ ctl = "joinSource"
  /\ ~SrcIsRunning
  /\ Destructing
  /\ UNCHANGED <<src, locks, free, exitEvent, dropWhenBusy, callback, notified, image, counters>>

\* Faulty: the destructor does not join the processing thread.
Destroyed_Unjoined ==
  /\ ctl = "joinProcessing"
  /\ ctl' = "destroyed"
  /\ UNCHANGED <<src, prc, locks, events, control, notified, image, counters>>

Destroyed ==
  /\ ctl = "joinProcessing"
  /\ prc = "done"
  /\ ctl' = "destroyed"
  /\ UNCHANGED <<src, prc, locks, events, control, notified, image, counters>>

\* Nothing is left to run: the object is gone and the plug-in's thread is over, or the
\* process has crashed.
Terminated ==
  /\ (ctl = "destroyed" /\ ~SrcIsRunning) \/ prc = "crashed"
  /\ UNCHANGED vars

-----------------------------------------------------------------------------
\* Nothing says that a camera ever comes up with another frame.
SourceThread ==
  \/ SourceExits \/ NewFrameNotify \/ ErrorMessageNotify \/ OnError
  \/ OnNewImageEnter \/ OnNewImageCheck \/ OnNewImageAwait \/ OnNewImageCount
  \/ OnNewImageLock \/ OnNewImageCopy \/ OnNewImageCopyFails \/ OnNewImageReport

ProcessingThread ==
  \/ PreparePlugins \/ PrepareReport \/ StartSource \/ StartReport \/ FirstFree
  \/ LoopTest \/ WaitFrame \/ ResetNewFrame \/ Recheck \/ BecomeBusy
  \/ GraphLock \/ GraphRun \/ GraphCrash \/ GraphReport \/ SetFree
  \/ NotifyLock \/ NotifyOne \/ HandlerReturns \/ HandlerUnsubscribing
  \/ HandlerUnsubscribed \/ NotifyDone

Requests ==
  \/ EnableVideoFrameDropping \/ AddListener \/ RemoveListener \/ FinalizeFlag

ServerCalls ==
  \/ AddListenerPush \/ AddListenerTryLock \/ AddListenerRecent \/ RemoveListenerErase
  \/ FinalizeSignal \/ FinalizeListeners \/ FinalizeCallback \/ FinalizeSource
  \/ CleanAlreadyFinalized \/ JoinSource \/ Destroyed

Next ==
  \/ SourceProduces \/ SourceThread \/ ProcessingThread \/ Requests \/ ServerCalls \/ WaitForStop
  \/ Terminated

\* Threads keep running.  Where a thread waits for a mutex that others keep
\* taking and releasing, it gets it at last: locking is strongly fair.
Fairness ==
  /\ WF_vars(SourceThread) /\ WF_vars(ProcessingThread) /\ WF_vars(ServerCalls)
  /\ SF_vars(OnNewImageLock) /\ SF_vars(GraphLock) /\ SF_vars(FinalizeCallback)

Spec == Init /\ [][Next]_vars

FairSpec == Spec /\ Fairness

-----------------------------------------------------------------------------
(* Properties.                                                             *)

Owners == {"src", "prc", "ctl", NoThread}

\* Every variable has its type.
TypeOK ==
  /\ src \in SrcStates /\ prc \in PrcStates /\ ctl \in CtlStates
  /\ pluginSync \in Owners /\ listenerSync \in Owners /\ processingSync \in Owners
  /\ newFrame \in BOOLEAN /\ free \in BOOLEAN /\ exitEvent \in BOOLEAN
  /\ needToExit \in BOOLEAN /\ dropWhenBusy \in BOOLEAN /\ callback \in BOOLEAN
  /\ subscribed \subseteq Listeners /\ toNotify \subseteq Listeners
  /\ calling \in Listeners \cup {NoListener} /\ who \in Listeners \cup {NoListener}
  /\ lastImage \in [frame : Nat, passes : Nat]
  /\ lastError \in BOOLEAN /\ graphError \in BOOLEAN
  /\ delivered \in Nat /\ offered \in Nat
  /\ dropIt \in BOOLEAN /\ framesBlocked \in Nat /\ framesDropped \in Nat
  /\ info \in [received : Nat, blocked : Nat, dropped : Nat]

\* The source never replaces LastImage while the graph works on it or while a
\* listener is being given it (VideoProcessingSync "guards LastImage").
LastImageStable ==
  [][(prc \in PrcInGraph \/ ctl = "recent") => UNCHANGED lastImage.frame]_vars

\* The free event is down only while the processing thread is on its way to
\* raising it, so nobody waits in OnNewImage for a thread that waits itself or is
\* over: the two threads never both wait, not even when the source is finalized.
BusyIsTemporary ==
  /\ SrcIsRunning /\ prc \in {"loop", "wait", "blocked", "reset", "recheck", "done"} => free
  /\ src = "blocked" => ~free

\* Once FinalizeVideoSource has signalled it, the processing thread no longer sleeps
\* in its wait for a frame, whatever it did between its tests of the flag.
StopIsNeverMissed == ctl \in CtlFinalized => prc # "blocked"

\* A listener is called only while it is subscribed: after RemoveVideoSourceListener or
\* FinalizeVideoSource has returned it is not, and may be deleted.
OnlySubscribedAreCalled == calling # NoListener => calling \in subscribed

\* The object is destroyed only when neither of its threads can be using it.
DestroyedIsUnused ==
  ctl = "destroyed" => prc = "done" /\ src \notin SrcInCallback /\ ~callback

\* What GetVideoSourceFrameInfo tells adds up: every frame that OnNewImage has finished
\* with is received or dropped, and only those are blocked ones.
FrameAccounting ==
  /\ info.dropped <= info.blocked
  /\ info.blocked <= info.received + info.dropped
  /\ info.received + info.dropped <= offered
  /\ src \notin SrcInFrame /\ ~needToExit => info.received + info.dropped = offered

\* The processing thread never runs the graph without an image, in particular not when it is
\* woken only to exit, but for one case: memory for a copy ran out after an earlier frame was
\* announced, and that was reported before the null pointer is met.
GraphHasImage == prc = "crashed" => CopyMayFail /\ lastError

\* The hand-over of frames implements a place for the latest frame.
Latest == INSTANCE LatestFrame WITH stored <- lastImage.frame
DeliversLatest == Latest!Spec

\* The threads and the object come and go as the keeper of many such objects has it
\* (AutomationServer), which is finer here: told, then unsubscribed from, then signalled.
PluginThread ==
  CASE src = "off" -> "none"
    [] src = "exited" -> "exited"
    [] OTHER -> IF exitEvent THEN "signalled" ELSE "running"

ProcessingState ==
  CASE prc \in {"prepare", "prepareFailed", "start", "startFailed"} -> "preparing"
    [] prc = "done" -> "done"
    [] OTHER -> "processing"

Kept ==
  CASE ctl \in {"finalizing", "joinSource"} -> "finalizing"
    [] ctl = "joinProcessing" -> "joining"
    [] ctl = "destroyed" -> "gone"
    [] OTHER -> "running"

Life == INSTANCE SourceLife WITH source <- PluginThread, processing <- ProcessingState,
                                 told <- needToExit, heard <- callback, kept <- Kept
LivesAsPromised == Life!StartedSpec

\* A frame that OnNewImage stored is given to the listeners, or a later one is,
\* unless the source is finalized: no wake-up is lost.
StoredIsDelivered ==
  \A k \in 1..MaxFrames : lastImage.frame = k ~> delivered >= k \/ needToExit

\* OnNewImage and OnError return, so the plug-in's mutex becomes free again.
CallbackReturns == src \in SrcInCallback ~> src \notin SrcInCallback

\* A source that was started before it was finalized is destroyed in the end.
FinalizedIsDestroyed == ctl = "signalNew" /\ SrcIsRunning ~> ctl = "destroyed"

(* What comments in the code say and the code does not do.                 *)

\* Video sources removed from the finalization queue have stopped.
RemovedIsStopped == ctl = "destroyed" => ~SrcIsRunning

\* A handler may unsubscribe: no thread waits for ServerSync with ListenerSync locked
\* while the holder of ServerSync waits for ListenerSync.
HandlerMayUnsubscribe ==
  ~(prc = "unsubscribe" /\ ctl \in {"adding", "removing", "clearListeners"})

=============================================================================
