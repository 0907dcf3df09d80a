------------------------ MODULE VideoSourceData_proofs ------------------------
(***************************************************************************)
(* Proofs about VideoSourceData for every number of frames and every set   *)
(* of listeners, whether copying a frame may fail or not and whether       *)
(* handlers unsubscribe their listeners or not.                            *)
(*                                                                         *)
(* The invariant is the conjunction of parts that are proved one after     *)
(* the other, each from those before it: the types, who owns which mutex,  *)
(* how far the source and its finalization have come, the two events, the  *)
(* listeners, the counters of frames and the frame that is stored.         *)
(***************************************************************************)
EXTENDS VideoSourceData, TLAPS

PrcNotifying == {"notify", "inHandler", "unsubscribe"}

\* A listener that is being added is one.
TypeInv == TypeOK /\ (ctl = "adding" => who \in Listeners)

\* A mutex has the owner the threads' places tell.
LockInv ==
  /\ pluginSync = IF src \in SrcInCallback THEN "src" ELSE NoThread
  /\ listenerSync = IF prc \in PrcNotifying THEN "prc" ELSE NoThread
  /\ processingSync \in {"src", "prc", "ctl", NoThread}
  /\ processingSync = "src" <=> src \in {"copy", "copyFailed"}
  /\ processingSync = "prc" <=> prc \in PrcInGraph \cup {"crashed"}
  /\ processingSync = "ctl" <=> ctl = "recent"

\* The source runs only after the processing thread has started it, and calls back only
\* until FinalizeVideoSource has taken the callback away.
LifeInv ==
  /\ src # "off" => prc \notin {"prepare", "prepareFailed", "start", "startFailed"}
  /\ prc = "firstFree" => src # "off"
  /\ needToExit <=> ctl = "signalNew" \/ ctl \in CtlFinalized
  /\ callback <=> ctl \notin {"signalStop", "finalizing", "joinSource", "joinProcessing",
                              "destroyed"}
  /\ ~callback => src \notin SrcInCallback
  /\ ctl = "destroyed" => prc = "done"

\* The processing thread finds the frame event signalled when it has to exit.
WakeInv == ctl \in CtlFinalized => prc # "blocked" /\ (prc = "wait" => newFrame)

\* The listeners yet to be called, and the one being called, are subscribed.
ListenerInv ==
  /\ calling # NoListener <=> prc \in {"inHandler", "unsubscribe"}
  /\ calling # NoListener => calling \in subscribed /\ calling \notin toNotify
  /\ prc \in PrcNotifying => toNotify \subseteq subscribed

\* OnNewImage has not yet counted its frame.
SrcUncounted == {"enter", "check", "await", "blocked", "count"}

\* FrameInfo lags behind FramesBlocked, FramesDropped and the frames offered by what
\* the call of OnNewImage under way has not yet put there.
CountInv ==
  /\ info.dropped <= info.blocked
  /\ info.blocked <= info.received + info.dropped
  /\ src \notin {"await", "blocked", "count"} =>
       framesBlocked = info.blocked /\ framesDropped = info.dropped
  /\ src \in {"await", "blocked"} =>
       framesBlocked = info.blocked + 1 /\ framesDropped = info.dropped /\ ~dropIt
  /\ src = "count" =>
       /\ framesBlocked \in {info.blocked, info.blocked + 1}
       /\ dropIt => framesBlocked = info.blocked + 1 /\ framesDropped = info.dropped + 1
       /\ ~dropIt => framesDropped = info.dropped
  /\ src \in SrcUncounted => info.received + info.dropped + 1 <= offered
  /\ info.received + info.dropped <= offered
  /\ ~needToExit /\ src \in SrcUncounted => info.received + info.dropped + 1 = offered
  /\ ~needToExit /\ src \notin SrcUncounted => info.received + info.dropped = offered

\* The stored frame is older than the one OnNewImage is about to store.
FrameInv ==
  /\ lastImage.frame <= offered
  /\ src \in SrcInFrame => lastImage.frame < offered
  /\ lastImage.frame = 0 => lastImage = NoImage
  /\ prc \in PrcInGraph \ {"graph"} => lastImage.frame # 0

\* Whoever wakes the processing thread has stored a frame or tells it to exit; the frame may be
\* gone when the next one could not be copied, which the source's thread reports before it
\* lets go of LastImage.
CopyHasFailed == CopyMayFail /\ lastImage = NoImage /\ (lastError \/ src = "copyFailed")

ImageInv ==
  /\ newFrame => lastImage.frame # 0 \/ needToExit \/ CopyHasFailed
  /\ prc \in {"reset", "recheck"} => lastImage.frame # 0 \/ needToExit \/ CopyHasFailed
  /\ prc \in {"busy", "lock", "graph"} => lastImage.frame # 0 \/ CopyHasFailed
  /\ prc = "crashed" => CopyHasFailed

Inv ==
  /\ TypeInv /\ LockInv /\ LifeInv /\ WakeInv
  /\ ListenerInv /\ CountInv /\ FrameInv /\ ImageInv
  /\ BusyIsTemporary

-----------------------------------------------------------------------------
(* What a step of one thread leaves alone.                                 *)

\* The source's thread touches nothing of the notification of listeners or of the
\* finalization; it may wake the processing thread.
LEMMA SourceFrame ==
  ASSUME SourceProduces \/ SourceThread
  PROVE  /\ UNCHANGED <<ctl, listenerSync, free, exitEvent, control, notified, graphError,
                        delivered>>
         /\ prc' = prc \/ (prc = "blocked" /\ prc' = "reset")
         /\ newFrame => newFrame'
  BY DEF SourceProduces, SourceThread, SourceExits, NewFrameNotify, ErrorMessageNotify, OnError,
         OnNewImageEnter, OnNewImageCheck, OnNewImageAwait, OnNewImageCount, OnNewImageLock,
         OnNewImageCopy, OnNewImageCopyFails, OnNewImageReport, SignalNewFrame, locks, events,
         control, notified, image, counters

\* The processing thread leaves the frames' numbers and counters alone; it starts the
\* source and may wake it.
LEMMA ProcessingFrame ==
  ASSUME TypeInv, ProcessingThread
  PROVE  /\ UNCHANGED <<ctl, pluginSync, control, who, counters>>
         /\ lastImage'.frame = lastImage.frame
         /\ \/ src' = src
            \/ src = "blocked" /\ src' = "count"
            \/ prc = "start" /\ src' = "run"
  BY DEF ProcessingThread, PreparePlugins, PrepareReport, StartSource, StartReport, FirstFree,
         LoopTest, WaitFrame, ResetNewFrame, Recheck, BecomeBusy, GraphLock, GraphRun, GraphCrash,
         GraphReport, SetFree, NotifyLock, NotifyOne, HandlerReturns, HandlerUnsubscribing,
         HandlerUnsubscribed, NotifyDone, SignalFree, TypeInv, TypeOK, locks, events, control,
         notified, image, counters

\* The holder of ServerSync leaves the frames and the loop over the listeners alone; it
\* may wake the processing thread.
LEMMA ControlFrame ==
  ASSUME Requests \/ ServerCalls \/ WaitForStop
  PROVE  /\ UNCHANGED <<src, pluginSync, listenerSync, free, toNotify, calling, image, counters>>
         /\ prc' = prc \/ (prc = "blocked" /\ prc' = "reset")
         /\ newFrame => newFrame'
         /\ needToExit => needToExit'
  BY DEF Requests, ServerCalls, WaitForStop, EnableVideoFrameDropping, AddListener,
         RemoveListener, FinalizeFlag, AddListenerPush, AddListenerTryLock, AddListenerRecent,
         RemoveListenerErase, FinalizeSignal, FinalizeListeners, FinalizeCallback, FinalizeSource,
         CleanAlreadyFinalized, JoinSource, Destroyed, Destructing, SignalNewFrame, locks, events,
         control, notified, image, counters

-----------------------------------------------------------------------------
(* Every step keeps each part.                                             *)

\* Each thread's steps keep the types of the variables they may change.
LEMMA TypeStep ==
  ASSUME TypeInv, [Next]_vars
  PROVE  TypeInv'
<1>1. CASE SourceProduces \/ SourceThread
  <2>1. src' \in SrcStates /\ pluginSync' \in Owners /\ processingSync' \in Owners
    BY <1>1 DEF TypeInv, TypeOK, Owners, NoThread, NoImage, SrcStates, SrcInCallback, SrcInFrame,
           PrcStates, PrcInGraph, CtlStates, CtlFinalized, SourceProduces, SourceThread,
           SourceExits, NewFrameNotify, ErrorMessageNotify, OnError, OnNewImageEnter,
           OnNewImageCheck, OnNewImageAwait, OnNewImageCount, OnNewImageLock, OnNewImageCopy,
           OnNewImageCopyFails, OnNewImageReport, SignalNewFrame, locks, events, control,
           notified, image, counters
  <2>2. newFrame' \in BOOLEAN /\ lastError' \in BOOLEAN /\ dropIt' \in BOOLEAN
    BY <1>1 DEF TypeInv, TypeOK, SourceProduces, SourceThread, SourceExits, NewFrameNotify,
           ErrorMessageNotify, OnError, OnNewImageEnter, OnNewImageCheck, OnNewImageAwait,
           OnNewImageCount, OnNewImageLock, OnNewImageCopy, OnNewImageCopyFails, OnNewImageReport,
           SignalNewFrame, locks, events, control, notified, image, counters
  <2>3. lastImage' \in [frame : Nat, passes : Nat]
    BY <1>1 DEF TypeInv, TypeOK, NoImage, SourceProduces, SourceThread, SourceExits,
           NewFrameNotify, ErrorMessageNotify, OnError, OnNewImageEnter, OnNewImageCheck,
           OnNewImageAwait, OnNewImageCount, OnNewImageLock, OnNewImageCopy, OnNewImageCopyFails,
           OnNewImageReport, SignalNewFrame, locks, events, control, notified, image, counters
  <2>4. /\ offered' \in Nat /\ framesBlocked' \in Nat /\ framesDropped' \in Nat
        /\ info' \in [received : Nat, blocked : Nat, dropped : Nat]
    BY <1>1 DEF TypeInv, TypeOK, SourceProduces, SourceThread, SourceExits, NewFrameNotify,
           ErrorMessageNotify, OnError, OnNewImageEnter, OnNewImageCheck, OnNewImageAwait,
           OnNewImageCount, OnNewImageLock, OnNewImageCopy, OnNewImageCopyFails, OnNewImageReport,
           SignalNewFrame, locks, events, control, notified, image, counters
  <2>5. QED
    BY <1>1, <2>1, <2>2, <2>3, <2>4, SourceFrame
       DEF TypeInv, TypeOK, PrcStates, control, notified
<1>2. CASE ProcessingThread
  <2>1. /\ src' \in SrcStates /\ prc' \in PrcStates
        /\ listenerSync' \in Owners /\ processingSync' \in Owners
    BY <1>2 DEF TypeInv, TypeOK, Owners, NoThread, NoImage, SrcStates, SrcInCallback, SrcInFrame,
           PrcStates, PrcInGraph, CtlStates, CtlFinalized, ProcessingThread, PreparePlugins,
           PrepareReport, StartSource, StartReport, FirstFree, LoopTest, WaitFrame, ResetNewFrame,
           Recheck, BecomeBusy, GraphLock, GraphRun, GraphCrash, GraphReport, SetFree, NotifyLock,
           NotifyOne, HandlerReturns, HandlerUnsubscribing, HandlerUnsubscribed, NotifyDone,
           SignalFree, locks, events, control, notified, image, counters
  <2>2. /\ newFrame' \in BOOLEAN /\ free' \in BOOLEAN /\ exitEvent' \in BOOLEAN
        /\ lastError' \in BOOLEAN /\ graphError' \in BOOLEAN
    BY <1>2 DEF TypeInv, TypeOK, ProcessingThread, PreparePlugins, PrepareReport, StartSource,
           StartReport, FirstFree, LoopTest, WaitFrame, ResetNewFrame, Recheck, BecomeBusy,
           GraphLock, GraphRun, GraphCrash, GraphReport, SetFree, NotifyLock, NotifyOne,
           HandlerReturns, HandlerUnsubscribing, HandlerUnsubscribed, NotifyDone, SignalFree,
           locks, events, control, notified, image, counters
  <2>3. /\ subscribed' \subseteq Listeners /\ toNotify' \subseteq Listeners
        /\ calling' \in Listeners \cup {NoListener}
    BY <1>2 DEF TypeInv, TypeOK, ProcessingThread, PreparePlugins, PrepareReport, StartSource,
           StartReport, FirstFree, LoopTest, WaitFrame, ResetNewFrame, Recheck, BecomeBusy,
           GraphLock, GraphRun, GraphCrash, GraphReport, SetFree, NotifyLock, NotifyOne,
           HandlerReturns, HandlerUnsubscribing, HandlerUnsubscribed, NotifyDone, SignalFree,
           locks, events, control, notified, image, counters
  <2>4. lastImage' \in [frame : Nat, passes : Nat] /\ delivered' \in Nat
    BY <1>2 DEF TypeInv, TypeOK, ProcessingThread, PreparePlugins, PrepareReport, StartSource,
           StartReport, FirstFree, LoopTest, WaitFrame, ResetNewFrame, Recheck, BecomeBusy,
           GraphLock, GraphRun, GraphCrash, GraphReport, SetFree, NotifyLock, NotifyOne,
           HandlerReturns, HandlerUnsubscribing, HandlerUnsubscribed, NotifyDone, SignalFree,
           locks, events, control, notified, image, counters
  <2>5. QED
    BY <1>2, <2>1, <2>2, <2>3, <2>4, ProcessingFrame
       DEF TypeInv, TypeOK, control, counters
<1>3. CASE Requests \/ ServerCalls \/ WaitForStop
  <2>1. ctl' \in CtlStates /\ processingSync' \in Owners
    BY <1>3 DEF TypeInv, TypeOK, Owners, NoThread, NoImage, SrcStates, SrcInCallback, SrcInFrame,
           PrcStates, PrcInGraph, CtlStates, CtlFinalized, Requests, ServerCalls, WaitForStop,
           EnableVideoFrameDropping, AddListener, RemoveListener, FinalizeFlag, AddListenerPush,
           AddListenerTryLock, AddListenerRecent, RemoveListenerErase, FinalizeSignal,
           FinalizeListeners, FinalizeCallback, FinalizeSource, CleanAlreadyFinalized, JoinSource,
           Destroyed, Destructing, SignalNewFrame, locks, events, control, notified, image,
           counters
  <2>2. /\ newFrame' \in BOOLEAN /\ exitEvent' \in BOOLEAN /\ needToExit' \in BOOLEAN
        /\ dropWhenBusy' \in BOOLEAN /\ callback' \in BOOLEAN
    BY <1>3 DEF TypeInv, TypeOK, SrcIsRunning, Requests, ServerCalls, WaitForStop,
           EnableVideoFrameDropping, AddListener, RemoveListener, FinalizeFlag, AddListenerPush,
           AddListenerTryLock, AddListenerRecent, RemoveListenerErase, FinalizeSignal,
           FinalizeListeners, FinalizeCallback, FinalizeSource, CleanAlreadyFinalized, JoinSource,
           Destroyed, Destructing, SignalNewFrame, locks, events, control, notified, image,
           counters
  <2>3. /\ subscribed' \subseteq Listeners /\ who' \in Listeners \cup {NoListener}
        /\ ctl' = "adding" => who' \in Listeners
    BY <1>3 DEF TypeInv, TypeOK, Requests, ServerCalls, WaitForStop, EnableVideoFrameDropping,
           AddListener, RemoveListener, FinalizeFlag, AddListenerPush, AddListenerTryLock,
           AddListenerRecent, RemoveListenerErase, FinalizeSignal, FinalizeListeners,
           FinalizeCallback, FinalizeSource, CleanAlreadyFinalized, JoinSource, Destroyed,
           Destructing, SignalNewFrame, locks, events, control, notified, image, counters
  <2>4. QED
    BY <1>3, <2>1, <2>2, <2>3, ControlFrame
       DEF TypeInv, TypeOK, PrcStates, image, counters
<1>4. CASE Terminated \/ UNCHANGED vars
  BY <1>4 DEF Terminated, TypeInv, TypeOK, vars, locks, events, control, notified, image, counters
<1>5. QED
  BY <1>1, <1>2, <1>3, <1>4 DEF Next

\* A thread that locks a mutex found it free, and it unlocks those it leaves.
LEMMA LockStep ==
  ASSUME LockInv, [Next]_vars
  PROVE  LockInv'
<1>1. CASE SourceProduces \/ SourceThread
  BY <1>1, SourceFrame DEF LockInv, NoThread, PrcNotifying, PrcInGraph, SrcInCallback, SrcInFrame,
         SourceProduces, SourceThread, SourceExits, NewFrameNotify, ErrorMessageNotify, OnError,
         OnNewImageEnter, OnNewImageCheck, OnNewImageAwait, OnNewImageCount, OnNewImageLock,
         OnNewImageCopy, OnNewImageCopyFails, OnNewImageReport, SignalNewFrame, locks, events,
         control, notified, image, counters
<1>2. CASE ProcessingThread
  BY <1>2 DEF LockInv, NoThread, PrcNotifying, PrcInGraph, SrcInCallback, SrcInFrame,
         ProcessingThread, PreparePlugins, PrepareReport, StartSource, StartReport, FirstFree,
         LoopTest, WaitFrame, ResetNewFrame, Recheck, BecomeBusy, GraphLock, GraphRun, GraphCrash,
         GraphReport, SetFree, NotifyLock, NotifyOne, HandlerReturns, HandlerUnsubscribing,
         HandlerUnsubscribed, NotifyDone, SignalFree, locks, events, control, notified, image,
         counters
<1>3. CASE Requests \/ ServerCalls \/ WaitForStop
  BY <1>3 DEF LockInv, NoThread, PrcNotifying, PrcInGraph, Requests, ServerCalls, WaitForStop,
         EnableVideoFrameDropping, AddListener, RemoveListener, FinalizeFlag, AddListenerPush,
         AddListenerTryLock, AddListenerRecent, RemoveListenerErase, FinalizeSignal,
         FinalizeListeners, FinalizeCallback, FinalizeSource, CleanAlreadyFinalized, JoinSource,
         Destroyed, Destructing, SignalNewFrame, locks, events, control, notified, image, counters
<1>4. CASE Terminated \/ UNCHANGED vars
  BY <1>4 DEF Terminated, LockInv, SrcInCallback, SrcInFrame, PrcNotifying, PrcInGraph, NoThread,
         vars, locks, events, control, notified, image, counters
<1>5. QED
  BY <1>1, <1>2, <1>3, <1>4 DEF Next

\* The callback is taken away while the source is outside of it, as its mutex is free.
LEMMA LifeStep ==
  ASSUME LockInv, LifeInv, [Next]_vars
  PROVE  LifeInv'
<1>1. CASE SourceProduces \/ SourceThread
  BY <1>1, SourceFrame DEF LifeInv, control, SrcInCallback, SrcInFrame, SourceProduces,
         SourceThread, SourceExits, NewFrameNotify, ErrorMessageNotify, OnError, OnNewImageEnter,
         OnNewImageCheck, OnNewImageAwait, OnNewImageCount, OnNewImageLock, OnNewImageCopy,
         OnNewImageCopyFails, OnNewImageReport, SignalNewFrame, locks, events, control, notified,
         image, counters
<1>2. CASE ProcessingThread
  BY <1>2, ProcessingFrame DEF LifeInv, SrcInCallback, SrcInFrame, ProcessingThread,
         PreparePlugins, PrepareReport, StartSource, StartReport, FirstFree, LoopTest, WaitFrame,
         ResetNewFrame, Recheck, BecomeBusy, GraphLock, GraphRun, GraphCrash, GraphReport,
         SetFree, NotifyLock, NotifyOne, HandlerReturns, HandlerUnsubscribing,
         HandlerUnsubscribed, NotifyDone, SignalFree, locks, events, control, notified, image,
         counters
<1>3. CASE Requests \/ ServerCalls \/ WaitForStop
  BY <1>3 DEF LifeInv, LockInv, NoThread, CtlFinalized, SrcInCallback, SrcInFrame, Requests,
         ServerCalls, WaitForStop, EnableVideoFrameDropping, AddListener, RemoveListener,
         FinalizeFlag, AddListenerPush, AddListenerTryLock, AddListenerRecent,
         RemoveListenerErase, FinalizeSignal, FinalizeListeners, FinalizeCallback, FinalizeSource,
         CleanAlreadyFinalized, JoinSource, Destroyed, Destructing, SignalNewFrame, locks, events,
         control, notified, image, counters
<1>4. CASE Terminated \/ UNCHANGED vars
  BY <1>4 DEF Terminated, LifeInv, SrcInCallback, SrcInFrame, CtlFinalized, vars, locks, events,
         control, notified, image, counters
<1>5. QED
  BY <1>1, <1>2, <1>3, <1>4 DEF Next

\* Only ResetNewFrame resets the event, and LoopTest tests the flag before the next wait.
LEMMA WakeStep ==
  ASSUME LifeInv, WakeInv, [Next]_vars
  PROVE  WakeInv'
<1>1. CASE SourceProduces \/ SourceThread
  BY <1>1, SourceFrame DEF WakeInv, CtlFinalized
<1>2. CASE ProcessingThread
  BY <1>2 DEF WakeInv, LifeInv, CtlFinalized, ProcessingThread, PreparePlugins, PrepareReport,
         StartSource, StartReport, FirstFree, LoopTest, WaitFrame, ResetNewFrame, Recheck,
         BecomeBusy, GraphLock, GraphRun, GraphCrash, GraphReport, SetFree, NotifyLock, NotifyOne,
         HandlerReturns, HandlerUnsubscribing, HandlerUnsubscribed, NotifyDone, SignalFree, locks,
         events, control, notified, image, counters
<1>3. CASE Requests \/ ServerCalls \/ WaitForStop
  BY <1>3 DEF WakeInv, LifeInv, CtlFinalized, Requests, ServerCalls, WaitForStop,
         EnableVideoFrameDropping, AddListener, RemoveListener, FinalizeFlag, AddListenerPush,
         AddListenerTryLock, AddListenerRecent, RemoveListenerErase, FinalizeSignal,
         FinalizeListeners, FinalizeCallback, FinalizeSource, CleanAlreadyFinalized, JoinSource,
         Destroyed, Destructing, SignalNewFrame, locks, events, control, notified, image, counters
<1>4. CASE Terminated \/ UNCHANGED vars
  BY <1>4 DEF Terminated, WakeInv, CtlFinalized, vars, locks, events, control, notified, image,
         counters
<1>5. QED
  BY <1>1, <1>2, <1>3, <1>4 DEF Next

\* The event goes down in BecomeBusy only, and SetFree is on every way back to the wait.
LEMMA BusyStep ==
  ASSUME LifeInv, BusyIsTemporary, [Next]_vars
  PROVE  BusyIsTemporary'
<1>1. CASE SourceProduces \/ SourceThread
  BY <1>1, SourceFrame DEF BusyIsTemporary, SrcIsRunning, SourceProduces, SourceThread,
         SourceExits, NewFrameNotify, ErrorMessageNotify, OnError, OnNewImageEnter,
         OnNewImageCheck, OnNewImageAwait, OnNewImageCount, OnNewImageLock, OnNewImageCopy,
         OnNewImageCopyFails, OnNewImageReport, SignalNewFrame, locks, events, control, notified,
         image, counters
<1>2. CASE ProcessingThread
  BY <1>2 DEF BusyIsTemporary, LifeInv, SrcIsRunning, ProcessingThread, PreparePlugins,
         PrepareReport, StartSource, StartReport, FirstFree, LoopTest, WaitFrame, ResetNewFrame,
         Recheck, BecomeBusy, GraphLock, GraphRun, GraphCrash, GraphReport, SetFree, NotifyLock,
         NotifyOne, HandlerReturns, HandlerUnsubscribing, HandlerUnsubscribed, NotifyDone,
         SignalFree, locks, events, control, notified, image, counters
<1>3. CASE Requests \/ ServerCalls \/ WaitForStop
  BY <1>3, ControlFrame DEF BusyIsTemporary, SrcIsRunning
<1>4. CASE Terminated \/ UNCHANGED vars
  BY <1>4 DEF Terminated, BusyIsTemporary, SrcIsRunning, vars, locks, events, control, notified,
         image, counters
<1>5. QED
  BY <1>1, <1>2, <1>3, <1>4 DEF Next

\* The list changes, but for the listener in its handler, only while nobody is called.
LEMMA ListenerStep ==
  ASSUME TypeInv, LockInv, ListenerInv, [Next]_vars
  PROVE  ListenerInv'
<1>1. CASE SourceProduces \/ SourceThread
  BY <1>1, SourceFrame DEF ListenerInv, PrcNotifying, notified
<1>2. CASE ProcessingThread
  <2>1. CASE NotifyLock
    BY <2>1 DEF NotifyLock, ListenerInv, PrcNotifying, locks
  <2>2. CASE NotifyOne
    BY <2>2, ConstantsAssumption DEF NotifyOne, ListenerInv, PrcNotifying, TypeInv, TypeOK
  <2>3. CASE HandlerReturns
    BY <2>3 DEF HandlerReturns, ListenerInv, PrcNotifying
  <2>4. CASE HandlerUnsubscribing
    BY <2>4 DEF HandlerUnsubscribing, ListenerInv, PrcNotifying, notified
  <2>5. CASE HandlerUnsubscribed
    BY <2>5 DEF HandlerUnsubscribed, ListenerInv, PrcNotifying
  <2>6. CASE NotifyDone
    BY <2>6 DEF NotifyDone, ListenerInv, PrcNotifying, notified
  <2>7. CASE ~(\/ NotifyLock \/ NotifyOne \/ HandlerReturns \/ HandlerUnsubscribing
             \/ HandlerUnsubscribed \/ NotifyDone)
    BY <1>2, <2>7 DEF ListenerInv, PrcNotifying, ProcessingThread, PreparePlugins, PrepareReport,
           StartSource, StartReport, FirstFree, LoopTest, WaitFrame, ResetNewFrame, Recheck,
           BecomeBusy, GraphLock, GraphRun, GraphCrash, GraphReport, SetFree, SignalFree, locks,
           events, control, notified, image, counters
  <2>8. QED
    BY <2>1, <2>2, <2>3, <2>4, <2>5, <2>6, <2>7
<1>3. CASE Requests \/ ServerCalls \/ WaitForStop
  <2>1. CASE AddListenerPush
    BY <2>1 DEF AddListenerPush, ListenerInv, PrcNotifying, LockInv, NoThread
  <2>2. CASE RemoveListenerErase
    BY <2>2 DEF RemoveListenerErase, ListenerInv, PrcNotifying, LockInv, NoThread
  <2>3. CASE FinalizeListeners
    BY <2>3 DEF FinalizeListeners, ListenerInv, PrcNotifying, LockInv, NoThread
  <2>4. CASE ~(AddListenerPush \/ RemoveListenerErase \/ FinalizeListeners)
    BY <1>3, <2>4, ControlFrame DEF ListenerInv, PrcNotifying, Requests, ServerCalls, WaitForStop,
           EnableVideoFrameDropping, AddListener, RemoveListener, FinalizeFlag,
           AddListenerTryLock, AddListenerRecent, FinalizeSignal, FinalizeCallback,
           FinalizeSource, CleanAlreadyFinalized, JoinSource, Destroyed, Destructing,
           SignalNewFrame, locks, events, control, notified, image, counters
  <2>5. QED
    BY <2>1, <2>2, <2>3, <2>4
<1>4. CASE Terminated \/ UNCHANGED vars
  BY <1>4 DEF Terminated, ListenerInv, PrcNotifying, vars, locks, events, control, notified,
         image, counters
<1>5. QED
  BY <1>1, <1>2, <1>3, <1>4 DEF Next

\* OnNewImage counts a frame once, whichever way it takes.
LEMMA CountStep ==
  ASSUME TypeInv, LifeInv, CountInv, [Next]_vars
  PROVE  CountInv'
<1>1. CASE SourceProduces \/ SourceThread
  <2>1. CASE NewFrameNotify
    BY <2>1 DEF NewFrameNotify, CountInv, SrcUncounted, TypeInv, TypeOK, control, counters
  <2>2. CASE OnNewImageEnter
    BY <2>2 DEF OnNewImageEnter, CountInv, SrcUncounted, TypeInv, TypeOK, control, counters
  <2>3. CASE OnNewImageCheck
    BY <2>3 DEF OnNewImageCheck, CountInv, SrcUncounted, TypeInv, TypeOK, control, counters
  <2>4. CASE OnNewImageAwait
    BY <2>4 DEF OnNewImageAwait, CountInv, SrcUncounted, TypeInv, TypeOK, control, counters
  <2>5. CASE OnNewImageCount
    BY <2>5 DEF OnNewImageCount, CountInv, SrcUncounted, TypeInv, TypeOK, control, counters
  <2>6. CASE ~(\/ NewFrameNotify \/ OnNewImageEnter \/ OnNewImageCheck \/ OnNewImageAwait
             \/ OnNewImageCount)
    BY <1>1, <2>6, SourceFrame DEF CountInv, SrcUncounted, TypeInv, TypeOK, SourceProduces,
           SourceThread, SourceExits, ErrorMessageNotify, OnError, OnNewImageLock, OnNewImageCopy,
           OnNewImageCopyFails, OnNewImageReport, SignalNewFrame, locks, events, control,
           notified, image, counters
  <2>7. QED
    BY <2>1, <2>2, <2>3, <2>4, <2>5, <2>6
<1>2. CASE ProcessingThread
  BY <1>2, ProcessingFrame DEF CountInv, LifeInv, control, counters, SrcUncounted
<1>3. CASE Requests \/ ServerCalls \/ WaitForStop
  BY <1>3, ControlFrame DEF CountInv, counters, SrcUncounted
<1>4. CASE Terminated \/ UNCHANGED vars
  BY <1>4 DEF Terminated, CountInv, SrcUncounted, vars, locks, events, control, notified, image,
         counters
<1>5. QED
  BY <1>1, <1>2, <1>3, <1>4 DEF Next

\* Frames are stored in the order of their numbers, and not while the graph has the image.
LEMMA FrameStep ==
  ASSUME TypeInv, LockInv, LifeInv, FrameInv, [Next]_vars
  PROVE  FrameInv'
<1>1. CASE SourceProduces \/ SourceThread
  <2>1. CASE NewFrameNotify
    BY <2>1 DEF NewFrameNotify, FrameInv, SrcInCallback, SrcInFrame, TypeInv, TypeOK, image
  <2>2. CASE OnNewImageCopy
    BY <2>2 DEF OnNewImageCopy, FrameInv, SrcInCallback, SrcInFrame, TypeInv, TypeOK, counters,
           NoImage
  <2>3. CASE OnNewImageCopyFails
    BY <2>3 DEF OnNewImageCopyFails, FrameInv, LockInv, PrcInGraph, SrcInCallback, SrcInFrame,
           TypeInv, TypeOK, counters, NoImage
  <2>4. CASE ~(NewFrameNotify \/ OnNewImageCopy \/ OnNewImageCopyFails)
    BY <1>1, <2>4, SourceFrame DEF FrameInv, SrcInCallback, SrcInFrame, PrcInGraph,
           SourceProduces, SourceThread, SourceExits, ErrorMessageNotify, OnError,
           OnNewImageEnter, OnNewImageCheck, OnNewImageAwait, OnNewImageCount, OnNewImageLock,
           OnNewImageReport, SignalNewFrame, locks, events, control, notified, image, counters
  <2>5. QED
    BY <2>1, <2>2, <2>3, <2>4
<1>2. CASE ProcessingThread
  <2>1. CASE GraphRun
    BY <2>1 DEF GraphRun, FrameInv, TypeInv, TypeOK, NoImage, PrcInGraph, SrcInFrame, counters
  <2>2. CASE ~GraphRun
    BY <1>2, <2>2 DEF FrameInv, LifeInv, PrcInGraph, SrcInFrame, ProcessingThread, PreparePlugins,
           PrepareReport, StartSource, StartReport, FirstFree, LoopTest, WaitFrame, ResetNewFrame,
           Recheck, BecomeBusy, GraphLock, GraphCrash, GraphReport, SetFree, NotifyLock,
           NotifyOne, HandlerReturns, HandlerUnsubscribing, HandlerUnsubscribed, NotifyDone,
           SignalFree, locks, events, control, notified, image, counters
  <2>3. QED
    BY <2>1, <2>2
<1>3. CASE Requests \/ ServerCalls \/ WaitForStop
  BY <1>3, ControlFrame DEF FrameInv, image, counters, PrcInGraph
<1>4. CASE Terminated \/ UNCHANGED vars
  BY <1>4 DEF Terminated, FrameInv, SrcInFrame, PrcInGraph, vars, locks, events, control,
         notified, image, counters
<1>5. QED
  BY <1>1, <1>2, <1>3, <1>4 DEF Next

\* A copy that has failed stays so until the next one.
LEMMA FailedCopyStays ==
  ASSUME TypeInv, LifeInv, [Next]_vars, ~OnNewImageCopy, CopyHasFailed
  PROVE  CopyHasFailed'
<1> USE DEF CopyHasFailed
<1>1. CASE SourceProduces \/ SourceThread
  BY <1>1 DEF SourceProduces, SourceThread, SourceExits, NewFrameNotify, ErrorMessageNotify,
         OnError, OnNewImageEnter, OnNewImageCheck, OnNewImageAwait, OnNewImageCount,
         OnNewImageLock, OnNewImageCopyFails, OnNewImageReport, image
<1>2. CASE ProcessingThread
  <2>1. lastImage' = lastImage /\ (lastError => lastError')
    BY <1>2 DEF ProcessingThread, PreparePlugins, PrepareReport, StartSource, StartReport,
         FirstFree, LoopTest, WaitFrame, ResetNewFrame, Recheck, BecomeBusy, GraphLock, GraphRun,
         GraphCrash, GraphReport, SetFree, NotifyLock, NotifyOne, HandlerReturns,
         HandlerUnsubscribing, HandlerUnsubscribed, NotifyDone, image
  <2>2. src = "copyFailed" => src' = src
    BY <1>2, ProcessingFrame DEF LifeInv
  <2>3. QED
    BY <2>1, <2>2
<1>3. CASE Requests \/ ServerCalls \/ WaitForStop
  BY <1>3, ControlFrame DEF image
<1>4. CASE Terminated \/ UNCHANGED vars
  BY <1>4 DEF Terminated, vars, image
<1>5. QED
  BY <1>1, <1>2, <1>3, <1>4 DEF Next

\* A wake-up means a frame, a failed copy or the exit, and a stored frame stays.
LEMMA ImageStep ==
  ASSUME TypeInv, LockInv, LifeInv, FrameInv, ImageInv, [Next]_vars
  PROVE  ImageInv'
<1>0. ~OnNewImageCopy /\ CopyHasFailed => CopyHasFailed'
  BY FailedCopyStays
<1>1. CASE SourceProduces \/ SourceThread
  <2>1. CASE OnNewImageCopy
    BY <2>1 DEF OnNewImageCopy, ImageInv, FrameInv, LockInv, PrcInGraph, SrcInCallback,
           SrcInFrame, TypeInv, TypeOK, counters, control, SignalNewFrame
  <2>2. CASE OnNewImageCopyFails
    <3>1. CopyHasFailed'
      BY <2>2 DEF OnNewImageCopyFails, CopyHasFailed
    <3>2. QED
      BY <3>1 DEF ImageInv
  <2>3. CASE ~(OnNewImageCopy \/ OnNewImageCopyFails)
    <3>1. /\ UNCHANGED <<lastImage, newFrame, needToExit, prc>>
          /\ CopyHasFailed => CopyHasFailed'
      BY <1>0, <1>1, <2>3 DEF SourceProduces, SourceThread,
           SourceExits, NewFrameNotify, ErrorMessageNotify, OnError, OnNewImageEnter,
           OnNewImageCheck, OnNewImageAwait, OnNewImageCount, OnNewImageLock, OnNewImageReport,
           events, control, image
    <3>2. QED
      BY <3>1 DEF ImageInv
  <2>4. QED
    BY <2>1, <2>2, <2>3
<1>2. CASE ProcessingThread
  <2>0. UNCHANGED <<lastImage.frame, needToExit>> /\ (CopyHasFailed => CopyHasFailed')
    <3>1. ~(src = "copy" /\ src' = "run")
      BY <1>2, ProcessingFrame DEF LifeInv
    <3>2. ~OnNewImageCopy
      BY <3>1 DEF OnNewImageCopy
    <3>3. QED
      BY <1>0, <1>2, <3>2, ProcessingFrame DEF control
  <2>1. CASE GraphCrash
    <3>1. lastImage.frame = 0 /\ prc = "graph" /\ newFrame' = newFrame /\ prc' = "crashed"
      BY <2>1 DEF GraphCrash, NoImage, events
    <3>2. QED
      BY <2>0, <3>1 DEF ImageInv
  <2>2. CASE ~GraphCrash
    <3>1. /\ newFrame' => newFrame
          /\ prc' \in {"reset", "recheck"} =>
               newFrame \/ prc \in {"reset", "recheck"}
          /\ prc' \in {"busy", "lock", "graph"} =>
               prc \in {"busy", "lock", "graph"} \/ (prc = "recheck" /\ ~needToExit)
          /\ prc' # "crashed"
      BY <1>2, <2>2 DEF ProcessingThread, PreparePlugins,
           PrepareReport, StartSource, StartReport, FirstFree, LoopTest, WaitFrame, ResetNewFrame,
           Recheck, BecomeBusy, GraphLock, GraphRun, GraphReport, SetFree, NotifyLock, NotifyOne,
           HandlerReturns, HandlerUnsubscribing, HandlerUnsubscribed, NotifyDone, SignalFree,
           events
    <3>2. QED
      BY <2>0, <3>1 DEF ImageInv
  <2>3. QED
    BY <2>1, <2>2
<1>3. CASE Requests \/ ServerCalls \/ WaitForStop
  <2>1. UNCHANGED lastImage /\ (CopyHasFailed => CopyHasFailed') /\ (needToExit => needToExit')
    BY <1>3, ControlFrame DEF CopyHasFailed, image
  <2>2. /\ newFrame' => newFrame \/ needToExit'
        /\ prc' = prc \/ (prc' = "reset" /\ needToExit')
    BY <1>3 DEF Requests, ServerCalls, LifeInv, CtlFinalized,
         WaitForStop, EnableVideoFrameDropping, AddListener, RemoveListener, FinalizeFlag,
         AddListenerPush, AddListenerTryLock, AddListenerRecent, RemoveListenerErase,
         FinalizeSignal, FinalizeListeners, FinalizeCallback, FinalizeSource,
         CleanAlreadyFinalized, JoinSource, Destroyed, Destructing, SignalNewFrame, events,
         control
  <2>3. QED
    BY <2>1, <2>2 DEF ImageInv
<1>4. CASE Terminated \/ UNCHANGED vars
  BY <1>4 DEF Terminated, ImageInv, CopyHasFailed, vars, events, control, image
<1>5. QED
  BY <1>1, <1>2, <1>3, <1>4 DEF Next

-----------------------------------------------------------------------------
(* The invariant, and what follows from it.                                *)

\* Every part of the invariant holds in every reachable state.
THEOREM Invariance == Spec => []Inv
<1>1. ASSUME Init
      PROVE  Inv
  <2>1. TypeInv
    BY <1>1, ConstantsAssumption DEF Init, TypeInv, TypeOK, Owners, NoThread, NoImage, SrcStates,
           SrcInCallback, SrcInFrame, PrcStates, PrcInGraph, CtlStates, CtlFinalized
  <2>2. LockInv /\ LifeInv /\ WakeInv /\ BusyIsTemporary
    BY <1>1 DEF Init, LockInv, LifeInv, WakeInv, BusyIsTemporary, SrcIsRunning, SrcInCallback,
           SrcInFrame, PrcNotifying, PrcInGraph, CtlFinalized, NoThread
  <2>3. ListenerInv /\ CountInv /\ FrameInv /\ ImageInv
    BY <1>1 DEF Init, ListenerInv, CountInv, FrameInv, ImageInv, SrcInFrame, SrcUncounted,
           PrcNotifying, PrcInGraph, NoImage
  <2>4. QED
    BY <2>1, <2>2, <2>3 DEF Inv
<1>2. ASSUME Inv, [Next]_vars
      PROVE  Inv'
  BY <1>2, TypeStep, LockStep, LifeStep, WakeStep, ListenerStep, CountStep, FrameStep, ImageStep,
     BusyStep DEF Inv
<1>3. QED
  BY <1>1, <1>2, PTL DEF Spec

\* Every variable has its type.
THEOREM TypeCorrect == Spec => []TypeOK
<1>1. Inv => TypeOK
  BY DEF Inv, TypeInv
<1>2. QED
  BY <1>1, Invariance, PTL

\* OnNewImage and the processing thread never wait for each other: the free event is
\* down only while the processing thread is on its way to raising it.
THEOREM NeverBothWait == Spec => []BusyIsTemporary
<1>1. Inv => BusyIsTemporary
  BY DEF Inv
<1>2. QED
  BY <1>1, Invariance, PTL

\* The signal of FinalizeVideoSource reaches the processing thread wherever it is.
THEOREM StopReachesProcessing == Spec => []StopIsNeverMissed
<1>1. Inv => StopIsNeverMissed
  BY DEF Inv, WakeInv, StopIsNeverMissed
<1>2. QED
  BY <1>1, Invariance, PTL

\* NotifyNewFrame calls nobody whom RemoveVideoSourceListener or FinalizeVideoSource
\* has taken off the list.
THEOREM CalledAreSubscribed == Spec => []OnlySubscribedAreCalled
<1>1. Inv => OnlySubscribedAreCalled
  BY DEF Inv, ListenerInv, OnlySubscribedAreCalled
<1>2. QED
  BY <1>1, Invariance, PTL

\* VideoSourceData is destroyed after its processing thread is over and after the last
\* call of the plug-in's thread into it.
THEOREM DestroyedLast == Spec => []DestroyedIsUnused
<1>1. Inv => DestroyedIsUnused
  BY DEF Inv, LifeInv, DestroyedIsUnused
<1>2. QED
  BY <1>1, Invariance, PTL

\* Received and dropped frames add up to those the source offered.
THEOREM FramesAddUp == Spec => []FrameAccounting
<1>1. Inv => FrameAccounting
  BY DEF Inv, CountInv, FrameAccounting, SrcInFrame, SrcUncounted
<1>2. QED
  BY <1>1, Invariance, PTL

\* LastImage is null when the graph runs only if memory for a copy has run out, and the listeners
\* and whoever asks have been told so before.
THEOREM NeverWithoutImage == Spec => []GraphHasImage
<1>1. Inv => GraphHasImage
  BY DEF Inv, LockInv, ImageInv, CopyHasFailed, GraphHasImage
<1>2. QED
  BY <1>1, Invariance, PTL

\* OnNewImage waits with a new frame until nobody works with the one that is stored.
THEOREM StableWhileUsed == Spec => LastImageStable
<1>1. ASSUME Inv, [Next]_vars, prc \in PrcInGraph \/ ctl = "recent"
      PROVE  UNCHANGED lastImage.frame
  <2>1. src # "copy"
    BY <1>1 DEF Inv, LockInv, PrcInGraph
  <2>2. CASE SourceProduces \/ SourceThread
    BY <2>1, <2>2 DEF SourceProduces, SourceThread, SourceExits, NewFrameNotify,
           ErrorMessageNotify, OnError, OnNewImageEnter, OnNewImageCheck, OnNewImageAwait,
           OnNewImageCount, OnNewImageLock, OnNewImageCopy, OnNewImageCopyFails, OnNewImageReport,
           SignalNewFrame, locks, events, control, notified, image, counters
  <2>3. CASE ProcessingThread
    BY <1>1, <2>3, ProcessingFrame DEF Inv
  <2>4. CASE Requests \/ ServerCalls \/ WaitForStop
    BY <2>4, ControlFrame DEF image
  <2>5. CASE Terminated \/ UNCHANGED vars
    BY <2>5 DEF Terminated, vars, image
  <2>6. QED
    BY <1>1, <2>2, <2>3, <2>4, <2>5 DEF Next
<1>2. QED
  BY <1>1, Invariance, PTL DEF Spec, LastImageStable

\* The hand-over of frames implements LatestFrame: NewFrameNotify offers a frame, the
\* copy in OnNewImage stores it or loses it, NotifyNewFrame delivers what is stored, and
\* no other step shows.
THEOREM ImplementsLatestFrame == Spec => DeliversLatest
<1>1. Init => Latest!Init
  BY DEF Init, NoImage, Latest!Init
<1>2. ASSUME Inv, [Next]_vars
      PROVE  [Latest!Next]_(Latest!vars)
  <2>1. CASE NewFrameNotify
    BY <2>1 DEF NewFrameNotify, image, Latest!Next, Latest!Offer, Latest!vars
  <2>2. CASE OnNewImageCopy \/ OnNewImageCopyFails
    BY <1>2, <2>2 DEF Inv, TypeInv, TypeOK, FrameInv, SrcInFrame, OnNewImageCopy,
           OnNewImageCopyFails, NoImage, counters, Latest!Next, Latest!Store
  <2>3. CASE SourceProduces \/ SourceThread
    BY <2>1, <2>2, <2>3 DEF Latest!vars, SourceProduces, SourceThread, SourceExits,
           NewFrameNotify, ErrorMessageNotify, OnError, OnNewImageEnter, OnNewImageCheck,
           OnNewImageAwait, OnNewImageCount, OnNewImageLock, OnNewImageCopy, OnNewImageCopyFails,
           OnNewImageReport, SignalNewFrame, locks, events, control, notified, image, counters
  <2>4. CASE NotifyLock
    BY <1>2, <2>4 DEF Inv, FrameInv, PrcInGraph, NotifyLock, counters, Latest!Next, Latest!Deliver
  <2>5. CASE ProcessingThread /\ ~NotifyLock
    BY <1>2, <2>5, ProcessingFrame DEF Inv, Latest!vars, ProcessingThread, PreparePlugins,
           PrepareReport, StartSource, StartReport, FirstFree, LoopTest, WaitFrame, ResetNewFrame,
           Recheck, BecomeBusy, GraphLock, GraphRun, GraphCrash, GraphReport, SetFree, NotifyOne,
           HandlerReturns, HandlerUnsubscribing, HandlerUnsubscribed, NotifyDone, SignalFree,
           locks, events, control, notified, image, counters
  <2>6. CASE Requests \/ ServerCalls \/ WaitForStop
    BY <2>6, ControlFrame DEF image, counters, Latest!vars
  <2>7. CASE Terminated \/ UNCHANGED vars
    BY <2>7 DEF Terminated, vars, image, counters, Latest!vars
  <2>8. QED
    BY <1>2, <2>3, <2>4, <2>5, <2>6, <2>7 DEF Next
<1>3. QED
  BY <1>1, <1>2, Invariance, PTL DEF Spec, DeliversLatest, Latest!Spec

\* A place for the latest frame gives frames in their order: what is in it is the frame
\* offered last when it was put there.
PlaceInv ==
  /\ offered \in Nat /\ lastImage.frame \in Nat /\ delivered \in Nat
  /\ delivered <= offered /\ lastImage.frame <= offered
  /\ lastImage.frame = 0 \/ delivered <= lastImage.frame

LEMMA PlaceIsInOrder == Latest!Spec => [](PlaceInv) /\ Latest!NeverBackwards
<1> USE DEF Latest!vars
<1>1. Latest!Init => PlaceInv
  BY DEF Latest!Init, PlaceInv
<1>2. ASSUME PlaceInv, [Latest!Next]_(Latest!vars) PROVE PlaceInv' /\ delivered' >= delivered
  <2> USE <1>2 DEF PlaceInv
  <2>1. CASE Latest!Offer
    BY <2>1 DEF Latest!Offer
  <2>2. CASE Latest!Store
    BY <2>2 DEF Latest!Store
  <2>3. CASE Latest!Deliver
    BY <2>3 DEF Latest!Deliver
  <2>4. CASE UNCHANGED Latest!vars
    BY <2>4
  <2> QED BY <2>1, <2>2, <2>3, <2>4 DEF Latest!Next
<1>3. PlaceInv /\ [Latest!Next]_(Latest!vars) => PlaceInv'
  BY <1>2
<1>4. PlaceInv /\ [Latest!Next]_(Latest!vars) => [delivered' >= delivered]_(Latest!vars)
  BY <1>2
<1> QED BY <1>1, <1>3, <1>4, PTL DEF Latest!Spec, Latest!NeverBackwards

\* The listeners never get a frame older than one they were given, whatever threads do when.
THEOREM NeverAnOlderFrame == Spec => Latest!NeverBackwards
BY ImplementsLatestFrame, PlaceIsInOrder DEF DeliversLatest

-----------------------------------------------------------------------------
(* The life of the object and its threads.                                 *)

\* The source's thread shows only when it is over.
LEMMA SourceLives ==
  ASSUME SourceProduces \/ SourceThread
  PROVE  [Life!Next]_(Life!vars)
<1>1. UNCHANGED <<ProcessingState, needToExit, callback, Kept>>
  BY SourceFrame DEF control, ProcessingState, Kept
<1>2. exitEvent' = exitEvent
  BY SourceFrame
<1>3. CASE SourceExits
  <2>1. PluginThread = "signalled" /\ PluginThread' = "exited"
    BY <1>3 DEF SourceExits, PluginThread
  <2> QED BY <1>1, <2>1 DEF Life!Next, Life!SourceExits
<1>4. CASE ~SourceExits
  <2>1. src \notin {"off", "exited"} /\ src' \notin {"off", "exited"}
    BY <1>4 DEF SourceProduces, SourceThread, NewFrameNotify, ErrorMessageNotify, OnError,
           OnNewImageEnter, OnNewImageCheck, OnNewImageAwait, OnNewImageCount, OnNewImageLock,
           OnNewImageCopy, OnNewImageCopyFails, OnNewImageReport
  <2>2. PluginThread' = PluginThread
    BY <1>2, <2>1 DEF PluginThread
  <2> QED BY <1>1, <2>2 DEF Life!vars
<1> QED BY <1>3, <1>4

\* The processing thread shows when it starts the source's thread or fails to, and when it
\* has found that it was told to exit.
LEMMA ProcessingLives ==
  ASSUME TypeInv, LifeInv, ProcessingThread
  PROVE  [Life!Next]_(Life!vars)
<1>1. UNCHANGED <<needToExit, callback, Kept>>
  BY ProcessingFrame DEF control, Kept
<1>2. CASE StartSource
  <2>1. PluginThread = "none" /\ ProcessingState = "preparing"
    BY <1>2 DEF StartSource, LifeInv, PluginThread, ProcessingState
  <2>2. CASE prc' = "startFailed"
    <3>1. PluginThread' = "none" /\ ProcessingState' = "preparing"
      BY <1>2, <2>2 DEF StartSource, LifeInv, PluginThread, ProcessingState
    <3> QED BY <1>1, <2>1, <3>1 DEF Life!vars
  <2>3. CASE prc' = "firstFree"
    <3>1. PluginThread' = "running" /\ ProcessingState' = "processing"
      BY <1>2, <2>3 DEF StartSource, PluginThread, ProcessingState
    <3> QED BY <1>1, <2>1, <3>1 DEF Life!Next, Life!SourceStarts
  <2> QED BY <1>2, <2>2, <2>3 DEF StartSource
<1>3. CASE ~StartSource
  <2>1. exitEvent' = exitEvent
    BY <1>3 DEF ProcessingThread, PreparePlugins, PrepareReport, StartReport, FirstFree, LoopTest,
           WaitFrame, ResetNewFrame, Recheck, BecomeBusy, GraphLock, GraphRun, GraphCrash,
           GraphReport, SetFree, NotifyLock, NotifyOne, HandlerReturns, HandlerUnsubscribing,
           HandlerUnsubscribed, NotifyDone, SignalFree, events
  <2>2. src' = src \/ (src = "blocked" /\ src' = "count")
    BY <1>3 DEF ProcessingThread, PreparePlugins, PrepareReport, StartReport, FirstFree, LoopTest,
           WaitFrame, ResetNewFrame, Recheck, BecomeBusy, GraphLock, GraphRun, GraphCrash,
           GraphReport, SetFree, NotifyLock, NotifyOne, HandlerReturns, HandlerUnsubscribing,
           HandlerUnsubscribed, NotifyDone, SignalFree
  <2>3. PluginThread' = PluginThread
    BY <2>1, <2>2 DEF PluginThread
  <2>4. CASE StartReport
    <3>1. PluginThread = "none" /\ ProcessingState = "preparing" /\ ProcessingState' = "done"
      BY <2>4 DEF StartReport, LifeInv, PluginThread, ProcessingState
    <3> QED BY <1>1, <2>3, <3>1 DEF Life!Next, Life!SourceStarts
  <2>5. CASE (LoopTest \/ Recheck) /\ needToExit
    <3>1. ProcessingState = "processing" /\ ProcessingState' = "done"
      BY <2>5 DEF LoopTest, Recheck, ProcessingState
    <3> QED BY <1>1, <2>3, <2>5, <3>1 DEF Life!Next, Life!ProcessingExits
  <2>6. CASE ~StartReport /\ ~((LoopTest \/ Recheck) /\ needToExit)
    <3>1. ProcessingState' = ProcessingState
      BY <1>3, <2>6 DEF ProcessingThread, PreparePlugins, PrepareReport, FirstFree, LoopTest,
             WaitFrame, ResetNewFrame, Recheck, BecomeBusy, GraphLock, GraphRun, GraphCrash,
             GraphReport, SetFree, NotifyLock, NotifyOne, HandlerReturns, HandlerUnsubscribing,
             HandlerUnsubscribed, NotifyDone, ProcessingState
    <3> QED BY <1>1, <2>3, <3>1 DEF Life!vars
  <2> QED BY <2>4, <2>5, <2>6
<1> QED BY <1>2, <1>3

\* Whoever is inside the server for the source takes it through its phases in their order.
LEMMA ControlLives ==
  ASSUME LifeInv, Requests \/ ServerCalls \/ WaitForStop
  PROVE  [Life!Next]_(Life!vars)
<1>1. src' = src
  BY DEF Requests, ServerCalls, WaitForStop, EnableVideoFrameDropping, AddListener, RemoveListener,
         FinalizeFlag, AddListenerPush, AddListenerTryLock, AddListenerRecent, RemoveListenerErase,
         FinalizeSignal, FinalizeListeners, FinalizeCallback, FinalizeSource, Destroyed,
         CleanAlreadyFinalized, JoinSource
<1>2. prc' = prc \/ (prc = "blocked" /\ prc' = "reset")
  BY DEF Requests, ServerCalls, WaitForStop, EnableVideoFrameDropping, AddListener, RemoveListener,
         FinalizeFlag, AddListenerPush, AddListenerTryLock, AddListenerRecent, RemoveListenerErase,
         FinalizeSignal, FinalizeListeners, FinalizeCallback, FinalizeSource, Destroyed,
         CleanAlreadyFinalized, JoinSource, Destructing, SignalNewFrame
<1>3. ProcessingState' = ProcessingState
  BY <1>2 DEF ProcessingState
<1>4. CASE FinalizeFlag
  <2>1. Kept = "running" /\ Kept' = "running" /\ PluginThread' = PluginThread
    BY <1>1, <1>4 DEF FinalizeFlag, Kept, PluginThread, events
  <2>2. needToExit' = TRUE /\ callback' = callback
    BY <1>4 DEF FinalizeFlag
  <2> QED BY <1>3, <2>1, <2>2 DEF Life!Next, Life!Tell
<1>5. CASE FinalizeCallback
  <2>1. Kept = "running" /\ Kept' = "running" /\ PluginThread' = PluginThread
    BY <1>1, <1>5 DEF FinalizeCallback, Kept, PluginThread, events
  <2>2. needToExit' = TRUE /\ callback' = FALSE
    BY <1>5 DEF FinalizeCallback, LifeInv, CtlFinalized
  <2> QED BY <1>3, <2>1, <2>2 DEF Life!Next, Life!Tell
<1>6. CASE FinalizeSource
  <2>1. Kept = "running" /\ Kept' = "finalizing"
    BY <1>6 DEF FinalizeSource, Kept
  <2>2. needToExit' = TRUE /\ callback' = FALSE
    BY <1>6 DEF FinalizeSource, LifeInv, CtlFinalized, control
  <2>3. PluginThread' = IF PluginThread = "running" THEN "signalled" ELSE PluginThread
    BY <1>1, <1>6 DEF FinalizeSource, PluginThread, SrcIsRunning
  <2> QED BY <1>3, <2>1, <2>2, <2>3 DEF Life!Next, Life!Finalize, Life!SignalSource
<1>7. CASE WaitForStop
  <2>1. Kept = "finalizing" /\ Kept' = "finalizing"
    BY <1>7 DEF WaitForStop, Kept
  <2>2. UNCHANGED <<needToExit, callback>>
    BY <1>7 DEF WaitForStop, control
  <2>3. PluginThread' = IF PluginThread = "running" THEN "signalled" ELSE PluginThread
    BY <1>1, <1>7 DEF WaitForStop, PluginThread, SrcIsRunning
  <2> QED BY <1>3, <2>1, <2>2, <2>3 DEF Life!Next, Life!Signal, Life!SignalSource
<1>8. CASE CleanAlreadyFinalized \/ JoinSource
  <2>1. Kept = "finalizing" /\ Kept' = "joining"
    BY <1>8 DEF CleanAlreadyFinalized, JoinSource, Destructing, Kept
  <2>2. UNCHANGED <<needToExit, callback>>
    BY <1>8 DEF CleanAlreadyFinalized, JoinSource, Destructing, LifeInv, CtlFinalized
  <2>3. PluginThread \notin {"running", "signalled"} /\ PluginThread' = PluginThread
    BY <1>1, <1>8 DEF CleanAlreadyFinalized, JoinSource, PluginThread, SrcIsRunning
  <2> QED BY <1>3, <2>1, <2>2, <2>3 DEF Life!Next, Life!Destruct
<1>9. CASE Destroyed
  <2>1. Kept = "joining" /\ Kept' = "gone" /\ PluginThread' = PluginThread
    BY <1>1, <1>9 DEF Destroyed, Kept, PluginThread, events
  <2>2. UNCHANGED <<needToExit, callback>> /\ ProcessingState = "done"
    BY <1>9 DEF Destroyed, ProcessingState, control
  <2> QED BY <1>3, <2>1, <2>2 DEF Life!Next, Life!Destroy
<1>10. CASE \/ EnableVideoFrameDropping \/ AddListener \/ RemoveListener \/ AddListenerPush
            \/ AddListenerTryLock \/ AddListenerRecent \/ RemoveListenerErase \/ FinalizeSignal
            \/ FinalizeListeners
  <2>1. UNCHANGED <<needToExit, callback, exitEvent>>
    BY <1>10 DEF EnableVideoFrameDropping, AddListener, RemoveListener, AddListenerPush,
           AddListenerTryLock, AddListenerRecent, RemoveListenerErase, FinalizeSignal,
           FinalizeListeners, control, events
  <2>2. Kept' = Kept
    BY <1>10 DEF EnableVideoFrameDropping, AddListener, RemoveListener, AddListenerPush,
           AddListenerTryLock, AddListenerRecent, RemoveListenerErase, FinalizeSignal,
           FinalizeListeners, Kept
  <2>3. PluginThread' = PluginThread
    BY <1>1, <2>1 DEF PluginThread
  <2> QED BY <1>3, <2>1, <2>2, <2>3 DEF Life!vars
<1> QED BY <1>4, <1>5, <1>6, <1>7, <1>8, <1>9, <1>10 DEF Requests, ServerCalls

\* A source lives from the inside as AutomationServer has it from the outside: all that is
\* done in many steps and under three mutexes comes to the steps of SourceLife.
THEOREM LivesAsServerHasIt == Spec => LivesAsPromised
<1>1. Init => Life!Started
  BY DEF Init, Life!Started, PluginThread, ProcessingState, Kept
<1>2. ASSUME Inv, [Next]_vars
      PROVE  [Life!Next]_(Life!vars)
  <2>1. CASE SourceProduces \/ SourceThread
    BY <2>1, SourceLives
  <2>2. CASE ProcessingThread
    BY <1>2, <2>2, ProcessingLives DEF Inv
  <2>3. CASE Requests \/ ServerCalls \/ WaitForStop
    BY <1>2, <2>3, ControlLives DEF Inv
  <2>4. CASE Terminated \/ UNCHANGED vars
    BY <2>4 DEF Terminated, vars, events, control, PluginThread, ProcessingState, Kept, Life!vars
  <2> QED BY <1>2, <2>1, <2>2, <2>3, <2>4 DEF Next
<1> QED BY <1>1, <1>2, Invariance, PTL DEF Spec, LivesAsPromised, Life!StartedSpec

=============================================================================
