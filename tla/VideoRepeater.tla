---------------------------- MODULE VideoRepeater ----------------------------
(***************************************************************************)
(* The video repeaters (plug-ins/video_sources/vs_repeater): a push        *)
(* plug-in in the processing graph of one video source hands its images to *)
(* a repeater, found by its identifier in a registry, and the repeater's   *)
(* background thread sends them on as a video source of its own.           *)
(*                                                                         *)
(* ImageSync and the registry's mutex are held for one step each: what     *)
(* they guard is done at once.  So is Sync but in Start, which creates the *)
(* thread and registers the repeater with it locked; the callback made     *)
(* with Sync locked returns (CallbackReturns of module VideoSourceData).   *)
(* Events behave as module AtomicEvent says.                               *)
(***************************************************************************)
EXTENDS Naturals

CONSTANTS
  Repeaters,       (* VideoRepeaterPlugin objects                           *)
  NoRepeater,      (* null                                                  *)
  RepeaterIds,     (* identifiers a user may give them                      *)
  Pushers,         (* threads that run a VideoRepeaterPushPlugin            *)
  MaxImages,       (* bound: so many images are pushed                      *)
  MaxStarts        (* bound: repeaters are started so many times in all     *)

ASSUME RepeatersAssumption ==
  /\ NoRepeater \notin Repeaters
  /\ MaxImages \in Nat /\ MaxStarts \in Nat

VARIABLES
  repeaterId,      (* RepeaterId of each repeater                           *)
  worker,          (* where its background thread is                        *)
  exitEvent,       (* ExitEvent                                             *)
  missed,          (* history: it was last signalled between the thread's   *)
                   (*   test of it and the reset of newImage                *)
  newImage,        (* NewImageEvent                                         *)
  pushedImage,     (* PushedImage: its number of those pushed to the        *)
                   (*   repeater, 0 for null                                *)
  notifiedImage,   (* NotifiedImage                                         *)
  sent,            (* history: the image last given to the client           *)
  failedAt,        (* history: images pushed to the repeater when it was    *)
                   (*   last told of an error                               *)
  registry,        (* mRepeaters                                            *)
  target,          (* the repeater each pusher has looked up                *)
  pushed,          (* history: images pushed to each repeater               *)
  images,          (* history: images pushed so far                         *)
  starting,        (* repeaters whose Start holds Sync and has created the  *)
                   (*   thread, but not registered the repeater yet         *)
  starts           (* history: starts so far                                *)

run   == <<worker, exitEvent, missed>>
frame == <<pushedImage, notifiedImage, sent, failedAt>>
push  == <<target, pushed, images>>
owner == <<starting, starts>>
vars  == <<repeaterId, run, newImage, frame, registry, push, owner>>

IsRunning(r) == worker[r] # "off"

\* The identifiers were set as properties of the plug-ins before anything started.
Init ==
  /\ repeaterId \in [Repeaters -> RepeaterIds]
  /\ worker = [r \in Repeaters |-> "off"]
  /\ exitEvent = [r \in Repeaters |-> FALSE]
  /\ missed = [r \in Repeaters |-> FALSE]
  /\ newImage = [r \in Repeaters |-> FALSE]
  /\ pushedImage = [r \in Repeaters |-> 0]
  /\ notifiedImage = [r \in Repeaters |-> 0]
  /\ sent = [r \in Repeaters |-> 0]
  /\ failedAt = [r \in Repeaters |-> 0]
  /\ registry = [i \in RepeaterIds |-> NoRepeater]
  /\ target = [p \in Pushers |-> NoRepeater]
  /\ pushed = [r \in Repeaters |-> 0] /\ images = 0 /\ starting = {} /\ starts = 0

-----------------------------------------------------------------------------
(* The owner of a repeater.                                                *)

SyncFree(r) == r \notin starting

\* The thread runs before the repeater is registered. When there is one already, or it cannot
\* be created, only ExitEvent is reset.
Start(r) ==
  /\ SyncFree(r)
  /\ starts < MaxStarts
  /\ starts' = starts + 1
  /\ exitEvent' = [exitEvent EXCEPT ![r] = FALSE]
  /\ missed' = [missed EXCEPT ![r] = FALSE]
  /\ \/ /\ ~IsRunning(r)
        /\ worker' = [worker EXCEPT ![r] = "wait"]
        /\ starting' = starting \cup {r}
     \/ UNCHANGED <<worker, starting>>
  /\ UNCHANGED <<repeaterId, newImage, frame, registry, push>>

\* AddRepeater, and Sync is released.
Register(r) ==
  /\ r \in starting
  /\ registry' = [registry EXCEPT ![repeaterId[r]] = r]
  /\ starting' = starting \ {r}
  /\ UNCHANGED <<repeaterId, run, newImage, frame, push, starts>>

\* A waiting thread goes on when newImage is signalled.
Woken(at) == IF at = "blocked" THEN "check" ELSE at

\* Faulty: the thread is not woken up.
SignalToStop_Quietly(r) ==
  /\ SyncFree(r)
  /\ IsRunning(r)
  /\ exitEvent' = [exitEvent EXCEPT ![r] = TRUE]
  /\ UNCHANGED <<repeaterId, worker, missed, newImage, frame, registry, push, owner>>

\* Faulty: Sync is not locked.
SignalToStop_Unlocked(r) ==
  /\ IsRunning(r)
  /\ exitEvent' = [exitEvent EXCEPT ![r] = TRUE]
  /\ missed' = [missed EXCEPT ![r] = worker[r] \in {"clone", "reset"}]
  /\ newImage' = [newImage EXCEPT ![r] = TRUE]
  /\ worker' = [worker EXCEPT ![r] = Woken(@)]
  /\ UNCHANGED <<repeaterId, frame, registry, push, owner>>

\* Also what WaitForStop does before it joins the thread. The thread is blocked on
\* newImage only, so the two events are signalled in one step.
SignalToStop(r) ==
  /\ SyncFree(r)
  /\ IsRunning(r)
  /\ exitEvent' = [exitEvent EXCEPT ![r] = TRUE]
  /\ missed' = [missed EXCEPT ![r] = worker[r] \in {"clone", "reset"}]
  /\ newImage' = [newImage EXCEPT ![r] = TRUE]
  /\ worker' = [worker EXCEPT ![r] = Woken(@)]
  /\ UNCHANGED <<repeaterId, frame, registry, push, owner>>

-----------------------------------------------------------------------------
(* The push plug-in.                                                       *)

\* GetRepeater; without one of that identifier ProcessImage fails.
LookUp(p) ==
  /\ target[p] = NoRepeater
  /\ \E i \in RepeaterIds : target' = [target EXCEPT ![p] = registry[i]]
  /\ UNCHANGED <<repeaterId, run, newImage, frame, registry, pushed, images, owner>>

PushImage(p) ==
  /\ target[p] # NoRepeater
  /\ images < MaxImages
  /\ images' = images + 1
  /\ pushed' = [pushed EXCEPT ![target[p]] = @ + 1]
  /\ pushedImage' = [pushedImage EXCEPT ![target[p]] = pushed'[target[p]]]
  /\ newImage' = [newImage EXCEPT ![target[p]] = TRUE]
  /\ worker' = [worker EXCEPT ![target[p]] = Woken(@)]
  /\ target' = [target EXCEPT ![p] = NoRepeater]
  /\ UNCHANGED <<repeaterId, exitEvent, missed, notifiedImage, sent, failedAt, registry, owner>>

\* XImageClone runs out of memory and leaves null, and the error is told with Sync locked.
PushImageFails(p) ==
  /\ target[p] # NoRepeater
  /\ SyncFree(target[p])
  /\ pushedImage' = [pushedImage EXCEPT ![target[p]] = 0]
  /\ failedAt' = [failedAt EXCEPT ![target[p]] = pushed[target[p]]]
  /\ target' = [target EXCEPT ![p] = NoRepeater]
  /\ UNCHANGED <<repeaterId, run, newImage, notifiedImage, sent, registry, pushed, images,
                 owner>>

-----------------------------------------------------------------------------
(* The repeater's background thread.                                       *)

WorkerWait(r) ==
  /\ worker[r] = "wait"
  /\ worker' = [worker EXCEPT ![r] = IF newImage[r] THEN "check" ELSE "blocked"]
  /\ UNCHANGED <<repeaterId, exitEvent, missed, newImage, frame, registry, push, owner>>

WorkerCheck(r) ==
  /\ worker[r] = "check"
  /\ worker' = [worker EXCEPT ![r] = IF exitEvent[r] THEN "remove" ELSE "clone"]
  /\ UNCHANGED <<repeaterId, exitEvent, missed, newImage, frame, registry, push, owner>>

\* Faulty: an image is cloned only when there is none yet.
WorkerClone_Once(r) ==
  /\ worker[r] = "clone"
  /\ notifiedImage' = [notifiedImage EXCEPT ![r] = IF @ = 0 THEN pushedImage[r] ELSE @]
  /\ worker' = [worker EXCEPT ![r] = "reset"]
  /\ UNCHANGED <<repeaterId, exitEvent, missed, newImage, pushedImage, sent, failedAt, registry,
                 push, owner>>

WorkerClone(r) ==
  /\ worker[r] = "clone"
  /\ pushedImage[r] # 0
  /\ notifiedImage' = [notifiedImage EXCEPT ![r] = pushedImage[r]]
  /\ worker' = [worker EXCEPT ![r] = "reset"]
  /\ UNCHANGED <<repeaterId, exitEvent, missed, newImage, pushedImage, sent, failedAt, registry,
                 push, owner>>

\* There is no image when only an old signal woke the thread or a push failed, and what was
\* cloned before stays. Without memory it is gone.
WorkerCloneFails(r) ==
  /\ worker[r] = "clone"
  /\ SyncFree(r)
  /\ notifiedImage' = [notifiedImage EXCEPT ![r] = IF pushedImage[r] = 0 THEN @ ELSE 0]
  /\ failedAt' = [failedAt EXCEPT ![r] = pushed[r]]
  /\ worker' = [worker EXCEPT ![r] = "reset"]
  /\ UNCHANGED <<repeaterId, exitEvent, missed, newImage, pushedImage, sent, registry, push,
                 owner>>

\* Faulty: NotifiedImage is not tested.
WorkerReset_Untested(r) ==
  /\ worker[r] = "reset"
  /\ newImage' = [newImage EXCEPT ![r] = FALSE]
  /\ worker' = [worker EXCEPT ![r] = "notify"]
  /\ UNCHANGED <<repeaterId, exitEvent, missed, frame, registry, push, owner>>

WorkerReset(r) ==
  /\ worker[r] = "reset"
  /\ newImage' = [newImage EXCEPT ![r] = FALSE]
  /\ worker' = [worker EXCEPT ![r] = IF notifiedImage[r] # 0 THEN "notify" ELSE "wait"]
  /\ UNCHANGED <<repeaterId, exitEvent, missed, frame, registry, push, owner>>

WorkerNotify(r) ==
  /\ worker[r] = "notify"
  /\ SyncFree(r)
  /\ sent' = [sent EXCEPT ![r] = notifiedImage[r]]
  /\ worker' = [worker EXCEPT ![r] = "wait"]
  /\ UNCHANGED <<repeaterId, exitEvent, missed, newImage, pushedImage, notifiedImage, failedAt,
                 registry, push, owner>>

\* Whoever is registered under the identifier is removed.
WorkerRemove(r) ==
  /\ worker[r] = "remove"
  /\ registry' = [registry EXCEPT ![repeaterId[r]] = NoRepeater]
  /\ worker' = [worker EXCEPT ![r] = "ending"]
  /\ UNCHANGED <<repeaterId, exitEvent, missed, newImage, frame, push, owner>>

WorkerEnds(r) ==
  /\ worker[r] = "ending"
  /\ worker' = [worker EXCEPT ![r] = "off"]
  /\ UNCHANGED <<repeaterId, exitEvent, missed, newImage, frame, registry, push, owner>>

Worker(r) ==
  \/ WorkerWait(r) \/ WorkerCheck(r) \/ WorkerClone(r) \/ WorkerCloneFails(r)
  \/ WorkerReset(r)
  \/ WorkerNotify(r) \/ WorkerRemove(r) \/ WorkerEnds(r)

Next ==
  \/ \E r \in Repeaters : Start(r) \/ Register(r) \/ SignalToStop(r) \/ Worker(r)
  \/ \E p \in Pushers : LookUp(p) \/ PushImage(p) \/ PushImageFails(p)

Spec == Init /\ [][Next]_vars

\* The background threads keep running and a start that has begun ends; nobody need start, stop
\* or push, and memory may run out each time.
FairSpec == Spec /\ \A r \in Repeaters : WF_vars(Worker(r)) /\ WF_vars(Register(r))

-----------------------------------------------------------------------------
(* Properties.                                                             *)

\* The types; the client is given an image and never null, and a thread is blocked only as
\* long as its event is not signalled.
TypeOK ==
  /\ repeaterId \in [Repeaters -> RepeaterIds]
  /\ worker \in [Repeaters -> {"off", "wait", "blocked", "check", "clone", "reset", "notify",
                               "remove", "ending"}]
  /\ exitEvent \in [Repeaters -> BOOLEAN] /\ missed \in [Repeaters -> BOOLEAN]
  /\ newImage \in [Repeaters -> BOOLEAN]
  /\ pushedImage \in [Repeaters -> Nat] /\ notifiedImage \in [Repeaters -> Nat]
  /\ sent \in [Repeaters -> Nat] /\ failedAt \in [Repeaters -> Nat]
  /\ registry \in [RepeaterIds -> Repeaters \cup {NoRepeater}]
  /\ target \in [Pushers -> Repeaters \cup {NoRepeater}]
  /\ \A r \in Repeaters : /\ worker[r] = "notify" => notifiedImage[r] # 0
                          /\ worker[r] = "blocked" => ~newImage[r]
  /\ pushed \in [Repeaters -> Nat] /\ images \in 0..MaxImages
  /\ starting \subseteq Repeaters /\ starts \in 0..MaxStarts

\* Only a repeater whose thread is running can be found, under its identifier, so no push
\* plug-in is given one that is over, however a stop meets a start that has created the thread
\* and not registered the repeater; and one that was started can be found until it stops,
\* unless another one has the same identifier.
RegistryIsAccurate ==
  /\ \A i \in RepeaterIds : registry[i] # NoRepeater =>
       /\ repeaterId[registry[i]] = i
       /\ worker[registry[i]] \notin {"off", "ending"}
  /\ \A r \in Repeaters \ starting :
       /\ worker[r] \notin {"off", "ending"}
       /\ \A q \in Repeaters \ {r} : repeaterId[q] # repeaterId[r]
       => registry[repeaterId[r]] = r

\* An image pushed while the thread is not between its test of ExitEvent and the reset of
\* NewImageEvent is sent, or a later one is, unless the repeater is told to stop or its client
\* is told of an error after that push: what failed before is no excuse.
PushedIsSent ==
  \A r \in Repeaters : \A n \in 1..MaxImages :
    pushedImage[r] = n /\ newImage[r] /\ worker[r] \in {"wait", "check", "notify"}
      ~> sent[r] >= n \/ exitEvent[r] \/ failedAt[r] >= n

\* A repeater told to stop outside that gap comes to its end, unless it is started again
\* before it has.
StopOutsideGap ==
  \A r \in Repeaters : exitEvent[r] /\ ~missed[r] ~> ~IsRunning(r) \/ ~exitEvent[r]

\* What a repeater does with the images pushed to it implements a place for the latest one,
\* through all starts and stops, but for images lost when memory for a copy runs out.
Place(r) == INSTANCE LatestFrame
              WITH offered <- pushed[r], stored <- notifiedImage[r], delivered <- sent[r]
RepeatsLatest == \A r \in Repeaters : Place(r)!LossySpec

\* What VideoRepeaterPlugin.cpp says of SignalToStop and WaitForStop: a repeater told to
\* stop does, whenever that was.
SignalledIsStopped ==
  \A r \in Repeaters : exitEvent[r] ~> ~IsRunning(r) \/ ~exitEvent[r]

=============================================================================
