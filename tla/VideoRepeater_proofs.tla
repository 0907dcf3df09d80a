------------------------- MODULE VideoRepeater_proofs -------------------------
(***************************************************************************)
(* For any number of repeaters, identifiers and push plug-ins: the types,  *)
(* and that the registry tells who is running.                             *)
(***************************************************************************)
EXTENDS VideoRepeater, TLAPS

\* The two halves of RegistryIsAccurate: who is registered runs, and who was started is
\* registered.
RegisteredRun ==
  \A i \in RepeaterIds : registry[i] # NoRepeater =>
    repeaterId[registry[i]] = i /\ worker[registry[i]] \notin {"off", "ending"}
RunningAreRegistered ==
  \A r \in Repeaters \ starting :
    /\ worker[r] \notin {"off", "ending"}
    /\ \A q \in Repeaters \ {r} : repeaterId[q] # repeaterId[r]
    => registry[repeaterId[r]] = r

\* A thread that has been created runs on until the repeater is registered: it can be told to
\* stop only with Sync locked.
StartingRun ==
  \A r \in starting : worker[r] \notin {"off", "remove", "ending"} /\ ~exitEvent[r]

\* Initially they hold.
LEMMA InitInv == Init => TypeOK /\ RegisteredRun /\ RunningAreRegistered /\ StartingRun
BY RepeatersAssumption
DEF RepeatersAssumption, Init, TypeOK, RegisteredRun, RunningAreRegistered, StartingRun

\* Every step keeps the types, the client is never given null, and nobody is blocked on an
\* event that is signalled.
LEMMA StepTypeOK == TypeOK /\ [Next]_vars => TypeOK'
<1> SUFFICES ASSUME TypeOK, [Next]_vars PROVE TypeOK'
  OBVIOUS
<1> USE RepeatersAssumption DEF RepeatersAssumption, TypeOK, run, frame, push, owner, Woken
<1>1. ASSUME NEW r \in Repeaters, Start(r) PROVE TypeOK'
  BY <1>1 DEF Start
<1>0. ASSUME NEW r \in Repeaters, Register(r) PROVE TypeOK'
  BY <1>0 DEF Register
<1>2. ASSUME NEW r \in Repeaters, SignalToStop(r) PROVE TypeOK'
  BY <1>2 DEF SignalToStop
<1>3. ASSUME NEW r \in Repeaters, Worker(r) PROVE TypeOK'
  <2>1. CASE WorkerWait(r)
    BY <2>1 DEF WorkerWait
  <2>2. CASE WorkerCheck(r)
    BY <2>2 DEF WorkerCheck
  <2>3. CASE WorkerClone(r)
    BY <2>3 DEF WorkerClone
  <2>4. CASE WorkerCloneFails(r)
    BY <2>4 DEF WorkerCloneFails
  <2>5. CASE WorkerReset(r)
    BY <2>5 DEF WorkerReset
  <2>6. CASE WorkerNotify(r)
    BY <2>6 DEF WorkerNotify
  <2>7. CASE WorkerRemove(r)
    BY <2>7 DEF WorkerRemove
  <2>8. CASE WorkerEnds(r)
    BY <2>8 DEF WorkerEnds
  <2> QED BY <1>3, <2>1, <2>2, <2>3, <2>4, <2>5, <2>6, <2>7, <2>8 DEF Worker
<1>4. ASSUME NEW p \in Pushers, LookUp(p) PROVE TypeOK'
  BY <1>4 DEF LookUp
<1>5. ASSUME NEW p \in Pushers, PushImage(p) PROVE TypeOK'
  BY <1>5 DEF PushImage
<1>6. ASSUME NEW p \in Pushers, PushImageFails(p) PROVE TypeOK'
  BY <1>6 DEF PushImageFails
<1>7. CASE UNCHANGED vars
  BY <1>7 DEF vars
<1> QED BY <1>0, <1>1, <1>2, <1>3, <1>4, <1>5, <1>6, <1>7 DEF Next

\* What only wakes a waiting thread up changes nothing about who runs.
LEMMA WokenRuns ==
  ASSUME NEW at \in {"off", "wait", "blocked", "check", "clone", "reset", "notify", "remove",
                     "ending"}
  PROVE  Woken(at) \in {"off", "ending"} <=> at \in {"off", "ending"}
BY DEF Woken

\* A start ends before its thread can be told to stop.
LEMMA StepStarting == TypeOK /\ StartingRun /\ [Next]_vars => StartingRun'
<1> SUFFICES ASSUME TypeOK, StartingRun, [Next]_vars PROVE StartingRun'
  OBVIOUS
<1> USE DEF TypeOK, StartingRun, run, push, owner
<1>1. ASSUME NEW r \in Repeaters, Start(r) PROVE StartingRun'
  BY <1>1 DEF Start, SyncFree
<1>2. ASSUME NEW r \in Repeaters, Register(r) PROVE StartingRun'
  BY <1>2 DEF Register
<1>3. ASSUME NEW r \in Repeaters, SignalToStop(r) PROVE StartingRun'
  BY <1>3 DEF SignalToStop, SyncFree, Woken
<1>4. ASSUME NEW r \in Repeaters, Worker(r) PROVE StartingRun'
  BY <1>4 DEF Worker, WorkerWait, WorkerCheck, WorkerClone, WorkerCloneFails, WorkerReset,
              WorkerNotify, WorkerRemove, WorkerEnds
<1>5. ASSUME NEW p \in Pushers, LookUp(p) \/ PushImage(p) \/ PushImageFails(p)
      PROVE  StartingRun'
  BY <1>5 DEF LookUp, PushImage, PushImageFails, Woken
<1>6. CASE UNCHANGED vars
  BY <1>6 DEF vars
<1> QED BY <1>1, <1>2, <1>3, <1>4, <1>5, <1>6 DEF Next

\* Starting, registering and ending are the only steps that change who is registered or who
\* runs, and each keeps both halves; the rest changes neither.
LEMMA StepRegistry ==
  TypeOK /\ RegisteredRun /\ RunningAreRegistered /\ StartingRun /\ [Next]_vars
    => (RegisteredRun /\ RunningAreRegistered)'
<1> SUFFICES ASSUME TypeOK, RegisteredRun, RunningAreRegistered, StartingRun, [Next]_vars
             PROVE  (RegisteredRun /\ RunningAreRegistered)'
  OBVIOUS
<1> DEFINE Over(at) == at \in {"off", "ending"}
           Quiet == /\ UNCHANGED <<repeaterId, registry, starting>>
                    /\ \A r \in Repeaters : Over(worker'[r]) <=> Over(worker[r])
<1>1. Quiet => (RegisteredRun /\ RunningAreRegistered)'
  BY DEF TypeOK, RegisteredRun, RunningAreRegistered
<1>2. ASSUME NEW r \in Repeaters, Start(r) PROVE (RegisteredRun /\ RunningAreRegistered)'
  <2>1. CASE UNCHANGED <<worker, starting>>
    BY <1>1, <1>2, <2>1 DEF Start
  <2>2. CASE /\ ~IsRunning(r) /\ worker' = [worker EXCEPT ![r] = "wait"]
             /\ starting' = starting \cup {r}
    BY <1>2, <2>2 DEF Start, IsRunning, TypeOK, RegisteredRun, RunningAreRegistered
  <2> QED BY <1>2, <2>1, <2>2 DEF Start
<1>3. ASSUME NEW r \in Repeaters, Register(r) PROVE (RegisteredRun /\ RunningAreRegistered)'
  BY <1>3 DEF Register, run, TypeOK, RegisteredRun, RunningAreRegistered, StartingRun
<1>4. ASSUME NEW r \in Repeaters, SignalToStop(r) PROVE Quiet
  BY <1>4, WokenRuns DEF SignalToStop, TypeOK, push, owner
<1>5. ASSUME NEW r \in Repeaters, WorkerRemove(r)
      PROVE  (RegisteredRun /\ RunningAreRegistered)'
  BY <1>5, RepeatersAssumption
  DEF RepeatersAssumption, WorkerRemove, TypeOK, RegisteredRun, RunningAreRegistered, owner
<1>6. ASSUME NEW r \in Repeaters, Worker(r), ~WorkerRemove(r) PROVE Quiet
  BY <1>6 DEF Worker, WorkerWait, WorkerCheck, WorkerClone, WorkerCloneFails, WorkerReset,
              WorkerNotify, WorkerEnds, TypeOK, owner
<1>7. ASSUME NEW p \in Pushers, LookUp(p) PROVE Quiet
  BY <1>7 DEF LookUp, run, owner
<1>8. ASSUME NEW p \in Pushers, PushImage(p) PROVE Quiet
  BY <1>8, WokenRuns, RepeatersAssumption DEF RepeatersAssumption, PushImage, TypeOK, owner
<1>9. ASSUME NEW p \in Pushers, PushImageFails(p) PROVE Quiet
  BY <1>9 DEF PushImageFails, run, owner
<1>10. CASE UNCHANGED vars
  BY <1>1, <1>10 DEF vars, run, owner
<1> QED BY <1>1, <1>2, <1>3, <1>4, <1>5, <1>6, <1>7, <1>8, <1>9, <1>10 DEF Next

\* All four are invariants.
LEMMA Invariance == Spec => [](TypeOK /\ RegisteredRun /\ RunningAreRegistered /\ StartingRun)
<1> QED BY InitInv, StepTypeOK, StepStarting, StepRegistry, PTL DEF Spec

\* The variables keep their types; a client is never given null.
THEOREM RepeaterTypes == Spec => []TypeOK
<1> QED BY Invariance, PTL

\* However many repeaters start, stop and share identifiers, and however a stop meets a start
\* under way, a push plug-in finds only running ones, and finds those whose identifier is
\* their own once they are started.
THEOREM RegistryTellsWhoRuns == Spec => []RegistryIsAccurate
<1>1. TypeOK /\ RegisteredRun /\ RunningAreRegistered => RegistryIsAccurate
  BY DEF RegisteredRun, RunningAreRegistered, RegistryIsAccurate
<1> QED BY <1>1, Invariance, PTL

-----------------------------------------------------------------------------
(* What the client of a repeater is given.                                 *)

\* The image kept is the one pushed last; what was cloned and what was sent is not newer, and
\* what was sent is not newer than what is there to be sent.
FrameInv ==
  \A r \in Repeaters :
    /\ pushedImage[r] \in {0, pushed[r]}
    /\ sent[r] <= pushed[r]
    /\ notifiedImage[r] # 0 => sent[r] <= notifiedImage[r] /\ notifiedImage[r] <= pushed[r]

\* Steps that do not touch images.
Still == UNCHANGED <<pushed, pushedImage, notifiedImage, sent>>

LEMMA OthersAreStill ==
  ASSUME [Next]_vars
  PROVE  \/ Still
         \/ \E r \in Repeaters : WorkerClone(r) \/ WorkerCloneFails(r) \/ WorkerNotify(r)
         \/ \E p \in Pushers : PushImage(p) \/ PushImageFails(p)
<1> USE DEF Still, run, frame, push
<1>1. CASE UNCHANGED vars
  BY <1>1 DEF vars
<1>2. ASSUME NEW r \in Repeaters, Start(r) \/ Register(r) \/ SignalToStop(r) PROVE Still
  BY <1>2 DEF Start, Register, SignalToStop
<1>3. ASSUME NEW r \in Repeaters, Worker(r)
      PROVE  Still \/ WorkerClone(r) \/ WorkerCloneFails(r) \/ WorkerNotify(r)
  BY <1>3 DEF Worker, WorkerWait, WorkerCheck, WorkerReset, WorkerRemove, WorkerEnds
<1>4. ASSUME NEW p \in Pushers, LookUp(p) PROVE Still
  BY <1>4 DEF LookUp
<1> QED BY <1>1, <1>2, <1>3, <1>4 DEF Next

LEMMA FrameNext == ASSUME TypeOK, FrameInv, [Next]_vars PROVE FrameInv'
<1> USE DEF TypeOK
<1>1. CASE Still
  BY <1>1 DEF Still, FrameInv
<1>2. ASSUME NEW r \in Repeaters, WorkerClone(r) PROVE FrameInv'
  BY <1>2 DEF WorkerClone, FrameInv, push
<1>3. ASSUME NEW r \in Repeaters, WorkerCloneFails(r) PROVE FrameInv'
  BY <1>3 DEF WorkerCloneFails, FrameInv, push
<1>4. ASSUME NEW r \in Repeaters, WorkerNotify(r) PROVE FrameInv'
  BY <1>4 DEF WorkerNotify, FrameInv, push
<1>5. ASSUME NEW p \in Pushers, PushImage(p) PROVE FrameInv'
  <2>1. target[p] \in Repeaters
    BY <1>5, RepeatersAssumption DEF RepeatersAssumption, PushImage
  <2> QED BY <1>5, <2>1 DEF PushImage, FrameInv
<1>6. ASSUME NEW p \in Pushers, PushImageFails(p) PROVE FrameInv'
  BY <1>6 DEF PushImageFails, FrameInv
<1> QED BY <1>1, <1>2, <1>3, <1>4, <1>5, <1>6, OthersAreStill

LEMMA FrameAlways == Spec => [](TypeOK /\ FrameInv)
<1>1. Init => FrameInv
  <2> SUFFICES ASSUME Init PROVE FrameInv
    OBVIOUS
  <2>1. \A r \in Repeaters :
          pushed[r] = 0 /\ pushedImage[r] = 0 /\ sent[r] = 0 /\ notifiedImage[r] = 0
    BY DEF Init
  <2>2. \A r \in Repeaters :
          pushedImage[r] \in {0, pushed[r]} /\ ~(notifiedImage[r] # 0)
    BY <2>1
  <2>3. \A r \in Repeaters : sent[r] <= pushed[r]
    <3>1. ASSUME NEW r \in Repeaters PROVE sent[r] <= pushed[r]
      <4>1. sent[r] = 0 /\ pushed[r] = 0
        BY <2>1
      <4>2. 0 <= 0
        OBVIOUS
      <4> QED BY <4>1, <4>2
    <3> QED BY <3>1
  <2> QED BY <2>2, <2>3 DEF FrameInv
<1>2. TypeOK /\ FrameInv /\ [Next]_vars => FrameInv'
  BY FrameNext
<1> QED BY <1>1, <1>2, Invariance, PTL DEF Spec

\* A push is an offer, cloning stores the latest or loses it, and notifying delivers it.
LEMMA PlaceStep ==
  ASSUME TypeOK, FrameInv, [Next]_vars, NEW r \in Repeaters
  PROVE  [Place(r)!Next \/ Place(r)!Lose]_(Place(r)!vars)
<1> USE DEF TypeOK, Place!vars, Place!Next, Place!Offer, Place!Store, Place!Deliver, Place!Lose
<1>1. CASE Still
  BY <1>1 DEF Still
<1>2. ASSUME NEW q \in Repeaters, WorkerClone(q) \/ WorkerCloneFails(q)
      PROVE  [Place(r)!Next \/ Place(r)!Lose]_(Place(r)!vars)
  BY <1>2 DEF WorkerClone, WorkerCloneFails, FrameInv, push
<1>3. ASSUME NEW q \in Repeaters, WorkerNotify(q)
      PROVE  [Place(r)!Next \/ Place(r)!Lose]_(Place(r)!vars)
  BY <1>3 DEF WorkerNotify, push
<1>4. ASSUME NEW p \in Pushers, PushImage(p) \/ PushImageFails(p)
      PROVE  [Place(r)!Next \/ Place(r)!Lose]_(Place(r)!vars)
  BY <1>4 DEF PushImage, PushImageFails
<1> QED BY <1>1, <1>2, <1>3, <1>4, OthersAreStill

\* Each repeater is a place for the latest of the images pushed to it, however often it is
\* started and stopped and whoever else has its identifier: images are skipped or sent again,
\* but an image that was replaced before it was cloned is never sent.
THEOREM RepeaterImplementsPlace == Spec => RepeatsLatest
<1>1. ASSUME NEW r \in Repeaters PROVE Spec => Place(r)!LossySpec
  <2>1. Init => Place(r)!Init
    BY DEF Init, Place!Init
  <2>2. TypeOK /\ FrameInv /\ [Next]_vars => [Place(r)!Next \/ Place(r)!Lose]_(Place(r)!vars)
    BY PlaceStep
  <2> QED BY <2>1, <2>2, FrameAlways, PTL DEF Spec, Place!LossySpec
<1> QED BY <1>1 DEF RepeatsLatest

\* The client of a repeater never gets an image older than one it was given.
THEOREM RepeatsInOrder == Spec => [][\A r \in Repeaters : sent'[r] >= sent[r]]_vars
<1>1. ASSUME TypeOK, FrameInv, [Next]_vars
      PROVE  [\A r \in Repeaters : sent'[r] >= sent[r]]_vars
  <2> SUFFICES ASSUME NEW r \in Repeaters PROVE sent'[r] >= sent[r]
    OBVIOUS
  <2>1. CASE \E q \in Repeaters : WorkerNotify(q)
    BY <1>1, <2>1 DEF WorkerNotify, FrameInv, TypeOK
  <2>2. CASE sent' = sent
    BY <1>1, <2>2 DEF TypeOK
  <2>3. \/ sent' = sent
        \/ \E q \in Repeaters : WorkerNotify(q)
    BY <1>1, OthersAreStill DEF Still, WorkerClone, WorkerCloneFails, PushImage, PushImageFails
  <2> QED BY <2>1, <2>2, <2>3
<1> QED BY <1>1, FrameAlways, PTL DEF Spec

=============================================================================
