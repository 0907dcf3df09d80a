----------------------- MODULE RaspberryPiCamera_proofs -----------------------
(***************************************************************************)
(* For any number of commands, starts and retries: no command and no       *)
(* wake-up is lost by the commands thread, whoever uses it; the camera's   *)
(* plug-in is one that does; nobody is in its handlers once it has been    *)
(* unsubscribed; and the requests it makes are within a budget of so many  *)
(* per start, as no version is asked for again more than MaxRetries times. *)
(***************************************************************************)
EXTENDS RaspberryPiCamera, SequenceTheorems, TLAPS

UnderWay == worker \in {"perform", "request", "done"}
Resumes  == worker = "inError" /\ resume \in {"request", "done"}

\* Identifiers are given out in the order of the queue.
QueueInv == \A i \in DOMAIN queue : queue[i].id \in 1..counter

\* What is known of a command that is under way: it is one, it is not settled until an error is
\* detected, and what the listener was told of it is that error only.
CurrentInv ==
  /\ UnderWay \/ Resumes => current # 0 /\ told \subseteq {"error"}
  /\ UnderWay /\ ~failed => told = {} /\ current \notin settled
  /\ UnderWay /\ failed => current \in settled /\ worker # "perform"
  /\ Resumes => failed /\ current \in settled
  /\ worker = "inCompletion" => resume = "test"

HttpInv ==
  HttpTypeOK /\ QueueInv /\ InOrder /\ CurrentInv /\ QueuedIsSignalled /\ EveryCommandIsAccounted

USE CommandsAssumption DEF CommandsAssumption, events, thread, outcome

\* What a signal does to the thread, and when it is called.
LEMMA WokenStays ==
  ASSUME HttpTypeOK
  PROVE  /\ Woken \in {"off", "init", "test", "wait", "blocked", "pop", "perform", "request",
                       "done", "inError", "inCompletion"}
         /\ Woken # "blocked"
         /\ worker # "blocked" => Woken = worker
         /\ worker = "blocked" => Woken = "pop"
BY DEF Woken, HttpTypeOK

\* The initial state.
LEMMA HttpInitInv == HttpInit => HttpInv
<1> SUFFICES ASSUME HttpInit PROVE HttpInv
  OBVIOUS
<1>1. HttpTypeOK
  <2>1. queue \in Seq(Command)
    BY EmptySeq DEF HttpInit
  <2>2. counter \in 0..MaxCommands /\ current \in 0..counter
    BY DEF HttpInit
  <2> QED BY <2>1, <2>2 DEF HttpInit, HttpTypeOK
<1>2. QueueInv /\ InOrder /\ QueuedIsSignalled
  BY DEF HttpInit, QueueInv, InOrder, QueuedIsSignalled
<1>3. CurrentInv /\ EveryCommandIsAccounted
  BY DEF HttpInit, CurrentInv, UnderWay, Resumes, EveryCommandIsAccounted
<1> QED BY <1>1, <1>2, <1>3 DEF HttpInv

\* What Append does to the queue.
LEMMA AppendFacts ==
  ASSUME HttpTypeOK, NEW url \in Urls, Enqueue(url)
  PROVE  /\ queue' \in Seq(Command) /\ queue' # <<>>
         /\ DOMAIN queue = 1..Len(queue) /\ Len(queue) \in Nat
         /\ DOMAIN queue' = 1..(Len(queue) + 1)
         /\ \A i \in 1..Len(queue) : queue'[i] = queue[i]
         /\ queue'[Len(queue) + 1].id = counter + 1
         /\ counter' = counter + 1 /\ counter' \in 1..MaxCommands /\ counter \in Nat
<1>1. [id |-> counter', url |-> url] \in Command
  BY DEF HttpTypeOK, Enqueue, Command
<1> QED BY <1>1 DEF HttpTypeOK, Enqueue

\* What Head and Tail take from it.
LEMMA TailFacts ==
  ASSUME HttpTypeOK, WorkerPop, queue # <<>>
  PROVE  /\ queue' \in Seq(Command)
         /\ DOMAIN queue = 1..Len(queue) /\ Len(queue) \in Nat \ {0}
         /\ DOMAIN queue' = 1..(Len(queue) - 1)
         /\ \A i \in 1..(Len(queue) - 1) : queue'[i] = queue[i + 1]
         /\ Head(queue) = queue[1] /\ current' = queue[1].id
BY DEF HttpTypeOK, WorkerPop

LEMMA EnqueueInv == ASSUME HttpInv, NEW url \in Urls, Enqueue(url) PROVE HttpInv'
<1> USE WokenStays, AppendFacts DEF HttpInv
<1>1. HttpTypeOK'
  BY DEF HttpTypeOK, Enqueue
<1>2. QueueInv'
  BY DEF QueueInv, HttpTypeOK, Enqueue
<1>3. InOrder'
  <2>1. \A i \in DOMAIN queue' : current' < queue'[i].id /\ queue'[i].id \notin settled'
    BY DEF InOrder, HttpTypeOK, Enqueue
  <2>2. ASSUME NEW i \in DOMAIN queue', NEW j \in DOMAIN queue', i < j
        PROVE  queue'[i].id < queue'[j].id
    <3>1. i \in 1..Len(queue)
      BY <2>2
    <3>2. CASE j = Len(queue) + 1
      BY <3>1, <3>2 DEF QueueInv
    <3>3. CASE j \in 1..Len(queue)
      BY <2>2, <3>1, <3>3 DEF InOrder
    <3> QED BY <3>2, <3>3
  <2> QED BY <2>1, <2>2 DEF InOrder
<1>4. CurrentInv'
  BY DEF CurrentInv, UnderWay, Resumes, Enqueue
<1>5. QueuedIsSignalled'
  BY DEF QueuedIsSignalled, Enqueue
<1>6. EveryCommandIsAccounted'
  <2> SUFFICES ASSUME NEW id \in 1..(counter + 1)
               PROVE  \/ \E i \in DOMAIN queue' : queue'[i].id = id
                      \/ id \in settled'
                      \/ id = current' /\ worker' \in {"perform", "request", "done"}
    BY DEF EveryCommandIsAccounted
  <2>1. CASE id = counter + 1
    BY <2>1
  <2>2. CASE id \in 1..counter
    BY <2>2 DEF EveryCommandIsAccounted, Enqueue
  <2> QED BY <2>1, <2>2 DEF HttpTypeOK
<1> QED BY <1>1, <1>2, <1>3, <1>4, <1>5, <1>6

\* What others do beside.
LEMMA OtherInv ==
  ASSUME HttpInv,
         \/ HttpStart \/ SignalThread \/ ClearRequestsQueue
         \/ \E isSet \in BOOLEAN : SetListener(isSet)
  PROVE  HttpInv'
<1> USE WokenStays DEF HttpInv, InCallback, IsRunning
<1>1. CASE HttpStart
  BY <1>1 DEF HttpStart, HttpTypeOK, QueueInv, InOrder, CurrentInv, UnderWay, Resumes,
     QueuedIsSignalled, EveryCommandIsAccounted
<1>2. CASE SignalThread
  BY <1>2 DEF SignalThread, HttpTypeOK, QueueInv, InOrder, CurrentInv, UnderWay, Resumes,
     QueuedIsSignalled, EveryCommandIsAccounted
<1>3. CASE ClearRequestsQueue
  <2>1. HttpTypeOK'
    <3>1. queue' \in Seq(Command)
      BY <1>3, EmptySeq DEF ClearRequestsQueue
    <3> QED BY <1>3, <3>1 DEF ClearRequestsQueue, HttpTypeOK, QueueInv
  <2>2. QueueInv' /\ InOrder' /\ QueuedIsSignalled'
    BY <1>3 DEF ClearRequestsQueue, QueueInv, InOrder, QueuedIsSignalled
  <2>3. CurrentInv'
    <3>1. current \notin {queue[i].id : i \in DOMAIN queue}
      BY DEF InOrder, QueueInv, HttpTypeOK
    <3> QED BY <1>3, <3>1 DEF ClearRequestsQueue, CurrentInv, UnderWay, Resumes
  <2>4. EveryCommandIsAccounted'
    BY <1>3 DEF ClearRequestsQueue, EveryCommandIsAccounted
  <2> QED BY <2>1, <2>2, <2>3, <2>4
<1>4. ASSUME NEW isSet \in BOOLEAN, SetListener(isSet) PROVE HttpInv'
  BY <1>4 DEF SetListener, HttpTypeOK, QueueInv, InOrder, CurrentInv, UnderWay, Resumes,
     QueuedIsSignalled, EveryCommandIsAccounted
<1> QED BY <1>1, <1>2, <1>3, <1>4

\* The thread takes the first command.
LEMMA PopInv == ASSUME HttpInv, WorkerPop PROVE HttpInv'
<1> USE DEF HttpInv
<1>1. CASE queue = <<>>
  BY <1>1 DEF WorkerPop, HttpTypeOK, QueueInv, InOrder, CurrentInv, UnderWay, Resumes,
     QueuedIsSignalled, EveryCommandIsAccounted
<1>2. CASE queue # <<>>
  <2> USE <1>2, TailFacts
  <2>1. queue[1].id \in 1..counter /\ 1 \in DOMAIN queue
    BY DEF QueueInv
  <2>2. HttpTypeOK'
    BY <2>1 DEF WorkerPop, HttpTypeOK
  <2>3. QueueInv'
    BY DEF QueueInv, WorkerPop
  <2>4. InOrder'
    <3>1. settled' = settled
      BY DEF WorkerPop
    <3>2. ASSUME NEW i \in DOMAIN queue'
          PROVE  i + 1 \in DOMAIN queue /\ queue'[i] = queue[i + 1] /\ 1 < i + 1
      OBVIOUS
    <3>3. ASSUME NEW i \in DOMAIN queue', NEW j \in DOMAIN queue', i < j PROVE i + 1 < j + 1
      BY <3>3
    <3> QED BY <2>1, <3>1, <3>2, <3>3 DEF InOrder
  <2>5. CurrentInv'
    <3>1. ~failed' /\ worker' = "perform" /\ told' = {} /\ settled' = settled
      BY DEF WorkerPop
    <3>2. current' # 0 /\ current' \notin settled
      BY <2>1 DEF InOrder
    <3> QED BY <3>1, <3>2 DEF CurrentInv, UnderWay, Resumes
  <2>6. QueuedIsSignalled'
    BY DEF QueuedIsSignalled, WorkerPop
  <2>7. EveryCommandIsAccounted'
    <3> SUFFICES ASSUME NEW id \in 1..counter
                 PROVE  \/ \E i \in DOMAIN queue' : queue'[i].id = id
                        \/ id \in settled'
                        \/ id = current' /\ worker' \in {"perform", "request", "done"}
      BY DEF EveryCommandIsAccounted, WorkerPop
    <3>1. CASE id = queue[1].id
      BY <3>1 DEF WorkerPop
    <3>2. ASSUME NEW i \in 2..Len(queue), queue[i].id = id
          PROVE  \E j \in DOMAIN queue' : queue'[j].id = id
      <4>1. i - 1 \in 1..(Len(queue) - 1) /\ queue'[i - 1] = queue[i]
        OBVIOUS
      <4> QED BY <4>1, <3>2
    <3> QED BY <3>1, <3>2 DEF EveryCommandIsAccounted, WorkerPop
  <2> QED BY <2>2, <2>3, <2>4, <2>5, <2>6, <2>7
<1> QED BY <1>1, <1>2

\* What an error changes.
LEMMA NotifyErrorFacts ==
  ASSUME HttpTypeOK, NEW id \in 0..counter, NEW next \in {"off", "test", "request", "done"},
         NotifyError(id, next)
  PROVE  /\ failed' \in BOOLEAN /\ failed'
         /\ told' \subseteq {"error", "completion"} /\ settled' \subseteq 1..counter
         /\ failed => told' = told /\ settled' = settled
         /\ ~failed => /\ told' = told \cup {"error"}
                       /\ id # 0 => id \in settled'
                       /\ \A other \in settled' : other \in settled \/ other = id
         /\ settled \subseteq settled'
         /\ worker' \in {"inError", next} /\ resume' = next
         /\ resume' \in {"off", "test", "request", "done"}
<1>1. failed' = TRUE
  BY DEF NotifyError
<1>2. CASE failed
  BY <1>1, <1>2 DEF NotifyError, HttpTypeOK
<1>3. CASE ~failed
  <2>1. told' = told \cup {"error"} /\ settled' = settled \cup ({id} \ {0})
    BY <1>3 DEF NotifyError
  <2>2. settled' \subseteq 1..counter
    BY <2>1 DEF HttpTypeOK
  <2> QED BY <1>1, <1>3, <2>1, <2>2 DEF NotifyError, HttpTypeOK
<1> QED BY <1>2, <1>3

\* The rest of its steps leave the queue alone.
LEMMA WorkerInv == ASSUME HttpInv, Worker \/ WorkerReturn, ~WorkerPop PROVE HttpInv'
<1> USE NotifyErrorFacts DEF HttpInv
<1>0. UNCHANGED <<queue, counter, commandEvent, exitEvent, listener>>
  BY DEF Worker, WorkerInit, WorkerTest, WorkerWait, WorkerPerform, WorkerRequest, WorkerDone,
     WorkerReturn
<1>1. QueueInv'
  BY <1>0 DEF QueueInv
<1>2. HttpTypeOK'
  <2>1. CASE WorkerInit
    <3>1. CASE worker' = "test" /\ UNCHANGED <<resume, failed, outcome>>
      BY <1>0, <2>1, <3>1 DEF WorkerInit, HttpTypeOK
    <3>2. CASE NotifyError(0, "off")
      <4>1. 0 \in 0..counter
        BY DEF HttpTypeOK
      <4> QED BY <1>0, <2>1, <3>2, <4>1 DEF WorkerInit, HttpTypeOK
    <3> QED BY <2>1, <3>1, <3>2 DEF WorkerInit
  <2>2. CASE WorkerTest
    BY <1>0, <2>2 DEF WorkerTest, HttpTypeOK, CurrentInv, UnderWay
  <2>3. CASE WorkerWait
    BY <1>0, <2>3 DEF WorkerWait, HttpTypeOK, CurrentInv, UnderWay
  <2>4. CASE WorkerPerform
    BY <1>0, <2>4 DEF WorkerPerform, HttpTypeOK, CurrentInv, UnderWay
  <2>5. CASE WorkerRequest
    <3>1. CASE /\ worker' = "test" /\ settled' = settled \cup {current}
               /\ UNCHANGED <<resume, failed, told>>
      BY <1>0, <2>5, <3>1 DEF WorkerRequest, HttpTypeOK, CurrentInv, UnderWay
    <3>2. CASE worker' = "done" /\ UNCHANGED <<resume, failed, outcome>>
      BY <1>0, <2>5, <3>2 DEF WorkerRequest, HttpTypeOK
    <3>3. ASSUME NEW next \in {"request", "done"}, NotifyError(current, next) PROVE HttpTypeOK'
      <4>1. current \in 0..counter /\ current' = current
        BY <2>5 DEF WorkerRequest, HttpTypeOK
      <4> QED BY <1>0, <3>3, <4>1 DEF HttpTypeOK
    <3> QED BY <2>5, <3>1, <3>2, <3>3 DEF WorkerRequest
  <2>6. CASE WorkerDone
    <3>1. current \in 0..counter /\ current # 0 /\ current' = current
      BY <2>6 DEF WorkerDone, HttpTypeOK, CurrentInv, UnderWay
    <3>2. CASE NotifyError(current, "test")
      BY <1>0, <3>1, <3>2 DEF HttpTypeOK
    <3>3. CASE /\ told' = told \cup {"completion"} /\ settled' = settled \cup {current}
               /\ worker' = (IF listener THEN "inCompletion" ELSE "test") /\ resume' = "test"
               /\ failed' = failed
      BY <1>0, <3>1, <3>3 DEF HttpTypeOK
    <3> QED BY <2>6, <3>2, <3>3 DEF WorkerDone
  <2>7. CASE WorkerReturn
    BY <1>0, <2>7 DEF WorkerReturn, HttpTypeOK, CurrentInv, UnderWay
  <2> QED BY <2>1, <2>2, <2>3, <2>4, <2>5, <2>6, <2>7 DEF Worker
<1>3. InOrder'
  BY <1>0 DEF InOrder, HttpTypeOK, QueueInv, Worker, WorkerInit, WorkerTest, WorkerWait,
     WorkerPerform, WorkerRequest, WorkerDone, WorkerReturn, NotifyError
<1>4. CurrentInv'
  <2>1. CASE WorkerInit
    <3>1. CASE worker' = "test"
      BY <3>1 DEF CurrentInv, UnderWay, Resumes
    <3>2. CASE NotifyError(0, "off")
      <4>1. worker' \in {"inError", "off"} /\ resume' = "off"
        BY <3>2 DEF NotifyError
      <4> QED BY <4>1 DEF CurrentInv, UnderWay, Resumes
    <3> QED BY <2>1, <3>1, <3>2 DEF WorkerInit
  <2>2. CASE WorkerTest
    <3>1. worker' \in {"off", "wait"}
      BY <2>2 DEF WorkerTest
    <3> QED BY <3>1 DEF CurrentInv, UnderWay, Resumes
  <2>3. CASE WorkerWait
    <3>1. worker' \in {"pop", "blocked"}
      BY <2>3 DEF WorkerWait
    <3> QED BY <3>1 DEF CurrentInv, UnderWay, Resumes
  <2>4. CASE WorkerPerform
    <3>1. CASE worker' = "request" /\ UNCHANGED <<resume, failed, outcome>>
      BY <2>4, <3>1 DEF WorkerPerform, CurrentInv, UnderWay, Resumes
    <3>2. CASE NotifyError(current, "test")
      <4>1. worker' \in {"inError", "test"} /\ resume' = "test"
        BY <3>2 DEF NotifyError
      <4> QED BY <4>1 DEF CurrentInv, UnderWay, Resumes
    <3> QED BY <2>4, <3>1, <3>2 DEF WorkerPerform
  <2>5. CASE WorkerRequest
    <3>1. CASE worker' = "test"
      BY <3>1 DEF CurrentInv, UnderWay, Resumes
    <3>2. CASE worker' = "done" /\ UNCHANGED <<resume, failed, outcome>>
      BY <2>5, <3>2 DEF WorkerRequest, CurrentInv, UnderWay, Resumes
    <3>3. ASSUME NEW next \in {"request", "done"}, ~failed, NotifyError(current, next)
          PROVE  CurrentInv'
      <4>1. current \in 0..counter /\ current' = current /\ current # 0 /\ told = {}
        BY <2>5, <3>3 DEF WorkerRequest, HttpTypeOK, CurrentInv, UnderWay
      <4>2. worker' \in {"inError", next} /\ failed' /\ told' = {"error"} /\ current \in settled'
        BY <3>3, <4>1
      <4> QED BY <4>1, <4>2 DEF CurrentInv, UnderWay, Resumes
    <3> QED BY <2>5, <3>1, <3>2, <3>3 DEF WorkerRequest
  <2>6. CASE WorkerDone
    BY <1>0, <2>6 DEF WorkerDone, CurrentInv, HttpTypeOK, UnderWay, Resumes, InCallback
  <2>7. CASE WorkerReturn
    BY <1>0, <2>7 DEF WorkerReturn, CurrentInv, HttpTypeOK, UnderWay, Resumes, InCallback
  <2> QED BY <2>1, <2>2, <2>3, <2>4, <2>5, <2>6, <2>7 DEF Worker
<1>5. QueuedIsSignalled'
  BY <1>0 DEF QueuedIsSignalled, HttpTypeOK, Worker, WorkerInit, WorkerTest, WorkerWait,
     WorkerPerform, WorkerRequest, WorkerDone, WorkerReturn, NotifyError, InCallback
<1>6. EveryCommandIsAccounted'
  BY <1>0 DEF EveryCommandIsAccounted, CurrentInv, UnderWay, Resumes, InCallback, Worker,
     WorkerInit, WorkerTest, WorkerWait, WorkerPerform, WorkerRequest, WorkerDone, WorkerReturn,
     NotifyError
<1> QED BY <1>1, <1>2, <1>3, <1>4, <1>5, <1>6

\* Every step of the commands thread, or of those who use it, keeps the invariant.
LEMMA HttpNextInv == HttpInv /\ [HttpNext]_httpVars => HttpInv'
<1> SUFFICES ASSUME HttpInv, [HttpNext]_httpVars PROVE HttpInv'
  OBVIOUS
<1>1. CASE UNCHANGED httpVars
  BY <1>1 DEF httpVars, HttpInv, HttpTypeOK, QueueInv, InOrder, CurrentInv, UnderWay, Resumes,
     QueuedIsSignalled, EveryCommandIsAccounted
<1>2. CASE HttpNext
  BY <1>2, OtherInv, EnqueueInv, PopInv, WorkerInv DEF HttpNext
<1> QED BY <1>1, <1>2

LEMMA HttpAlways == HttpSpec => []HttpInv
BY HttpInitInv, HttpNextInv, PTL DEF HttpSpec

\* The variables of the commands thread have their types.
THEOREM CommandsThreadTypes == HttpSpec => []HttpTypeOK
BY HttpAlways, PTL DEF HttpInv

\* CommandEvent is signalled as long as there are commands, so the thread never sleeps over
\* one: the reset when the queue is empty is under the mutex of the queue.
THEOREM NoWakeUpIsLost == HttpSpec => []QueuedIsSignalled
BY HttpAlways, PTL DEF HttpInv

\* Commands are sent in the order they were queued in.
THEOREM CommandsKeepTheirOrder == HttpSpec => []InOrder
BY HttpAlways, PTL DEF HttpInv

\* Every identifier EnqueueGetRequest or EnqueuePostRequest has returned is accounted for.
THEOREM NoCommandIsLost == HttpSpec => []EveryCommandIsAccounted
BY HttpAlways, PTL DEF HttpInv

\* FailureDetected keeps the listener from being told of a command's second error.
THEOREM NoReportIsRepeated == HttpSpec => ReportedOnce
<1>1. ASSUME HttpInv, HttpNext
      PROVE  /\ worker # "inError" /\ worker' = "inError" /\ current' # 0 => told = {}
             /\ worker # "inCompletion" /\ worker' = "inCompletion" => "completion" \notin told
  <2> USE <1>1 DEF HttpInv
  <2> DEFINE Quiet == worker' = worker \/ worker' \notin {"inError", "inCompletion"}
  <2>1. CASE HttpStart \/ SignalThread \/ ClearRequestsQueue
    <3>1. Quiet
      BY <2>1, WokenStays DEF HttpStart, SignalThread, ClearRequestsQueue
    <3> QED BY <3>1
  <2>2. ASSUME NEW isSet \in BOOLEAN, SetListener(isSet) PROVE Quiet
    BY <2>2 DEF SetListener
  <2>3. ASSUME NEW url \in Urls, Enqueue(url) PROVE Quiet
    BY <2>3, WokenStays DEF Enqueue
  <2>4. CASE WorkerInit \/ WorkerTest \/ WorkerWait \/ WorkerPop
    <3>1. Quiet \/ (worker' = "inError" /\ current' = 0)
      BY <2>4 DEF WorkerInit, WorkerTest, WorkerWait, WorkerPop, NotifyError
    <3> QED BY <3>1
  <2>5. CASE WorkerPerform \/ WorkerRequest \/ WorkerDone
    <3>1. UnderWay /\ told \subseteq {"error"} /\ (~failed => told = {})
      BY <2>5 DEF WorkerPerform, WorkerRequest, WorkerDone, UnderWay, CurrentInv
    <3>2. worker' = "inError" => ~failed
      BY <2>5, <3>1 DEF WorkerPerform, WorkerRequest, WorkerDone, NotifyError, UnderWay
    <3> QED BY <3>1, <3>2
  <2>6. CASE WorkerReturn
    <3>1. Quiet
      BY <2>6 DEF WorkerReturn, HttpTypeOK
    <3> QED BY <3>1
  <2> QED BY <1>1, <2>1, <2>2, <2>3, <2>4, <2>5, <2>6 DEF HttpNext, Worker
<1>2. ASSUME HttpInv, [HttpNext]_httpVars
      PROVE  [/\ worker # "inError" /\ worker' = "inError" /\ current' # 0 => told = {}
              /\ worker # "inCompletion" /\ worker' = "inCompletion" => "completion" \notin told
             ]_httpVars
  BY <1>1, <1>2
<1> QED BY <1>2, HttpAlways, PTL DEF HttpSpec, ReportedOnce

-----------------------------------------------------------------------------
(* The plug-in.                                                            *)

\* The owner's steps.
LEMMA OwnerUsesThread == ASSUME Owner \/ StartLock PROVE [HttpNext]_httpVars
<1>1. CASE Subscribe \/ Unsubscribe
  BY <1>1 DEF Subscribe, Unsubscribe, HttpNext
<1>2. CASE StartLock \/ StartThread
  BY <1>2 DEF StartLock, StartThread, HttpNext
<1>3. CASE EnqueueVersion \/ ApplyCurrentConfiguration
  BY <1>3, CameraAssumption
     DEF CameraAssumption, EnqueueVersion, ApplyCurrentConfiguration, HttpNext
<1>4. CASE StartDeviceFails \/ Signal \/ WaitSignal
  BY <1>4 DEF StartDeviceFails, Signal, WaitSignal, HttpNext
<1>5. CASE \/ AssignVersionId \/ StartDevice \/ UnsubscribeLock \/ SignalLock \/ Finalized
           \/ WaitLock \/ JoinDevice \/ JoinThread \/ Reuse
  BY <1>5 DEF AssignVersionId, StartDevice, UnsubscribeLock, SignalLock, Finalized, WaitLock,
     JoinDevice, JoinThread, Reuse
<1> QED BY <1>1, <1>2, <1>3, <1>4, <1>5 DEF Owner

LEMMA CameraStep == ASSUME [CameraNext]_cameraVars PROVE [HttpNext]_httpVars
<1> USE CameraAssumption DEF CameraAssumption
<1>1. CASE UNCHANGED cameraVars
  BY <1>1 DEF cameraVars
<1>2. CASE Owner \/ StartLock
  BY <1>2, OwnerUsesThread
<1>3. CASE SetPropertyLock \/ SetProperty \/ DeviceEnds
  BY <1>3 DEF SetPropertyLock, SetProperty, DeviceEnds, HttpNext
<1>4. CASE Listener
  BY <1>4 DEF Listener, RetryVersion, ReadAnswer, StopFakeCamera, ListenerReturns, HttpNext
<1>5. CASE CommandsThread
  BY <1>5 DEF CommandsThread, HttpNext
<1> QED BY <1>1, <1>2, <1>3, <1>4, <1>5 DEF CameraNext

\* The plug-in uses the commands thread by its methods only, so all that is proved of the
\* thread holds in the plug-in.
THEOREM CameraUsesCommandsThread == CameraSpec => HttpSpec
<1>1. CameraInit => HttpInit
  BY DEF CameraInit
<1>2. [CameraNext]_cameraVars => [HttpNext]_httpVars
  BY CameraStep
<1> QED BY <1>1, <1>2, PTL DEF CameraSpec, HttpSpec

\* When nobody is subscribed: the listener of the thread is not set, and it is not inside.
QuietInv ==
  /\ ~InCallback => verdict = "open"
  /\ owner \in {"unsubscribed", "signalling", "finalizing", "joinDevice", "waitSignal",
                "joinThread", "joined", "new", "destroyed"} => ~listener /\ ~InCallback

LEMMA QuietInit == CameraInit => QuietInv
BY DEF CameraInit, HttpInit, QuietInv, InCallback

LEMMA QuietNext == ASSUME QuietInv, [CameraNext]_cameraVars PROVE QuietInv'
<1> USE DEF QuietInv, InCallback, IsRunning, Woken, Lock, Unlock, Go
<1>1. CASE UNCHANGED cameraVars
  BY <1>1 DEF cameraVars, httpVars, plugin
<1>2. CASE StartLock \/ Subscribe \/ StartThread
  BY <1>2 DEF StartLock, ClearRequestsQueue, Subscribe, SetListener, StartThread, HttpStart
<1>3. CASE EnqueueVersion \/ AssignVersionId \/ ApplyCurrentConfiguration
  BY <1>3 DEF EnqueueVersion, AssignVersionId, ApplyCurrentConfiguration, Enqueue, httpVars
<1>4. CASE StartDevice \/ StartDeviceFails \/ UnsubscribeLock \/ Unsubscribe
  BY <1>4 DEF StartDevice, StartDeviceFails, SignalThread, UnsubscribeLock, Unsubscribe,
     SetListener, httpVars
<1>5. CASE SignalLock \/ Signal \/ Finalized \/ WaitLock \/ JoinDevice
  BY <1>5 DEF SignalLock, Signal, SignalThread, Finalized, WaitLock, JoinDevice, httpVars
<1>6. CASE WaitSignal \/ JoinThread \/ Reuse
  BY <1>6 DEF WaitSignal, SignalThread, JoinThread, Reuse, httpVars
<1>7. CASE SetPropertyLock \/ SetProperty \/ DeviceEnds
  BY <1>7 DEF SetPropertyLock, SetProperty, Enqueue, DeviceEnds, httpVars
<1>8. CASE Listener
  BY <1>8 DEF Listener, RetryVersion, Enqueue, ReadAnswer, StopFakeCamera, SignalThread,
     ListenerReturns, WorkerReturn, plugin, httpVars
<1>9. CASE CommandsThread
  BY <1>9 DEF CommandsThread, Worker, WorkerInit, WorkerTest, WorkerWait, WorkerPop,
     WorkerPerform, WorkerRequest, WorkerDone, NotifyError, plugin
<1> QED BY <1>1, <1>2, <1>3, <1>4, <1>5, <1>6, <1>7, <1>8, <1>9 DEF CameraNext, Owner

\* Once SetCallbacks has unsubscribed the caller, no handler of the plug-in runs.
THEOREM UnsubscribedStaysQuiet == CameraSpec => []UnsubscribedIsQuiet
<1>1. QuietInv => UnsubscribedIsQuiet
  BY DEF QuietInv, UnsubscribedIsQuiet
<1>2. QuietInv /\ [CameraNext]_cameraVars => QuietInv'
  BY QuietNext
<1> QED BY <1>1, <1>2, QuietInit, PTL DEF CameraSpec

-----------------------------------------------------------------------------
(* How often the version is asked for.                                     *)

\* The thread is gone or about to be: it reports that it could not be set up.
GivesUp == worker = "inError" /\ resume = "off"
Dying   == worker = "off" \/ GivesUp

\* The version is asked for again next, or may be later.
Retriable  == worker = "inError" /\ verdict = "open" /\ AboutVersion
Queued(id) == \E i \in DOMAIN queue : queue[i].id = id
Open ==
  \/ Retriable
  \/ ~Dying /\ (Queued(versionId) \/ (UnderWay /\ AboutVersion /\ ~failed))

\* Start is between its request for the version and taking note of it, or before.
Early == owner \in {"version", "assign"}

\* What was queued or is under way came after the request that was noted.
Later ==
  /\ \A i \in DOMAIN queue : queue[i].id > versionId
  /\ UnderWay \/ InCallback => current > versionId

PluginTypeOK ==
  /\ pluginSync \in {"none", "owner", "setter"}
  /\ owner \in Holding \cup {"new", "ready", "running", "unsubscribed", "finalizing", "joined",
                             "destroyed"}
  /\ pluginSync = "owner" <=> owner \in Holding
  /\ device \in {"none", "running", "stopping", "off"}
  /\ versionId \in 0..counter /\ returned \in 0..counter
  /\ versionCounter \in Nat
  /\ verdict \in {"open", "fake", "done"}
  /\ starts \in 0..MaxStarts /\ settings \in 0..MaxSettings

\* A plug-in that is not started has no thread, and starts with nothing queued.
LifeInv ==
  /\ owner \in {"joined", "new", "ready", "starting"} => worker = "off"
  /\ owner = "starting" => queue = <<>>
  /\ GivesUp => current = 0

\* After the last retry there is nothing left that another could follow; a request that is not
\* noted yet has not been retried by a thread that goes on.
VersionInv ==
  /\ versionCounter <= MaxRetries \/ (versionCounter = MaxRetries + 1 /\ ~Open)
  /\ owner = "assign" => returned >= 1 /\ (versionCounter = 0 \/ (Dying /\ ~Retriable))
  /\ Early /\ ~Dying => Later
  /\ versionId = 0 => (worker = "off" \/ Early) /\ (versionCounter = 0 \/ (Early /\ Dying))

\* A step that does not bring a retry of the version nearer.
Still ==
  /\ UNCHANGED version
  /\ owner' = owner \/ {owner, owner'} \cap {"starting", "version", "assign"} = {}
  /\ Dying => Dying' /\ (Retriable' => Retriable)
  /\ Open' => Open \/ (versionId = 0 /\ ~Dying)
  /\ Later /\ ~Dying' => Later'
  /\ worker = "off" => worker' = "off"

LEMMA PluginTypes == ASSUME HttpTypeOK, PluginTypeOK, [CameraNext]_cameraVars PROVE PluginTypeOK'
<1> USE CameraAssumption DEF CameraAssumption, PluginTypeOK, HttpTypeOK, Holding, Lock, Unlock, Go,
        plugin, version, bounds
<1>1. CASE UNCHANGED cameraVars
  BY <1>1 DEF cameraVars, httpVars
<1>2. CASE StartLock \/ Subscribe
  BY <1>2 DEF StartLock, ClearRequestsQueue, Subscribe, SetListener
<1>3. CASE StartThread
  BY <1>3 DEF StartThread, HttpStart
<1>4. CASE EnqueueVersion \/ ApplyCurrentConfiguration
  BY <1>4 DEF EnqueueVersion, ApplyCurrentConfiguration, Enqueue
<1>5. CASE AssignVersionId \/ StartDevice \/ StartDeviceFails \/ UnsubscribeLock \/ Unsubscribe
  BY <1>5 DEF AssignVersionId, StartDevice, StartDeviceFails, SignalThread, UnsubscribeLock,
     Unsubscribe, SetListener, httpVars
<1>6. CASE SignalLock \/ Signal \/ Finalized \/ WaitLock \/ JoinDevice
  BY <1>6 DEF SignalLock, Signal, SignalThread, Finalized, WaitLock, JoinDevice, Told, httpVars
<1>7. CASE WaitSignal \/ JoinThread \/ Reuse
  BY <1>7 DEF WaitSignal, SignalThread, JoinThread, Reuse, httpVars
<1>8. CASE SetPropertyLock \/ SetProperty \/ DeviceEnds
  BY <1>8 DEF SetPropertyLock, SetProperty, Enqueue, DeviceEnds, httpVars
<1>9. CASE RetryVersion
  BY <1>9 DEF RetryVersion, Enqueue, httpVars
<1>10. CASE ReadAnswer \/ StopFakeCamera \/ ListenerReturns
  BY <1>10 DEF ReadAnswer, StopFakeCamera, SignalThread, ListenerReturns, WorkerReturn, Told,
     httpVars
<1>11. CASE CommandsThread
  <2>1. counter' = counter
    BY <1>11 DEF CommandsThread, Worker, WorkerInit, WorkerTest, WorkerWait, WorkerPop,
       WorkerPerform, WorkerRequest, WorkerDone
  <2> QED
    BY <1>11, <2>1 DEF CommandsThread
<1> QED
  BY <1>1, <1>2, <1>3, <1>4, <1>5, <1>6, <1>7, <1>8, <1>9, <1>10, <1>11
     DEF CameraNext, Owner, Listener

LEMMA LifeNext == ASSUME HttpInv, PluginTypeOK, LifeInv, [CameraNext]_cameraVars PROVE LifeInv'
<1> USE DEF LifeInv, GivesUp, InCallback, IsRunning, Woken, Lock, Unlock, Go, plugin
<1>1. CASE UNCHANGED cameraVars
  BY <1>1 DEF cameraVars, httpVars
<1>2. CASE StartLock \/ Subscribe
  BY <1>2 DEF StartLock, ClearRequestsQueue, Subscribe, SetListener
<1>3. CASE StartThread
  BY <1>3 DEF StartThread, HttpStart
<1>4. CASE EnqueueVersion \/ ApplyCurrentConfiguration
  BY <1>4 DEF EnqueueVersion, ApplyCurrentConfiguration, Enqueue
<1>5. CASE AssignVersionId \/ StartDevice \/ StartDeviceFails \/ UnsubscribeLock \/ Unsubscribe
  BY <1>5 DEF AssignVersionId, StartDevice, StartDeviceFails, SignalThread, UnsubscribeLock,
     Unsubscribe, SetListener, httpVars
<1>6. CASE SignalLock \/ Signal \/ Finalized \/ WaitLock \/ JoinDevice
  BY <1>6 DEF SignalLock, Signal, SignalThread, Finalized, WaitLock, JoinDevice, Told, httpVars
<1>7. CASE WaitSignal \/ JoinThread \/ Reuse
  BY <1>7 DEF WaitSignal, SignalThread, JoinThread, Reuse, httpVars
<1>8. CASE SetPropertyLock \/ DeviceEnds
  BY <1>8 DEF SetPropertyLock, DeviceEnds, httpVars
<1>9. CASE SetProperty
  BY <1>9 DEF SetProperty, Enqueue, httpVars, PluginTypeOK, Holding
<1>10. CASE RetryVersion
  BY <1>10 DEF RetryVersion, Enqueue, httpVars
<1>11. CASE ReadAnswer \/ StopFakeCamera \/ ListenerReturns
  BY <1>11 DEF ReadAnswer, StopFakeCamera, SignalThread, ListenerReturns, WorkerReturn, Told,
     httpVars, HttpInv, HttpTypeOK
<1>12. CASE CommandsThread
  <2>1. worker # "off"
    BY <1>12 DEF CommandsThread, Worker, WorkerInit, WorkerTest, WorkerWait, WorkerPop,
       WorkerPerform, WorkerRequest, WorkerDone
  <2>2. GivesUp' => current' = 0
    BY <1>12 DEF CommandsThread, Worker, WorkerInit, WorkerTest, WorkerWait, WorkerPop,
       WorkerPerform, WorkerRequest, WorkerDone, NotifyError
  <2> QED
    BY <1>12, <2>1, <2>2 DEF CommandsThread
<1> QED
  BY <1>1, <1>2, <1>3, <1>4, <1>5, <1>6, <1>7, <1>8, <1>9, <1>10, <1>11, <1>12
     DEF CameraNext, Owner, Listener

\* The owner is not in Start before and after a step, or where it was.
SamePhase == owner' = owner \/ {owner, owner'} \cap {"starting", "version", "assign"} = {}

LEMMA QuietIsStill ==
  ASSUME HttpTypeOK, SamePhase, worker' \in {worker, Woken},
         UNCHANGED <<queue, resume, current, failed, version>>,
         verdict' = verdict \/ verdict' # "open"
  PROVE  Still
<1>1. /\ Dying' <=> Dying
      /\ UnderWay' <=> UnderWay
      /\ InCallback' <=> InCallback
      /\ worker' = "inError" <=> worker = "inError"
      /\ worker = "off" => worker' = "off"
  BY DEF Woken, Dying, GivesUp, UnderWay, InCallback
<1>2. AboutVersion' <=> AboutVersion
  BY DEF AboutVersion, version
<1>3. Retriable' => Retriable
  BY <1>1, <1>2 DEF Retriable
<1>4. Open' => Open
  BY <1>1, <1>2, <1>3 DEF Open, Queued, version
<1>5. Later => Later'
  BY <1>1 DEF Later, version
<1> QED
  BY <1>1, <1>3, <1>4, <1>5 DEF Still, SamePhase

LEMMA EnqueueIsStill ==
  ASSUME HttpInv, PluginTypeOK, SamePhase, NEW url \in Urls, Enqueue(url),
         UNCHANGED <<version, verdict>>
  PROVE  Still
<1>1. /\ Dying' <=> Dying
      /\ UnderWay' <=> UnderWay
      /\ InCallback' <=> InCallback
      /\ worker' = "inError" <=> worker = "inError"
      /\ worker = "off" => worker' = "off"
  BY DEF Enqueue, Woken, Dying, GivesUp, UnderWay, InCallback
<1>2. AboutVersion' <=> AboutVersion
  BY DEF AboutVersion, version, Enqueue
<1>3. Retriable' => Retriable
  BY <1>1, <1>2 DEF Retriable
<1>4. /\ \A i \in DOMAIN queue' :
           queue'[i].id = counter + 1 \/ \E j \in DOMAIN queue : queue'[i] = queue[j]
      /\ counter \in Nat /\ versionId \in Nat /\ versionId <= counter /\ versionId' = versionId
  <2>1. /\ DOMAIN queue = 1..Len(queue) /\ Len(queue) \in Nat
        /\ DOMAIN queue' = 1..(Len(queue) + 1)
        /\ \A i \in 1..Len(queue) : queue'[i] = queue[i]
        /\ queue'[Len(queue) + 1].id = counter + 1 /\ counter \in Nat
    BY AppendFacts DEF HttpInv
  <2>2. \A i \in DOMAIN queue' : i \in DOMAIN queue \/ i = Len(queue) + 1
    BY <2>1
  <2> QED
    BY <2>1, <2>2 DEF PluginTypeOK, version
<1>5. Queued(versionId)' => Queued(versionId)
  BY <1>4 DEF Queued
<1>6. Open' => Open
  BY <1>1, <1>2, <1>3, <1>5 DEF Open, Enqueue
<1>7. Later => Later'
  BY <1>1, <1>4 DEF Later, Enqueue
<1> QED
  BY <1>1, <1>3, <1>6, <1>7 DEF Still, SamePhase

LEMMA ReturnIsStill == ASSUME HttpInv, ListenerReturns PROVE Still
<1>1. /\ UNCHANGED <<plugin, version, queue, current, failed>> /\ InCallback
      /\ worker' = resume /\ resume' = resume
      /\ resume \in {"off", "test", "request", "done"}
  BY DEF ListenerReturns, WorkerReturn, HttpInv, HttpTypeOK
<1>2. Dying' <=> Dying
  BY <1>1 DEF Dying, GivesUp, InCallback, HttpInv, CurrentInv
<1>3. ~Retriable'
  BY <1>1 DEF Retriable
<1>4. UnderWay' => failed
  BY <1>1 DEF UnderWay, HttpInv, CurrentInv, Resumes, InCallback
<1>5. Open' => Open
  BY <1>1, <1>2, <1>3, <1>4 DEF Open, Queued, version
<1>6. Later => Later'
  BY <1>1 DEF Later, version
<1>7. worker # "off" /\ owner' = owner
  BY <1>1 DEF InCallback, plugin
<1> QED
  BY <1>1, <1>2, <1>3, <1>5, <1>6, <1>7 DEF Still

LEMMA WorkerIsStill == ASSUME HttpInv, LifeInv, CommandsThread PROVE Still
<1>1. UNCHANGED <<plugin, version, verdict>> /\ owner' = owner /\ Worker
  BY DEF CommandsThread, plugin
<1>2. worker # "off" /\ ~GivesUp /\ ~InCallback
  BY <1>1 DEF Worker, WorkerInit, WorkerTest, WorkerWait, WorkerPop, WorkerPerform,
     WorkerRequest, WorkerDone, GivesUp, InCallback
<1>3. Open' => Open \/ (versionId = 0 /\ ~Dying)
  <2>1. CASE WorkerInit
    BY <1>1, <1>2, <2>1 DEF WorkerInit, NotifyError, Open, Retriable, AboutVersion, Dying, GivesUp,
       UnderWay, Queued, version
  <2>2. CASE WorkerTest \/ WorkerWait
    BY <1>1, <1>2, <2>2 DEF WorkerTest, WorkerWait, Open, Retriable, AboutVersion, Dying, GivesUp,
       UnderWay, Queued, version
  <2>3. CASE WorkerPop
    <3>1. /\ Queued(versionId)' => Queued(versionId)
          /\ UnderWay' /\ AboutVersion' => Queued(versionId)
      <4>1. CASE queue = <<>>
        BY <1>1, <2>3, <4>1 DEF WorkerPop, Queued, UnderWay, version
      <4>2. CASE queue # <<>>
        <5>1. /\ DOMAIN queue = 1..Len(queue) /\ Len(queue) \in Nat \ {0}
              /\ DOMAIN queue' = 1..(Len(queue) - 1)
              /\ \A i \in 1..(Len(queue) - 1) : queue'[i] = queue[i + 1]
              /\ current' = queue[1].id
          BY <2>3, <4>2, TailFacts DEF HttpInv
        <5>2. 1 \in DOMAIN queue /\ \A i \in DOMAIN queue' : i + 1 \in DOMAIN queue
          BY <5>1
        <5>3. versionId' = versionId
          BY <1>1 DEF version
        <5> QED
          BY <5>1, <5>2, <5>3 DEF Queued, AboutVersion
      <4> QED
        BY <4>1, <4>2
    <3>2. ~Retriable' /\ ~Dying
      BY <2>3 DEF WorkerPop, Retriable, Dying, GivesUp
    <3> QED
      BY <3>1, <3>2 DEF Open
  <2>4. CASE WorkerPerform \/ WorkerRequest \/ WorkerDone
    <3>1. ~Dying /\ UnderWay /\ queue' = queue /\ (AboutVersion' <=> AboutVersion)
          /\ versionId' = versionId
      BY <1>1, <1>2, <2>4 DEF WorkerPerform, WorkerRequest, WorkerDone, Dying, GivesUp, UnderWay,
         AboutVersion, version
    <3>2. Retriable' => ~failed
      BY <2>4 DEF WorkerPerform, WorkerRequest, WorkerDone, NotifyError, Retriable
    <3>3. ~failed' => ~failed
      BY <2>4 DEF WorkerPerform, WorkerRequest, WorkerDone, NotifyError
    <3>4. Retriable' => AboutVersion
      BY <3>1 DEF Retriable
    <3> QED
      BY <3>1, <3>2, <3>3, <3>4 DEF Open, Queued
  <2> QED
    BY <1>1, <2>1, <2>2, <2>3, <2>4 DEF Worker
<1>4. Later /\ ~Dying' => Later'
  <2> SUFFICES ASSUME Later, ~Dying' PROVE Later'
    OBVIOUS
  <2>1. CASE WorkerPop
    <3>1. CASE queue = <<>>
      BY <1>1, <2>1, <3>1 DEF WorkerPop, Later, UnderWay, InCallback, version
    <3>2. CASE queue # <<>>
      BY <1>1, <2>1, <3>2, TailFacts DEF HttpInv, Later, version
    <3> QED
      BY <3>1, <3>2
  <2>2. CASE WorkerInit \/ WorkerTest \/ WorkerWait
    BY <1>1, <2>2 DEF WorkerInit, NotifyError, WorkerTest, WorkerWait, Later, UnderWay, InCallback,
       Dying, GivesUp, version
  <2>3. CASE WorkerPerform \/ WorkerRequest \/ WorkerDone
    BY <1>1, <2>3 DEF WorkerPerform, WorkerRequest, WorkerDone, Later, UnderWay, InCallback, version
  <2> QED
    BY <1>1, <2>1, <2>2, <2>3 DEF Worker
<1> QED
  BY <1>1, <1>2, <1>3, <1>4 DEF Still, Dying

\* All steps are such, but those that start the thread and note or repeat a request.
LEMMA OthersAreStill ==
  ASSUME HttpInv, PluginTypeOK, LifeInv, [CameraNext]_cameraVars
  PROVE  \/ Still
         \/ StartLock \/ StartThread \/ EnqueueVersion \/ AssignVersionId \/ RetryVersion
<1> USE DEF SamePhase, Lock, Unlock, Go, plugin, version
<1>1. HttpTypeOK
  BY DEF HttpInv
<1>2. CASE UNCHANGED cameraVars
  BY <1>1, <1>2, QuietIsStill DEF cameraVars, httpVars
<1>3. CASE Subscribe \/ Unsubscribe
  BY <1>1, <1>3, QuietIsStill DEF Subscribe, Unsubscribe, SetListener
<1>4. CASE ApplyCurrentConfiguration
  <2>1. Configuration \in Urls
    BY CameraAssumption DEF CameraAssumption
  <2> QED
    BY <1>4, <2>1, EnqueueIsStill DEF ApplyCurrentConfiguration
<1>5. CASE StartDevice \/ UnsubscribeLock \/ SignalLock \/ Finalized \/ WaitLock \/ JoinDevice
           \/ JoinThread \/ Reuse
  BY <1>1, <1>5, QuietIsStill DEF StartDevice, UnsubscribeLock, SignalLock, Finalized, WaitLock,
     JoinDevice, JoinThread, Reuse, httpVars
<1>6. CASE StartDeviceFails \/ Signal \/ WaitSignal
  BY <1>1, <1>6, QuietIsStill DEF StartDeviceFails, Signal, WaitSignal, SignalThread
<1>7. CASE SetPropertyLock \/ DeviceEnds
  BY <1>1, <1>7, QuietIsStill DEF SetPropertyLock, DeviceEnds, httpVars
<1>8. CASE SetProperty
  <2>1. CASE Enqueue(Configuration)
    <3>1. Configuration \in Urls
      BY CameraAssumption DEF CameraAssumption
    <3> QED
      BY <1>8, <2>1, <3>1, EnqueueIsStill DEF SetProperty
  <2>2. CASE UNCHANGED httpVars
    BY <1>1, <1>8, <2>2, QuietIsStill DEF SetProperty, httpVars
  <2> QED
    BY <1>8, <2>1, <2>2 DEF SetProperty
<1>9. CASE ReadAnswer
  BY <1>1, <1>9, QuietIsStill DEF ReadAnswer, httpVars
<1>10. CASE StopFakeCamera
  BY <1>1, <1>10, QuietIsStill DEF StopFakeCamera, SignalThread
<1>11. CASE ListenerReturns
  BY <1>11, ReturnIsStill
<1>12. CASE CommandsThread
  BY <1>12, WorkerIsStill
<1> QED
  BY <1>2, <1>3, <1>4, <1>5, <1>6, <1>7, <1>8, <1>9, <1>10, <1>11, <1>12
     DEF CameraNext, Owner, Listener

\* What a retry leaves: nothing that another could follow, if it was the last.
LEMMA RetryFacts ==
  ASSUME HttpInv, PluginTypeOK, RetryVersion
  PROVE  /\ Retriable /\ ~Retriable'
         /\ Dying' <=> Dying
         /\ ~GivesUp => ~Dying
         /\ owner' = owner /\ versionCounter' = versionCounter + 1 /\ returned' = returned
         /\ \/ /\ versionCounter < MaxRetries /\ versionId' # 0 /\ counter' = counter + 1
            \/ /\ versionCounter >= MaxRetries /\ ~Open'
               /\ versionId' = versionId /\ counter' = counter
<1>1. InCallback /\ worker = "inError" /\ verdict' = "done" /\ verdict = "open" /\ AboutVersion
  BY DEF RetryVersion
<1>2. worker' = worker /\ resume' = resume /\ current' = current
  BY <1>1 DEF RetryVersion, Enqueue, Woken, httpVars
<1>3. Retriable /\ ~Retriable' /\ (Dying' <=> Dying) /\ (~GivesUp => ~Dying)
  BY <1>1, <1>2 DEF Retriable, Dying, GivesUp
<1>4. ASSUME versionCounter < MaxRetries, Enqueue(Version), versionId' = counter'
      PROVE  versionId' # 0 /\ counter' = counter + 1
  BY <1>4 DEF Enqueue, HttpInv, HttpTypeOK
<1>5. ASSUME versionCounter >= MaxRetries, UNCHANGED <<httpVars, versionId>> PROVE ~Open'
  <2>1. ~Queued(versionId)'
    <3>1. versionId' = current /\ queue' = queue
      BY <1>1, <1>5 DEF AboutVersion, httpVars
    <3>2. \A i \in DOMAIN queue : current < queue[i].id /\ current \in Nat /\ queue[i].id \in Nat
      BY DEF HttpInv, InOrder, QueueInv, HttpTypeOK
    <3>3. \A i \in DOMAIN queue : current # queue[i].id
      BY <3>2
    <3> QED
      BY <3>1, <3>3 DEF Queued
  <2>2. ~UnderWay'
    BY <1>1, <1>2 DEF UnderWay
  <2> QED
    BY <1>3, <2>1, <2>2 DEF Open
<1> QED
  BY <1>3, <1>4, <1>5 DEF RetryVersion, plugin, httpVars

LEMMA VersionNext ==
  ASSUME HttpInv, PluginTypeOK, LifeInv, VersionInv, [CameraNext]_cameraVars
  PROVE  VersionInv'
<1> USE CameraAssumption DEF CameraAssumption, Early
<1>1. CASE Still
  <2>1. owner' = owner \/ {owner, owner'} \cap {"starting", "version", "assign"} = {}
    BY <1>1 DEF Still
  <2>2. (Early' <=> Early) /\ (owner' = "assign" <=> owner = "assign")
    BY <2>1
  <2>3. versionId' = versionId /\ versionCounter' = versionCounter /\ returned' = returned
    BY <1>1 DEF Still, version
  <2>4. versionCounter \in Nat /\ MaxRetries \in Nat
    BY DEF PluginTypeOK
  <2>5. versionCounter <= MaxRetries \/ (versionCounter = MaxRetries + 1 /\ ~Open')
    BY <1>1, <2>4 DEF VersionInv, Still
  <2> QED
    BY <1>1, <2>2, <2>3, <2>5 DEF VersionInv, Still
<1>2. CASE StartLock
  <2>1. /\ owner = "ready" /\ owner' = "starting" /\ worker = "off" /\ worker' = worker
        /\ version' = version /\ queue' = <<>>
    BY <1>2 DEF StartLock, Lock, ClearRequestsQueue, thread, LifeInv
  <2>2. ~Open'
    BY <2>1 DEF Open, Retriable, Dying
  <2> QED
    BY <2>1, <2>2 DEF VersionInv, version
<1>3. CASE StartThread
  <2>1. /\ owner = "starting" /\ worker = "off" /\ queue' = <<>>
        /\ version' = version
        /\ \/ owner' = "version" /\ worker' = "init"
           \/ owner' = "running" /\ worker' = "off"
    BY <1>3 DEF StartThread, HttpStart, Go, Unlock, LifeInv
  <2>2. ~Open'
    BY <2>1 DEF Open, Retriable, Dying, Queued, UnderWay
  <2>3. Later'
    BY <2>1 DEF Later, UnderWay, InCallback
  <2> QED
    BY <2>1, <2>2, <2>3 DEF VersionInv, version
<1>4. CASE EnqueueVersion
  <2>1. /\ owner = "version" /\ owner' = "assign" /\ versionCounter' = 0 /\ versionId' = versionId
        /\ returned' = counter' /\ verdict' = verdict /\ Enqueue(Version)
    BY <1>4 DEF EnqueueVersion, Go
  <2>2. returned' >= 1
    BY <2>1 DEF Enqueue, HttpInv, HttpTypeOK
  <2>3. Dying' <=> Dying
    BY <2>1 DEF Enqueue, Woken, Dying, GivesUp
  <2>4. ASSUME Later PROVE Later'
    <3>1. /\ DOMAIN queue = 1..Len(queue) /\ Len(queue) \in Nat
          /\ DOMAIN queue' = 1..(Len(queue) + 1)
          /\ \A i \in 1..Len(queue) : queue'[i] = queue[i]
          /\ queue'[Len(queue) + 1].id = counter + 1 /\ counter \in Nat
      BY <2>1, AppendFacts DEF HttpInv
    <3>2. \A i \in DOMAIN queue' : i \in DOMAIN queue \/ i = Len(queue) + 1
      BY <3>1
    <3>3. versionId \in Nat /\ counter + 1 > versionId
      BY <3>1 DEF PluginTypeOK
    <3>4. (UnderWay' <=> UnderWay) /\ (InCallback' <=> InCallback) /\ current' = current
      BY <2>1 DEF Enqueue, Woken, UnderWay, InCallback
    <3> QED
      BY <2>1, <2>4, <3>1, <3>2, <3>3, <3>4 DEF Later
  <2> QED
    BY <2>1, <2>2, <2>3, <2>4 DEF VersionInv
<1>5. CASE AssignVersionId
  <2>1. /\ owner = "assign" /\ owner' = "configuration" /\ versionId' = returned /\ returned >= 1
        /\ versionCounter' = versionCounter /\ UNCHANGED httpVars /\ returned \in Nat
    BY <1>5 DEF AssignVersionId, Go, VersionInv, PluginTypeOK
  <2>2. Dying' <=> Dying
    BY <2>1 DEF httpVars, Dying, GivesUp
  <2>3. ASSUME Dying PROVE ~Open'
    <3>1. ~Retriable'
      BY <2>1, <2>3 DEF Dying, GivesUp, LifeInv, Retriable, AboutVersion, httpVars
    <3> QED
      BY <2>2, <2>3, <3>1 DEF Open
  <2> QED
    BY <2>1, <2>3 DEF VersionInv
<1>6. CASE RetryVersion
  <2>1. /\ Retriable /\ ~Retriable' /\ (Dying' <=> Dying) /\ owner' = owner
        /\ versionCounter' = versionCounter + 1 /\ returned' = returned
        /\ versionCounter \in Nat
    BY <1>6, RetryFacts DEF PluginTypeOK
  <2>2. versionCounter <= MaxRetries
    BY <2>1 DEF VersionInv, Open
  <2>3. versionCounter' <= MaxRetries \/ (versionCounter' = MaxRetries + 1 /\ ~Open')
    BY <1>6, <2>1, <2>2, RetryFacts
  <2>4. Early => Dying
    <3>1. ASSUME Early, ~Dying PROVE FALSE
      <4>1. current > versionId /\ current = versionId /\ versionId \in Nat
        BY <1>6, <3>1 DEF VersionInv, Later, RetryVersion, AboutVersion, PluginTypeOK
      <4> QED
        BY <4>1
    <3> QED
      BY <3>1
  <2>5. versionId' = 0 => versionId = 0 /\ Early
    <3>1. worker # "off"
      BY <1>6 DEF RetryVersion
    <3> QED
      BY <1>6, <3>1, RetryFacts DEF VersionInv
  <2> QED
    BY <2>1, <2>3, <2>4, <2>5 DEF VersionInv
<1> QED
  BY <1>1, <1>2, <1>3, <1>4, <1>5, <1>6, OthersAreStill

-----------------------------------------------------------------------------
(* How much is sent.                                                       *)

\* What is still to be queued by the owner, by whoever sets a property, and as retries.
OwnerPart ==
  IF owner \in {"starting", "version"} THEN 2
  ELSE IF owner \in {"assign", "configuration"} THEN 1 ELSE 0

SetterPart == IF pluginSync = "setter" THEN 1 ELSE 0

RetryPart ==
  IF owner = "starting" THEN MaxRetries
  ELSE IF Dying /\ ~Retriable THEN 0
  ELSE IF owner = "version" THEN MaxRetries
  ELSE IF versionCounter > MaxRetries THEN 0 ELSE MaxRetries - versionCounter

\* Each start is worth a request for the version with its retries and one for the configuration.
BudgetInv ==
  counter + OwnerPart + SetterPart + RetryPart <= starts * (MaxRetries + 2) + settings

LEMMA PartsAreNumbers ==
  ASSUME PluginTypeOK
  PROVE  /\ OwnerPart \in Nat /\ SetterPart \in Nat /\ RetryPart \in Nat
         /\ MaxRetries \in Nat
BY CameraAssumption DEF CameraAssumption, PluginTypeOK, OwnerPart, SetterPart, RetryPart

\* What is queued, or planned but for retries.
Due == counter + OwnerPart + SetterPart

\* What the starts so far may queue.
Planned == starts * (MaxRetries + 2)

LEMMA Planning ==
  ASSUME PluginTypeOK, HttpTypeOK
  PROVE  /\ Planned \in Int /\ Due \in Int /\ RetryPart \in Int /\ settings \in Int
         /\ BudgetInv <=> Due + RetryPart <= Planned + settings
<1>1. starts \in Int /\ settings \in Int /\ counter \in Int /\ MaxRetries \in Int
      /\ versionCounter \in Int
  BY CameraAssumption DEF CameraAssumption, PluginTypeOK, HttpTypeOK
<1>2. Planned \in Int
  BY <1>1 DEF Planned
<1>3. OwnerPart \in Int /\ SetterPart \in Int /\ RetryPart \in Int
  BY <1>1 DEF OwnerPart, SetterPart, RetryPart
<1>4. Due \in Int
  BY <1>1, <1>3 DEF Due
<1>5. BudgetInv <=> Due + RetryPart <= Planned + settings
  BY DEF BudgetInv, Due, Planned
<1> QED
  BY <1>1, <1>2, <1>3, <1>4, <1>5

LEMMA PlanningNext ==
  ASSUME PluginTypeOK', HttpTypeOK'
  PROVE  /\ Planned' \in Int /\ Due' \in Int /\ RetryPart' \in Int /\ settings' \in Int
         /\ BudgetInv' <=> Due' + RetryPart' <= Planned' + settings'
<1>1. starts' \in Int /\ settings' \in Int /\ counter' \in Int /\ MaxRetries \in Int
      /\ versionCounter' \in Int
  BY CameraAssumption DEF CameraAssumption, PluginTypeOK, HttpTypeOK
<1>2. Planned' \in Int
  BY <1>1 DEF Planned
<1>3. OwnerPart' \in Int /\ SetterPart' \in Int /\ RetryPart' \in Int
  BY <1>1 DEF OwnerPart, SetterPart, RetryPart
<1>4. Due' \in Int
  BY <1>1, <1>3 DEF Due
<1>5. BudgetInv' <=> Due' + RetryPart' <= Planned' + settings'
  BY DEF BudgetInv, Due, Planned
<1> QED
  BY <1>1, <1>2, <1>3, <1>4, <1>5

\* A step keeps to the budget when what it adds to the requests was planned.
LEMMA Pays ==
  ASSUME PluginTypeOK, PluginTypeOK', HttpTypeOK, HttpTypeOK', BudgetInv,
         Due' + RetryPart' + Planned + settings <= Due + RetryPart + Planned' + settings'
  PROVE  BudgetInv'
<1> DEFINE due == Due'
<1> DEFINE retries == RetryPart'
<1> DEFINE plan == Planned'
<1> DEFINE set == settings'
<1>1. /\ Planned \in Int /\ Due \in Int /\ RetryPart \in Int /\ settings \in Int
      /\ Due + RetryPart <= Planned + settings
  BY Planning
<1>2. plan \in Int /\ due \in Int /\ retries \in Int /\ set \in Int
  BY PlanningNext
<1>3. due + retries + Planned + settings <= Due + RetryPart + plan + set
  OBVIOUS
<1> HIDE DEF due, retries, plan, set
<1>4. due + retries <= plan + set
  BY <1>1, <1>2, <1>3
<1> QED
  BY <1>4, PlanningNext DEF due, retries, plan, set

\* Steps that queue nothing, or what was planned.
LEMMA StillRetries ==
  ASSUME PluginTypeOK, Still
  PROVE  RetryPart' \in Nat /\ RetryPart \in Nat /\ RetryPart' <= RetryPart
<1>1. MaxRetries \in Nat /\ versionCounter \in Nat /\ versionCounter' = versionCounter
  BY CameraAssumption DEF CameraAssumption, PluginTypeOK, Still, version
<1>2. RetryPart \in Nat /\ RetryPart' \in Nat
  BY <1>1 DEF RetryPart
<1>4. RetryPart' <= RetryPart
  <2>1. \/ owner' = owner
        \/ owner \notin {"starting", "version"} /\ owner' \notin {"starting", "version"}
    BY DEF Still
  <2>2. CASE Dying /\ ~Retriable
    BY <1>2, <2>1, <2>2 DEF RetryPart, Still
  <2>3. CASE ~(Dying /\ ~Retriable)
    BY <1>1, <2>1, <2>3 DEF RetryPart
  <2> QED
    BY <2>2, <2>3
<1> QED
  BY <1>2, <1>4

\* What is planned when a step changes it.
LEMMA Ledger ==
  ASSUME PluginTypeOK, PluginTypeOK', HttpTypeOK, HttpTypeOK', BudgetInv,
         NEW queued \in Int, counter' = counter + queued,
         NEW owing \in Int, OwnerPart' + SetterPart' = OwnerPart + SetterPart + owing,
         NEW granted \in Int, Planned' + settings' = Planned + settings + granted,
         RetryPart' + queued + owing <= RetryPart + granted
  PROVE  BudgetInv'
<1> DEFINE later == counter'
<1> DEFINE own == OwnerPart'
<1> DEFINE setter == SetterPart'
<1> DEFINE retries == RetryPart'
<1> DEFINE plan == Planned'
<1> DEFINE set == settings'
<1>1. Planned \in Int /\ RetryPart \in Int /\ settings \in Int
  BY Planning
<1>2. plan \in Int /\ retries \in Int /\ set \in Int
  BY PlanningNext
<1>3. counter \in Int /\ OwnerPart \in Int /\ SetterPart \in Int
  BY DEF HttpTypeOK, OwnerPart, SetterPart
<1>4. later \in Int /\ own \in Int /\ setter \in Int
  BY DEF HttpTypeOK, OwnerPart, SetterPart
<1>5. /\ later = counter + queued /\ own + setter = OwnerPart + SetterPart + owing
      /\ plan + set = Planned + settings + granted
      /\ retries + queued + owing <= RetryPart + granted
  OBVIOUS
<1>6. Due' = later + own + setter /\ Due = counter + OwnerPart + SetterPart
  BY DEF Due
<1> HIDE DEF later, own, setter, retries, plan, set
<1>7. later + own + setter + retries + Planned + settings
        <= counter + OwnerPart + SetterPart + RetryPart + plan + set
  BY <1>1, <1>2, <1>3, <1>4, <1>5
<1>8. Due' + retries + Planned + settings <= Due + RetryPart + plan + set
  BY <1>6, <1>7
<1> QED
  BY <1>8, Pays DEF retries, plan, set

LEMMA Afford ==
  ASSUME PluginTypeOK, PluginTypeOK', HttpTypeOK, HttpTypeOK', BudgetInv,
         NEW queued \in Int, counter' = counter + queued,
         NEW owing \in Int, OwnerPart' + SetterPart' = OwnerPart + SetterPart + owing,
         NEW granted \in Int, Planned' + settings' = Planned + settings + granted,
         RetryPart' <= RetryPart, queued + owing <= granted
  PROVE  BudgetInv'
<1> DEFINE retries == RetryPart'
<1>1. retries \in Int /\ RetryPart \in Int /\ retries <= RetryPart
  BY Planning, PlanningNext
<1> HIDE DEF retries
<1>2. retries + queued + owing <= RetryPart + granted
  BY <1>1
<1> QED
  BY <1>2, Ledger DEF retries

\* The steps that are neither planned nor queue anything.
QueuesNothing ==
  /\ counter' = counter /\ settings' = settings
  /\ owner' = owner \/ owner' \notin {"starting", "version", "assign", "configuration"}
  /\ pluginSync' = "setter" => pluginSync = "setter"

LEMMA OthersQueueNothing ==
  ASSUME HttpTypeOK, [CameraNext]_cameraVars
  PROVE  \/ QueuesNothing
         \/ StartLock \/ StartThread \/ EnqueueVersion \/ AssignVersionId \/ RetryVersion
         \/ ApplyCurrentConfiguration \/ SetPropertyLock \/ SetProperty
<1> USE DEF QueuesNothing, Lock, Unlock, Go, plugin, bounds
<1>1. CASE UNCHANGED cameraVars
  BY <1>1 DEF cameraVars, httpVars
<1>2. CASE Subscribe \/ Unsubscribe
  BY <1>2 DEF Subscribe, Unsubscribe, SetListener
<1>3. CASE StartDevice \/ UnsubscribeLock \/ SignalLock \/ Finalized \/ WaitLock \/ JoinDevice
           \/ JoinThread \/ Reuse
  BY <1>3 DEF StartDevice, UnsubscribeLock, SignalLock, Finalized, WaitLock, JoinDevice,
     JoinThread, Reuse, httpVars
<1>4. CASE StartDeviceFails \/ Signal \/ WaitSignal
  BY <1>4 DEF StartDeviceFails, Signal, WaitSignal, SignalThread
<1>5. CASE DeviceEnds \/ ReadAnswer
  BY <1>5 DEF DeviceEnds, ReadAnswer, httpVars
<1>6. CASE StopFakeCamera \/ ListenerReturns
  BY <1>6 DEF StopFakeCamera, SignalThread, ListenerReturns, WorkerReturn
<1>7. CASE CommandsThread
  BY <1>7 DEF CommandsThread, Worker, WorkerInit, WorkerTest, WorkerWait, WorkerPop,
     WorkerPerform, WorkerRequest, WorkerDone
<1> QED
  BY <1>1, <1>2, <1>3, <1>4, <1>5, <1>6, <1>7 DEF CameraNext, Owner, Listener

LEMMA QuietStarts ==
  ASSUME [CameraNext]_cameraVars PROVE StartLock \/ starts' = starts
BY DEF CameraNext, Owner, Listener, cameraVars, bounds, StartLock, StartThread, Subscribe,
   EnqueueVersion, AssignVersionId, ApplyCurrentConfiguration, StartDevice, StartDeviceFails,
   UnsubscribeLock, Unsubscribe, SignalLock, Signal, Finalized, WaitLock, JoinDevice, WaitSignal,
   JoinThread, Reuse, SetPropertyLock, SetProperty, DeviceEnds, RetryVersion, ReadAnswer,
   StopFakeCamera, ListenerReturns, CommandsThread

LEMMA BudgetNext ==
  ASSUME HttpInv, HttpTypeOK', PluginTypeOK, PluginTypeOK', LifeInv, VersionInv, BudgetInv,
         [CameraNext]_cameraVars
  PROVE  BudgetInv'
<1> USE CameraAssumption DEF CameraAssumption
<1>0. /\ HttpTypeOK /\ MaxRetries \in Int /\ versionCounter \in Int /\ RetryPart \in Int
      /\ Planned \in Int /\ settings \in Int /\ starts \in Int
  BY Planning DEF HttpInv, PluginTypeOK
<1>1. CASE StartLock
  <2>1. /\ owner = "ready" /\ owner' = "starting" /\ worker = "off"
        /\ pluginSync = "none" /\ pluginSync' = "owner"
        /\ counter' = counter /\ starts' = starts + 1 /\ settings' = settings
    BY <1>1 DEF StartLock, Lock, ClearRequestsQueue, LifeInv
  <2>2. RetryPart = 0 /\ RetryPart' = MaxRetries
    BY <2>1 DEF RetryPart, Dying, Retriable
  <2>3. OwnerPart' + SetterPart' = OwnerPart + SetterPart + 2
    BY <2>1 DEF OwnerPart, SetterPart
  <2>4. Planned' + settings' = Planned + settings + (MaxRetries + 2)
    <3>1. (starts + 1) * (MaxRetries + 2) = starts * (MaxRetries + 2) + (MaxRetries + 2)
      BY <1>0
    <3> QED
      BY <1>0, <2>1, <3>1 DEF Planned
  <2>5. counter' = counter + 0 /\ RetryPart' + 0 + 2 <= RetryPart + (MaxRetries + 2)
    BY <1>0, <2>1, <2>2 DEF HttpTypeOK
  <2> QED
    BY <1>0, <2>3, <2>4, <2>5, Ledger
<1> HIDE DEF CameraAssumption
<1>2. ASSUME ~StartLock PROVE Planned' = Planned /\ starts' = starts
  BY <1>2, QuietStarts DEF Planned
<1>3. CASE StartThread /\ ~StartLock
  <2>1. /\ owner = "starting" /\ worker = "off"
        /\ \/ owner' = "version"
           \/ owner' = "running" /\ worker' = "off"
        /\ pluginSync = "owner" /\ pluginSync' # "setter"
        /\ counter' = counter /\ settings' = settings
    BY <1>3 DEF StartThread, HttpStart, Go, Unlock, LifeInv, bounds, PluginTypeOK, Holding
  <2>2. RetryPart' <= RetryPart
    <3>1. RetryPart = MaxRetries /\ (RetryPart' = 0 \/ RetryPart' = MaxRetries) /\ MaxRetries >= 0
      BY <2>1 DEF RetryPart, Dying, Retriable, CameraAssumption
    <3> QED
      BY <1>0, <3>1
  <2>3. SetterPart' = SetterPart /\ OwnerPart = 2 /\ (OwnerPart' = 2 \/ OwnerPart' = 0)
    BY <2>1 DEF OwnerPart, SetterPart
  <2>4. Planned' + settings' = Planned + settings + 0 /\ counter' = counter + 0
    BY <1>0, <1>2, <1>3, <2>1 DEF HttpTypeOK
  <2>5. CASE OwnerPart' = 2
    <3>1. OwnerPart' + SetterPart' = OwnerPart + SetterPart + 0
      BY <2>3, <2>5 DEF SetterPart
    <3> QED
      BY <1>0, <2>2, <2>4, <3>1, Afford
  <2>6. CASE OwnerPart' = 0
    <3>1. OwnerPart' + SetterPart' = OwnerPart + SetterPart + (-2)
      BY <2>3, <2>6 DEF SetterPart
    <3> QED
      BY <1>0, <2>2, <2>4, <3>1, Afford
  <2> QED
    BY <2>3, <2>5, <2>6
<1>4. CASE EnqueueVersion /\ ~StartLock
  <2>1. /\ owner = "version" /\ owner' = "assign" /\ versionCounter' = 0 /\ versionId' = versionId
        /\ pluginSync' = pluginSync /\ verdict' = verdict /\ settings' = settings
        /\ counter' = counter + 1 /\ Enqueue(Version)
    BY <1>4 DEF EnqueueVersion, Go, Enqueue, bounds
  <2>2. (Dying' <=> Dying) /\ (Retriable' <=> Retriable)
    BY <2>1 DEF Enqueue, Woken, Dying, GivesUp, Retriable, AboutVersion
  <2>3. RetryPart' = RetryPart
    BY <1>0, <2>1, <2>2 DEF RetryPart, CameraAssumption
  <2>4. OwnerPart' + SetterPart' = OwnerPart + SetterPart + (-1)
    BY <2>1 DEF OwnerPart, SetterPart
  <2>5. Planned' + settings' = Planned + settings + 0
    BY <1>0, <1>2, <1>4, <2>1
  <2>6. RetryPart' + 1 + (-1) <= RetryPart + 0
    BY <1>0, <2>3
  <2> QED
    BY <1>0, <2>1, <2>4, <2>5, <2>6, Ledger
<1>5. CASE AssignVersionId /\ ~StartLock
  <2>1. /\ owner = "assign" /\ owner' = "configuration" /\ versionId' = returned /\ returned >= 1
        /\ versionCounter' = versionCounter /\ UNCHANGED httpVars /\ returned \in Int
        /\ pluginSync' = pluginSync /\ settings' = settings
    BY <1>5 DEF AssignVersionId, Go, VersionInv, PluginTypeOK, bounds
  <2>2. Dying' <=> Dying
    BY <2>1 DEF httpVars, Dying, GivesUp
  <2>3. ASSUME Dying PROVE ~Retriable'
    BY <2>1, <2>3 DEF Dying, GivesUp, LifeInv, Retriable, AboutVersion, httpVars
  <2>4. RetryPart' <= RetryPart
    <3>1. CASE Dying
      <4>1. RetryPart' = 0 /\ RetryPart >= 0
        BY <1>0, <2>1, <2>2, <2>3, <3>1 DEF RetryPart, CameraAssumption
      <4> QED
        BY <4>1
    <3>2. CASE ~Dying
      BY <1>0, <2>1, <2>2, <3>2 DEF RetryPart
    <3> QED
      BY <3>1, <3>2
  <2>5. OwnerPart' + SetterPart' = OwnerPart + SetterPart + 0 /\ counter' = counter + 0
    BY <1>0, <2>1 DEF OwnerPart, SetterPart, httpVars, HttpTypeOK
  <2>6. Planned' + settings' = Planned + settings + 0
    BY <1>0, <1>2, <1>5, <2>1
  <2> QED
    BY <1>0, <2>4, <2>5, <2>6, Afford
<1>6. CASE RetryVersion /\ ~StartLock
  <2>1. /\ Retriable /\ ~Retriable' /\ (Dying' <=> Dying) /\ owner' = owner
        /\ versionCounter' = versionCounter + 1
    BY <1>6, RetryFacts
  <2>2. /\ pluginSync' = pluginSync /\ settings' = settings
        /\ owner # "starting" /\ (owner = "version" => Dying)
    <3>1. pluginSync' = pluginSync /\ settings' = settings /\ worker # "off"
      BY <1>6 DEF RetryVersion, plugin, bounds
    <3>2. ASSUME owner = "version", ~Dying PROVE FALSE
      <4>1. current > versionId /\ current = versionId /\ versionId \in Int
        BY <1>6, <3>2 DEF VersionInv, Early, Later, RetryVersion, AboutVersion, PluginTypeOK
      <4> QED
        BY <4>1
    <3> QED
      BY <3>1, <3>2 DEF LifeInv
  <2>3. OwnerPart' + SetterPart' = OwnerPart + SetterPart + 0
    BY <2>1, <2>2 DEF OwnerPart, SetterPart
  <2>4. Planned' + settings' = Planned + settings + 0
    BY <1>0, <1>2, <1>6, <2>2
  <2>5. CASE versionCounter < MaxRetries /\ counter' = counter + 1
    <3>1. RetryPart' = 0 \/ RetryPart' = MaxRetries - (versionCounter + 1)
      BY <1>0, <2>1, <2>2, <2>5 DEF RetryPart
    <3>2. RetryPart >= MaxRetries - versionCounter
      BY <1>0, <2>1, <2>2, <2>5 DEF RetryPart, PluginTypeOK
    <3>3. RetryPart' + 1 + 0 <= RetryPart + 0
      BY <1>0, <2>5, <3>1, <3>2
    <3> QED
      BY <1>0, <2>3, <2>4, <2>5, <3>3, Ledger
  <2>6. CASE versionCounter >= MaxRetries /\ counter' = counter
    <3>1. RetryPart' = 0 /\ RetryPart >= 0
      BY <1>0, <2>1, <2>2, <2>6 DEF RetryPart, CameraAssumption
    <3>2. counter' = counter + 0 /\ RetryPart' <= RetryPart
      BY <2>6, <3>1 DEF HttpTypeOK
    <3> QED
      BY <1>0, <2>3, <2>4, <3>2, Afford
  <2> QED
    BY <1>6, <2>5, <2>6, RetryFacts
<1> DEFINE Special == StartLock \/ StartThread \/ EnqueueVersion \/ AssignVersionId \/ RetryVersion
<1>7. CASE ~Special
  <2>1. Still /\ RetryPart' <= RetryPart
    BY <1>7, OthersAreStill, StillRetries
  <2>2. owner' = owner \/ {owner, owner'} \cap {"starting", "version", "assign"} = {}
    BY <2>1 DEF Still
  <2>3. Planned' = Planned
    BY <1>2, <1>7
  <2>4. CASE QueuesNothing
    <3>1. OwnerPart' = OwnerPart \/ OwnerPart' = 0
      BY <2>2, <2>4 DEF QueuesNothing, OwnerPart
    <3>2. SetterPart' = SetterPart \/ SetterPart' = 0
      BY <2>4 DEF QueuesNothing, SetterPart
    <3>3. OwnerPart \in 0..2 /\ SetterPart \in 0..1
      BY DEF OwnerPart, SetterPart
    <3>4. PICK owing \in Int : /\ OwnerPart' + SetterPart' = OwnerPart + SetterPart + owing
                               /\ owing <= 0
      <4>1. CASE OwnerPart' = OwnerPart /\ SetterPart' = SetterPart
        <5>1. OwnerPart' + SetterPart' = OwnerPart + SetterPart + 0
          BY <3>3, <4>1
        <5> QED
          BY <5>1
      <4>2. CASE OwnerPart' = OwnerPart /\ SetterPart' = 0
        <5>1. OwnerPart' + SetterPart' = OwnerPart + SetterPart + (-SetterPart)
          BY <3>3, <4>2
        <5> QED
          BY <3>3, <5>1
      <4>3. CASE OwnerPart' = 0 /\ SetterPart' = SetterPart
        <5>1. OwnerPart' + SetterPart' = OwnerPart + SetterPart + (-OwnerPart)
          BY <3>3, <4>3
        <5> QED
          BY <3>3, <5>1
      <4>4. CASE OwnerPart' = 0 /\ SetterPart' = 0
        <5>1. OwnerPart' + SetterPart' = OwnerPart + SetterPart + (-(OwnerPart + SetterPart))
          BY <3>3, <4>4
        <5> QED
          BY <3>3, <5>1
      <4> QED
        BY <3>1, <3>2, <4>1, <4>2, <4>3, <4>4
    <3>5. counter' = counter + 0 /\ Planned' + settings' = Planned + settings + 0
      BY <1>0, <2>3, <2>4 DEF QueuesNothing, HttpTypeOK
    <3> QED
      BY <1>0, <2>1, <3>4, <3>5, Afford
  <2>5. CASE ApplyCurrentConfiguration
    <3>1. OwnerPart' + SetterPart' = OwnerPart + SetterPart + (-1)
      BY <2>5 DEF ApplyCurrentConfiguration, Go, OwnerPart, SetterPart
    <3>2. counter' = counter + 1 /\ Planned' + settings' = Planned + settings + 0
      BY <1>0, <2>3, <2>5 DEF ApplyCurrentConfiguration, Enqueue, bounds
    <3> QED
      BY <1>0, <2>1, <3>1, <3>2, Afford
  <2>6. CASE SetPropertyLock
    <3>1. OwnerPart' + SetterPart' = OwnerPart + SetterPart + 1
      BY <2>6 DEF SetPropertyLock, OwnerPart, SetterPart
    <3>2. counter' = counter + 0 /\ Planned' + settings' = Planned + settings + 1
      BY <1>0, <2>3, <2>6 DEF SetPropertyLock, httpVars, HttpTypeOK
    <3> QED
      BY <1>0, <2>1, <3>1, <3>2, Afford
  <2>7. CASE SetProperty
    <3>1. OwnerPart' + SetterPart' = OwnerPart + SetterPart + (-1)
      BY <2>7 DEF SetProperty, OwnerPart, SetterPart
    <3>2. Planned' + settings' = Planned + settings + 0
      BY <1>0, <2>3, <2>7 DEF SetProperty, bounds
    <3>3. counter' = counter + 1 \/ counter' = counter + 0
      BY <2>7 DEF SetProperty, Enqueue, httpVars, HttpTypeOK
    <3>4. CASE counter' = counter + 1
      BY <1>0, <2>1, <3>1, <3>2, <3>4, Afford
    <3>5. CASE counter' = counter + 0
      BY <1>0, <2>1, <3>1, <3>2, <3>5, Afford
    <3> QED
      BY <3>3, <3>4, <3>5
  <2> QED
    BY <1>0, <1>7, <2>4, <2>5, <2>6, <2>7, OthersQueueNothing
<1> QED
  BY <1>1, <1>3, <1>4, <1>5, <1>6, <1>7

-----------------------------------------------------------------------------
(* All of it.                                                              *)

CameraInv == HttpInv /\ PluginTypeOK /\ LifeInv /\ VersionInv /\ BudgetInv

LEMMA CameraInitInv == CameraInit => CameraInv
<1> SUFFICES ASSUME CameraInit PROVE CameraInv
  OBVIOUS
<1> USE CameraAssumption DEF CameraAssumption, CameraInit, HttpInit
<1>1. HttpInv
  BY HttpInitInv
<1>2. PluginTypeOK
  BY DEF PluginTypeOK, Holding
<1>3. LifeInv
  BY DEF LifeInv, GivesUp
<1>4. VersionInv
  BY DEF VersionInv, Early
<1>5. BudgetInv
  <2>1. RetryPart = 0
    BY DEF RetryPart, Dying, Retriable
  <2>2. OwnerPart = 0 /\ SetterPart = 0 /\ starts * (MaxRetries + 2) = 0
    BY DEF OwnerPart, SetterPart
  <2> QED
    BY <2>1, <2>2 DEF BudgetInv
<1> QED
  BY <1>1, <1>2, <1>3, <1>4, <1>5 DEF CameraInv

LEMMA CameraNextInv == CameraInv /\ [CameraNext]_cameraVars => CameraInv'
<1> SUFFICES ASSUME CameraInv, [CameraNext]_cameraVars PROVE CameraInv'
  OBVIOUS
<1> USE DEF CameraInv
<1>1. HttpInv' /\ HttpTypeOK' /\ HttpTypeOK
  <2>1. HttpInv'
    BY CameraStep, HttpNextInv
  <2> QED
    BY <2>1 DEF HttpInv
<1>2. PluginTypeOK'
  BY <1>1, PluginTypes
<1>3. LifeInv' /\ VersionInv'
  BY LifeNext, VersionNext
<1>4. BudgetInv'
  BY <1>1, <1>2, BudgetNext
<1> QED
  BY <1>1, <1>2, <1>3, <1>4

LEMMA CameraAlways == CameraSpec => []CameraInv
BY CameraInitInv, CameraNextInv, PTL DEF CameraSpec

\* The plug-in's Sync is locked by its owner where it should be, and however answers, errors,
\* starts and properties interleave, no more is sent than two requests for each start, MaxRetries
\* repetitions of the first of them, and one for each property that was set.
THEOREM CameraTypes == CameraSpec => []CameraTypeOK
<1>1. CameraInv => CameraTypeOK
  <2> SUFFICES ASSUME CameraInv PROVE CameraTypeOK
    OBVIOUS
  <2>1. HttpTypeOK /\ PluginTypeOK
    BY DEF CameraInv, HttpInv
  <2>2. versionCounter \in 0..(MaxRetries + 1)
    BY CameraAssumption DEF CameraAssumption, CameraInv, PluginTypeOK, VersionInv
  <2>3. counter <= starts * (MaxRetries + 2) + settings
    <3> DEFINE all == starts * (MaxRetries + 2) + settings
    <3>1. counter \in Nat /\ OwnerPart \in Nat /\ SetterPart \in Nat /\ RetryPart \in Nat
      BY <2>1, PartsAreNumbers DEF HttpTypeOK
    <3>2. all \in Int
      <4>1. starts \in Int /\ settings \in Int /\ MaxRetries \in Int
        BY <2>1, CameraAssumption DEF CameraAssumption, PluginTypeOK
      <4> QED
        BY <4>1
    <3>3. counter + OwnerPart + SetterPart + RetryPart <= all
      BY DEF CameraInv, BudgetInv
    <3> HIDE DEF all
    <3>4. counter <= all
      BY <3>1, <3>2, <3>3
    <3> QED
      BY <3>4 DEF all
  <2> QED
    BY <2>1, <2>2, <2>3 DEF CameraTypeOK, PluginTypeOK
<1> QED
  BY <1>1, CameraAlways, PTL

\* What EnqueueGetRequest or EnqueuePostRequest is next called for, or may be.
RequestIsDue ==
  \/ owner \in {"version", "configuration"} \/ pluginSync = "setter"
  \/ InCallback /\ verdict = "open" /\ AboutVersion /\ worker = "inError"
     /\ versionCounter < MaxRetries

\* The bound on identifiers keeps no step from being taken: the plug-in behaves as if there
\* were none.
THEOREM NothingIsHeldUp == CameraSpec => [](RequestIsDue => counter < MaxCommands)
<1>1. CameraInv => (RequestIsDue => counter < MaxCommands)
  <2> SUFFICES ASSUME CameraInv, RequestIsDue PROVE counter < MaxCommands
    OBVIOUS
  <2> DEFINE all == starts * (MaxRetries + 2)
  <2> DEFINE most == MaxStarts * (MaxRetries + 2)
  <2>1. HttpTypeOK /\ PluginTypeOK
    BY DEF CameraInv, HttpInv
  <2>2. /\ counter \in Nat /\ OwnerPart \in Nat /\ SetterPart \in Nat /\ RetryPart \in Nat
        /\ starts \in Nat /\ MaxStarts \in Nat /\ MaxRetries \in Nat /\ settings \in Nat
        /\ MaxSettings \in Nat /\ MaxCommands \in Nat
        /\ starts <= MaxStarts /\ settings <= MaxSettings
    BY <2>1, PartsAreNumbers, CameraAssumption DEF CameraAssumption, PluginTypeOK, HttpTypeOK
  <2>3. all \in Int /\ most \in Int /\ all <= most
    BY <2>2
  <2>4. OwnerPart >= 1 \/ SetterPart >= 1 \/ RetryPart >= 1
    BY <2>1, <2>2 DEF RequestIsDue, OwnerPart, SetterPart, RetryPart, Retriable, PluginTypeOK
  <2>5. counter + OwnerPart + SetterPart + RetryPart <= all + settings
        /\ MaxCommands >= most + MaxSettings
    BY CameraAssumption DEF CameraAssumption, CameraInv, BudgetInv
  <2> HIDE DEF all, most
  <2> QED
    BY <2>2, <2>3, <2>4, <2>5
<1> QED
  BY <1>1, CameraAlways, PTL

=============================================================================
