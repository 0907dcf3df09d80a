-------------------------- MODULE HttpCommandsThread --------------------------
(***************************************************************************)
(* The thread that sends a device's HTTP commands one after the other      *)
(* (afx_video_mjpeg+/XHttpCommandsThread.cpp) with whoever uses it.        *)
(*                                                                         *)
(* Sync is held while the listener is called (InCallback) and otherwise    *)
(* for one step at a time; the worker's own calls of it are recursive.     *)
(* QueueSync is held for one step.  Events are as module AtomicEvent says. *)
(* Of libcurl it matters when a transfer reports an error, when it has     *)
(* ended and whether the answer was 200.                                   *)
(***************************************************************************)
EXTENDS Naturals, Sequences

CONSTANTS
  Urls,            (* what commands are sent to                             *)
  MaxCommands      (* bound: so many commands are queued in all             *)

ASSUME CommandsAssumption == MaxCommands \in Nat

VARIABLES
  queue,           (* CommandQueue                                          *)
  counter,         (* CommandCounter                                        *)
  commandEvent,    (* CommandEvent                                          *)
  exitEvent,       (* ExitEvent                                             *)
  listener,        (* Listener is set                                       *)
  worker,          (* where the thread is in ControlLoop                    *)
  resume,          (* where it goes on after the listener was called        *)
  current,         (* CurrentCommand.Id, or 0 as what the listener is given *)
  failed,          (* FailureDetected                                       *)
  told,            (* history: what the current command was reported as     *)
  settled          (* history: commands reported, cleared or interrupted    *)

events   == <<commandEvent, exitEvent>>
thread   == <<worker, resume, current, failed>>
outcome  == <<told, settled>>
httpVars == <<queue, counter, events, listener, thread, outcome>>

Command    == [id : 1..MaxCommands, url : Urls]
IsRunning  == worker # "off"
InCallback == worker \in {"inError", "inCompletion"}

HttpInit ==
  /\ queue = <<>> /\ counter = 0
  /\ commandEvent = FALSE /\ exitEvent = FALSE
  /\ listener = FALSE
  /\ worker = "off" /\ resume = "off" /\ current = 0 /\ failed = FALSE
  /\ told = {} /\ settled = {}

-----------------------------------------------------------------------------
(* What others do.  Those that lock Sync wait while the listener is called, unless it is *)
(* the listener that does it.                                              *)

\* A waiting thread goes on when commandEvent is signalled.
Woken == IF worker = "blocked" THEN "pop" ELSE worker

\* There is a thread already, or it cannot be created: only ExitEvent is reset.
HttpStart ==
  /\ ~InCallback
  /\ exitEvent' = FALSE
  /\ \/ ~IsRunning /\ worker' = "init"
     \/ UNCHANGED worker
  /\ UNCHANGED <<queue, counter, commandEvent, listener, resume, current, failed, outcome>>

\* Faulty: the thread is not woken up.
SignalThread_Quietly ==
  /\ exitEvent' = (exitEvent \/ IsRunning)
  /\ UNCHANGED <<queue, counter, commandEvent, listener, thread, outcome>>

\* SignalToStop, and WaitForStop before it joins.
SignalThread ==
  /\ exitEvent' = (exitEvent \/ IsRunning)
  /\ commandEvent' = (commandEvent \/ IsRunning)
  /\ worker' = Woken
  /\ UNCHANGED <<queue, counter, listener, resume, current, failed, outcome>>

\* Faulty: Sync is not locked.
SetListener_Unlocked(isSet) ==
  /\ listener' = isSet
  /\ UNCHANGED <<queue, counter, events, thread, outcome>>

SetListener(isSet) ==
  /\ ~InCallback
  /\ listener' = isSet
  /\ UNCHANGED <<queue, counter, events, thread, outcome>>

\* EnqueueGetRequest and EnqueuePostRequest.
Enqueue(url) ==
  /\ counter < MaxCommands
  /\ counter' = counter + 1
  /\ queue' = Append(queue, [id |-> counter', url |-> url])
  /\ commandEvent' = TRUE
  /\ worker' = Woken
  /\ UNCHANGED <<exitEvent, listener, resume, current, failed, outcome>>

\* Nothing calls ClearRequests, which clears the commands to one URL.
ClearRequestsQueue ==
  /\ queue' = <<>>
  /\ commandEvent' = FALSE
  /\ settled' = settled \cup {queue[i].id : i \in DOMAIN queue}
  /\ UNCHANGED <<counter, exitEvent, listener, thread, told>>

-----------------------------------------------------------------------------
(* ControlLoop.                                                            *)

\* Faulty: an error is reported whether or not there was one before.
NotifyError_Again(id, next) ==
  /\ failed' = TRUE
  /\ told' = told \cup {"error"}
  /\ settled' = settled \cup ({id} \ {0})
  /\ worker' = IF listener THEN "inError" ELSE next
  /\ resume' = next

\* Only the first error of a command is reported.
NotifyError(id, next) ==
  /\ failed' = TRUE
  /\ told' = IF failed THEN told ELSE told \cup {"error"}
  /\ settled' = IF failed THEN settled ELSE settled \cup ({id} \ {0})
  /\ worker' = IF listener /\ ~failed THEN "inError" ELSE next
  /\ resume' = next

\* There may be no memory for the buffer or no libcurl session.
WorkerInit ==
  /\ worker = "init"
  /\ \/ worker' = "test" /\ UNCHANGED <<resume, failed, outcome>>
     \/ NotifyError(0, "off")
  /\ current' = 0
  /\ UNCHANGED <<queue, counter, events, listener>>

WorkerTest ==
  /\ worker = "test"
  /\ worker' = IF exitEvent THEN "off" ELSE "wait"
  /\ current' = IF exitEvent THEN current ELSE 0
  /\ UNCHANGED <<queue, counter, events, listener, resume, failed, outcome>>

WorkerWait ==
  /\ worker = "wait"
  /\ worker' = IF commandEvent THEN "pop" ELSE "blocked"
  /\ UNCHANGED <<queue, counter, events, listener, resume, current, failed, outcome>>

\* Faulty: the event is reset although more commands are queued.
WorkerPop_Resets ==
  /\ worker = "pop"
  /\ queue' = IF queue = <<>> THEN queue ELSE Tail(queue)
  /\ current' = IF queue = <<>> THEN 0 ELSE Head(queue).id
  /\ commandEvent' = FALSE
  /\ failed' = (queue = <<>> /\ failed)
  /\ told' = {}
  /\ worker' = IF queue = <<>> THEN "test" ELSE "perform"
  /\ UNCHANGED <<counter, exitEvent, listener, resume, settled>>

\* Faulty: FailureDetected stays as the last command left it.
WorkerPop_KeepsFailure ==
  /\ worker = "pop"
  /\ queue' = IF queue = <<>> THEN queue ELSE Tail(queue)
  /\ current' = IF queue = <<>> THEN 0 ELSE Head(queue).id
  /\ commandEvent' = (commandEvent /\ queue' # <<>>)
  /\ told' = {}
  /\ worker' = IF queue = <<>> THEN "test" ELSE "perform"
  /\ UNCHANGED <<counter, exitEvent, listener, resume, failed, settled>>

\* The signal may have been for a stop, or for commands since cleared.
WorkerPop ==
  /\ worker = "pop"
  /\ queue' = IF queue = <<>> THEN queue ELSE Tail(queue)
  /\ current' = IF queue = <<>> THEN 0 ELSE Head(queue).id
  /\ commandEvent' = (commandEvent /\ queue' # <<>>)
  /\ failed' = (queue = <<>> /\ failed)
  /\ told' = {}
  /\ worker' = IF queue = <<>> THEN "test" ELSE "perform"
  /\ UNCHANGED <<counter, exitEvent, listener, resume, settled>>

\* The first curl_multi_perform.
WorkerPerform ==
  /\ worker = "perform"
  /\ \/ worker' = "request" /\ UNCHANGED <<resume, failed, outcome>>
     \/ NotifyError(current, "test")
  /\ UNCHANGED <<queue, counter, events, listener, current>>

\* A round of the inner loop: it is told to exit or has failed; or something goes wrong (a
\* time out, too much data), maybe as the transfer ends; or it ends.
WorkerRequest ==
  /\ worker = "request"
  /\ \/ /\ exitEvent \/ failed
        /\ worker' = "test"
        /\ settled' = settled \cup {current}
        /\ UNCHANGED <<resume, failed, told>>
     \/ /\ ~exitEvent /\ ~failed
        /\ \/ worker' = "done" /\ UNCHANGED <<resume, failed, outcome>>
           \/ \E next \in {"request", "done"} : NotifyError(current, next)
  /\ UNCHANGED <<queue, counter, events, listener, current>>

\* The answer is 200 or not. NotifyCompletion does not look at FailureDetected.
WorkerDone ==
  /\ worker = "done"
  /\ \/ NotifyError(current, "test")
     \/ /\ told' = told \cup {"completion"}
        /\ settled' = settled \cup {current}
        /\ worker' = IF listener THEN "inCompletion" ELSE "test"
        /\ resume' = "test"
        /\ UNCHANGED failed
  /\ UNCHANGED <<queue, counter, events, listener, current>>

\* The listener returns.
WorkerReturn ==
  /\ InCallback
  /\ worker' = resume
  /\ UNCHANGED <<queue, counter, events, listener, resume, current, failed, outcome>>

Worker ==
  \/ WorkerInit \/ WorkerTest \/ WorkerWait \/ WorkerPop \/ WorkerPerform
  \/ WorkerRequest \/ WorkerDone

HttpNext ==
  \/ HttpStart \/ SignalThread \/ ClearRequestsQueue
  \/ \E isSet \in BOOLEAN : SetListener(isSet)
  \/ \E url \in Urls : Enqueue(url)
  \/ Worker \/ WorkerReturn

HttpSpec == HttpInit /\ [][HttpNext]_httpVars

-----------------------------------------------------------------------------
(* Properties.                                                             *)

HttpTypeOK ==
  /\ queue \in Seq(Command) /\ counter \in 0..MaxCommands
  /\ commandEvent \in BOOLEAN /\ exitEvent \in BOOLEAN /\ listener \in BOOLEAN
  /\ worker \in {"off", "init", "test", "wait", "blocked", "pop", "perform", "request", "done",
                 "inError", "inCompletion"}
  /\ resume \in {"off", "test", "request", "done"}
  /\ current \in 0..counter /\ failed \in BOOLEAN
  /\ told \subseteq {"error", "completion"} /\ settled \subseteq 1..counter

\* No wake-up is lost: whatever is queued, popped and cleared in whatever order, the thread
\* never goes to sleep, or sleeps on, over a command.
QueuedIsSignalled == queue # <<>> => commandEvent /\ worker # "blocked"

\* Commands wait in the order of their identifiers, after the one under way, and nothing is
\* reported of a command that is still queued.
InOrder ==
  /\ \A i \in DOMAIN queue : current < queue[i].id /\ queue[i].id \notin settled
  /\ \A i, j \in DOMAIN queue : i < j => queue[i].id < queue[j].id

\* No command is lost: each is queued, under way, or has been answered, cleared or
\* interrupted by a stop.
EveryCommandIsAccounted ==
  \A id \in 1..counter :
    \/ \E i \in DOMAIN queue : queue[i].id = id
    \/ id \in settled
    \/ id = current /\ worker \in {"perform", "request", "done"}

\* The listener is told of at most one error and at most one completion of a command, and
\* of no error after its completion.
ReportedOnce ==
  [][/\ worker # "inError" /\ worker' = "inError" /\ current' # 0 => told = {}
     /\ worker # "inCompletion" /\ worker' = "inCompletion" => "completion" \notin told
    ]_httpVars

=============================================================================
