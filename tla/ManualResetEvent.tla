--------------------------- MODULE ManualResetEvent ---------------------------
(***************************************************************************)
(* The manual reset event all threads of the system meet at, as made of a  *)
(* mutex and a condition variable (XManualResetEventImpl_PThreads.cpp; the *)
(* C++11 implementation differs only in how it computes the time to wait   *)
(* till).  The mutex is held for a few statements at a time and released   *)
(* only by leaving or by going to sleep, so a step is what is done between *)
(* getting it and releasing it.  A thread that wakes up has to get it once *)
(* more, and anything may have been done to the event by then.             *)
(***************************************************************************)
EXTENDS Naturals

CONSTANTS
  Threads,         (* those that wait; anyone signals and resets            *)
  CounterModulus,  (* Counter is a uint32_t: 2^32 in the code               *)
  Word,            (* so is the product msec * 1000 * 1000: 2^32, scaled    *)
  NsPerMs,         (* 1000 * 1000, scaled                                   *)
  NsPerSecond,     (* 1000000000, scaled                                    *)
  Msecs,           (* how long threads ask to wait                          *)
  StartNanos       (* values of tv_nsec when they ask; tv_sec is then 0     *)

ASSUME ConstantsAssumption ==
  /\ CounterModulus \in Nat \ {0, 1}
  /\ Word \in Nat \ {0} /\ NsPerMs \in Nat \ {0} /\ NsPerSecond \in Nat \ {0}
  /\ Msecs \subseteq Nat /\ StartNanos \subseteq 0..NsPerSecond - 1

VARIABLES
  triggered,       (* Triggered                                             *)
  counter,         (* Counter                                               *)
  pc,              (* outside, asleep in pthread_cond_wait, or awake in it  *)
  last,            (* lastCounterValue of each thread                       *)
  timed,           (* the thread is in Wait( msec )                         *)
  waitTill,        (* waitTill of its Wait( msec )                          *)
  due              (* history: when that wait is to end, in ns              *)

waits == <<last, timed, waitTill, due>>
vars  == <<triggered, counter, pc, waits>>

-----------------------------------------------------------------------------
\* Faulty: a full second is not carried.
TimeAfter_NoCarry(nsec, msec) ==
  LET totalNs == nsec + ((msec * NsPerMs) % Word)
  IN  [sec |-> (totalNs - nsec) \div NsPerSecond, nsec |-> totalNs % NsPerSecond]

\* Adding msec to the current time, in 32 bits but for the sum.
TimeAfter(nsec, msec) ==
  LET totalNs == nsec + ((msec * NsPerMs) % Word)
  IN  [sec |-> totalNs \div NsPerSecond, nsec |-> totalNs % NsPerSecond]

\* Faulty: the counter wraps one too late.
Incremented_Late(c) == IF c = CounterModulus THEN 0 ELSE c + 1

Incremented(c) == IF c = CounterModulus - 1 THEN 0 ELSE c + 1

\* The condition every waiting thread looks for.
Signalled(t) == triggered \/ counter # last[t]

Init ==
  /\ triggered = FALSE /\ counter = 0
  /\ pc = [t \in Threads |-> "outside"]
  /\ last = [t \in Threads |-> 0]
  /\ timed = [t \in Threads |-> FALSE]
  /\ waitTill = [t \in Threads |-> [sec |-> 0, nsec |-> 0]]
  /\ due = [t \in Threads |-> 0]

Reset ==
  /\ triggered' = FALSE
  /\ UNCHANGED <<counter, pc, waits>>

\* Faulty: pthread_cond_broadcast is pthread_cond_signal.
Signal_WakesOne ==
  /\ triggered' = TRUE
  /\ counter' = Incremented(counter)
  /\ \A t \in Threads : pc[t] # "outside" => last[t] # counter'
  /\ IF \E t \in Threads : pc[t] = "asleep"
       THEN \E t \in Threads : pc[t] = "asleep" /\ pc' = [pc EXCEPT ![t] = "awake"]
       ELSE UNCHANGED pc
  /\ UNCHANGED waits

\* A thread that was woken up gets the mutex before there are 2^32 more signals.
Signal ==
  /\ triggered' = TRUE
  /\ counter' = Incremented(counter)
  /\ \A t \in Threads : pc[t] # "outside" => last[t] # counter'
  /\ pc' = [t \in Threads |-> IF pc[t] = "asleep" THEN "awake" ELSE pc[t]]
  /\ UNCHANGED waits

\* Wait returns at once if the event is up, otherwise it remembers the counter.
Wait(t) ==
  /\ pc[t] = "outside"
  /\ ~triggered
  /\ pc' = [pc EXCEPT ![t] = "asleep"]
  /\ last' = [last EXCEPT ![t] = counter]
  /\ timed' = [timed EXCEPT ![t] = FALSE]
  /\ UNCHANGED <<triggered, counter, waitTill, due>>

TimedWait(t) ==
  /\ pc[t] = "outside"
  /\ ~triggered
  /\ pc' = [pc EXCEPT ![t] = "asleep"]
  /\ last' = [last EXCEPT ![t] = counter]
  /\ timed' = [timed EXCEPT ![t] = TRUE]
  /\ \E nsec \in StartNanos, msec \in Msecs :
       /\ waitTill' = [waitTill EXCEPT ![t] = TimeAfter(nsec, msec)]
       /\ due' = [due EXCEPT ![t] = nsec + msec * NsPerMs]
  /\ UNCHANGED <<triggered, counter>>

\* The time is up, or the thread wakes up for no reason at all.
WakeUp(t) ==
  /\ pc[t] = "asleep"
  /\ pc' = [pc EXCEPT ![t] = "awake"]
  /\ UNCHANGED <<triggered, counter, waits>>

\* Faulty: a thread that wakes up does not look again.
Recheck_NoLoop(t) ==
  /\ pc[t] = "awake"
  /\ pc' = [pc EXCEPT ![t] = "outside"]
  /\ UNCHANGED <<triggered, counter, waits>>

\* Faulty: a thread looks at the event only, not at the counter.
Recheck_NoCounter(t) ==
  /\ pc[t] = "awake"
  /\ pc' = [pc EXCEPT ![t] = IF triggered \/ timed[t] THEN "outside" ELSE "asleep"]
  /\ UNCHANGED <<triggered, counter, waits>>

\* The thread has the mutex once more.  Wait goes back to sleep if nothing was
\* signalled; Wait( msec ) leaves in any case, telling whether something was.
Recheck(t) ==
  /\ pc[t] = "awake"
  /\ pc' = [pc EXCEPT ![t] = IF Signalled(t) \/ timed[t] THEN "outside" ELSE "asleep"]
  /\ UNCHANGED <<triggered, counter, waits>>

Next ==
  \/ Signal \/ Reset
  \/ \E t \in Threads : Wait(t) \/ TimedWait(t) \/ WakeUp(t) \/ Recheck(t)

Spec == Init /\ [][Next]_vars

\* A thread that is awake gets the mutex at last; nobody need ever signal.
FairSpec == Spec /\ \A t \in Threads : WF_vars(Recheck(t))

-----------------------------------------------------------------------------
(* Properties.                                                             *)

TypeOK ==
  /\ triggered \in BOOLEAN /\ counter \in 0..CounterModulus - 1
  /\ pc \in [Threads -> {"outside", "asleep", "awake"}]
  /\ last \in [Threads -> 0..CounterModulus - 1]
  /\ timed \in [Threads -> BOOLEAN]
  /\ waitTill \in [Threads -> [sec : Nat, nsec : 0..NsPerSecond - 1]]
  /\ due \in [Threads -> Nat]

\* A thread never sleeps through a signal: while it is asleep nothing has been
\* signalled since it came.
NobodySleepsOn == \A t \in Threads : pc[t] = "asleep" => ~Signalled(t)

\* The implementation with a counter and a condition variable that may wake up for no
\* reason behaves like an event that lets go all waiting threads at once: a thread that
\* was inside Wait when Signal was called is let go, whatever is reset afterwards, and
\* no thread leaves Wait unless the event was signalled.
Atomic == INSTANCE AtomicEvent WITH
  raised <- triggered,
  waiter <- [t \in Threads |-> IF pc[t] = "outside" THEN "outside"
                               ELSE IF Signalled(t) THEN "released" ELSE "waiting"]

ImplementsAtomicEvent == Atomic!Spec

\* A thread that is inside a wait when the event is signalled leaves it in the end, even
\* if the event is reset at once and never signalled again.
SignalledLeave == \A t \in Threads : pc[t] # "outside" /\ Signalled(t) ~> pc[t] = "outside"

\* Wait( msec ) waits "the specified amount of time (milliseconds)".
WaitsAsLongAsAsked ==
  \A t \in Threads : waitTill[t].sec * NsPerSecond + waitTill[t].nsec = due[t]

=============================================================================
