------------------------ MODULE ManualResetEvent_proofs ------------------------
(***************************************************************************)
(* For any number of threads: nobody sleeps on through a signal, and the   *)
(* event made of a counter and a condition variable implements an event    *)
(* that lets go all waiting threads at once.                               *)
(***************************************************************************)
EXTENDS ManualResetEvent, Integers, TLAPS

\* The types of the variables the condition of a wait depends on.
EventTypes ==
  /\ triggered \in BOOLEAN /\ counter \in 0..CounterModulus - 1
  /\ pc \in [Threads -> {"outside", "asleep", "awake"}]
  /\ last \in [Threads -> 0..CounterModulus - 1]
  /\ timed \in [Threads -> BOOLEAN]

\* A thread that is inside a wait while the event is up has a signal to go by even when
\* it is reset: the counter differs from the one it remembers.
RaisedIsCounted == \A t \in Threads : triggered /\ pc[t] # "outside" => counter # last[t]

\* The inductive invariant.
Inv == EventTypes /\ NobodySleepsOn /\ RaisedIsCounted

\* One more signal is another value of the counter, even when that wraps.
LEMMA IncrementedChanges ==
  ASSUME NEW c \in 0..CounterModulus - 1
  PROVE  Incremented(c) \in 0..CounterModulus - 1 /\ Incremented(c) # c
BY ConstantsAssumption DEF ConstantsAssumption, Incremented

\* The inductive invariant holds at first.
LEMMA InitInv == Init => Inv
<1> SUFFICES ASSUME Init PROVE Inv
  OBVIOUS
<1>1. 0 \in 0..CounterModulus - 1
  BY ConstantsAssumption DEF ConstantsAssumption
<1>2. EventTypes
  BY <1>1 DEF Init, EventTypes
<1>3. NobodySleepsOn /\ RaisedIsCounted
  BY DEF Init, NobodySleepsOn, RaisedIsCounted
<1> QED BY <1>2, <1>3 DEF Inv

\* Every step preserves it.
LEMMA StepInv == Inv /\ [Next]_vars => Inv'
<1> SUFFICES ASSUME Inv, [Next]_vars PROVE Inv'
  OBVIOUS
<1> USE DEF Inv, EventTypes, NobodySleepsOn, RaisedIsCounted, Signalled
<1>1. CASE Signal
  BY <1>1, IncrementedChanges DEF Signal, waits
<1>2. CASE Reset
  BY <1>2 DEF Reset, waits
<1>3. ASSUME NEW t \in Threads, Wait(t) PROVE Inv'
  BY <1>3 DEF Wait
<1>4. ASSUME NEW t \in Threads, TimedWait(t) PROVE Inv'
  BY <1>4 DEF TimedWait
<1>5. ASSUME NEW t \in Threads, WakeUp(t) PROVE Inv'
  BY <1>5 DEF WakeUp, waits
<1>6. ASSUME NEW t \in Threads, Recheck(t) PROVE Inv'
  BY <1>6 DEF Recheck, waits
<1>7. CASE UNCHANGED vars
  BY <1>7 DEF vars, waits
<1> QED BY <1>1, <1>2, <1>3, <1>4, <1>5, <1>6, <1>7 DEF Next

\* It is an invariant.
LEMMA Invariance == Spec => []Inv
<1> QED BY InitInv, StepInv, PTL DEF Spec

\* However many threads wait and however signals, resets and wake-ups for no reason
\* interleave, no thread is left asleep by a signal.
THEOREM NoSleepThroughSignal == Spec => []NobodySleepsOn
<1>1. Inv => NobodySleepsOn
  BY DEF Inv
<1> QED BY <1>1, Invariance, PTL

-----------------------------------------------------------------------------
\* The abstract waiter of each thread.
Waiter == [t \in Threads |-> IF pc[t] = "outside" THEN "outside"
                             ELSE IF Signalled(t) THEN "released" ELSE "waiting"]

\* The initial states map to the abstract initial state.
LEMMA InitMaps == Init => Atomic!Init
BY DEF Init, Atomic!Init

\* Every step maps to a step of the abstract event or to a stutter.
LEMMA StepMaps == Inv /\ [Next]_vars => [Atomic!Next]_(Atomic!vars)
<1> SUFFICES ASSUME Inv, [Next]_vars PROVE Atomic!Next \/ UNCHANGED Atomic!vars
  OBVIOUS
<1> USE DEF Inv, EventTypes, NobodySleepsOn, RaisedIsCounted, Signalled
<1>1. CASE Signal
  BY <1>1, IncrementedChanges DEF Signal, waits, Atomic!Next, Atomic!Signal
<1>2. CASE Reset
  BY <1>2 DEF Reset, waits, Atomic!Next, Atomic!Reset
<1>3. ASSUME NEW t \in Threads, Wait(t) PROVE Atomic!Begin(t)
  BY <1>3 DEF Wait, Atomic!Begin
<1>4. ASSUME NEW t \in Threads, TimedWait(t) PROVE Atomic!Begin(t)
  BY <1>4 DEF TimedWait, Atomic!Begin
<1>5. ASSUME NEW t \in Threads, WakeUp(t) PROVE UNCHANGED Atomic!vars
  BY <1>5 DEF WakeUp, waits, Atomic!vars
<1>6. ASSUME NEW t \in Threads, Recheck(t) PROVE Atomic!Return(t) \/ UNCHANGED Atomic!vars
  <2>1. CASE Signalled(t) \/ timed[t]
    BY <1>6, <2>1 DEF Recheck, waits, Atomic!Return
  <2>2. CASE ~(Signalled(t) \/ timed[t])
    BY <1>6, <2>2 DEF Recheck, waits, Atomic!vars
  <2> QED BY <2>1, <2>2
<1>7. CASE UNCHANGED vars
  BY <1>7 DEF vars, waits, Atomic!vars
<1> QED BY <1>1, <1>2, <1>3, <1>4, <1>5, <1>6, <1>7 DEF Next, Atomic!Next

\* A manual reset event made of a counter, a flag and a condition variable lets go every
\* waiting thread when it is signalled, and nobody else.
THEOREM EventIsAtomic == Spec => ImplementsAtomicEvent
<1> QED BY InitMaps, StepMaps, Invariance, PTL DEF Spec, ImplementsAtomicEvent, Atomic!Spec

-----------------------------------------------------------------------------
\* Division with remainder, for any divisor.
LEMMA DivisionWithRemainder ==
  ASSUME NEW x \in Nat, NEW n \in Nat \ {0}
  PROVE  /\ x \div n \in Nat /\ x % n \in 0..n - 1
         /\ (x \div n) * n + (x % n) = x
<1>1. x % n \in 0..n - 1
  OBVIOUS
<1>2. x \div n \in Int
  OBVIOUS
<1>3. x = n * (x \div n) + (x % n)
  OBVIOUS
<1>4. ~(x \div n <= -1)
  <2> DEFINE q == x \div n
  <2> HIDE DEF q
  <2> SUFFICES ASSUME q \in Int, q <= -1, x = n * q + (x % n) PROVE FALSE
    BY <1>2, <1>3 DEF q
  <2>1. n * q <= -n
    OBVIOUS
  <2> QED BY <1>1, <2>1
<1>5. x \div n \in Nat
  BY <1>2, <1>4
<1>6. (x \div n) * n + (x % n) = x
  BY <1>1, <1>3, <1>5
<1> QED BY <1>1, <1>5, <1>6

\* Whatever is asked for, the deadline of a wait is a time: the nanoseconds are below a second.
LEMMA TimeAfterIsATime ==
  ASSUME NEW nsec \in Nat, NEW msec \in Nat
  PROVE  TimeAfter(nsec, msec) \in [sec : Nat, nsec : 0..NsPerSecond - 1]
<1> DEFINE total == nsec + ((msec * NsPerMs) % Word)
<1>1. NsPerSecond \in Nat \ {0} /\ Word \in Nat \ {0} /\ msec * NsPerMs \in Nat
  BY ConstantsAssumption DEF ConstantsAssumption
<1>2. total \in Nat
  BY <1>1, DivisionWithRemainder
<1>3. TimeAfter(nsec, msec) = [sec |-> total \div NsPerSecond, nsec |-> total % NsPerSecond]
  BY DEF TimeAfter
<1> HIDE DEF total
<1>4. total \div NsPerSecond \in Nat /\ total % NsPerSecond \in 0..NsPerSecond - 1
  BY <1>1, <1>2, DivisionWithRemainder
<1> QED BY <1>3, <1>4

\* The types of the times.
TimeTypes ==
  /\ waitTill \in [Threads -> [sec : Nat, nsec : 0..NsPerSecond - 1]]
  /\ due \in [Threads -> Nat]

\* The variables keep their types: a deadline is always one that pthread_cond_timedwait accepts,
\* even when the product has wrapped.
THEOREM EventTypeCorrect == Spec => []TypeOK
<1>1. Init => TimeTypes
  BY ConstantsAssumption DEF ConstantsAssumption, Init, TimeTypes
<1>2. TimeTypes /\ [Next]_vars => TimeTypes'
  <2> SUFFICES ASSUME TimeTypes, [Next]_vars PROVE TimeTypes'
    OBVIOUS
  <2>1. ASSUME NEW t \in Threads, TimedWait(t) PROVE TimeTypes'
    <3>1. PICK nsec \in StartNanos, msec \in Msecs :
            /\ waitTill' = [waitTill EXCEPT ![t] = TimeAfter(nsec, msec)]
            /\ due' = [due EXCEPT ![t] = nsec + msec * NsPerMs]
      BY <2>1 DEF TimedWait
    <3>2. nsec \in Nat /\ msec \in Nat /\ nsec + msec * NsPerMs \in Nat
      BY ConstantsAssumption DEF ConstantsAssumption
    <3> QED BY <3>1, <3>2, TimeAfterIsATime DEF TimeTypes
  <2>2. ASSUME UNCHANGED <<waitTill, due>> PROVE TimeTypes'
    BY <2>2 DEF TimeTypes
  <2> QED BY <2>1, <2>2 DEF Next, Signal, Reset, Wait, WakeUp, Recheck, waits, vars
<1>3. Inv /\ TimeTypes => TypeOK
  BY DEF Inv, EventTypes, TimeTypes, TypeOK
<1> QED BY <1>1, <1>2, <1>3, Invariance, PTL DEF Spec

\* While the product of a wait fits its 32 bits, carrying the sum over to seconds is exact.
LEMMA TimeAfterIsExact ==
  ASSUME NEW nsec \in Nat, NEW msec \in Nat, msec * NsPerMs < Word
  PROVE  /\ nsec + msec * NsPerMs \in Nat
         /\ TimeAfter(nsec, msec) \in [sec : Nat, nsec : Nat]
         /\ TimeAfter(nsec, msec).sec * NsPerSecond + TimeAfter(nsec, msec).nsec
              = nsec + msec * NsPerMs
<1> DEFINE total == nsec + msec * NsPerMs
<1>1. total \in Nat /\ NsPerSecond \in Nat \ {0}
  BY ConstantsAssumption DEF ConstantsAssumption
<1>2. (msec * NsPerMs) % Word = msec * NsPerMs
  BY ConstantsAssumption DEF ConstantsAssumption
<1>3. TimeAfter(nsec, msec) = [sec |-> total \div NsPerSecond, nsec |-> total % NsPerSecond]
  BY <1>2 DEF TimeAfter
<1> HIDE DEF total
<1>4. /\ total \div NsPerSecond \in Nat /\ total % NsPerSecond \in Nat
      /\ (total \div NsPerSecond) * NsPerSecond + (total % NsPerSecond) = total
  BY <1>1, DivisionWithRemainder
<1>5. /\ TimeAfter(nsec, msec) \in [sec : Nat, nsec : Nat]
      /\ TimeAfter(nsec, msec).sec * NsPerSecond + TimeAfter(nsec, msec).nsec = total
  BY <1>3, <1>4
<1> QED BY <1>1, <1>5 DEF total

\* Types of the deadlines, with what they are meant to be.
Deadlines ==
  /\ waitTill \in [Threads -> [sec : Nat, nsec : Nat]]
  /\ due \in [Threads -> Nat]
  /\ WaitsAsLongAsAsked

\* As long as no thread asks for 2^32 ns or more every timed wait waits till when it was
\* asked to, carries into the next second included.
THEOREM ShortWaitsAreExact ==
  ASSUME \A msec \in Msecs : msec * NsPerMs < Word
  PROVE  Spec => []WaitsAsLongAsAsked
<1>1. Init => Deadlines
  BY ConstantsAssumption DEF ConstantsAssumption, Init, Deadlines, WaitsAsLongAsAsked
<1>2. Deadlines /\ [Next]_vars => Deadlines'
  <2> SUFFICES ASSUME Deadlines, [Next]_vars PROVE Deadlines'
    OBVIOUS
  <2>1. ASSUME NEW t \in Threads, TimedWait(t) PROVE Deadlines'
    <3>1. PICK nsec \in StartNanos, msec \in Msecs :
            /\ waitTill' = [waitTill EXCEPT ![t] = TimeAfter(nsec, msec)]
            /\ due' = [due EXCEPT ![t] = nsec + msec * NsPerMs]
      BY <2>1 DEF TimedWait
    <3>2. nsec \in Nat /\ msec \in Nat /\ msec * NsPerMs < Word
      BY ConstantsAssumption DEF ConstantsAssumption
    <3> DEFINE till == TimeAfter(nsec, msec)
             end  == nsec + msec * NsPerMs
    <3>3. till \in [sec : Nat, nsec : Nat] /\ end \in Nat
          /\ till.sec * NsPerSecond + till.nsec = end
      BY <3>2, TimeAfterIsExact
    <3>4. waitTill' = [waitTill EXCEPT ![t] = till] /\ due' = [due EXCEPT ![t] = end]
      BY <3>1
    <3> HIDE DEF till, end
    <3> QED BY <3>3, <3>4 DEF Deadlines, WaitsAsLongAsAsked
  <2>2. ASSUME UNCHANGED <<waitTill, due>> PROVE Deadlines'
    BY <2>2 DEF Deadlines, WaitsAsLongAsAsked
  <2> QED BY <2>1, <2>2 DEF Next, Signal, Reset, Wait, WakeUp, Recheck, waits, vars
<1>3. Deadlines => WaitsAsLongAsAsked
  BY DEF Deadlines
<1> QED BY <1>1, <1>2, <1>3, PTL DEF Spec

=============================================================================
