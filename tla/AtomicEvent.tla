----------------------------- MODULE AtomicEvent -----------------------------
(***************************************************************************)
(* What a manual reset event promises: signalling it raises it and lets go *)
(* every thread that is waiting, once and for all, even if the event is    *)
(* reset before that thread gets to run; it stays up, letting go whoever   *)
(* comes, until it is reset.  A timed wait may also end without a signal.  *)
(***************************************************************************)

CONSTANT Threads

VARIABLES
  raised,    \* the event is signalled
  waiter,    \* each thread: outside, waiting, or let go but still inside
  timed      \* the wait of the thread has a time limit

vars == <<raised, waiter, timed>>

Init ==
  /\ raised = FALSE
  /\ waiter = [t \in Threads |-> "outside"]
  /\ timed = [t \in Threads |-> FALSE]

\* Whether the wait ends at once or begins is decided by the event alone.
Begin(t) ==
  /\ waiter[t] = "outside"
  /\ ~raised
  /\ waiter' = [waiter EXCEPT ![t] = "waiting"]
  /\ \E limited \in BOOLEAN : timed' = [timed EXCEPT ![t] = limited]
  /\ UNCHANGED raised

Signal ==
  /\ raised' = TRUE
  /\ waiter' = [t \in Threads |-> IF waiter[t] = "waiting" THEN "released" ELSE waiter[t]]
  /\ UNCHANGED timed

Reset ==
  /\ raised' = FALSE
  /\ UNCHANGED <<waiter, timed>>

Return(t) ==
  /\ waiter[t] = "released" \/ (waiter[t] = "waiting" /\ timed[t])
  /\ waiter' = [waiter EXCEPT ![t] = "outside"]
  /\ UNCHANGED <<raised, timed>>

Next == Signal \/ Reset \/ \E t \in Threads : Begin(t) \/ Return(t)

Spec == Init /\ [][Next]_vars

=============================================================================
