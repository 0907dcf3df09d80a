------------------------ MODULE AutomationServer_proofs ------------------------
(***************************************************************************)
(* Proofs about AutomationServer for any number of video sources and       *)
(* scripting threads: no object is lost, doubled or destroyed under a      *)
(* running thread, none goes back to an earlier phase of its life, a       *)
(* server that is through with draining has none left, and every source    *)
(* lives as SourceLife has it.                                             *)
(***************************************************************************)
EXTENDS AutomationServer, TLAPS

Added      == addedSources \cup addedThreads
Running    == runningSources \cup runningThreads
Finalizing == finalizingSources \cup finalizingThreads

\* The six maps are disjoint and hold objects that were added.
MapsInv ==
  /\ deviceCounter \in Nat
  /\ addedSources \cup runningSources \cup finalizingSources \subseteq 1..deviceCounter
  /\ addedThreads \cup runningThreads \cup finalizingThreads \subseteq 1..deviceCounter
  /\ addedSources \cap runningSources = {} /\ addedSources \cap finalizingSources = {}
  /\ runningSources \cap finalizingSources = {}
  /\ addedThreads \cap runningThreads = {} /\ addedThreads \cap finalizingThreads = {}
  /\ runningThreads \cap finalizingThreads = {}
  /\ (addedSources \cup runningSources \cup finalizingSources)
       \cap (addedThreads \cup runningThreads \cup finalizingThreads) = {}

\* Only an object that is running or being finalized has a thread of its own at work.
ThreadsInv ==
  \A id \in Ids :
    /\ processing[id] \notin {"none", "done"} => id \in runningSources \cup finalizingSources
    /\ IsRunning(script[id]) => id \in runningThreads \cup finalizingThreads

\* While the server thread drains, nothing is added or running.
DrainInv == server \in {"draining", "waiting"} => Added = {} /\ Running = {}

\* The inductive invariant.
Inv == TypeOK /\ MapsInv /\ ThreadsInv /\ DrainInv

-----------------------------------------------------------------------------
\* The inductive invariant holds at first.
LEMMA InitInv == Init => Inv
<1> SUFFICES ASSUME Init PROVE Inv
  OBVIOUS
<1>1. TypeOK
  <2>1. 0 \in 0..MaxDevices
    BY MaxDevicesAssumption DEF MaxDevicesAssumption
  <2>2. exitEvent \in BOOLEAN /\ needToExit \in [Ids -> BOOLEAN]
    BY DEF Init
  <2> QED BY <2>1, <2>2 DEF Init, TypeOK, ThreadStates
<1>2. MapsInv
  BY DEF Init, MapsInv
<1>3. ThreadsInv
  BY DEF Init, ThreadsInv, IsRunning
<1>4. DrainInv
  BY DEF Init, DrainInv
<1> QED BY <1>1, <1>2, <1>3, <1>4 DEF Inv

\* Every step preserves the types.
LEMMA TypeStep ==
  ASSUME TypeOK, [Next]_vars
  PROVE  TypeOK'
<1> USE MaxDevicesAssumption DEF MaxDevicesAssumption, TypeOK, Ids, ThreadStates, sourceMaps,
        threadMaps, sourceState, serverState
<1>1. CASE Start
  BY <1>1 DEF Start
<1>2. CASE SignalToStop
  BY <1>2 DEF SignalToStop
<1>3. CASE AddVideoSource
  BY <1>3 DEF AddVideoSource
<1>4. CASE StartVideoSource
  BY <1>4 DEF StartVideoSource, StartSources
<1>5. CASE StartAllVideoSources
  BY <1>5 DEF StartAllVideoSources, StartSources
<1>6. CASE FinalizeVideoSource
  BY <1>6 DEF FinalizeVideoSource, FinalizeSources
<1>7. CASE AddThread
  BY <1>7 DEF AddThread
<1>8. CASE StartThread
  BY <1>8 DEF StartThread, StartThreads
<1>9. CASE StartAllThreads
  BY <1>9 DEF StartAllThreads, StartThreads
<1>10. CASE FinalizeThread
  BY <1>10 DEF FinalizeThread, FinalizeThreads
<1>11. CASE ServerPoll
  BY <1>11 DEF ServerPoll
<1>12. CASE CleanVisit
  <2>1. PICK id \in toVisit :
          /\ toVisit' = toVisit \ {id}
          /\ IF IsRunning(source[id])
               THEN UNCHANGED <<server, visiting, needToExit>>
               ELSE /\ server' = "joining" /\ visiting' = id
                    /\ needToExit' = [needToExit EXCEPT ![id] = TRUE]
    BY <1>12 DEF CleanVisit
  <2>2. UNCHANGED <<deviceCounter, sourceMaps, threadMaps, source, processing, listening, script,
                    exitEvent>>
    BY <1>12 DEF CleanVisit
  <2>3. needToExit' \in [Ids -> BOOLEAN]
    BY <2>1
  <2>4. /\ toVisit' \subseteq Ids /\ visiting' \in Ids \cup {0}
        /\ server' \in {"stopped", "polling", "cleaning", "joining", "exiting", "draining",
                        "waiting", "leaving"}
    BY <2>1
  <2> QED BY <2>2, <2>3, <2>4
<1>13. CASE CleanJoined
  BY <1>13 DEF CleanJoined
<1>14. CASE CleanThreads
  BY <1>14 DEF CleanThreads
<1>15. CASE DrainBegin
  BY <1>15 DEF DrainBegin, FinalizeSources, FinalizeThreads
<1>16. CASE DrainSignal
  BY <1>16 DEF DrainSignal
<1>17. CASE DrainWaited
  BY <1>17 DEF DrainWaited
<1>18. CASE DrainDone
  BY <1>18 DEF DrainDone
<1>19. CASE ServerExits
  BY <1>19 DEF ServerExits
<1>20. ASSUME NEW id \in Ids, ProcessingStarts(id) PROVE TypeOK'
  BY <1>20 DEF ProcessingStarts
<1>21. ASSUME NEW id \in Ids, ProcessingExits(id) PROVE TypeOK'
  BY <1>21 DEF ProcessingExits
<1>22. ASSUME NEW id \in Ids, SourceExits(id) PROVE TypeOK'
  BY <1>22 DEF SourceExits
<1>23. ASSUME NEW id \in Ids, ScriptExits(id) PROVE TypeOK'
  BY <1>23 DEF ScriptExits
<1>24. CASE UNCHANGED vars
  BY <1>24 DEF vars
<1> HIDE DEF TypeOK, Ids, ThreadStates
<1> QED BY <1>1, <1>2, <1>3, <1>4, <1>5, <1>6, <1>7, <1>8, <1>9, <1>10, <1>11, <1>12, <1>13,
         <1>14, <1>15, <1>16, <1>17, <1>18, <1>19, <1>20, <1>21, <1>22, <1>23, <1>24
       DEF Next, Methods, ServerThread, ObjectThreads

\* Every step keeps the maps disjoint: what enters one leaves another or is new.
LEMMA MapsStep ==
  ASSUME TypeOK, MapsInv, [Next]_vars
  PROVE  MapsInv'
<1> USE DEF TypeOK, MapsInv, sourceMaps, threadMaps, sourceState, serverState
<1>1. CASE Start
  BY <1>1 DEF Start
<1>2. CASE SignalToStop
  BY <1>2 DEF SignalToStop
<1>3. CASE AddVideoSource
  BY <1>3 DEF AddVideoSource
<1>4. CASE StartVideoSource
  BY <1>4 DEF StartVideoSource, StartSources
<1>5. CASE StartAllVideoSources
  BY <1>5 DEF StartAllVideoSources, StartSources
<1>6. CASE FinalizeVideoSource
  BY <1>6 DEF FinalizeVideoSource, FinalizeSources
<1>7. CASE AddThread
  BY <1>7 DEF AddThread
<1>8. CASE StartThread
  BY <1>8 DEF StartThread, StartThreads
<1>9. CASE StartAllThreads
  BY <1>9 DEF StartAllThreads, StartThreads
<1>10. CASE FinalizeThread
  BY <1>10 DEF FinalizeThread, FinalizeThreads
<1>11. CASE ServerPoll
  BY <1>11 DEF ServerPoll
<1>12. CASE CleanVisit
  BY <1>12 DEF CleanVisit
<1>13. CASE CleanJoined
  BY <1>13 DEF CleanJoined
<1>14. CASE CleanThreads
  BY <1>14 DEF CleanThreads
<1>15. CASE DrainBegin
  BY <1>15 DEF DrainBegin, FinalizeSources, FinalizeThreads
<1>16. CASE DrainSignal
  BY <1>16 DEF DrainSignal
<1>17. CASE DrainWaited
  BY <1>17 DEF DrainWaited
<1>18. CASE DrainDone
  BY <1>18 DEF DrainDone
<1>19. CASE ServerExits
  BY <1>19 DEF ServerExits
<1>20. ASSUME NEW id \in Ids, ProcessingStarts(id) PROVE MapsInv'
  BY <1>20 DEF ProcessingStarts
<1>21. ASSUME NEW id \in Ids, ProcessingExits(id) PROVE MapsInv'
  BY <1>21 DEF ProcessingExits
<1>22. ASSUME NEW id \in Ids, SourceExits(id) PROVE MapsInv'
  BY <1>22 DEF SourceExits
<1>23. ASSUME NEW id \in Ids, ScriptExits(id) PROVE MapsInv'
  BY <1>23 DEF ScriptExits
<1>24. CASE UNCHANGED vars
  BY <1>24 DEF vars
<1> HIDE DEF TypeOK, MapsInv
<1> QED BY <1>1, <1>2, <1>3, <1>4, <1>5, <1>6, <1>7, <1>8, <1>9, <1>10, <1>11, <1>12, <1>13,
         <1>14, <1>15, <1>16, <1>17, <1>18, <1>19, <1>20, <1>21, <1>22, <1>23, <1>24
       DEF Next, Methods, ServerThread, ObjectThreads

\* A step that takes an object out of its maps, or starts a thread, leaves no thread
\* at work without an object.
LEMMA ThreadsStep ==
  ASSUME TypeOK, MapsInv, ThreadsInv, [Next]_vars
  PROVE  ThreadsInv'
<1> USE DEF TypeOK, MapsInv, ThreadsInv, ThreadStates, IsRunning, sourceMaps, threadMaps,
        sourceState, serverState
<1>1. CASE Start
  BY <1>1 DEF Start
<1>2. CASE SignalToStop
  BY <1>2 DEF SignalToStop
<1>3. CASE AddVideoSource
  BY <1>3 DEF AddVideoSource
<1>4. CASE StartVideoSource
  BY <1>4 DEF StartVideoSource, StartSources
<1>5. CASE StartAllVideoSources
  BY <1>5 DEF StartAllVideoSources, StartSources
<1>6. CASE FinalizeVideoSource
  BY <1>6 DEF FinalizeVideoSource, FinalizeSources
<1>7. CASE AddThread
  BY <1>7 DEF AddThread
<1>8. CASE StartThread
  BY <1>8 DEF StartThread, StartThreads
<1>9. CASE StartAllThreads
  BY <1>9 DEF StartAllThreads, StartThreads
<1>10. CASE FinalizeThread
  BY <1>10 DEF FinalizeThread, FinalizeThreads
<1>11. CASE ServerPoll
  BY <1>11 DEF ServerPoll
<1>12. CASE CleanVisit
  BY <1>12 DEF CleanVisit
<1>13. CASE CleanJoined
  BY <1>13 DEF CleanJoined
<1>14. CASE CleanThreads
  BY <1>14 DEF CleanThreads
<1>15. CASE DrainBegin
  BY <1>15 DEF DrainBegin, FinalizeSources, FinalizeThreads
<1>16. CASE DrainSignal
  BY <1>16 DEF DrainSignal
<1>17. CASE DrainWaited
  BY <1>17 DEF DrainWaited
<1>18. CASE DrainDone
  BY <1>18 DEF DrainDone
<1>19. CASE ServerExits
  BY <1>19 DEF ServerExits
<1>20. ASSUME NEW id \in Ids, ProcessingStarts(id) PROVE ThreadsInv'
  BY <1>20 DEF ProcessingStarts
<1>21. ASSUME NEW id \in Ids, ProcessingExits(id) PROVE ThreadsInv'
  BY <1>21 DEF ProcessingExits
<1>22. ASSUME NEW id \in Ids, SourceExits(id) PROVE ThreadsInv'
  BY <1>22 DEF SourceExits
<1>23. ASSUME NEW id \in Ids, ScriptExits(id) PROVE ThreadsInv'
  BY <1>23 DEF ScriptExits
<1>24. CASE UNCHANGED vars
  BY <1>24 DEF vars
<1> HIDE DEF TypeOK, MapsInv, ThreadsInv, ThreadStates, IsRunning
<1> QED BY <1>1, <1>2, <1>3, <1>4, <1>5, <1>6, <1>7, <1>8, <1>9, <1>10, <1>11, <1>12, <1>13,
         <1>14, <1>15, <1>16, <1>17, <1>18, <1>19, <1>20, <1>21, <1>22, <1>23, <1>24
       DEF Next, Methods, ServerThread, ObjectThreads

\* No method runs while the server thread drains.
LEMMA DrainStep ==
  ASSUME TypeOK, DrainInv, [Next]_vars
  PROVE  DrainInv'
<1> USE DEF DrainInv, Added, Running, ServerHoldsSync, sourceMaps, threadMaps, sourceState,
        serverState
<1>1. CASE Start
  BY <1>1 DEF Start
<1>2. CASE SignalToStop
  BY <1>2 DEF SignalToStop
<1>3. CASE AddVideoSource
  BY <1>3 DEF AddVideoSource
<1>4. CASE StartVideoSource
  BY <1>4 DEF StartVideoSource, StartSources
<1>5. CASE StartAllVideoSources
  BY <1>5 DEF StartAllVideoSources, StartSources
<1>6. CASE FinalizeVideoSource
  BY <1>6 DEF FinalizeVideoSource, FinalizeSources
<1>7. CASE AddThread
  BY <1>7 DEF AddThread
<1>8. CASE StartThread
  BY <1>8 DEF StartThread, StartThreads
<1>9. CASE StartAllThreads
  BY <1>9 DEF StartAllThreads, StartThreads
<1>10. CASE FinalizeThread
  BY <1>10 DEF FinalizeThread, FinalizeThreads
<1>11. CASE ServerPoll
  BY <1>11 DEF ServerPoll
<1>12. CASE CleanVisit
  BY <1>12 DEF CleanVisit
<1>13. CASE CleanJoined
  BY <1>13 DEF CleanJoined
<1>14. CASE CleanThreads
  BY <1>14 DEF CleanThreads
<1>15. CASE DrainBegin
  BY <1>15 DEF DrainBegin, FinalizeSources, FinalizeThreads
<1>16. CASE DrainSignal
  BY <1>16 DEF DrainSignal
<1>17. CASE DrainWaited
  BY <1>17 DEF DrainWaited
<1>18. CASE DrainDone
  BY <1>18 DEF DrainDone
<1>19. CASE ServerExits
  BY <1>19 DEF ServerExits
<1>20. ASSUME NEW id \in Ids, ProcessingStarts(id) PROVE DrainInv'
  BY <1>20 DEF ProcessingStarts
<1>21. ASSUME NEW id \in Ids, ProcessingExits(id) PROVE DrainInv'
  BY <1>21 DEF ProcessingExits
<1>22. ASSUME NEW id \in Ids, SourceExits(id) PROVE DrainInv'
  BY <1>22 DEF SourceExits
<1>23. ASSUME NEW id \in Ids, ScriptExits(id) PROVE DrainInv'
  BY <1>23 DEF ScriptExits
<1>24. CASE UNCHANGED vars
  BY <1>24 DEF vars
<1> HIDE DEF DrainInv, Added, Running, ServerHoldsSync
<1> QED BY <1>1, <1>2, <1>3, <1>4, <1>5, <1>6, <1>7, <1>8, <1>9, <1>10, <1>11, <1>12, <1>13,
         <1>14, <1>15, <1>16, <1>17, <1>18, <1>19, <1>20, <1>21, <1>22, <1>23, <1>24
       DEF Next, Methods, ServerThread, ObjectThreads

\* The inductive invariant is one.
LEMMA Invariance == Spec => []Inv
<1>1. Inv /\ [Next]_vars => Inv'
  BY TypeStep, MapsStep, ThreadsStep, DrainStep DEF Inv
<1> QED BY InitInv, <1>1, PTL DEF Spec

-----------------------------------------------------------------------------
\* The maps, the objects' states and the server's state keep their types.
THEOREM TypeCorrect == Spec => []TypeOK
<1>1. Inv => TypeOK
  BY DEF Inv
<1> QED BY <1>1, Invariance, PTL

\* Disjoint maps in the form the runs check.
LEMMA MapsAreDisjoint == MapsInv => OneMapPerObject
<1> SUFFICES ASSUME MapsInv PROVE OneMapPerObject
  OBVIOUS
<1>1. \A i \in 1..6 : Maps[i] \subseteq 1..deviceCounter
  BY DEF MapsInv, Maps
<1>2. ASSUME NEW i \in 1..6, NEW j \in 1..6, i < j PROVE Maps[i] \cap Maps[j] = {}
  <2>1. i = 1 \/ i = 2 \/ i = 3 \/ i = 4 \/ i = 5
    BY <1>2
  <2>2. j = 2 \/ j = 3 \/ j = 4 \/ j = 5 \/ j = 6
    BY <1>2
  <2> QED BY <1>2, <2>1, <2>2 DEF MapsInv, Maps
<1> QED BY <1>1, <1>2 DEF OneMapPerObject

\* However methods, the server thread's polling and its drain interleave, no object is
\* in two maps and none is in a map that was never added.
THEOREM NeverInTwoMaps == Spec => []OneMapPerObject
<1>1. Inv => OneMapPerObject
  BY MapsAreDisjoint DEF Inv
<1> QED BY <1>1, Invariance, PTL

\* Destroying an object is safe: no thread of it is left that could use it.
THEOREM RemovedAreOver == Spec => []RemovedIsOver
<1>1. Inv => RemovedIsOver
  <2> SUFFICES ASSUME Inv, NEW id \in Ids, Phase(id) = 4
               PROVE  processing[id] \in {"none", "done"} /\ ~IsRunning(script[id])
    BY DEF RemovedIsOver
  <2>1. id \notin Added /\ id \notin Running /\ id \notin Finalizing
    BY DEF Phase, Inv, MapsInv, Added, Running, Finalizing
  <2> QED BY <2>1 DEF Inv, ThreadsInv, Running, Finalizing
<1> QED BY <1>1, Invariance, PTL

\* The server thread has emptied every map when it is through with draining.
THEOREM DrainIsComplete == Spec => DrainLeavesNothing
<1>1. Inv /\ [Next]_vars =>
        [server = "draining" /\ server' = "leaving" => \A id \in Ids : Phase(id)' \in {0, 4}]_vars
  <2> SUFFICES ASSUME Inv, [Next]_vars, server = "draining", server' = "leaving",
                      NEW id \in Ids
               PROVE  Phase(id)' \in {0, 4}
    OBVIOUS
  <2>1. DrainDone
    BY DEF Next, Methods, ServerThread, ObjectThreads, Start, SignalToStop, AddVideoSource,
           StartVideoSource, StartAllVideoSources, FinalizeVideoSource, AddThread, StartThread,
           StartAllThreads, FinalizeThread, ServerPoll, CleanVisit, CleanJoined, CleanThreads,
           DrainBegin, DrainSignal, DrainWaited, ServerExits, ProcessingStarts, ProcessingExits,
           SourceExits, ScriptExits, ServerHoldsSync, serverState, vars
  <2>2. Added' = {} /\ Running' = {} /\ Finalizing' = {}
    BY <2>1 DEF DrainDone, Inv, DrainInv, Added, Running, Finalizing
  <2> QED BY <2>2 DEF Phase, Added, Running, Finalizing
<1> QED BY <1>1, Invariance, PTL DEF Spec, DrainLeavesNothing

-----------------------------------------------------------------------------
\* What a step may do to the maps, as seen from an object: each map takes only objects
\* from those before it, or new ones.
MovesForward ==
  /\ deviceCounter' \in Nat /\ deviceCounter' >= deviceCounter
  /\ \A id \in Ids : id <= deviceCounter =>
       /\ id \in Added' => id \in Added
       /\ id \in Running' => id \in Added \cup Running
       /\ id \in Finalizing' => id \in Added \cup Running \cup Finalizing

\* Every step moves objects forward only.
LEMMA StepMovesForward ==
  ASSUME TypeOK, MapsInv, [Next]_vars
  PROVE  MovesForward
<1> USE DEF TypeOK, MapsInv, MovesForward, Added, Running, Finalizing, sourceMaps, threadMaps,
        sourceState, serverState
<1>1. CASE Start
  BY <1>1 DEF Start
<1>2. CASE SignalToStop
  BY <1>2 DEF SignalToStop
<1>3. CASE AddVideoSource
  BY <1>3 DEF AddVideoSource
<1>4. CASE StartVideoSource
  BY <1>4 DEF StartVideoSource, StartSources
<1>5. CASE StartAllVideoSources
  BY <1>5 DEF StartAllVideoSources, StartSources
<1>6. CASE FinalizeVideoSource
  BY <1>6 DEF FinalizeVideoSource, FinalizeSources
<1>7. CASE AddThread
  BY <1>7 DEF AddThread
<1>8. CASE StartThread
  BY <1>8 DEF StartThread, StartThreads
<1>9. CASE StartAllThreads
  BY <1>9 DEF StartAllThreads, StartThreads
<1>10. CASE FinalizeThread
  BY <1>10 DEF FinalizeThread, FinalizeThreads
<1>11. CASE ServerPoll
  BY <1>11 DEF ServerPoll
<1>12. CASE CleanVisit
  BY <1>12 DEF CleanVisit
<1>13. CASE CleanJoined
  BY <1>13 DEF CleanJoined
<1>14. CASE CleanThreads
  BY <1>14 DEF CleanThreads
<1>15. CASE DrainBegin
  BY <1>15 DEF DrainBegin, FinalizeSources, FinalizeThreads
<1>16. CASE DrainSignal
  BY <1>16 DEF DrainSignal
<1>17. CASE DrainWaited
  BY <1>17 DEF DrainWaited
<1>18. CASE DrainDone
  BY <1>18 DEF DrainDone
<1>19. CASE ServerExits
  BY <1>19 DEF ServerExits
<1>20. ASSUME NEW id \in Ids, ProcessingStarts(id) PROVE MovesForward
  BY <1>20 DEF ProcessingStarts
<1>21. ASSUME NEW id \in Ids, ProcessingExits(id) PROVE MovesForward
  BY <1>21 DEF ProcessingExits
<1>22. ASSUME NEW id \in Ids, SourceExits(id) PROVE MovesForward
  BY <1>22 DEF SourceExits
<1>23. ASSUME NEW id \in Ids, ScriptExits(id) PROVE MovesForward
  BY <1>23 DEF ScriptExits
<1>24. CASE UNCHANGED vars
  BY <1>24 DEF vars
<1> HIDE DEF TypeOK, MapsInv, MovesForward, Added, Running, Finalizing
<1> QED BY <1>1, <1>2, <1>3, <1>4, <1>5, <1>6, <1>7, <1>8, <1>9, <1>10, <1>11, <1>12, <1>13,
         <1>14, <1>15, <1>16, <1>17, <1>18, <1>19, <1>20, <1>21, <1>22, <1>23, <1>24
       DEF Next, Methods, ServerThread, ObjectThreads

\* The phase of an object, of which at most one of the maps has it.
LEMMA PhaseOfObject ==
  ASSUME MapsInv, NEW id \in Ids
  PROVE  /\ id \in Added => Phase(id) = 1
         /\ id \in Running => Phase(id) = 2
         /\ id \in Finalizing => Phase(id) = 3
         /\ id \notin Added \cup Running \cup Finalizing =>
              Phase(id) = IF id > deviceCounter THEN 0 ELSE 4
BY DEF Phase, MapsInv, Added, Running, Finalizing

\* An object never returns to an earlier phase, and its identifier is never given to
\* another one.
THEOREM PhaseIsMonotonic == Spec => PhaseOnlyAdvances
<1>1. Inv /\ Inv' /\ [Next]_vars => [\A id \in Ids : Phase(id)' >= Phase(id)]_vars
  <2> SUFFICES ASSUME Inv, Inv', [Next]_vars, NEW id \in Ids PROVE Phase(id)' >= Phase(id)
    OBVIOUS
  <2>1. MovesForward
    BY StepMovesForward DEF Inv
  <2>2. /\ id \in Added => Phase(id) = 1
        /\ id \in Running => Phase(id) = 2
        /\ id \in Finalizing => Phase(id) = 3
        /\ id \notin Added \cup Running \cup Finalizing =>
             Phase(id) = IF id > deviceCounter THEN 0 ELSE 4
    BY PhaseOfObject DEF Inv
  <2>3. /\ id \in Added' => Phase(id)' = 1
        /\ id \in Running' => Phase(id)' = 2
        /\ id \in Finalizing' => Phase(id)' = 3
        /\ id \notin Added' \cup Running' \cup Finalizing' =>
             Phase(id)' = IF id > deviceCounter' THEN 0 ELSE 4
    BY DEF Phase, Inv, MapsInv, Added, Running, Finalizing
  <2>4. /\ deviceCounter \in Nat /\ id \in Nat
        /\ id \in Added \cup Running \cup Finalizing => id <= deviceCounter
    BY DEF Inv, MapsInv, Added, Running, Finalizing, Ids
  <2> QED BY <2>1, <2>2, <2>3, <2>4 DEF MovesForward
<1> QED BY <1>1, Invariance, PTL DEF Spec, PhaseOnlyAdvances

-----------------------------------------------------------------------------
(* The lives of the sources.                                               *)

\* A source that was started is running and heard, or was told to exit and is not, and
\* those the server thread visits are being finalized.
LivesInv ==
  /\ \A id \in Ids :
       /\ processing[id] # "none" => id <= deviceCounter /\ id \notin addedSources
       /\ processing[id] = "none" => source[id] = "none" /\ ~needToExit[id]
       /\ processing[id] = "preparing" => source[id] = "none"
       /\ id \in runningSources =>
            processing[id] # "none" /\ ~needToExit[id] /\ id \in listening
       /\ id \in finalizingSources =>
            processing[id] # "none" /\ needToExit[id] /\ id \notin listening
  /\ ServerHoldsSync => toVisit \subseteq finalizingSources
  /\ server \in {"joining", "waiting"} => visiting \in finalizingSources \ toVisit

\* Every step keeps the lives in order: what starts has been added and is neither told nor
\* unheard, what is finalized is told and unheard.
LEMMA LivesStep ==
  ASSUME TypeOK, MapsInv, LivesInv, [Next]_vars
  PROVE  LivesInv'
<1> USE DEF TypeOK, MapsInv, LivesInv, ThreadStates, IsRunning, ServerHoldsSync, Ids, sourceMaps,
        threadMaps, sourceState, serverState
<1>1. CASE Start
  BY <1>1 DEF Start
<1>2. CASE SignalToStop
  BY <1>2 DEF SignalToStop
<1>3. CASE AddVideoSource
  BY <1>3 DEF AddVideoSource
<1>4. CASE StartVideoSource
  BY <1>4 DEF StartVideoSource, StartSources
<1>5. CASE StartAllVideoSources
  BY <1>5 DEF StartAllVideoSources, StartSources
<1>6. CASE FinalizeVideoSource
  BY <1>6 DEF FinalizeVideoSource, FinalizeSources
<1>7. CASE AddThread
  BY <1>7 DEF AddThread
<1>8. CASE StartThread
  BY <1>8 DEF StartThread, StartThreads
<1>9. CASE StartAllThreads
  BY <1>9 DEF StartAllThreads, StartThreads
<1>10. CASE FinalizeThread
  BY <1>10 DEF FinalizeThread, FinalizeThreads
<1>11. CASE ServerPoll
  BY <1>11 DEF ServerPoll
<1>12. CASE CleanVisit
  <2>1. PICK i \in toVisit :
          /\ toVisit' = toVisit \ {i}
          /\ IF IsRunning(source[i])
               THEN UNCHANGED <<server, visiting, needToExit>>
               ELSE /\ server' = "joining" /\ visiting' = i
                    /\ needToExit' = [needToExit EXCEPT ![i] = TRUE]
    BY <1>12 DEF CleanVisit
  <2>2. /\ UNCHANGED <<deviceCounter, sourceMaps, source, processing, listening>>
        /\ server = "cleaning"
    BY <1>12 DEF CleanVisit
  <2>3. i \in finalizingSources /\ i \in Ids
    BY <2>2
  <2>4. needToExit[i]
    BY <2>3
  <2>5. \A j \in Ids : needToExit'[j] = needToExit[j]
    BY <2>1, <2>4
  <2>6. toVisit' \subseteq finalizingSources'
    BY <2>1, <2>2
  <2>7. server' \in {"joining", "waiting"} => visiting' \in finalizingSources' \ toVisit'
    BY <2>1, <2>2, <2>3
  <2> QED BY <2>2, <2>5, <2>6, <2>7
<1>13. CASE CleanJoined
  <2>1. /\ UNCHANGED <<deviceCounter, addedSources, runningSources, sourceState, toVisit>>
        /\ finalizingSources' = finalizingSources \ {visiting} /\ server' = "cleaning"
        /\ server = "joining"
    BY <1>13 DEF CleanJoined
  <2>2. visiting \notin toVisit
    BY <2>1
  <2>3. toVisit' \subseteq finalizingSources'
    BY <2>1, <2>2
  <2> QED BY <2>1, <2>3
<1>14. CASE CleanThreads
  BY <1>14 DEF CleanThreads
<1>15. CASE DrainBegin
  BY <1>15 DEF DrainBegin, FinalizeSources, FinalizeThreads
<1>16. CASE DrainSignal
  BY <1>16 DEF DrainSignal
<1>17. CASE DrainWaited
  BY <1>17 DEF DrainWaited
<1>18. CASE DrainDone
  BY <1>18 DEF DrainDone
<1>19. CASE ServerExits
  BY <1>19 DEF ServerExits
<1>20. ASSUME NEW id \in Ids, ProcessingStarts(id) PROVE LivesInv'
  <2>1. UNCHANGED <<deviceCounter, sourceMaps, needToExit, listening, serverState>>
    BY <1>20 DEF ProcessingStarts
  <2>2. processing[id] = "preparing" /\ processing'[id] \in {"processing", "done"}
    BY <1>20 DEF ProcessingStarts
  <2>3. \A i \in Ids \ {id} : processing'[i] = processing[i] /\ source'[i] = source[i]
    BY <1>20 DEF ProcessingStarts
  <2> QED BY <2>1, <2>2, <2>3
<1>21. ASSUME NEW id \in Ids, ProcessingExits(id) PROVE LivesInv'
  BY <1>21 DEF ProcessingExits
<1>22. ASSUME NEW id \in Ids, SourceExits(id) PROVE LivesInv'
  BY <1>22 DEF SourceExits
<1>23. ASSUME NEW id \in Ids, ScriptExits(id) PROVE LivesInv'
  BY <1>23 DEF ScriptExits
<1>24. CASE UNCHANGED vars
  BY <1>24 DEF vars
<1> HIDE DEF TypeOK, MapsInv, LivesInv, ThreadStates, IsRunning, ServerHoldsSync, Ids
<1> QED BY <1>1, <1>2, <1>3, <1>4, <1>5, <1>6, <1>7, <1>8, <1>9, <1>10, <1>11, <1>12, <1>13,
         <1>14, <1>15, <1>16, <1>17, <1>18, <1>19, <1>20, <1>21, <1>22, <1>23, <1>24
       DEF Next, Methods, ServerThread, ObjectThreads

LEMMA LivesAlways == Spec => []LivesInv
<1>1. Init => LivesInv
  BY DEF Init, LivesInv, ServerHoldsSync
<1>2. Inv /\ LivesInv /\ [Next]_vars => LivesInv'
  BY LivesStep DEF Inv
<1> QED BY <1>1, <1>2, Invariance, PTL DEF Spec

\* What shows of the life of a source.
Shown(id) == <<source[id], processing[id], needToExit[id], Heard(id), Kept(id)>>

LEMMA NothingShows ==
  ASSUME NEW id \in Ids, UNCHANGED Shown(id)
  PROVE  [Life(id)!Next]_(Life(id)!vars)
BY DEF Shown, Life!vars

\* The sources started begin their lives, those that could not be are never born.
LEMMA StartLives ==
  ASSUME TypeOK, MapsInv, LivesInv, NEW S \in SUBSET addedSources, NEW failed \in SUBSET S,
         StartSources(S, failed), NEW id \in Ids,
         UNCHANGED <<finalizingSources, source, needToExit, server, visiting>>
  PROVE  [Life(id)!Next]_(Life(id)!vars)
<1>1. CASE id \in S \ failed
  <2>1. processing[id] = "none" /\ source[id] = "none" /\ ~needToExit[id]
    BY <1>1 DEF LivesInv
  <2>2. processing'[id] = "preparing" /\ source'[id] = "none" /\ ~needToExit'[id]
    BY <1>1, <2>1 DEF StartSources
  <2>6. id \in runningSources' /\ id \notin finalizingSources'
    BY <1>1 DEF StartSources, MapsInv
  <2>3. Kept(id) = "none" /\ Kept(id)' = "running"
    <3>1. Kept(id) = "none"
      BY <2>1 DEF Kept
    <3>2. Kept(id)' = "running"
      BY <2>2, <2>6 DEF Kept
    <3> QED BY <3>1, <3>2
  <2>4. Heard(id)' = TRUE
    BY <1>1, <2>2 DEF Heard, StartSources
  <2>5. needToExit'[id] = FALSE
    BY <2>2 DEF TypeOK
  <2> QED BY <2>2, <2>3, <2>4, <2>5 DEF Life!Next, Life!Start
<1>2. CASE id \notin S \ failed
  <2>1. processing'[id] = processing[id] /\ source'[id] = source[id]
        /\ needToExit'[id] = needToExit[id]
    BY <1>2 DEF StartSources
  <2>2. Kept(id)' = Kept(id)
    BY <1>2, <2>1 DEF Kept, StartSources
  <2>3. Heard(id)' = Heard(id)
    BY <1>2, <2>1 DEF Heard, StartSources, LivesInv
  <2> QED BY <2>1, <2>2, <2>3, NothingShows DEF Shown
<1> QED BY <1>1, <1>2

\* The sources finalized are, whether one or all that run.
LEMMA FinalizeLives ==
  ASSUME TypeOK, MapsInv, LivesInv, NEW S \in SUBSET runningSources, FinalizeSources(S),
         NEW id \in Ids, UNCHANGED processing, server # "joining", server' # "joining"
  PROVE  [Life(id)!Next]_(Life(id)!vars)
<1>1. CASE id \in S
  <2>1. processing[id] # "none" /\ processing'[id] = processing[id]
    BY <1>1 DEF LivesInv
  <2>6. id \in runningSources /\ id \notin runningSources' /\ id \in finalizingSources'
    BY <1>1 DEF FinalizeSources
  <2>2. Kept(id) = "running" /\ Kept(id)' = "finalizing"
    <3>1. Kept(id) = "running"
      BY <2>1, <2>6 DEF Kept, MapsInv
    <3>2. Kept(id)' = "finalizing"
      BY <2>1, <2>6 DEF Kept
    <3> QED BY <3>1, <3>2
  <2>3. Heard(id)' = FALSE
    BY <1>1 DEF Heard, FinalizeSources
  <2>4. needToExit'[id] = TRUE
    BY <1>1 DEF FinalizeSources, TypeOK
  <2>5. source'[id] = IF source[id] = "running" THEN "signalled" ELSE source[id]
    BY <1>1 DEF FinalizeSources
  <2> QED BY <2>1, <2>2, <2>3, <2>4, <2>5 DEF Life!Next, Life!Finalize, Life!SignalSource
<1>2. CASE id \notin S
  <2>1. processing'[id] = processing[id] /\ source'[id] = source[id]
    BY <1>2 DEF FinalizeSources
  <2>2. needToExit'[id] = needToExit[id]
    BY <1>2 DEF FinalizeSources, TypeOK
  <2>3. Kept(id)' = Kept(id)
    BY <1>2, <2>1 DEF Kept, FinalizeSources
  <2>4. Heard(id)' = Heard(id)
    BY <1>2, <2>1 DEF Heard, FinalizeSources
  <2> QED BY <2>1, <2>2, <2>3, <2>4, NothingShows DEF Shown
<1> QED BY <1>1, <1>2

\* What the server thread does to the sources in its queue.
LEMMA ServerThreadLives ==
  ASSUME TypeOK, MapsInv, LivesInv, ServerThread, NEW id \in Ids
  PROVE  [Life(id)!Next]_(Life(id)!vars)
<1> USE NothingShows DEF Shown, sourceState, sourceMaps
<1>1. CASE ServerPoll \/ CleanThreads \/ DrainWaited \/ ServerExits
  <2>1. UNCHANGED <<source, processing, needToExit, listening, runningSources, finalizingSources>>
    BY <1>1 DEF ServerPoll, CleanThreads, DrainWaited, ServerExits
  <2>2. server # "joining" /\ server' # "joining"
    BY <1>1 DEF ServerPoll, CleanThreads, DrainWaited, ServerExits
  <2> QED BY <2>1, <2>2 DEF Kept, Heard
<1>2. CASE CleanVisit
  <2>1. PICK i \in toVisit :
          IF IsRunning(source[i])
            THEN UNCHANGED <<server, visiting, needToExit>>
            ELSE /\ server' = "joining" /\ visiting' = i
                 /\ needToExit' = [needToExit EXCEPT ![i] = TRUE]
    BY <1>2 DEF CleanVisit
  <2>2. /\ UNCHANGED <<source, processing, listening, runningSources, finalizingSources>>
        /\ server = "cleaning"
    BY <1>2 DEF CleanVisit
  <2>8. i \in finalizingSources /\ i \in Ids
    BY <2>2 DEF LivesInv, ServerHoldsSync, TypeOK
  <2>3. i \in finalizingSources /\ needToExit[i] /\ processing[i] # "none"
    BY <2>8 DEF LivesInv
  <2>4. needToExit'[id] = needToExit[id]
    BY <2>1, <2>3 DEF TypeOK
  <2>5. Heard(id)' = Heard(id)
    BY <2>2 DEF Heard
  <2>6. CASE ~IsRunning(source[i]) /\ id = i
    <3>1. i \notin runningSources
      BY <2>3 DEF MapsInv
    <3>2. Kept(id) = "finalizing" /\ Kept(id)' = "joining"
      BY <2>1, <2>2, <2>3, <2>6, <3>1 DEF Kept
    <3>3. source[id] \notin {"running", "signalled"}
      BY <2>6 DEF IsRunning
    <3> QED BY <2>2, <2>4, <2>5, <3>2, <3>3 DEF Life!Next, Life!Destruct
  <2>7. CASE IsRunning(source[i]) \/ id # i
    <3>1. Kept(id)' = Kept(id)
      BY <2>1, <2>2, <2>7 DEF Kept
    <3> QED BY <2>2, <2>4, <2>5, <3>1
  <2> QED BY <2>6, <2>7
<1>3. CASE CleanJoined
  <2>1. /\ UNCHANGED <<source, processing, needToExit, listening, runningSources>>
        /\ finalizingSources' = finalizingSources \ {visiting}
        /\ server = "joining" /\ server' = "cleaning" /\ processing[visiting] = "done"
    BY <1>3 DEF CleanJoined
  <2>2. visiting \in finalizingSources /\ visiting \notin runningSources
    BY <2>1 DEF LivesInv, MapsInv
  <2>3. Heard(id)' = Heard(id)
    BY <2>1 DEF Heard
  <2>4. CASE id = visiting
    <3>1. Kept(id) = "joining" /\ Kept(id)' = "gone"
      BY <2>1, <2>2, <2>4 DEF Kept
    <3> QED BY <2>1, <2>3, <2>4, <3>1 DEF Life!Next, Life!Destroy
  <2>5. CASE id # visiting
    <3>1. Kept(id)' = Kept(id)
      BY <2>1, <2>5 DEF Kept
    <3> QED BY <2>1, <2>3, <3>1
  <2> QED BY <2>4, <2>5
<1>4. CASE DrainBegin
  <2>1. FinalizeSources(runningSources) /\ UNCHANGED processing
        /\ server # "joining" /\ server' # "joining"
    BY <1>4 DEF DrainBegin
  <2> QED BY <2>1, FinalizeLives
<1>5. CASE DrainSignal
  <2>1. PICK i \in toVisit :
          source' = [source EXCEPT ![i] = IF @ = "running" THEN "signalled" ELSE @]
    BY <1>5 DEF DrainSignal
  <2>2. /\ UNCHANGED <<processing, needToExit, listening, runningSources, finalizingSources>>
        /\ server = "draining" /\ server' = "waiting"
    BY <1>5 DEF DrainSignal
  <2>3. i \in finalizingSources /\ i \in Ids
    BY <2>2 DEF LivesInv, ServerHoldsSync, TypeOK
  <2>7. i \notin runningSources /\ processing[i] # "none"
    BY <2>3 DEF LivesInv, MapsInv
  <2>4. Heard(id)' = Heard(id) /\ Kept(id)' = Kept(id)
    BY <2>2 DEF Heard, Kept
  <2>5. CASE id = i
    <3>1. Kept(id) = "finalizing"
      BY <2>2, <2>3, <2>5, <2>7 DEF Kept
    <3>2. source'[id] = IF source[id] = "running" THEN "signalled" ELSE source[id]
      BY <2>1, <2>5 DEF TypeOK
    <3> QED BY <2>2, <2>4, <3>1, <3>2 DEF Life!Next, Life!Signal, Life!SignalSource
  <2>6. CASE id # i
    <3>1. source'[id] = source[id]
      BY <2>1, <2>6 DEF TypeOK
    <3> QED BY <2>2, <2>4, <3>1
  <2> QED BY <2>5, <2>6
<1>6. CASE DrainDone
  <2>1. /\ UNCHANGED <<source, processing, needToExit, listening, runningSources>>
        /\ finalizingSources' = {} /\ server = "draining" /\ server' = "leaving"
        /\ \A i \in finalizingSources : processing[i] = "done"
    BY <1>6 DEF DrainDone
  <2>2. Heard(id)' = Heard(id)
    BY <2>1 DEF Heard
  <2>3. CASE id \in finalizingSources
    <3>1. id \notin runningSources /\ processing[id] = "done"
      BY <2>1, <2>3 DEF MapsInv
    <3>2. Kept(id) = "finalizing" /\ Kept(id)' = "gone"
      BY <2>1, <2>3, <3>1 DEF Kept
    <3> QED BY <2>1, <2>2, <3>1, <3>2 DEF Life!Next, Life!Destroy
  <2>4. CASE id \notin finalizingSources
    <3>1. Kept(id)' = Kept(id)
      BY <2>1, <2>4 DEF Kept
    <3> QED BY <2>1, <2>2, <3>1
  <2> QED BY <2>3, <2>4
<1> QED BY <1>1, <1>2, <1>3, <1>4, <1>5, <1>6 DEF ServerThread

\* What the methods of the server do to the sources.
LEMMA MethodsLive ==
  ASSUME TypeOK, MapsInv, LivesInv, Methods, NEW id \in Ids
  PROVE  [Life(id)!Next]_(Life(id)!vars)
<1> USE DEF sourceState, sourceMaps, serverState
<1>1. CASE \/ Start \/ SignalToStop \/ AddVideoSource \/ AddThread \/ StartThread
           \/ StartAllThreads \/ FinalizeThread
  <2>1. UNCHANGED <<source, processing, needToExit, listening, runningSources, finalizingSources>>
    BY <1>1 DEF Start, SignalToStop, AddVideoSource, AddThread, StartThread, StartAllThreads,
           FinalizeThread
  <2>2. (server' = server \/ (server # "joining" /\ server' # "joining")) /\ visiting' = visiting
    BY <1>1 DEF Start, SignalToStop, AddVideoSource, AddThread, StartThread, StartAllThreads,
           FinalizeThread
  <2> QED BY <2>1, <2>2, NothingShows DEF Shown, Kept, Heard
<1>2. CASE StartVideoSource
  <2>1. PICK i \in addedSources : \E failed \in SUBSET {i} : StartSources({i}, failed)
    BY <1>2 DEF StartVideoSource
  <2>2. UNCHANGED <<finalizingSources, source, needToExit, server, visiting>>
    BY <1>2 DEF StartVideoSource
  <2> QED BY <2>1, <2>2, StartLives
<1>3. CASE StartAllVideoSources
  <2>1. \E failed \in SUBSET addedSources : StartSources(addedSources, failed)
    BY <1>3 DEF StartAllVideoSources
  <2>2. UNCHANGED <<finalizingSources, source, needToExit, server, visiting>>
    BY <1>3 DEF StartAllVideoSources
  <2> QED BY <2>1, <2>2, StartLives
<1>4. CASE FinalizeVideoSource
  <2>1. UNCHANGED <<processing, server, visiting>> /\ server # "joining"
    BY <1>4 DEF FinalizeVideoSource, ServerHoldsSync
  <2>2. CASE \E i \in runningSources : FinalizeSources({i})
    BY <2>1, <2>2, FinalizeLives
  <2>3. CASE UNCHANGED <<runningSources, finalizingSources, source, needToExit, listening>>
    BY <2>1, <2>3, NothingShows DEF Shown, Kept, Heard
  <2> QED BY <1>4, <2>2, <2>3 DEF FinalizeVideoSource
<1> QED BY <1>1, <1>2, <1>3, <1>4 DEF Methods

\* What the threads of the sources do.
LEMMA ThreadsLive ==
  ASSUME TypeOK, LivesInv, ObjectThreads, NEW id \in Ids
  PROVE  [Life(id)!Next]_(Life(id)!vars)
<1> USE NothingShows DEF Shown, sourceState, sourceMaps, serverState
<1>1. ASSUME NEW i \in Ids, ProcessingStarts(i) PROVE [Life(id)!Next]_(Life(id)!vars)
  <2>1. UNCHANGED <<needToExit, listening, runningSources, finalizingSources, server, visiting>>
    BY <1>1 DEF ProcessingStarts
  <2>2. processing[i] = "preparing" /\ source[i] = "none" /\ processing'[i] # "none"
    BY <1>1 DEF ProcessingStarts, LivesInv, TypeOK
  <2>3. id # i => processing'[id] = processing[id] /\ source'[id] = source[id]
    BY <1>1 DEF ProcessingStarts, TypeOK
  <2>4. Heard(id)' = Heard(id) /\ Kept(id)' = Kept(id)
    BY <2>1, <2>2, <2>3 DEF Heard, Kept
  <2>5. CASE id = i
    <3>1. \/ source'[id] = "running" /\ processing'[id] = "processing"
          \/ processing'[id] = "done" /\ source'[id] = source[id]
      BY <1>1, <2>5 DEF ProcessingStarts, TypeOK
    <3> QED BY <2>1, <2>2, <2>4, <2>5, <3>1 DEF Life!Next, Life!SourceStarts
  <2> QED BY <2>1, <2>3, <2>4, <2>5
<1>2. ASSUME NEW i \in Ids, ProcessingExits(i) PROVE [Life(id)!Next]_(Life(id)!vars)
  <2>1. UNCHANGED <<source, needToExit, listening, runningSources, finalizingSources, server,
                    visiting>>
    BY <1>2 DEF ProcessingExits
  <2>2. processing[i] = "processing" /\ needToExit[i] /\ processing'[i] = "done"
    BY <1>2 DEF ProcessingExits, TypeOK
  <2>3. id # i => processing'[id] = processing[id]
    BY <1>2 DEF ProcessingExits, TypeOK
  <2>4. Heard(id)' = Heard(id) /\ Kept(id)' = Kept(id)
    BY <2>1, <2>2, <2>3 DEF Heard, Kept
  <2>5. CASE id = i
    BY <2>1, <2>2, <2>4, <2>5 DEF Life!Next, Life!ProcessingExits
  <2> QED BY <2>1, <2>3, <2>4, <2>5
<1>3. ASSUME NEW i \in Ids, SourceExits(i) PROVE [Life(id)!Next]_(Life(id)!vars)
  <2>1. UNCHANGED <<processing, needToExit, listening, runningSources, finalizingSources, server,
                    visiting>>
    BY <1>3 DEF SourceExits
  <2>2. source[i] = "signalled" /\ source'[i] = "exited"
    BY <1>3 DEF SourceExits, TypeOK
  <2>3. id # i => source'[id] = source[id]
    BY <1>3 DEF SourceExits, TypeOK
  <2>4. Heard(id)' = Heard(id) /\ Kept(id)' = Kept(id)
    BY <2>1 DEF Heard, Kept
  <2>5. CASE id = i
    BY <2>1, <2>2, <2>4, <2>5 DEF Life!Next, Life!SourceExits
  <2> QED BY <2>1, <2>3, <2>4, <2>5
<1>4. ASSUME NEW i \in Ids, ScriptExits(i) PROVE [Life(id)!Next]_(Life(id)!vars)
  BY <1>4 DEF ScriptExits, Heard, Kept
<1> QED BY <1>1, <1>2, <1>3, <1>4 DEF ObjectThreads

\* Every source lives, in the server's queue and maps, as VideoSourceData has it from the
\* inside: no method and no visit of the server thread takes it out of the order.
THEOREM SourcesLiveAsPromised == Spec => LiveAsPromised
<1>1. ASSUME NEW id \in Ids PROVE Spec => Life(id)!Spec
  <2>1. Init => Life(id)!Init
    BY DEF Init, Life!Init, Kept, Heard
  <2>2. Inv /\ LivesInv /\ [Next]_vars => [Life(id)!Next]_(Life(id)!vars)
    <3> SUFFICES ASSUME Inv, LivesInv, [Next]_vars PROVE [Life(id)!Next]_(Life(id)!vars)
      OBVIOUS
    <3>1. CASE UNCHANGED vars
      BY <3>1, NothingShows DEF vars, sourceMaps, sourceState, serverState, Shown, Heard, Kept
    <3> QED BY <3>1, ServerThreadLives, MethodsLive, ThreadsLive DEF Inv, Next
  <2> QED BY <2>1, <2>2, Invariance, LivesAlways, PTL DEF Spec, Life!Spec
<1> QED BY <1>1 DEF LiveAsPromised

=============================================================================
