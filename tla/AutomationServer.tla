--------------------------- MODULE AutomationServer ---------------------------
(***************************************************************************)
(* The automation server as a keeper of video sources and scripting        *)
(* threads (XAutomationServer.cpp): its maps of added, running and         *)
(* finalizing objects, the server thread that empties the finalization     *)
(* queue, and the server's start and stop.                                 *)
(*                                                                         *)
(* Every method locks ServerSync for as long as it runs, so a method is    *)
(* one step here.  Two things take longer: the server thread joins other   *)
(* threads with the mutex locked, which are steps of their own; and        *)
(* FinalizeVideoSource waits for the mutexes inside a video source, which  *)
(* are released whatever the server does (CallbackReturns of module        *)
(* VideoSourceData).  What goes on inside one running video source is that *)
(* module's matter; here a source is its plug-in's thread and its          *)
(* processing thread.                                                      *)
(***************************************************************************)
EXTENDS Naturals, FiniteSets

CONSTANT MaxDevices    \* bound: so many objects are ever added

ASSUME MaxDevicesAssumption == MaxDevices \in Nat

Ids == 1..MaxDevices

VARIABLES
  deviceCounter,       (* DeviceCounter                                     *)
  addedSources, runningSources, finalizingSources,
  addedThreads, runningThreads, finalizingThreads,
  source,              (* the plug-in's thread of each video source         *)
  processing,          (* the processing thread of each video source        *)
  needToExit,          (* NeedToExitProcessingThread of each video source   *)
  listening,           (* the sources whose plug-in calls back the server   *)
  script,              (* the thread of each scripting thread               *)
  server,              (* where the server thread is                        *)
  exitEvent,           (* ExitEvent                                         *)
  toVisit,             (* sources the loop of the server thread has yet to visit *)
  visiting             (* the source it visits, 0 for none                  *)

sourceMaps  == <<addedSources, runningSources, finalizingSources>>
threadMaps  == <<addedThreads, runningThreads, finalizingThreads>>
sourceState == <<source, processing, needToExit, listening>>
serverState == <<server, exitEvent, toVisit, visiting>>
vars == <<deviceCounter, sourceMaps, threadMaps, sourceState, script, serverState>>

ThreadStates == {"none", "running", "signalled", "exited"}
IsRunning(t) == t \in {"running", "signalled"}

\* Faulty: ServerSync is released while the server thread joins others.
ServerHoldsSync_NotJoining == server \in {"cleaning", "draining"}

\* The server thread has ServerSync to itself while it cleans up and drains.
ServerHoldsSync == server \in {"cleaning", "joining", "draining", "waiting"}

Init ==
  /\ deviceCounter = 0
  /\ addedSources = {} /\ runningSources = {} /\ finalizingSources = {}
  /\ addedThreads = {} /\ runningThreads = {} /\ finalizingThreads = {}
  /\ source = [id \in Ids |-> "none"] /\ processing = [id \in Ids |-> "none"]
  /\ needToExit = [id \in Ids |-> FALSE] /\ listening = {}
  /\ script = [id \in Ids |-> "none"]
  /\ server = "stopped" /\ exitEvent = FALSE /\ toVisit = {} /\ visiting = 0

-----------------------------------------------------------------------------
(* Methods of XAutomationServer.                                           *)

\* Start is a success, and does nothing, as long as the server thread runs; the
\* thread may fail to be created.
Start ==
  /\ ~ServerHoldsSync
  /\ server = "stopped"
  /\ exitEvent' = FALSE
  /\ server' \in {"polling", "stopped"}
  /\ UNCHANGED <<deviceCounter, sourceMaps, threadMaps, sourceState, script, toVisit, visiting>>

\* SignalToStop and WaitForStop, which take no lock.
SignalToStop ==
  /\ server # "stopped"
  /\ exitEvent' = TRUE
  /\ UNCHANGED <<deviceCounter, sourceMaps, threadMaps, sourceState, script, server, toVisit,
                 visiting>>

\* Faulty: the identifier is one more than there are sources.
AddVideoSource_CountsSources ==
  /\ ~ServerHoldsSync
  /\ deviceCounter < MaxDevices
  /\ deviceCounter' = Cardinality(addedSources \cup runningSources) + 1
  /\ addedSources' = addedSources \cup {deviceCounter'}
  /\ UNCHANGED <<runningSources, finalizingSources, threadMaps, sourceState, script, serverState>>

AddVideoSource ==
  /\ ~ServerHoldsSync
  /\ deviceCounter < MaxDevices
  /\ deviceCounter' = deviceCounter + 1
  /\ addedSources' = addedSources \cup {deviceCounter'}
  /\ UNCHANGED <<runningSources, finalizingSources, threadMaps, sourceState, script, serverState>>

\* Faulty: a source that could be started stays among the added ones.
StartSources_KeepsAdded(S, failed) ==
  /\ addedSources' = addedSources \ failed
  /\ runningSources' = runningSources \cup (S \ failed)
  /\ listening' = listening \cup S
  /\ processing' = [id \in Ids |-> IF id \in S \ failed THEN "preparing" ELSE processing[id]]

\* Each source of S becomes the listener of its plug-in and gets its processing
\* thread, those of failed do not: they are gone for good.
StartSources(S, failed) ==
  /\ addedSources' = addedSources \ S
  /\ runningSources' = runningSources \cup (S \ failed)
  /\ listening' = listening \cup S
  /\ processing' = [id \in Ids |-> IF id \in S \ failed THEN "preparing" ELSE processing[id]]

StartVideoSource ==
  /\ ~ServerHoldsSync
  /\ \E id \in addedSources : \E failed \in SUBSET {id} : StartSources({id}, failed)
  /\ UNCHANGED <<deviceCounter, finalizingSources, threadMaps, source, needToExit, script,
                 serverState>>

StartAllVideoSources ==
  /\ ~ServerHoldsSync
  /\ addedSources # {}
  /\ \E failed \in SUBSET addedSources : StartSources(addedSources, failed)
  /\ UNCHANGED <<deviceCounter, finalizingSources, threadMaps, source, needToExit, script,
                 serverState>>

\* FinalizeVideoSource of XAutomationServerData, for each source of S.
FinalizeSources(S) ==
  /\ needToExit' = [id \in Ids |-> needToExit[id] \/ id \in S]
  /\ listening' = listening \ S
  /\ source' = [id \in Ids |-> IF id \in S /\ source[id] = "running" THEN "signalled"
                               ELSE source[id]]
  /\ finalizingSources' = finalizingSources \cup S
  /\ runningSources' = runningSources \ S

FinalizeVideoSource ==
  /\ ~ServerHoldsSync
  /\ \/ /\ \E id \in runningSources : FinalizeSources({id})
        /\ UNCHANGED addedSources
     \/ /\ \E id \in addedSources : addedSources' = addedSources \ {id}
        /\ UNCHANGED <<runningSources, finalizingSources, source, needToExit, listening>>
  /\ UNCHANGED <<deviceCounter, threadMaps, processing, script, serverState>>

\* Faulty: DeviceCounter++ for ++DeviceCounter.
AddThread_PostIncrement ==
  /\ ~ServerHoldsSync
  /\ deviceCounter < MaxDevices
  /\ deviceCounter' = deviceCounter + 1
  /\ addedThreads' = addedThreads \cup {deviceCounter}
  /\ UNCHANGED <<sourceMaps, runningThreads, finalizingThreads, sourceState, script, serverState>>

AddThread ==
  /\ ~ServerHoldsSync
  /\ deviceCounter < MaxDevices
  /\ deviceCounter' = deviceCounter + 1
  /\ addedThreads' = addedThreads \cup {deviceCounter'}
  /\ UNCHANGED <<sourceMaps, runningThreads, finalizingThreads, sourceState, script, serverState>>

StartThreads(S, failed) ==
  /\ addedThreads' = addedThreads \ S
  /\ runningThreads' = runningThreads \cup (S \ failed)
  /\ script' = [id \in Ids |-> IF id \in S \ failed THEN "running" ELSE script[id]]

StartThread ==
  /\ ~ServerHoldsSync
  /\ \E id \in addedThreads : \E failed \in SUBSET {id} : StartThreads({id}, failed)
  /\ UNCHANGED <<deviceCounter, sourceMaps, finalizingThreads, sourceState, serverState>>

StartAllThreads ==
  /\ ~ServerHoldsSync
  /\ addedThreads # {}
  /\ \E failed \in SUBSET addedThreads : StartThreads(addedThreads, failed)
  /\ UNCHANGED <<deviceCounter, sourceMaps, finalizingThreads, sourceState, serverState>>

\* Faulty: the scripting threads are not told to exit.
FinalizeThreads_Unsignalled(S) ==
  /\ finalizingThreads' = finalizingThreads \cup S
  /\ runningThreads' = runningThreads \ S
  /\ UNCHANGED script

FinalizeThreads(S) ==
  /\ script' = [id \in Ids |-> IF id \in S /\ script[id] = "running" THEN "signalled"
                               ELSE script[id]]
  /\ finalizingThreads' = finalizingThreads \cup S
  /\ runningThreads' = runningThreads \ S

FinalizeThread ==
  /\ ~ServerHoldsSync
  /\ \/ /\ \E id \in runningThreads : FinalizeThreads({id})
        /\ UNCHANGED addedThreads
     \/ /\ \E id \in addedThreads : addedThreads' = addedThreads \ {id}
        /\ UNCHANGED <<runningThreads, finalizingThreads, script>>
  /\ UNCHANGED <<deviceCounter, sourceMaps, sourceState, serverState>>


-----------------------------------------------------------------------------
(* The server thread.                                                      *)

First(S, id) == id \in S /\ \A other \in S : id <= other

\* ExitEvent.Wait( 200 ), then the lock.
ServerPoll ==
  /\ server = "polling"
  /\ IF exitEvent
       THEN server' = "exiting" /\ UNCHANGED toVisit
       ELSE server' = "cleaning" /\ toVisit' = finalizingSources
  /\ UNCHANGED <<deviceCounter, sourceMaps, threadMaps, sourceState, script, exitEvent, visiting>>

\* CleanAlreadyFinalized passes over a source that still runs, and destroys one that
\* does not: its destructor tells the processing thread to exit and joins it.
CleanVisit ==
  /\ server = "cleaning"
  /\ \E id \in toVisit :
       /\ First(toVisit, id)
       /\ toVisit' = toVisit \ {id}
       /\ IF IsRunning(source[id])
            THEN UNCHANGED <<server, visiting, needToExit>>
            ELSE /\ server' = "joining" /\ visiting' = id
                 /\ needToExit' = [needToExit EXCEPT ![id] = TRUE]
  /\ UNCHANGED <<deviceCounter, sourceMaps, threadMaps, source, processing, listening, script,
                 exitEvent>>

\* Faulty: the processing thread is not joined.
CleanJoined_Unjoined ==
  /\ server = "joining"
  /\ finalizingSources' = finalizingSources \ {visiting}
  /\ server' = "cleaning" /\ visiting' = 0
  /\ UNCHANGED <<deviceCounter, addedSources, runningSources, threadMaps, sourceState, script,
                 exitEvent, toVisit>>

CleanJoined ==
  /\ server = "joining"
  /\ processing[visiting] = "done"
  /\ finalizingSources' = finalizingSources \ {visiting}
  /\ server' = "cleaning" /\ visiting' = 0
  /\ UNCHANGED <<deviceCounter, addedSources, runningSources, threadMaps, sourceState, script,
                 exitEvent, toVisit>>

CleanThreads ==
  /\ server = "cleaning"
  /\ toVisit = {}
  /\ finalizingThreads' = {id \in finalizingThreads : IsRunning(script[id])}
  /\ server' = "polling"
  /\ UNCHANGED <<deviceCounter, sourceMaps, addedThreads, runningThreads, sourceState, script,
                 exitEvent, toVisit, visiting>>

\* The exit event was seen: nothing is to stay.
DrainBegin ==
  /\ server = "exiting"
  /\ addedSources' = {} /\ addedThreads' = {}
  /\ FinalizeSources(runningSources)
  /\ FinalizeThreads(runningThreads)
  /\ toVisit' = finalizingSources'
  /\ server' = "draining"
  /\ UNCHANGED <<deviceCounter, processing, exitEvent, visiting>>

\* WaitForStop of a plug-in signals its thread, if that runs, and then joins it.
DrainSignal ==
  /\ server = "draining"
  /\ \E id \in toVisit :
       /\ First(toVisit, id)
       /\ toVisit' = toVisit \ {id}
       /\ visiting' = id
       /\ source' = [source EXCEPT ![id] = IF @ = "running" THEN "signalled" ELSE @]
  /\ server' = "waiting"
  /\ UNCHANGED <<deviceCounter, sourceMaps, threadMaps, processing, needToExit, listening, script,
                 exitEvent>>

DrainWaited ==
  /\ server = "waiting"
  /\ ~IsRunning(source[visiting])
  /\ server' = "draining" /\ visiting' = 0
  /\ UNCHANGED <<deviceCounter, sourceMaps, threadMaps, sourceState, script, exitEvent, toVisit>>

\* The scripting threads are joined, then the objects destroyed, which joins the
\* processing threads; ServerSync is released.
DrainDone ==
  /\ server = "draining"
  /\ toVisit = {}
  /\ \A id \in finalizingThreads : ~IsRunning(script[id])
  /\ \A id \in finalizingSources : processing[id] = "done"
  /\ finalizingSources' = {} /\ finalizingThreads' = {}
  /\ server' = "leaving"
  /\ UNCHANGED <<deviceCounter, addedSources, runningSources, addedThreads, runningThreads,
                 sourceState, script, exitEvent, toVisit, visiting>>

ServerExits ==
  /\ server = "leaving"
  /\ server' = "stopped"
  /\ UNCHANGED <<deviceCounter, sourceMaps, threadMaps, sourceState, script, exitEvent, toVisit,
                 visiting>>

-----------------------------------------------------------------------------
(* The threads of the objects.                                             *)

\* The processing thread has prepared its plug-ins and starts the video source.
ProcessingStarts(id) ==
  /\ processing[id] = "preparing"
  /\ \/ /\ source' = [source EXCEPT ![id] = "running"]
        /\ processing' = [processing EXCEPT ![id] = "processing"]
     \/ /\ processing' = [processing EXCEPT ![id] = "done"]
        /\ UNCHANGED source
  /\ UNCHANGED <<deviceCounter, sourceMaps, threadMaps, needToExit, listening, script, serverState>>

ProcessingExits(id) ==
  /\ processing[id] = "processing"
  /\ needToExit[id]
  /\ processing' = [processing EXCEPT ![id] = "done"]
  /\ UNCHANGED <<deviceCounter, sourceMaps, threadMaps, source, needToExit, listening, script,
                 serverState>>

SourceExits(id) ==
  /\ source[id] = "signalled"
  /\ source' = [source EXCEPT ![id] = "exited"]
  /\ UNCHANGED <<deviceCounter, sourceMaps, threadMaps, processing, needToExit, listening, script,
                 serverState>>

\* The script was told to exit, or could not be initialized.
ScriptExits(id) ==
  /\ IsRunning(script[id])
  /\ script' = [script EXCEPT ![id] = "exited"]
  /\ UNCHANGED <<deviceCounter, sourceMaps, threadMaps, sourceState, serverState>>

-----------------------------------------------------------------------------
Methods ==
  \/ Start \/ SignalToStop
  \/ AddVideoSource \/ StartVideoSource \/ StartAllVideoSources \/ FinalizeVideoSource
  \/ AddThread \/ StartThread \/ StartAllThreads \/ FinalizeThread

ServerThread ==
  \/ ServerPoll \/ CleanVisit \/ CleanJoined \/ CleanThreads
  \/ DrainBegin \/ DrainSignal \/ DrainWaited \/ DrainDone \/ ServerExits

ObjectThreads ==
  \E id \in Ids :
    ProcessingStarts(id) \/ ProcessingExits(id) \/ SourceExits(id) \/ ScriptExits(id)

Next == Methods \/ ServerThread \/ ObjectThreads

\* Threads keep running; a thread that was told to exit does.
Fairness ==
  /\ WF_vars(ServerThread)
  /\ \A id \in Ids :
       /\ WF_vars(ProcessingStarts(id)) /\ WF_vars(ProcessingExits(id)) /\ WF_vars(SourceExits(id))
       /\ WF_vars(script[id] = "signalled" /\ ScriptExits(id))

Spec == Init /\ [][Next]_vars

FairSpec == Spec /\ Fairness

-----------------------------------------------------------------------------
(* Properties.                                                             *)

TypeOK ==
  /\ deviceCounter \in 0..MaxDevices
  /\ addedSources \subseteq Ids /\ runningSources \subseteq Ids /\ finalizingSources \subseteq Ids
  /\ addedThreads \subseteq Ids /\ runningThreads \subseteq Ids /\ finalizingThreads \subseteq Ids
  /\ source \in [Ids -> ThreadStates]
  /\ processing \in [Ids -> {"none", "preparing", "processing", "done"}]
  /\ needToExit \in [Ids -> BOOLEAN] /\ listening \subseteq Ids
  /\ script \in [Ids -> ThreadStates]
  /\ server \in {"stopped", "polling", "cleaning", "joining", "exiting", "draining", "waiting",
                 "leaving"}
  /\ exitEvent \in BOOLEAN /\ toVisit \subseteq Ids /\ visiting \in Ids \cup {0}

\* How far an object has come: unborn, added, running, finalizing, gone.
Phase(id) ==
  CASE id \in addedSources \cup addedThreads           -> 1
    [] id \in runningSources \cup runningThreads       -> 2
    [] id \in finalizingSources \cup finalizingThreads -> 3
    [] OTHER -> IF id > deviceCounter THEN 0 ELSE 4

Maps == <<addedSources, runningSources, finalizingSources,
          addedThreads, runningThreads, finalizingThreads>>

\* An object is in one map at a time, and only objects that were added are in any: the
\* methods that move one from map to map neither lose nor duplicate it.
OneMapPerObject ==
  /\ \A i, j \in 1..6 : i < j => Maps[i] \cap Maps[j] = {}
  /\ \A i \in 1..6 : Maps[i] \subseteq 1..deviceCounter

\* An object that is in no map any more has no thread that could still use it.
RemovedIsOver ==
  \A id \in Ids : Phase(id) = 4 => processing[id] \in {"none", "done"} /\ ~IsRunning(script[id])

\* An object never goes back to an earlier phase; its identifier is not given again.
PhaseOnlyAdvances == [][\A id \in Ids : Phase(id)' >= Phase(id)]_vars

\* When the server thread is through with draining no object is left in any map,
\* whatever the application asked for while it joined threads.
DrainLeavesNothing ==
  [][server = "draining" /\ server' = "leaving" =>
       \A id \in Ids : Phase(id)' \in {0, 4}]_vars

\* Where the server keeps a source that was started.
Kept(id) ==
  CASE processing[id] = "none" -> "none"
    [] processing[id] # "none" /\ id \in runningSources -> "running"
    [] processing[id] # "none" /\ id \in finalizingSources ->
         IF server = "joining" /\ visiting = id THEN "joining" ELSE "finalizing"
    [] OTHER -> "gone"

Heard(id) == processing[id] # "none" /\ id \in listening

\* Every source lives as VideoSourceData has it from the inside.
Life(id) == INSTANCE SourceLife WITH
              source <- source[id], processing <- processing[id], told <- needToExit[id],
              heard <- Heard(id), kept <- Kept(id)
LiveAsPromised == \A id \in Ids : Life(id)!Spec

\* A source that was told to stop before its processing thread started it.
LateStart == \E id \in finalizingSources : source[id] = "running"

\* The finalization queue is emptied as long as the server runs or stops, unless a
\* source was started late.
QueueIsEmptied ==
  /\ \A id \in Ids :
       id \in finalizingSources /\ server = "polling" ~> id \notin finalizingSources \/ LateStart
  /\ \A id \in Ids :
       id \in finalizingThreads /\ server = "polling" ~> id \notin finalizingThreads \/ LateStart

\* A server that began to stop stops, unless a source was started late.
StopCompletes == server = "exiting" ~> server = "stopped" \/ LateStart

=============================================================================
