-------------------------- MODULE RaspberryPiCamera --------------------------
(***************************************************************************)
(* The Raspberry Pi camera plug-in (RaspberryPiCameraPlugin.cpp): a device *)
(* that streams images and a thread of HTTP commands, started and stopped  *)
(* together by the owner of the plug-in (the automation server), while     *)
(* another thread sets properties.  The plug-in listens to the commands    *)
(* thread: it asks for the camera's version and stops a camera that is not *)
(* a Raspberry Pi, with the mutexes locked that the others lock.           *)
(*                                                                         *)
(* Every step is one of HttpCommandsThread or leaves its variables alone.  *)
(* The device is a thread that ends some time after it was told to.        *)
(***************************************************************************)
EXTENDS HttpCommandsThread

CONSTANTS
  Version, Configuration,   (* the two URLs                                 *)
  MaxRetries,               (* how often the version is asked for again     *)
  MaxStarts, MaxSettings    (* bounds: so many starts and property changes  *)

\* There are enough identifiers: two for each start, and one for each retry and each property.
ASSUME CameraAssumption ==
  /\ Urls = {Version, Configuration}
  /\ MaxRetries \in Nat /\ MaxStarts \in Nat /\ MaxSettings \in Nat
  /\ MaxCommands >= MaxStarts * (MaxRetries + 2) + MaxSettings

VARIABLES
  pluginSync,      (* who has locked the plug-in's Sync                     *)
  owner,           (* where the owner is in the plug-in's life              *)
  device,          (* Device                                                *)
  versionId,       (* VersionRequestId                                      *)
  versionCounter,  (* VersionRequestCounter                                 *)
  returned,        (* what EnqueueGetRequest has returned to Start          *)
  verdict,         (* what the listener has made of the answer              *)
  starts, settings

plugin     == <<pluginSync, owner, device>>
version    == <<versionId, versionCounter, returned>>
bounds     == <<starts, settings>>
cameraVars == <<httpVars, plugin, version, verdict, bounds>>

CameraInit ==
  /\ HttpInit
  /\ pluginSync = "none" /\ owner = "new" /\ device = "none"
  /\ versionId = 0 /\ versionCounter = 0 /\ returned = 0
  /\ verdict = "open"
  /\ starts = 0 /\ settings = 0

-----------------------------------------------------------------------------
(* The owner.  It has the plug-in's Sync in every step from a Lock to the  *)
(* one that frees it.                                                      *)

Lock(at, next) ==
  /\ owner = at /\ owner' = next
  /\ pluginSync = "none" /\ pluginSync' = "owner"

Unlock(at, next) ==
  /\ owner = at /\ owner' = next
  /\ pluginSync' = "none"

Go(at, next) ==
  /\ owner = at /\ owner' = next
  /\ UNCHANGED pluginSync

\* SetCallbacks, before anything runs.
Subscribe ==
  /\ pluginSync = "none"
  /\ Go("new", "ready")
  /\ SetListener(TRUE)
  /\ UNCHANGED <<device, version, verdict, bounds>>

\* Start makes a new device and clears what properties set as the last run ended have left.
StartLock ==
  /\ starts < MaxStarts
  /\ starts' = starts + 1
  /\ Lock("ready", "starting")
  /\ device' = "off"
  /\ ClearRequestsQueue
  /\ UNCHANGED <<version, verdict, settings>>

StartThread ==
  /\ HttpStart
  /\ IF worker' # worker
     THEN Go("starting", "version")
     ELSE Unlock("starting", "running")
  /\ UNCHANGED <<device, version, verdict, bounds>>

EnqueueVersion ==
  /\ Go("version", "assign")
  /\ Enqueue(Version)
  /\ returned' = counter'
  /\ versionCounter' = 0
  /\ UNCHANGED <<device, versionId, verdict, bounds>>

\* The thread may have popped the command by now.
AssignVersionId ==
  /\ Go("assign", "configuration")
  /\ versionId' = returned
  /\ UNCHANGED <<httpVars, device, versionCounter, returned, verdict, bounds>>

ApplyCurrentConfiguration ==
  /\ Go("configuration", "startDevice")
  /\ Enqueue(Configuration)
  /\ UNCHANGED <<device, version, verdict, bounds>>

StartDevice ==
  /\ Unlock("startDevice", "running")
  /\ device' = "running"
  /\ UNCHANGED <<httpVars, version, verdict, bounds>>

StartDeviceFails ==
  /\ ~InCallback
  /\ Unlock("startDevice", "running")
  /\ SignalThread
  /\ UNCHANGED <<device, version, verdict, bounds>>

Told == IF device = "running" THEN "stopping" ELSE device

\* SetCallbacks( nullptr ).
UnsubscribeLock ==
  /\ Lock("running", "unsubscribing")
  /\ UNCHANGED <<httpVars, device, version, verdict, bounds>>

Unsubscribe ==
  /\ Unlock("unsubscribing", "unsubscribed")
  /\ SetListener(FALSE)
  /\ UNCHANGED <<device, version, verdict, bounds>>

\* SignalToStop.
SignalLock ==
  /\ Lock("unsubscribed", "signalling")
  /\ device' = Told
  /\ UNCHANGED <<httpVars, version, verdict, bounds>>

Signal ==
  /\ ~InCallback
  /\ Unlock("signalling", "finalizing")
  /\ SignalThread
  /\ UNCHANGED <<device, version, verdict, bounds>>

\* The server finds that the plug-in is not running, which is to say its device is not, and
\* destroys it.
Finalized ==
  /\ pluginSync = "none"
  /\ Go("finalizing", "destroyed")
  /\ device = "off"
  /\ UNCHANGED <<httpVars, device, version, verdict, bounds>>

\* Or it waits for it.
WaitLock ==
  /\ Lock("finalizing", "joinDevice")
  /\ device' = Told
  /\ UNCHANGED <<httpVars, version, verdict, bounds>>

JoinDevice ==
  /\ Go("joinDevice", "waitSignal")
  /\ device = "off"
  /\ UNCHANGED <<httpVars, device, version, verdict, bounds>>

WaitSignal ==
  /\ ~InCallback
  /\ Go("waitSignal", "joinThread")
  /\ SignalThread
  /\ UNCHANGED <<device, version, verdict, bounds>>

JoinThread ==
  /\ ~IsRunning
  /\ Unlock("joinThread", "joined")
  /\ UNCHANGED <<httpVars, device, version, verdict, bounds>>

\* It is then used again or destroyed.
Reuse ==
  /\ \/ Go("joined", "new")
     \/ Go("joined", "destroyed")
  /\ UNCHANGED <<httpVars, device, version, verdict, bounds>>

Owner ==
  \/ Subscribe \/ StartThread \/ EnqueueVersion \/ AssignVersionId
  \/ ApplyCurrentConfiguration \/ StartDevice \/ StartDeviceFails \/ UnsubscribeLock
  \/ Unsubscribe \/ SignalLock \/ Signal \/ Finalized \/ WaitLock \/ JoinDevice
  \/ WaitSignal \/ JoinThread \/ Reuse

-----------------------------------------------------------------------------
(* Whoever sets properties, the device, and the listener.                  *)

SetPropertyLock ==
  /\ owner # "destroyed" /\ settings < MaxSettings
  /\ settings' = settings + 1
  /\ pluginSync = "none" /\ pluginSync' = "setter"
  /\ UNCHANGED <<httpVars, owner, device, version, verdict, starts>>

\* It is sent to a camera whose thread is running, or kept until it is started.
SetProperty ==
  /\ pluginSync = "setter" /\ pluginSync' = "none"
  /\ ~InCallback
  /\ \/ IsRunning /\ Enqueue(Configuration)
     \/ ~IsRunning /\ UNCHANGED httpVars
  /\ UNCHANGED <<owner, device, version, verdict, bounds>>

\* When told to, or because it cannot go on.
DeviceEnds ==
  /\ device \in {"running", "stopping"}
  /\ device' = "off"
  /\ UNCHANGED <<httpVars, pluginSync, owner, version, verdict, bounds>>

AboutVersion == current = versionId

\* Faulty: the version is asked for again and again.
RetryVersion_Forever ==
  /\ InCallback /\ verdict = "open" /\ AboutVersion
  /\ worker = "inError"
  /\ versionCounter' = versionCounter + 1
  /\ Enqueue(Version) /\ versionId' = counter'
  /\ verdict' = "done"
  /\ UNCHANGED <<plugin, returned, bounds>>

\* No answer about the version, and not HTTP 404: it is asked for again, a few times.
RetryVersion ==
  /\ InCallback /\ verdict = "open" /\ AboutVersion
  /\ worker = "inError"
  /\ versionCounter' = versionCounter + 1
  /\ \/ /\ versionCounter < MaxRetries
        /\ Enqueue(Version) /\ versionId' = counter'
     \/ versionCounter >= MaxRetries /\ UNCHANGED <<httpVars, versionId>>
  /\ verdict' = "done"
  /\ UNCHANGED <<plugin, returned, bounds>>

\* The answer is that of a Raspberry Pi, or of something else; or it is not about the
\* version, and the user is told if it is an error.
ReadAnswer ==
  /\ InCallback /\ verdict = "open"
  /\ verdict' \in IF AboutVersion
                  THEN {"fake"} \cup (IF worker = "inCompletion" THEN {"done"} ELSE {})
                  ELSE {"done"}
  /\ UNCHANGED <<httpVars, plugin, version, bounds>>

StopFakeCamera ==
  /\ verdict = "fake" /\ verdict' = "done"
  /\ pluginSync = "none"
  /\ device' = Told
  /\ SignalThread
  /\ UNCHANGED <<pluginSync, owner, version, bounds>>

ListenerReturns ==
  /\ verdict = "done" /\ verdict' = "open"
  /\ WorkerReturn
  /\ UNCHANGED <<plugin, version, bounds>>

Listener == RetryVersion \/ ReadAnswer \/ StopFakeCamera \/ ListenerReturns

CommandsThread == Worker /\ UNCHANGED <<plugin, version, verdict, bounds>>

CameraNext ==
  \/ StartLock \/ Owner \/ SetPropertyLock \/ SetProperty \/ DeviceEnds \/ Listener
  \/ CommandsThread

CameraSpec == CameraInit /\ [][CameraNext]_cameraVars

\* Threads keep running and mutexes starve nobody; a device that was told to ends.  Nothing is
\* expected of the camera: a request need not end before the thread is told to exit.
FairCamera ==
  /\ CameraSpec
  /\ WF_cameraVars(CommandsThread /\ (worker = "request" => exitEvent \/ failed))
  /\ WF_cameraVars(Listener) /\ SF_cameraVars(StopFakeCamera)
  /\ WF_cameraVars(device = "stopping" /\ DeviceEnds)
  /\ SF_cameraVars(SetProperty) /\ SF_cameraVars(Owner)

-----------------------------------------------------------------------------
(* Properties.                                                             *)

Holding == {"starting", "version", "assign", "configuration", "startDevice", "unsubscribing",
            "signalling", "joinDevice", "waitSignal", "joinThread"}

\* The types; Sync is the owner's where it should be; and whatever answers arrive when, the
\* version is not asked for more often than planned: so many requests are sent in all.
CameraTypeOK ==
  /\ HttpTypeOK
  /\ pluginSync \in {"none", "owner", "setter"}
  /\ owner \in Holding \cup {"new", "ready", "running", "unsubscribed", "finalizing", "joined",
                             "destroyed"}
  /\ pluginSync = "owner" <=> owner \in Holding
  /\ device \in {"none", "running", "stopping", "off"}
  /\ versionId \in 0..counter /\ returned \in 0..counter
  /\ versionCounter \in 0..(MaxRetries + 1)
  /\ verdict \in {"open", "fake", "done"}
  /\ starts \in 0..MaxStarts /\ settings \in 0..MaxSettings
  /\ counter <= starts * (MaxRetries + 2) + settings

\* As the comment on SetCallbacks says, once it has returned from unsubscribing nobody is in
\* a handler of the plug-in or will be before it is subscribed again.
UnsubscribedIsQuiet ==
  owner \in {"unsubscribed", "signalling", "finalizing", "joinDevice", "waitSignal", "joinThread",
             "joined", "new", "destroyed"}
    => ~InCallback /\ verdict = "open"

\* The listener wants the plug-in's Sync from whoever waits for the listener to return.
LockedOut ==
  /\ verdict = "fake"
  /\ \/ pluginSync = "setter"
     \/ owner \in {"startDevice", "unsubscribing", "signalling", "waitSignal", "joinThread"}

\* The commands thread exits when told to, whatever the camera does, and calls of the plug-in,
\* WaitForStop that joins both threads among them, return: unless the listener is locked out.
StopsTakePlace ==
  /\ exitEvent ~> ~IsRunning \/ ~exitEvent \/ LockedOut
  /\ pluginSync # "none" ~> pluginSync = "none" \/ LockedOut

\* What the destructor of XThread asserts: a plug-in that is destroyed has no thread.
DestroyedIsStopped == owner = "destroyed" => ~IsRunning

=============================================================================
