----------------------------- MODULE Connection ------------------------------
(***************************************************************************)
(* The life of moonlight-sys' singleton connection (connection.rs), with   *)
(* the C bridge it calls (common_bridge.c) and the part of the transport   *)
(* core that starts, terminates and stops it (Connection.c).               *)
(*                                                                         *)
(* Sessions are start attempts: each is one stream worker thread that owns *)
(* one Connection value.  Clients are the threads that hold cloned         *)
(* ConnectionControls.  A core that is up runs Workers; a worker that      *)
(* finds the connection lost makes the core spawn a detached thread that   *)
(* runs the client's termination callback, and nobody joins that thread.   *)
(*                                                                         *)
(* A step is what happens between two accesses to memory that threads      *)
(* share.  The decode-unit queue is atomic here; LinkedQueue looks inside. *)
(***************************************************************************)
EXTENDS Naturals

CONSTANTS
  Session,     \* start attempts, each made by a worker thread of its own
  Client,      \* threads that use ConnectionControl handles
  Worker,      \* core threads that can report a lost connection
  QueueBound,  \* capacity of the decode-unit queue
  None         \* no session, no thread, no error

(* A termination callback is named by the core and the worker it is of.    *)
Callback == Session \X Worker

ASSUME ConnectionAssumption ==
  /\ QueueBound \in Nat \ {0}
  /\ None \notin Session \cup Client \cup Callback
  /\ Session \cap Client = {}
  /\ Client \cap Callback = {}

VARIABLES
  connectionActive,  \* CONNECTION_ACTIVE
  coreLock,          \* who holds CORE_CONNECTION_LOCK
  gate,              \* who holds the gate VIDEO_WAKE_STATE
  wakeState,         \* the session registered in VIDEO_WAKE_STATE
  active,            \* ConnectionState.active, per session
  stopRequested,     \* ConnectionState.stop_requested, per session
  shared,            \* sessions whose ConnectionControl has been handed out
  renderer,          \* the session whose audio renderer is installed
  audioError,        \* the session whose audio error is recorded
  core,              \* the session whose transport core is up
  alreadyTerminated, \* the core's latch against repeated callbacks
  terminationCode,   \* terminationCallbackErrorCode: who was last terminated
  terminationError,  \* mls_termination_error, tagged by who was terminated
  lastStage,         \* mls_last_stage, tagged by the attempt that wrote it
  frames,            \* decode units waiting in the queue
  pendingWake,       \* the queue's pendingUserWake
  term,              \* termination callbacks, per session and worker
  pc,                \* where each session's worker thread is
  clientPc,          \* where each client is in request_stop or send_input
  target,            \* whose handle a client is using
  outcome            \* what the attempt told its caller

startVars  == <<renderer, audioError, lastStage>>
coreVars   == <<core, alreadyTerminated, terminationCode, terminationError>>
queueVars  == <<frames, pendingWake>>
handleVars == <<active, stopRequested, shared>>
lockVars   == <<coreLock, gate, wakeState>>
clientVars == <<clientPc, target>>

vars == <<connectionActive, lockVars, handleVars, startVars, coreVars,
          queueVars, term, pc, clientVars, outcome>>

Points ==
  {"idle", "install", "start", "starting", "up", "failed", "failing", "report",
   "register", "run", "loop", "wait", "frame", "exit", "stop", "lock",
   "unregister", "stopCore", "join", "clear", "release", "unlock", "done"}
ClientPoints == {"idle", "gate", "check", "wake", "input", "send"}
TermPoints == {"none", "passed", "lost", "spawned", "stored", "gate", "wake", "over"}

TypeOK ==
  /\ connectionActive \in BOOLEAN
  /\ coreLock \in Session \cup Client \cup {None}
  /\ gate \in Client \cup Callback \cup {None}
  /\ wakeState \in Session \cup {None}
  /\ active \in [Session -> BOOLEAN]
  /\ stopRequested \in [Session -> BOOLEAN]
  /\ shared \subseteq Session
  /\ renderer \in Session \cup {None}
  /\ audioError \in Session \cup {None}
  /\ core \in Session \cup {None}
  /\ alreadyTerminated \in BOOLEAN
  /\ terminationCode \in Session \cup {None}
  /\ terminationError \in Session \cup {None}
  /\ lastStage \in Session \cup {None}
  /\ frames \in 0..QueueBound
  /\ pendingWake \in BOOLEAN
  /\ term \in [Callback -> TermPoints]
  /\ pc \in [Session -> Points]
  /\ clientPc \in [Client -> ClientPoints]
  /\ target \in [Client -> Session \cup {None}]
  /\ outcome \in [Session -> [error : {"none", "refused", "audio", "stage", "ended"},
                              by : Session \cup {None}]]

Init ==
  /\ connectionActive = FALSE
  /\ coreLock = None
  /\ gate = None
  /\ wakeState = None
  /\ active = [s \in Session |-> FALSE]
  /\ stopRequested = [s \in Session |-> FALSE]
  /\ shared = {}
  /\ renderer = None
  /\ audioError = None
  /\ core = None
  /\ alreadyTerminated = FALSE
  /\ terminationCode = None
  /\ terminationError = None
  /\ lastStage = None
  /\ frames = 0
  /\ pendingWake = FALSE
  /\ term = [c \in Callback |-> "none"]
  /\ pc = [s \in Session |-> "idle"]
  /\ clientPc = [u \in Client |-> "idle"]
  /\ target = [u \in Client |-> None]
  /\ outcome = [s \in Session |-> [error |-> "none", by |-> None]]

Goto(s, from, to) ==
  /\ pc[s] = from
  /\ pc' = [pc EXCEPT ![s] = to]

Tell(s, error, by) ==
  outcome' = [outcome EXCEPT ![s] = [error |-> error, by |-> by]]

-----------------------------------------------------------------------------
(* start_with_audio                                                        *)

(* Mutant: CONNECTION_ACTIVE is stored without looking at it.              *)
ClaimUnchecked(s) ==
  /\ Goto(s, "idle", "install")
  /\ connectionActive' = TRUE
  /\ UNCHANGED <<lockVars, handleVars, startVars, coreVars, queueVars, term, clientVars,
                 outcome>>

(* Strings with a zero in them, and numbers that are zero or too large for *)
(* C, are refused (HostStrings::new, validated, positive_int).             *)
Values == {"representable", "interior zero", "out of range"}
Validated(values) == values = "representable"

(* The compare_exchange on CONNECTION_ACTIVE lets one attempt through.     *)
Claim(s) == \E values \in Values :
  /\ IF connectionActive \/ ~Validated(values)
     THEN /\ Goto(s, "idle", "done")
          /\ Tell(s, "refused", s)
          /\ UNCHANGED connectionActive
     ELSE /\ Goto(s, "idle", "install")
          /\ connectionActive' = TRUE
          /\ UNCHANGED outcome
  /\ UNCHANGED <<lockVars, handleVars, startVars, coreVars, queueVars, term, clientVars>>

(* Mutant: an old audio error survives the new renderer.                   *)
InstallKeepsError(s) ==
  /\ Goto(s, "install", "start")
  /\ renderer' = s
  /\ UNCHANGED <<connectionActive, lockVars, handleVars, lastStage, audioError, coreVars,
                 queueVars, term, clientVars, outcome>>

(* install_audio_renderer replaces the renderer and forgets old errors.    *)
InstallRenderer(s) ==
  /\ Goto(s, "install", "start")
  /\ renderer' = s
  /\ audioError' = None
  /\ UNCHANGED <<connectionActive, lockVars, handleVars, lastStage, coreVars,
                 queueVars, term, clientVars, outcome>>

(* mls_start_connection resets the bridge, LiStartConnection the latch.    *)
ResetBridge(s) ==
  /\ Goto(s, "start", "starting")
  /\ lastStage' = s
  /\ terminationError' = None
  /\ alreadyTerminated' = FALSE
  /\ UNCHANGED <<connectionActive, lockVars, handleVars, renderer, audioError, core,
                 terminationCode, queueVars, term, clientVars, outcome>>

(* The stages that initialize the queue and start the core's threads.      *)
BringUpCore(s) ==
  /\ Goto(s, "starting", "up")
  /\ lastStage' = s
  /\ core' = s
  /\ frames' = 0
  /\ pendingWake' = FALSE
  /\ UNCHANGED <<connectionActive, lockVars, handleVars, renderer, audioError,
                 alreadyTerminated, terminationCode, terminationError, term, clientVars,
                 outcome>>

(* scarlet_thread_join returns when the thread has.                        *)
Joinable(s) == \A w \in Worker : term[<<s, w>>] # "passed"

(* record_audio_error keeps the first error.                               *)
FirstError(s) == IF audioError = None THEN s ELSE audioError

(* mls_rust_audio_init: parameters that make no sense, or a renderer that  *)
(* does not initialize or panics, fail the stage and leave an error.       *)
AudioInit(s) == {audioError, FirstError(s)}

(* A stage fails, the audio's or another; LiStopConnection undoes the      *)
(* earlier ones and joins.                                                 *)
FailStage(s) ==
  /\ \/ Goto(s, "starting", "failed")
     \/ Goto(s, "up", "failed") /\ Joinable(s)
  /\ lastStage' = s
  /\ alreadyTerminated' = TRUE
  /\ core' = None
  /\ audioError' \in AudioInit(s)
  /\ UNCHANGED <<connectionActive, lockVars, handleVars, renderer,
                 terminationCode, terminationError, queueVars, term, clientVars, outcome>>

StartCore(s) ==
  /\ Goto(s, "up", "register")
  /\ UNCHANGED <<connectionActive, lockVars, handleVars, startVars, coreVars,
                 queueVars, term, clientVars, outcome>>

(* Mutant: the failure path forgets clear_audio_renderer.                  *)
KeepRendererAfterFailure(s) ==
  /\ Goto(s, "failed", "failing")
  /\ IF audioError # None THEN Tell(s, "audio", audioError) ELSE UNCHANGED outcome
  /\ UNCHANGED <<connectionActive, lockVars, handleVars, startVars, coreVars, queueVars,
                 term, clientVars>>

(* Failure path: note the audio error and drop the renderer ...            *)
ClearAfterFailure(s) ==
  /\ Goto(s, "failed", "failing")
  /\ IF audioError # None THEN Tell(s, "audio", audioError) ELSE UNCHANGED outcome
  /\ renderer' = None
  /\ UNCHANGED <<connectionActive, lockVars, handleVars, audioError, lastStage, coreVars,
                 queueVars, term, clientVars>>

(* ... give the singleton up ...                                           *)
ReleaseAfterFailure(s) ==
  /\ Goto(s, "failing", IF outcome[s].error = "audio" THEN "done" ELSE "report")
  /\ connectionActive' = FALSE
  /\ UNCHANGED <<lockVars, handleVars, startVars, coreVars, queueVars, term,
                 clientVars, outcome>>

(* ... and read the stage values for StartFailed.                          *)
ReportStage(s) ==
  /\ Goto(s, "report", "done")
  /\ Tell(s, "stage", lastStage)
  /\ UNCHANGED <<connectionActive, lockVars, handleVars, startVars, coreVars,
                 queueVars, term, clientVars>>

(* Success: a fresh ConnectionState is registered under the gate.          *)
Register(s) ==
  /\ Goto(s, "register", "run")
  /\ gate = None
  /\ active' = [active EXCEPT ![s] = TRUE]
  /\ wakeState' = s
  /\ UNCHANGED <<connectionActive, coreLock, gate, stopRequested, shared, startVars,
                 coreVars, queueVars, term, clientVars, outcome>>

-----------------------------------------------------------------------------
(* stream::run                                                             *)

(* Unusable video parameters drop the connection; otherwise the worker     *)
(* hands a ConnectionControl out and consumes video, if a decoder opens.   *)
BeginRun(s) ==
  /\ \/ Goto(s, "run", "stop") /\ UNCHANGED shared
     \/ Goto(s, "run", "loop") /\ shared' = shared \cup {s}
     \/ Goto(s, "run", "exit") /\ shared' = shared \cup {s}
  /\ UNCHANGED <<connectionActive, lockVars, active, stopRequested, startVars, coreVars,
                 queueVars, term, clientVars, outcome>>

(* The loop test and the guard of wait_for_video_frame.                    *)
MayWait(s) == ~stopRequested[s] /\ terminationError = None

EnterWait(s) ==
  /\ Goto(s, "loop", IF MayWait(s) THEN "wait" ELSE "exit")
  /\ UNCHANGED <<connectionActive, lockVars, handleVars, startVars, coreVars,
                 queueVars, term, clientVars, outcome>>

(* mls_wait_video_frame: a pending wake comes before queued frames, and an *)
(* empty queue blocks.                                                     *)
WaitWoken(s) ==
  /\ Goto(s, "wait", "exit")
  /\ pendingWake
  /\ pendingWake' = FALSE
  /\ UNCHANGED <<connectionActive, lockVars, handleVars, startVars, coreVars, frames,
                 term, clientVars, outcome>>

(* A frame with bad pointers or length is completed at once with an error. *)
WaitFrame(s) ==
  /\ \/ Goto(s, "wait", "frame")
     \/ Goto(s, "wait", "exit")
  /\ ~pendingWake
  /\ frames > 0
  /\ frames' = frames - 1
  /\ UNCHANGED <<connectionActive, lockVars, handleVars, startVars, coreVars, pendingWake,
                 term, clientVars, outcome>>

(* The frame is decoded and completed, or decoding fails and ends the loop *)
(* with the frame completed as needing an IDR.                             *)
CompleteFrame(s) ==
  /\ \/ Goto(s, "frame", "loop")
     \/ Goto(s, "frame", "exit")
  /\ UNCHANGED <<connectionActive, lockVars, handleVars, startVars, coreVars,
                 queueVars, term, clientVars, outcome>>

(* run reads termination_error before it stops the connection.             *)
ReadTermination(s) ==
  /\ Goto(s, "exit", "stop")
  /\ Tell(s, "ended", terminationError)
  /\ UNCHANGED <<connectionActive, lockVars, handleVars, startVars, coreVars,
                 queueVars, term, clientVars>>

-----------------------------------------------------------------------------
(* Connection::stop                                                        *)

(* Mutant: stop does not take CORE_CONNECTION_LOCK.                        *)
StopUnlocked(s) ==
  /\ Goto(s, "lock", "unregister")
  /\ UNCHANGED <<connectionActive, lockVars, handleVars, startVars, coreVars, queueVars,
                 term, clientVars, outcome>>

StopRequest(s) ==
  /\ Goto(s, "stop", "lock")
  /\ stopRequested' = [stopRequested EXCEPT ![s] = TRUE]
  /\ UNCHANGED <<connectionActive, lockVars, active, shared, startVars, coreVars,
                 queueVars, term, clientVars, outcome>>

StopLock(s) ==
  /\ Goto(s, "lock", "unregister")
  /\ coreLock = None
  /\ coreLock' = s
  /\ UNCHANGED <<connectionActive, gate, wakeState, handleVars, startVars, coreVars,
                 queueVars, term, clientVars, outcome>>

(* Mutant: stop unregisters without the gate.                              *)
UnregisterUngated(s) ==
  /\ Goto(s, "unregister", "stopCore")
  /\ active' = [active EXCEPT ![s] = FALSE]
  /\ wakeState' = None
  /\ UNCHANGED <<connectionActive, coreLock, gate, stopRequested, shared, startVars,
                 coreVars, queueVars, term, clientVars, outcome>>

(* Under the gate the connection becomes inactive and unregistered.        *)
Unregister(s) ==
  /\ Goto(s, "unregister", "stopCore")
  /\ gate = None
  /\ active' = [active EXCEPT ![s] = FALSE]
  /\ wakeState' = None
  /\ UNCHANGED <<connectionActive, coreLock, gate, stopRequested, shared, startVars,
                 coreVars, queueVars, term, clientVars, outcome>>

(* LiStopConnection first shuts the termination latch ...                  *)
StopCore(s) ==
  /\ Goto(s, "stopCore", "join")
  /\ alreadyTerminated' = TRUE
  /\ UNCHANGED <<connectionActive, lockVars, handleVars, startVars, core, terminationCode,
                 terminationError, queueVars, term, clientVars, outcome>>

(* ... then joins the core's threads and destroys the queue.               *)
JoinCore(s) ==
  /\ Goto(s, "join", "clear")
  /\ Joinable(s)
  /\ core' = None
  /\ frames' = 0
  /\ UNCHANGED <<connectionActive, lockVars, handleVars, startVars, alreadyTerminated,
                 terminationCode, terminationError, pendingWake, term, clientVars, outcome>>

ClearRenderer(s) ==
  /\ Goto(s, "clear", "release")
  /\ renderer' = None
  /\ UNCHANGED <<connectionActive, lockVars, handleVars, audioError, lastStage, coreVars,
                 queueVars, term, clientVars, outcome>>

Release(s) ==
  /\ Goto(s, "release", "unlock")
  /\ connectionActive' = FALSE
  /\ UNCHANGED <<lockVars, handleVars, startVars, coreVars, queueVars, term,
                 clientVars, outcome>>

StopUnlock(s) ==
  /\ Goto(s, "unlock", "done")
  /\ coreLock' = None
  /\ UNCHANGED <<connectionActive, gate, wakeState, handleVars, startVars, coreVars,
                 queueVars, term, clientVars, outcome>>

-----------------------------------------------------------------------------
(* The transport core                                                      *)

(* The receive thread offers a frame; a full queue is flushed instead.     *)
OfferFrame(s) ==
  /\ core = s
  /\ frames' = IF frames = QueueBound THEN 0 ELSE frames + 1
  /\ UNCHANGED <<connectionActive, lockVars, handleVars, startVars, coreVars, pendingWake,
                 term, pc, clientVars, outcome>>

(* mls_rust_audio_decode: a packet of bad length, or a renderer that fails *)
(* or panics; after the first error no packet reaches the renderer.        *)
FailAudio(s) ==
  /\ core = s
  /\ renderer = s
  /\ audioError = None
  /\ audioError' = FirstError(s)
  /\ UNCHANGED <<connectionActive, lockVars, handleVars, renderer, lastStage, coreVars,
                 queueVars, term, pc, clientVars, outcome>>

(***************************************************************************)
(* ClInternalConnectionTerminated tests the latch and sets it in separate  *)
(* steps, so two workers can both get through.                             *)
(***************************************************************************)
TestLatch(s, w) ==
  /\ core = s
  /\ term[<<s, w>>] = "none"
  /\ ~alreadyTerminated
  /\ term' = [term EXCEPT ![<<s, w>>] = "passed"]
  /\ UNCHANGED <<connectionActive, lockVars, handleVars, startVars, coreVars, queueVars,
                 pc, clientVars, outcome>>

(* scarlet_thread_create: no callback ever runs if there is no thread.     *)
Created == {"spawned", "lost"}

SpawnCallback(s, w) ==
  /\ term[<<s, w>>] = "passed"
  /\ \E next \in Created : term' = [term EXCEPT ![<<s, w>>] = next]
  /\ terminationCode' = s
  /\ alreadyTerminated' = TRUE
  /\ UNCHANGED <<connectionActive, lockVars, handleVars, startVars, core,
                 terminationError, queueVars, pc, clientVars, outcome>>

(* mls_connection_terminated: the error is stored before the wake.         *)
StoreTermination(c) ==
  /\ term[c] = "spawned"
  /\ term' = [term EXCEPT ![c] = "stored"]
  /\ terminationError' = terminationCode
  /\ UNCHANGED <<connectionActive, lockVars, handleVars, startVars, core,
                 alreadyTerminated, terminationCode, queueVars, pc, clientVars, outcome>>

(* mls_rust_connection_terminated holds the gate while it wakes.           *)
CallbackGate(c) ==
  /\ term[c] = "stored"
  /\ gate = None
  /\ gate' = c
  /\ term' = [term EXCEPT ![c] = "gate"]
  /\ UNCHANGED <<connectionActive, coreLock, wakeState, handleVars, startVars, coreVars,
                 queueVars, pc, clientVars, outcome>>

(* Mutant: the termination callback records the error but wakes nobody.    *)
CallbackSilent(c) ==
  /\ term[c] = "wake"
  /\ term' = [term EXCEPT ![c] = "over"]
  /\ gate' = None
  /\ UNCHANGED <<connectionActive, coreLock, wakeState, handleVars, startVars, coreVars,
                 queueVars, pc, clientVars, outcome>>

CallbackCheck(c) ==
  /\ term[c] = "gate"
  /\ IF wakeState # None
     THEN term' = [term EXCEPT ![c] = "wake"] /\ UNCHANGED gate
     ELSE term' = [term EXCEPT ![c] = "over"] /\ gate' = None
  /\ UNCHANGED <<connectionActive, coreLock, wakeState, handleVars, startVars, coreVars,
                 queueVars, pc, clientVars, outcome>>

CallbackWake(c) ==
  /\ term[c] = "wake"
  /\ term' = [term EXCEPT ![c] = "over"]
  /\ pendingWake' = TRUE
  /\ gate' = None
  /\ UNCHANGED <<connectionActive, coreLock, wakeState, handleVars, startVars, coreVars,
                 frames, pc, clientVars, outcome>>

-----------------------------------------------------------------------------
(* ConnectionControl                                                       *)

ClientGoto(u, from, to) ==
  /\ clientPc[u] = from
  /\ clientPc' = [clientPc EXCEPT ![u] = to]

(* request_stop stores the flag and then wants the gate.                   *)
RequestStop(u, s) ==
  /\ s \in shared
  /\ ClientGoto(u, "idle", "gate")
  /\ target' = [target EXCEPT ![u] = s]
  /\ stopRequested' = [stopRequested EXCEPT ![s] = TRUE]
  /\ UNCHANGED <<connectionActive, lockVars, active, shared, startVars, coreVars,
                 queueVars, term, pc, outcome>>

RequestGate(u) ==
  /\ ClientGoto(u, "gate", "check")
  /\ gate = None
  /\ gate' = u
  /\ UNCHANGED <<connectionActive, coreLock, wakeState, handleVars, startVars, coreVars,
                 queueVars, term, pc, target, outcome>>

(* Mutant: request_stop sets the flag but does not wake the worker.        *)
RequestSilent(u) ==
  /\ ClientGoto(u, "wake", "idle")
  /\ gate' = None
  /\ UNCHANGED <<connectionActive, coreLock, wakeState, handleVars, startVars, coreVars,
                 queueVars, term, pc, target, outcome>>

RequestCheck(u) ==
  /\ clientPc[u] = "check"
  /\ IF active[target[u]]
     THEN ClientGoto(u, "check", "wake") /\ UNCHANGED gate
     ELSE ClientGoto(u, "check", "idle") /\ gate' = None
  /\ UNCHANGED <<connectionActive, coreLock, wakeState, handleVars, startVars, coreVars,
                 queueVars, term, pc, target, outcome>>

RequestWake(u) ==
  /\ ClientGoto(u, "wake", "idle")
  /\ pendingWake' = TRUE
  /\ gate' = None
  /\ UNCHANGED <<connectionActive, coreLock, wakeState, handleVars, startVars, coreVars,
                 frames, term, pc, target, outcome>>

(* supports_touch, and every other operation once its coordinates or its   *)
(* controller's number are good, takes the core lock first ...             *)
LockForInput(u, s) ==
  /\ s \in shared
  /\ ClientGoto(u, "idle", "input")
  /\ target' = [target EXCEPT ![u] = s]
  /\ coreLock = None
  /\ coreLock' = u
  /\ UNCHANGED <<connectionActive, gate, wakeState, handleVars, startVars, coreVars,
                 queueVars, term, pc, outcome>>

(* ... and give up unless the connection is active ...                     *)
CheckInput(u) ==
  /\ clientPc[u] = "input"
  /\ IF active[target[u]]
     THEN ClientGoto(u, "input", "send") /\ UNCHANGED coreLock
     ELSE ClientGoto(u, "input", "idle") /\ coreLock' = None
  /\ UNCHANGED <<connectionActive, gate, wakeState, handleVars, startVars, coreVars,
                 queueVars, term, pc, target, outcome>>

(* ... before it calls into the core, which may refuse the packet.         *)
SendInput(u) ==
  /\ ClientGoto(u, "send", "idle")
  /\ coreLock' = None
  /\ UNCHANGED <<connectionActive, gate, wakeState, handleVars, startVars, coreVars,
                 queueVars, term, pc, target, outcome>>

-----------------------------------------------------------------------------
(* The steps that wait for a lock, and those that never wait.              *)
LockStep(s) == Register(s) \/ StopLock(s) \/ Unregister(s)

WorkerStep(s) ==
  \/ InstallRenderer(s) \/ ResetBridge(s) \/ BringUpCore(s) \/ FailStage(s)
  \/ StartCore(s) \/ ClearAfterFailure(s) \/ ReleaseAfterFailure(s) \/ ReportStage(s)
  \/ BeginRun(s) \/ EnterWait(s) \/ WaitWoken(s) \/ WaitFrame(s) \/ CompleteFrame(s)
  \/ ReadTermination(s) \/ StopRequest(s) \/ StopCore(s) \/ JoinCore(s)
  \/ ClearRenderer(s) \/ Release(s) \/ StopUnlock(s)

CallbackStep(c) == StoreTermination(c) \/ CallbackCheck(c) \/ CallbackWake(c)

ClientStep(u) == RequestCheck(u) \/ RequestWake(u) \/ CheckInput(u) \/ SendInput(u)

Next ==
  \/ \E s \in Session :
       \/ Claim(s) \/ LockStep(s) \/ WorkerStep(s) \/ OfferFrame(s) \/ FailAudio(s)
       \/ \E w \in Worker : TestLatch(s, w) \/ SpawnCallback(s, w)
       \/ \E u \in Client : RequestStop(u, s) \/ LockForInput(u, s)
  \/ \E c \in Callback : CallbackStep(c) \/ CallbackGate(c)
  \/ \E u \in Client : ClientStep(u) \/ RequestGate(u)

Spec == Init /\ [][Next]_vars

(***************************************************************************)
(* Threads that have begun an operation are scheduled again, and a lock    *)
(* that is free time and again is eventually theirs.  Nobody is obliged to *)
(* start a session, send input, request a stop, or lose the connection.    *)
(***************************************************************************)
Fairness ==
  /\ \A s \in Session : WF_vars(WorkerStep(s)) /\ SF_vars(LockStep(s))
  /\ \A s \in Session, w \in Worker : WF_vars(SpawnCallback(s, w))
  /\ \A c \in Callback : WF_vars(CallbackStep(c)) /\ SF_vars(CallbackGate(c))
  /\ \A u \in Client : WF_vars(ClientStep(u)) /\ SF_vars(RequestGate(u))

FairSpec == Spec /\ Fairness

-----------------------------------------------------------------------------
Owning == Points \ {"idle", "report", "unlock", "done"}
Owner(s) == pc[s] \in Owning

(***************************************************************************)
(* The transport core, its renderer and its wake registration always       *)
(* belong to the one attempt that holds the singleton; an attempt that     *)
(* failed or was refused leaves nothing of itself behind.                  *)
(***************************************************************************)
CoreBelongsToOwner ==
  /\ \A s, t \in Session : Owner(s) /\ Owner(t) => s = t
  /\ \A s \in Session :
       core = s \/ renderer = s \/ wakeState = s => Owner(s) /\ connectionActive

(***************************************************************************)
(* A wake is never delivered to a queue that does not exist: whoever is    *)
(* about to call mls_wake_video_frame, a request_stop or a termination     *)
(* callback of any session however late, finds an initialized queue, and   *)
(* request_stop finds the queue of its own session.                        *)
(***************************************************************************)
WakeHitsLiveQueue ==
  /\ \A u \in Client : clientPc[u] = "wake" => core = target[u]
  /\ \A c \in Callback : term[c] = "wake" => core # None

(***************************************************************************)
(* send_input calls into the core only while the core is the one that the  *)
(* handle was made for: a handle kept from an earlier session never steers *)
(* a later one, and stop cannot dismantle the core under a running send.   *)
(***************************************************************************)
InputReachesOwnCore == \A u \in Client : clientPc[u] = "send" => core = target[u]

(* The frame loop only ever waits on, and holds frames of, its own core.   *)
ConsumerHasQueue ==
  \A s \in Session : pc[s] \in {"wait", "frame"} => core = s /\ active[s]

(***************************************************************************)
(* As long as an attempt owns the singleton, the stage that the bridge     *)
(* recorded is its own, and an audio error is only ever reported to the    *)
(* attempt whose renderer raised it.  (The stage of StartFailed is read    *)
(* after the singleton was given up, when only the audio error is safe.)   *)
(***************************************************************************)
ReportsAreOwn ==
  \A s \in Session :
    /\ Owner(s) /\ pc[s] \notin {"install", "start"} => lastStage = s
    /\ outcome[s].error = "audio" => outcome[s].by = s

-----------------------------------------------------------------------------
(* The holder of the singleton behaves like the holder of a mutex.         *)
OwnerOrNone ==
  IF \E s \in Session : Owner(s) THEN CHOOSE s \in Session : Owner(s) ELSE None

Lease == INSTANCE Mutex WITH Thread <- Session, Nobody <- None, holder <- OwnerOrNone

(* Ownership passes from one attempt to the next only through a state in   *)
(* which nobody owns the connection.                                       *)
ImplementsLease == Lease!Spec

-----------------------------------------------------------------------------
(* A requested stop is obeyed: no wake is lost between the worker's test   *)
(* of the flags and its wait, and nothing in stop can block for ever.      *)
StopIsObeyed == \A s \in Session : stopRequested[s] ~> pc[s] = "done"

(* Once a termination callback of a session is on its way, the session's   *)
(* frame loop ends even if no frame and no stop request ever comes.        *)
TerminationEndsLoop ==
  \A s \in Session :
    (\E w \in Worker : term[<<s, w>>] \notin {"none", "passed", "lost"})
      ~> pc[s] \notin {"loop", "wait", "frame"}

-----------------------------------------------------------------------------
(* What the documentation of termination_error says: an attempt reports no *)
(* termination unless its own core was terminated.                         *)
TerminationIsOwn ==
  \A s \in Session : outcome[s].error = "ended" => outcome[s].by \in {s, None}

=============================================================================
