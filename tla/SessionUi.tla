------------------------------ MODULE SessionUi ------------------------------
(***************************************************************************)
(* The application's session logic (moonlight/src/ui.rs, MoonlightApp, and *)
(* stream.rs, run).  The UI thread handles clicks and shortcuts and spawns *)
(* one worker thread per host operation: connect, start, cancel.  A worker *)
(* blocks in the network or in the transport core and publishes what it    *)
(* learns through States shared with the UI, one set() at a time.          *)
(*                                                                         *)
(* A handler of the UI thread is one step; each set() of a worker that     *)
(* another thread reads back is a step of its own.  The transport core is  *)
(* the abstract lease that module Connection implements.  Status texts,    *)
(* titles and the prepared session's contents are left out.                *)
(***************************************************************************)
EXTENDS Naturals, FiniteSets

CONSTANTS
  Worker,   \* worker threads
  NoWorker  \* no thread

ASSUME WorkerAssumption == NoWorker \notin Worker

VARIABLES
  phase,     \* SessionPhase
  page,      \* selected_page
  back,      \* return_page
  host,      \* connected_host: none, or whether it reports a running game
  apps,      \* application_items is not empty
  control,   \* stream_control: whose connection it stops
  open,      \* the window has not been shut down
  active,    \* the worker whose connection holds the transport core
  stopped,   \* the workers whose connection was asked to stop
  pc,        \* where each worker is
  patient    \* so far the user added hosts and started games only when nothing was under way

ui == <<page, back, apps, open>>
core == <<active, stopped>>
vars == <<phase, host, control, ui, core, pc, patient>>

Phases == {"Idle", "Connecting", "Pairing", "Ready", "Launching",
           "SessionPrepared", "Streaming", "Failed"}
Pages == {"computers", "games", "settings", "add", "stream", "licenses", "license"}
Hosts == {"none", "idle", "running"}

ConnectPoints == {"query", "contact", "pair", "connected"}
StartPoints == {"request", "claim", "bringUp", "announce"}
StreamPoints == {"show", "consume", "dropOk", "dropErr", "judgeOk", "judgeErr", "prepare"}
QuitPoints == {"quit", "quitOk"}
Points == ConnectPoints \cup StartPoints \cup StreamPoints \cup QuitPoints
            \cup {"idle", "computers", "games"}

TypeOK ==
  /\ phase \in Phases
  /\ page \in Pages
  /\ back \in {"computers", "games"}
  /\ host \in Hosts
  /\ apps \in BOOLEAN
  /\ control \in Worker \cup {NoWorker}
  /\ open \in BOOLEAN
  /\ active \in Worker \cup {NoWorker}
  /\ stopped \in SUBSET Worker
  /\ pc \in [Worker -> Points]
  /\ patient \in BOOLEAN

(* run() connects at once when a host was saved.                           *)
Init ==
  /\ page = "computers"
  /\ back = "computers"
  /\ host = "none"
  /\ apps = FALSE
  /\ control = NoWorker
  /\ open = TRUE
  /\ active = NoWorker
  /\ stopped = {}
  /\ patient = TRUE
  /\ \/ phase = "Idle" /\ pc = [w \in Worker |-> "idle"]
     \/ /\ phase = "Connecting"
        /\ \E s \in Worker : pc = [w \in Worker |-> IF w = s THEN "query" ELSE "idle"]

-----------------------------------------------------------------------------
(* Handlers of the UI thread                                               *)

Spawn(first) == \E w \in Worker : pc[w] = "idle" /\ pc' = [pc EXCEPT ![w] = first]

(* Mutant: the handle is dropped without a request to stop.                *)
RequestStopNever == stopped' = stopped

(* Stop the stream the UI has a handle of.                                 *)
RequestStop == stopped' = stopped \cup ({control} \ {NoWorker})

(* connect() on an empty host only resets the phase.                       *)
ConnectNowhere ==
  /\ open /\ page = "add"
  /\ phase' = "Idle"
  /\ UNCHANGED <<host, control, ui, core, pc>>

Connect ==
  /\ open /\ page = "add"
  /\ phase \notin {"Connecting", "Pairing"}
  /\ phase' = "Connecting"
  /\ apps' = FALSE
  /\ host' = "none"
  /\ Spawn("query")
  /\ UNCHANGED <<page, back, control, open, core>>

(* start_application, from a cell of the games page                        *)
StartApplication ==
  /\ open /\ page = "games" /\ apps
  /\ phase \notin {"Connecting", "Pairing", "Launching", "Streaming"}
  /\ host # "none"
  /\ phase' = "Launching"
  /\ Spawn("request")
  /\ UNCHANGED <<host, control, ui, core>>

(* "Quit Game" is offered on the stream page, and on the games page while  *)
(* the host reports a game.                                                *)
CancelHostApplication ==
  /\ open
  /\ page = "stream" \/ (page = "games" /\ host = "running")
  /\ phase \notin {"Connecting", "Pairing", "Launching"}
  /\ host # "none"
  /\ RequestStop
  /\ control' = NoWorker
  /\ phase' = "Launching"
  /\ page' = "games"
  /\ Spawn("quit")
  /\ UNCHANGED <<host, back, apps, open, active>>

(* The disconnect button and shortcut.                                     *)
StopStream ==
  /\ open /\ page = "stream"
  /\ RequestStop
  /\ page' = "games"
  /\ UNCHANGED <<phase, host, control, back, apps, open, active, pc>>

Shutdown ==
  /\ open
  /\ RequestStop
  /\ open' = FALSE
  /\ UNCHANGED <<phase, host, control, page, back, apps, active, pc>>

Opens(from, to) == page = from /\ page' = to

GoBack ==
  \/ Opens("games", "computers")
  \/ Opens("license", "licenses")
  \/ Opens("licenses", "settings")
  \/ Opens("settings", back)
  \/ Opens("add", back)

(* open_games, open_add_pc, open_settings, open_licenses, open_license and *)
(* go_back                                                                 *)
Navigate ==
  /\ open
  /\ \/ host # "none" /\ Opens("computers", "games") /\ UNCHANGED back
     \/ Opens("computers", "add") /\ back' = "computers"
     \/ page \in {"computers", "games"} /\ page' = "settings" /\ back' = page
     \/ Opens("settings", "licenses") /\ UNCHANGED back
     \/ Opens("licenses", "license") /\ UNCHANGED back
     \/ GoBack /\ UNCHANGED back
  /\ UNCHANGED <<phase, host, control, apps, open, core, pc>>

-----------------------------------------------------------------------------
(* Workers                                                                 *)

Goto(w, from, to) == pc[w] = from /\ pc' = [pc EXCEPT ![w] = to]

SetPhase(w, from, to, p) ==
  /\ Goto(w, from, to)
  /\ phase' = p
  /\ UNCHANGED <<host, control, ui, core>>

SetPage(w, from, to, p) ==
  /\ Goto(w, from, to)
  /\ page' = p
  /\ UNCHANGED <<phase, host, control, back, apps, open, core>>

FetchServerInfo(w) == SetPhase(w, "query", "contact", "Connecting")

WaitForPin(w) == SetPhase(w, "contact", "pair", "Pairing")

PairingStage(w) == SetPhase(w, "pair", "pair", "Pairing")

(* The connect worker has an answer: it publishes applications and host.   *)
PublishHost(w) ==
  /\ \/ Goto(w, "contact", "connected")
     \/ Goto(w, "pair", "connected")
  /\ apps' \in BOOLEAN
  /\ host' \in {"idle", "running"}
  /\ UNCHANGED <<phase, control, page, back, open, core>>

ConnectFails(w) ==
  \E p \in {"query", "contact", "pair"} : SetPhase(w, p, "idle", "Failed")

(* start_session answers: the game runs on the host.                       *)
SessionGranted(w) ==
  /\ Goto(w, "request", "claim")
  /\ host' = "running"
  /\ UNCHANGED <<phase, control, ui, core>>

SessionRefused(w) == SetPhase(w, "request", "idle", "Failed")

(* Connection::start_with_audio takes the singleton core or fails at once. *)
ClaimCore(w) ==
  /\ IF active = NoWorker
     THEN Goto(w, "claim", "bringUp") /\ active' = w
     ELSE Goto(w, "claim", "dropErr") /\ UNCHANGED active
  /\ stopped' = stopped \ {w}
  /\ UNCHANGED <<phase, host, control, ui>>

BringUpFails(w) ==
  /\ Goto(w, "bringUp", "dropErr")
  /\ active' = NoWorker
  /\ UNCHANGED <<phase, host, control, ui, stopped>>

(* The started callback publishes the handle, the phase and the page.      *)
PublishHandle(w) ==
  /\ Goto(w, "bringUp", "announce")
  /\ control' = w
  /\ UNCHANGED <<phase, host, ui, core>>

Announce(w) == SetPhase(w, "announce", "show", "Streaming")

ShowStream(w) == SetPage(w, "show", "consume", "stream")

(* consume_video returns and the connection stops: because it was asked to,*)
(* because the host ended the stream, or because of an error.              *)
EndStream(w) ==
  /\ Goto(w, "consume", "dropOk") \/ Goto(w, "consume", "dropErr")
  /\ active' = NoWorker
  /\ UNCHANGED <<phase, host, control, ui, stopped>>

(* Mutant: a stream that failed leaves its handle behind.                  *)
DropHandleIfOk(w) ==
  /\ \/ Goto(w, "dropOk", "judgeOk") /\ control' = NoWorker
     \/ Goto(w, "dropErr", "judgeErr") /\ UNCHANGED control
  /\ UNCHANGED <<phase, host, ui, core>>

(* stream_control.set(None), whoever's handle it holds by now              *)
DropHandle(w) ==
  /\ Goto(w, "dropOk", "judgeOk") \/ Goto(w, "dropErr", "judgeErr")
  /\ control' = NoWorker
  /\ UNCHANGED <<phase, host, ui, core>>

(* Mutant: the phase is left alone whatever it says.                       *)
JudgeQuietly(w) ==
  /\ Goto(w, "judgeOk", "idle")
  /\ UNCHANGED <<phase, host, control, ui, core>>

(* An orderly end counts only if the phase still says Streaming ...        *)
JudgeOk(w) ==
  /\ Goto(w, "judgeOk", IF phase = "Streaming" THEN "prepare" ELSE "idle")
  /\ UNCHANGED <<phase, host, control, ui, core>>

(* ... and a failure counts always.                                        *)
JudgeErr(w) == SetPhase(w, "judgeErr", "games", "Failed")

Prepare(w) == SetPhase(w, "prepare", "games", "SessionPrepared")

(* Mutant: a refused cancellation leaves the phase at Launching.           *)
QuitFailsSilently(w) ==
  /\ Goto(w, "quit", "idle")
  /\ UNCHANGED <<phase, host, control, ui, core>>

QuitFails(w) == SetPhase(w, "quit", "idle", "Failed")

QuitAnswered(w) ==
  /\ Goto(w, "quit", "quitOk")
  /\ host' = "idle"
  /\ UNCHANGED <<phase, control, ui, core>>

Ready(w) ==
  \/ SetPhase(w, "connected", "computers", "Ready")
  \/ SetPhase(w, "quitOk", "games", "Ready")

GoHome(w) ==
  \/ SetPage(w, "computers", "idle", "computers")
  \/ SetPage(w, "games", "idle", "games")

-----------------------------------------------------------------------------
(* What a worker does on its own, its network calls answered in time.      *)
WorkerStep(w) ==
  \/ FetchServerInfo(w) \/ PublishHost(w) \/ ConnectFails(w)
  \/ SessionGranted(w) \/ SessionRefused(w)
  \/ ClaimCore(w) \/ BringUpFails(w) \/ PublishHandle(w) \/ Announce(w) \/ ShowStream(w)
  \/ DropHandle(w) \/ JudgeOk(w) \/ JudgeErr(w) \/ Prepare(w)
  \/ QuitFails(w) \/ QuitAnswered(w) \/ Ready(w) \/ GoHome(w)

(* What sets out on a new operation, and everything else the user does.    *)
SetOut == ConnectNowhere \/ Connect \/ StartApplication

UiStep == SetOut \/ CancelHostApplication \/ StopStream \/ Shutdown \/ Navigate

Quiet == \A w \in Worker : pc[w] = "idle"

(* The steps of a user who sets out only when nothing is under way.        *)
PatientNext ==
  \/ SetOut /\ Quiet
  \/ CancelHostApplication \/ StopStream \/ Shutdown \/ Navigate
  \/ \E w \in Worker : WorkerStep(w) \/ WaitForPin(w) \/ PairingStage(w) \/ EndStream(w)

Next ==
  \/ PatientNext /\ UNCHANGED patient
  \/ SetOut /\ ~Quiet /\ patient' = FALSE

Spec == Init /\ [][Next]_vars

(***************************************************************************)
(* Workers go on, every network call has a timeout, and a connection that  *)
(* was asked to stop ends its frame loop (module Connection).              *)
(***************************************************************************)
FairSpec ==
  /\ Spec
  /\ \A w \in Worker : /\ WF_vars(WorkerStep(w) /\ UNCHANGED patient)
                       /\ WF_vars(w \in stopped /\ EndStream(w) /\ UNCHANGED patient)

-----------------------------------------------------------------------------
(***************************************************************************)
(* Safety                                                                  *)
(***************************************************************************)

At(points) == \E w \in Worker : pc[w] \in points

(* Every phase that makes the UI refuse clicks is one that a running       *)
(* worker will still replace: the UI cannot stay locked, whatever          *)
(* operations overlapped and in whatever order they answered.              *)
BusyPhaseOwned ==
  /\ phase \in {"Connecting", "Pairing"} => At(ConnectPoints)
  /\ phase = "Launching" => At(StartPoints \cup QuitPoints \cup {"dropErr", "judgeErr"})
  /\ phase = "Streaming" => At(StreamPoints)

(* The handle the UI stops streams and sends input with is never that of a *)
(* worker that has already cleaned up.                                     *)
HandleLive ==
  control # NoWorker =>
    pc[control] \in {"announce", "show", "consume", "dropOk", "dropErr"}

(* A phase that refuses clicks always gives way.                           *)
BusyPhasesEnd ==
  phase \in {"Connecting", "Pairing", "Launching"}
    ~> phase \notin {"Connecting", "Pairing", "Launching"}

-----------------------------------------------------------------------------
(***************************************************************************)
(* What the documentation says and the code keeps only for a patient user, *)
(* or not at all                                                           *)
(***************************************************************************)

(* README: the shortcut disconnects the stream.  It can only if the UI     *)
(* holds the handle of the stream that runs.  Another start, or the late   *)
(* end of an earlier stream, takes the handle away ...                     *)
StreamCanBeStopped ==
  \A w \in Worker : pc[w] = "consume" => control = w \/ w \in stopped

(* ... but not from a user who never set out on an operation while another *)
(* was under way, whatever else was clicked meanwhile.                     *)
PatientCanStop == patient => StreamCanBeStopped

=============================================================================
