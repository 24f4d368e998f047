----------------------------- MODULE HostSession -----------------------------
(***************************************************************************)
(* The host control plane (moonlight-control/src/client.rs, session.rs and *)
(* xml.rs): connecting with pairing in five exchanges, starting, resuming  *)
(* and cancelling an application.  GameStreamClient keeps no state of its  *)
(* own, so one caller is modelled; what other callers and other clients do *)
(* to the host are steps of the host.                                      *)
(*                                                                         *)
(* A request of the client is one step: the host takes it and the client   *)
(* goes on with the answer.  What happens before the client acts on an     *)
(* answer is what happens before its next request.  A request may also go  *)
(* unanswered, and the host may take it later, or never.                   *)
(***************************************************************************)
EXTENDS Naturals, FiniteSets

CONSTANTS
  App,     \* identifiers of applications
  NoApp,   \* the identifier 0
  MaxLate  \* bound: requests given up by the client and still under way

ASSUME AppAssumption == NoApp \notin App /\ MaxLate \in Nat

VARIABLES
  game,     \* what the host runs
  known,    \* the host lists the client's certificate
  held,     \* which pairing of this client the host is engaged in
  typed,    \* the PIN typed at the host for the latest prompt was the client's
  late,     \* requests under way that the client has given up
  pc,       \* the exchange the client is waiting for
  op,       \* the operation called, until it fails
  app,      \* its application
  seen,     \* current_game of the public answer that connect goes on with
  switched  \* what the host runs has changed since the client set out to resume it

host == <<game, known, held, typed>>
call == <<op, app>>
session == <<host, late, pc, call, seen, switched>>

Games == App \cup {NoApp}
Starts == {"start", "launch", "resume"}
Ops == Starts \cup {"none", "connect", "cancel"}

(* A pairing of this client that it has itself abandoned is "stale".       *)
Engagements == {"free", "client", "stale"}

Pairing == {"prompt", "challenge", "response", "secret", "confirmPair"}
Connecting == Pairing \cup {"info", "auth", "unpair", "verify", "list"}
Asking == Connecting \cup {"query", "launch", "resume", "cancel", "confirm"}

(* What a request does to the host, as far as it does anything.            *)
Effects == {"launch", "cancel", "unpair", "prompt", "secret"}
Late == [does : Effects, app : Games]

SessionTypes ==
  /\ game \in Games
  /\ known \in BOOLEAN
  /\ held \in Engagements
  /\ typed \in BOOLEAN
  /\ late \subseteq Late
  /\ pc \in Asking \cup {"idle", "ok"}
  /\ op \in Ops
  /\ app \in Games
  /\ seen \in Games
  /\ switched \in BOOLEAN
  /\ pc = "idle" <=> op = "none"
  /\ pc \in Connecting => op = "connect"
  /\ pc \in {"cancel", "confirm"} => op = "cancel"
  /\ pc = "query" => op \in Starts \cup {"cancel"}
  /\ pc \in {"launch", "resume"} => op \in Starts
  /\ op \in Starts => app \in App

SessionInit ==
  /\ game \in Games
  /\ known \in BOOLEAN
  /\ held = "free"
  /\ typed = FALSE
  /\ late = {}
  /\ pc = "idle"
  /\ op = "none"
  /\ app = NoApp
  /\ seen = NoApp
  /\ switched = FALSE

(* The call goes on with another exchange, or it returns.                  *)
Proceed(to) ==
  /\ pc' = to
  /\ op' = IF to = "idle" THEN "none" ELSE op
  /\ app' = IF to = "idle" THEN NoApp ELSE app
Goto(from, to) == pc = from /\ Proceed(to)

(* Whether the host does what it is asked: it pairs with one client at a   *)
(* time, which it must have prompted for, and knows its clients.           *)
Granted ==
  CASE pc = "prompt"                             -> held = "free"
    [] pc \in {"challenge", "response"}          -> held = "client"
    [] pc = "secret"                             -> held = "client" /\ typed
    [] pc = "launch"                             -> known /\ game = NoApp
    [] pc = "resume"                             -> known /\ game # NoApp
    [] pc \in {"auth", "confirmPair", "verify",
                "list", "query", "cancel", "confirm"} -> known
    [] OTHER                                     -> TRUE

-----------------------------------------------------------------------------
(* Calls                                                                   *)

Returned == pc \in {"idle", "ok"}

Addresses == {"plain", "empty", "malformed", "nameless", "credentials", "path"}

(* Endpoint::parse                                                         *)
Accepted(address) == address = "plain"

Called(o, a, first) ==
  /\ Returned
  /\ pc' = first
  /\ op' = IF first = "idle" THEN "none" ELSE o
  /\ app' = IF first = "idle" THEN NoApp ELSE a
  /\ UNCHANGED <<host, late, seen>>

Connect == \E address \in Addresses :
  Called("connect", NoApp, IF Accepted(address) THEN "info" ELSE "idle")

(* LaunchConfig::validate, and validate_application with the list of the   *)
(* ConnectedHost that the caller hands over, of whatever age.              *)
Validated(config, a, offered) == config = "valid" /\ a # NoApp /\ a \in offered

CallStart(o, a) ==
  \E config \in {"valid", "empty", "no_bitrate"}, offered \in SUBSET App :
    Called(o, a, IF Validated(config, a, offered) THEN "query" ELSE "idle")

CallCancel == Called("cancel", NoApp, "query")

-----------------------------------------------------------------------------
(* Connecting: GameStreamClient::connect                                   *)

(* current_game counts only while the host says that it is busy; a free    *)
(* host may still name the game it ran last.                               *)
CurrentGame(info) == IF info.busy THEN info.game ELSE NoApp
ServerInfo == {i \in [busy : {game # NoApp}, game : Games] : i.busy => i.game = game}

(* The client sets out to pair; a host whose version it cannot read is     *)
(* given up like a pairing that failed.                                    *)
BeginPairing ==
  \E first \in IF seen = NoApp THEN {"prompt", "unpair"} ELSE {"idle"} : Proceed(first)

PublicInfo ==
  /\ Goto("info", "auth")
  /\ \E info \in ServerInfo : seen' = CurrentGame(info)
  /\ UNCHANGED <<host, late>>

Recognized ==
  /\ Goto("auth", "list")
  /\ Granted
  /\ seen' = NoApp
  /\ UNCHANGED <<host, late>>

(* The host does not know the client, or the answer did not arrive.        *)
NotRecognized ==
  /\ pc = "auth"
  /\ BeginPairing
  /\ seen' = NoApp
  /\ UNCHANGED <<host, late>>

Applications ==
  /\ Goto("list", "ok")
  /\ Granted
  /\ UNCHANGED <<host, late, seen>>

-----------------------------------------------------------------------------
(* Pairing: pair_inner                                                     *)

(* Stage 1 waits until somebody types a PIN at the host.  An earlier late  *)
(* secret belongs to another challenge and will be refused.                *)
Prompt ==
  /\ Goto("prompt", "challenge")
  /\ Granted
  /\ held' = "client"
  /\ typed' \in BOOLEAN
  /\ late' = {r \in late : r.does # "secret"}
  /\ UNCHANGED <<game, known, seen>>

Challenge ==
  /\ Goto("challenge", "response")
  /\ Granted
  /\ UNCHANGED <<host, late, seen>>

(* Mutant: the hash that proves the host's PIN is not compared.            *)
ResponseUnchecked ==
  /\ Goto("response", "secret")
  /\ Granted
  /\ UNCHANGED <<host, late, seen>>

(* Stage 3: the host proves by its secret that it was given the PIN.       *)
Response ==
  /\ Goto("response", "secret")
  /\ Granted /\ typed
  /\ UNCHANGED <<host, late, seen>>

IncorrectPin ==
  /\ Goto("response", "unpair")
  /\ Granted /\ ~typed
  /\ UNCHANGED <<host, late, seen>>

HostAcceptsSecret ==
  /\ held = "client" /\ typed
  /\ known' = TRUE /\ held' = "free"

Secret ==
  /\ Goto("secret", "confirmPair")
  /\ HostAcceptsSecret
  /\ UNCHANGED <<game, typed, late, seen>>

ConfirmPair ==
  /\ Goto("confirmPair", "verify")
  /\ Granted
  /\ UNCHANGED <<host, late, seen>>

Verify ==
  /\ Goto("verify", "list")
  /\ Granted
  /\ UNCHANGED <<host, late, seen>>

HostUnpairs ==
  /\ known' = FALSE
  /\ held' = IF held \in {"client", "stale"} THEN "free" ELSE held

(* pair asks once to be forgotten and does not look at the answer.         *)
Unpair ==
  /\ Goto("unpair", "idle")
  /\ HostUnpairs
  /\ UNCHANGED <<game, typed, late, seen>>

-----------------------------------------------------------------------------
(* Sessions: session.rs                                                    *)

(* Mutant: a start resumes whatever runs.                                  *)
VerbAny(current) ==
  IF op = "cancel" THEN "cancel"
  ELSE IF current = NoApp /\ op \in {"start", "launch"} THEN "launch"
  ELSE IF op \in {"start", "resume"} THEN "resume"
  ELSE "idle"

(* Mutant: a start always launches.                                        *)
VerbLaunch(current) ==
  IF op = "cancel" THEN "cancel"
  ELSE IF op \in {"start", "launch"} THEN "launch"
  ELSE IF current = app THEN "resume"
  ELSE "idle"

(* The next request after the host's state was read, or none.              *)
Verb(current) ==
  IF op = "cancel" THEN "cancel"
  ELSE IF current = NoApp /\ op \in {"start", "launch"} THEN "launch"
  ELSE IF current = app /\ op \in {"start", "resume"} THEN "resume"
  ELSE "idle"

SessionInfo ==
  /\ pc = "query"
  /\ Granted
  /\ \E info \in ServerInfo : Proceed(Verb(CurrentGame(info)))
  /\ UNCHANGED <<host, late, seen>>

HostLaunches(a) == known /\ game = NoApp /\ game' = a

(* The host grants the session; without a usable URL it is a failure.      *)
LaunchApp ==
  /\ pc = "launch"
  /\ \E result \in {"ok", "idle"} : Proceed(result)
  /\ HostLaunches(app)
  /\ UNCHANGED <<known, held, typed, late, seen>>

Resume ==
  /\ pc = "resume"
  /\ \E result \in {"ok", "idle"} : Proceed(result)
  /\ Granted
  /\ UNCHANGED <<host, late, seen>>

HostCancels == known /\ game' = NoApp

Cancel ==
  /\ Goto("cancel", "confirm")
  /\ HostCancels
  /\ UNCHANGED <<known, held, typed, late, seen>>

(* Mutant: the host is believed without another look.                      *)
ConfirmBlindly ==
  /\ Goto("confirm", "ok")
  /\ Granted
  /\ UNCHANGED <<host, late, seen>>

(* cancel reads the host's state again before it reports success.          *)
Confirm ==
  /\ pc = "confirm"
  /\ Granted
  /\ \E info \in ServerInfo : Proceed(IF CurrentGame(info) = NoApp THEN "ok" ELSE "idle")
  /\ UNCHANGED <<host, late, seen>>

-----------------------------------------------------------------------------
(* Failures                                                                *)

(* Mutant: a failed pairing is simply abandoned.                           *)
AfterFailureNoUnpair == "idle"

(* Where an operation goes when a request of it fails: a pairing asks to   *)
(* be forgotten, everything else reports the error.                        *)
AfterFailure == IF pc \in Pairing THEN "unpair" ELSE "idle"

Refused ==
  /\ pc \in Asking \ {"auth"}
  /\ ~Granted
  /\ Proceed(AfterFailure)
  /\ UNCHANGED <<host, late, seen>>

(* The request does not reach the host, or its answer cannot be read.      *)
Fails ==
  /\ pc \in Asking \ {"auth"}
  /\ Proceed(AfterFailure)
  /\ UNCHANGED <<host, late, seen>>

(* The answer does not come in time, and the host takes the request after  *)
(* the client has given it up.                                             *)
TimesOut ==
  /\ pc \in Effects
  /\ Cardinality(late) < MaxLate
  /\ late' = late \cup {[does |-> pc, app |-> IF pc = "launch" THEN app ELSE NoApp]}
  /\ Proceed(AfterFailure)
  /\ UNCHANGED <<host, seen>>

HostTakesLate ==
  \E r \in late :
    /\ late' = late \ {r}
    /\ \/ r.does = "launch" /\ HostLaunches(r.app) /\ UNCHANGED <<known, held>>
       \/ r.does = "cancel" /\ HostCancels /\ UNCHANGED <<known, held>>
       \/ r.does = "unpair" /\ HostUnpairs /\ UNCHANGED game
       \/ r.does = "prompt" /\ held = "free" /\ held' = "stale" /\ UNCHANGED <<game, known>>
       \/ r.does = "secret" /\ HostAcceptsSecret /\ UNCHANGED game
       \/ UNCHANGED <<game, known, held>>
    /\ UNCHANGED <<typed, pc, call, seen>>

-----------------------------------------------------------------------------
(* The host on its own, its user, and other clients                        *)
HostStep ==
  /\ \/ game' \in Games /\ UNCHANGED <<known, held>>
     \/ known' = FALSE /\ UNCHANGED <<game, held>>
     \/ held' = "free" /\ UNCHANGED <<game, known>>
  /\ UNCHANGED <<typed, late, pc, call, seen>>

-----------------------------------------------------------------------------
Calls == Connect \/ CallCancel \/ \E o \in Starts, a \in Games : CallStart(o, a)

Exchanges ==
  \/ PublicInfo \/ Recognized \/ NotRecognized \/ Applications
  \/ Prompt \/ Challenge \/ Response \/ IncorrectPin \/ Secret \/ ConfirmPair \/ Verify
  \/ Unpair \/ SessionInfo \/ LaunchApp \/ Resume \/ Cancel \/ Confirm
  \/ Refused

(* Whether somebody has made the host run something else, or nothing,      *)
(* while the client's request to resume was under way.                     *)
ObserveSwitch ==
  switched' = (pc = "resume" /\ pc' = "resume" /\ (switched \/ game' # game))

SessionNext ==
  /\ Calls \/ Exchanges \/ Fails \/ TimesOut \/ HostTakesLate \/ HostStep
  /\ ObserveSwitch

(* Every request has a timeout, so it ends.  Nobody has to call.           *)
SessionFairness == WF_session(Exchanges /\ ObserveSwitch)

SessionSpec == SessionInit /\ [][SessionNext]_session /\ SessionFairness

-----------------------------------------------------------------------------
(***************************************************************************)
(* A success that is reported is true: connect ends at a host that lists   *)
(* the client, cancel at a host that runs nothing, and a session at a host *)
(* that knows the client and runs the application the caller selected.     *)
(* One case is exempt: /resume does not say what to resume, so if somebody *)
(* makes the host run something else between the query and that request    *)
(* (session.rs:136 and 265), all that is sure is that something runs.      *)
(***************************************************************************)
SuccessIsTrue ==
  [][pc # "ok" /\ pc' = "ok" =>
       CASE op = "connect" -> known'
         [] op = "cancel"  -> game' = NoApp
         [] OTHER          -> /\ known'
                              /\ game' = app \/ (switched /\ game' # NoApp)]_session

(* A session that is reported as resumed is of the application selected,   *)
(* as session.rs:73 and 179 say.  Not so: see the exemption above.         *)
ResumesSelected == [][pc = "resume" /\ pc' = "ok" => game' = app]_session

(* The client reveals its own secret and reports a new pairing only to a   *)
(* host at which the client's PIN was typed, whatever late requests of     *)
(* earlier attempts reach the host in the meantime.                        *)
PinProven == pc \in {"secret", "confirmPair", "verify"} => typed

(* The transport works, the host grants a usable session, and whoever is   *)
(* prompted types the PIN.                                                 *)
Smooth ==
  /\ Fails => Refused \/ Unpair \/ SessionInfo \/ Confirm
  /\ ~TimesOut
  /\ pc = "auth" => (known <=> pc' = "list")
  /\ ~(pc = "auth" /\ pc' = "unpair")
  /\ ~(Resume /\ pc' = "idle")
  /\ Prompt => typed'
  /\ known => known'
  /\ held = "client" /\ held' = "free" => Exchanges

(***************************************************************************)
(* A launch whose answer was lost is not lost: while the host goes on      *)
(* running the application for this client, a caller who keeps starting    *)
(* it gets a session.                                                      *)
(***************************************************************************)
LostLaunchResumed ==
  \A a \in App :
    /\ <>[](game = a) /\ <>[]known
    /\ <>[][Smooth]_session
    /\ []<>(pc = "query" /\ op = "start" /\ app = a)
    => []<>(pc = "ok" /\ op = "start" /\ app = a)

(***************************************************************************)
(* A pairing that failed at whatever stage, with its unpair lost or not,   *)
(* leaves the host so that a later one succeeds: a caller who keeps        *)
(* connecting gets through once everything goes smoothly.                  *)
(***************************************************************************)
PairingRecovers ==
  <>[](game = NoApp) /\ <>[][Smooth]_session /\ []<>(pc = "info")
    => []<>(pc = "ok" /\ op = "connect")

=============================================================================
