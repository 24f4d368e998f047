-------------------------- MODULE HostSessionProofs --------------------------
(***************************************************************************)
(* The control plane for any set of applications and any number of late    *)
(* requests.  Resuming is what makes SuccessIsTrue worth an invariant: the *)
(* host is asked to resume whatever runs, so that this is the application  *)
(* the caller named has to follow from the query before it and from what   *)
(* happened to the host since.                                             *)
(***************************************************************************)
EXTENDS HostSession, TLAPS

Resumable == pc = "resume" => game = app \/ switched

IInv == SessionTypes /\ PinProven /\ Resumable

LEMMA Start == SessionInit => IInv
BY AppAssumption DEF SessionInit, IInv, SessionTypes, PinProven, Resumable, Games,
   Engagements, Asking, Connecting, Pairing, Ops, Starts, Late, Effects

(* Where a query leads: to a request the operation may make, and to resume *)
(* only the application that the host reported.                            *)
LEMMA Verbs ==
  ASSUME SessionTypes, pc = "query", NEW current \in Games
  PROVE  /\ Verb(current) \in {"cancel", "launch", "resume", "idle"}
         /\ Verb(current) = "cancel" => op = "cancel"
         /\ Verb(current) \in {"launch", "resume"} => op \in Starts
         /\ Verb(current) = "resume" => current = app /\ app \in App
BY DEF SessionTypes, Verb, Starts

(* What the host reports as running runs.                                  *)
LEMMA Reported ==
  ASSUME SessionTypes, NEW info \in ServerInfo
  PROVE  CurrentGame(info) = game
BY DEF SessionTypes, ServerInfo, CurrentGame

-----------------------------------------------------------------------------
(* One step per action, grouped by what they leave alone.                  *)

LEMMA CallsKeep ==
  ASSUME IInv, Calls, ObserveSwitch
  PROVE  IInv'
<1>1. Returned /\ UNCHANGED <<host, late, seen>>
  BY DEF Calls, Connect, CallCancel, CallStart, Called
<1>2. \/ pc' = "idle" /\ op' = "none" /\ app' = NoApp
      \/ pc' = "info" /\ op' = "connect" /\ app' = NoApp
      \/ pc' = "query" /\ op' = "cancel" /\ app' = NoApp
      \/ pc' = "query" /\ op' \in Starts /\ app' \in App
  BY DEF Calls, Connect, CallCancel, CallStart, Called, Validated
<1>3. SessionTypes'
  BY <1>1, <1>2 DEF IInv, SessionTypes, ObserveSwitch, host, Asking, Connecting, Pairing,
     Ops, Starts,
     Games
<1> QED
  BY <1>2, <1>3 DEF IInv, PinProven, Resumable

LEMMA ConnectingKeeps ==
  ASSUME IInv, ObserveSwitch,
         PublicInfo \/ Recognized \/ NotRecognized \/ Applications \/ Prompt \/ Challenge
           \/ Response \/ IncorrectPin \/ Secret \/ ConfirmPair \/ Verify \/ Unpair
  PROVE  IInv'
<1>1. /\ pc \in Connecting /\ op = "connect"
      /\ UNCHANGED game
      /\ late' \subseteq late
      /\ known' \in BOOLEAN /\ typed' \in BOOLEAN /\ held' \in Engagements
      /\ seen' \in Games
  BY DEF IInv, SessionTypes, PublicInfo, Recognized, NotRecognized, Applications, Prompt, Challenge,
     Response, IncorrectPin, Secret, ConfirmPair, Verify, Unpair, Goto, Connecting, Pairing,
     host, HostAcceptsSecret, HostUnpairs, Engagements, ServerInfo, CurrentGame, Games
<1>2. /\ pc' \in Connecting \cup {"idle", "ok"}
      /\ op' = IF pc' = "idle" THEN "none" ELSE op
      /\ app' = IF pc' = "idle" THEN NoApp ELSE app
  BY DEF PublicInfo, Recognized, NotRecognized, Applications, Prompt, Challenge,
     Response, IncorrectPin, Secret, ConfirmPair, Verify, Unpair, Goto, Connecting, Pairing,
     Proceed, BeginPairing
<1>3. SessionTypes'
  BY <1>1, <1>2 DEF IInv, SessionTypes, ObserveSwitch, Asking, Connecting, Pairing, Ops,
     Starts, Games
<1>4. PinProven'
  BY DEF IInv, PinProven, PublicInfo, Recognized, NotRecognized, Applications, Prompt,
     Challenge, Response, IncorrectPin, Secret, ConfirmPair, Verify, Unpair, Goto, Proceed,
     BeginPairing, host
<1> QED
  BY <1>2, <1>3, <1>4 DEF IInv, Resumable, Connecting, Pairing

(* Only here the client sets out to resume, and the application runs.      *)
LEMMA SessionKeeps ==
  ASSUME IInv, ObserveSwitch, SessionInfo \/ LaunchApp \/ Resume \/ Cancel \/ Confirm
  PROVE  IInv'
<1>1. CASE SessionInfo
  <2>1. PICK info \in ServerInfo : Proceed(Verb(CurrentGame(info)))
    BY <1>1 DEF SessionInfo
  <2>2. CurrentGame(info) = game /\ game \in Games
    BY Reported DEF IInv, SessionTypes
  <2>3. pc = "query" /\ known /\ UNCHANGED <<host, late, seen>>
    BY <1>1 DEF SessionInfo, Granted
  <2>4. /\ pc' \in {"cancel", "launch", "resume", "idle"}
        /\ pc' = "cancel" => op = "cancel"
        /\ pc' \in {"launch", "resume"} => op \in Starts
        /\ pc' = "resume" => game = app /\ app \in App
    BY <2>1, <2>2, <2>3, Verbs DEF Proceed, IInv
  <2>5. SessionTypes'
    BY <2>1, <2>3, <2>4 DEF Proceed, IInv, SessionTypes, ObserveSwitch, host, Asking, Connecting, Pairing,
       Ops, Starts, Games
  <2>6. Resumable'
    BY <2>1, <2>3, <2>4 DEF Proceed, ObserveSwitch, Resumable, host
  <2> QED
    BY <2>4, <2>5, <2>6 DEF IInv, PinProven
<1>2. CASE LaunchApp \/ Resume \/ Cancel \/ Confirm
  <2>1. /\ pc \in {"launch", "resume", "cancel", "confirm"}
        /\ pc' \in {"idle", "ok", "confirm"}
        /\ pc' = "confirm" => pc = "cancel"
        /\ op' = IF pc' = "idle" THEN "none" ELSE op
        /\ app' = IF pc' = "idle" THEN NoApp ELSE app
        /\ UNCHANGED <<known, held, typed, late, seen>>
        /\ game' \in {game, NoApp, app}
    BY <1>2 DEF LaunchApp, Resume, Cancel, Confirm, Goto, Proceed, HostLaunches, HostCancels, host
  <2>2. SessionTypes'
    BY <2>1 DEF IInv, SessionTypes, ObserveSwitch, Asking, Connecting, Pairing, Ops, Starts, Games
  <2> QED
    BY <2>1, <2>2 DEF IInv, PinProven, Resumable
<1> QED
  BY <1>1, <1>2

LEMMA FailureKeeps ==
  ASSUME IInv, ObserveSwitch, Refused \/ Fails \/ TimesOut
  PROVE  IInv'
<1>1. /\ pc \in Asking
      /\ Proceed(AfterFailure)
      /\ UNCHANGED <<host, seen>>
  BY DEF Refused, Fails, TimesOut, Effects, Asking, Connecting, Pairing
<1>2. late' \subseteq Late
  <2>1. CASE TimesOut
    BY <2>1 DEF TimesOut, IInv, SessionTypes, Late, Games
  <2>2. CASE Refused \/ Fails
    BY <2>2 DEF Refused, Fails, IInv, SessionTypes
  <2> QED
    BY <2>1, <2>2
<1>3. /\ pc' = "idle" \/ (pc' = "unpair" /\ op = "connect")
      /\ op' = IF pc' = "idle" THEN "none" ELSE op
      /\ app' = IF pc' = "idle" THEN NoApp ELSE app
  BY <1>1 DEF AfterFailure, Proceed, IInv, SessionTypes, Connecting
<1>4. SessionTypes'
  BY <1>1, <1>2, <1>3 DEF IInv, SessionTypes, ObserveSwitch, host, Asking, Connecting, Pairing, Ops,
     Starts, Games
<1> QED
  BY <1>3, <1>4 DEF IInv, PinProven, Resumable

LEMMA HostKeeps ==
  ASSUME IInv, ObserveSwitch, HostTakesLate \/ HostStep
  PROVE  IInv'
<1>1. UNCHANGED <<typed, pc, call, seen>> /\ late' \subseteq late
  BY DEF HostTakesLate, HostStep
<1>2. game' \in Games /\ known' \in BOOLEAN /\ held' \in Engagements
  <2>1. CASE HostStep
    BY <2>1 DEF HostStep, IInv, SessionTypes, Engagements
  <2>2. CASE HostTakesLate
    BY <2>2 DEF HostTakesLate, IInv, SessionTypes, Late, HostLaunches, HostCancels, HostUnpairs,
       HostAcceptsSecret, Engagements, Games
  <2> QED
    BY <2>1, <2>2
<1>3. SessionTypes'
  BY <1>1, <1>2 DEF IInv, SessionTypes, ObserveSwitch, call
<1>4. Resumable'
  BY <1>1 DEF IInv, Resumable, ObserveSwitch, call
<1> QED
  BY <1>1, <1>3, <1>4 DEF IInv, PinProven

LEMMA Invariance == IInv /\ [SessionNext]_session => IInv'
<1>1. CASE UNCHANGED session
  BY <1>1 DEF session, host, call, IInv, SessionTypes, PinProven, Resumable
<1>2. CASE SessionNext
  BY <1>2, CallsKeep, ConnectingKeeps, SessionKeeps, FailureKeeps, HostKeeps DEF SessionNext, Exchanges
<1> QED
  BY <1>1, <1>2

LEMMA Inductive == SessionSpec => []IInv
<1> QED
  BY Start, Invariance, PTL DEF SessionSpec

(***************************************************************************)
(* The types, and which exchange belongs to which operation: what a failed *)
(* request does next (unpair or nothing) depends on it.                    *)
(***************************************************************************)
THEOREM Typed == SessionSpec => []SessionTypes
BY Inductive, PTL DEF IInv

(***************************************************************************)
(* The client's own secret leaves it only for a host at which its PIN was  *)
(* typed.                                                                  *)
(***************************************************************************)
THEOREM PinIsProven == SessionSpec => []PinProven
BY Inductive, PTL DEF IInv

LEMMA SuccessStep ==
  ASSUME IInv, SessionNext, pc # "ok", pc' = "ok"
  PROVE  CASE op = "connect" -> known'
           [] op = "cancel"  -> game' = NoApp
           [] OTHER          -> known' /\ (game' = app \/ (switched /\ game' # NoApp))
<1>1. CASE Applications
  BY <1>1 DEF Applications, Goto, Granted, host, IInv, SessionTypes, Connecting
<1>2. CASE LaunchApp
  BY <1>2 DEF LaunchApp, Proceed, HostLaunches, IInv, SessionTypes, Starts
<1>3. CASE Resume
  BY <1>3 DEF Resume, Proceed, Granted, host, IInv, Resumable, SessionTypes, Starts
<1>4. CASE Confirm
  BY <1>4, Reported DEF Confirm, Proceed, host, IInv, SessionTypes
<1>5. Applications \/ LaunchApp \/ Resume \/ Confirm
  <2>1. ~Calls
    BY DEF Calls, Connect, CallStart, CallCancel, Called
  <2>2. ~(HostTakesLate \/ HostStep)
    BY DEF HostTakesLate, HostStep
  <2>3. ~(Refused \/ Fails \/ TimesOut)
    BY DEF Refused, Fails, TimesOut, Proceed, AfterFailure
  <2>4. ~(PublicInfo \/ Recognized \/ NotRecognized \/ Prompt \/ Challenge \/ Response
            \/ IncorrectPin \/ Secret \/ ConfirmPair \/ Verify \/ Unpair \/ Cancel)
    BY DEF PublicInfo, Recognized, NotRecognized, BeginPairing, Prompt, Challenge, Response,
       IncorrectPin, Secret, ConfirmPair, Verify, Unpair, Cancel, Goto, Proceed
  <2>5. ~SessionInfo
    BY Reported, Verbs DEF SessionInfo, Proceed, IInv, SessionTypes
  <2> QED
    BY <2>1, <2>2, <2>3, <2>4, <2>5 DEF SessionNext, Exchanges
<1> QED
  BY <1>1, <1>2, <1>3, <1>4, <1>5

(***************************************************************************)
(* A success that connect, cancel or a start reports is true, whatever     *)
(* others do to the host between two requests of the call, but for a host  *)
(* that was made to run something else while it was asked to resume.       *)
(***************************************************************************)
THEOREM Truthful == SessionSpec => SuccessIsTrue
<1>1. IInv /\ [SessionNext]_session
        => [pc # "ok" /\ pc' = "ok" =>
              CASE op = "connect" -> known'
                [] op = "cancel"  -> game' = NoApp
                [] OTHER          -> /\ known'
                                     /\ game' = app \/ (switched /\ game' # NoApp)]_session
  BY SuccessStep DEF session
<1> QED
  BY Inductive, <1>1, PTL DEF SessionSpec, SuccessIsTrue

=============================================================================
