------------------------------- MODULE Gamepads -------------------------------
(***************************************************************************)
(* Controllers of one stream (moonlight/src/gamepad.rs and the handlers of *)
(* ui.rs that call it).  The UI thread observes device snapshots at any    *)
(* time, streaming or not; sync replays the difference to what was sent as *)
(* arrival and state packets, each with the mask of attached controllers,  *)
(* and stops at the first packet that cannot be queued.  Snapshots are     *)
(* only sent while the stream's page is shown and the window has stopped   *)
(* using them to navigate.  The worker of a stream that ended resets what  *)
(* was sent.                                                               *)
(*                                                                         *)
(* A packet is a step: sync holds the mutex meanwhile, so that nothing     *)
(* else happens between two packets of one sync.  A controller state is    *)
(* an element of State; SwapAB exchanges the A and B buttons in it.        *)
(***************************************************************************)
EXTENDS Naturals, FiniteSets

CONSTANTS
  Device,    \* platform device ids
  Slots,     \* MAX_GAMEPADS
  State,     \* controller states
  Neutral,   \* ControllerState::default()
  Absent,    \* no controller on the host
  SwapAB(_)  \* the state with A and B exchanged

Slot == 0 .. Slots - 1
None == [id |-> "none"]
Pad == [id : Device, state : State]

ASSUME GamepadAssumption ==
  /\ Slots \in Nat
  /\ Neutral \in State /\ Absent \notin State
  /\ \A s \in State : SwapAB(s) \in State
  /\ "none" \notin Device

VARIABLES
  devices,  \* what the platform reports, slot by slot
  sent,     \* what the session was told
  swapAB,   \* the setting
  link,     \* none, launching, or up: the UI holds a stream handle
  remote,   \* the host's controllers: a state, or Absent
  syncing,  \* sync holds the mutex
  page,     \* the stream's page is shown
  routed    \* gamepad_navigation_applied is Some(false)

screen == <<page, routed>>
vars == <<devices, sent, swapAB, link, remote, syncing, screen>>

TypeOK ==
  /\ devices \in [Slot -> Pad \cup {None}]
  /\ sent \in [Slot -> Pad \cup {None}]
  /\ swapAB \in BOOLEAN
  /\ link \in {"none", "launching", "up"}
  /\ remote \in [Slot -> State \cup {Absent}]
  /\ syncing \in BOOLEAN
  /\ page \in BOOLEAN /\ routed \in BOOLEAN

Nothing == [s \in Slot |-> None]
Deserted == [s \in Slot |-> Absent]

Init ==
  /\ devices = Nothing
  /\ sent = Nothing
  /\ swapAB \in BOOLEAN
  /\ link = "none"
  /\ remote = Deserted
  /\ syncing = FALSE
  /\ page = FALSE /\ routed = FALSE

-----------------------------------------------------------------------------
Used(pads) == {s \in Slot : pads[s] # None}
First(slots) == CHOOSE s \in slots : \A t \in slots : s <= t

(* What a slot's controller should be on the host.                         *)
Wanted(s) ==
  [devices[s] EXCEPT !.state = IF swapAB THEN SwapAB(@) ELSE @]

(* Slots whose old identity must leave, and slots that need an arrival or  *)
(* a state.                                                                *)
Leaving == {s \in Used(sent) : sent[s].id # devices[s].id}
Behind == {s \in Used(devices) : sent[s] # Wanted(s)}

(* The host takes a packet: the mask names the controllers it keeps.       *)
Deliver(slot, mask, state) ==
  remote' = [s \in Slot |->
    IF s \notin mask THEN Absent
    ELSE IF s = slot THEN state
    ELSE IF remote[s] = Absent THEN Neutral ELSE remote[s]]

-----------------------------------------------------------------------------
(* on_gamepad.  observe: a known device updates its slot, a new one takes   *)
(* the first free slot, and one too many is ignored.  Then sync, if the     *)
(* controllers are the host's just now.                                     *)

SlotOf(d) == {s \in Used(devices) : devices[s].id = d}
Free == Slot \ Used(devices)

Streaming == page /\ link = "up"

OnGamepad(update) ==
  /\ ~syncing
  /\ devices' = update
  /\ syncing' = (Streaming /\ routed)
  /\ UNCHANGED <<sent, swapAB, link, remote, screen>>

Observe(d, state) ==
  LET slots == IF SlotOf(d) # {} THEN SlotOf(d) ELSE Free IN
  OnGamepad(IF slots = {} THEN devices
            ELSE [devices EXCEPT ![First(slots)] = [id |-> d, state |-> state]])

ObserveReset(d) ==
  OnGamepad([s \in Slot |-> IF s \in SlotOf(d) THEN None ELSE devices[s]])

SetSwapAB ==
  /\ ~syncing
  /\ swapAB' \in BOOLEAN
  /\ UNCHANGED <<devices, sent, link, remote, syncing, screen>>

-----------------------------------------------------------------------------
(* sync, and release_all with a handle: forget every device, then sync.    *)

(* on_window_sync: the window is told who gets the controllers, which it   *)
(* may refuse, and while it is the host they are synced.                   *)
WindowSync ==
  /\ ~syncing
  /\ routed' \in {routed, Streaming}
  /\ syncing' = (Streaming /\ routed')
  /\ UNCHANGED <<devices, sent, swapAB, link, remote, page>>

(* The focus is lost, or the stream's page left with leave_stream_mode.    *)
ReleaseAll ==
  /\ ~syncing
  /\ devices' = Nothing
  /\ IF link = "up"
     THEN syncing' = TRUE /\ UNCHANGED sent
     ELSE sent' = Nothing /\ UNCHANGED syncing
  /\ page' \in {page, FALSE}
  /\ UNCHANGED <<swapAB, link, remote, routed>>

(* Mutant: the controller that leaves is still in the mask.                *)
RemoveKeepsMask ==
  LET s == First(Leaving) IN
  /\ syncing /\ Leaving # {}
  /\ Deliver(s, Used(sent), Neutral)
  /\ sent' = [sent EXCEPT ![s] = None]
  /\ UNCHANGED <<devices, swapAB, link, syncing, screen>>

(* First every old identity leaves, with a neutral state ...               *)
Remove ==
  LET s == First(Leaving) IN
  /\ syncing /\ Leaving # {}
  /\ Deliver(s, Used(sent) \ {s}, Neutral)
  /\ sent' = [sent EXCEPT ![s] = None]
  /\ UNCHANGED <<devices, swapAB, link, syncing, screen>>

(* Mutant: new controllers are announced before old ones have left.        *)
ArriveAtOnce ==
  LET s == First(Behind) IN
  /\ syncing /\ Behind # {} /\ sent[s] = None
  /\ Deliver(s, Used(sent) \cup {s}, Neutral)
  /\ sent' = [sent EXCEPT ![s] = [id |-> devices[s].id, state |-> Neutral]]
  /\ UNCHANGED <<devices, swapAB, link, syncing, screen>>

(* ... then each slot in turn is announced if it is new, ...               *)
Arrive ==
  LET s == First(Behind) IN
  /\ syncing /\ Leaving = {} /\ Behind # {} /\ sent[s] = None
  /\ Deliver(s, Used(sent) \cup {s}, Neutral)
  /\ sent' = [sent EXCEPT ![s] = [id |-> devices[s].id, state |-> Neutral]]
  /\ UNCHANGED <<devices, swapAB, link, syncing, screen>>

(* Mutant: a slot that has been told a state is not told the next one.     *)
UpdateOnce ==
  LET s == First(Behind) IN
  /\ syncing /\ Leaving = {} /\ Behind # {} /\ sent[s] # None
  /\ sent[s].state = Neutral
  /\ Deliver(s, Used(sent), Wanted(s).state)
  /\ sent' = [sent EXCEPT ![s] = Wanted(s)]
  /\ UNCHANGED <<devices, swapAB, link, syncing, screen>>

(* Mutant: states are updated before old identities have left.             *)
UpdateAtOnce ==
  LET s == First(Behind) IN
  /\ syncing /\ Behind # {} /\ sent[s] # None
  /\ Deliver(s, Used(sent), Wanted(s).state)
  /\ sent' = [sent EXCEPT ![s] = Wanted(s)]
  /\ UNCHANGED <<devices, swapAB, link, syncing, screen>>

(* ... and told its state.                                                 *)
Update ==
  LET s == First(Behind) IN
  /\ syncing /\ Leaving = {} /\ Behind # {} /\ sent[s] # None
  /\ Deliver(s, Used(sent), Wanted(s).state)
  /\ sent' = [sent EXCEPT ![s] = Wanted(s)]
  /\ UNCHANGED <<devices, swapAB, link, syncing, screen>>

Synced ==
  /\ syncing /\ Leaving = {} /\ Behind = {}
  /\ syncing' = FALSE
  /\ UNCHANGED <<devices, sent, swapAB, link, remote, screen>>

(* A packet cannot be queued: sync gives up, to be retried by the next     *)
(* event or frame.                                                         *)
SendFails ==
  /\ syncing /\ Leaving \cup Behind # {}
  /\ syncing' = FALSE
  /\ UNCHANGED <<devices, sent, swapAB, link, remote, screen>>

-----------------------------------------------------------------------------
(* The session.  A start resets what was sent before its worker connects;  *)
(* the host forgets its controllers when a stream ends, and the worker     *)
(* drops the handle and then resets.                                       *)

Launch ==
  /\ ~syncing
  /\ link = "none" /\ ~page
  /\ link' = "launching"
  /\ sent' = Nothing
  /\ UNCHANGED <<devices, swapAB, remote, syncing, screen>>

StreamStarts ==
  /\ link = "launching"
  /\ \/ link' = "up" /\ page' = TRUE
     \/ link' = "none" /\ UNCHANGED page
  /\ UNCHANGED <<devices, sent, swapAB, remote, syncing, routed>>

StreamEnds ==
  /\ ~syncing
  /\ link = "up"
  /\ link' = "none"
  /\ remote' = Deserted
  /\ UNCHANGED <<devices, sent, swapAB, syncing, screen>>

ResetSession ==
  /\ ~syncing
  /\ link = "none"
  /\ sent' = Nothing
  /\ UNCHANGED <<devices, swapAB, link, remote, syncing, screen>>

(* The user goes back, or the worker of a stream that ended selects        *)
(* another page: nothing is released.                                      *)
LeavePage ==
  /\ page
  /\ page' = FALSE
  /\ UNCHANGED <<devices, sent, swapAB, link, remote, syncing, routed>>

-----------------------------------------------------------------------------
SyncStep == Remove \/ Arrive \/ Update \/ Synced

Next ==
  \/ \E d \in Device : ObserveReset(d) \/ \E s \in State : Observe(d, s)
  \/ SetSwapAB \/ WindowSync \/ ReleaseAll \/ SyncStep \/ SendFails
  \/ Launch \/ StreamStarts \/ StreamEnds \/ ResetSession \/ LeavePage

Spec == Init /\ [][Next]_vars

(* The window is synced every frame, a sync goes on, and packets can be    *)
(* queued again and again.                                                 *)
Fairness ==
  /\ WF_vars(WindowSync)
  /\ WF_vars(SyncStep \/ SendFails)
  /\ SF_vars(Remove)
  /\ SF_vars(Arrive)
  /\ SF_vars(Update)

FairSpec == Spec /\ Fairness

-----------------------------------------------------------------------------
(***************************************************************************)
(* Safety                                                                  *)
(***************************************************************************)

(* What sync believes the host has is what the masks and states it sent    *)
(* make the host have, also when it gave up in the middle.                 *)
SentIsRemote ==
  link = "up" =>
    \A s \in Slot : remote[s] = IF sent[s] = None THEN Absent ELSE sent[s].state

(* A physical controller is never two players, neither here nor, while it  *)
(* moves to another slot, on the host.                                     *)
Distinct(pads) ==
  \A s, t \in Slot :
    pads[s] # None /\ pads[t] # None /\ pads[s].id = pads[t].id => s = t
OnePlayerEach == Distinct(devices) /\ Distinct(sent)

(* A player's place is not handed over to another controller without the   *)
(* first one leaving (gamepad.rs: "Remove old identities before reusing    *)
(* their slots").                                                          *)
NoHandover ==
  [][\A s \in Slot : sent[s] # None /\ sent'[s] # None => sent'[s].id = sent[s].id]_vars

(* If the stream stays up and shown, the window leaves the controllers to  *)
(* it, and the devices and the setting stay as they are, the host ends up  *)
(* with exactly their states: also when the last event could not be sent,  *)
(* or happened in a menu before the stream.                                *)
Settled ==
  \A s \in Slot : remote[s] = IF devices[s] = None THEN Absent ELSE Wanted(s).state
Calm == <>[](Streaming /\ routed) /\ <>[][UNCHANGED <<devices, swapAB>>]_vars
Converges == Calm => <>[]Settled

=============================================================================
