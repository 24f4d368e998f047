----------------------------- MODULE RemoteInput -----------------------------
(***************************************************************************)
(* Keyboard, mouse, touch and pointer capture of one stream                *)
(* (moonlight/src/input.rs, touch.rs and the handlers of ui.rs that call   *)
(* them).  PressedInput records what was pressed on the host, so that      *)
(* losing the focus or the capture can release it.                         *)
(*                                                                         *)
(* Handlers of the UI thread exclude each other.  A key or button is sent  *)
(* first and recorded afterwards, and the worker of a stream that ends may *)
(* reset the record in between.  Any packet may fail to be queued.         *)
(* Positions, motion and wheel steps press nothing and are left out.       *)
(***************************************************************************)
EXTENDS Naturals, FiniteSets

CONSTANTS
  Key, CaptureKey, QuitKey,  \* keys, and those of two shortcut chords
  Button, Left,              \* mouse buttons, and the one a drag holds
  Finger,                    \* contacts of the local touch screen
  Contacts                   \* native contact ids are below it (10)

ASSUME InputAssumption ==
  /\ {CaptureKey, QuitKey} \subseteq Key /\ CaptureKey # QuitKey
  /\ Left \in Button
  /\ Contacts \in Nat

VARIABLES
  link,      \* down, launching, up, dead (stopped), dropped (no handle)
  state,     \* PressedInput
  host,      \* what the host holds down
  lost,      \* history: what it holds because its release failed
  sending,   \* what a handler has sent and not yet recorded, if anything
  supports,  \* the host takes native contacts
  shown,     \* the stream page is selected: its handlers get the input
  desired, applied, pending  \* pointer_lock_*

capture == <<desired, applied, pending>>
vars == <<link, state, host, lost, sending, supports, shown, capture>>

Id == 0 .. Contacts - 1
NoId == Contacts
Nothing == [what |-> [kind |-> "none"], down |-> FALSE]
Pressable == {[kind |-> "key", of |-> k] : k \in Key}
               \cup {[kind |-> "button", of |-> b] : b \in Button}
Held == [keys : SUBSET Key, buttons : SUBSET Button, touches : SUBSET Id]

TypeOK ==
  /\ link \in {"down", "launching", "up", "dead", "dropped"}
  /\ state \in [keys : SUBSET Key, buttons : SUBSET Button, muted : SUBSET Button,
                chords : SUBSET {CaptureKey, QuitKey},
                native : {"unknown", "yes", "no"}, contacts : [Finger -> Id \cup {NoId}]]
  /\ host \in Held /\ lost \in Held
  /\ sending \in {Nothing} \cup [what : Pressable, down : BOOLEAN]
  /\ supports \in BOOLEAN /\ shown \in BOOLEAN
  /\ desired \in BOOLEAN /\ applied \in BOOLEAN /\ pending \in BOOLEAN

Fresh ==
  [keys |-> {}, buttons |-> {}, muted |-> {}, chords |-> {},
   native |-> "unknown", contacts |-> [f \in Finger |-> NoId]]
Free == [keys |-> {}, buttons |-> {}, touches |-> {}]

Init ==
  /\ link = "down"
  /\ state = Fresh
  /\ host = Free /\ lost = Free
  /\ sending = Nothing
  /\ supports \in BOOLEAN /\ shown = FALSE
  /\ desired = FALSE /\ applied = FALSE /\ pending = FALSE

-----------------------------------------------------------------------------
UiFree == sending = Nothing
UiHasInput == UiFree /\ shown
HasHandle == link \in {"up", "dead"}
Down == {f \in Finger : state.contacts[f] # NoId}
Dragging == Down # {} /\ state.native = "no"

Both(a, b) ==
  [keys |-> a.keys \cap b.keys, buttons |-> a.buttons \cap b.buttons,
   touches |-> a.touches \cap b.touches]

(* The host releases a set of things, except those whose packet failed.    *)
HostReleases(all, failed) ==
  LET left == [keys |-> host.keys \ (all.keys \ failed.keys),
               buttons |-> host.buttons \ (all.buttons \ failed.buttons),
               touches |-> host.touches \ (all.touches \ failed.touches)]
  IN  /\ host' = left
      /\ lost' = Both([keys |-> lost.keys \cup failed.keys,
                       buttons |-> lost.buttons \cup failed.buttons,
                       touches |-> lost.touches \cup failed.touches], left)

(* The host takes one packet about a thing.                                *)
Toggled(set, x, down) == IF down THEN set \cup {x} ELSE set \ {x}
HostTakes(field, x, down) ==
  /\ host' = [host EXCEPT ![field] = Toggled(@, x, down)]
  /\ lost' = [lost EXCEPT ![field] = @ \ {x}]

-----------------------------------------------------------------------------
(* Releases                                                                *)

(* release_mouse: any of the releases may fail, and is not retried.        *)
ReleaseMouse(chords) ==
  /\ state' = [state EXCEPT !.buttons = {}, !.muted = {}, !.chords = chords]
  /\ \E failed \in SUBSET state.buttons :
       HostReleases([Free EXCEPT !.buttons = state.buttons],
                    [Free EXCEPT !.buttons = failed])

(* TouchInput::release_to: all native contacts at once, or the drag.       *)
Touching ==
  [Free EXCEPT !.buttons = IF Dragging THEN {Left} ELSE {},
               !.touches = IF Dragging THEN {} ELSE {state.contacts[f] : f \in Down}]

(* release_all: keys, buttons and touches, each packet failing on its own. *)
(* A drag and a recorded left button are released by a packet each.        *)
ReleaseAll(chords) ==
  LET all == [Touching EXCEPT !.keys = state.keys, !.buttons = @ \cup state.buttons] IN
  /\ state' = [state EXCEPT !.keys = {}, !.buttons = {}, !.muted = {}, !.chords = chords,
                            !.native = "unknown", !.contacts = Fresh.contacts]
  /\ \E keys \in SUBSET all.keys, buttons \in SUBSET all.buttons,
        touches \in {{}, all.touches} :
       HostReleases(all, [keys |-> keys, buttons |-> buttons, touches |-> touches])

-----------------------------------------------------------------------------
(* Keys and chords                                                         *)

Send(what, down) ==
  /\ UiHasInput /\ link = "up"
  /\ sending' = [what |-> what, down |-> down]
  /\ HostTakes(IF what.kind = "key" THEN "keys" ELSE "buttons", what.of, down)
  /\ UNCHANGED <<link, state, supports, shown, capture>>

(* The handler locks the record again, whatever happened to it meanwhile.  *)
Record ==
  /\ sending # Nothing
  /\ LET x == sending.what.of IN
     state' = IF sending.what.kind = "key"
              THEN [state EXCEPT !.keys = Toggled(@, x, sending.down)]
              ELSE [state EXCEPT !.buttons = Toggled(@, x, sending.down)]
  /\ sending' = Nothing
  /\ UNCHANGED <<link, host, lost, supports, shown, capture>>

KeyDown(k) == Send([kind |-> "key", of |-> k], TRUE)

(* The release of a chord's key is swallowed once.                         *)
KeyUp(k) ==
  IF k \in state.chords
  THEN /\ UiHasInput
       /\ state' = [state EXCEPT !.chords = @ \ {k}]
       /\ UNCHANGED <<link, host, lost, sending, supports, shown, capture>>
  ELSE Send([kind |-> "key", of |-> k], FALSE)

(* request_pointer_lock and release_pointer_lock                           *)
RequestCapture ==
  /\ desired' = (desired \/ HasHandle)
  /\ UNCHANGED <<host, lost, applied, pending>>

ReleaseCapture(chords) ==
  /\ ReleaseMouse(chords)
  /\ desired' = FALSE
  /\ UNCHANGED <<applied, pending>>

(* Ctrl+Alt+Shift+Z, the first press of it until its release               *)
CaptureChord ==
  LET chords == state.chords \cup {CaptureKey} IN
  /\ UiHasInput /\ CaptureKey \notin state.chords
  /\ IF desired \/ applied
     THEN ReleaseCapture(chords)
     ELSE state' = [state EXCEPT !.chords = chords] /\ RequestCapture
  /\ UNCHANGED <<link, sending, supports, shown>>

CaptureButton ==
  /\ UiHasInput
  /\ RequestCapture
  /\ UNCHANGED <<link, state, sending, supports, shown>>

-----------------------------------------------------------------------------
(* Mouse buttons: a click without capture asks for it and is swallowed.    *)

ButtonDown(b) ==
  IF applied THEN Send([kind |-> "button", of |-> b], TRUE)
  ELSE /\ UiHasInput
       /\ state' = [state EXCEPT !.muted = @ \cup {b}]
       /\ RequestCapture
       /\ UNCHANGED <<link, sending, supports, shown>>

ButtonUp(b) ==
  IF b \in state.muted
  THEN /\ UiHasInput
       /\ state' = [state EXCEPT !.muted = @ \ {b}]
       /\ UNCHANGED <<link, host, lost, sending, supports, shown, capture>>
  ELSE applied /\ Send([kind |-> "button", of |-> b], FALSE)

-----------------------------------------------------------------------------
(* Touches: sent and recorded under one lock                               *)

NewIds == Id \ {state.contacts[f] : f \in Down}
Least(ids) == CHOOSE i \in ids : \A j \in ids : i <= j

(* The host is asked once whether it takes contacts; one that does not     *)
(* gets one finger's drag.                                                 *)
Native == IF state.native = "unknown" THEN (IF supports THEN "yes" ELSE "no") ELSE state.native

(* Mutant: ids are counted instead of searched.                            *)
TouchDownCounted(f) ==
  LET id == Cardinality(Down) IN
  /\ UiHasInput /\ link = "up" /\ f \notin Down
  /\ NewIds # {}
  /\ Native = "no" => Down = {}
  /\ state' = [state EXCEPT !.native = Native, !.contacts[f] = id]
  /\ IF Native = "yes" THEN HostTakes("touches", id, TRUE)
                       ELSE HostTakes("buttons", Left, TRUE)
  /\ UNCHANGED <<link, sending, supports, shown, capture>>

TouchDown(f) ==
  LET id == Least(NewIds) IN
  /\ UiHasInput /\ link = "up" /\ f \notin Down
  /\ NewIds # {}
  /\ Native = "no" => Down = {}
  /\ state' = [state EXCEPT !.native = Native, !.contacts[f] = id]
  /\ IF Native = "yes" THEN HostTakes("touches", id, TRUE)
                       ELSE HostTakes("buttons", Left, TRUE)
  /\ UNCHANGED <<link, sending, supports, shown, capture>>

(* A contact that could not be announced is not kept; the answer of the    *)
(* host about contacts is.                                                 *)
TouchDownFails(f) ==
  /\ UiHasInput /\ link = "up" /\ f \notin Down
  /\ state' = [state EXCEPT !.native = Native]
  /\ UNCHANGED <<link, host, lost, sending, supports, shown, capture>>

(* Mutant: a contact is forgotten although its end could not be sent.      *)
TouchEndForgets(f) ==
  LET id == state.contacts[f] IN
  /\ UiHasInput /\ HasHandle /\ f \in Down
  /\ \E sent \in BOOLEAN :
       /\ sent => link = "up"
       /\ IF ~sent THEN UNCHANGED <<host, lost>>
          ELSE IF state.native = "yes" THEN HostTakes("touches", id, FALSE)
          ELSE HostTakes("buttons", Left, FALSE)
       /\ state' = [state EXCEPT !.contacts[f] = NoId]
  /\ UNCHANGED <<link, sending, supports, shown, capture>>

(* Up or Cancel: a contact whose end could not be sent is kept; so is a    *)
(* drag whose last position could not be sent, although its button was     *)
(* released.                                                               *)
TouchEnd(f) ==
  LET id == state.contacts[f] IN
  /\ UiHasInput /\ HasHandle /\ f \in Down
  /\ \E sent, placed \in BOOLEAN :
       /\ sent \/ placed => link = "up"
       /\ IF ~sent THEN UNCHANGED <<host, lost>>
          ELSE IF state.native = "yes" THEN HostTakes("touches", id, FALSE)
          ELSE HostTakes("buttons", Left, FALSE)
       /\ state' = IF sent /\ (placed \/ state.native = "yes")
                   THEN [state EXCEPT !.contacts[f] = NoId] ELSE state
  /\ UNCHANGED <<link, sending, supports, shown, capture>>

-----------------------------------------------------------------------------
(* The window manager                                                      *)

(* on_window_sync asks for what is desired, one request at a time; it may  *)
(* be refused at once.                                                     *)
SyncCapture ==
  /\ UiFree /\ desired # applied /\ ~pending
  /\ \/ pending' = TRUE /\ UNCHANGED desired
     \/ desired' = applied /\ UNCHANGED pending
  /\ UNCHANGED <<link, state, host, lost, sending, supports, shown, applied>>

(* Mutant: losing the capture leaves the buttons pressed.                  *)
CaptureChangedKeepsButtons(locked) ==
  /\ UiFree
  /\ pending' = FALSE /\ applied' = locked /\ desired' = locked
  /\ UNCHANGED <<link, state, host, lost, sending, supports, shown>>

(* Mutant: losing the capture releases everything.                         *)
CaptureChangedReleasesAll(locked) ==
  /\ UiFree
  /\ locked => pending \/ applied
  /\ pending' = FALSE /\ applied' = locked /\ desired' = locked
  /\ IF locked THEN UNCHANGED <<state, host, lost>> ELSE ReleaseAll(state.chords)
  /\ UNCHANGED <<link, sending, supports, shown>>

(* on_window_pointer_lock_changed, answering a request or not: a capture   *)
(* is never given without one.                                             *)
CaptureChanged(locked) ==
  /\ UiFree
  /\ locked => pending \/ applied
  /\ pending' = FALSE /\ applied' = locked /\ desired' = locked
  /\ IF locked THEN UNCHANGED <<state, host, lost>> ELSE ReleaseMouse(state.chords)
  /\ UNCHANGED <<link, sending, supports, shown>>

(* Another window has the focus.                                           *)
FocusLost ==
  /\ UiFree
  /\ ReleaseAll(state.chords)
  /\ UNCHANGED <<link, sending, supports, shown, capture>>

-----------------------------------------------------------------------------
(* The stream                                                              *)

(* leave_stream_mode, on Disconnect, its chord, Quit Game and shutdown;    *)
(* Quit Game also drops the handle and goes back to the games.             *)
Leave(chords) ==
  /\ UiFree
  /\ ReleaseAll(chords)
  /\ desired' = FALSE
  /\ UNCHANGED <<sending, supports, applied, pending>>
LeaveStream == Leave(state.chords) /\ shown' = FALSE /\ UNCHANGED link
QuitChord ==
  /\ shown /\ QuitKey \notin state.chords
  /\ Leave(state.chords \cup {QuitKey})
  /\ shown' = FALSE
  /\ UNCHANGED link
QuitGame ==
  /\ HasHandle
  /\ Leave(state.chords)
  /\ link' = "dropped"
  /\ shown' = FALSE

(* A worker that ends selects another page.                                *)
LeavePage ==
  /\ shown
  /\ shown' = FALSE
  /\ UNCHANGED <<link, state, host, lost, sending, supports, capture>>

(* A start resets the record before its worker connects.                   *)
Launch ==
  /\ UiFree /\ link = "down" /\ ~shown
  /\ link' = "launching"
  /\ state' = Fresh
  /\ desired' = FALSE
  /\ UNCHANGED <<host, lost, sending, supports, shown, applied, pending>>

StreamStarts ==
  /\ link = "launching"
  /\ \/ link' = "up" /\ shown' = TRUE /\ supports' \in BOOLEAN
     \/ link' = "down" /\ UNCHANGED <<shown, supports>>
  /\ UNCHANGED <<state, host, lost, sending, capture>>

(* The transport stops: nothing can be sent, and the host releases what    *)
(* this client pressed.                                                    *)
StreamEnds ==
  /\ link = "up"
  /\ link' = "dead"
  /\ host' = Free /\ lost' = Free
  /\ UNCHANGED <<state, sending, supports, shown, capture>>

(* Its worker drops the handle, and then resets: a handler may be between  *)
(* sending and recording.                                                  *)
DropHandle ==
  /\ link = "dead"
  /\ link' = "dropped"
  /\ UNCHANGED <<state, host, lost, sending, supports, shown, capture>>

Reset ==
  /\ link = "dropped"
  /\ link' = "down"
  /\ state' = Fresh
  /\ host' = Free /\ lost' = Free
  /\ desired' = FALSE
  /\ UNCHANGED <<sending, supports, shown, applied, pending>>

-----------------------------------------------------------------------------
Next ==
  \/ \E k \in Key : KeyDown(k) \/ KeyUp(k)
  \/ \E b \in Button : ButtonDown(b) \/ ButtonUp(b)
  \/ Record
  \/ \E f \in Finger : TouchDown(f) \/ TouchDownFails(f) \/ TouchEnd(f)
  \/ CaptureChord \/ CaptureButton \/ SyncCapture
  \/ \E locked \in BOOLEAN : CaptureChanged(locked)
  \/ FocusLost \/ LeaveStream \/ QuitChord \/ QuitGame \/ LeavePage
  \/ Launch \/ StreamStarts \/ StreamEnds \/ DropHandle \/ Reset

Spec == Init /\ [][Next]_vars

-----------------------------------------------------------------------------
(***************************************************************************)
(* Properties                                                              *)
(***************************************************************************)

(* Whatever the host holds down is on the list that losing the focus or    *)
(* leaving the stream releases, unless its release was tried and failed:   *)
(* no interleaving of keys, clicks, fingers, chords and captures loses one.*)
HeldIsListed ==
  link = "up" /\ UiFree =>
    /\ host.keys \subseteq state.keys \cup lost.keys
    /\ host.buttons \subseteq state.buttons \cup lost.buttons
                               \cup (IF Dragging THEN {Left} ELSE {})
    /\ host.touches \subseteq {state.contacts[f] : f \in Down} \cup lost.touches

(* Without the capture the host holds no mouse button but a finger's drag  *)
(* and those whose release failed.                                         *)
UncapturedIsReleased ==
  link = "up" /\ ~applied /\ UiFree =>
    host.buttons \subseteq lost.buttons \cup (IF Dragging THEN {Left} ELSE {})

(* Fingers have ids of their own, and a host without native contacts is    *)
(* dragged by one finger only (README: "a one-finger absolute mouse drag").*)
FingersApart ==
  /\ \A f, g \in Down : state.contacts[f] = state.contacts[g] => f = g
  /\ Dragging => \A f, g \in Down : f = g

(* A stream starts with nothing recorded from the one before, although a   *)
(* handler may have recorded into the reset record of a stream that ended. *)
FreshStart == link = "launching" => state = Fresh

(* "Unlocking the pointer must not cancel independent touch or key input"  *)
(* (input.rs): keys and contacts stay recorded and pressed, and a drag of  *)
(* a finger goes on, except that the left button it holds is also the      *)
(* mouse's: one recorded for the mouse takes the drag's with it.           *)
UnlockSparesTheRest ==
  [][applied /\ ~applied' /\ link = "up" /\ link' = "up" =>
       /\ state'.keys = state.keys /\ host'.keys = host.keys
       /\ state'.contacts = state.contacts /\ host'.touches = host.touches
       /\ Dragging /\ Left \in host.buttons \ state.buttons => Left \in host'.buttons]_vars

=============================================================================
