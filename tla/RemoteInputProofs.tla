-------------------------- MODULE RemoteInputProofs --------------------------
(***************************************************************************)
(* The record of pressed input, for any keys, buttons, fingers and number  *)
(* of contact ids: the list that losing the focus releases is complete.    *)
(* And the keys of any keyboard of the layout: the host follows them,      *)
(* whatever the modifiers make them type.                                  *)
(***************************************************************************)
EXTENDS RemoteInput, Keyboard, WellFoundedInduction, FiniteSetTheorems, TLAPS

(* Membership of a record set, field by field.                             *)
Input == [keys : SUBSET Key, buttons : SUBSET Button, muted : SUBSET Button,
          chords : SUBSET {CaptureKey, QuitKey},
          native : {"unknown", "yes", "no"}, contacts : [Finger -> Id \cup {NoId}]]

Ids == {state.contacts[f] : f \in Down}
Drag == IF Dragging THEN {Left} ELSE {}
Flying(kind) ==
  IF sending # Nothing /\ sending.what.kind = kind /\ sending.down
  THEN {sending.what.of} ELSE {}

(* HeldIsListed also while a handler has sent and not yet recorded: the    *)
(* thing pressed is the only exception, and a thing released has left the  *)
(* host.                                                                   *)
Listed ==
  link = "up" =>
    /\ host.keys \subseteq state.keys \cup lost.keys \cup Flying("key")
    /\ host.buttons \subseteq state.buttons \cup lost.buttons \cup Drag \cup Flying("button")
    /\ host.touches \subseteq Ids \cup lost.touches
    /\ sending # Nothing /\ ~sending.down =>
         /\ sending.what.kind = "key" => sending.what.of \notin host.keys
         /\ sending.what.kind = "button" => sending.what.of \notin host.buttons

(* Fingers are down only once the host was asked about contacts, and a     *)
(* host that takes none has none.                                          *)
Asked ==
  /\ Down # {} => state.native # "unknown"
  /\ link = "up" /\ state.native # "yes" => host.touches \subseteq lost.touches

IInv == TypeOK /\ Listed /\ Asked

(* Between two streams the host holds nothing, and from a start until the  *)
(* stream is up no handler touches the record.                             *)
Between ==
  /\ link \in {"down", "launching", "dead"} => host = Free
  /\ link = "launching" => state = Fresh /\ ~shown /\ sending = Nothing

(* Buttons are pressed on the host only while the pointer is captured.     *)
Captured ==
  ~applied => /\ state.buttons = {}
              /\ sending # Nothing => sending.what.kind # "button"

Inv == IInv /\ Between /\ Captured /\ FingersApart

LEMMA Constants ==
  /\ NoId \notin Id /\ Left \in Button
  /\ CaptureKey \in Key /\ QuitKey \in Key
BY InputAssumption DEF Id, NoId

LEMMA LeastId ==
  ASSUME NEW ids \in SUBSET Id, ids # {}
  PROVE  Least(ids) \in ids
<1> DEFINE Before == {p \in Nat \X Nat : p[1] < p[2]}
<1>1. ids \subseteq Nat
  BY InputAssumption DEF Id
<1>2. IsWellFoundedOn(Before, Nat)
  BY NatLessThanWellFounded, Zenon DEF OpToRel
<1>3. PICK i \in ids : \A j \in ids : <<j, i>> \notin Before
  <2> HIDE DEF Before
  <2> QED
    BY <1>1, <1>2, WFMin
<1>4. \A j \in ids : i <= j
  <2> SUFFICES ASSUME NEW j \in ids, j < i PROVE FALSE
    BY <1>1
  <2>1. <<j, i>> \in Before
    BY <1>1
  <2> QED
    BY <2>1, <1>3
<1> QED
  BY <1>4 DEF Least

(* What a packet about one thing changes, on the host and in its history.  *)
LEMMA Takes ==
  ASSUME host \in Held, lost \in Held, NEW down \in BOOLEAN
  PROVE  /\ \A k \in Key : HostTakes("keys", k, down) =>
              /\ host' \in Held /\ lost' \in Held
              /\ host'.keys = Toggled(host.keys, k, down)
              /\ lost'.keys = lost.keys \ {k}
              /\ host'.buttons = host.buttons /\ lost'.buttons = lost.buttons
              /\ host'.touches = host.touches /\ lost'.touches = lost.touches
         /\ \A b \in Button : HostTakes("buttons", b, down) =>
              /\ host' \in Held /\ lost' \in Held
              /\ host'.buttons = Toggled(host.buttons, b, down)
              /\ lost'.buttons = lost.buttons \ {b}
              /\ host'.keys = host.keys /\ lost'.keys = lost.keys
              /\ host'.touches = host.touches /\ lost'.touches = lost.touches
         /\ \A i \in Id : HostTakes("touches", i, down) =>
              /\ host' \in Held /\ lost' \in Held
              /\ host'.touches = Toggled(host.touches, i, down)
              /\ lost'.touches = lost.touches \ {i}
              /\ host'.keys = host.keys /\ lost'.keys = lost.keys
              /\ host'.buttons = host.buttons /\ lost'.buttons = lost.buttons
<1>1. ASSUME NEW k \in Key, HostTakes("keys", k, down)
      PROVE  /\ host' = [host EXCEPT !.keys = Toggled(host.keys, k, down)]
             /\ lost' = [lost EXCEPT !.keys = lost.keys \ {k}]
             /\ Toggled(host.keys, k, down) \in SUBSET Key
  BY <1>1 DEF HostTakes, Toggled, Held
<1>2. ASSUME NEW b \in Button, HostTakes("buttons", b, down)
      PROVE  /\ host' = [host EXCEPT !.buttons = Toggled(host.buttons, b, down)]
             /\ lost' = [lost EXCEPT !.buttons = lost.buttons \ {b}]
             /\ Toggled(host.buttons, b, down) \in SUBSET Button
  BY <1>2 DEF HostTakes, Toggled, Held
<1>3. ASSUME NEW i \in Id, HostTakes("touches", i, down)
      PROVE  /\ host' = [host EXCEPT !.touches = Toggled(host.touches, i, down)]
             /\ lost' = [lost EXCEPT !.touches = lost.touches \ {i}]
             /\ Toggled(host.touches, i, down) \in SUBSET Id
  BY <1>3 DEF HostTakes, Toggled, Held
<1> QED
  BY <1>1, <1>2, <1>3 DEF Held

LEMMA Releases ==
  ASSUME host \in Held, lost \in Held, NEW all \in Held, NEW failed \in Held,
         HostReleases(all, failed)
  PROVE  /\ host' \in Held /\ lost' \in Held
         /\ host'.keys = host.keys \ (all.keys \ failed.keys)
         /\ host'.buttons = host.buttons \ (all.buttons \ failed.buttons)
         /\ host'.touches = host.touches \ (all.touches \ failed.touches)
         /\ lost'.keys = (lost.keys \cup failed.keys) \cap host'.keys
         /\ lost'.buttons = (lost.buttons \cup failed.buttons) \cap host'.buttons
         /\ lost'.touches = (lost.touches \cup failed.touches) \cap host'.touches
BY DEF HostReleases, Both, Held

LEMMA InitIInv == Init => IInv
<1> SUFFICES ASSUME Init PROVE IInv
  OBVIOUS
<1>1. Fresh \in Input /\ Free \in Held
  BY DEF Fresh, Free, Input, Held
<1>2. TypeOK
  <2>1. supports \in BOOLEAN
    BY DEF Init
  <2> QED
    BY <1>1, <2>1 DEF Init, TypeOK, Input
<1>3. Down = {}
  BY DEF Init, Down, Fresh
<1>4. Listed /\ Asked
  BY <1>3 DEF Init, Listed, Asked
<1> QED
  BY <1>2, <1>4 DEF IInv

(* Forgetting buttons while asking the host to release them.               *)
LEMMA ReleaseMouseKeeps ==
  ASSUME IInv, UiFree, NEW chords \in SUBSET {CaptureKey, QuitKey}, ReleaseMouse(chords),
         sending' = sending, link' = link
  PROVE  /\ state' \in Input /\ host' \in Held /\ lost' \in Held
         /\ Listed' /\ Asked'
<1> USE DEF IInv
<1>1. PICK failed \in SUBSET state.buttons :
        HostReleases([Free EXCEPT !.buttons = state.buttons], [Free EXCEPT !.buttons = failed])
  BY DEF ReleaseMouse
<1> DEFINE all == [Free EXCEPT !.buttons = state.buttons]
           fails == [Free EXCEPT !.buttons = failed]
<1>2. /\ all \in Held /\ fails \in Held
      /\ all.keys = {} /\ all.buttons = state.buttons /\ all.touches = {}
      /\ fails.keys = {} /\ fails.buttons = failed /\ fails.touches = {}
  BY DEF TypeOK, Held, Free
<1>3. HostReleases(all, fails)
  BY <1>1
<1> HIDE DEF all, fails
<1>4. /\ host' \in Held /\ lost' \in Held
      /\ host'.keys = host.keys /\ host'.touches = host.touches
      /\ host'.buttons = host.buttons \ (state.buttons \ failed)
      /\ lost'.keys = lost.keys \cap host.keys
      /\ lost'.touches = lost.touches \cap host.touches
      /\ lost'.buttons = (lost.buttons \cup failed) \cap host'.buttons
  <2>1. host \in Held /\ lost \in Held
    BY DEF TypeOK
  <2>2. /\ host' \in Held /\ lost' \in Held
        /\ host'.keys = host.keys \ (all.keys \ fails.keys)
        /\ host'.buttons = host.buttons \ (all.buttons \ fails.buttons)
        /\ host'.touches = host.touches \ (all.touches \ fails.touches)
        /\ lost'.keys = (lost.keys \cup fails.keys) \cap host'.keys
        /\ lost'.buttons = (lost.buttons \cup fails.buttons) \cap host'.buttons
        /\ lost'.touches = (lost.touches \cup fails.touches) \cap host'.touches
    BY <1>2, <1>3, <2>1, Releases
  <2> QED
    BY <1>2, <2>2
<1>5. /\ state' \in Input
      /\ state'.keys = state.keys /\ state'.buttons = {}
      /\ state'.native = state.native /\ state'.contacts = state.contacts
  BY DEF ReleaseMouse, TypeOK, Input
<1>6. Down' = Down /\ Ids' = Ids /\ Drag' = Drag
  BY <1>5 DEF Down, Ids, Drag, Dragging
<1>7. Flying("key") = {} /\ Flying("button") = {} /\ Flying("key")' = {} /\ Flying("button")' = {}
  BY DEF Flying, UiFree
<1>8. Listed'
  BY <1>4, <1>5, <1>6, <1>7 DEF Listed, UiFree
<1>9. Asked'
  BY <1>4, <1>5, <1>6 DEF Asked
<1> QED
  BY <1>4, <1>5, <1>8, <1>9

(* Forgetting everything while asking the host to release it.              *)
LEMMA ReleaseAllKeeps ==
  ASSUME IInv, UiFree, NEW chords \in SUBSET {CaptureKey, QuitKey}, ReleaseAll(chords),
         sending' = sending
  PROVE  /\ state' \in Input /\ host' \in Held /\ lost' \in Held
         /\ link' # "up" \/ link' = link => Listed' /\ Asked'
<1> USE DEF IInv
<1> DEFINE all == [Touching EXCEPT !.keys = state.keys, !.buttons = @ \cup state.buttons]
<1>1. /\ state.keys \in SUBSET Key /\ state.buttons \in SUBSET Button
      /\ Ids \in SUBSET Id
      /\ host \in Held /\ lost \in Held
  BY DEF TypeOK, Ids, Down, NoId
<1>2. /\ all \in Held
      /\ all.keys = state.keys /\ all.buttons = Drag \cup state.buttons
      /\ all.touches = IF Dragging THEN {} ELSE Ids
  BY <1>1, Constants DEF Touching, Held, Free, Drag, Ids
<1>3. PICK keys \in SUBSET all.keys, buttons \in SUBSET all.buttons,
           touches \in {{}, all.touches} :
        HostReleases(all, [keys |-> keys, buttons |-> buttons, touches |-> touches])
  BY DEF ReleaseAll
<1> HIDE DEF all
<1> DEFINE failed == [keys |-> keys, buttons |-> buttons, touches |-> touches]
<1>4. /\ failed \in Held
      /\ failed.keys = keys /\ failed.buttons = buttons /\ failed.touches = touches
  BY <1>2, <1>3 DEF Held
<1>5. HostReleases(all, failed)
  BY <1>3
<1> HIDE DEF failed
<1>6. /\ host' \in Held /\ lost' \in Held
      /\ host'.keys = host.keys \ (all.keys \ failed.keys)
      /\ host'.buttons = host.buttons \ (all.buttons \ failed.buttons)
      /\ host'.touches = host.touches \ (all.touches \ failed.touches)
      /\ lost'.keys = (lost.keys \cup failed.keys) \cap host'.keys
      /\ lost'.buttons = (lost.buttons \cup failed.buttons) \cap host'.buttons
      /\ lost'.touches = (lost.touches \cup failed.touches) \cap host'.touches
  BY <1>1, <1>2, <1>4, <1>5, Releases
<1>7. /\ state' \in Input
      /\ state'.native = "unknown" /\ state'.contacts = [f \in Finger |-> NoId]
  BY DEF ReleaseAll, TypeOK, Input, Fresh
<1>8. Down' = {}
  BY <1>7 DEF Down
<1>9. Flying("key") = {} /\ Flying("button") = {}
  BY DEF Flying, UiFree
<1>10. ASSUME link = "up" PROVE /\ host'.keys \subseteq lost'.keys
                               /\ host'.buttons \subseteq lost'.buttons
                               /\ host'.touches \subseteq lost'.touches
  <2>1. host'.keys \subseteq lost'.keys
    BY <1>2, <1>6, <1>9, <1>10 DEF Listed
  <2>2. host'.buttons \subseteq lost'.buttons
    BY <1>2, <1>6, <1>9, <1>10 DEF Listed
  <2>3. host'.touches \subseteq lost'.touches
    <3>1. CASE Dragging
      <4>1. host.touches \subseteq lost.touches
        BY <1>10, <3>1 DEF Asked, Dragging
      <4> QED
        BY <1>6, <4>1
    <3>2. CASE ~Dragging
      BY <1>2, <1>6, <1>10, <3>2 DEF Listed
    <3> QED
      BY <3>1, <3>2
  <2> QED
    BY <2>1, <2>2, <2>3
<1>11. link' # "up" \/ link' = link => Listed' /\ Asked'
  BY <1>8, <1>10 DEF Listed, Asked, UiFree
<1> QED
  BY <1>6, <1>7, <1>11

-----------------------------------------------------------------------------
(* Keys and buttons                                                        *)

LEMMA SendKeeps ==
  ASSUME IInv, NEW what \in Pressable, NEW down \in BOOLEAN, Send(what, down)
  PROVE  IInv'
<1> USE DEF IInv
<1>1. host \in Held /\ lost \in Held
  BY DEF TypeOK
<1>2. /\ sending' = [what |-> what, down |-> down] /\ sending' # Nothing
      /\ link = "up" /\ link' = link /\ state' = state /\ UiFree
  <2>1. what.kind # "none"
    BY DEF Pressable
  <2>2. sending' = [what |-> what, down |-> down]
    BY DEF Send
  <2>3. Nothing.what.kind = "none" /\ [what |-> what, down |-> down].what = what
    BY DEF Nothing
  <2>4. sending' # Nothing
    BY <2>1, <2>2, <2>3
  <2> QED
    BY <2>2, <2>4 DEF Send, UiHasInput
<1>3. Down' = Down /\ Ids' = Ids /\ Drag' = Drag
  BY <1>2 DEF Down, Ids, Drag, Dragging
<1>4. Flying("key") = {} /\ Flying("button") = {}
  BY <1>2 DEF Flying, UiFree
<1>5. CASE \E k \in Key : what = [kind |-> "key", of |-> k]
  <2>1. PICK k \in Key : what = [kind |-> "key", of |-> k]
    BY <1>5
  <2>2. HostTakes("keys", k, down)
    BY <2>1 DEF Send
  <2>3. /\ host' \in Held /\ lost' \in Held
        /\ host'.keys = Toggled(host.keys, k, down)
        /\ lost'.keys = lost.keys \ {k}
        /\ host'.buttons = host.buttons /\ lost'.buttons = lost.buttons
        /\ host'.touches = host.touches /\ lost'.touches = lost.touches
    BY <1>1, <2>2, Takes
  <2>4. TypeOK'
    BY <1>2, <2>3 DEF TypeOK, Send, capture
  <2>5. Flying("key")' = (IF down THEN {k} ELSE {}) /\ Flying("button")' = {}
    BY <1>2, <2>1 DEF Flying
  <2>6. Listed'
    BY <1>2, <1>3, <1>4, <2>1, <2>3, <2>5 DEF Listed, Toggled
  <2> QED
    BY <1>2, <1>3, <2>3, <2>4, <2>6 DEF Asked
<1>6. CASE \E b \in Button : what = [kind |-> "button", of |-> b]
  <2>1. PICK b \in Button : what = [kind |-> "button", of |-> b]
    BY <1>6
  <2>2. HostTakes("buttons", b, down)
    BY <2>1 DEF Send
  <2>3. /\ host' \in Held /\ lost' \in Held
        /\ host'.buttons = Toggled(host.buttons, b, down)
        /\ lost'.buttons = lost.buttons \ {b}
        /\ host'.keys = host.keys /\ lost'.keys = lost.keys
        /\ host'.touches = host.touches /\ lost'.touches = lost.touches
    BY <1>1, <2>2, Takes
  <2>4. TypeOK'
    BY <1>2, <2>3 DEF TypeOK, Send, capture
  <2>5. Flying("button")' = (IF down THEN {b} ELSE {}) /\ Flying("key")' = {}
    BY <1>2, <2>1 DEF Flying
  <2>6. Listed'
    BY <1>2, <1>3, <1>4, <2>1, <2>3, <2>5 DEF Listed, Toggled
  <2> QED
    BY <1>2, <1>3, <2>3, <2>4, <2>6 DEF Asked
<1> QED
  BY <1>5, <1>6 DEF Pressable

LEMMA RecordKeeps == IInv /\ Record => IInv'
<1> SUFFICES ASSUME IInv, Record PROVE IInv'
  OBVIOUS
<1> USE DEF IInv
<1> DEFINE x == sending.what.of
<1>1. /\ sending # Nothing /\ sending' = Nothing
      /\ link' = link /\ host' = host /\ lost' = lost
      /\ supports' = supports /\ shown' = shown
      /\ desired' = desired /\ applied' = applied /\ pending' = pending
  BY DEF Record, capture
<1>2. sending.what \in Pressable /\ sending.down \in BOOLEAN
  BY <1>1 DEF TypeOK
<1>3. CASE sending.what.kind = "key"
  <2>1. x \in Key
    BY <1>2, <1>3 DEF Pressable
  <2>2. state' = [state EXCEPT !.keys = Toggled(@, x, sending.down)]
    BY <1>3 DEF Record
  <2>3. /\ state' \in Input /\ state'.keys = Toggled(state.keys, x, sending.down)
        /\ state'.buttons = state.buttons /\ state'.native = state.native
        /\ state'.contacts = state.contacts
    BY <2>1, <2>2 DEF TypeOK, Input, Toggled
  <2>4. Down' = Down /\ Ids' = Ids /\ Drag' = Drag
    BY <2>3 DEF Down, Ids, Drag, Dragging
  <2>5. TypeOK'
    BY <1>1, <2>3 DEF TypeOK, Input
  <2>6. Flying("key") = (IF sending.down THEN {x} ELSE {}) /\ Flying("button") = {}
    BY <1>1, <1>3 DEF Flying
  <2>7. Listed'
    BY <1>1, <1>3, <2>3, <2>4, <2>6 DEF Listed, Toggled
  <2> QED
    BY <1>1, <2>3, <2>4, <2>5, <2>7 DEF Asked
<1>4. CASE sending.what.kind = "button"
  <2>1. x \in Button
    BY <1>2, <1>4 DEF Pressable
  <2>2. state' = [state EXCEPT !.buttons = Toggled(@, x, sending.down)]
    BY <1>4 DEF Record
  <2>3. /\ state' \in Input /\ state'.buttons = Toggled(state.buttons, x, sending.down)
        /\ state'.keys = state.keys /\ state'.native = state.native
        /\ state'.contacts = state.contacts
    BY <2>1, <2>2 DEF TypeOK, Input, Toggled
  <2>4. Down' = Down /\ Ids' = Ids /\ Drag' = Drag
    BY <2>3 DEF Down, Ids, Drag, Dragging
  <2>5. TypeOK'
    BY <1>1, <2>3 DEF TypeOK, Input
  <2>6. Flying("button") = (IF sending.down THEN {x} ELSE {}) /\ Flying("key") = {}
    BY <1>1, <1>4 DEF Flying
  <2>7. Listed'
    BY <1>1, <1>4, <2>3, <2>4, <2>6 DEF Listed, Toggled
  <2> QED
    BY <1>1, <2>3, <2>4, <2>5, <2>7 DEF Asked
<1> QED
  BY <1>2, <1>3, <1>4 DEF Pressable

-----------------------------------------------------------------------------
(* Fingers                                                                 *)

LEMMA TouchDownKeeps ==
  ASSUME IInv, NEW f \in Finger, TouchDown(f)
  PROVE  IInv'
<1> USE DEF IInv
<1> DEFINE id == Least(NewIds)
<1>1. id \in Id
  BY LeastId DEF TouchDown, NewIds
<1> HIDE DEF id
<1>2. /\ UiFree /\ link = "up" /\ link' = link /\ f \notin Down
      /\ Native = "no" => Down = {}
      /\ sending' = sending /\ supports' = supports /\ shown' = shown
      /\ desired' = desired /\ applied' = applied /\ pending' = pending
      /\ state' = [state EXCEPT !.native = Native, !.contacts[f] = id]
  BY DEF TouchDown, UiHasInput, capture, id
<1>3. Native \in {"yes", "no"}
  BY DEF Native, TypeOK
<1>4. /\ state' \in Input /\ state'.native = Native
      /\ state'.keys = state.keys /\ state'.buttons = state.buttons
      /\ state'.contacts = [state.contacts EXCEPT ![f] = id]
  BY <1>1, <1>2, <1>3 DEF TypeOK, Input
<1>5. Down' = Down \cup {f} /\ Ids' = Ids \cup {id}
  <2>1. state.contacts \in [Finger -> Id \cup {NoId}] /\ id # NoId
    BY <1>1, Constants DEF TypeOK
  <2>2. Down' = Down \cup {f}
    BY <1>4, <2>1 DEF Down
  <2>3. \A g \in Down : state'.contacts[g] = state.contacts[g]
    BY <1>2, <1>4, <2>1 DEF Down
  <2>4. state'.contacts[f] = id
    BY <1>4, <2>1
  <2> QED
    BY <2>2, <2>3, <2>4 DEF Ids
<1>6. host \in Held /\ lost \in Held
  BY DEF TypeOK
<1>7. Flying("key") = {} /\ Flying("button") = {} /\ Flying("key")' = {} /\ Flying("button")' = {}
  BY <1>2 DEF Flying, UiFree
<1>8. CASE Native = "yes"
  <2>1. HostTakes("touches", id, TRUE)
    BY <1>8 DEF TouchDown, id
  <2>2. /\ host' \in Held /\ lost' \in Held
        /\ host'.touches = host.touches \cup {id} /\ lost'.touches = lost.touches \ {id}
        /\ host'.keys = host.keys /\ lost'.keys = lost.keys
        /\ host'.buttons = host.buttons /\ lost'.buttons = lost.buttons
    BY <1>1, <1>6, <2>1, Takes DEF Toggled
  <2>3. Drag = {}
    BY <1>8 DEF Drag, Dragging, Native, Asked, TypeOK
  <2>4. TypeOK'
    BY <1>2, <1>4, <2>2 DEF TypeOK, Input
  <2>5. Listed'
    BY <1>2, <1>4, <1>5, <1>7, <2>2, <2>3 DEF Listed, UiFree
  <2> QED
    BY <1>4, <1>8, <2>4, <2>5 DEF Asked
<1>9. CASE Native = "no"
  <2>1. HostTakes("buttons", Left, TRUE)
    BY <1>9 DEF TouchDown
  <2>2. /\ host' \in Held /\ lost' \in Held
        /\ host'.buttons = host.buttons \cup {Left} /\ lost'.buttons = lost.buttons \ {Left}
        /\ host'.keys = host.keys /\ lost'.keys = lost.keys
        /\ host'.touches = host.touches /\ lost'.touches = lost.touches
    BY <1>6, <2>1, Takes, Constants DEF Toggled
  <2>3. Down = {} /\ Drag = {} /\ Ids = {} /\ Drag' = {Left}
    BY <1>2, <1>4, <1>5, <1>9 DEF Drag, Dragging, Ids
  <2>4. TypeOK'
    BY <1>2, <1>4, <2>2 DEF TypeOK, Input
  <2>5. Listed'
    BY <1>2, <1>4, <1>5, <1>7, <2>2, <2>3 DEF Listed, UiFree
  <2>6. host.touches \subseteq lost.touches
    BY <1>2, <2>3 DEF Listed
  <2> QED
    BY <1>4, <1>9, <2>2, <2>4, <2>5, <2>6 DEF Asked
<1> QED
  BY <1>3, <1>8, <1>9

LEMMA TouchDownFailsKeeps ==
  ASSUME IInv, NEW f \in Finger, TouchDownFails(f)
  PROVE  IInv'
<1> USE DEF IInv
<1>1. Native \in {"yes", "no"}
  BY DEF Native, TypeOK
<1>2. /\ link = "up" /\ link' = link /\ host' = host /\ lost' = lost
      /\ sending' = sending /\ supports' = supports /\ shown' = shown
      /\ desired' = desired /\ applied' = applied /\ pending' = pending
      /\ state' = [state EXCEPT !.native = Native]
  BY DEF TouchDownFails, capture
<1>3. /\ state' \in Input /\ state'.native = Native
      /\ state'.keys = state.keys /\ state'.buttons = state.buttons
      /\ state'.contacts = state.contacts
  BY <1>1, <1>2 DEF TypeOK, Input
<1>4. Down' = Down /\ Ids' = Ids
  BY <1>3 DEF Down, Ids
<1>5. Drag' = Drag
  BY <1>3, <1>4 DEF Drag, Dragging, Native, Asked
<1>6. TypeOK'
  BY <1>2, <1>3 DEF TypeOK, Input
<1>7. Listed'
  BY <1>2, <1>3, <1>4, <1>5 DEF Listed, Flying
<1>8. Asked'
  <2>1. CASE state.native = "unknown"
    <3>1. host.touches \subseteq lost.touches
      BY <1>2, <2>1 DEF Asked
    <3> QED
      BY <1>1, <1>2, <1>3, <3>1 DEF Asked
  <2>2. CASE state.native # "unknown"
    BY <1>1, <1>2, <1>3, <1>4, <2>2 DEF Asked, Native
  <2> QED
    BY <2>1, <2>2
<1> QED
  BY <1>6, <1>7, <1>8

LEMMA TouchEndKeeps ==
  ASSUME IInv, NEW f \in Finger, TouchEnd(f)
  PROVE  IInv'
<1> USE DEF IInv
<1> DEFINE id == state.contacts[f]
           gone == [state EXCEPT !.contacts[f] = NoId]
<1>1. /\ UiFree /\ link' = link /\ f \in Down
      /\ sending' = sending /\ supports' = supports /\ shown' = shown
      /\ desired' = desired /\ applied' = applied /\ pending' = pending
  BY DEF TouchEnd, UiHasInput, capture
<1>2. /\ id \in Id /\ state.native \in {"yes", "no"}
      /\ host \in Held /\ lost \in Held /\ state \in Input
  BY <1>1 DEF TypeOK, Down, Asked, Input
<1>3. state' \in {state, gone}
  BY DEF TouchEnd
<1>4. /\ state' \in Input /\ state'.native = state.native
      /\ state'.keys = state.keys /\ state'.buttons = state.buttons
  BY <1>2, <1>3 DEF Input
<1>5. Down' \subseteq Down /\ Ids \subseteq Ids' \cup {id}
      /\ (state' = state => Ids' = Ids /\ Down' = Down)
  <2>1. state.contacts \in [Finger -> Id \cup {NoId}]
    BY DEF TypeOK
  <2>2. ASSUME state' = state PROVE Ids' = Ids /\ Down' = Down
    BY <2>2 DEF Ids, Down
  <2>3. ASSUME state' = gone
        PROVE  Down' = Down \ {f} /\ \A g \in Down' : state'.contacts[g] = state.contacts[g]
    <3>1. state'.contacts = [state.contacts EXCEPT ![f] = NoId]
      BY <1>2, <2>3 DEF Input
    <3> QED
      BY <2>1, <3>1 DEF Down
  <2>4. ASSUME state' = gone PROVE Ids \subseteq Ids' \cup {id}
    BY <2>3, <2>4 DEF Ids
  <2> QED
    BY <1>3, <2>2, <2>3, <2>4
<1>6. Flying("key") = {} /\ Flying("button") = {} /\ Flying("key")' = {} /\ Flying("button")' = {}
  BY <1>1 DEF Flying, UiFree
<1>7. CASE host' = host /\ lost' = lost /\ state' = state
  <2>1. Drag' = Drag
    BY <1>5, <1>7 DEF Drag, Dragging
  <2> QED
    BY <1>1, <1>5, <1>6, <1>7, <2>1 DEF TypeOK, Listed, Asked, UiFree
<1>8. CASE HostTakes("touches", id, FALSE) /\ state.native = "yes"
  <2>1. /\ host' \in Held /\ lost' \in Held
        /\ host'.touches = host.touches \ {id} /\ lost'.touches = lost.touches \ {id}
        /\ host'.keys = host.keys /\ lost'.keys = lost.keys
        /\ host'.buttons = host.buttons /\ lost'.buttons = lost.buttons
    BY <1>2, <1>8, Takes DEF Toggled
  <2>2. Drag = {} /\ Drag' = {}
    BY <1>4, <1>8 DEF Drag, Dragging
  <2>3. TypeOK'
    BY <1>1, <1>4, <2>1 DEF TypeOK, Input
  <2>4. Listed'
    BY <1>1, <1>4, <1>5, <1>6, <2>1, <2>2 DEF Listed, UiFree
  <2> QED
    BY <1>4, <1>8, <2>3, <2>4 DEF Asked
<1>9. CASE HostTakes("buttons", Left, FALSE) /\ state.native = "no"
  <2>1. /\ host' \in Held /\ lost' \in Held
        /\ host'.buttons = host.buttons \ {Left} /\ lost'.buttons = lost.buttons \ {Left}
        /\ host'.keys = host.keys /\ lost'.keys = lost.keys
        /\ host'.touches = host.touches /\ lost'.touches = lost.touches
    BY <1>2, <1>9, Takes, Constants DEF Toggled
  <2>2. Drag \subseteq {Left}
    BY DEF Drag
  <2>3. TypeOK'
    BY <1>1, <1>4, <2>1 DEF TypeOK, Input
  <2>4. link = "up" => host.touches \subseteq lost.touches
    BY <1>9 DEF Asked
  <2>5. Listed'
    BY <1>1, <1>4, <1>6, <2>1, <2>2, <2>4 DEF Listed, UiFree
  <2> QED
    BY <1>1, <1>4, <1>9, <2>1, <2>3, <2>4, <2>5 DEF Asked
<1> QED
  BY <1>2, <1>7, <1>8, <1>9 DEF TouchEnd

-----------------------------------------------------------------------------
(* The other steps                                                         *)

(* Steps that only touch what is suppressed, the page or the capture.      *)
LEMMA AsidePreserves ==
  ASSUME IInv, state' \in Input,
         state'.keys = state.keys, state'.buttons = state.buttons,
         state'.native = state.native, state'.contacts = state.contacts,
         host' = host, lost' = lost, sending' = sending, supports' = supports,
         link' \in {"launching", "up", "dead", "dropped", "down"},
         link' = "up" => link = "up",
         shown' \in BOOLEAN, desired' \in BOOLEAN, applied' \in BOOLEAN, pending' \in BOOLEAN
  PROVE  IInv'
<1>1. Down' = Down /\ Ids' = Ids /\ Drag' = Drag
  BY DEF Down, Ids, Drag, Dragging
<1>2. TypeOK'
  BY DEF IInv, TypeOK, Input
<1>3. Listed'
  BY <1>1 DEF IInv, Listed, Flying
<1>4. Asked'
  BY <1>1 DEF IInv, Asked
<1> QED
  BY <1>2, <1>3, <1>4 DEF IInv

LEMMA SuppressKeeps ==
  ASSUME IInv,
         \/ \E k \in Key : KeyUp(k) /\ k \in state.chords
         \/ \E b \in Button : ButtonDown(b) /\ ~applied
         \/ \E b \in Button : ButtonUp(b) /\ b \in state.muted
         \/ CaptureButton \/ SyncCapture \/ LeavePage \/ DropHandle
  PROVE  IInv'
<1>1. state \in Input
  BY DEF IInv, TypeOK, Input
<1>2. desired \in BOOLEAN /\ applied \in BOOLEAN /\ pending \in BOOLEAN /\ shown \in BOOLEAN
      /\ link \in {"launching", "up", "dead", "dropped", "down"}
  BY DEF IInv, TypeOK
<1>3. ASSUME NEW k \in Key, KeyUp(k), k \in state.chords PROVE IInv'
  BY <1>1, <1>2, <1>3, AsidePreserves DEF KeyUp, Input, capture
<1>4. ASSUME NEW b \in Button, ButtonDown(b), ~applied PROVE IInv'
  <2>1. desired' \in BOOLEAN
    BY <1>2, <1>4 DEF ButtonDown, RequestCapture, HasHandle
  <2> QED
    BY <1>1, <1>2, <1>4, <2>1, AsidePreserves DEF ButtonDown, RequestCapture, Input
<1>5. ASSUME NEW b \in Button, ButtonUp(b), b \in state.muted PROVE IInv'
  BY <1>1, <1>2, <1>5, AsidePreserves DEF ButtonUp, Input, capture
<1>6. CASE CaptureButton
  <2>1. desired' \in BOOLEAN
    BY <1>2, <1>6 DEF CaptureButton, RequestCapture, HasHandle
  <2> QED
    BY <1>1, <1>2, <1>6, <2>1, AsidePreserves DEF CaptureButton, RequestCapture
<1>7. CASE SyncCapture
  BY <1>1, <1>2, <1>7, AsidePreserves DEF SyncCapture
<1>8. CASE LeavePage \/ DropHandle
  BY <1>1, <1>2, <1>8, AsidePreserves DEF LeavePage, DropHandle, capture
<1> QED
  BY <1>3, <1>4, <1>5, <1>6, <1>7, <1>8

LEMMA CaptureKeeps ==
  ASSUME IInv, CaptureChord \/ \E locked \in BOOLEAN : CaptureChanged(locked)
  PROVE  IInv'
<1>1. state \in Input
  BY DEF IInv, TypeOK, Input
<1>2. desired \in BOOLEAN /\ applied \in BOOLEAN /\ pending \in BOOLEAN /\ shown \in BOOLEAN
      /\ link \in {"launching", "up", "dead", "dropped", "down"}
      /\ state.chords \in SUBSET {CaptureKey, QuitKey}
  BY DEF IInv, TypeOK
<1>3. CASE CaptureChord
  <2> DEFINE chords == state.chords \cup {CaptureKey}
  <2>1. chords \in SUBSET {CaptureKey, QuitKey}
    BY <1>2
  <2>2. CASE desired \/ applied
    <3>1. UiFree /\ ReleaseMouse(chords) /\ desired' = FALSE
          /\ link' = link /\ sending' = sending /\ supports' = supports /\ shown' = shown
          /\ applied' = applied /\ pending' = pending
      BY <1>3, <2>2 DEF CaptureChord, ReleaseCapture, UiHasInput
    <3>2. /\ state' \in Input /\ host' \in Held /\ lost' \in Held
          /\ Listed' /\ Asked'
      BY <2>1, <3>1, ReleaseMouseKeeps
    <3> QED
      BY <3>1, <3>2 DEF IInv, TypeOK, Input
  <2>3. CASE ~(desired \/ applied)
    <3>1. desired' \in BOOLEAN
      BY <1>2, <1>3, <2>3 DEF CaptureChord, RequestCapture, HasHandle
    <3>2. state' = [state EXCEPT !.chords = chords]
      BY <1>3, <2>3 DEF CaptureChord
    <3> QED
      BY <1>1, <1>2, <1>3, <2>1, <2>3, <3>1, <3>2, AsidePreserves
         DEF CaptureChord, RequestCapture, Input
  <2> QED
    BY <2>2, <2>3
<1>4. ASSUME NEW locked \in BOOLEAN, CaptureChanged(locked) PROVE IInv'
  <2>1. UiFree /\ applied' = locked /\ desired' = locked /\ pending' = FALSE
        /\ link' = link /\ sending' = sending /\ supports' = supports /\ shown' = shown
    BY <1>4 DEF CaptureChanged
  <2>2. CASE locked
    BY <1>1, <1>2, <1>4, <2>1, <2>2, AsidePreserves DEF CaptureChanged
  <2>3. CASE ~locked
    <3>1. ReleaseMouse(state.chords)
      BY <1>4, <2>3 DEF CaptureChanged
    <3>2. /\ state' \in Input /\ host' \in Held /\ lost' \in Held
          /\ Listed' /\ Asked'
      BY <1>2, <2>1, <3>1, ReleaseMouseKeeps
    <3> QED
      BY <2>1, <3>2 DEF IInv, TypeOK, Input
  <2> QED
    BY <2>2, <2>3
<1> QED
  BY <1>3, <1>4

LEMMA LeaveKeeps ==
  ASSUME IInv, FocusLost \/ LeaveStream \/ QuitChord \/ QuitGame
  PROVE  IInv'
<1>1. \E chords \in SUBSET {CaptureKey, QuitKey} : ReleaseAll(chords)
  <2>1. state.chords \in SUBSET {CaptureKey, QuitKey}
    BY DEF IInv, TypeOK
  <2>2. state.chords \cup {QuitKey} \in SUBSET {CaptureKey, QuitKey}
    BY <2>1
  <2> QED
    BY <2>1, <2>2 DEF FocusLost, LeaveStream, QuitChord, QuitGame, Leave
<1>2. /\ UiFree /\ sending' = sending /\ supports' = supports
      /\ link' = link \/ link' = "dropped"
      /\ shown' = shown \/ shown' = FALSE
      /\ desired' = desired \/ desired' = FALSE
      /\ applied' = applied /\ pending' = pending
  BY DEF FocusLost, LeaveStream, QuitChord, QuitGame, Leave, capture
<1>3. /\ state' \in Input /\ host' \in Held /\ lost' \in Held
      /\ link' # "up" \/ link' = link => Listed' /\ Asked'
  BY <1>1, <1>2, ReleaseAllKeeps
<1> QED
  BY <1>2, <1>3 DEF IInv, TypeOK, Input

LEMMA StreamKeeps ==
  ASSUME IInv, Between, Launch \/ StreamStarts \/ StreamEnds \/ Reset
  PROVE  IInv'
<1>1. Fresh \in Input /\ Free \in Held /\ state \in Input
  BY DEF Fresh, Free, Input, Held, IInv, TypeOK
<1>2. CASE Launch \/ Reset
  <2>1. /\ state' = Fresh /\ link' # "up" /\ link' \in {"launching", "down"}
        /\ host' \in Held /\ lost' \in Held /\ sending' = sending /\ supports' = supports
        /\ shown' = shown /\ desired' = FALSE /\ applied' = applied /\ pending' = pending
    BY <1>1, <1>2 DEF Launch, Reset, IInv, TypeOK
  <2>2. Down' = {}
    BY <2>1 DEF Down, Fresh
  <2>3. TypeOK'
    BY <1>1, <2>1 DEF IInv, TypeOK, Input
  <2> QED
    BY <2>1, <2>2, <2>3 DEF IInv, Listed, Asked
<1>3. CASE StreamStarts
  <2>1. state' = state /\ host' = Free /\ lost' = lost /\ sending' = sending
        /\ link' \in {"up", "down"} /\ desired' = desired /\ applied' = applied /\ pending' = pending
    BY <1>3 DEF StreamStarts, Between, capture
  <2>2. supports' \in BOOLEAN /\ shown' \in BOOLEAN
    BY <1>3 DEF StreamStarts, IInv, TypeOK
  <2>3. TypeOK'
    BY <1>1, <2>1, <2>2 DEF IInv, TypeOK, Input
  <2>4. Listed'
    BY <2>1 DEF Listed, Free
  <2>5. Asked'
    BY <2>1 DEF IInv, Asked, Down, Free
  <2> QED
    BY <2>3, <2>4, <2>5 DEF IInv
<1>4. CASE StreamEnds
  <2>1. state' = state /\ host' = Free /\ lost' = Free /\ sending' = sending /\ link' = "dead"
        /\ supports' = supports /\ shown' = shown
        /\ desired' = desired /\ applied' = applied /\ pending' = pending
    BY <1>4 DEF StreamEnds, capture
  <2>2. TypeOK'
    BY <1>1, <2>1 DEF IInv, TypeOK, Input
  <2> QED
    BY <2>1, <2>2 DEF IInv, Listed, Asked, Down
<1> QED
  BY <1>2, <1>3, <1>4

LEMMA NextIInv == IInv /\ Between /\ [Next]_vars => IInv'
<1> SUFFICES ASSUME IInv, Between, [Next]_vars PROVE IInv'
  OBVIOUS
<1>1. ASSUME NEW k \in Key, KeyDown(k) \/ KeyUp(k) PROVE IInv'
  <2>1. [kind |-> "key", of |-> k] \in Pressable
    BY DEF Pressable
  <2>2. CASE KeyDown(k)
    BY <2>1, <2>2, SendKeeps DEF KeyDown
  <2>3. CASE KeyUp(k)
    BY <2>1, <2>3, SendKeeps, SuppressKeeps DEF KeyUp
  <2> QED
    BY <1>1, <2>2, <2>3
<1>2. ASSUME NEW b \in Button, ButtonDown(b) \/ ButtonUp(b) PROVE IInv'
  <2>1. [kind |-> "button", of |-> b] \in Pressable
    BY DEF Pressable
  <2>2. CASE ButtonDown(b)
    BY <2>1, <2>2, SendKeeps, SuppressKeeps DEF ButtonDown
  <2>3. CASE ButtonUp(b)
    BY <2>1, <2>3, SendKeeps, SuppressKeeps DEF ButtonUp
  <2> QED
    BY <1>2, <2>2, <2>3
<1>3. ASSUME NEW f \in Finger, TouchDown(f) \/ TouchDownFails(f) \/ TouchEnd(f) PROVE IInv'
  BY <1>3, TouchDownKeeps, TouchDownFailsKeeps, TouchEndKeeps
<1>4. CASE Record \/ CaptureChord \/ \E locked \in BOOLEAN : CaptureChanged(locked)
  BY <1>4, RecordKeeps, CaptureKeeps
<1>5. CASE CaptureButton \/ SyncCapture \/ LeavePage \/ DropHandle
  BY <1>5, SuppressKeeps
<1>6. CASE FocusLost \/ LeaveStream \/ QuitChord \/ QuitGame
  BY <1>6, LeaveKeeps
<1>7. CASE Launch \/ StreamStarts \/ StreamEnds \/ Reset
  BY <1>7, StreamKeeps
<1>8. CASE UNCHANGED vars
  <2>1. /\ state' = state /\ host' = host /\ lost' = lost /\ sending' = sending /\ link' = link
        /\ supports' = supports /\ shown' = shown /\ desired' = desired
        /\ applied' = applied /\ pending' = pending
    BY <1>8 DEF vars, capture
  <2>2. /\ state \in Input /\ shown \in BOOLEAN /\ desired \in BOOLEAN /\ applied \in BOOLEAN
        /\ pending \in BOOLEAN /\ link \in {"down", "launching", "up", "dead", "dropped"}
    BY DEF IInv, TypeOK, Input
  <2>3. /\ state' \in Input /\ shown' \in BOOLEAN /\ desired' \in BOOLEAN
        /\ applied' \in BOOLEAN /\ pending' \in BOOLEAN
        /\ link' \in {"launching", "up", "dead", "dropped", "down"}
    BY <2>1, <2>2
  <2> QED
    BY <2>1, <2>3, AsidePreserves
<1> QED
  BY <1>1, <1>2, <1>3, <1>4, <1>5, <1>6, <1>7, <1>8 DEF Next

(* Nothing reaches an idle host, and nothing the record of a stream that   *)
(* is only starting.                                                       *)
LEMMA FreshReleases ==
  ASSUME TypeOK, state = Fresh, NEW chords,
         ReleaseMouse({}) \/ ReleaseAll({})
  PROVE  state' = Fresh
BY DEF ReleaseMouse, ReleaseAll, Fresh

LEMMA FreeReleases ==
  ASSUME TypeOK, host = Free, NEW chords, ReleaseMouse(chords) \/ ReleaseAll(chords)
  PROVE  host' = Free
BY DEF ReleaseMouse, ReleaseAll, HostReleases, Free

LEMMA NextBetween == TypeOK /\ Between /\ [Next]_vars => Between'
<1> SUFFICES ASSUME TypeOK, Between, [Next]_vars PROVE Between'
  OBVIOUS
<1> USE DEF Between
<1>1. CASE \/ \E k \in Key : KeyDown(k) \/ KeyUp(k)
           \/ \E b \in Button : ButtonDown(b) \/ ButtonUp(b)
  BY <1>1 DEF KeyDown, KeyUp, ButtonDown, ButtonUp, Send, RequestCapture, UiHasInput
<1>2. CASE Record
  BY <1>2 DEF Record
<1>3. CASE \E f \in Finger : TouchDown(f) \/ TouchDownFails(f) \/ TouchEnd(f)
  BY <1>3 DEF TouchDown, TouchDownFails, TouchEnd, UiHasInput, HasHandle
<1>4. CASE CaptureChord \/ CaptureButton \/ SyncCapture \/ LeavePage \/ DropHandle
  <2>1. CASE CaptureChord
    <3>1. shown /\ link' = link
      BY <2>1 DEF CaptureChord, UiHasInput
    <3>2. host = Free => host' = Free
      BY <2>1, FreeReleases DEF CaptureChord, ReleaseCapture, RequestCapture
    <3> QED
      BY <3>1, <3>2
  <2> QED
    BY <1>4, <2>1 DEF CaptureButton, RequestCapture, SyncCapture, LeavePage, DropHandle
<1>5. CASE \E locked \in BOOLEAN : CaptureChanged(locked)
  <2>1. link' = link /\ shown' = shown /\ sending' = sending
    BY <1>5 DEF CaptureChanged
  <2>2. state = Fresh => state' = Fresh
    BY <1>5, FreshReleases DEF CaptureChanged, Fresh
  <2>3. host = Free => host' = Free
    BY <1>5, FreeReleases DEF CaptureChanged
  <2> QED
    BY <2>1, <2>2, <2>3
<1>6. CASE FocusLost \/ LeaveStream \/ QuitChord \/ QuitGame
  <2>1. host = Free => host' = Free
    BY <1>6, FreeReleases DEF FocusLost, LeaveStream, QuitChord, QuitGame, Leave
  <2>2. link = "launching" => state' = Fresh /\ ~shown' /\ sending' = Nothing /\ link' = link
    BY <1>6, FreshReleases
       DEF FocusLost, LeaveStream, QuitChord, QuitGame, Leave, HasHandle, Fresh
  <2>3. link' \in {link, "dropped"}
    BY <1>6 DEF FocusLost, LeaveStream, QuitChord, QuitGame
  <2> QED
    BY <2>1, <2>2, <2>3
<1>7. CASE Launch \/ StreamStarts \/ StreamEnds \/ Reset
  BY <1>7 DEF Launch, StreamStarts, StreamEnds, Reset, UiFree
<1>8. CASE UNCHANGED vars
  BY <1>8 DEF vars
<1> QED
  BY <1>1, <1>2, <1>3, <1>4, <1>5, <1>6, <1>7, <1>8 DEF Next

LEMMA NextCaptured == TypeOK /\ Captured /\ [Next]_vars => Captured'
<1> SUFFICES ASSUME TypeOK, Captured, [Next]_vars PROVE Captured'
  OBVIOUS
<1> USE DEF Captured
<1>0. state \in Input
  BY DEF TypeOK, Input
<1>1. CASE \/ \E k \in Key : KeyDown(k) \/ KeyUp(k)
           \/ \E b \in Button : ButtonDown(b) \/ ButtonUp(b)
  <2>0. ASSUME NEW what, NEW down, Send(what, down), what.kind = "key" \/ applied
        PROVE  Captured'
    <3>1. state' = state /\ applied' = applied /\ sending'.what = what
      BY <2>0 DEF Send, capture
    <3> QED
      BY <2>0, <3>1
  <2>1. ASSUME NEW k \in Key, KeyDown(k) \/ KeyUp(k) PROVE Captured'
    <3>1. CASE k \in state.chords /\ KeyUp(k)
      BY <1>0, <3>1 DEF KeyUp, capture, Input
    <3>2. CASE \E down \in BOOLEAN : Send([kind |-> "key", of |-> k], down)
      BY <2>0, <3>2
    <3> QED
      BY <2>1, <3>1, <3>2 DEF KeyDown, KeyUp
  <2>2. ASSUME NEW b \in Button, ButtonDown(b) PROVE Captured'
    <3>1. CASE applied
      BY <2>0, <2>2, <3>1 DEF ButtonDown
    <3>2. CASE ~applied
      <4>1. state' = [state EXCEPT !.muted = @ \cup {b}] /\ sending' = sending /\ applied' = applied
        BY <2>2, <3>2 DEF ButtonDown, RequestCapture
      <4> QED
        BY <1>0, <4>1 DEF Input
    <3> QED
      BY <3>1, <3>2
  <2>3. ASSUME NEW b \in Button, ButtonUp(b) PROVE Captured'
    <3>1. CASE b \in state.muted
      <4>1. state' = [state EXCEPT !.muted = @ \ {b}] /\ sending' = sending /\ applied' = applied
        BY <2>3, <3>1 DEF ButtonUp, capture
      <4> QED
        BY <1>0, <4>1 DEF Input
    <3>2. CASE b \notin state.muted
      BY <2>0, <2>3, <3>2 DEF ButtonUp
    <3> QED
      BY <3>1, <3>2
  <2> QED
    BY <1>1, <2>1, <2>2, <2>3
<1>2. CASE Record
  <2>1. applied' = applied /\ sending' = Nothing /\ sending # Nothing
    BY <1>2 DEF Record, capture
  <2>2. ASSUME ~applied PROVE state'.buttons = state.buttons
    BY <1>0, <1>2, <2>1, <2>2 DEF Record, Input, TypeOK, Pressable
  <2> QED
    BY <2>1, <2>2
<1>3. CASE \E f \in Finger : TouchDown(f) \/ TouchDownFails(f) \/ TouchEnd(f)
  <2>1. state'.buttons = state.buttons /\ sending' = sending /\ applied' = applied
    BY <1>0, <1>3 DEF TouchDown, TouchDownFails, TouchEnd, capture, Input
  <2> QED
    BY <2>1
<1>4. CASE CaptureChord \/ CaptureButton \/ SyncCapture \/ LeavePage \/ DropHandle
  <2>1. state'.buttons \in {state.buttons, {}} /\ sending' = sending /\ applied' = applied
    BY <1>0, <1>4
       DEF CaptureChord, ReleaseCapture, ReleaseMouse, CaptureButton, RequestCapture,
           SyncCapture, LeavePage, DropHandle, capture, Input
  <2> QED
    BY <2>1
<1>5. CASE \E locked \in BOOLEAN : CaptureChanged(locked)
  <2>1. sending = Nothing /\ sending' = Nothing
    BY <1>5 DEF CaptureChanged, UiFree
  <2>2. PICK locked \in BOOLEAN : CaptureChanged(locked)
    BY <1>5
  <2>3. CASE ~locked
    <3>1. state' = [state EXCEPT !.buttons = {}, !.muted = {}, !.chords = state.chords]
      BY <2>2, <2>3 DEF CaptureChanged, ReleaseMouse
    <3> QED
      BY <1>0, <2>1, <3>1 DEF Input
  <2>4. CASE locked
    BY <2>2, <2>4 DEF CaptureChanged
  <2> QED
    BY <2>3, <2>4
<1>6. CASE FocusLost \/ LeaveStream \/ QuitChord \/ QuitGame
  <2>1. state'.buttons = {} /\ sending' = sending /\ applied' = applied
    BY <1>0, <1>6
       DEF FocusLost, LeaveStream, QuitChord, QuitGame, Leave, ReleaseAll, capture, Input
  <2> QED
    BY <2>1
<1>7. CASE Launch \/ StreamStarts \/ StreamEnds \/ Reset
  BY <1>7 DEF Launch, StreamStarts, StreamEnds, Reset, Fresh, capture
<1>8. CASE UNCHANGED vars
  BY <1>8 DEF vars, capture
<1> QED
  BY <1>1, <1>2, <1>3, <1>4, <1>5, <1>6, <1>7, <1>8 DEF Next

(* Fewer fingers down, with the ids they had, keep apart.                  *)
LEMMA FewerFingers ==
  ASSUME FingersApart, Down' \subseteq Down,
         \A f \in Down' : state'.contacts[f] = state.contacts[f],
         Down = {} \/ state'.native = state.native
  PROVE  FingersApart'
BY DEF FingersApart, Dragging

LEMMA NextApart == IInv /\ FingersApart /\ [Next]_vars => FingersApart'
<1> SUFFICES ASSUME IInv, FingersApart, [Next]_vars PROVE FingersApart'
  OBVIOUS
<1>0. state \in Input
  BY DEF IInv, TypeOK, Input
<1>a. ASSUME state'.contacts = state.contacts, state'.native = state.native
      PROVE  FingersApart'
  BY <1>a, FewerFingers DEF Down
<1>b. ASSUME \A f \in Finger : state'.contacts[f] = NoId PROVE FingersApart'
  BY <1>b DEF FingersApart, Down, Dragging
<1>1. ASSUME NEW k \in Key, KeyDown(k) \/ KeyUp(k) PROVE FingersApart'
  <2>1. state'.contacts = state.contacts /\ state'.native = state.native
    BY <1>0, <1>1 DEF KeyDown, KeyUp, Send, Input
  <2> QED
    BY <2>1, <1>a
<1>2. ASSUME NEW b \in Button, ButtonDown(b) \/ ButtonUp(b) PROVE FingersApart'
  <2>1. state'.contacts = state.contacts /\ state'.native = state.native
    BY <1>0, <1>2 DEF ButtonDown, ButtonUp, Send, Input
  <2> QED
    BY <2>1, <1>a
<1>3. ASSUME NEW f \in Finger, TouchDown(f) PROVE FingersApart'
  <2> DEFINE id == Least(NewIds)
  <2>1. id \in NewIds
    BY <1>3, LeastId DEF TouchDown, NewIds
  <2> HIDE DEF id
  <2>2. /\ state' = [state EXCEPT !.native = Native, !.contacts[f] = id]
        /\ f \notin Down /\ (Native = "no" => Down = {})
    BY <1>3 DEF TouchDown, id
  <2>3. /\ state'.contacts = [state.contacts EXCEPT ![f] = id] /\ state'.native = Native
        /\ state.contacts \in [Finger -> Id \cup {NoId}]
    BY <1>0, <2>2 DEF Input
  <2>4. Down' \subseteq Down \cup {f} /\ \A g \in Down : state'.contacts[g] = state.contacts[g]
    BY <2>2, <2>3 DEF Down
  <2>5. \A g \in Down : state.contacts[g] # id
    BY <2>1 DEF NewIds
  <2>6. state'.contacts[f] = id
    BY <2>3
  <2> QED
    BY <2>2, <2>3, <2>4, <2>5, <2>6 DEF FingersApart, Dragging
<1>4. ASSUME NEW f \in Finger, TouchDownFails(f) PROVE FingersApart'
  <2>1. state'.contacts = state.contacts /\ state'.native = Native
    BY <1>0, <1>4 DEF TouchDownFails, Input
  <2>2. Down = {} \/ Native = state.native
    BY DEF IInv, Asked, Native
  <2> QED
    BY <2>1, <2>2, FewerFingers DEF Down
<1>5. ASSUME NEW f \in Finger, TouchEnd(f) PROVE FingersApart'
  <2>1. CASE state' = state
    BY <2>1, <1>a
  <2>2. CASE state' = [state EXCEPT !.contacts[f] = NoId]
    <3>1. /\ state'.contacts = [state.contacts EXCEPT ![f] = NoId] /\ state'.native = state.native
          /\ state.contacts \in [Finger -> Id \cup {NoId}]
      BY <1>0, <2>2 DEF Input
    <3>2. Down' \subseteq Down /\ \A g \in Down' : state'.contacts[g] = state.contacts[g]
      BY <3>1 DEF Down
    <3> QED
      BY <3>1, <3>2, FewerFingers
  <2> QED
    BY <1>5, <2>1, <2>2 DEF TouchEnd
<1>6. CASE Record \/ CaptureButton \/ SyncCapture \/ LeavePage \/ DropHandle
  <2>1. state'.contacts = state.contacts /\ state'.native = state.native
    BY <1>0, <1>6 DEF Record, CaptureButton, SyncCapture, LeavePage, DropHandle, Input
  <2> QED
    BY <2>1, <1>a
<1>7. CASE CaptureChord \/ \E locked \in BOOLEAN : CaptureChanged(locked)
  <2>1. state'.contacts = state.contacts /\ state'.native = state.native
    BY <1>0, <1>7 DEF CaptureChord, CaptureChanged, ReleaseCapture, ReleaseMouse, Input
  <2> QED
    BY <2>1, <1>a
<1>8. CASE FocusLost \/ LeaveStream \/ QuitChord \/ QuitGame
  <2>1. state'.contacts = Fresh.contacts
    BY <1>0, <1>8 DEF FocusLost, LeaveStream, QuitChord, QuitGame, Leave, ReleaseAll, Input
  <2> QED
    BY <2>1, <1>b DEF Fresh
<1>9. CASE Launch \/ Reset
  BY <1>9, <1>b DEF Launch, Reset, Fresh
<1>10. CASE StreamStarts \/ StreamEnds
  BY <1>10, <1>a DEF StreamStarts, StreamEnds
<1>11. CASE UNCHANGED vars
  BY <1>11, <1>a DEF vars
<1> QED
  BY <1>1, <1>2, <1>3, <1>4, <1>5, <1>6, <1>7, <1>8, <1>9, <1>10, <1>11 DEF Next

-----------------------------------------------------------------------------
LEMMA InvHolds == Spec => []Inv
<1>1. Init => Inv
  <2> SUFFICES ASSUME Init PROVE Inv
    OBVIOUS
  <2>1. IInv
    BY InitIInv
  <2>2. Between /\ Captured /\ FingersApart
    BY DEF Init, Between, Captured, FingersApart, Fresh, Dragging, Down
  <2> QED
    BY <2>1, <2>2 DEF Inv
<1>2. Inv /\ [Next]_vars => Inv'
  BY NextIInv, NextBetween, NextCaptured, NextApart DEF Inv, IInv
<1> QED
  BY <1>1, <1>2, PTL DEF Spec

(* The record and the history stay in their types: no contact id is out of *)
(* the range that the protocol has.                                        *)
THEOREM TypeCorrect == Spec => []TypeOK
<1>1. Inv => TypeOK
  BY DEF Inv, IInv
<1> QED
  BY InvHolds, <1>1, PTL

(* For any keys, buttons, fingers and contact ids, losing the focus asks   *)
(* the host to release everything it holds but what already failed once.   *)
THEOREM ListComplete == Spec => []HeldIsListed
<1>1. Inv => HeldIsListed
  BY DEF Inv, IInv, Listed, HeldIsListed, UiFree, Flying, Ids, Drag
<1> QED
  BY InvHolds, <1>1, PTL

(* No button stays pressed once the capture is lost.                       *)
THEOREM ButtonsNeedCapture == Spec => []UncapturedIsReleased
<1>1. Inv => UncapturedIsReleased
  BY DEF Inv, IInv, Listed, Captured, UncapturedIsReleased, UiFree, Flying, Drag
<1> QED
  BY InvHolds, <1>1, PTL

(* Two fingers never share a contact id, and a drag has one finger.        *)
THEOREM FingersDistinct == Spec => []FingersApart
<1>1. Inv => FingersApart
  BY DEF Inv
<1> QED
  BY InvHolds, <1>1, PTL

(* A stream never starts with input recorded for the stream before.        *)
THEOREM StartsFresh == Spec => []FreshStart
<1>1. Inv => FreshStart
  BY DEF Inv, Between, FreshStart
<1> QED
  BY InvHolds, <1>1, PTL

(* The one step that takes the capture away is the answer of the window    *)
(* manager, ...                                                            *)
LEMMA OnlyAnswersUnlock ==
  ASSUME [Next]_vars, applied, ~applied'
  PROVE  CaptureChanged(FALSE)
<1>1. ASSUME NEW k \in Key, KeyDown(k) \/ KeyUp(k) PROVE applied' = applied
  BY <1>1 DEF KeyDown, KeyUp, Send, capture
<1>2. ASSUME NEW b \in Button, ButtonDown(b) \/ ButtonUp(b) PROVE applied' = applied
  BY <1>2 DEF ButtonDown, ButtonUp, Send, capture
<1>3. ASSUME NEW f \in Finger, TouchDown(f) \/ TouchDownFails(f) \/ TouchEnd(f)
      PROVE  applied' = applied
  BY <1>3 DEF TouchDown, TouchDownFails, TouchEnd, capture
<1>4. ASSUME Record \/ CaptureChord \/ CaptureButton \/ SyncCapture
      PROVE  applied' = applied
  BY <1>4 DEF Record, CaptureChord, CaptureButton, SyncCapture, ReleaseCapture,
              RequestCapture, capture
<1>5. ASSUME FocusLost \/ LeaveStream \/ QuitChord \/ QuitGame \/ LeavePage
      PROVE  applied' = applied
  BY <1>5 DEF FocusLost, LeaveStream, QuitChord, QuitGame, Leave, LeavePage, capture
<1>6. ASSUME Launch \/ StreamStarts \/ StreamEnds \/ DropHandle \/ Reset
      PROVE  applied' = applied
  BY <1>6 DEF Launch, StreamStarts, StreamEnds, DropHandle, Reset, capture
<1>7. ASSUME UNCHANGED vars
      PROVE  applied' = applied
  BY <1>7 DEF vars, capture
<1>8. ASSUME NEW locked \in BOOLEAN, CaptureChanged(locked) PROVE ~locked
  BY <1>8 DEF CaptureChanged
<1> QED
  BY <1>1, <1>2, <1>3, <1>4, <1>5, <1>6, <1>7, <1>8 DEF Next

(* ... and it releases nothing but the buttons recorded for the mouse.     *)
LEMMA UnlockReleases ==
  ASSUME TypeOK, CaptureChanged(FALSE)
  PROVE  /\ state'.keys = state.keys /\ host'.keys = host.keys
         /\ state'.contacts = state.contacts /\ host'.touches = host.touches
         /\ Left \in host.buttons \ state.buttons => Left \in host'.buttons
<1>1. ReleaseMouse(state.chords)
  BY DEF CaptureChanged
<1>2. state'.keys = state.keys /\ state'.contacts = state.contacts
  BY <1>1 DEF ReleaseMouse, TypeOK, Input
<1>3. PICK failed \in SUBSET state.buttons :
        HostReleases([Free EXCEPT !.buttons = state.buttons],
                     [Free EXCEPT !.buttons = failed])
  BY <1>1 DEF ReleaseMouse
<1>4. /\ host'.keys = host.keys \ ({} \ {})
      /\ host'.touches = host.touches \ ({} \ {})
      /\ host'.buttons = host.buttons \ (state.buttons \ failed)
  BY <1>3 DEF HostReleases, Free
<1> QED
  BY <1>2, <1>4

(* "Unlocking the pointer must not cancel independent touch or key input"  *)
(* (input.rs), for any keys, buttons, fingers and contact ids.             *)
THEOREM UnlockSpares == Spec => UnlockSparesTheRest
<1> DEFINE Spares ==
      applied /\ ~applied' /\ link = "up" /\ link' = "up" =>
        /\ state'.keys = state.keys /\ host'.keys = host.keys
        /\ state'.contacts = state.contacts /\ host'.touches = host.touches
        /\ Dragging /\ Left \in host.buttons \ state.buttons => Left \in host'.buttons
<1>1. TypeOK /\ [Next]_vars => [Spares]_vars
  <2> SUFFICES ASSUME TypeOK, [Next]_vars, applied, ~applied' PROVE Spares
    OBVIOUS
  <2> QED
    BY OnlyAnswersUnlock, UnlockReleases
<1> QED
  BY TypeCorrect, <1>1, PTL DEF Spec, UnlockSparesTheRest

-----------------------------------------------------------------------------
(* The codes of the keys.  The two lists of the table, entry by entry.     *)
ShiftRow(c, vk) ==
  \/ (c = 33 /\ vk = 49) \/ (c = 64 /\ vk = 50) \/ (c = 35 /\ vk = 51) \/ (c = 36 /\ vk = 52)
  \/ (c = 37 /\ vk = 53) \/ (c = 94 /\ vk = 54) \/ (c = 38 /\ vk = 55) \/ (c = 42 /\ vk = 56)
  \/ (c = 40 /\ vk = 57) \/ (c = 41 /\ vk = 48)
OemRow(c, vk) ==
  \/ (vk = 186 /\ c \in {59, 58}) \/ (vk = 187 /\ c \in {61, 43})
  \/ (vk = 188 /\ c \in {44, 60}) \/ (vk = 189 /\ c \in {45, 95, 31})
  \/ (vk = 190 /\ c \in {46, 62}) \/ (vk = 191 /\ c \in {47, 63})
  \/ (vk = 192 /\ c \in {96, 126}) \/ (vk = 219 /\ c \in {91, 123, 27})
  \/ (vk = 220 /\ c \in {92, 124, 28}) \/ (vk = 221 /\ c \in {93, 125, 29})
  \/ (vk = 222 /\ c \in {39, 34})

(* The whole table.                                                        *)
Row(c, vk) ==
  \/ c \in 97 .. 122 /\ vk = c - 32
  \/ c \in (65 .. 90) \cup (48 .. 57) /\ vk = c
  \/ c \in 1 .. 26 /\ vk = c + 64
  \/ ShiftRow(c, vk)
  \/ OemRow(c, vk)

LEMMA ShiftRows ==
  ASSUME NEW c, NEW vk
  PROVE  <<c, vk>> \in ShiftVk <=> ShiftRow(c, vk)
<1> DEFINE Is(a, b) == <<c, vk>> = <<a, b>>
<1>1. <<c, vk>> \in ShiftVk <=>
        \/ Is(33,49) \/ Is(64,50) \/ Is(35,51) \/ Is(36,52) \/ Is(37,53)
        \/ Is(94,54) \/ Is(38,55) \/ Is(42,56) \/ Is(40,57) \/ Is(41,48)
  BY SMT DEF ShiftVk
<1>2. \A a, b : Is(a, b) <=> c = a /\ vk = b
  OBVIOUS
<1> HIDE DEF Is
<1> QED
  BY <1>1, <1>2, SMT DEF ShiftRow

LEMMA OemRows ==
  ASSUME NEW c, NEW vk
  PROVE  <<c, vk>> \in OemVk <=> OemRow(c, vk)
<1> DEFINE In(A, b) == <<c, vk>> \in A \X {b}
<1>1. <<c, vk>> \in OemVk <=>
        \/ In({59, 58}, 186) \/ In({61, 43}, 187) \/ In({44, 60}, 188)
        \/ In({45, 95, 31}, 189) \/ In({46, 62}, 190) \/ In({47, 63}, 191)
        \/ In({96, 126}, 192) \/ In({91, 123, 27}, 219) \/ In({92, 124, 28}, 220)
        \/ In({93, 125, 29}, 221) \/ In({39, 34}, 222)
  BY SMT DEF OemVk
<1>2. \A A, b : In(A, b) <=> c \in A /\ vk = b
  BY SMT
<1> HIDE DEF In
<1> QED
  BY <1>1, <1>2, SMT DEF OemRow

(* The table has exactly these entries, and all of them are numbers.       *)
LEMMA Rows ==
  ASSUME NEW c \in Int, NEW vk \in Int
  PROVE  <<c, vk>> \in CharToVk <=> Row(c, vk)
<1>1. <<c, vk>> \in ControlVk <=> c \in 1 .. 26 /\ vk = c + 64
  BY DEF ControlVk
<1>2. <<c, vk>> \in PlainVk
        <=> \/ c \in 97 .. 122 /\ vk = c - 32
            \/ c \in (65 .. 90) \cup (48 .. 57) /\ vk = c
  BY DEF PlainVk
<1> QED
  BY <1>1, <1>2, ShiftRows, OemRows DEF CharToVk, Row

LEMMA CodesAreNumbers == CharToVk \subseteq Int \X Int
<1>1. PlainVk \subseteq Int \X Int /\ ControlVk \subseteq Int \X Int
  BY DEF PlainVk, ControlVk
<1>2. ShiftVk \subseteq Int \X Int
  BY DEF ShiftVk
<1>3. OemVk \subseteq Int \X Int
  BY DEF OemVk
<1> QED
  BY <1>1, <1>2, <1>3 DEF CharToVk

(* A character has one code, which is no code of a key that types nothing. *)
LEMMA OneCode ==
  ASSUME NEW c \in Int, NEW v \in Int, NEW w \in Int, Row(c, v), Row(c, w)
  PROVE  v = w
BY DEF Row, ShiftRow, OemRow

LEMMA KeyCodesApart ==
  ASSUME NEW c \in Int, NEW v \in Int, Row(c, v)
  PROVE  v \notin NamedVk
BY DEF Row, ShiftRow, OemRow, NamedVk

(* The codes of a character.                                               *)
LEMMA VkRow ==
  ASSUME NEW c \in Int, NEW v \in Int, Row(c, v)
  PROVE  Vk(c) = {v} /\ v \in Code
<1>1. <<c, v>> \in CharToVk
  BY Rows
<1>2. v \in Vk(c) /\ v \in Code
  <2>1. <<c, v>>[1] = c /\ <<c, v>>[2] = v
    OBVIOUS
  <2> QED
    BY <1>1, <2>1, Zenon DEF Vk, Code
<1>3. ASSUME NEW w \in Vk(c) PROVE w = v
  <2> PICK p \in CharToVk : p[1] = c /\ w = p[2]
    BY <1>3 DEF Vk
  <2>1. p \in Int \X Int /\ p = <<p[1], p[2]>>
    BY CodesAreNumbers
  <2>2. w \in Int /\ Row(c, w)
    BY <2>1, Rows
  <2> QED
    BY <2>2, OneCode
<1> QED
  BY <1>2, <1>3

LEMMA VkNone ==
  ASSUME NEW c \in {0, 30}
  PROVE  Vk(c) = {}
<1> SUFFICES ASSUME NEW v \in Vk(c) PROVE FALSE
  OBVIOUS
<1> PICK p \in CharToVk : p[1] = c
  BY DEF Vk
<1>1. p \in Int \X Int /\ p = <<p[1], p[2]>>
  BY CodesAreNumbers
<1>2. Row(c, p[2])
  BY <1>1, Rows
<1> QED
  BY <1>1, <1>2 DEF Row, ShiftRow, OemRow

(* The keys of the layout by their codes.                                  *)
Letter(k, v) == v \in 65 .. 90 /\ k = <<v + 32, v, v - 64>>
Digit(k, v) ==
  \/ (v = 49 /\ k = <<49, 33, 49>>) \/ (v = 50 /\ k = <<50, 64, 0>>)
  \/ (v = 51 /\ k = <<51, 35, 51>>) \/ (v = 52 /\ k = <<52, 36, 52>>)
  \/ (v = 53 /\ k = <<53, 37, 53>>) \/ (v = 54 /\ k = <<54, 94, 30>>)
  \/ (v = 55 /\ k = <<55, 38, 55>>) \/ (v = 56 /\ k = <<56, 42, 56>>)
  \/ (v = 57 /\ k = <<57, 40, 57>>) \/ (v = 48 /\ k = <<48, 41, 48>>)
OemKey(k, v) ==
  \/ (v = 186 /\ k = <<59, 58, 59>>) \/ (v = 187 /\ k = <<61, 43, 61>>)
  \/ (v = 188 /\ k = <<44, 60, 44>>) \/ (v = 189 /\ k = <<45, 95, 31>>)
  \/ (v = 190 /\ k = <<46, 62, 46>>) \/ (v = 191 /\ k = <<47, 63, 47>>)
  \/ (v = 192 /\ k = <<96, 126, 96>>) \/ (v = 219 /\ k = <<91, 123, 27>>)
  \/ (v = 220 /\ k = <<92, 124, 28>>) \/ (v = 221 /\ k = <<93, 125, 29>>)
  \/ (v = 222 /\ k = <<39, 34, 39>>)
KeyOf(k, v) == Letter(k, v) \/ Digit(k, v) \/ OemKey(k, v)

LEMMA LayoutKeys ==
  ASSUME NEW k \in UsLayout
  PROVE  \E v \in Int : KeyOf(k, v)
<1>1. CASE \E c \in 97 .. 122 : k = <<c, c - 32, c - 96>>
  <2> PICK c \in 97 .. 122 : k = <<c, c - 32, c - 96>>
    BY <1>1
  <2>1. c - 32 \in 65 .. 90 /\ (c - 32) + 32 = c /\ (c - 32) - 64 = c - 96
    OBVIOUS
  <2> QED
    BY <2>1 DEF KeyOf, Letter
<1>2. CASE \E v \in Int : Digit(k, v)
  BY <1>2 DEF KeyOf
<1>3. CASE \E v \in Int : OemKey(k, v)
  BY <1>3 DEF KeyOf
<1>4. /\ k \in {<<49, 33, 49>>, <<50, 64, 0>>, <<51, 35, 51>>, <<52, 36, 52>>, <<53, 37, 53>>,
                <<54, 94, 30>>, <<55, 38, 55>>, <<56, 42, 56>>, <<57, 40, 57>>, <<48, 41, 48>>}
           => \E v \in Int : Digit(k, v)
      /\ k \in {<<59, 58, 59>>, <<61, 43, 61>>, <<44, 60, 44>>, <<45, 95, 31>>, <<46, 62, 46>>,
                <<47, 63, 47>>, <<96, 126, 96>>, <<91, 123, 27>>, <<92, 124, 28>>,
                <<93, 125, 29>>, <<39, 34, 39>>}
           => \E v \in Int : OemKey(k, v)
  BY DEF Digit, OemKey
<1> QED
  BY <1>1, <1>2, <1>3, <1>4 DEF UsLayout

(* What a key types has its code, but for Ctrl with 2 and with 6.          *)
LEMMA KeyRows ==
  ASSUME NEW k, NEW v \in Int, KeyOf(k, v)
  PROVE  /\ k[1] \in Int /\ k[2] \in Int /\ k[3] \in Int
         /\ Row(k[1], v) /\ Row(k[2], v)
         /\ Row(k[3], v) \/ (k[3] \in {0, 30} /\ v \in {50, 54})
<1>1. CASE Letter(k, v)
  BY <1>1 DEF Letter, Row
<1>2. CASE Digit(k, v)
  BY <1>2 DEF Digit, Row, ShiftRow
<1>3. CASE OemKey(k, v)
  BY <1>3 DEF OemKey, Row, OemRow
<1> QED
  BY <1>1, <1>2, <1>3 DEF KeyOf

LEMMA KeyOfCode ==
  ASSUME NEW j, NEW k, NEW v \in Int, KeyOf(j, v), KeyOf(k, v)
  PROVE  j = k
<1>1. CASE v \in 65 .. 90
  BY <1>1 DEF KeyOf, Letter, Digit, OemKey
<1>2. CASE v \in 48 .. 57
  BY <1>2 DEF KeyOf, Letter, Digit, OemKey
<1>3. CASE v > 90
  BY <1>3 DEF KeyOf, Letter, Digit, OemKey
<1> QED
  BY <1>1, <1>2, <1>3 DEF KeyOf, Letter, Digit, OemKey

(* What a key is pressed and released under, whatever is held: its own     *)
(* code, which no other key has, or none.                                  *)
LEMMA OneCodePerKey ==
  ASSUME NEW k \in PhysicalKey
  PROVE  \E v \in Code : /\ OwnVk(k) = {v}
                         /\ VkNow(k) = {v} \/ (VkNow(k) = {} /\ v \in {50, 54})
                         /\ k \in NamedKey => v \in NamedVk /\ k = <<v>>
                         /\ k \notin NamedKey => v \in Int /\ KeyOf(k, v)
<1>1. CASE k \in NamedKey
  <2> PICK v \in NamedVk : k = <<v>>
    BY <1>1 DEF NamedKey
  <2>1. OwnVk(k) = {v} /\ VkNow(k) = {v} /\ v \in Code
    BY <1>1 DEF OwnVk, VkNow, Code
  <2> QED
    BY <1>1, <2>1
<1>2. CASE k \notin NamedKey
  <2> PICK v \in Int : KeyOf(k, v)
    BY <1>2, LayoutKeys, KeyboardAssumption
  <2>1. Vk(k[1]) = {v} /\ Vk(k[2]) = {v} /\ v \in Code
    BY KeyRows, VkRow
  <2>2. Vk(k[3]) = {v} \/ (Vk(k[3]) = {} /\ v \in {50, 54})
    BY KeyRows, VkRow, VkNone
  <2>3. Typed(k) \in {k[1], k[2], k[3]}
    BY DEF Typed
  <2> QED
    BY <1>2, <2>1, <2>2, <2>3 DEF OwnVk, VkNow
<1> QED
  BY <1>1, <1>2

LEMMA OwnCodes ==
  ASSUME NEW j \in PhysicalKey, NEW k \in PhysicalKey, OwnVk(j) \cap OwnVk(k) # {}
  PROVE  j = k
<1> PICK v \in Code : /\ OwnVk(j) = {v}
                      /\ j \in NamedKey => v \in NamedVk /\ j = <<v>>
                      /\ j \notin NamedKey => v \in Int /\ KeyOf(j, v)
  BY OneCodePerKey
<1> PICK w \in Code : /\ OwnVk(k) = {w}
                      /\ k \in NamedKey => w \in NamedVk /\ k = <<w>>
                      /\ k \notin NamedKey => w \in Int /\ KeyOf(k, w)
  BY OneCodePerKey
<1>1. v = w
  OBVIOUS
<1>2. ASSUME NEW i \in PhysicalKey, v \in Int, KeyOf(i, v) PROVE v \notin NamedVk
  BY <1>2, KeyRows, KeyCodesApart
<1> QED
  BY <1>1, <1>2, KeyOfCode

-----------------------------------------------------------------------------
(* The host and the keys.  What it holds is recorded, unless its release   *)
(* failed: so losing the focus releases it.                                *)
CodesOf(keys) == UNION {OwnVk(k) : k \in keys}

KeyboardIInv == KeyboardTypes /\ HostFollowsKeys /\ remote \subseteq recorded \cup unsent

LEMMA KeysHeld == HostFollowsKeys <=>
  /\ CodesOf(pressing) \subseteq remote
  /\ remote \subseteq CodesOf(pressing) \cup unsent \cup swallowed \cup untyped
  /\ untyped \subseteq {50, 54}
BY DEF HostFollowsKeys, CodesOf

LEMMA KeysHeldNext == HostFollowsKeys' <=>
  /\ CodesOf(pressing') \subseteq remote'
  /\ remote' \subseteq CodesOf(pressing') \cup unsent' \cup swallowed' \cup untyped'
  /\ untyped' \subseteq {50, 54}
BY DEF HostFollowsKeys, CodesOf, OwnVk, Vk

LEMMA HeldWith ==
  ASSUME NEW S, NEW k, NEW v, OwnVk(k) = {v}
  PROVE  CodesOf(S \cup {k}) = CodesOf(S) \cup {v}
BY DEF CodesOf

LEMMA HeldWithout ==
  ASSUME NEW S \in SUBSET PhysicalKey, NEW k \in PhysicalKey, NEW v, OwnVk(k) = {v}
  PROVE  /\ CodesOf(S \ {k}) \subseteq CodesOf(S) \ {v}
         /\ CodesOf(S) \subseteq CodesOf(S \ {k}) \cup {v}
<1>1. ASSUME NEW j \in S \ {k} PROVE v \notin OwnVk(j)
  BY OwnCodes
<1> QED
  BY <1>1 DEF CodesOf

LEMMA PressFollows ==
  ASSUME KeyboardIInv, NEW k \in PhysicalKey, Press(k)
  PROVE  KeyboardIInv'
<1> PICK v \in Code : OwnVk(k) = {v} /\ (VkNow(k) = {v} \/ VkNow(k) = {})
  BY OneCodePerKey
<1>1. /\ HostHolds(remote \cup {v}, unsent \ {v}, swallowed \ {v}, untyped \ {v})
      /\ recorded' = recorded \cup {v}
      /\ pressing' = pressing \cup {k}
      /\ UNCHANGED <<modifiers, focus, swallowing>>
  BY DEF Press
<1>2. CodesOf(pressing') = CodesOf(pressing) \cup {v}
  BY <1>1, HeldWith
<1>3. HostFollowsKeys'
  BY <1>1, <1>2, KeysHeld, KeysHeldNext DEF KeyboardIInv, HostHolds
<1>4. KeyboardTypes' /\ (remote \subseteq recorded \cup unsent)'
  BY <1>1 DEF KeyboardIInv, KeyboardTypes, HostHolds
<1> QED
  BY <1>3, <1>4 DEF KeyboardIInv

LEMMA KeysReleased ==
  ASSUME KeyboardIInv, ReleaseKeys,
         modifiers' \subseteq Modifier, focus' \in {"stream", "elsewhere", "left"},
         swallowing' \subseteq ChordVk
  PROVE  KeyboardIInv'
<1>1. PICK failed \in SUBSET recorded :
        HostHolds(remote \ (recorded \ failed), unsent \cup failed, swallowed, untyped)
  BY DEF ReleaseKeys
<1>2. recorded' = {} /\ pressing' = {} /\ CodesOf(pressing') = {}
  BY DEF ReleaseKeys, CodesOf
<1>3. remote' \subseteq unsent' /\ unsent' \subseteq remote' /\ remote' \subseteq remote
  BY <1>1 DEF KeyboardIInv, HostHolds
<1>4. HostFollowsKeys'
  BY <1>1, <1>2, <1>3, KeysHeld, KeysHeldNext DEF KeyboardIInv, HostHolds
<1>5. KeyboardTypes'
  BY <1>1, <1>2, <1>3 DEF KeyboardIInv, KeyboardTypes, HostHolds
<1> QED
  BY <1>2, <1>3, <1>4, <1>5 DEF KeyboardIInv

LEMMA ChordFollows ==
  ASSUME KeyboardIInv, NEW k \in PhysicalKey, PressChord(k)
  PROVE  KeyboardIInv'
<1>1. swallowing' \subseteq ChordVk /\ UNCHANGED modifiers
  <2> PICK v \in Code : VkNow(k) = {v} \/ VkNow(k) = {}
    BY OneCodePerKey
  <2> QED
    BY DEF PressChord, ChordHeld, KeyboardIInv, KeyboardTypes
<1>2. CASE ReleaseKeys /\ focus' = "left"
  BY <1>1, <1>2, KeysReleased DEF KeyboardIInv, KeyboardTypes
<1>3. CASE UNCHANGED <<focus, recorded, remote, history>>
  <2>1. HostFollowsKeys'
    BY <1>3, KeysHeld, KeysHeldNext DEF KeyboardIInv, history
  <2> QED
    BY <1>1, <1>3, <2>1 DEF KeyboardIInv, KeyboardTypes, history
<1> QED
  BY <1>2, <1>3 DEF PressChord

(* Every kind of release takes the key off the ones that are held.         *)
LEMMA ReleasesFollow ==
  ASSUME KeyboardIInv, NEW k \in PhysicalKey,
         ReleaseSwallowed(k) \/ Release(k) \/ ReleaseUntyped(k)
  PROVE  KeyboardIInv'
<1> PICK v \in Code : OwnVk(k) = {v} /\ (VkNow(k) = {v} \/ (VkNow(k) = {} /\ v \in {50, 54}))
  BY OneCodePerKey
<1>1. /\ pressing' = pressing \ {k} /\ UNCHANGED <<modifiers, focus>>
      /\ swallowing' \subseteq swallowing
  BY DEF ReleaseSwallowed, Release, ReleaseUntyped
<1>2. /\ CodesOf(pressing') \subseteq CodesOf(pressing) \ {v}
      /\ CodesOf(pressing) \subseteq CodesOf(pressing') \cup {v}
  BY <1>1, HeldWithout DEF KeyboardIInv, KeyboardTypes
<1>3. \/ /\ HostHolds(remote \ {v}, unsent, swallowed, untyped)
         /\ recorded' = recorded \ {v}
      \/ /\ \/ HostHolds(remote, unsent \cup {v}, swallowed, untyped)
            \/ HostHolds(remote, unsent, swallowed \cup {v}, untyped)
            \/ v \in {50, 54} /\ HostHolds(remote, unsent, swallowed, untyped \cup {v})
         /\ UNCHANGED recorded
  BY DEF ReleaseSwallowed, Release, ReleaseUntyped
<1>4. HostFollowsKeys'
  BY <1>2, <1>3, KeysHeld, KeysHeldNext DEF KeyboardIInv, HostHolds
<1>5. KeyboardTypes' /\ (remote \subseteq recorded \cup unsent)'
  BY <1>1, <1>3 DEF KeyboardIInv, KeyboardTypes, HostHolds
<1> QED
  BY <1>4, <1>5 DEF KeyboardIInv

LEMMA NothingHeld ==
  ASSUME recorded' = {}, swallowing' = {}, remote' = {}, pressing' = {}, unsent' = {},
         swallowed' = {}, untyped' = {},
         modifiers' \subseteq Modifier, focus' = "stream"
  PROVE  KeyboardIInv'
<1>1. CodesOf(pressing') = {}
  BY DEF CodesOf
<1> QED
  BY <1>1, KeysHeldNext DEF KeyboardIInv, KeyboardTypes

LEMMA KeyboardInductive == KeyboardSpec => []KeyboardIInv
<1>1. KeyboardInit => KeyboardIInv
  <2> SUFFICES ASSUME KeyboardInit PROVE KeyboardIInv
    OBVIOUS
  <2>1. CodesOf(pressing) = {}
    BY DEF KeyboardInit, CodesOf
  <2> QED
    BY <2>1, KeysHeld DEF KeyboardInit, KeyboardIInv, KeyboardTypes
<1>2. KeyboardIInv /\ [KeyboardNext]_keyboard => KeyboardIInv'
  <2> SUFFICES ASSUME KeyboardIInv, [KeyboardNext]_keyboard PROVE KeyboardIInv'
    OBVIOUS
  <2>1. CASE ModifiersChange \/ FocusBack \/ UNCHANGED keyboard
    <3>1. UNCHANGED <<recorded, swallowing, remote, history>>
      BY <2>1 DEF ModifiersChange, FocusBack, keyboard
    <3>2. HostFollowsKeys'
      BY <3>1, KeysHeld, KeysHeldNext DEF KeyboardIInv, history
    <3>3. modifiers' \subseteq Modifier /\ focus' \in {"stream", "elsewhere", "left"}
      BY <2>1 DEF ModifiersChange, FocusBack, keyboard, KeyboardIInv, KeyboardTypes
    <3> QED
      BY <3>1, <3>2, <3>3 DEF KeyboardIInv, KeyboardTypes, history
  <2>2. CASE FocusGone
    BY <2>2, KeysReleased DEF FocusGone, KeyboardIInv, KeyboardTypes
  <2>3. CASE NextStream
    BY <2>3, NothingHeld DEF NextStream, KeyboardIInv, KeyboardTypes
  <2> QED
    BY <2>1, <2>2, <2>3, PressFollows, ChordFollows, ReleasesFollow DEF KeyboardNext
<1> QED
  BY <1>1, <1>2, PTL DEF KeyboardSpec

(***************************************************************************)
(* For any keys of the layout: the host holds those that are held and no   *)
(* others, whichever modifiers changed between a press and its release,    *)
(* but for releases that failed, that a chord took, and of 2 and 6 under   *)
(* Ctrl (input.rs).                                                        *)
(***************************************************************************)
THEOREM KeysFollowed == KeyboardSpec => []HostFollowsKeys
BY KeyboardInductive, PTL DEF KeyboardIInv

=============================================================================
