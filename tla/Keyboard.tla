------------------------------- MODULE Keyboard -------------------------------
(***************************************************************************)
(* The keys of a keyboard as a stream's host sees them                     *)
(* (moonlight/src/input.rs).  A press and a release are each translated by *)
(* the modifiers held at that moment; Shift, Ctrl and Alt go down and up   *)
(* in between, the focus moves to another window and back, a chord takes   *)
(* the events of its key, and any packet may fail.                         *)
(*                                                                         *)
(* The handlers run on the window's thread, each in one step here;         *)
(* RemoteInput has the worker that resets the record in their middle.      *)
(***************************************************************************)
EXTENDS KeyCodes

CONSTANT PhysicalKey

ASSUME KeyboardAssumption == PhysicalKey \subseteq UsLayout \cup NamedKey

VARIABLES
  modifiers,   \* those that are held
  focus,       \* where key events go: stream, elsewhere (another window), left (page left)
  recorded,    \* PressedInput.keys
  swallowing,  \* PressedInput.suppressed_shortcut_keys
  remote,      \* the codes that the host holds down
  pressing,    \* history: keys whose press was sent and which were not released since
  unsent,      \* history: what the host holds because the packet of its release failed,
  swallowed,   \* because its release was taken for a chord's,
  untyped      \* because its release typed a character without a code

history == <<pressing, unsent, swallowed, untyped>>
keyboard == <<modifiers, focus, recorded, swallowing, remote, history>>

Modifier == {"Shift", "Ctrl", "Alt"}
DisconnectVk == 81
ChordVk == {90, DisconnectVk, 88}  \* Z, Q, X
Code == {q[2] : q \in CharToVk} \cup NamedVk

KeyboardTypes ==
  /\ modifiers \subseteq Modifier
  /\ focus \in {"stream", "elsewhere", "left"}
  /\ recorded \subseteq Code /\ swallowing \subseteq ChordVk /\ remote \subseteq Code
  /\ pressing \subseteq PhysicalKey
  /\ unsent \subseteq remote /\ swallowed \subseteq remote /\ untyped \subseteq remote

KeyboardInit ==
  /\ modifiers = {}
  /\ focus = "stream"
  /\ recorded = {} /\ swallowing = {} /\ remote = {}
  /\ pressing = {} /\ unsent = {} /\ swallowed = {} /\ untyped = {}

-----------------------------------------------------------------------------
(* The character that a key types now, and the code of it, if any.         *)
Typed(k) ==
  IF "Ctrl" \in modifiers /\ k[3] # k[1] THEN k[3]
  ELSE IF "Shift" \in modifiers THEN k[2] ELSE k[1]
VkNow(k) == IF k \in NamedKey THEN {k[1]} ELSE Vk(Typed(k))

(* The code of a key by itself.                                            *)
OwnVk(k) == IF k \in NamedKey THEN {k[1]} ELSE Vk(k[1])

(* The host holds these codes now; some of them for no good reason.        *)
HostHolds(codes, failed, taken, mute) ==
  /\ remote' = codes
  /\ unsent' = failed \cap codes
  /\ swallowed' = taken \cap codes
  /\ untyped' = mute \cap codes

(* release_all empties the record first; each packet may fail.             *)
ReleaseKeys ==
  /\ \E failed \in SUBSET recorded :
       HostHolds(remote \ (recorded \ failed), unsent \cup failed, swallowed, untyped)
  /\ recorded' = {}
  /\ pressing' = {}

-----------------------------------------------------------------------------
(* Key events                                                              *)

ChordHeld(k) == Modifier \subseteq modifiers /\ VkNow(k) \cap ChordVk # {}

(* A press, the first one or a repeated one, is sent and then recorded.    *)
Press(k) ==
  /\ focus = "stream" /\ ~ChordHeld(k)
  /\ \E vk \in VkNow(k) :
       /\ HostHolds(remote \cup {vk}, unsent \ {vk}, swallowed \ {vk}, untyped \ {vk})
       /\ recorded' = recorded \cup {vk}
  /\ pressing' = pressing \cup {k}
  /\ UNCHANGED <<modifiers, focus, swallowing>>

(* Ctrl+Alt+Shift with Z, Q or X.  Repeated presses do nothing more.       *)
PressChord(k) ==
  /\ focus = "stream" /\ ChordHeld(k)
  /\ swallowing' = swallowing \cup VkNow(k)
  /\ IF VkNow(k) \subseteq {DisconnectVk} \ swallowing
     THEN ReleaseKeys /\ focus' = "left"
     ELSE UNCHANGED <<focus, recorded, remote, history>>
  /\ UNCHANGED modifiers

(* The release after a chord is consumed once, whatever is held by then.   *)
ReleaseSwallowed(k) ==
  /\ focus = "stream" /\ VkNow(k) \cap swallowing # {}
  /\ swallowing' = swallowing \ VkNow(k)
  /\ HostHolds(remote, unsent, swallowed \cup VkNow(k), untyped)
  /\ pressing' = pressing \ {k}
  /\ UNCHANGED <<modifiers, focus, recorded>>

(* A release that could not be sent stays recorded.                        *)
Release(k) ==
  /\ focus = "stream" /\ VkNow(k) \cap swallowing = {}
  /\ \E vk \in VkNow(k) :
       \/ /\ HostHolds(remote \ {vk}, unsent, swallowed, untyped)
          /\ recorded' = recorded \ {vk}
       \/ /\ HostHolds(remote, unsent \cup {vk}, swallowed, untyped)
          /\ UNCHANGED recorded
  /\ pressing' = pressing \ {k}
  /\ UNCHANGED <<modifiers, focus, swallowing>>

(* A release whose character has no code is not sent.                      *)
ReleaseUntyped(k) ==
  /\ focus = "stream" /\ VkNow(k) = {}
  /\ HostHolds(remote, unsent, swallowed, untyped \cup OwnVk(k))
  /\ pressing' = pressing \ {k}
  /\ UNCHANGED <<modifiers, focus, recorded, swallowing>>

-----------------------------------------------------------------------------
(* What happens in between                                                 *)

(* Shift, Ctrl or Alt is pressed or released, in any window.               *)
ModifiersChange ==
  /\ \E m \in Modifier :
       modifiers' = IF m \in modifiers THEN modifiers \ {m} ELSE modifiers \cup {m}
  /\ UNCHANGED <<focus, recorded, swallowing, remote, history>>

(* Another window has the focus: keys that are down are released there.    *)
FocusGone ==
  /\ focus = "stream"
  /\ ReleaseKeys
  /\ focus' = "elsewhere"
  /\ UNCHANGED <<modifiers, swallowing>>

FocusBack ==
  /\ focus = "elsewhere"
  /\ focus' = "stream"
  /\ UNCHANGED <<modifiers, recorded, swallowing, remote, history>>

(* The stream has ended, the record is reset, and another one is shown.    *)
NextStream ==
  /\ focus' = "stream"
  /\ recorded' = {} /\ swallowing' = {} /\ remote' = {}
  /\ pressing' = {} /\ unsent' = {} /\ swallowed' = {} /\ untyped' = {}
  /\ UNCHANGED modifiers

KeyboardNext ==
  \/ \E k \in PhysicalKey :
       \/ Press(k) \/ PressChord(k)
       \/ ReleaseSwallowed(k) \/ Release(k) \/ ReleaseUntyped(k)
  \/ ModifiersChange \/ FocusGone \/ FocusBack \/ NextStream

KeyboardSpec == KeyboardInit /\ [][KeyboardNext]_keyboard

-----------------------------------------------------------------------------
(***************************************************************************)
(* The host holds the keys that are held, and no others, whichever of      *)
(* Shift, Ctrl and Alt went down or up between a press and its release:    *)
(* a key is released under the code it was pressed with, and by no other   *)
(* key (input.rs:130, 140, 288-323).  Exempt are codes whose release       *)
(* failed, those whose release a chord took, and 2 and 6 released while    *)
(* Ctrl made a character without a code of them.                           *)
(***************************************************************************)
HostFollowsKeys ==
  LET Held == UNION {OwnVk(k) : k \in pressing} IN
  /\ Held \subseteq remote
  /\ remote \subseteq Held \cup unsent \cup swallowed \cup untyped
  /\ untyped \subseteq {50, 54}
=============================================================================
