---------------------------- MODULE GamepadsProofs ----------------------------
(***************************************************************************)
(* The controllers' safety for any number of slots, devices and states.    *)
(* The slot a step works on is the least element of a set of slots, which  *)
(* exists because the order of the naturals is well-founded.  And what the *)
(* host is told of a controller, for every button, trigger and stick value.*)
(***************************************************************************)
EXTENDS GamepadsMC, FiniteSetTheorems, WellFoundedInduction, TLAPS

LEMMA FirstSlot ==
  ASSUME NEW S \in SUBSET Slot, S # {}
  PROVE  First(S) \in S
<1> DEFINE Less == {p \in Nat \X Nat : p[1] < p[2]}
<1>1. S \subseteq Nat
  BY GamepadAssumption DEF Slot
<1>2. IsWellFoundedOn(Less, Nat)
  BY NatLessThanWellFounded, Zenon DEF OpToRel
<1>3. PICK s \in S : \A t \in S : <<t, s>> \notin Less
  <2> HIDE DEF Less
  <2> QED
    BY <1>1, <1>2, WFMin
<1>4. \A t \in S : s <= t
  <2> SUFFICES ASSUME NEW t \in S, t < s PROVE FALSE
    BY <1>1
  <2>1. <<t, s>> \in Less
    BY <1>1
  <2> QED
    BY <2>1, <1>3
<1> QED
  BY <1>4 DEF First

(* What a controller is, apart from the absence of one.                    *)
LEMMA Pads ==
  /\ None \notin Pad
  /\ \A p \in Pad : p.id \in Device /\ p.state \in State /\ p.id # None.id
  /\ \A d \in Device, x \in State :
       /\ [id |-> d, state |-> x] \in Pad
       /\ [id |-> d, state |-> x].id = d
       /\ [id |-> d, state |-> x].state = x
BY GamepadAssumption DEF None, Pad

LEMMA WantedPad ==
  ASSUME TypeOK, NEW s \in Used(devices)
  PROVE  /\ Wanted(s) \in Pad
         /\ Wanted(s).id = devices[s].id
<1>1. s \in Slot /\ devices[s] \in Pad
  BY DEF Used, TypeOK
<1>2. \A x \in State : SwapAB(x) \in State
  BY GamepadAssumption
<1> QED
  BY <1>1, <1>2 DEF Wanted, Pad

(* A step that sets one slot's sent controller from its device, once no    *)
(* old identity is left, keeps players distinct.                           *)
LEMMA TellOne ==
  ASSUME TypeOK, OnePlayerEach, Leaving = {}, NEW s \in Used(devices),
         NEW p \in Pad, p.id = devices[s].id,
         sent' = [sent EXCEPT ![s] = p], devices' = devices
  PROVE  OnePlayerEach'
<1>1. s \in Slot
  BY DEF Used
<1>2. ASSUME NEW t \in Slot, sent[t] # None
      PROVE  sent[t].id = devices[t].id /\ devices[t] # None
  <2>1. sent[t].id = devices[t].id
    BY <1>2 DEF Leaving, Used
  <2>2. sent[t] \in Pad
    BY <1>2 DEF TypeOK
  <2> QED
    BY <2>1, <2>2, Pads
<1>3. ASSUME NEW t \in Slot, sent'[t] # None
      PROVE  sent'[t].id = devices[t].id /\ devices[t] # None
  BY <1>1, <1>2, <1>3, Pads DEF TypeOK, Used
<1>4. ASSUME NEW t \in Slot, NEW u \in Slot,
             sent'[t] # None, sent'[u] # None, sent'[t].id = sent'[u].id
      PROVE  t = u
  BY <1>3, <1>4 DEF OnePlayerEach, Distinct
<1>5. \A t, u \in Slot :
        devices[t] # None /\ devices[u] # None /\ devices[t].id = devices[u].id => t = u
  BY DEF OnePlayerEach, Distinct
<1>6. Distinct(sent)'
  BY <1>4 DEF Distinct
<1> QED
  BY <1>5, <1>6 DEF Distinct, OnePlayerEach

-----------------------------------------------------------------------------
Linked ==
  /\ syncing => link = "up"
  /\ link # "up" => remote = Deserted
  /\ link = "launching" => sent = Nothing
IInv == TypeOK /\ SentIsRemote /\ OnePlayerEach /\ Linked

LEMMA InitIInv == Init => IInv
<1> SUFFICES ASSUME Init PROVE IInv
  OBVIOUS
<1>1. TypeOK
  <2>1. swapAB \in BOOLEAN
    BY DEF Init
  <2> QED
    BY <2>1 DEF Init, TypeOK, Nothing, Deserted
<1>2. SentIsRemote /\ OnePlayerEach /\ Linked
  BY DEF Init, Nothing, SentIsRemote, OnePlayerEach, Distinct, Linked
<1> QED
  BY <1>1, <1>2 DEF IInv

(* Observing devices touches nothing that was sent, and may begin a sync.  *)
LEMMA OnGamepadPreserves ==
  ASSUME IInv, NEW update \in [Slot -> Pad \cup {None}], Distinct(update),
         OnGamepad(update)
  PROVE  IInv'
<1> USE DEF IInv
<1>1. /\ devices' = update
      /\ syncing' = (Streaming /\ routed)
      /\ UNCHANGED <<sent, swapAB, link, remote, screen>>
  BY DEF OnGamepad
<1>2. TypeOK'
  <2>1. syncing' \in BOOLEAN
    BY <1>1, Zenon
  <2> QED
    BY <1>1, <2>1 DEF TypeOK, screen
<1>3. OnePlayerEach'
  BY <1>1 DEF OnePlayerEach, Distinct
<1>4. Linked'
  BY <1>1 DEF Linked, Streaming
<1> QED
  BY <1>1, <1>2, <1>3, <1>4 DEF SentIsRemote

LEMMA ResetPreserves ==
  ASSUME IInv, NEW d \in Device, ObserveReset(d)
  PROVE  IInv'
<1> DEFINE update == [s \in Slot |-> IF s \in SlotOf(d) THEN None ELSE devices[s]]
<1>1. update \in [Slot -> Pad \cup {None}]
  BY DEF IInv, TypeOK
<1>2. Distinct(update)
  BY DEF IInv, OnePlayerEach, Distinct
<1>3. OnGamepad(update)
  BY DEF ObserveReset
<1> HIDE DEF update
<1> QED
  BY <1>1, <1>2, <1>3, OnGamepadPreserves

LEMMA ObservePreserves ==
  ASSUME IInv, NEW d \in Device, NEW x \in State, Observe(d, x)
  PROVE  IInv'
<1> USE DEF IInv
<1> DEFINE slots == IF SlotOf(d) # {} THEN SlotOf(d) ELSE Free
           s == First(slots)
           update == [devices EXCEPT ![s] = [id |-> d, state |-> x]]
<1>1. CASE slots = {}
  <2>1. OnGamepad(devices)
    BY <1>1 DEF Observe
  <2> QED
    BY <2>1, OnGamepadPreserves DEF TypeOK, OnePlayerEach
<1>2. CASE slots # {}
  <2>1. slots \in SUBSET Slot
    BY DEF SlotOf, Free, Used
  <2>2. s \in slots
    BY <1>2, <2>1, FirstSlot
  <2>3. OnGamepad(update)
    BY <1>2 DEF Observe
  <2>4. \A t \in Slot : devices[t] # None /\ devices[t].id = d => t = s
    <3> SUFFICES ASSUME NEW t \in Slot, devices[t] # None, devices[t].id = d PROVE t = s
      OBVIOUS
    <3>1. t \in SlotOf(d)
      BY DEF SlotOf, Used
    <3>2. s \in SlotOf(d)
      BY <2>2, <3>1
    <3> QED
      BY <3>1, <3>2 DEF SlotOf, Used, OnePlayerEach, Distinct
  <2>5. s \in Slot
    BY <2>1, <2>2
  <2>6. [id |-> d, state |-> x] \in Pad /\ [id |-> d, state |-> x].id = d
    BY Pads
  <2>7. /\ update \in [Slot -> Pad \cup {None}]
        /\ update[s].id = d
        /\ \A t \in Slot \ {s} : update[t] = devices[t]
    <3> HIDE DEF s, slots
    <3> QED
      BY <2>5, <2>6 DEF TypeOK
  <2> HIDE DEF s, slots, update
  <2>8. Distinct(update)
    BY <2>4, <2>7 DEF OnePlayerEach, Distinct
  <2> QED
    BY <2>3, <2>7, <2>8, OnGamepadPreserves
<1> QED
  BY <1>1, <1>2

-----------------------------------------------------------------------------
(* The packets of one sync.                                                *)
LEMMA RemovePreserves == ASSUME IInv, Remove PROVE IInv'
<1> USE DEF IInv
<1> DEFINE s == First(Leaving)
<1>1. s \in Leaving
  BY FirstSlot DEF Remove, Leaving, Used
<1>2. s \in Slot /\ sent[s] # None
  BY <1>1 DEF Leaving, Used
<1>3. /\ sent' = [sent EXCEPT ![s] = None]
      /\ remote' = [t \in Slot |->
           IF t \notin Used(sent) \ {s} THEN Absent
           ELSE IF t = s THEN Neutral
           ELSE IF remote[t] = Absent THEN Neutral ELSE remote[t]]
      /\ UNCHANGED <<devices, swapAB, link, syncing, page, routed>>
  BY DEF Remove, Deliver, screen
<1> HIDE DEF s
<1>4. TypeOK'
  BY <1>2, <1>3, GamepadAssumption DEF TypeOK
<1>5. SentIsRemote'
  BY <1>2, <1>3, Pads, GamepadAssumption DEF TypeOK, SentIsRemote, Used, Linked, Remove
<1>6. OnePlayerEach'
  BY <1>2, <1>3 DEF TypeOK, OnePlayerEach, Distinct
<1>7. Linked'
  BY <1>3 DEF Remove, Linked
<1> QED
  BY <1>4, <1>5, <1>6, <1>7

LEMMA ArrivePreserves == ASSUME IInv, Arrive PROVE IInv'
<1> USE DEF IInv
<1> DEFINE s == First(Behind)
           p == [id |-> devices[s].id, state |-> Neutral]
<1>1. s \in Behind
  BY FirstSlot DEF Arrive, Behind, Used
<1>2. s \in Used(devices) /\ s \in Slot /\ devices[s] \in Pad
  BY <1>1 DEF Behind, Used, TypeOK
<1>3. p \in Pad /\ p.id = devices[s].id /\ p.state = Neutral
  BY <1>2, Pads, GamepadAssumption
<1>4. /\ sent' = [sent EXCEPT ![s] = p]
      /\ remote' = [t \in Slot |->
           IF t \notin Used(sent) \cup {s} THEN Absent
           ELSE IF t = s THEN Neutral
           ELSE IF remote[t] = Absent THEN Neutral ELSE remote[t]]
      /\ UNCHANGED <<devices, swapAB, link, syncing, page, routed>>
  BY DEF Arrive, Deliver, screen
<1> HIDE DEF s, p
<1>5. TypeOK'
  BY <1>2, <1>3, <1>4, GamepadAssumption DEF TypeOK
<1>6. SentIsRemote'
  BY <1>2, <1>3, <1>4, Pads, GamepadAssumption DEF TypeOK, SentIsRemote, Used, Linked, Arrive
<1>7. OnePlayerEach'
  BY <1>2, <1>3, <1>4, TellOne DEF Arrive
<1>8. Linked'
  BY <1>4 DEF Arrive, Linked
<1> QED
  BY <1>5, <1>6, <1>7, <1>8

LEMMA UpdatePreserves == ASSUME IInv, Update PROVE IInv'
<1> USE DEF IInv
<1> DEFINE s == First(Behind)
           p == Wanted(s)
<1>1. s \in Behind
  BY FirstSlot DEF Update, Behind, Used
<1>2. s \in Used(devices) /\ s \in Slot /\ sent[s] # None
  BY <1>1 DEF Behind, Used, Update
<1>3. p \in Pad /\ p.id = devices[s].id
  BY <1>2, WantedPad
<1>4. /\ sent' = [sent EXCEPT ![s] = p]
      /\ remote' = [t \in Slot |->
           IF t \notin Used(sent) THEN Absent
           ELSE IF t = s THEN p.state
           ELSE IF remote[t] = Absent THEN Neutral ELSE remote[t]]
      /\ UNCHANGED <<devices, swapAB, link, syncing, page, routed>>
  BY DEF Update, Deliver, screen
<1> HIDE DEF s, p
<1>5. TypeOK'
  BY <1>2, <1>3, <1>4, Pads, GamepadAssumption DEF TypeOK
<1>6. SentIsRemote'
  BY <1>2, <1>3, <1>4, Pads, GamepadAssumption DEF TypeOK, SentIsRemote, Used, Linked, Update
<1>7. OnePlayerEach'
  BY <1>2, <1>3, <1>4, TellOne DEF Update
<1>8. Linked'
  BY <1>4 DEF Update, Linked
<1> QED
  BY <1>5, <1>6, <1>7, <1>8

LEMMA IInvHolds == Spec => []IInv
<1>1. IInv /\ [Next]_vars => IInv'
  <2> SUFFICES ASSUME IInv, [Next]_vars PROVE IInv'
    OBVIOUS
  <2> USE DEF IInv
  <2>1. ASSUME NEW d \in Device, ObserveReset(d) \/ \E x \in State : Observe(d, x)
        PROVE  IInv'
    BY <2>1, ResetPreserves, ObservePreserves
  <2>2. CASE SetSwapAB
    <3>1. swapAB' \in BOOLEAN
      BY <2>2 DEF SetSwapAB
    <3> QED
      BY <2>2, <3>1 DEF SetSwapAB, TypeOK, SentIsRemote, OnePlayerEach, Distinct, Linked, screen
  <2>3. CASE WindowSync
    <3>1. routed' \in BOOLEAN /\ syncing' \in BOOLEAN
      <4>1. Streaming \in BOOLEAN
        BY DEF Streaming, TypeOK
      <4>2. routed' \in {routed, Streaming} /\ syncing' = (Streaming /\ routed')
        BY <2>3, Zenon DEF WindowSync
      <4>3. routed' \in BOOLEAN
        BY <4>1, <4>2, Zenon DEF TypeOK
      <4> QED
        BY <4>1, <4>2, <4>3, Zenon
    <3>2. syncing' => link = "up"
      BY <2>3 DEF WindowSync, Streaming
    <3>3. UNCHANGED <<devices, sent, swapAB, link, remote, page>>
      BY <2>3 DEF WindowSync
    <3> QED
      BY <3>1, <3>2, <3>3 DEF TypeOK, SentIsRemote, OnePlayerEach, Distinct, Linked
  <2>4. CASE Synced \/ SendFails
    <3>1. CASE Synced
      BY <3>1 DEF Synced, TypeOK, SentIsRemote, OnePlayerEach, Distinct, Linked, screen
    <3>2. CASE SendFails
      BY <3>2 DEF SendFails, TypeOK, SentIsRemote, OnePlayerEach, Distinct, Linked, screen
    <3> QED
      BY <2>4, <3>1, <3>2
  <2>5. CASE ReleaseAll
    <3>1. syncing' \in BOOLEAN /\ page' \in BOOLEAN
      <4>1. syncing \in BOOLEAN /\ page \in BOOLEAN
        BY Zenon DEF TypeOK
      <4>2. syncing' \in {TRUE, syncing} /\ page' \in {page, FALSE}
        BY <2>5, Zenon DEF ReleaseAll
      <4> QED
        BY <4>1, <4>2, Zenon
    <3>2. Nothing \in [Slot -> Pad \cup {None}] /\ \A s \in Slot : Nothing[s] = None
      BY DEF Nothing
    <3> QED
      BY <2>5, <3>1, <3>2 DEF ReleaseAll, TypeOK, SentIsRemote, OnePlayerEach, Distinct, Linked
  <2>6. CASE Remove \/ Arrive \/ Update
    BY <2>6, RemovePreserves, ArrivePreserves, UpdatePreserves
  <2>7. CASE Launch \/ ResetSession
    BY <2>7 DEF Launch, ResetSession, Nothing, TypeOK, SentIsRemote, OnePlayerEach, Distinct, Linked, screen
  <2>8. CASE StreamStarts \/ StreamEnds
    <3>1. link' \in {"none", "up"} /\ page' \in BOOLEAN /\ routed' = routed
      BY <2>8 DEF StreamStarts, StreamEnds, TypeOK, screen
    <3> QED
      BY <2>8, <3>1
         DEF StreamStarts, StreamEnds, Deserted, Nothing, TypeOK, SentIsRemote, OnePlayerEach, Distinct, Linked
  <2>9. CASE LeavePage
    BY <2>9 DEF LeavePage, TypeOK, SentIsRemote, OnePlayerEach, Distinct, Linked
  <2>10. CASE UNCHANGED vars
    BY <2>10 DEF vars, screen, TypeOK, SentIsRemote, OnePlayerEach, Distinct, Linked
  <2> QED
    BY <2>1, <2>2, <2>3, <2>4, <2>5, <2>6, <2>7, <2>8, <2>9, <2>10 DEF Next, SyncStep
<1> QED
  BY InitIInv, <1>1, PTL DEF Spec

-----------------------------------------------------------------------------
(* The two tables and the host's controllers always hold what they should, *)
(* also between the packets of a sync.                                     *)
THEOREM TypeCorrect == Spec => []TypeOK
<1>1. IInv => TypeOK
  BY DEF IInv
<1> QED
  BY IInvHolds, <1>1, PTL

(* For any number of slots and devices the host has exactly the            *)
(* controllers that sync committed.                                        *)
THEOREM HostMirrored == Spec => []SentIsRemote
<1>1. IInv => SentIsRemote
  BY DEF IInv
<1> QED
  BY IInvHolds, <1>1, PTL

(* A physical controller is never two players.                             *)
THEOREM PlayersDistinct == Spec => []OnePlayerEach
<1>1. IInv => OnePlayerEach
  BY DEF IInv
<1> QED
  BY IInvHolds, <1>1, PTL

(* A player's place is never handed over to another controller without the *)
(* first one leaving: only an update rewrites a slot that was announced,   *)
(* and by then every old identity has left.                                *)
THEOREM PlacesKept == Spec => NoHandover
<1> DEFINE Kept == \A s \in Slot : sent[s] # None /\ sent'[s] # None => sent'[s].id = sent[s].id
<1>1. ASSUME IInv, [Next]_vars PROVE Kept
  <2> USE <1>1 DEF IInv, TypeOK
  <2>1. CASE UNCHANGED sent
    BY <2>1
  <2>2. CASE sent' = Nothing
    BY <2>2 DEF Nothing
  <2>3. CASE Remove
    BY <2>3 DEF Remove
  <2>4. CASE Arrive
    BY <2>4 DEF Arrive
  <2>5. CASE Update
    <3>1. First(Behind) \in Behind
      BY <2>5, FirstSlot DEF Update, Behind, Used
    <3>2. First(Behind) \in Used(devices) /\ First(Behind) \in Slot
      BY <3>1 DEF Behind, Used
    <3>3. sent[First(Behind)] # None => sent[First(Behind)].id = devices[First(Behind)].id
      BY <2>5, <3>2 DEF Update, Leaving, Used
    <3>4. Wanted(First(Behind)).id = devices[First(Behind)].id
      BY <3>2, WantedPad
    <3>5. sent' = [sent EXCEPT ![First(Behind)] = Wanted(First(Behind))]
      BY <2>5 DEF Update
    <3> QED
      BY <3>2, <3>3, <3>4, <3>5
  <2>6. UNCHANGED sent \/ sent' = Nothing \/ Remove \/ Arrive \/ Update
    BY DEF Next, vars, SyncStep, OnGamepad, Observe, ObserveReset, SetSwapAB, WindowSync,
           ReleaseAll, Synced, SendFails, Launch, StreamStarts, StreamEnds, ResetSession,
           LeavePage
  <2> QED
    BY <2>1, <2>2, <2>3, <2>4, <2>5, <2>6
<1> QED
  BY IInvHolds, <1>1, PTL DEF Spec, NoHandover

-----------------------------------------------------------------------------
(***************************************************************************)
(* What the host is told of a controller.  That no two ways to hold one    *)
(* are told alike is counted by ToldApart; proved is that the translation  *)
(* can be undone: each button of the host stands for one of the platform.  *)
(***************************************************************************)

(* Division by the width of an axis, as inequalities.                      *)
LEMMA Quotient ==
  ASSUME NEW n \in Int
  PROVE  LET q == n \div 32767
         IN  q \in Int /\ q * 32767 <= n /\ n <= q * 32767 + 32766
OBVIOUS

(* Rounding up from the middle is at most half a step off.                 *)
LEMMA HalfStep ==
  ASSUME NEW v \in Int, NEW q \in Int,
         q * 32767 <= v * 255 + 16383, v * 255 + 16383 <= q * 32767 + 32766
  PROVE  Nearest(v, q)
BY DEF Nearest

(* How a trigger's value is cut off at the top, whatever the top is.       *)
LEMMA CutOff ==
  ASSUME NEW top \in Int, top > 0, NEW end \in Int, NEW v
  PROVE  /\ v \in 0 .. top => v \in Int /\ (IF v > top THEN top ELSE v) = v
         /\ v \in top .. end => v # 0 /\ (IF v > top THEN top ELSE v) = top
OBVIOUS

LEMMA TriggersAreRounded == TriggersRounded
<1> DEFINE top == 32767
           end == 65535
           q(v) == (v * 255 + 16383) \div 32767
<1>1. top \in Int /\ top > 0 /\ end \in Int
  OBVIOUS
<1>2. Travel = 0 .. top /\ Beyond = top .. end
  BY SMTT(60) DEF Travel, Beyond
<1>3. ASSUME NEW v, NEW digital \in BOOLEAN, digital => v # 0
      PROVE  Trigger(v, digital) = q(IF v > top THEN top ELSE v)
  BY <1>3 DEF Trigger
<1>4. ASSUME NEW v \in Int
      PROVE  Nearest(v, q(v))
  BY Quotient, HalfStep
<1>5. q(top) = 255
  BY SMTT(60)
<1> HIDE DEF top, end, q
<1>6. ASSUME NEW v \in Travel
      PROVE  Nearest(v, Trigger(v, FALSE))
  <2>1. v \in Int /\ (IF v > top THEN top ELSE v) = v
    BY <1>1, <1>2, CutOff
  <2>2. Trigger(v, FALSE) = q(v)
    BY <1>3, <2>1
  <2> QED
    BY <1>4, <2>1, <2>2
<1>7. ASSUME NEW v \in Beyond
      PROVE  Trigger(v, TRUE) = 255
  <2>1. v # 0 /\ (IF v > top THEN top ELSE v) = top
    BY <1>1, <1>2, CutOff
  <2> QED
    BY <1>3, <1>5, <2>1
<1> QED
  BY <1>6, <1>7 DEF TriggersRounded

(* On an axis from -hi - 1 to hi, a negation that stops at hi keeps to the *)
(* axis and turns the sign.                                                *)
LEMMA NegationTurns ==
  ASSUME NEW lo \in Int, NEW hi \in Int, hi > 0, lo = -hi - 1, NEW y \in lo .. hi
  PROVE  LET t == IF y = lo THEN hi ELSE -y
         IN  t \in lo .. hi /\ (t > 0 <=> y < 0) /\ (t < 0 <=> y > 0)
OBVIOUS

LEMMA SticksPointUp == UpStaysUp
<1> DEFINE lo == -32768
           hi == 32767
<1>1. lo \in Int /\ hi \in Int /\ hi > 0 /\ lo = -hi - 1
  BY SMTT(60)
<1>2. Axis = lo .. hi
  BY SMTT(60) DEF Axis
<1>3. \A y : SaturatingNeg(y) = IF y = lo THEN hi ELSE -y
  BY SMTT(60) DEF SaturatingNeg
<1> HIDE DEF lo, hi
<1>4. ASSUME NEW y \in Axis
      PROVE  /\ PointAlike(y, Translate(Pushed(y)).left_y)
             /\ PointAlike(y, Translate(Pushed(y)).right_y)
  <2>1. Pushed(y).left_y = y /\ Pushed(y).right_y = y
    BY DEF Pushed, AtRest
  <2>2. /\ Translate(Pushed(y)).left_y = SaturatingNeg(y)
        /\ Translate(Pushed(y)).right_y = SaturatingNeg(y)
    BY <2>1 DEF Translate
  <2>3. PointAlike(y, SaturatingNeg(y))
    BY <1>1, <1>2, <1>3, NegationTurns DEF PointAlike
  <2> QED
    BY <2>2, <2>3
<1> QED
  BY <1>4 DEF UpStaysUp

Directions == {"Left", "Right", "Up", "Down"}

(* The hat's four directions, each from its own half of an axis.           *)
LEMMA HatTells ==
  ASSUME NEW e
  PROVE  /\ Hat(e) \subseteq Directions
         /\ "Left" \in Hat(e) <=> e.hat_x < 0
         /\ "Right" \in Hat(e) <=> e.hat_x > 0
         /\ "Up" \in Hat(e) <=> e.hat_y < 0
         /\ "Down" \in Hat(e) <=> e.hat_y > 0
<1> DEFINE left == e.hat_x < 0
           right == e.hat_x > 0
           up == e.hat_y < 0
           down == e.hat_y > 0
           Pairs == {<<"Left", left>>, <<"Right", right>>, <<"Up", up>>, <<"Down", down>>}
<1>1. Hat(e) = {d[1] : d \in {f \in Pairs : f[2]}}
  BY DEF Hat
<1> HIDE DEF left, right, up, down
<1>2. \A d : d \in Hat(e) <=> \E f \in Pairs : f[2] /\ d = f[1]
  BY <1>1
<1>3. \A d : d \in Hat(e) <=> \/ d = "Left" /\ left
                              \/ d = "Right" /\ right
                              \/ d = "Up" /\ up
                              \/ d = "Down" /\ down
  BY <1>2
<1> QED
  BY <1>3 DEF Directions, left, right, up, down

(* A button of the host is told for one button of the platform only, and   *)
(* no button for a direction.                                              *)
LEMMA ButtonsTell ==
  ASSUME NEW e
  PROVE  /\ \A m \in Mapped : m[2] \in Buttons(e) <=> m[1] \in e.pressed
         /\ \A d \in Directions : d \in Buttons(e) <=> d \in Hat(e)
<1>1. \A b : b \in Buttons(e) <=> b \in Hat(e) \/ \E m \in Mapped : m[1] \in e.pressed /\ b = m[2]
  BY DEF Buttons
<1>2. \A m, n \in Mapped : m[2] = n[2] => m = n
  BY DEF Mapped
<1>3. \A m \in Mapped : m[2] \notin Directions
  BY DEF Mapped, Directions
<1>4. Hat(e) \subseteq Directions
  BY HatTells
<1> QED
  BY <1>1, <1>2, <1>3, <1>4

LEMMA HoldingIs ==
  ASSUME NEW h \in Held
  PROVE  /\ Holding(h).pressed = h.pressed
         /\ Holding(h).hat_x = h.hat_x /\ Holding(h).hat_y = h.hat_y
         /\ Holding(h).left_trigger = 0 /\ Holding(h).right_trigger = 0
BY DEF Holding, AtRest, Held

(* A trigger that reads 0 is told as 255 exactly if its button is down.    *)
LEMMA DigitalTrigger ==
  ASSUME NEW digital \in BOOLEAN
  PROVE  Trigger(0, digital) = 255 <=> digital
<1>1. (0 * 255 + 16383) \div 32767 = 0
  OBVIOUS
<1> QED
  BY <1>1 DEF Trigger

(* The exchange renames two buttons and leaves the triggers alone.         *)
Other(b) == CASE b = "A" -> "B" [] b = "B" -> "A" [] OTHER -> b

LEMMA ExchangeTells ==
  ASSUME NEW e
  PROVE  /\ \A b : Other(b) \in Exchange(Translate(e)).buttons <=> b \in Buttons(e)
         /\ Exchange(Translate(e)).left_trigger = Translate(e).left_trigger
         /\ Exchange(Translate(e)).right_trigger = Translate(e).right_trigger
<1>1. Exchange(Translate(e)).buttons =
        (Buttons(e) \ {"A", "B"}) \cup (IF "A" \in Buttons(e) THEN {"B"} ELSE {})
                                  \cup (IF "B" \in Buttons(e) THEN {"A"} ELSE {})
  BY DEF Exchange, Translate
<1>2. \A b : Other(b) \in Exchange(Translate(e)).buttons <=> b \in Buttons(e)
  BY <1>1 DEF Other
<1>3. /\ Exchange(Translate(e)).left_trigger = Translate(e).left_trigger
      /\ Exchange(Translate(e)).right_trigger = Translate(e).right_trigger
  BY DEF Exchange, Translate
<1> QED
  BY <1>2, <1>3

(* Two ways to hold a controller that the host is told alike are one.      *)
LEMMA SameTold ==
  ASSUME NEW swapped \in BOOLEAN, NEW g \in Held, NEW h \in Held,
         Told(g, swapped) = Told(h, swapped)
  PROVE  g = h
<1>1. /\ Buttons(Holding(g)) = Buttons(Holding(h))
      /\ Translate(Holding(g)).left_trigger = Translate(Holding(h)).left_trigger
      /\ Translate(Holding(g)).right_trigger = Translate(Holding(h)).right_trigger
  <2>1. CASE swapped
    <3>1. Exchange(Translate(Holding(g))) = Exchange(Translate(Holding(h)))
      BY <2>1 DEF Told
    <3> QED
      BY <3>1, ExchangeTells
  <2>2. CASE ~swapped
    <3>1. Translate(Holding(g)) = Translate(Holding(h))
      BY <2>2 DEF Told
    <3>2. \A e : Translate(e).buttons = Buttons(e)
      BY DEF Translate
    <3> QED
      BY <3>1, <3>2
  <2> QED
    BY <2>1, <2>2
<1>2. \A m \in Mapped : m[1] \in g.pressed <=> m[1] \in h.pressed
  BY <1>1, ButtonsTell, HoldingIs
<1>3. g.hat_x = h.hat_x /\ g.hat_y = h.hat_y
  <2>1. \A d \in Directions : d \in Hat(Holding(g)) <=> d \in Hat(Holding(h))
    BY <1>1, ButtonsTell
  <2>2. /\ g.hat_x < 0 <=> h.hat_x < 0
        /\ g.hat_x > 0 <=> h.hat_x > 0
        /\ g.hat_y < 0 <=> h.hat_y < 0
        /\ g.hat_y > 0 <=> h.hat_y > 0
    BY <2>1, HatTells, HoldingIs DEF Directions
  <2> QED
    BY <2>2 DEF Held
<1>4. /\ "LeftTrigger" \in g.pressed <=> "LeftTrigger" \in h.pressed
      /\ "RightTrigger" \in g.pressed <=> "RightTrigger" \in h.pressed
  <2>1. \A k \in Held :
          /\ Translate(Holding(k)).left_trigger = Trigger(0, "LeftTrigger" \in k.pressed)
          /\ Translate(Holding(k)).right_trigger = Trigger(0, "RightTrigger" \in k.pressed)
    BY HoldingIs DEF Translate
  <2>2. ASSUME NEW k \in Held
        PROVE  /\ Translate(Holding(k)).left_trigger = 255 <=> "LeftTrigger" \in k.pressed
               /\ Translate(Holding(k)).right_trigger = 255 <=> "RightTrigger" \in k.pressed
    <3> DEFINE left == "LeftTrigger" \in k.pressed
               right == "RightTrigger" \in k.pressed
    <3>1. left \in BOOLEAN /\ right \in BOOLEAN
      OBVIOUS
    <3>2. /\ Translate(Holding(k)).left_trigger = Trigger(0, left)
          /\ Translate(Holding(k)).right_trigger = Trigger(0, right)
      BY <2>1
    <3> HIDE DEF left, right
    <3>3. /\ Translate(Holding(k)).left_trigger = 255 <=> left
          /\ Translate(Holding(k)).right_trigger = 255 <=> right
      BY <3>1, <3>2, DigitalTrigger
    <3> QED
      BY <3>3 DEF left, right
  <2> QED
    BY <1>1, <2>2
<1>5. g.pressed = h.pressed
  BY <1>2, <1>4 DEF Held, Holdable
<1> QED
  BY <1>3, <1>5 DEF Held

(* There are finitely many ways, so that telling them apart can be counted. *)
LEMMA HeldFinite == IsFiniteSet(Held)
<1> DEFINE Side == {-1, 0, 1}
           Box == ((SUBSET Holdable) \X Side) \X Side
           boxed == [h \in Held |-> <<<<h.pressed, h.hat_x>>, h.hat_y>>]
<1>1. \A S, x : IsFiniteSet(S) => IsFiniteSet(S \cup {x})
  BY FS_AddElement
<1>2. IsFiniteSet({})
  BY FS_EmptySet
<1>3. IsFiniteSet(Holdable)
  <2> DEFINE Face == ((({} \cup {"South"}) \cup {"East"}) \cup {"West"}) \cup {"North"}
             Top == (((Face \cup {"LeftShoulder"}) \cup {"RightShoulder"})
                       \cup {"LeftTrigger"}) \cup {"RightTrigger"}
             All == ((((Top \cup {"Select"}) \cup {"Start"}) \cup {"Home"})
                       \cup {"LeftStick"}) \cup {"RightStick"}
  <2>1. Holdable = All
    BY DEF Holdable, Mapped
  <2>2. IsFiniteSet(All)
    BY <1>1, <1>2, Zenon
  <2> QED
    BY <2>1, <2>2, Zenon
<1>4. IsFiniteSet(Side)
  <2>1. Side = (({} \cup {-1}) \cup {0}) \cup {1}
    OBVIOUS
  <2>2. IsFiniteSet((({} \cup {-1}) \cup {0}) \cup {1})
    BY <1>1, <1>2, Zenon
  <2> QED
    BY <2>1, <2>2
<1>5. IsFiniteSet(Box)
  BY <1>3, <1>4, FS_SUBSET, FS_Product
<1>6. boxed \in Injection(Held, Box)
  BY DEF Held, Injection, IsInjective
<1> QED
  BY <1>5, <1>6, FS_Injection

LEMMA ControlsToldApart == ASSUME NEW swapped \in BOOLEAN PROVE ToldApart(swapped)
<1> DEFINE told == [h \in Held |-> Told(h, swapped)]
           Image == {Told(h, swapped) : h \in Held}
<1>1. told \in Bijection(Held, Image)
  <2>1. told \in [Held -> Image]
    OBVIOUS
  <2>2. \A g, h \in Held : told[g] = told[h] => g = h
    BY SameTold
  <2>3. \A s \in Image : \E h \in Held : told[h] = s
    OBVIOUS
  <2> HIDE DEF told, Image
  <2> QED
    BY <2>1, <2>2, <2>3 DEF Bijection, Injection, Surjection, IsInjective
<1>2. Cardinality(Image) = Cardinality(Held)
  <2> HIDE DEF told, Image
  <2> QED
    BY <1>1, HeldFinite, FS_Bijection DEF ExistsBijection
<1> QED
  BY <1>2 DEF ToldApart

(* With and without the exchange of A and B, the host can tell any two     *)
(* ways to hold a controller apart, reads every trigger to the nearest     *)
(* step and sees every stick point where it is pushed.                     *)
THEOREM HostToldFaithfully == Spec => []ToldFaithfully
<1>1. \A swapped \in BOOLEAN : Faithful[swapped]
  BY ControlsToldApart, TriggersAreRounded, SticksPointUp, Zenon DEF Faithful
<1>2. TypeOK => ToldFaithfully
  BY <1>1 DEF TypeOK, ToldFaithfully
<1> QED
  BY TypeCorrect, <1>2, PTL

=============================================================================
