--------------------------- MODULE ControllerEvents ---------------------------
(***************************************************************************)
(* From a snapshot of a platform controller to the state a host is told    *)
(* (translate in moonlight/src/gamepad.rs), and the exchange of A and B.   *)
(***************************************************************************)
EXTENDS Integers, FiniteSets

(* The platform's button of each of the host's, by position.               *)
Mapped == {
  <<"South", "A">>, <<"East", "B">>, <<"West", "X">>, <<"North", "Y">>,
  <<"LeftShoulder", "LeftShoulder">>, <<"RightShoulder", "RightShoulder">>,
  <<"Select", "Back">>, <<"Start", "Start">>, <<"Home", "Home">>,
  <<"LeftStick", "LeftStick">>, <<"RightStick", "RightStick">> }

Hat(event) ==
  {d[1] : d \in {e \in {<<"Left", event.hat_x < 0>>, <<"Right", event.hat_x > 0>>,
                       <<"Up", event.hat_y < 0>>, <<"Down", event.hat_y > 0>>} : e[2]}}

Buttons(event) ==
  {p[2] : p \in {q \in Mapped : q[1] \in event.pressed}} \cup Hat(event)

(* An axis of 0..32767 in 255 steps; a trigger that is only a button is     *)
(* pulled to the end.                                                      *)
Trigger(value, digital) ==
  IF digital /\ value = 0 THEN 255
  ELSE ((IF value > 32767 THEN 32767 ELSE value) * 255 + 16383) \div 32767

(* Mutant: i16::wrapping_neg.                                              *)
WrappingNeg(y) == IF y = -32768 THEN y ELSE -y

(* i16::saturating_neg.                                                    *)
SaturatingNeg(y) == IF y = -32768 THEN 32767 ELSE -y

Default ==
  [buttons |-> {}, left_trigger |-> 0, right_trigger |-> 0,
   left_x |-> 0, left_y |-> 0, right_x |-> 0, right_y |-> 0]

Translate(event) ==
  [buttons |-> Buttons(event),
   left_trigger |-> Trigger(event.left_trigger, "LeftTrigger" \in event.pressed),
   right_trigger |-> Trigger(event.right_trigger, "RightTrigger" \in event.pressed),
   left_x |-> event.left_x, left_y |-> SaturatingNeg(event.left_y),
   right_x |-> event.right_x, right_y |-> SaturatingNeg(event.right_y)]

(* The setting that exchanges A and B in a state that is sent.             *)
Exchange(state) ==
  [state EXCEPT !.buttons =
    (@ \ {"A", "B"}) \cup (IF "A" \in @ THEN {"B"} ELSE {})
                     \cup (IF "B" \in @ THEN {"A"} ELSE {})]

-----------------------------------------------------------------------------
(* A controller at rest, and what can be held on it.                       *)
AtRest ==
  [pressed |-> {}, hat_x |-> 0, hat_y |-> 0,
   left_trigger |-> 0, right_trigger |-> 0,
   left_x |-> 0, left_y |-> 0, right_x |-> 0, right_y |-> 0]

Holdable == {p[1] : p \in Mapped} \cup {"LeftTrigger", "RightTrigger"}

Held == [pressed : SUBSET Holdable, hat_x : {-1, 0, 1}, hat_y : {-1, 0, 1}]

Holding(h) ==
  [AtRest EXCEPT !.pressed = h.pressed, !.hat_x = h.hat_x, !.hat_y = h.hat_y]

Told(h, swapped) ==
  IF swapped THEN Exchange(Translate(Holding(h))) ELSE Translate(Holding(h))

(* Whatever is held together, the host can tell it from anything else that *)
(* is held: no button covers another, in this layout or exchanged.         *)
ToldApart(swapped) ==
  Cardinality({Told(h, swapped) : h \in Held}) = Cardinality(Held)

(* How far a trigger travels, and what it may read at the end of it.       *)
Travel == 0 .. 32767
Beyond == 32767 .. 65535

(* The value told, in 255ths, is at most half a step off the value read.   *)
Nearest(value, told) ==
  LET error == told * 32767 - value * 255
  IN 2 * error <= 32767 /\ -32767 <= 2 * error

(* A trigger is told to the nearest of the host's 256 steps, from the rest *)
(* at 0 to the end at 255, over the whole width of the value.              *)
TriggersRounded ==
  /\ \A v \in Travel : Nearest(v, Trigger(v, FALSE))
  /\ \A v \in Beyond : Trigger(v, TRUE) = 255

Axis == -32768 .. 32767
Pushed(y) == [AtRest EXCEPT !.left_y = y, !.right_y = y]
PointAlike(y, t) == t \in Axis /\ (t > 0 <=> y < 0) /\ (t < 0 <=> y > 0)

(* The platform's y axis points down and the host's up: what a stick       *)
(* points at is the same on both, to the very end of the axis.             *)
UpStaysUp ==
  \A y \in Axis :
    LET told == Translate(Pushed(y))
    IN PointAlike(y, told.left_y) /\ PointAlike(y, told.right_y)

Faithful ==
  [swapped \in BOOLEAN |-> ToldApart(swapped) /\ TriggersRounded /\ UpStaysUp]
=============================================================================
