------------------------------ MODULE GamepadsMC ------------------------------
(* Gamepads with the states of a controller that rests, and of one whose   *)
(* South or East button is held.                                           *)
EXTENDS Gamepads, ControllerEvents

Resting == Default
States ==
  {Resting} \cup {Translate([AtRest EXCEPT !.pressed = {b}]) : b \in {"South", "East"}}
Exchanged(s) == Exchange(s)

(* With the setting as it is, the host is told what is held on a            *)
(* controller: no control is mistaken for another or lost, triggers are     *)
(* told to the nearest step and sticks point where they are pushed, over    *)
(* the whole width of each value (gamepad.rs: translate, trigger).          *)
ToldFaithfully == Faithful[swapAB]
=============================================================================
