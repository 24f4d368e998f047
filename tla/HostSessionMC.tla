----------------------------- MODULE HostSessionMC -----------------------------
(* HostSession, and the controllers of Gamepads, which never meet: each     *)
(* moves while the other has not begun, and what is fair to one asks        *)
(* nothing of it before.  One host of the several that HostSession may      *)
(* begin with is enough beside Gamepads.                                    *)
EXTENDS HostSession, GamepadsMC

MCInit == Init /\ SessionInit

MCNext ==
  \/ Init /\ SessionNext /\ UNCHANGED vars
  \/ SessionInit /\ game = NoApp /\ known /\ Next /\ UNCHANGED session

MCSpec ==
  /\ MCInit
  /\ [][MCNext]_<<vars, session>>
  /\ SessionFairness /\ Fairness
=============================================================================
