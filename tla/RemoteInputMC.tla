---------------------------- MODULE RemoteInputMC -----------------------------
(* RemoteInput with the codes of Z and Q, the keys of two shortcuts; and    *)
(* Keyboard with the keys Z and Q, 2 and -, which type control characters   *)
(* other than a letter's, and Enter, which types none.  The one abstracts   *)
(* from what the other is about: each moves while the other has not begun.  *)
EXTENDS RemoteInput, Keyboard

ZKey == CHOOSE vk \in Vk(122) : TRUE
QKey == CHOOSE vk \in Vk(113) : TRUE
Keys == {ZKey, QKey}
PhysicalKeys == {k \in UsLayout : k[1] \in {122, 113, 50, 45}} \cup {<<13>>}

MCInit == Init /\ KeyboardInit

MCNext ==
  \/ KeyboardInit /\ Next /\ UNCHANGED keyboard
  \/ Init /\ KeyboardNext /\ UNCHANGED vars

MCSpec == MCInit /\ [][MCNext]_<<vars, keyboard>>
=============================================================================
