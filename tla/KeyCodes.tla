------------------------------- MODULE KeyCodes -------------------------------
(***************************************************************************)
(* The virtual-key code of a key event (moonlight/src/input.rs).  The      *)
(* platform reports a printable key by the character it types just now,    *)
(* which depends on the modifiers that are held: one key has several.      *)
(* Characters are their code points.                                       *)
(***************************************************************************)
EXTENDS Naturals

(* Mutant: Ctrl+A is counted from zero.                                    *)
ControlVkFromZero == {<<c, c + 65>> : c \in 1 .. 26}

(* Ctrl and a letter.                                                      *)
ControlVk == {<<c, c + 64>> : c \in 1 .. 26}

(* A letter, large or small; a digit, and what Shift makes of 1 ... 9, 0.  *)
PlainVk ==
  {<<c, c - 32>> : c \in 97 .. 122} \cup {<<c, c>> : c \in (65 .. 90) \cup (48 .. 57)}
ShiftVk ==
  {<<33, 49>>, <<64, 50>>, <<35, 51>>, <<36, 52>>, <<37, 53>>,
   <<94, 54>>, <<38, 55>>, <<42, 56>>, <<40, 57>>, <<41, 48>>}

(* The OEM keys in the order of their codes, with Shift and with Ctrl:     *)
(* ;:  =+  ,<  -_  .>  /?  `~  [{  \|  ]}  '"                              *)
OemVk ==
  (({59, 58} \X {186}) \cup ({61, 43} \X {187}) \cup ({44, 60} \X {188}))
  \cup (({45, 95, 31} \X {189}) \cup ({46, 62} \X {190}) \cup ({47, 63} \X {191}))
  \cup (({96, 126} \X {192}) \cup ({91, 123, 27} \X {219}) \cup ({92, 124, 28} \X {220}))
  \cup (({93, 125, 29} \X {221}) \cup ({39, 34} \X {222}))

CharToVk == PlainVk \cup ControlVk \cup ShiftVk \cup OemVk

(* Keys that type nothing: Backspace, Tab, Enter, Escape, Space, the       *)
(* paging and arrow keys, Insert, Delete, F1 ... F24.                      *)
NamedVk == {8, 9, 13, 27, 45, 46} \cup (32 .. 40) \cup (112 .. 135)

(* char_to_vk: the code of a character, if it has one.                     *)
Vk(c) == {p[2] : p \in {q \in CharToVk : q[1] = c}}

-----------------------------------------------------------------------------
(* What the keys of a US keyboard type: alone, with Shift, and with Ctrl,  *)
(* which makes control characters of the keys that bear @, A ... Z, [, \,  *)
(* ], ^ or _, and nothing else of the others.  Ctrl and 2 is the character *)
(* 0, Ctrl and 6 is 30: neither has a code.                                *)
UsLayout ==
  {<<c, c - 32, c - 96>> : c \in 97 .. 122}
  \cup {<<49, 33, 49>>, <<50, 64, 0>>, <<51, 35, 51>>, <<52, 36, 52>>, <<53, 37, 53>>,
        <<54, 94, 30>>, <<55, 38, 55>>, <<56, 42, 56>>, <<57, 40, 57>>, <<48, 41, 48>>}
  \cup {<<59, 58, 59>>, <<61, 43, 61>>, <<44, 60, 44>>, <<45, 95, 31>>, <<46, 62, 46>>,
        <<47, 63, 47>>, <<96, 126, 96>>, <<91, 123, 27>>, <<92, 124, 28>>,
        <<93, 125, 29>>, <<39, 34, 39>>}

(* The keys that type nothing have the same code whatever is held.         *)
NamedKey == {<<vk>> : vk \in NamedVk}
=============================================================================
