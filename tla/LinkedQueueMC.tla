---------------------------- MODULE LinkedQueueMC -----------------------------
(* LinkedQueue and a mutex like the one it locks.  Neither looks at the     *)
(* other: each moves while the other has not begun, which is all that the   *)
(* behaviours of both together could show of either.  What is fair to one   *)
(* asks nothing of it before it has begun.                                  *)
EXTENDS LinkedQueue, PlatformMutex

mutex == <<word, point>>

MCInit == Init /\ Raw!Init

MCNext ==
  \/ Raw!Init /\ Next /\ UNCHANGED mutex
  \/ Init /\ Raw!Next /\ UNCHANGED vars

MCSpec ==
  /\ MCInit
  /\ [][MCNext]_<<vars, mutex>>
  /\ Fairness /\ Raw!Fairness
=============================================================================
