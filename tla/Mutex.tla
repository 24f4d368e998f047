-------------------------------- MODULE Mutex --------------------------------
(***************************************************************************)
(* What a mutex promises its callers: one holder at a time, and only the   *)
(* holder lets go.  RawMutex implements this specification, and the        *)
(* modules that model critical sections as single steps rely on it.        *)
(***************************************************************************)
CONSTANTS
  Thread,   \* the threads that use the mutex
  Nobody    \* the holder of a free mutex

VARIABLE holder

Init == holder = Nobody

Acquire(t) ==
  /\ holder = Nobody
  /\ holder' = t

Release(t) ==
  /\ holder = t
  /\ holder' = Nobody

Next == \E t \in Thread : Acquire(t) \/ Release(t)

Spec == Init /\ [][Next]_holder

=============================================================================
