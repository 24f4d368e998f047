------------------------------ MODULE RawMutex -------------------------------
(***************************************************************************)
(* The futex mutex that moonlight-sys hands to the C transport core on     *)
(* Scarlet (scarlet.rs, RawMutex).  The state word says unlocked, locked,  *)
(* or locked with possible sleepers; a locker that finds the word taken    *)
(* marks it contended and sleeps in the kernel until an unlock wakes it.   *)
(*                                                                         *)
(* Each atomic instruction and each system call is one step, so that       *)
(* every interleaving of lockers and unlockers is a behaviour.  The kernel *)
(* is external: FutexWait compares the word and sleeps atomically, may     *)
(* return at any time, and may fail; FutexWake(1) wakes one sleeper.       *)
(***************************************************************************)
EXTENDS Naturals

CONSTANTS
  Thread,   \* the threads of the transport core
  Nobody    \* not a thread

VARIABLES
  state,    \* the AtomicU32 of the mutex
  pc        \* where each thread is in lock() or unlock()

vars == <<state, pc>>

Unlocked  == 0
Locked    == 1
Contended == 2

(***************************************************************************)
(* Program points: outside the mutex, before the swap of the slow path,    *)
(* before FutexWait, asleep in it, inside the critical section, and in     *)
(* unlock between the swap and FutexWake.                                  *)
(***************************************************************************)
Points == {"idle", "swap", "futex", "asleep", "held", "wake"}

At(t, point) == pc[t] = point
Goto(t, point) == pc' = [pc EXCEPT ![t] = point]
Asleep == {t \in Thread : At(t, "asleep")}

TypeOK ==
  /\ state \in {Unlocked, Locked, Contended}
  /\ pc \in [Thread -> Points]

Init ==
  /\ state = Unlocked
  /\ pc = [t \in Thread |-> "idle"]

-----------------------------------------------------------------------------
(* lock(): the compare_exchange of the fast path takes a free mutex.       *)
LockFast(t) ==
  /\ At(t, "idle")
  /\ state = Unlocked
  /\ state' = Locked
  /\ Goto(t, "held")

(* lock(): the compare_exchange fails and the loop begins.                 *)
LockSlow(t) ==
  /\ At(t, "idle")
  /\ state # Unlocked
  /\ Goto(t, "swap")
  /\ UNCHANGED state

(* What the slow path leaves in the state word.                            *)
SwapMark == Contended

(* Mutant: the slow path mistakes a word that is only locked for its own.  *)
SwapTakesUnlessContended(t) ==
  /\ At(t, "swap")
  /\ state # Contended
  /\ state' = SwapMark
  /\ Goto(t, "held")

(* lock(): swap(CONTENDED) takes the mutex when it was unlocked.           *)
SwapTakes(t) ==
  /\ At(t, "swap")
  /\ state = Unlocked
  /\ state' = SwapMark
  /\ Goto(t, "held")

SwapBlocked(t) ==
  /\ At(t, "swap")
  /\ state # Unlocked
  /\ state' = SwapMark
  /\ Goto(t, "futex")

(* FutexWait(CONTENDED) sleeps only while the word still says contended.   *)
FutexSleep(t) ==
  /\ At(t, "futex")
  /\ state = Contended
  /\ Goto(t, "asleep")
  /\ UNCHANGED state

(***************************************************************************)
(* FutexWait comes back at once: the word changed, or the call failed and  *)
(* the loop slept a millisecond.  Both retry the swap.                     *)
(***************************************************************************)
FutexReturn(t) ==
  /\ At(t, "futex")
  /\ Goto(t, "swap")
  /\ UNCHANGED state

(* The kernel may end a sleep that nobody woke.                            *)
SpuriousWake(t) ==
  /\ At(t, "asleep")
  /\ Goto(t, "swap")
  /\ UNCHANGED state

-----------------------------------------------------------------------------
(* Mutant: unlock() tests for the wrong word and forgets the sleepers.     *)
WakeDueIfLocked == state = Locked

(* unlock(): FutexWake is due only when the swapped-out word says so.      *)
WakeDue == state = Contended

Unlock(t) ==
  /\ At(t, "held")
  /\ state' = Unlocked
  /\ Goto(t, IF WakeDue THEN "wake" ELSE "idle")

(* unlock(): FutexWake(1) ends the sleep of one waiter, if there is one.   *)
FutexWake(t) ==
  /\ At(t, "wake")
  /\ IF Asleep = {}
     THEN Goto(t, "idle")
     ELSE \E w \in Asleep : pc' = [pc EXCEPT ![t] = "idle", ![w] = "swap"]
  /\ UNCHANGED state

-----------------------------------------------------------------------------
(* The steps a thread takes by itself once it has entered lock().          *)
Step(t) ==
  \/ SwapTakes(t)
  \/ SwapBlocked(t)
  \/ FutexSleep(t)
  \/ FutexReturn(t)
  \/ Unlock(t)
  \/ FutexWake(t)

Next ==
  \E t \in Thread : LockFast(t) \/ LockSlow(t) \/ Step(t) \/ SpuriousWake(t)

Spec == Init /\ [][Next]_vars

(***************************************************************************)
(* A thread that runs keeps running and critical sections end; nobody has  *)
(* to call lock() and the kernel owes no spurious wakeup.                  *)
(***************************************************************************)
Fairness == \A t \in Thread : WF_vars(Step(t))

FairSpec == Spec /\ Fairness

-----------------------------------------------------------------------------
(* Two threads are never inside the critical section that one RawMutex     *)
(* guards, whatever the order of their swaps, sleeps and wakes.            *)
MutualExclusion ==
  \A t, u \in Thread : At(t, "held") /\ At(u, "held") => t = u

(* A sleeper is never forgotten: while one thread sleeps in FutexWait, the *)
(* holder will see a contended word, or a wake or a retry is under way.    *)
NoStrandedSleeper ==
  Asleep # {} =>
    \/ state = Contended
    \/ \E t \in Thread : At(t, "wake") \/ At(t, "swap")

(* While a thread is in the slow path of lock(), some thread gets the      *)
(* mutex again: no set of lockers sleeps for ever on a free mutex.         *)
WaitersMakeProgress ==
  (\E t \in Thread : pc[t] \in {"swap", "futex", "asleep"})
    ~> (\E t \in Thread : At(t, "held"))

-----------------------------------------------------------------------------
(* Refinement: the thread inside the critical section is the holder.       *)
Holder ==
  IF \E t \in Thread : At(t, "held")
  THEN CHOOSE t \in Thread : At(t, "held")
  ELSE Nobody

Abstract == INSTANCE Mutex WITH holder <- Holder

(* RawMutex behaves as the abstract mutex: it passes from one holder to    *)
(* the next only through a state in which it is free.                      *)
ImplementsMutex == Abstract!Spec

=============================================================================
