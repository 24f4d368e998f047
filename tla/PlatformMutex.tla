---------------------------- MODULE PlatformMutex ----------------------------
(***************************************************************************)
(* One RawMutex of the transport core, its state under names of its own:   *)
(* what the core's data structures stand on, to be used beside the         *)
(* variables of one of them.                                               *)
(***************************************************************************)
CONSTANTS
  Thread,    \* the threads of the transport core
  NoThread   \* not a thread

ASSUME ThreadAssumption == NoThread \notin Thread

VARIABLES
  word,      \* the state word of the mutex
  point      \* where each thread is in lock() or unlock()

Raw == INSTANCE RawMutex WITH Nobody <- NoThread, state <- word, pc <- point

RawSpec == Raw!FairSpec

(* A sleeper is never forgotten: while one thread sleeps in FutexWait, the *)
(* holder will see a contended word, or a wake or a retry is under way.    *)
NoStrandedSleeper == Raw!NoStrandedSleeper

(* While a thread is in the slow path of lock(), some thread gets the      *)
(* mutex again: no set of lockers sleeps for ever on a free mutex.         *)
WaitersMakeProgress == Raw!WaitersMakeProgress

(* RawMutex behaves as the abstract mutex: it passes from one holder to    *)
(* the next only through a state in which it is free.                      *)
ImplementsMutex == Raw!ImplementsMutex

=============================================================================
