----------------------------- MODULE LinkedQueue -----------------------------
(***************************************************************************)
(* The transport core's blocking queue (LinkedBlockingQueue.c) on          *)
(* moonlight-sys' own condition variable (scarlet.rs,                      *)
(* RawConditionVariable): decode units, audio packets and input packets    *)
(* all pass through one of these, each with a single reader.               *)
(*                                                                         *)
(* Every writer changes the queue under the mutex but signals after it has *)
(* let go, and signals an offer only when the queue was empty.  The reader *)
(* loads the condition's sequence number, unlocks, and sleeps in FutexWait *)
(* only if the number has not moved since.  The mutex is the abstract one, *)
(* which RawMutex implements; the list is a sequence.                      *)
(***************************************************************************)
EXTENDS Naturals, Sequences

CONSTANTS
  Caller,  \* threads that offer, flush, wake, drain and shut down
  Reader,  \* the one thread that reads
  Item,    \* what the queue carries
  Bound,   \* sizeBound
  Nobody   \* no thread

ASSUME QueueAssumption ==
  /\ Bound \in Nat \ {0}
  /\ Reader \notin Caller
  /\ Nobody \notin Caller \cup {Reader}

VARIABLES
  items,     \* the linked list, head first
  shutdown, draining, userWake,
  lock,      \* who holds the queue's mutex
  moved,     \* the sequence number differs from the one the reader loaded
  pc,        \* where each caller is
  op,        \* what each caller is doing
  readerPc,  \* where the reader is
  result     \* what the reader's last call returned

flags == <<shutdown, draining, userWake>>
vars == <<items, flags, lock, moved, pc, op, readerPc, result>>

Offering(i) == [kind |-> "offer", item |-> i]
Ops == {Offering(i) : i \in Item}
         \cup [kind : {"flush", "shutdown", "drain", "wake"}]
NoOp == [kind |-> "flush"]  \* what op says of a caller that is in no operation
Points == {"idle", "lock", "body", "signal", "wake"}
ReaderPoints ==
  {"idle", "lock", "test", "load", "unlock", "futex", "asleep", "pollLock", "poll"}

Interrupted == "interrupted"
Woken       == "woken"
Empty       == "empty"

TypeOK ==
  /\ items \in Seq(Item) /\ Len(items) <= Bound
  /\ shutdown \in BOOLEAN
  /\ draining \in BOOLEAN
  /\ userWake \in BOOLEAN
  /\ lock \in Caller \cup {Reader, Nobody}
  /\ moved \in BOOLEAN
  /\ pc \in [Caller -> Points]
  /\ op \in [Caller -> Ops]
  /\ readerPc \in ReaderPoints
  /\ result \in Item \cup {Interrupted, Woken, Empty}

Init ==
  /\ items = <<>>
  /\ shutdown = FALSE
  /\ draining = FALSE
  /\ userWake = FALSE
  /\ lock = Nobody
  /\ moved = FALSE
  /\ pc = [c \in Caller |-> "idle"]
  /\ op = [c \in Caller |-> NoOp]
  /\ readerPc = "idle"
  /\ result = Empty

-----------------------------------------------------------------------------
(* The callers.  An operation locks, changes the queue and unlocks; if it  *)
(* must, it then signals: fetch_add on the sequence number, and FutexWake. *)

Goto(c, from, to) ==
  /\ pc[c] = from
  /\ pc' = [pc EXCEPT ![c] = to]

Call(c, o) ==
  /\ Goto(c, "idle", "lock")
  /\ op' = [op EXCEPT ![c] = o]
  /\ UNCHANGED <<items, flags, lock, moved, readerPc, result>>

Lock(c) ==
  /\ Goto(c, "lock", "body")
  /\ lock = Nobody
  /\ lock' = c
  /\ UNCHANGED <<items, flags, moved, op, readerPc, result>>

Leave(c, next) ==
  /\ Goto(c, "body", next)
  /\ lock' = Nobody
  /\ op' = [op EXCEPT ![c] = NoOp]
  /\ UNCHANGED <<moved, readerPc, result>>

(* Mutant: wasEmpty is computed after the item was linked in.              *)
OfferTestsLate(c) ==
  /\ op[c].kind = "offer"
  /\ IF shutdown \/ draining \/ Len(items) = Bound
     THEN Leave(c, "idle") /\ UNCHANGED items
     ELSE /\ items' = Append(items, op[c].item)
          /\ Leave(c, IF items' = <<>> THEN "signal" ELSE "idle")
  /\ UNCHANGED flags

(* LbqOfferQueueItem: refused when interrupted or full; signals only when  *)
(* the queue was empty.                                                    *)
Offer(c) ==
  /\ op[c].kind = "offer"
  /\ IF shutdown \/ draining \/ Len(items) = Bound
     THEN Leave(c, "idle") /\ UNCHANGED items
     ELSE /\ Leave(c, IF items = <<>> THEN "signal" ELSE "idle")
          /\ items' = Append(items, op[c].item)
  /\ UNCHANGED flags

Flush(c) ==
  /\ op[c].kind = "flush"
  /\ Leave(c, "idle")
  /\ items' = <<>>
  /\ UNCHANGED flags

(* LbqSignalQueueShutdown, LbqSignalQueueDrain and LbqSignalQueueUserWake. *)
Raise(c) ==
  /\ \/ op[c].kind = "shutdown" /\ shutdown' = TRUE /\ UNCHANGED <<draining, userWake>>
     \/ op[c].kind = "drain" /\ draining' = TRUE /\ UNCHANGED <<shutdown, userWake>>
     \/ op[c].kind = "wake" /\ userWake' = TRUE /\ UNCHANGED <<shutdown, draining>>
  /\ Leave(c, "signal")
  /\ UNCHANGED items

(* RawConditionVariable::signal                                            *)
Advance(c) ==
  /\ Goto(c, "signal", "wake")
  /\ moved' = TRUE
  /\ UNCHANGED <<items, flags, lock, op, readerPc, result>>

FutexWake(c) ==
  /\ Goto(c, "wake", "idle")
  /\ readerPc' = IF readerPc = "asleep" THEN "lock" ELSE readerPc
  /\ UNCHANGED <<items, flags, lock, moved, op, result>>

-----------------------------------------------------------------------------
(* The reader                                                              *)

ReaderGoto(from, to) ==
  /\ readerPc = from
  /\ readerPc' = to

ReadBegin ==
  /\ \/ ReaderGoto("idle", "lock")
     \/ ReaderGoto("idle", "pollLock")
  /\ UNCHANGED <<items, flags, lock, moved, pc, op, result>>

(* PltLockMutex, first and again when the condition wait returns.          *)
ReaderLock ==
  /\ \/ ReaderGoto("lock", "test")
     \/ ReaderGoto("pollLock", "poll")
  /\ lock = Nobody
  /\ lock' = Reader
  /\ UNCHANGED <<items, flags, moved, pc, op, result>>

(* There is something to return for.                                       *)
Due == items # <<>> \/ draining \/ shutdown \/ userWake

(* LbqWaitForQueueElement: nothing to return for, so wait ...              *)
TestFails ==
  /\ ReaderGoto("test", "load")
  /\ ~Due
  /\ UNCHANGED <<items, flags, lock, moved, pc, op, result>>

(* ... or decide in a fixed order what the wait has ended for.             *)
ReadReturns ==
  /\ ReaderGoto("test", "idle")
  /\ Due
  /\ lock' = Nobody
  /\ \/ shutdown /\ result' = Interrupted /\ UNCHANGED <<items, userWake>>
     \/ /\ ~shutdown /\ userWake
        /\ result' = Woken
        /\ userWake' = FALSE
        /\ UNCHANGED items
     \/ /\ ~shutdown /\ ~userWake
        /\ IF items = <<>>
           THEN result' = Interrupted /\ UNCHANGED items
           ELSE result' = Head(items) /\ items' = Tail(items)
        /\ UNCHANGED userWake
  /\ UNCHANGED <<shutdown, draining, moved, pc, op>>

(* Mutant: a draining queue gives up the items it still holds.             *)
PollAbandons ==
  /\ ReaderGoto("poll", "idle")
  /\ lock' = Nobody
  /\ IF shutdown \/ draining \/ items = <<>>
     THEN /\ result' = IF shutdown \/ draining THEN Interrupted ELSE Empty
          /\ UNCHANGED items
     ELSE result' = Head(items) /\ items' = Tail(items)
  /\ UNCHANGED <<flags, moved, pc, op>>

(* LbqPollQueueElement                                                     *)
PollReturns ==
  /\ ReaderGoto("poll", "idle")
  /\ lock' = Nobody
  /\ IF shutdown \/ items = <<>>
     THEN /\ result' = IF shutdown \/ draining THEN Interrupted ELSE Empty
          /\ UNCHANGED items
     ELSE result' = Head(items) /\ items' = Tail(items)
  /\ UNCHANGED <<flags, moved, pc, op>>

(* RawConditionVariable::wait loads the sequence number, ...               *)
LoadSequence ==
  /\ ReaderGoto("load", "unlock")
  /\ moved' = FALSE
  /\ UNCHANGED <<items, flags, lock, pc, op, result>>

(* ... unlocks the mutex, ...                                              *)
WaitUnlock ==
  /\ ReaderGoto("unlock", "futex")
  /\ lock' = Nobody
  /\ UNCHANGED <<items, flags, moved, pc, op, result>>

(* Mutant: FutexWait sleeps without comparing the sequence number.         *)
SleepBlindly ==
  /\ ReaderGoto("futex", "asleep")
  /\ UNCHANGED <<items, flags, lock, moved, pc, op, result>>

(* ... and sleeps if the number is still the loaded one.                   *)
FutexSleep ==
  /\ ReaderGoto("futex", "asleep")
  /\ ~moved
  /\ UNCHANGED <<items, flags, lock, moved, pc, op, result>>

(* FutexWait may fail or return early; the caller loops.                   *)
FutexReturn ==
  /\ ReaderGoto("futex", "lock")
  /\ UNCHANGED <<items, flags, lock, moved, pc, op, result>>

SpuriousWake ==
  /\ ReaderGoto("asleep", "lock")
  /\ UNCHANGED <<items, flags, lock, moved, pc, op, result>>

-----------------------------------------------------------------------------
CallerStep(c) == Offer(c) \/ Flush(c) \/ Raise(c) \/ Advance(c) \/ FutexWake(c)

ReaderStep ==
  \/ TestFails \/ ReadReturns \/ PollReturns
  \/ LoadSequence \/ WaitUnlock \/ FutexSleep \/ FutexReturn

Next ==
  \/ \E c \in Caller :
       \/ \E o \in Ops : Call(c, o)
       \/ Lock(c)
       \/ CallerStep(c)
  \/ ReadBegin \/ ReaderLock \/ ReaderStep \/ SpuriousWake

Spec == Init /\ [][Next]_vars

(***************************************************************************)
(* Threads inside an operation go on, and the reader gets a mutex that is  *)
(* free again and again; nobody has to call, and no wake is spurious.      *)
(***************************************************************************)
Fairness ==
  /\ \A c \in Caller : WF_vars(CallerStep(c))
  /\ WF_vars(ReaderStep)
  /\ SF_vars(ReaderLock)

FairSpec == Spec /\ Fairness

-----------------------------------------------------------------------------
(***************************************************************************)
(* The reader never sleeps through something it should return for, unless  *)
(* the signal for it is still on its way: although every signal is sent    *)
(* after the mutex was released, and most offers send none.                *)
(***************************************************************************)
NoLostWakeup ==
  readerPc = "asleep" /\ Due => \E c \in Caller : pc[c] \in {"signal", "wake"}

(* Shutting down or waking the queue ends a blocking read, even when it    *)
(* races with the reader's way to sleep.                                   *)
RaiseEndsRead ==
  (shutdown \/ userWake) /\ readerPc = "asleep" ~> readerPc = "idle"

-----------------------------------------------------------------------------
(* Refinement: a read is under way from the first lock to the return.      *)
Abstract == INSTANCE BlockingQueue
              WITH reading <- readerPc \notin {"idle", "pollLock", "poll"}

(* The queue is a bounded queue whose reader returns whenever it can:      *)
(* order, priorities and progress of every blocking read are kept.         *)
ImplementsQueue == Abstract!Spec

=============================================================================
