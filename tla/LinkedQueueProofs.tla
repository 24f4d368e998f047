-------------------------- MODULE LinkedQueueProofs --------------------------
(***************************************************************************)
(* Proofs about LinkedQueue for any number of callers, any items and any   *)
(* bound.                                                                  *)
(*                                                                         *)
(* NoLostWakeup is about a sleeping reader.  What makes it true is what    *)
(* holds on the reader's way to sleep: it saw nothing to return for under  *)
(* the mutex (TestedInv), and whatever turns up between its unlock and its *)
(* sleep comes with a signal that has yet to move the sequence number      *)
(* (FutexInv).                                                             *)
(*                                                                         *)
(* Then the mutex below the queue: RawMutex is an abstract Mutex, and the  *)
(* queue uses its own as a Mutex can be used.                              *)
(***************************************************************************)
EXTENDS LinkedQueue, PlatformMutex, TLAPS

LockInv ==
  /\ lock = Reader <=> readerPc \in {"test", "load", "unlock", "poll"}
  /\ \A c \in Caller : lock = c <=> pc[c] = "body"

TestedInv == readerPc \in {"load", "unlock"} => ~Due

FutexInv == readerPc = "futex" /\ Due /\ ~moved => \E c \in Caller : pc[c] = "signal"

IInv ==
  /\ TypeOK
  /\ LockInv
  /\ TestedInv
  /\ FutexInv
  /\ NoLostWakeup

LEMMA InitIInv == Init => IInv
<1> SUFFICES ASSUME Init PROVE IInv
  OBVIOUS
<1> USE QueueAssumption DEF Init
<1>1. TypeOK
  <2>1. shutdown \in BOOLEAN /\ draining \in BOOLEAN /\ userWake \in BOOLEAN
          /\ moved \in BOOLEAN
    OBVIOUS
  <2>2. items \in Seq(Item) /\ Len(items) <= Bound
    OBVIOUS
  <2>3. op \in [Caller -> Ops]
    BY DEF Ops, NoOp
  <2> QED
    BY <2>1, <2>2, <2>3 DEF TypeOK, Points, ReaderPoints, Empty
<1>2. LockInv /\ TestedInv /\ FutexInv /\ NoLostWakeup
  BY DEF LockInv, TestedInv, FutexInv, NoLostWakeup
<1> QED
  BY <1>1, <1>2 DEF IInv

LEMMA TypePreserved == TypeOK /\ [Next]_vars => TypeOK'
<1> SUFFICES ASSUME TypeOK, [Next]_vars PROVE TypeOK'
  OBVIOUS
<1> USE QueueAssumption DEF TypeOK, Points, ReaderPoints, flags, Goto, ReaderGoto
<1>1. ASSUME NEW c \in Caller, NEW o \in Ops, Call(c, o) PROVE TypeOK'
  BY <1>1 DEF Call
<1>2. ASSUME NEW c \in Caller, Lock(c) PROVE TypeOK'
  BY <1>2 DEF Lock
<1>3. ASSUME NEW c \in Caller, Offer(c) PROVE TypeOK'
  <2>1. op[c] \in Ops /\ op[c].kind = "offer"
    BY <1>3 DEF Offer
  <2>2. op[c].item \in Item
    BY <2>1 DEF Ops, Offering
  <2>3. NoOp \in Ops
    BY DEF NoOp, Ops
  <2>4. items' \in Seq(Item) /\ Len(items') <= Bound
    BY <1>3, <2>2 DEF Offer
  <2> QED
    BY <1>3, <2>3, <2>4 DEF Offer, Leave
<1>4. ASSUME NEW c \in Caller, Flush(c) \/ Raise(c) PROVE TypeOK'
  <2>1. NoOp \in Ops
    BY DEF NoOp, Ops
  <2>2. items' \in Seq(Item) /\ Len(items') <= Bound
    <3>1. CASE Flush(c)
      <4>1. items' = <<>>
        BY <3>1 DEF Flush
      <4>2. <<>> \in Seq(Item) /\ Len(<<>>) = 0
        OBVIOUS
      <4> QED
        BY <4>1, <4>2
    <3>2. CASE Raise(c)
      BY <3>2 DEF Raise
    <3> QED
      BY <1>4, <3>1, <3>2
  <2>3. /\ shutdown' \in BOOLEAN
        /\ draining' \in BOOLEAN
        /\ userWake' \in BOOLEAN
    BY <1>4 DEF Flush, Raise
  <2> QED
    BY <1>4, <2>1, <2>2, <2>3 DEF Flush, Raise, Leave
<1>5. ASSUME NEW c \in Caller, Advance(c) \/ FutexWake(c) PROVE TypeOK'
  <2>1. moved' \in BOOLEAN
    BY <1>5 DEF Advance, FutexWake
  <2> QED
    BY <1>5, <2>1 DEF Advance, FutexWake
<1>6. CASE ReadBegin \/ ReaderLock \/ TestFails
  BY <1>6 DEF ReadBegin, ReaderLock, TestFails
<1>7. CASE ReadReturns \/ PollReturns
  <2>1. items' \in Seq(Item) /\ Len(items') <= Bound
    BY <1>7 DEF ReadReturns, PollReturns
  <2>2. result' \in Item \cup {Interrupted, Woken, Empty}
    BY <1>7 DEF ReadReturns, PollReturns
  <2>3. userWake' \in BOOLEAN
    BY <1>7 DEF ReadReturns, PollReturns
  <2> QED
    BY <1>7, <2>1, <2>2, <2>3 DEF ReadReturns, PollReturns
<1>8. CASE LoadSequence
  <2>1. moved' \in BOOLEAN
    BY <1>8 DEF LoadSequence
  <2> QED
    BY <1>8, <2>1 DEF LoadSequence
<1>9. CASE WaitUnlock \/ FutexSleep \/ FutexReturn \/ SpuriousWake
  BY <1>9 DEF WaitUnlock, FutexSleep, FutexReturn, SpuriousWake
<1>10. CASE UNCHANGED vars
  BY <1>10 DEF vars
<1> QED
  BY <1>1, <1>2, <1>3, <1>4, <1>5, <1>6, <1>7, <1>8, <1>9, <1>10
     DEF Next, CallerStep, ReaderStep

LEMMA LockPreserved == IInv /\ [Next]_vars => LockInv'
<1> SUFFICES ASSUME IInv, [Next]_vars PROVE LockInv'
  OBVIOUS
<1> USE QueueAssumption DEF IInv, TypeOK, LockInv, Goto, ReaderGoto
<1>1. ASSUME NEW c \in Caller, NEW o \in Ops, Call(c, o) \/ Lock(c) PROVE LockInv'
  BY <1>1 DEF Call, Lock
<1>2. ASSUME NEW c \in Caller, Offer(c) \/ Flush(c) \/ Raise(c) PROVE LockInv'
  BY <1>2 DEF Offer, Flush, Raise, Leave
<1>3. ASSUME NEW c \in Caller, Advance(c) \/ FutexWake(c) \/ Lock(c) PROVE LockInv'
  BY <1>3 DEF Advance, FutexWake, Lock
<1>4. CASE ReadBegin \/ ReaderLock \/ TestFails \/ ReadReturns \/ PollReturns
  BY <1>4 DEF ReadBegin, ReaderLock, TestFails, ReadReturns, PollReturns
<1>5. CASE LoadSequence \/ WaitUnlock \/ FutexSleep \/ FutexReturn \/ SpuriousWake
  BY <1>5 DEF LoadSequence, WaitUnlock, FutexSleep, FutexReturn, SpuriousWake
<1>6. CASE UNCHANGED vars
  BY <1>6 DEF vars
<1> QED
  BY <1>1, <1>2, <1>3, <1>4, <1>5, <1>6 DEF Next, CallerStep, ReaderStep

(* The reader's way from its test to its sleep.                            *)
LEMMA WakeupPreserved ==
  IInv /\ [Next]_vars => TestedInv' /\ FutexInv' /\ NoLostWakeup'
<1> DEFINE Goal == TestedInv' /\ FutexInv' /\ NoLostWakeup'
<1> SUFFICES ASSUME IInv, [Next]_vars PROVE Goal
  OBVIOUS
<1> USE QueueAssumption
    DEF IInv, TypeOK, LockInv, TestedInv, FutexInv, NoLostWakeup, Due, flags,
        Goto, ReaderGoto
<1>1. ASSUME NEW c \in Caller, NEW o \in Ops, Call(c, o) PROVE Goal
  BY <1>1 DEF Call
<1>2. ASSUME NEW c \in Caller, Lock(c) PROVE Goal
  BY <1>2 DEF Lock
<1>3. ASSUME NEW c \in Caller, Offer(c) PROVE Goal
  <2>1. CASE shutdown \/ draining \/ Len(items) = Bound
    BY <1>3, <2>1 DEF Offer, Leave
  <2>2. CASE ~(shutdown \/ draining \/ Len(items) = Bound) /\ items = <<>>
    <3>1. pc'[c] = "signal"
      BY <1>3, <2>2 DEF Offer, Leave
    <3>2. readerPc \notin {"load", "unlock"} /\ readerPc' = readerPc
      BY <1>3 DEF Offer, Leave
    <3> QED
      BY <3>1, <3>2
  <2>3. CASE ~(shutdown \/ draining \/ Len(items) = Bound) /\ items # <<>>
    BY <1>3, <2>3 DEF Offer, Leave
  <2> QED
    BY <2>1, <2>2, <2>3
<1>4. ASSUME NEW c \in Caller, Flush(c) PROVE Goal
  BY <1>4 DEF Flush, Leave
<1>5. ASSUME NEW c \in Caller, Raise(c) PROVE Goal
  <2>1. pc'[c] = "signal"
    BY <1>5 DEF Raise, Leave
  <2>2. readerPc \notin {"load", "unlock"} /\ readerPc' = readerPc
    BY <1>5 DEF Raise, Leave
  <2> QED
    BY <2>1, <2>2
<1>6. ASSUME NEW c \in Caller, Advance(c) PROVE Goal
  BY <1>6 DEF Advance
<1>7. ASSUME NEW c \in Caller, FutexWake(c) PROVE Goal
  BY <1>7 DEF FutexWake
<1>8. CASE ReadBegin \/ ReaderLock \/ TestFails \/ ReadReturns \/ PollReturns
  BY <1>8 DEF ReadBegin, ReaderLock, TestFails, ReadReturns, PollReturns
<1>9. CASE LoadSequence \/ WaitUnlock
  BY <1>9 DEF LoadSequence, WaitUnlock
<1>10. CASE FutexSleep \/ FutexReturn \/ SpuriousWake
  BY <1>10 DEF FutexSleep, FutexReturn, SpuriousWake
<1>11. CASE UNCHANGED vars
  BY <1>11 DEF vars
<1> QED
  BY <1>1, <1>2, <1>3, <1>4, <1>5, <1>6, <1>7, <1>8, <1>9, <1>10, <1>11
     DEF Next, CallerStep, ReaderStep

LEMMA IInvHolds == Spec => []IInv
<1>1. IInv /\ [Next]_vars => IInv'
  BY TypePreserved, LockPreserved, WakeupPreserved DEF IInv
<1> QED
  BY InitIInv, <1>1, PTL DEF Spec

-----------------------------------------------------------------------------
(* The queue never grows beyond its bound and all variables keep to their  *)
(* types.                                                                  *)
THEOREM TypeCorrect == Spec => []TypeOK
<1>1. IInv => TypeOK
  BY DEF IInv
<1> QED
  BY IInvHolds, <1>1, PTL

(* With any number of threads that offer, wake, drain or shut down, the    *)
(* reader never sleeps through what it should return for.                  *)
THEOREM WakeupsArrive == Spec => []NoLostWakeup
<1>1. IInv => NoLostWakeup
  BY DEF IInv
<1> QED
  BY IInvHolds, <1>1, PTL

-----------------------------------------------------------------------------
(***************************************************************************)
(* Refinement, as far as safety goes.  A caller's body is the operation of *)
(* the abstract queue, the reader's return or poll is the abstract one,    *)
(* and everything the mutex and the condition variable do is a stutter.    *)
(***************************************************************************)
AbstractStep == Abstract!Next \/ UNCHANGED Abstract!vars

LEMMA OfferRefines ==
  ASSUME TypeOK, NEW c \in Caller, Offer(c)
  PROVE  AbstractStep
<1>1. readerPc' = readerPc /\ UNCHANGED <<flags, result>>
  BY DEF Offer, Leave
<1>2. CASE shutdown \/ draining \/ Len(items) = Bound
  BY <1>1, <1>2 DEF Offer, AbstractStep, Abstract!vars, flags
<1>3. CASE ~(shutdown \/ draining \/ Len(items) = Bound)
  <2>1. op[c] \in Ops /\ op[c].kind = "offer"
    BY DEF Offer, TypeOK
  <2>2. op[c].item \in Item
    BY <2>1 DEF Ops, Offering
  <2>3. Len(items) < Bound
    BY <1>3, QueueAssumption DEF TypeOK
  <2>4. items' = Append(items, op[c].item)
    BY <1>3 DEF Offer
  <2>5. Abstract!Offer(op[c].item)
    BY <1>1, <1>3, <2>3, <2>4 DEF Abstract!Offer, flags
  <2> QED
    BY <2>2, <2>5 DEF AbstractStep, Abstract!Next
<1> QED
  BY <1>2, <1>3

LEMMA FlushRefines ==
  ASSUME NEW c \in Caller, Flush(c)
  PROVE  AbstractStep
<1>1. Abstract!Flush
  BY DEF Flush, Leave, Abstract!Flush, flags
<1> QED
  BY <1>1 DEF AbstractStep, Abstract!Next

LEMMA RaiseRefines ==
  ASSUME NEW c \in Caller, Raise(c)
  PROVE  AbstractStep
<1>1. Abstract!Shutdown \/ Abstract!Drain \/ Abstract!Wake
  BY DEF Raise, Leave, Abstract!Shutdown, Abstract!Drain, Abstract!Wake
<1> QED
  BY <1>1 DEF AbstractStep, Abstract!Next

(* The order of the decision: shutdown, wake, items, drain.                *)
LEMMA ReadRefines ==
  ASSUME ReadReturns
  PROVE  AbstractStep
<1> USE DEF ReadReturns, ReaderGoto
<1>1. readerPc = "test" /\ readerPc' = "idle"
  OBVIOUS
<1>2. Abstract!ReturnItem \/ Abstract!ReturnWoken \/ Abstract!ReturnInterrupted
  <2>1. CASE shutdown
    BY <2>1 DEF Abstract!ReturnInterrupted, Abstract!Interrupted, Interrupted
  <2>2. CASE ~shutdown /\ userWake
    BY <2>2 DEF Abstract!ReturnWoken, Abstract!Woken, Woken
  <2>3. CASE ~shutdown /\ ~userWake /\ items = <<>>
    BY <2>3 DEF Abstract!ReturnInterrupted, Abstract!Interrupted, Interrupted, Due
  <2>4. CASE ~shutdown /\ ~userWake /\ items # <<>>
    BY <2>4 DEF Abstract!ReturnItem
  <2> QED
    BY <2>1, <2>2, <2>3, <2>4
<1>3. Abstract!Return
  BY <1>1, <1>2 DEF Abstract!Return
<1> QED
  BY <1>3 DEF AbstractStep, Abstract!Next

LEMMA PollRefines ==
  ASSUME PollReturns
  PROVE  AbstractStep
<1> USE DEF PollReturns, ReaderGoto
<1>1. /\ readerPc = "poll" /\ readerPc' = "idle"
      /\ UNCHANGED <<shutdown, draining, userWake>>
  BY DEF flags
<1>2. \/ ~shutdown /\ items # <<>> /\ result' = Head(items) /\ items' = Tail(items)
      \/ /\ shutdown \/ (draining /\ items = <<>>)
         /\ result' = Interrupted /\ items' = items
      \/ ~shutdown /\ ~draining /\ items = <<>> /\ result' = Empty /\ items' = items
  OBVIOUS
<1>3. Abstract!Poll
  BY <1>1, <1>2 DEF Abstract!Poll, Abstract!Interrupted, Abstract!Empty, Interrupted, Empty
<1> QED
  BY <1>3 DEF AbstractStep, Abstract!Next

(* LinkedQueue keeps every promise of BlockingQueue that a finite behavior *)
(* can break: bound, order, and what a read returns for, whatever the      *)
(* writers, the signals and the sleeps of the reader do.                   *)
THEOREM SafeRefinement == Spec => Abstract!Init /\ [][Abstract!Next]_(Abstract!vars)
<1>1. Init => Abstract!Init
  BY DEF Init, Abstract!Init, Abstract!Empty, Empty
<1>2. TypeOK /\ [Next]_vars => [Abstract!Next]_(Abstract!vars)
  <2> SUFFICES ASSUME TypeOK, [Next]_vars PROVE AbstractStep
    BY DEF AbstractStep
  <2>1. ASSUME NEW c \in Caller, NEW o \in Ops, Call(c, o) PROVE AbstractStep
    BY <2>1 DEF Call, AbstractStep, Abstract!vars, flags
  <2>2. ASSUME NEW c \in Caller, Lock(c) \/ Advance(c) PROVE AbstractStep
    BY <2>2 DEF Lock, Advance, AbstractStep, Abstract!vars, flags
  <2>3. ASSUME NEW c \in Caller, FutexWake(c) PROVE AbstractStep
    BY <2>3 DEF FutexWake, AbstractStep, Abstract!vars, flags
  <2>4. ASSUME NEW c \in Caller, Offer(c) \/ Flush(c) \/ Raise(c) PROVE AbstractStep
    BY <2>4, OfferRefines, FlushRefines, RaiseRefines
  <2>5. CASE ReadBegin
    <3>1. Abstract!Read \/ UNCHANGED Abstract!vars
      BY <2>5 DEF ReadBegin, ReaderGoto, Abstract!Read, Abstract!vars, flags
    <3> QED
      BY <3>1 DEF AbstractStep, Abstract!Next
  <2>6. CASE ReaderLock \/ TestFails \/ LoadSequence \/ WaitUnlock
    BY <2>6 DEF ReaderLock, TestFails, LoadSequence, WaitUnlock, ReaderGoto,
                AbstractStep, Abstract!vars, flags
  <2>7. CASE FutexSleep \/ FutexReturn \/ SpuriousWake
    BY <2>7 DEF FutexSleep, FutexReturn, SpuriousWake, ReaderGoto,
                AbstractStep, Abstract!vars, flags
  <2>8. CASE ReadReturns \/ PollReturns
    BY <2>8, ReadRefines, PollRefines
  <2>9. CASE UNCHANGED vars
    BY <2>9 DEF vars, AbstractStep, Abstract!vars, flags
  <2> QED
    BY <2>1, <2>2, <2>3, <2>4, <2>5, <2>6, <2>7, <2>8, <2>9
       DEF Next, CallerStep, ReaderStep
<1> QED
  BY TypeCorrect, <1>1, <1>2, PTL DEF Spec

-----------------------------------------------------------------------------
(***************************************************************************)
(* The mutex below the queue: RawMutex, for any set of threads.            *)
(*                                                                         *)
(* Mutual exclusion is not inductive by itself: it needs that a held mutex *)
(* has a state word that says so (RawHeldIsMarked) and that a word that    *)
(* says so has a holder (RawMarkedIsHeld), which together keep both ways   *)
(* into the critical section shut while it is occupied.                    *)
(***************************************************************************)
RawHeldIsMarked == \A t \in Thread : Raw!At(t, "held") => word # Raw!Unlocked
RawMarkedIsHeld == word # Raw!Unlocked => \E t \in Thread : Raw!At(t, "held")

RawHolderInv ==
  /\ Raw!MutualExclusion
  /\ RawHeldIsMarked
  /\ RawMarkedIsHeld

RawInv == Raw!TypeOK /\ RawHolderInv /\ Raw!NoStrandedSleeper

LEMMA RawInit == Raw!Init => RawInv
  BY DEF Raw!Init, RawInv, RawHolderInv, Raw!TypeOK, Raw!MutualExclusion, RawHeldIsMarked,
         RawMarkedIsHeld, Raw!NoStrandedSleeper, Raw!Asleep, Raw!At, Raw!Points,
         Raw!Unlocked, Raw!Locked, Raw!Contended

LEMMA RawTypePreserved == Raw!TypeOK /\ [Raw!Next]_(Raw!vars) => Raw!TypeOK'
  BY DEF Raw!TypeOK, Raw!Next, Raw!vars, Raw!Step, Raw!LockFast, Raw!LockSlow,
         Raw!SwapTakes, Raw!SwapBlocked, Raw!FutexSleep, Raw!FutexReturn,
         Raw!SpuriousWake, Raw!Unlock, Raw!FutexWake, Raw!WakeDue, Raw!SwapMark,
         Raw!At, Raw!Goto, Raw!Asleep, Raw!Points, Raw!Unlocked, Raw!Locked,
         Raw!Contended

(***************************************************************************)
(* The three parts of the invariant that are about the critical section.   *)
(***************************************************************************)
LEMMA RawHolderPreserved == RawInv /\ [Raw!Next]_(Raw!vars) => RawHolderInv'
<1> SUFFICES ASSUME RawInv, [Raw!Next]_(Raw!vars)
             PROVE  RawHolderInv'
  OBVIOUS
<1> USE DEF RawInv, RawHolderInv, Raw!TypeOK, Raw!MutualExclusion, RawHeldIsMarked,
            RawMarkedIsHeld, Raw!At, Raw!Goto, Raw!Unlocked, Raw!Locked,
            Raw!Contended
<1>1. ASSUME NEW t \in Thread, Raw!LockFast(t)
      PROVE  RawHolderInv'
  BY <1>1 DEF Raw!LockFast
<1>2. ASSUME NEW t \in Thread, Raw!LockSlow(t)
      PROVE  RawHolderInv'
  BY <1>2 DEF Raw!LockSlow
<1>3. ASSUME NEW t \in Thread, Raw!SwapTakes(t)
      PROVE  RawHolderInv'
  BY <1>3 DEF Raw!SwapTakes, Raw!SwapMark
<1>4. ASSUME NEW t \in Thread, Raw!SwapBlocked(t)
      PROVE  RawHolderInv'
  BY <1>4 DEF Raw!SwapBlocked, Raw!SwapMark
<1>5. ASSUME NEW t \in Thread,
             Raw!FutexSleep(t) \/ Raw!FutexReturn(t) \/ Raw!SpuriousWake(t)
      PROVE  RawHolderInv'
  BY <1>5 DEF Raw!FutexSleep, Raw!FutexReturn, Raw!SpuriousWake
<1>6. ASSUME NEW t \in Thread, Raw!Unlock(t)
      PROVE  RawHolderInv'
  BY <1>6 DEF Raw!Unlock
<1>7. ASSUME NEW t \in Thread, Raw!FutexWake(t)
      PROVE  RawHolderInv'
  BY <1>7 DEF Raw!FutexWake, Raw!Asleep
<1>8. CASE UNCHANGED Raw!vars
  BY <1>8 DEF Raw!vars
<1>9. QED
  BY <1>1, <1>2, <1>3, <1>4, <1>5, <1>6, <1>7, <1>8 DEF Raw!Next, Raw!Step

(***************************************************************************)
(* The wakeup argument: only Unlock clears a contended word, and it then   *)
(* owes a wake; a wake that finds a sleeper sends it back to the swap, and *)
(* every swap marks the word contended again.                              *)
(***************************************************************************)
LEMMA RawWakeupPreserved == RawInv /\ [Raw!Next]_(Raw!vars) => Raw!NoStrandedSleeper'
<1> SUFFICES ASSUME RawInv, [Raw!Next]_(Raw!vars)
             PROVE  Raw!NoStrandedSleeper'
  OBVIOUS
<1> USE DEF RawInv, Raw!TypeOK, Raw!NoStrandedSleeper, Raw!At, Raw!Goto, Raw!Asleep,
            Raw!Unlocked, Raw!Locked, Raw!Contended
<1>1. ASSUME NEW t \in Thread, Raw!LockFast(t) PROVE Raw!NoStrandedSleeper'
  BY <1>1 DEF Raw!LockFast
<1>2. ASSUME NEW t \in Thread, Raw!LockSlow(t) PROVE Raw!NoStrandedSleeper'
  BY <1>2 DEF Raw!LockSlow
<1>3. ASSUME NEW t \in Thread, Raw!SwapTakes(t) \/ Raw!SwapBlocked(t)
      PROVE  Raw!NoStrandedSleeper'
  BY <1>3 DEF Raw!SwapTakes, Raw!SwapBlocked, Raw!SwapMark
<1>4. ASSUME NEW t \in Thread, Raw!FutexSleep(t) PROVE Raw!NoStrandedSleeper'
  BY <1>4 DEF Raw!FutexSleep
<1>5. ASSUME NEW t \in Thread, Raw!FutexReturn(t) \/ Raw!SpuriousWake(t)
      PROVE  Raw!NoStrandedSleeper'
  BY <1>5 DEF Raw!FutexReturn, Raw!SpuriousWake
<1>6. ASSUME NEW t \in Thread, Raw!Unlock(t) PROVE Raw!NoStrandedSleeper'
  BY <1>6 DEF Raw!Unlock, Raw!WakeDue
<1>7. ASSUME NEW t \in Thread, Raw!FutexWake(t) PROVE Raw!NoStrandedSleeper'
  <2>1. CASE Raw!Asleep = {}
    BY <1>7, <2>1 DEF Raw!FutexWake
  <2>2. CASE Raw!Asleep # {}
    <3>1. PICK w \in Raw!Asleep : point' = [point EXCEPT ![t] = "idle", ![w] = "swap"]
      BY <1>7, <2>2 DEF Raw!FutexWake
    <3>2. w \in Thread /\ point'[w] = "swap"
      BY <1>7, <3>1 DEF Raw!FutexWake
    <3>3. QED
      BY <3>2
  <2>3. QED
    BY <2>1, <2>2
<1>8. CASE UNCHANGED Raw!vars
  BY <1>8 DEF Raw!vars
<1>9. QED
  BY <1>1, <1>2, <1>3, <1>4, <1>5, <1>6, <1>7, <1>8 DEF Raw!Next, Raw!Step

LEMMA RawInvariance == Raw!Spec => []RawInv
<1>1. RawInv /\ [Raw!Next]_(Raw!vars) => RawInv'
  BY RawTypePreserved, RawHolderPreserved, RawWakeupPreserved DEF RawInv
<1>2. QED
  BY RawInit, <1>1, PTL DEF Raw!Spec

(* The state word and every thread's program point stay in their ranges.   *)
THEOREM RawTypeCorrect == Raw!Spec => []Raw!TypeOK
  BY RawInvariance, PTL DEF RawInv

(* No two threads are ever inside the critical section of one RawMutex.    *)
THEOREM MutexSafe == Raw!Spec => []Raw!MutualExclusion
  BY RawInvariance, PTL DEF RawInv, RawHolderInv

(* Some thread is always about to wake or relieve a thread asleep in       *)
(* FutexWait.                                                              *)
THEOREM SleepersAreWoken == Raw!Spec => []NoStrandedSleeper
  BY RawInvariance, PTL DEF RawInv, NoStrandedSleeper

-----------------------------------------------------------------------------
(***************************************************************************)
(* Refinement.  With at most one thread inside, Holder names it.           *)
(***************************************************************************)
LEMMA RawHolderIs ==
  ASSUME Raw!MutualExclusion, NEW t \in Thread, Raw!At(t, "held")
  PROVE  Raw!Holder = t
  BY DEF Raw!MutualExclusion, Raw!Holder, Raw!At

LEMMA RawHolderIsNobody ==
  ASSUME \A t \in Thread : ~Raw!At(t, "held")
  PROVE  Raw!Holder = NoThread
  BY DEF Raw!Holder, Raw!At

(* RawMutex implements the abstract mutex: every step of the futex         *)
(* protocol is an Acquire, a Release, or invisible to the callers.         *)
THEOREM RawIsMutex == Raw!Spec => ImplementsMutex
<1>1. Raw!Init => Raw!Abstract!Init
  BY RawHolderIsNobody DEF Raw!Init, Raw!Abstract!Init, Raw!At
<1>2. RawInv /\ RawInv' /\ [Raw!Next]_(Raw!vars) => [Raw!Abstract!Next]_(Raw!Holder)
  <2> SUFFICES ASSUME RawInv, RawInv', [Raw!Next]_(Raw!vars)
               PROVE  Raw!Abstract!Next \/ Raw!Holder' = Raw!Holder
    OBVIOUS
  <2> USE DEF RawInv, RawHolderInv
  <2>1. ASSUME NEW t \in Thread, Raw!LockFast(t) \/ Raw!SwapTakes(t)
        PROVE  Raw!Abstract!Next
    <3>1. Raw!Holder = NoThread
      <4>1. word = Raw!Unlocked
        BY <2>1 DEF Raw!LockFast, Raw!SwapTakes
      <4>2. QED
        BY <4>1, RawHolderIsNobody DEF RawHeldIsMarked
    <3>2. point'[t] = "held"
      BY <2>1 DEF Raw!LockFast, Raw!SwapTakes, Raw!Goto, Raw!TypeOK
    <3>3. Raw!Holder' = t
      BY <3>2 DEF Raw!Holder, Raw!At, Raw!MutualExclusion
    <3>4. QED
      BY <3>1, <3>3 DEF Raw!Abstract!Next, Raw!Abstract!Acquire
  <2>2. ASSUME NEW t \in Thread, Raw!Unlock(t)
        PROVE  Raw!Abstract!Next
    <3>1. Raw!Holder = t
      BY <2>2, RawHolderIs DEF Raw!Unlock
    <3>2. word' = Raw!Unlocked
      BY <2>2 DEF Raw!Unlock
    <3>3. Raw!Holder' = NoThread
      BY <3>2 DEF Raw!Holder, RawHeldIsMarked, Raw!At
    <3>4. QED
      BY <3>1, <3>3 DEF Raw!Abstract!Next, Raw!Abstract!Release
  <2>3. ASSUME \A t \in Thread : point'[t] = "held" <=> point[t] = "held"
        PROVE  Raw!Holder' = Raw!Holder
    BY <2>3 DEF Raw!Holder, Raw!At
  <2>4. ASSUME NEW t \in Thread,
               Raw!LockSlow(t) \/ Raw!SwapBlocked(t) \/ Raw!FutexSleep(t)
                 \/ Raw!FutexReturn(t) \/ Raw!SpuriousWake(t) \/ Raw!FutexWake(t)
        PROVE  Raw!Holder' = Raw!Holder
    <3>1. \A u \in Thread : point'[u] = "held" <=> point[u] = "held"
      BY <2>4
         DEF Raw!LockSlow, Raw!SwapBlocked, Raw!FutexSleep, Raw!FutexReturn,
             Raw!SpuriousWake, Raw!FutexWake, Raw!Asleep, Raw!At, Raw!Goto,
             Raw!TypeOK
    <3>2. QED
      BY <2>3, <3>1
  <2>5. CASE UNCHANGED Raw!vars
    BY <2>3, <2>5 DEF Raw!vars
  <2>6. QED
    BY <2>1, <2>2, <2>4, <2>5 DEF Raw!Next, Raw!Step
<1>3. QED
  BY RawInvariance, <1>1, <1>2, PTL
     DEF Raw!Spec, ImplementsMutex, Raw!ImplementsMutex, Raw!Abstract!Spec

-----------------------------------------------------------------------------
(***************************************************************************)
(* Between the two.  LinkedQueue has RawMutex's part played by the         *)
(* variable lock, which is set and cleared at the places where the code    *)
(* locks and unlocks.  That this is what a mutex allows - nobody enters a  *)
(* mutex that is taken, nobody lets go of one he does not hold - is a      *)
(* property of those places, and of the reader's and the writers' points.  *)
(***************************************************************************)
QueueMutex == INSTANCE Mutex WITH Thread <- Caller \cup {Reader}, holder <- lock

(* The queue uses its mutex as RawMutex, which implements the same Mutex,  *)
(* allows: every lock and unlock of a writer, of the reader and of the     *)
(* condition wait is an Acquire or a Release of the thread that does it.   *)
THEOREM QueueUsesMutex == Spec => QueueMutex!Spec
<1>1. Init => QueueMutex!Init
  BY DEF Init, QueueMutex!Init
<1>2. IInv /\ [Next]_vars => [QueueMutex!Next]_lock
  <2> SUFFICES ASSUME IInv, [Next]_vars
               PROVE  \/ UNCHANGED lock
                      \/ \E t \in Caller \cup {Reader} :
                           QueueMutex!Acquire(t) \/ QueueMutex!Release(t)
    BY DEF QueueMutex!Next
  <2> USE DEF IInv, LockInv, QueueMutex!Acquire, QueueMutex!Release, Goto, ReaderGoto
  <2>1. ASSUME NEW c \in Caller, Lock(c)
        PROVE  QueueMutex!Acquire(c)
    BY <2>1 DEF Lock
  <2>2. ASSUME NEW c \in Caller, Offer(c) \/ Flush(c) \/ Raise(c)
        PROVE  QueueMutex!Release(c)
    BY <2>2 DEF Offer, Flush, Raise, Leave
  <2>3. CASE ReaderLock
    BY <2>3 DEF ReaderLock
  <2>4. CASE ReadReturns \/ PollReturns \/ WaitUnlock
    BY <2>4 DEF ReadReturns, PollReturns, WaitUnlock
  <2>5. ASSUME NEW c \in Caller, (\E o \in Ops : Call(c, o)) \/ Advance(c) \/ FutexWake(c)
        PROVE  UNCHANGED lock
    BY <2>5 DEF Call, Advance, FutexWake
  <2>6. CASE ReadBegin \/ TestFails \/ LoadSequence \/ FutexSleep \/ FutexReturn
               \/ SpuriousWake \/ UNCHANGED vars
    BY <2>6 DEF ReadBegin, TestFails, LoadSequence, FutexSleep, FutexReturn,
                SpuriousWake, vars
  <2> QED
    BY <2>1, <2>2, <2>3, <2>4, <2>5, <2>6 DEF Next, CallerStep, ReaderStep
<1> QED
  BY IInvHolds, <1>1, <1>2, PTL DEF Spec, QueueMutex!Spec

=============================================================================
