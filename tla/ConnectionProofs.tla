-------------------------- MODULE ConnectionProofs ---------------------------
(***************************************************************************)
(* Proofs about Connection for any number of sessions, clients and core    *)
(* threads.                                                                *)
(*                                                                         *)
(* The safety properties speak of the core, of the wake registration and   *)
(* of what a thread is about to do.  They hold because each of these is    *)
(* tied to the program point of the one attempt that owns the singleton    *)
(* (CoreInv, RegistrationInv), because each lock is held exactly by the    *)
(* threads inside its section (LockInv, GateInv), and because the steps    *)
(* that would make a thread's check stale need that lock (ActorInv).       *)
(* Two more invariants follow from them that Connection's own do not say:  *)
(* an accepted wake finds its worker (NoWakeLost), and no chain of threads *)
(* waiting for each other closes (ChainsOfWaitsEnd).                       *)
(***************************************************************************)
EXTENDS Connection, TLAPS

(* The program points between bringing the core up and joining it, between *)
(* installing the renderer and clearing it, between registering with the   *)
(* gate and unregistering, and inside stop's section under the core lock.  *)
CoreUp ==
  {"up", "register", "run", "loop", "wait", "frame", "exit", "stop", "lock",
   "unregister", "stopCore", "join"}
Rendering == Owning \ {"install", "failing", "release"}
Registered == {"run", "loop", "wait", "frame", "exit", "stop", "lock", "unregister"}
Locking == {"unregister", "stopCore", "join", "clear", "release", "unlock"}

(* Owning the singleton keeps CONNECTION_ACTIVE set, and is exclusive.     *)
OwnerInv ==
  /\ \A s \in Session : Owner(s) => connectionActive
  /\ \A s, t \in Session : Owner(s) /\ Owner(t) => s = t

CoreInv ==
  \A s \in Session :
    /\ core = s <=> pc[s] \in CoreUp
    /\ renderer = s <=> pc[s] \in Rendering

RegistrationInv ==
  \A s \in Session :
    /\ active[s] <=> pc[s] \in Registered
    /\ wakeState = s <=> pc[s] \in Registered

LockInv ==
  /\ \A s \in Session : coreLock = s <=> pc[s] \in Locking
  /\ \A u \in Client : coreLock = u <=> clientPc[u] \in {"input", "send"}

GateInv ==
  /\ \A u \in Client : gate = u <=> clientPc[u] \in {"check", "wake"}
  /\ \A c \in Callback : gate = c <=> term[c] \in {"gate", "wake"}

ActorInv ==
  /\ \A u \in Client :
       /\ clientPc[u] # "idle" => target[u] \in Session
       /\ clientPc[u] \in {"wake", "send"} => active[target[u]]
  /\ \A c \in Callback : term[c] = "wake" => wakeState # None

IInv ==
  /\ TypeOK
  /\ OwnerInv
  /\ CoreInv
  /\ RegistrationInv
  /\ LockInv
  /\ GateInv
  /\ ActorInv

LEMMA InitIInv == Init => IInv
<1> SUFFICES ASSUME Init PROVE IInv
  OBVIOUS
<1> USE ConnectionAssumption DEF Init
<1>1. TypeOK
  <2>1. /\ connectionActive \in BOOLEAN
        /\ alreadyTerminated \in BOOLEAN
        /\ pendingWake \in BOOLEAN
    OBVIOUS
  <2> QED
    BY <2>1 DEF TypeOK, Points, ClientPoints, TermPoints
<1>2. OwnerInv /\ CoreInv /\ RegistrationInv
  BY DEF OwnerInv, CoreInv, RegistrationInv, Owner, Owning, CoreUp, Rendering,
         Registered, Points
<1>3. LockInv /\ GateInv /\ ActorInv
  BY DEF LockInv, GateInv, ActorInv, Locking
<1> QED
  BY <1>1, <1>2, <1>3 DEF IInv

(* Every step keeps the variables in their types.                          *)
LEMMA TypePreserved == IInv /\ [Next]_vars => TypeOK'
<1> SUFFICES ASSUME IInv, [Next]_vars PROVE TypeOK'
  OBVIOUS
<1> USE ConnectionAssumption
    DEF
      IInv, TypeOK, Points, ClientPoints, TermPoints, Goto, ClientGoto, Tell,
      startVars, coreVars, queueVars, handleVars, lockVars, clientVars
<1>1. ASSUME NEW s \in Session, Claim(s) PROVE TypeOK'
  <2>1. connectionActive' \in BOOLEAN
    BY <1>1 DEF Claim
  <2> QED
    BY <1>1, <2>1 DEF Claim
<1>2. ASSUME NEW s \in Session, InstallRenderer(s) PROVE TypeOK'
  BY <1>2 DEF InstallRenderer
<1>3. ASSUME NEW s \in Session, ResetBridge(s) PROVE TypeOK'
  <2>1. alreadyTerminated' \in BOOLEAN
    BY <1>3 DEF ResetBridge
  <2> QED
    BY <1>3, <2>1 DEF ResetBridge
<1>4. ASSUME NEW s \in Session, BringUpCore(s) PROVE TypeOK'
  <2>1. pendingWake' \in BOOLEAN
    BY <1>4 DEF BringUpCore
  <2> QED
    BY <1>4, <2>1 DEF BringUpCore
<1>5. ASSUME NEW s \in Session, FailStage(s) PROVE TypeOK'
  BY <1>5 DEF FailStage, AudioInit, FirstError
<1>6. ASSUME NEW s \in Session, ClearAfterFailure(s) PROVE TypeOK'
  BY <1>6 DEF ClearAfterFailure
<1>7. ASSUME NEW s \in Session, ReleaseAfterFailure(s) PROVE TypeOK'
  <2>1. connectionActive' \in BOOLEAN
    BY <1>7 DEF ReleaseAfterFailure
  <2> QED
    BY <1>7, <2>1 DEF ReleaseAfterFailure
<1>8. ASSUME NEW s \in Session, ReportStage(s) PROVE TypeOK'
  BY <1>8 DEF ReportStage
<1>9. ASSUME NEW s \in Session, Register(s) PROVE TypeOK'
  BY <1>9 DEF Register
<1>10. ASSUME NEW s \in Session, BeginRun(s) PROVE TypeOK'
  BY <1>10 DEF BeginRun
<1>11. ASSUME NEW s \in Session, WaitWoken(s) PROVE TypeOK'
  <2>1. pendingWake' \in BOOLEAN
    BY <1>11 DEF WaitWoken
  <2> QED
    BY <1>11, <2>1 DEF WaitWoken
<1>12. ASSUME NEW s \in Session, WaitFrame(s) PROVE TypeOK'
  BY <1>12 DEF WaitFrame
<1>13. ASSUME NEW s \in Session, ReadTermination(s) PROVE TypeOK'
  BY <1>13 DEF ReadTermination
<1>14. ASSUME NEW s \in Session, StopRequest(s) PROVE TypeOK'
  BY <1>14 DEF StopRequest
<1>15. ASSUME NEW s \in Session, Unregister(s) PROVE TypeOK'
  BY <1>15 DEF Unregister
<1>16. ASSUME NEW s \in Session, StopCore(s) PROVE TypeOK'
  BY <1>16 DEF StopCore
<1>17. ASSUME NEW s \in Session, JoinCore(s) PROVE TypeOK'
  BY <1>17 DEF JoinCore
<1>18. ASSUME NEW s \in Session, Release(s) PROVE TypeOK'
  <2>1. connectionActive' \in BOOLEAN
    BY <1>18 DEF Release
  <2> QED
    BY <1>18, <2>1 DEF Release
<1>19. ASSUME NEW s \in Session, OfferFrame(s) PROVE TypeOK'
  BY <1>19 DEF OfferFrame
<1>20. ASSUME NEW s \in Session, FailAudio(s) PROVE TypeOK'
  BY <1>20 DEF FailAudio, FirstError
<1>21. ASSUME NEW s \in Session,
              \/ StartCore(s) \/ EnterWait(s) \/ CompleteFrame(s)
              \/ StopLock(s) \/ ClearRenderer(s)
       PROVE  TypeOK'
  BY <1>21
     DEF StartCore, EnterWait, CompleteFrame, StopLock, ClearRenderer
<1>22. ASSUME NEW s \in Session, StopUnlock(s) PROVE TypeOK'
  BY <1>22 DEF StopUnlock
<1>23. ASSUME NEW s \in Session, NEW w \in Worker, TestLatch(s, w) PROVE TypeOK'
  <2>1. <<s, w>> \in Callback
    BY DEF Callback
  <2> QED
    BY <1>23, <2>1 DEF TestLatch
<1>24. ASSUME NEW s \in Session, NEW w \in Worker, SpawnCallback(s, w) PROVE TypeOK'
  <2>1. <<s, w>> \in Callback
    BY DEF Callback
  <2> QED
    BY <1>24, <2>1 DEF SpawnCallback, Created
<1>25. ASSUME NEW c \in Callback, CallbackWake(c) PROVE TypeOK'
  BY <1>25 DEF CallbackWake
<1>26. ASSUME NEW c \in Callback,
              \/ StoreTermination(c) \/ CallbackGate(c) \/ CallbackCheck(c)
       PROVE  TypeOK'
  BY <1>26
     DEF StoreTermination, CallbackGate, CallbackCheck
<1>27. ASSUME NEW u \in Client, NEW s \in Session, LockForInput(u, s) PROVE TypeOK'
  BY <1>27 DEF LockForInput
<1>28. ASSUME NEW u \in Client, NEW s \in Session, RequestStop(u, s) PROVE TypeOK'
  BY <1>28 DEF RequestStop
<1>29. ASSUME NEW u \in Client, RequestWake(u) PROVE TypeOK'
  BY <1>29 DEF RequestWake
<1>30. ASSUME NEW u \in Client,
              \/ RequestGate(u) \/ RequestCheck(u) \/ CheckInput(u)
              \/ SendInput(u)
       PROVE  TypeOK'
  BY <1>30
     DEF RequestGate, RequestCheck, CheckInput, SendInput
<1>31. CASE UNCHANGED vars
  BY <1>31 DEF vars
<1> QED
  BY <1>1, <1>2, <1>3, <1>4, <1>5, <1>6, <1>7, <1>8, <1>9, <1>10, <1>11,
     <1>12, <1>13, <1>14, <1>15, <1>16, <1>17, <1>18, <1>19, <1>20, <1>21,
     <1>22, <1>23, <1>24, <1>25, <1>26, <1>27, <1>28, <1>29, <1>30, <1>31
     DEF Next, LockStep, WorkerStep, CallbackStep, ClientStep

(* One owner: only the winner of the compare-exchange becomes one.         *)
LEMMA OwnerPreserved == IInv /\ [Next]_vars => OwnerInv'
<1> SUFFICES ASSUME IInv, [Next]_vars PROVE OwnerInv'
  OBVIOUS
<1> USE ConnectionAssumption
    DEF
      IInv, TypeOK, OwnerInv, Owner, Owning, Points, Goto, ClientGoto,
      startVars, coreVars, queueVars, handleVars, lockVars, clientVars
<1>1. ASSUME NEW s \in Session, Claim(s) PROVE OwnerInv'
  BY <1>1 DEF Claim
<1>2. ASSUME NEW s \in Session, ReleaseAfterFailure(s) PROVE OwnerInv'
  BY <1>2 DEF ReleaseAfterFailure
<1>3. ASSUME NEW s \in Session, Release(s) PROVE OwnerInv'
  BY <1>3 DEF Release
<1>4. ASSUME NEW s \in Session,
             \/ InstallRenderer(s) \/ ResetBridge(s) \/ BringUpCore(s)
             \/ FailStage(s) \/ StartCore(s) \/ ClearAfterFailure(s)
             \/ ReportStage(s) \/ Register(s) \/ BeginRun(s) \/ EnterWait(s)
             \/ WaitWoken(s) \/ WaitFrame(s) \/ CompleteFrame(s)
             \/ ReadTermination(s) \/ StopRequest(s) \/ StopLock(s)
             \/ Unregister(s) \/ StopCore(s) \/ JoinCore(s)
             \/ ClearRenderer(s) \/ StopUnlock(s) \/ OfferFrame(s)
             \/ FailAudio(s)
      PROVE  OwnerInv'
  BY <1>4
     DEF InstallRenderer, ResetBridge, BringUpCore, FailStage, StartCore,
         ClearAfterFailure, ReportStage, Register, BeginRun, EnterWait,
         WaitWoken, WaitFrame, CompleteFrame, ReadTermination, StopRequest,
         StopLock, Unregister, StopCore, JoinCore, ClearRenderer, StopUnlock,
         OfferFrame, FailAudio
<1>5. ASSUME NEW s \in Session, NEW w \in Worker,
             \/ TestLatch(s, w) \/ SpawnCallback(s, w)
      PROVE  OwnerInv'
  BY <1>5
     DEF TestLatch, SpawnCallback, Created
<1>6. ASSUME NEW c \in Callback,
             \/ StoreTermination(c) \/ CallbackGate(c) \/ CallbackCheck(c)
             \/ CallbackWake(c)
      PROVE  OwnerInv'
  BY <1>6
     DEF StoreTermination, CallbackGate, CallbackCheck, CallbackWake
<1>7. ASSUME NEW u \in Client, NEW s \in Session,
             \/ RequestStop(u, s) \/ LockForInput(u, s)
      PROVE  OwnerInv'
  BY <1>7
     DEF RequestStop, LockForInput
<1>8. ASSUME NEW u \in Client,
             \/ RequestGate(u) \/ RequestCheck(u) \/ RequestWake(u)
             \/ CheckInput(u) \/ SendInput(u)
      PROVE  OwnerInv'
  BY <1>8
     DEF RequestGate, RequestCheck, RequestWake, CheckInput, SendInput
<1>9. CASE UNCHANGED vars
  BY <1>9 DEF vars
<1> QED
  BY <1>1, <1>2, <1>3, <1>4, <1>5, <1>6, <1>7, <1>8, <1>9
     DEF Next, LockStep, WorkerStep, CallbackStep, ClientStep

(* The core and the renderer come and go at fixed points of their owner.   *)
LEMMA CorePreserved == IInv /\ [Next]_vars => CoreInv'
<1> SUFFICES ASSUME IInv, [Next]_vars PROVE CoreInv'
  OBVIOUS
<1> USE ConnectionAssumption
    DEF
      IInv, TypeOK, OwnerInv, CoreInv, Owner, Owning, Rendering, CoreUp,
      Points, Goto, ClientGoto, startVars, coreVars, queueVars, handleVars,
      lockVars, clientVars
<1>1. ASSUME NEW s \in Session, Claim(s) PROVE CoreInv'
  BY <1>1 DEF Claim
<1>2. ASSUME NEW s \in Session, InstallRenderer(s) PROVE CoreInv'
  BY <1>2 DEF InstallRenderer
<1>3. ASSUME NEW s \in Session, BringUpCore(s) PROVE CoreInv'
  BY <1>3 DEF BringUpCore
<1>4. ASSUME NEW s \in Session, FailStage(s) PROVE CoreInv'
  BY <1>4 DEF FailStage, AudioInit, FirstError
<1>5. ASSUME NEW s \in Session, ClearAfterFailure(s) PROVE CoreInv'
  BY <1>5 DEF ClearAfterFailure
<1>6. ASSUME NEW s \in Session, ReleaseAfterFailure(s) PROVE CoreInv'
  BY <1>6 DEF ReleaseAfterFailure
<1>7. ASSUME NEW s \in Session, JoinCore(s) PROVE CoreInv'
  BY <1>7 DEF JoinCore
<1>8. ASSUME NEW s \in Session, ClearRenderer(s) PROVE CoreInv'
  BY <1>8 DEF ClearRenderer
<1>9. ASSUME NEW s \in Session, Release(s) PROVE CoreInv'
  BY <1>9 DEF Release
<1>10. ASSUME NEW s \in Session,
              \/ ResetBridge(s) \/ StartCore(s) \/ ReportStage(s)
              \/ Register(s) \/ BeginRun(s) \/ EnterWait(s) \/ WaitWoken(s)
              \/ WaitFrame(s) \/ CompleteFrame(s) \/ ReadTermination(s)
              \/ StopRequest(s) \/ StopLock(s) \/ Unregister(s)
              \/ StopCore(s) \/ StopUnlock(s) \/ OfferFrame(s)
              \/ FailAudio(s)
       PROVE  CoreInv'
  BY <1>10
     DEF ResetBridge, StartCore, ReportStage, Register, BeginRun, EnterWait,
         WaitWoken, WaitFrame, CompleteFrame, ReadTermination, StopRequest,
         StopLock, Unregister, StopCore, StopUnlock, OfferFrame, FailAudio
<1>11. ASSUME NEW s \in Session, NEW w \in Worker,
              \/ TestLatch(s, w) \/ SpawnCallback(s, w)
       PROVE  CoreInv'
  BY <1>11
     DEF TestLatch, SpawnCallback, Created
<1>12. ASSUME NEW c \in Callback,
              \/ StoreTermination(c) \/ CallbackGate(c) \/ CallbackCheck(c)
              \/ CallbackWake(c)
       PROVE  CoreInv'
  BY <1>12
     DEF StoreTermination, CallbackGate, CallbackCheck, CallbackWake
<1>13. ASSUME NEW u \in Client, NEW s \in Session,
              \/ RequestStop(u, s) \/ LockForInput(u, s)
       PROVE  CoreInv'
  BY <1>13
     DEF RequestStop, LockForInput
<1>14. ASSUME NEW u \in Client,
              \/ RequestGate(u) \/ RequestCheck(u) \/ RequestWake(u)
              \/ CheckInput(u) \/ SendInput(u)
       PROVE  CoreInv'
  BY <1>14
     DEF RequestGate, RequestCheck, RequestWake, CheckInput, SendInput
<1>15. CASE UNCHANGED vars
  BY <1>15 DEF vars
<1> QED
  BY <1>1, <1>2, <1>3, <1>4, <1>5, <1>6, <1>7, <1>8, <1>9, <1>10, <1>11,
     <1>12, <1>13, <1>14, <1>15
     DEF Next, LockStep, WorkerStep, CallbackStep, ClientStep

(* A session is registered from Register to Unregister.                    *)
LEMMA RegistrationPreserved == IInv /\ [Next]_vars => RegistrationInv'
<1> SUFFICES ASSUME IInv, [Next]_vars PROVE RegistrationInv'
  OBVIOUS
<1> USE ConnectionAssumption
    DEF
      IInv, TypeOK, OwnerInv, RegistrationInv, Owner, Owning, Registered,
      Points, Goto, ClientGoto, startVars, coreVars, queueVars, handleVars,
      lockVars, clientVars
<1>1. ASSUME NEW s \in Session, Register(s) PROVE RegistrationInv'
  BY <1>1 DEF Register
<1>2. ASSUME NEW s \in Session, Unregister(s) PROVE RegistrationInv'
  BY <1>2 DEF Unregister
<1>3. ASSUME NEW s \in Session,
             \/ Claim(s) \/ InstallRenderer(s) \/ ResetBridge(s)
             \/ BringUpCore(s) \/ FailStage(s) \/ StartCore(s)
             \/ ClearAfterFailure(s) \/ ReleaseAfterFailure(s)
             \/ ReportStage(s) \/ BeginRun(s) \/ EnterWait(s) \/ WaitWoken(s)
             \/ WaitFrame(s) \/ CompleteFrame(s) \/ ReadTermination(s)
             \/ StopRequest(s) \/ StopLock(s) \/ StopCore(s) \/ JoinCore(s)
             \/ ClearRenderer(s) \/ Release(s) \/ StopUnlock(s)
             \/ OfferFrame(s) \/ FailAudio(s)
      PROVE  RegistrationInv'
  BY <1>3
     DEF Claim, InstallRenderer, ResetBridge, BringUpCore, FailStage,
         StartCore, ClearAfterFailure, ReleaseAfterFailure, ReportStage,
         BeginRun, EnterWait, WaitWoken, WaitFrame, CompleteFrame,
         ReadTermination, StopRequest, StopLock, StopCore, JoinCore,
         ClearRenderer, Release, StopUnlock, OfferFrame, FailAudio
<1>4. ASSUME NEW s \in Session, NEW w \in Worker,
             \/ TestLatch(s, w) \/ SpawnCallback(s, w)
      PROVE  RegistrationInv'
  BY <1>4
     DEF TestLatch, SpawnCallback, Created
<1>5. ASSUME NEW c \in Callback,
             \/ StoreTermination(c) \/ CallbackGate(c) \/ CallbackCheck(c)
             \/ CallbackWake(c)
      PROVE  RegistrationInv'
  BY <1>5
     DEF StoreTermination, CallbackGate, CallbackCheck, CallbackWake
<1>6. ASSUME NEW u \in Client, NEW s \in Session,
             \/ RequestStop(u, s) \/ LockForInput(u, s)
      PROVE  RegistrationInv'
  BY <1>6
     DEF RequestStop, LockForInput
<1>7. ASSUME NEW u \in Client,
             \/ RequestGate(u) \/ RequestCheck(u) \/ RequestWake(u)
             \/ CheckInput(u) \/ SendInput(u)
      PROVE  RegistrationInv'
  BY <1>7
     DEF RequestGate, RequestCheck, RequestWake, CheckInput, SendInput
<1>8. CASE UNCHANGED vars
  BY <1>8 DEF vars
<1> QED
  BY <1>1, <1>2, <1>3, <1>4, <1>5, <1>6, <1>7, <1>8
     DEF Next, LockStep, WorkerStep, CallbackStep, ClientStep

(* CORE_CONNECTION_LOCK is held exactly by the thread inside its section.  *)
LEMMA LockPreserved == IInv /\ [Next]_vars => LockInv'
<1> SUFFICES ASSUME IInv, [Next]_vars PROVE LockInv'
  OBVIOUS
<1> USE ConnectionAssumption
    DEF
      IInv, TypeOK, OwnerInv, LockInv, Owner, Owning, Locking, Points,
      ClientPoints, Goto, ClientGoto, startVars, coreVars, queueVars,
      handleVars, lockVars, clientVars
<1>1. ASSUME NEW s \in Session, StopLock(s) PROVE LockInv'
  BY <1>1 DEF StopLock
<1>2. ASSUME NEW s \in Session, StopUnlock(s) PROVE LockInv'
  BY <1>2 DEF StopUnlock
<1>3. ASSUME NEW s \in Session,
             \/ Claim(s) \/ InstallRenderer(s) \/ ResetBridge(s)
             \/ BringUpCore(s) \/ FailStage(s) \/ StartCore(s)
             \/ ClearAfterFailure(s) \/ ReleaseAfterFailure(s)
             \/ ReportStage(s) \/ Register(s) \/ BeginRun(s) \/ EnterWait(s)
             \/ WaitWoken(s) \/ WaitFrame(s) \/ CompleteFrame(s)
             \/ ReadTermination(s) \/ StopRequest(s) \/ Unregister(s)
             \/ StopCore(s) \/ JoinCore(s) \/ ClearRenderer(s) \/ Release(s)
             \/ OfferFrame(s) \/ FailAudio(s)
      PROVE  LockInv'
  BY <1>3
     DEF Claim, InstallRenderer, ResetBridge, BringUpCore, FailStage,
         StartCore, ClearAfterFailure, ReleaseAfterFailure, ReportStage,
         Register, BeginRun, EnterWait, WaitWoken, WaitFrame, CompleteFrame,
         ReadTermination, StopRequest, Unregister, StopCore, JoinCore,
         ClearRenderer, Release, OfferFrame, FailAudio
<1>4. ASSUME NEW s \in Session, NEW w \in Worker,
             \/ TestLatch(s, w) \/ SpawnCallback(s, w)
      PROVE  LockInv'
  BY <1>4
     DEF TestLatch, SpawnCallback, Created
<1>5. ASSUME NEW c \in Callback,
             \/ StoreTermination(c) \/ CallbackGate(c) \/ CallbackCheck(c)
             \/ CallbackWake(c)
      PROVE  LockInv'
  BY <1>5
     DEF StoreTermination, CallbackGate, CallbackCheck, CallbackWake
<1>6. ASSUME NEW u \in Client, NEW s \in Session, LockForInput(u, s) PROVE LockInv'
  BY <1>6 DEF LockForInput
<1>7. ASSUME NEW u \in Client, NEW s \in Session, RequestStop(u, s) PROVE LockInv'
  BY <1>7 DEF RequestStop
<1>8. ASSUME NEW u \in Client, CheckInput(u) PROVE LockInv'
  BY <1>8 DEF CheckInput
<1>9. ASSUME NEW u \in Client, SendInput(u) PROVE LockInv'
  BY <1>9 DEF SendInput
<1>10. ASSUME NEW u \in Client,
              \/ RequestGate(u) \/ RequestCheck(u) \/ RequestWake(u)
       PROVE  LockInv'
  BY <1>10
     DEF RequestGate, RequestCheck, RequestWake
<1>11. CASE UNCHANGED vars
  BY <1>11 DEF vars
<1> QED
  BY <1>1, <1>2, <1>3, <1>4, <1>5, <1>6, <1>7, <1>8, <1>9, <1>10, <1>11
     DEF Next, LockStep, WorkerStep, CallbackStep, ClientStep

(* The gate is held exactly by the thread that inspects the registration.  *)
LEMMA GatePreserved == IInv /\ [Next]_vars => GateInv'
<1> SUFFICES ASSUME IInv, [Next]_vars PROVE GateInv'
  OBVIOUS
<1> USE ConnectionAssumption
    DEF
      IInv, TypeOK, GateInv, ClientPoints, TermPoints, Goto, ClientGoto,
      startVars, coreVars, queueVars, handleVars, lockVars, clientVars
<1>1. ASSUME NEW s \in Session,
             \/ Claim(s) \/ InstallRenderer(s) \/ ResetBridge(s)
             \/ BringUpCore(s) \/ FailStage(s) \/ StartCore(s)
             \/ ClearAfterFailure(s) \/ ReleaseAfterFailure(s)
             \/ ReportStage(s) \/ Register(s) \/ BeginRun(s) \/ EnterWait(s)
             \/ WaitWoken(s) \/ WaitFrame(s) \/ CompleteFrame(s)
             \/ ReadTermination(s) \/ StopRequest(s) \/ StopLock(s)
             \/ Unregister(s) \/ StopCore(s) \/ JoinCore(s)
             \/ ClearRenderer(s) \/ Release(s) \/ StopUnlock(s)
             \/ OfferFrame(s) \/ FailAudio(s)
      PROVE  GateInv'
  BY <1>1
     DEF Claim, InstallRenderer, ResetBridge, BringUpCore, FailStage,
         StartCore, ClearAfterFailure, ReleaseAfterFailure, ReportStage,
         Register, BeginRun, EnterWait, WaitWoken, WaitFrame, CompleteFrame,
         ReadTermination, StopRequest, StopLock, Unregister, StopCore,
         JoinCore, ClearRenderer, Release, StopUnlock, OfferFrame, FailAudio
<1>2. ASSUME NEW s \in Session, NEW w \in Worker, TestLatch(s, w) PROVE GateInv'
  BY <1>2 DEF TestLatch
<1>3. ASSUME NEW s \in Session, NEW w \in Worker, SpawnCallback(s, w) PROVE GateInv'
  BY <1>3 DEF SpawnCallback, Created
<1>4. ASSUME NEW c \in Callback, StoreTermination(c) PROVE GateInv'
  BY <1>4 DEF StoreTermination
<1>5. ASSUME NEW c \in Callback, CallbackGate(c) PROVE GateInv'
  BY <1>5 DEF CallbackGate
<1>6. ASSUME NEW c \in Callback, CallbackCheck(c) PROVE GateInv'
  BY <1>6 DEF CallbackCheck
<1>7. ASSUME NEW c \in Callback, CallbackWake(c) PROVE GateInv'
  BY <1>7 DEF CallbackWake
<1>8. ASSUME NEW u \in Client, NEW s \in Session,
             \/ RequestStop(u, s) \/ LockForInput(u, s)
      PROVE  GateInv'
  BY <1>8
     DEF RequestStop, LockForInput
<1>9. ASSUME NEW u \in Client, RequestGate(u) PROVE GateInv'
  BY <1>9 DEF RequestGate
<1>10. ASSUME NEW u \in Client, RequestCheck(u) PROVE GateInv'
  BY <1>10 DEF RequestCheck
<1>11. ASSUME NEW u \in Client, RequestWake(u) PROVE GateInv'
  BY <1>11 DEF RequestWake
<1>12. ASSUME NEW u \in Client,
              \/ CheckInput(u) \/ SendInput(u)
       PROVE  GateInv'
  BY <1>12
     DEF CheckInput, SendInput
<1>13. CASE UNCHANGED vars
  BY <1>13 DEF vars
<1> QED
  BY <1>1, <1>2, <1>3, <1>4, <1>5, <1>6, <1>7, <1>8, <1>9, <1>10, <1>11,
     <1>12, <1>13
     DEF Next, LockStep, WorkerStep, CallbackStep, ClientStep

(* What a thread saw under a lock stays true while it holds the lock.      *)
LEMMA ActorPreserved == IInv /\ [Next]_vars => ActorInv'
<1> SUFFICES ASSUME IInv, [Next]_vars PROVE ActorInv'
  OBVIOUS
<1> USE ConnectionAssumption
    DEF
      IInv, TypeOK, OwnerInv, RegistrationInv, LockInv, GateInv, ActorInv,
      Registered, Locking, ClientPoints, TermPoints, Goto, ClientGoto,
      startVars, coreVars, queueVars, handleVars, lockVars, clientVars
<1>1. ASSUME NEW s \in Session, Register(s) PROVE ActorInv'
  BY <1>1 DEF Register
<1>2. ASSUME NEW s \in Session, Unregister(s) PROVE ActorInv'
  BY <1>2 DEF Unregister
<1>3. ASSUME NEW s \in Session,
             \/ Claim(s) \/ InstallRenderer(s) \/ ResetBridge(s)
             \/ BringUpCore(s) \/ FailStage(s) \/ StartCore(s)
             \/ ClearAfterFailure(s) \/ ReleaseAfterFailure(s)
             \/ ReportStage(s) \/ BeginRun(s) \/ EnterWait(s) \/ WaitWoken(s)
             \/ WaitFrame(s) \/ CompleteFrame(s) \/ ReadTermination(s)
             \/ StopRequest(s) \/ StopLock(s) \/ StopCore(s) \/ JoinCore(s)
             \/ ClearRenderer(s) \/ Release(s) \/ StopUnlock(s)
             \/ OfferFrame(s) \/ FailAudio(s)
      PROVE  ActorInv'
  BY <1>3
     DEF Claim, InstallRenderer, ResetBridge, BringUpCore, FailStage,
         StartCore, ClearAfterFailure, ReleaseAfterFailure, ReportStage,
         BeginRun, EnterWait, WaitWoken, WaitFrame, CompleteFrame,
         ReadTermination, StopRequest, StopLock, StopCore, JoinCore,
         ClearRenderer, Release, StopUnlock, OfferFrame, FailAudio
<1>4. ASSUME NEW s \in Session, NEW w \in Worker, TestLatch(s, w) PROVE ActorInv'
  BY <1>4 DEF TestLatch
<1>5. ASSUME NEW s \in Session, NEW w \in Worker, SpawnCallback(s, w) PROVE ActorInv'
  BY <1>5 DEF SpawnCallback, Created
<1>6. ASSUME NEW c \in Callback, StoreTermination(c) PROVE ActorInv'
  BY <1>6 DEF StoreTermination
<1>7. ASSUME NEW c \in Callback, CallbackGate(c) PROVE ActorInv'
  BY <1>7 DEF CallbackGate
<1>8. ASSUME NEW c \in Callback, CallbackCheck(c) PROVE ActorInv'
  BY <1>8 DEF CallbackCheck
<1>9. ASSUME NEW c \in Callback, CallbackWake(c) PROVE ActorInv'
  BY <1>9 DEF CallbackWake
<1>10. ASSUME NEW u \in Client, NEW s \in Session, RequestStop(u, s) PROVE ActorInv'
  BY <1>10 DEF RequestStop
<1>11. ASSUME NEW u \in Client, NEW s \in Session, LockForInput(u, s) PROVE ActorInv'
  BY <1>11 DEF LockForInput
<1>12. ASSUME NEW u \in Client, RequestGate(u) PROVE ActorInv'
  BY <1>12 DEF RequestGate
<1>13. ASSUME NEW u \in Client, RequestCheck(u) PROVE ActorInv'
  BY <1>13 DEF RequestCheck
<1>14. ASSUME NEW u \in Client, RequestWake(u) PROVE ActorInv'
  BY <1>14 DEF RequestWake
<1>15. ASSUME NEW u \in Client, CheckInput(u) PROVE ActorInv'
  BY <1>15 DEF CheckInput
<1>16. ASSUME NEW u \in Client, SendInput(u) PROVE ActorInv'
  BY <1>16 DEF SendInput
<1>17. CASE UNCHANGED vars
  BY <1>17 DEF vars
<1> QED
  BY <1>1, <1>2, <1>3, <1>4, <1>5, <1>6, <1>7, <1>8, <1>9, <1>10, <1>11,
     <1>12, <1>13, <1>14, <1>15, <1>16, <1>17
     DEF Next, LockStep, WorkerStep, CallbackStep, ClientStep

-----------------------------------------------------------------------------
LEMMA IInvPreserved == IInv /\ [Next]_vars => IInv'
BY TypePreserved, OwnerPreserved, CorePreserved, RegistrationPreserved,
   LockPreserved, GatePreserved, ActorPreserved DEF IInv

LEMMA IInvHolds == Spec => []IInv
BY InitIInv, IInvPreserved, PTL DEF Spec

(* All variables of the connection keep to their types.                    *)
THEOREM TypeCorrect == Spec => []TypeOK
<1>1. IInv => TypeOK
  BY DEF IInv
<1> QED
  BY IInvHolds, <1>1, PTL

(* However attempts, stops and failures interleave, the transport core, the *)
(* audio renderer and the registration for wakes belong to one attempt,     *)
(* the owner of the singleton.                                              *)
THEOREM CoreSafe == Spec => []CoreBelongsToOwner
<1>1. IInv => CoreBelongsToOwner
  BY DEF IInv, OwnerInv, CoreInv, RegistrationInv, CoreBelongsToOwner, Owner,
         Owning, CoreUp, Rendering, Registered, Points
<1> QED
  BY IInvHolds, <1>1, PTL

(* No wake reaches a destroyed queue: request_stop and the termination     *)
(* callback check the registration under the gate that teardown needs.     *)
THEOREM WakeSafe == Spec => []WakeHitsLiveQueue
<1>1. ASSUME IInv PROVE WakeHitsLiveQueue
  <2> USE ConnectionAssumption, <1>1 DEF IInv, TypeOK, ActorInv, Registered, CoreUp
  <2>1. \A s \in Session : pc[s] \in Registered => core = s
    BY DEF CoreInv
  <2>2. ASSUME NEW u \in Client, clientPc[u] = "wake" PROVE core = target[u]
    BY <2>1, <2>2 DEF RegistrationInv
  <2>3. ASSUME NEW c \in Callback, term[c] = "wake" PROVE core # None
    BY <2>1, <2>3 DEF RegistrationInv
  <2> QED
    BY <2>2, <2>3 DEF WakeHitsLiveQueue
<1> QED
  BY IInvHolds, <1>1, PTL

(* Input is only ever sent to the core the handle was made for, and stop   *)
(* cannot dismantle that core under a running send.                        *)
THEOREM InputSafe == Spec => []InputReachesOwnCore
<1>1. IInv => InputReachesOwnCore
  BY DEF IInv, ActorInv, RegistrationInv, CoreInv, InputReachesOwnCore,
         Registered, CoreUp
<1> QED
  BY IInvHolds, <1>1, PTL

(* The frame loop never waits on a queue other than its own live one.      *)
THEOREM ConsumerSafe == Spec => []ConsumerHasQueue
<1>1. IInv => ConsumerHasQueue
  BY DEF IInv, RegistrationInv, CoreInv, ConsumerHasQueue, Registered, CoreUp
<1> QED
  BY IInvHolds, <1>1, PTL

-----------------------------------------------------------------------------
(* What the bridge and the audio callbacks recorded is the owner's while   *)
(* it has its renderer installed, and so is what it reported of it.        *)
ReportInv ==
  \A s \in Session :
    /\ pc[s] \in Rendering => audioError \in {None, s}
    /\ Owner(s) /\ pc[s] \notin {"install", "start"} => lastStage = s
    /\ outcome[s].error = "audio" => outcome[s].by = s

LEMMA ReportPreserved == IInv /\ ReportInv /\ [Next]_vars => ReportInv'
<1> SUFFICES ASSUME IInv, ReportInv, [Next]_vars PROVE ReportInv'
  OBVIOUS
<1> USE ConnectionAssumption
    DEF
      IInv, TypeOK, OwnerInv, CoreInv, ReportInv, Owner, Owning, Rendering, Points,
      Goto, Tell, startVars, coreVars, queueVars, handleVars, lockVars, clientVars
<1>1. ASSUME NEW s \in Session, Claim(s) PROVE ReportInv'
  BY <1>1 DEF Claim
<1>2. ASSUME NEW s \in Session, InstallRenderer(s) PROVE ReportInv'
  BY <1>2 DEF InstallRenderer
<1>3. ASSUME NEW s \in Session, ResetBridge(s) \/ BringUpCore(s) PROVE ReportInv'
  BY <1>3 DEF ResetBridge, BringUpCore
<1>4. ASSUME NEW s \in Session, FailStage(s) PROVE ReportInv'
  BY <1>4 DEF FailStage, AudioInit, FirstError
<1>5. ASSUME NEW s \in Session, FailAudio(s) PROVE ReportInv'
  BY <1>5 DEF FailAudio, FirstError
<1>6. ASSUME NEW s \in Session, ClearAfterFailure(s) PROVE ReportInv'
  BY <1>6 DEF ClearAfterFailure
<1>7. ASSUME NEW s \in Session, ReportStage(s) \/ ReadTermination(s) PROVE ReportInv'
  BY <1>7 DEF ReportStage, ReadTermination
<1>8. ASSUME NEW s \in Session,
             \/ StartCore(s) \/ ReleaseAfterFailure(s) \/ Register(s) \/ BeginRun(s)
             \/ EnterWait(s) \/ WaitWoken(s) \/ WaitFrame(s) \/ CompleteFrame(s)
             \/ StopRequest(s) \/ StopLock(s) \/ Unregister(s) \/ StopCore(s)
             \/ JoinCore(s) \/ ClearRenderer(s) \/ Release(s) \/ StopUnlock(s)
      PROVE  ReportInv'
  BY <1>8
     DEF StartCore, ReleaseAfterFailure, Register, BeginRun, EnterWait, WaitWoken,
         WaitFrame, CompleteFrame, StopRequest, StopLock, Unregister, StopCore,
         JoinCore, ClearRenderer, Release, StopUnlock
<1>9. CASE UNCHANGED <<pc, startVars, outcome>>
  BY <1>9
<1>10. ASSUME NEW s \in Session, OfferFrame(s) PROVE UNCHANGED <<pc, startVars, outcome>>
  BY <1>10 DEF OfferFrame
<1>11. ASSUME NEW s \in Session, NEW w \in Worker, TestLatch(s, w) \/ SpawnCallback(s, w)
       PROVE  UNCHANGED <<pc, startVars, outcome>>
  BY <1>11 DEF TestLatch, SpawnCallback
<1>12. ASSUME NEW c \in Callback, CallbackStep(c) \/ CallbackGate(c)
       PROVE  UNCHANGED <<pc, startVars, outcome>>
  BY <1>12 DEF CallbackStep, StoreTermination, CallbackGate, CallbackCheck, CallbackWake
<1>13. ASSUME NEW u \in Client, NEW s \in Session, RequestStop(u, s) \/ LockForInput(u, s)
       PROVE  UNCHANGED <<pc, startVars, outcome>>
  BY <1>13 DEF RequestStop, LockForInput
<1>14. ASSUME NEW u \in Client, ClientStep(u) \/ RequestGate(u)
       PROVE  UNCHANGED <<pc, startVars, outcome>>
  BY <1>14 DEF ClientStep, RequestGate, RequestCheck, RequestWake, CheckInput, SendInput
<1>15. CASE UNCHANGED vars
  BY <1>15 DEF vars
<1> QED
  BY <1>1, <1>2, <1>3, <1>4, <1>5, <1>6, <1>7, <1>8, <1>9, <1>10, <1>11, <1>12, <1>13,
     <1>14, <1>15 DEF Next, LockStep, WorkerStep

(* For any number of attempts, the stage and the audio error that the      *)
(* owner of the singleton can read are its own, and no attempt ever        *)
(* reports another's audio error.                                          *)
THEOREM ReportsSafe == Spec => []ReportsAreOwn
<1>1. ASSUME Init PROVE ReportInv
  <2> SUFFICES ASSUME NEW s \in Session
               PROVE  /\ pc[s] = "idle"
                      /\ outcome[s].error # "audio"
    BY DEF ReportInv, Owner, Owning, Rendering, Points
  <2>1. outcome[s] = [error |-> "none", by |-> None]
    BY <1>1 DEF Init
  <2> QED
    BY <1>1, <2>1 DEF Init
<1>2. ReportInv => ReportsAreOwn
  BY DEF ReportInv, ReportsAreOwn
<1> QED
  BY IInvHolds, <1>1, <1>2, ReportPreserved, PTL DEF Spec

(***************************************************************************)
(* The lease: only Claim makes an owner, when there is none, and only the  *)
(* two releases unmake one.                                                *)
(***************************************************************************)
LEMMA OwnerIsChosen ==
  ASSUME IInv, NEW s \in Session, Owner(s)
  PROVE  OwnerOrNone = s
BY DEF IInv, OwnerInv, OwnerOrNone

LEMMA LeaseStep == IInv /\ IInv' /\ [Next]_vars => [Lease!Next]_OwnerOrNone
<1> SUFFICES ASSUME IInv, IInv', [Next]_vars PROVE [Lease!Next]_OwnerOrNone
  OBVIOUS
<1>1. ASSUME \A s \in Session : Owner(s)' <=> Owner(s)
      PROVE  OwnerOrNone' = OwnerOrNone
  <2>1. CASE \E s \in Session : Owner(s)
    <3>1. PICK s \in Session : Owner(s)
      BY <2>1
    <3>2. OwnerOrNone = s
      BY <3>1, OwnerIsChosen
    <3>3. OwnerOrNone' = s
      BY <1>1, <3>1 DEF IInv, OwnerInv, OwnerOrNone
    <3> QED
      BY <3>2, <3>3
  <2>2. CASE ~\E s \in Session : Owner(s)
    BY <1>1, <2>2 DEF OwnerOrNone
  <2> QED
    BY <2>1, <2>2
<1>2. ASSUME NEW s \in Session, Claim(s) PROVE [Lease!Next]_OwnerOrNone
  <2>1. CASE pc'[s] # "install"
    <3>1. \A t \in Session : Owner(t)' <=> Owner(t)
      BY <1>2, <2>1 DEF Claim, Goto, Owner, Owning, Points, IInv, TypeOK
    <3> QED
      BY <1>1, <3>1
  <2>2. CASE pc'[s] = "install"
    <3>1. ~connectionActive
      BY <1>2, <2>2 DEF Claim, Goto, IInv, TypeOK
    <3>2. OwnerOrNone = None
      BY <3>1 DEF IInv, OwnerInv, OwnerOrNone
    <3>3. Owner(s)'
      BY <2>2 DEF Owner, Owning, Points
    <3>4. OwnerOrNone' = s
      BY <3>3 DEF IInv, OwnerInv, OwnerOrNone
    <3> QED
      BY <3>2, <3>4 DEF Lease!Next, Lease!Acquire
  <2> QED
    BY <2>1, <2>2
<1>3. ASSUME NEW s \in Session, ReleaseAfterFailure(s) \/ Release(s)
      PROVE  [Lease!Next]_OwnerOrNone
  <2>1. Owner(s)
    BY <1>3 DEF ReleaseAfterFailure, Release, Goto, Owner, Owning, Points
  <2>2. OwnerOrNone = s
    BY <2>1, OwnerIsChosen
  <2>3. CASE Owner(s)'
    <3>1. OwnerOrNone' = s
      BY <2>3 DEF IInv, OwnerInv, OwnerOrNone
    <3> QED
      BY <2>2, <3>1
  <2>4. CASE ~Owner(s)'
    <3>1. \A t \in Session \ {s} : ~Owner(t)'
      BY <1>3, <2>1 DEF ReleaseAfterFailure, Release, Goto, Owner, IInv, TypeOK, OwnerInv
    <3>2. OwnerOrNone' = None
      BY <2>4, <3>1 DEF OwnerOrNone
    <3> QED
      BY <2>2, <3>2 DEF Lease!Next, Lease!Release
  <2> QED
    BY <2>3, <2>4
<1>4. ASSUME NEW s \in Session,
             LockStep(s) \/ WorkerStep(s), ~Release(s), ~ReleaseAfterFailure(s)
      PROVE  \A t \in Session : Owner(t)' <=> Owner(t)
  BY <1>4
     DEF LockStep, WorkerStep, InstallRenderer, ResetBridge, BringUpCore, FailStage,
         StartCore, ClearAfterFailure, ReportStage, Register, BeginRun, EnterWait,
         WaitWoken, WaitFrame, CompleteFrame, ReadTermination, StopRequest, StopLock,
         Unregister, StopCore, JoinCore, ClearRenderer, StopUnlock, Goto, Owner,
         Owning, Points, IInv, TypeOK
<1>5. CASE UNCHANGED pc
  BY <1>1, <1>5 DEF Owner
<1>6. ASSUME NEW s \in Session, OfferFrame(s) \/ FailAudio(s) PROVE UNCHANGED pc
  BY <1>6 DEF OfferFrame, FailAudio
<1>7. ASSUME NEW s \in Session, NEW w \in Worker, TestLatch(s, w) \/ SpawnCallback(s, w)
      PROVE  UNCHANGED pc
  BY <1>7 DEF TestLatch, SpawnCallback, Created
<1>8. ASSUME NEW c \in Callback, CallbackStep(c) \/ CallbackGate(c) PROVE UNCHANGED pc
  BY <1>8 DEF CallbackStep, StoreTermination, CallbackGate, CallbackCheck, CallbackWake
<1>9. ASSUME NEW u \in Client, NEW s \in Session, RequestStop(u, s) \/ LockForInput(u, s)
      PROVE  UNCHANGED pc
  BY <1>9 DEF RequestStop, LockForInput
<1>10. ASSUME NEW u \in Client, ClientStep(u) \/ RequestGate(u) PROVE UNCHANGED pc
  BY <1>10 DEF ClientStep, RequestGate, RequestCheck, RequestWake, CheckInput, SendInput
<1> QED
  BY <1>1, <1>2, <1>3, <1>4, <1>5, <1>6, <1>7, <1>8, <1>9, <1>10 DEF Next, vars

(* Connection implements the abstract mutex: the singleton passes from one *)
(* attempt to the next only through a state in which nobody owns it.       *)
THEOREM Refinement == Spec => ImplementsLease
<1>1. Init => Lease!Init
  BY DEF Init, Lease!Init, OwnerOrNone, Owner, Owning, Points
<1> QED
  BY IInvHolds, <1>1, LeaseStep, PTL DEF Spec, ImplementsLease, Lease!Spec

-----------------------------------------------------------------------------
(***************************************************************************)
(* What ends a wait.  A worker waits for frames only while the wake that a *)
(* stop or a termination owes it is delivered already or still to come     *)
(* from a thread that cannot miss it: of the two orders in which the flag  *)
(* and the gate are touched (connection.rs, request_stop and               *)
(* mls_rust_connection_terminated) neither loses the wake.                 *)
(***************************************************************************)
Requesting(u) == clientPc[u] \in {"gate", "check", "wake"}
Reporting(c) == term[c] \in {"stored", "gate", "wake"}

StopComes(s) == pendingWake \/ \E u \in Client : target[u] = s /\ Requesting(u)
EndComes == pendingWake \/ \E c \in Callback : Reporting(c)

NoWakeLost ==
  \A s \in Session : pc[s] = "wait" =>
    /\ stopRequested[s] => StopComes(s)
    /\ terminationError # None => EndComes

(* A worker that waits after a step waited before, with the same flag, or  *)
(* has just found both flags clear.                                        *)
LEMMA WorkersAndWaits ==
  ASSUME IInv, NEW s \in Session, pc'[s] = "wait",
         NEW t \in Session, Claim(t) \/ LockStep(t) \/ WorkerStep(t)
  PROVE  /\ UNCHANGED <<term, clientVars>>
         /\ \/ ~stopRequested'[s] /\ terminationError' = None
            \/ /\ pc[s] = "wait"
               /\ UNCHANGED <<pendingWake, terminationError>>
               /\ stopRequested'[s] = stopRequested[s]
<1> USE ConnectionAssumption
    DEF
      IInv, TypeOK, OwnerInv, Owner, Owning, Points,
      Goto, startVars, coreVars, queueVars, handleVars, lockVars
<1>1. CASE Claim(t)
  BY <1>1 DEF Claim
<1>2. CASE LockStep(t)
  BY <1>2 DEF LockStep, Register, StopLock, Unregister
<1>3. CASE InstallRenderer(t) \/ ResetBridge(t) \/ BringUpCore(t) \/ FailStage(t)
  BY <1>3 DEF InstallRenderer, ResetBridge, BringUpCore, FailStage
<1>4. CASE StartCore(t) \/ ClearAfterFailure(t) \/ ReleaseAfterFailure(t) \/ ReportStage(t)
  BY <1>4 DEF StartCore, ClearAfterFailure, ReleaseAfterFailure, ReportStage
<1>5. CASE EnterWait(t)
  BY <1>5 DEF EnterWait, MayWait
<1>6. CASE BeginRun(t) \/ WaitWoken(t) \/ WaitFrame(t) \/ CompleteFrame(t)
             \/ ReadTermination(t)
  BY <1>6 DEF BeginRun, WaitWoken, WaitFrame, CompleteFrame, ReadTermination
<1>7. CASE StopRequest(t) \/ StopCore(t) \/ JoinCore(t) \/ ClearRenderer(t)
             \/ Release(t) \/ StopUnlock(t)
  BY <1>7 DEF StopRequest, StopCore, JoinCore, ClearRenderer, Release, StopUnlock
<1> QED
  BY <1>1, <1>2, <1>3, <1>4, <1>5, <1>6, <1>7 DEF WorkerStep

(* A client that is to wake a waiting worker still is, or has.             *)
LEMMA ClientsKeepStops ==
  ASSUME IInv, NEW s \in Session, pc[s] = "wait", StopComes(s),
         NEW u \in Client, ClientStep(u) \/ RequestGate(u)
  PROVE  StopComes(s)'
<1> USE DEF IInv, TypeOK, StopComes, Requesting, ClientGoto
<1>1. CASE RequestGate(u) \/ CheckInput(u) \/ SendInput(u)
  BY <1>1 DEF RequestGate, CheckInput, SendInput, queueVars
<1>2. CASE RequestCheck(u)
  <2>1. active[s]
    BY DEF RegistrationInv, Registered
  <2>2. pendingWake' = pendingWake /\ target' = target
    BY <1>2 DEF RequestCheck, queueVars
  <2>3. ASSUME NEW v \in Client, target[v] = s, Requesting(v)
        PROVE  clientPc'[v] \in {"gate", "check", "wake"}
    BY <1>2, <2>1, <2>3 DEF RequestCheck
  <2> QED
    BY <2>2, <2>3
<1>3. CASE RequestWake(u)
  BY <1>3 DEF RequestWake
<1> QED
  BY <1>1, <1>2, <1>3 DEF ClientStep

(* So is a thread that is to report a termination.                         *)
LEMMA CallbacksKeepEnds ==
  ASSUME IInv, NEW s \in Session, pc[s] = "wait", terminationError' # None,
         terminationError # None => EndComes,
         NEW c \in Callback, CallbackStep(c) \/ CallbackGate(c)
  PROVE  EndComes'
<1> USE DEF IInv, TypeOK, EndComes, Reporting
<1>1. CASE StoreTermination(c)
  BY <1>1 DEF StoreTermination
<1>2. CASE CallbackGate(c)
  BY <1>2 DEF CallbackGate, coreVars, queueVars
<1>3. CASE CallbackCheck(c)
  <2>1. wakeState # None
    BY ConnectionAssumption DEF RegistrationInv, Registered
  <2>2. term' = [term EXCEPT ![c] = "wake"]
    BY <1>3, <2>1 DEF CallbackCheck
  <2> QED
    BY <2>2
<1>4. CASE CallbackWake(c)
  BY <1>4 DEF CallbackWake
<1> QED
  BY <1>1, <1>2, <1>3, <1>4 DEF CallbackStep

LEMMA WakesPreserved == IInv /\ NoWakeLost /\ [Next]_vars => NoWakeLost'
<1> SUFFICES ASSUME IInv, NoWakeLost, [Next]_vars,
                    NEW s \in Session, pc'[s] = "wait"
             PROVE  /\ stopRequested'[s] => StopComes(s)'
                    /\ terminationError' # None => EndComes'
  BY DEF NoWakeLost
<1>1. ASSUME NEW t \in Session, Claim(t) \/ LockStep(t) \/ WorkerStep(t)
      PROVE  /\ stopRequested'[s] => StopComes(s)'
             /\ terminationError' # None => EndComes'
  BY <1>1, WorkersAndWaits
     DEF NoWakeLost, StopComes, EndComes, Requesting, Reporting, clientVars
<1>2. ASSUME NEW t \in Session, OfferFrame(t) \/ FailAudio(t)
      PROVE  /\ stopRequested'[s] => StopComes(s)'
             /\ terminationError' # None => EndComes'
  BY <1>2 DEF OfferFrame, FailAudio, NoWakeLost, StopComes, EndComes, Requesting,
              Reporting, clientVars, handleVars, coreVars, queueVars
<1>3. ASSUME NEW t \in Session, NEW w \in Worker, TestLatch(t, w) \/ SpawnCallback(t, w)
      PROVE  /\ stopRequested'[s] => StopComes(s)'
             /\ terminationError' # None => EndComes'
  <2>1. UNCHANGED <<pc, stopRequested, pendingWake, clientPc, target, terminationError>>
    BY <1>3 DEF TestLatch, SpawnCallback, handleVars, coreVars, queueVars, clientVars
  <2>2. ASSUME NEW c \in Callback, Reporting(c) PROVE Reporting(c)'
    <3>1. <<t, w>> \in Callback /\ term[<<t, w>>] \in {"none", "passed"}
      BY <1>3 DEF TestLatch, SpawnCallback, Callback
    <3>2. term'[c] = term[c]
      BY <1>3, <2>2, <3>1 DEF TestLatch, SpawnCallback, Reporting, IInv, TypeOK
    <3> QED
      BY <2>2, <3>2 DEF Reporting
  <2> QED
    BY <2>1, <2>2 DEF NoWakeLost, StopComes, EndComes, Requesting
<1>4. ASSUME NEW u \in Client, NEW t \in Session, RequestStop(u, t) \/ LockForInput(u, t)
      PROVE  /\ stopRequested'[s] => StopComes(s)'
             /\ terminationError' # None => EndComes'
  <2>1. UNCHANGED <<pc, pendingWake, term, terminationError>>
    BY <1>4 DEF RequestStop, LockForInput, coreVars, queueVars
  <2>2. ASSUME NEW v \in Client, target[v] = s, Requesting(v)
        PROVE  target'[v] = s /\ Requesting(v)'
    BY <1>4, <2>2 DEF RequestStop, LockForInput, ClientGoto, Requesting, IInv, TypeOK
  <2>3. CASE RequestStop(u, t) /\ t = s
    <3>1. target'[u] = s /\ Requesting(u)'
      BY <2>3 DEF RequestStop, ClientGoto, Requesting, IInv, TypeOK
    <3> QED
      BY <2>1, <3>1 DEF NoWakeLost, StopComes, EndComes, Reporting
  <2>4. CASE ~(RequestStop(u, t) /\ t = s)
    <3>1. stopRequested'[s] = stopRequested[s]
      BY <1>4, <2>4 DEF RequestStop, LockForInput, handleVars, IInv, TypeOK
    <3> QED
      BY <2>1, <2>2, <3>1 DEF NoWakeLost, StopComes, EndComes, Reporting
  <2> QED
    BY <2>3, <2>4
<1>5. ASSUME NEW u \in Client, ClientStep(u) \/ RequestGate(u)
      PROVE  /\ stopRequested'[s] => StopComes(s)'
             /\ terminationError' # None => EndComes'
  <2>1. /\ UNCHANGED <<pc, stopRequested, term, terminationError>>
        /\ pendingWake => pendingWake'
    BY <1>5 DEF ClientStep, RequestGate, RequestCheck, RequestWake, CheckInput, SendInput,
                handleVars, coreVars, queueVars
  <2>2. pc[s] = "wait"
    BY <2>1
  <2>3. stopRequested'[s] => StopComes(s)'
    BY <1>5, <2>1, <2>2, ClientsKeepStops DEF NoWakeLost
  <2>4. terminationError' # None => EndComes'
    BY <2>1, <2>2 DEF NoWakeLost, EndComes, Reporting
  <2> QED
    BY <2>3, <2>4
<1>6. ASSUME NEW c \in Callback, CallbackStep(c) \/ CallbackGate(c)
      PROVE  /\ stopRequested'[s] => StopComes(s)'
             /\ terminationError' # None => EndComes'
  <2>1. /\ UNCHANGED <<pc, stopRequested, clientPc, target>>
        /\ pendingWake => pendingWake'
    BY <1>6 DEF CallbackStep, StoreTermination, CallbackGate, CallbackCheck, CallbackWake,
                handleVars, queueVars, clientVars
  <2>2. pc[s] = "wait"
    BY <2>1
  <2>3. stopRequested'[s] => StopComes(s)'
    BY <2>1, <2>2 DEF NoWakeLost, StopComes, Requesting
  <2>4. terminationError' # None => EndComes'
    BY <1>6, <2>2, CallbacksKeepEnds DEF NoWakeLost
  <2> QED
    BY <2>3, <2>4
<1>7. CASE UNCHANGED vars
  BY <1>7 DEF vars, NoWakeLost, StopComes, EndComes, Requesting, Reporting,
              clientVars, handleVars, coreVars, queueVars
<1> QED
  BY <1>1, <1>2, <1>3, <1>4, <1>5, <1>6, <1>7 DEF Next

(* However many attempts, handles and core threads there are: a worker     *)
(* that waits for a frame and was asked to stop, or whose core reported    *)
(* the end, has its wake in the queue or on the way.  This is what         *)
(* StopIsObeyed and TerminationEndsLoop rest on.                           *)
THEOREM WakesArrive == Spec => []NoWakeLost
<1>1. Init => NoWakeLost
  BY DEF Init, NoWakeLost
<1> QED
  BY IInvHolds, WakesPreserved, <1>1, PTL DEF Spec

-----------------------------------------------------------------------------
(***************************************************************************)
(* The two locks.  coreLock and gate are variables here, set where the     *)
(* code locks and cleared where its guards are dropped.  That they are     *)
(* used as a mutex allows is not a matter of these assignments alone: a    *)
(* release is only one if the lock is still the releaser's (LockInv,       *)
(* GateInv), through every other thread's steps since it was taken.        *)
(***************************************************************************)
CoreMutex == INSTANCE Mutex
               WITH Thread <- Session \cup Client, Nobody <- None, holder <- coreLock
GateMutex == INSTANCE Mutex
               WITH Thread <- Client \cup Callback, Nobody <- None, holder <- gate

(* Every step but these leaves both locks alone.                           *)
LEMMA StepsOnLocks ==
  ASSUME [Next]_vars
  PROVE  \/ UNCHANGED <<coreLock, gate>>
         \/ \E s \in Session : StopLock(s) \/ StopUnlock(s)
         \/ \E u \in Client, s \in Session : LockForInput(u, s)
         \/ \E u \in Client : CheckInput(u) \/ SendInput(u)
         \/ \E u \in Client : RequestGate(u) \/ RequestCheck(u) \/ RequestWake(u)
         \/ \E c \in Callback : CallbackGate(c) \/ CallbackCheck(c) \/ CallbackWake(c)
<1> USE DEF lockVars
<1>1. ASSUME NEW s \in Session,
             \/ Claim(s) \/ Register(s) \/ Unregister(s) \/ OfferFrame(s) \/ FailAudio(s)
             \/ WorkerStep(s) /\ ~StopUnlock(s)
      PROVE  UNCHANGED <<coreLock, gate>>
  BY <1>1
     DEF Claim, Register, Unregister, OfferFrame, FailAudio, WorkerStep,
         InstallRenderer, ResetBridge, BringUpCore, FailStage, StartCore,
         ClearAfterFailure, ReleaseAfterFailure, ReportStage, BeginRun, EnterWait,
         WaitWoken, WaitFrame, CompleteFrame, ReadTermination, StopRequest, StopCore,
         JoinCore, ClearRenderer, Release
<1>2. ASSUME NEW s \in Session, NEW w \in Worker, TestLatch(s, w) \/ SpawnCallback(s, w)
      PROVE  UNCHANGED <<coreLock, gate>>
  BY <1>2 DEF TestLatch, SpawnCallback
<1>3. ASSUME NEW c \in Callback, StoreTermination(c)
      PROVE  UNCHANGED <<coreLock, gate>>
  BY <1>3 DEF StoreTermination
<1>4. ASSUME NEW u \in Client, NEW s \in Session, RequestStop(u, s)
      PROVE  UNCHANGED <<coreLock, gate>>
  BY <1>4 DEF RequestStop
<1>5. CASE UNCHANGED vars
  BY <1>5 DEF vars
<1> QED
  BY <1>1, <1>2, <1>3, <1>4, <1>5 DEF Next, LockStep, CallbackStep, ClientStep

(* CORE_CONNECTION_LOCK is taken by a stop or an input only when nobody    *)
(* has it, and given back by the one that took it.                         *)
THEOREM CoreLockIsMutex == Spec => CoreMutex!Spec
<1>1. Init => CoreMutex!Init
  BY DEF Init, CoreMutex!Init
<1>2. IInv /\ [Next]_vars => [CoreMutex!Next]_coreLock
  <2> SUFFICES ASSUME IInv, [Next]_vars
               PROVE  \/ UNCHANGED coreLock
                      \/ \E t \in Session \cup Client :
                           CoreMutex!Acquire(t) \/ CoreMutex!Release(t)
    BY DEF CoreMutex!Next
  <2> USE DEF IInv, LockInv, Locking, CoreMutex!Acquire, CoreMutex!Release,
              Goto, ClientGoto
  <2>1. ASSUME NEW s \in Session, StopLock(s) PROVE CoreMutex!Acquire(s)
    BY <2>1 DEF StopLock
  <2>2. ASSUME NEW s \in Session, StopUnlock(s) PROVE CoreMutex!Release(s)
    BY <2>2 DEF StopUnlock
  <2>3. ASSUME NEW u \in Client, NEW s \in Session, LockForInput(u, s)
        PROVE  CoreMutex!Acquire(u)
    BY <2>3 DEF LockForInput
  <2>4. ASSUME NEW u \in Client, CheckInput(u) \/ SendInput(u)
        PROVE  UNCHANGED coreLock \/ CoreMutex!Release(u)
    BY <2>4 DEF CheckInput, SendInput
  <2>5. ASSUME NEW u \in Client, RequestGate(u) \/ RequestCheck(u) \/ RequestWake(u)
        PROVE  UNCHANGED coreLock
    BY <2>5 DEF RequestGate, RequestCheck, RequestWake
  <2>6. ASSUME NEW c \in Callback, CallbackGate(c) \/ CallbackCheck(c) \/ CallbackWake(c)
        PROVE  UNCHANGED coreLock
    BY <2>6 DEF CallbackGate, CallbackCheck, CallbackWake
  <2> QED
    BY StepsOnLocks, <2>1, <2>2, <2>3, <2>4, <2>5, <2>6
<1> QED
  BY IInvHolds, <1>1, <1>2, PTL DEF Spec, CoreMutex!Spec

(* The gate of VIDEO_WAKE_STATE is taken by a request or a termination     *)
(* callback only when nobody has it, and given back by the one that took   *)
(* it; a registration or unregistration needs it free and leaves it so.    *)
THEOREM GateIsMutex == Spec => GateMutex!Spec
<1>1. Init => GateMutex!Init
  BY DEF Init, GateMutex!Init
<1>2. IInv /\ [Next]_vars => [GateMutex!Next]_gate
  <2> SUFFICES ASSUME IInv, [Next]_vars
               PROVE  \/ UNCHANGED gate
                      \/ \E t \in Client \cup Callback :
                           GateMutex!Acquire(t) \/ GateMutex!Release(t)
    BY DEF GateMutex!Next
  <2> USE DEF IInv, GateInv, GateMutex!Acquire, GateMutex!Release, ClientGoto
  <2>1. ASSUME NEW u \in Client, RequestGate(u) PROVE GateMutex!Acquire(u)
    BY <2>1 DEF RequestGate
  <2>2. ASSUME NEW u \in Client, RequestCheck(u) \/ RequestWake(u)
        PROVE  UNCHANGED gate \/ GateMutex!Release(u)
    BY <2>2 DEF RequestCheck, RequestWake
  <2>3. ASSUME NEW c \in Callback, CallbackGate(c) PROVE GateMutex!Acquire(c)
    BY <2>3 DEF CallbackGate
  <2>4. ASSUME NEW c \in Callback, CallbackCheck(c) \/ CallbackWake(c)
        PROVE  UNCHANGED gate \/ GateMutex!Release(c)
    BY <2>4 DEF CallbackCheck, CallbackWake
  <2>5. ASSUME NEW s \in Session, StopLock(s) \/ StopUnlock(s)
        PROVE  UNCHANGED gate
    BY <2>5 DEF StopLock, StopUnlock
  <2>6. ASSUME NEW u \in Client, NEW s \in Session, LockForInput(u, s)
        PROVE  UNCHANGED gate
    BY <2>6 DEF LockForInput
  <2>7. ASSUME NEW u \in Client, CheckInput(u) \/ SendInput(u)
        PROVE  UNCHANGED gate
    BY <2>7 DEF CheckInput, SendInput
  <2> QED
    BY StepsOnLocks, <2>1, <2>2, <2>3, <2>4, <2>5, <2>6, <2>7
<1> QED
  BY IInvHolds, <1>1, <1>2, PTL DEF Spec, GateMutex!Spec

-----------------------------------------------------------------------------
(***************************************************************************)
(* Who waits for whom: for a lock, or, in stop and in a failed start, for  *)
(* a core thread between the latch and the end of its spawn.  A thread is  *)
(* the worker of an attempt, a client, or a core thread with the callback  *)
(* that it spawns; an idle client may be about to send input.              *)
(***************************************************************************)
Thread ==
  [role : {"worker"}, of : Session] \cup [role : {"client"}, of : Client]
    \cup [role : {"core"}, of : Callback]

WantsGate(t) ==
  \/ t.role = "worker" /\ pc[t.of] \in {"register", "unregister"}
  \/ t.role = "client" /\ clientPc[t.of] = "gate"
  \/ t.role = "core" /\ term[t.of] = "stored"
WantsCoreLock(t) ==
  \/ t.role = "worker" /\ pc[t.of] = "lock"
  \/ t.role = "client" /\ clientPc[t.of] = "idle"

HasGate(t) == t.role \in {"client", "core"} /\ gate = t.of
HasCoreLock(t) == t.role \in {"worker", "client"} /\ coreLock = t.of

Joins(t, u) ==
  /\ t.role = "worker" /\ pc[t.of] \in {"up", "join"}
  /\ u.role = "core" /\ u.of[1] = t.of /\ term[u.of] = "passed"

WaitsFor(t, u) ==
  (WantsGate(t) /\ HasGate(u)) \/ (WantsCoreLock(t) /\ HasCoreLock(u)) \/ Joins(t, u)

(* Who waits for a thread that waits waits for one that goes on.           *)
ChainsOfWaitsEnd ==
  \A t, u, v, w \in Thread : ~(WaitsFor(t, u) /\ WaitsFor(u, v) /\ WaitsFor(v, w))

(* Who has the gate, or is to be joined, waits for nobody.                 *)
LEMMA LastOfChain ==
  ASSUME IInv, NEW u \in Thread, NEW v \in Thread,
         WaitsFor(u, v), ~HasCoreLock(v)
  PROVE  \A w \in Thread : ~WaitsFor(v, w)
<1> USE ConnectionAssumption DEF Thread, WaitsFor, WantsGate, WantsCoreLock, Joins
<1>1. CASE HasGate(v)
  BY <1>1 DEF HasGate, IInv, GateInv
<1>2. CASE Joins(u, v)
  BY <1>2
<1> QED
  BY <1>1, <1>2

(* Who has the core lock wants it no more.                                 *)
LEMMA CoreLockOnce ==
  ASSUME IInv, NEW u \in Thread, HasCoreLock(u)
  PROVE  ~WantsCoreLock(u)
BY ConnectionAssumption DEF Thread, HasCoreLock, WantsCoreLock, IInv, LockInv, Locking

(* However many attempts, clients and core threads there are, the two      *)
(* locks and the joins of stop never make threads wait in a circle: a      *)
(* chain of waits has two links at most, through the core lock first.      *)
THEOREM NoCircleOfWaits == Spec => []ChainsOfWaitsEnd
<1>1. ASSUME IInv, NEW t \in Thread, NEW u \in Thread, NEW v \in Thread, NEW w \in Thread,
             WaitsFor(t, u), WaitsFor(u, v), WaitsFor(v, w)
      PROVE  FALSE
  <2>1. HasCoreLock(u) /\ HasCoreLock(v)
    BY <1>1, LastOfChain
  <2>2. ~WantsCoreLock(u)
    BY <1>1, <2>1, CoreLockOnce
  <2>3. ~HasGate(v) /\ ~Joins(u, v)
    BY <1>1, <2>1, ConnectionAssumption
       DEF Thread, HasCoreLock, HasGate, Joins, WaitsFor, WantsGate, WantsCoreLock,
           IInv, TypeOK, LockInv, GateInv
  <2> QED
    BY <1>1, <2>2, <2>3 DEF WaitsFor
<1>2. IInv => ChainsOfWaitsEnd
  BY <1>1 DEF ChainsOfWaitsEnd
<1> QED
  BY IInvHolds, <1>2, PTL

=============================================================================
