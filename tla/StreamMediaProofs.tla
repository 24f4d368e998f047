-------------------------- MODULE StreamMediaProofs ---------------------------
(***************************************************************************)
(* Proofs about StreamMedia for any capacity of the queue and any drop     *)
(* limit.                                                                  *)
(*                                                                         *)
(* While the worker serves the stream the receive thread keeps its books   *)
(* (WaitInv): as soon as it no longer waits for an IDR frame, whatever it  *)
(* is about to queue has its references in the queue before it.  From      *)
(* there on units keep what they were queued with (QueueInv, HeldInv), and *)
(* an unbroken stream began with an IDR frame that was processed, is held  *)
(* or is still queued ahead of the rest (IdrInv).  Once the worker gives a *)
(* frame back unread none of this holds any more, because its refresh runs *)
(* beside the receive thread; it only never pulls another one.             *)
(***************************************************************************)
EXTENDS StreamMedia, TLAPS

\* The worker is between the start of the core and the end of its loop.
Serving == worker \in Looping \cup {"started"}

\* The worker has a unit while it decodes, shows or returns it.
HasUnit == Looping \ {"receive"}

UnitInv ==
  /\ worker \in HasUnit => unit \in Unit
  /\ worker \notin HasUnit \cup {"wait"} => unit = NoUnit

\* The receive thread waits for an IDR frame, or the frame it has or is to get
\* next follows the one it queued last.
WaitInv ==
  Serving =>
    /\ receiver = "overflow" => waitingForIdrFrame
    /\ receiver = "reassemble" => ~waitingForIdrFrame
    /\ receiver = "idle" /\ ~missed /\ ~waitingForIdrFrame => intact
    /\ receiver \in {"decoding", "reassemble"} /\ ~waitingForIdrFrame
         => frameType = "IDR" \/ intact

CanDecode(u) == u.type = "IDR" \/ u.sound

QueueInv ==
  Serving => \A i \in DOMAIN decodeUnitQueue : CanDecode(decodeUnitQueue[i])

HeldInv == worker \in HasUnit => CanDecode(unit)

\* An IDR frame was processed or is about to be.
IdrSeen == idrFrameProcessed \/ unit.type = "IDR"

IdrInv ==
  /\ worker \in HasUnit => IdrSeen
  /\ Serving =>
       /\ decodeUnitQueue # <<>> => IdrSeen \/ Head(decodeUnitQueue).type = "IDR"
       /\ intact => IdrSeen \/ decodeUnitQueue # <<>>

\* What a user who waits for every worker to end finds in the slot, and that a
\* page which is not shown has no picture.
SlotInv ==
  /\ patient => frames # "past" /\ shown # "past"
  /\ patient /\ launching > 0 =>
       launching = 1 /\ worker = "off" /\ frames = "none" /\ shown = "none"
  /\ ~mounted => shown = "none"

IInv ==
  /\ TypeOK
  /\ UnitInv
  /\ WaitInv
  /\ QueueInv
  /\ HeldInv
  /\ IdrInv
  /\ SlotInv
  /\ NoPictureForgotten

-------------------------------------------------------------------------------
(* Types *)

\* The flags of the depacketizer one by one.
DepacketizerFlags ==
  /\ missed \in BOOLEAN /\ reportedLostFrame \in BOOLEAN /\ hostOwesIdr \in BOOLEAN
  /\ waitingForIdrFrame \in BOOLEAN /\ waitingForNextSuccessfulFrame \in BOOLEAN
  /\ dropStatePending \in BOOLEAN /\ idrFrameProcessed \in BOOLEAN
  /\ idrFrameRequired \in BOOLEAN /\ intact \in BOOLEAN

StreamFlags ==
  /\ ending \in BOOLEAN /\ patient \in BOOLEAN /\ page \in BOOLEAN
  /\ adopted \in BOOLEAN /\ mounted \in BOOLEAN /\ dirty \in BOOLEAN

DepacketizerData ==
  /\ receiver \in {"idle", "decoding", "reassemble", "overflow"}
  /\ frameType \in FrameType
  /\ consecutiveFrameDrops \in 0 .. DropLimit - 1
  /\ decodeUnitQueue \in Seq(Unit) /\ Len(decodeUnitQueue) <= QueueBound

LEMMA DepacketizerTypesSplit ==
  DepacketizerTypes <=> DepacketizerData /\ DepacketizerFlags
  BY DEF DepacketizerTypes, DepacketizerData, DepacketizerFlags

\* What the depacketizer does, on the receive thread, on the control thread and
\* for the worker.
DepacketizerStep ==
  \/ Receives \/ NotifyFrameLost \/ FramesLost \/ CorruptFrame \/ RequestIdr
  \/ RefreshWaits \/ RefreshFlushes \/ RefreshDefers \/ RefreshAsks
  \/ Dequeue \/ CompleteVideoFrame(unit)
  \/ InitializeVideoDepacketizer \/ DestroyVideoDepacketizer
  \/ UNCHANGED depacketizerVars

LEMMA StepsOfDepacketizer == [Next]_vars => DepacketizerStep
<1> SUFFICES ASSUME [Next]_vars PROVE DepacketizerStep
  OBVIOUS
<1> USE DEF DepacketizerStep
<1>1. CASE Start \/ Stop \/ GoBack \/ Window \/ StartFails \/ BadAccessUnit \/ GiveUp
             \/ Terminate
  BY <1>1 DEF Start, Stop, GoBack, Window, Render, Rebuild, StartFails, BadAccessUnit, GiveUp, Terminate
<1>2. CASE Works
  BY <1>2 DEF Works, Started, Pull, PullNothing, Decode, Present, PresentNotifies,
              Complete, NeedIdr, Leave
<1>3. CASE Connect \/ Receive \/ Predict \/ Lose \/ Control
  BY <1>3 DEF Connect, Receive, Predict, Lose, Control
<1>4. CASE UNCHANGED vars
  BY <1>4 DEF vars
<1> QED
  BY <1>1, <1>2, <1>3, <1>4 DEF Next

\* The count of dropped frames starts again before it reaches the limit.
LEMMA DropsCounted ==
  ASSUME consecutiveFrameDrops \in 0 .. DropLimit - 1,
         consecutiveFrameDrops' = (consecutiveFrameDrops + 1) % DropLimit
  PROVE  consecutiveFrameDrops' \in 0 .. DropLimit - 1
  BY DepacketizerAssumption

\* What reassembleFrame does to the queue.
LEMMA QueueGains ==
  ASSUME frameType \in FrameType, intact \in BOOLEAN, Reassemble
  PROVE  \E u \in Unit :
           /\ u.type = frameType /\ u.sound = (frameType = "IDR" \/ intact)
           /\ IF Len(decodeUnitQueue) < QueueBound
                THEN decodeUnitQueue' = Append(decodeUnitQueue, u)
                ELSE UNCHANGED decodeUnitQueue
<1> DEFINE fresh == [type |-> frameType, sound |-> frameType = "IDR" \/ intact]
<1>1. fresh \in Unit
  <2>1. (frameType = "IDR" \/ intact) \in BOOLEAN
    OBVIOUS
  <2> QED
    BY <2>1 DEF Unit
<1>2. IF Len(decodeUnitQueue) < QueueBound
        THEN decodeUnitQueue' = Append(decodeUnitQueue, fresh)
        ELSE UNCHANGED decodeUnitQueue
  BY Zenon DEF Reassemble
<1>3. fresh.type = frameType /\ fresh.sound = (frameType = "IDR" \/ intact)
  OBVIOUS
<1> HIDE DEF fresh
<1> QED
  BY <1>1, <1>2, <1>3

LEMMA FlagsPreserved ==
  DepacketizerFlags /\ DepacketizerStep => DepacketizerFlags'
<1> SUFFICES ASSUME DepacketizerFlags, DepacketizerStep PROVE DepacketizerFlags'
  OBVIOUS
<1> USE DEF DepacketizerFlags, network, waits, drops
<1>1. CASE Receives
  <2>1. ASSUME NEW type \in FrameType, FirstPacket(type) PROVE DepacketizerFlags'
    BY <2>1 DEF FirstPacket, CountDrop
  <2>2. CASE DropReceived \/ AcceptReceived
    BY <2>2 DEF DropReceived, AcceptReceived, DropFrameState, CountDrop
  <2>3. CASE Reassemble
    BY <2>3 DEF Reassemble, DropFrameState, CountDrop
  <2>4. CASE Overflowed
    BY <2>4 DEF Overflowed, Flush
  <2> QED
    BY <1>1, <2>1, <2>2, <2>3, <2>4 DEF Receives
<1>2. CASE NotifyFrameLost \/ FramesLost \/ CorruptFrame
  BY <1>2 DEF NotifyFrameLost, FramesLost, CorruptFrame, DropFrameState, CountDrop
<1>3. CASE RequestIdr \/ RefreshWaits \/ RefreshFlushes \/ RefreshDefers \/ RefreshAsks
  BY <1>3 DEF RequestIdr, RefreshWaits, RefreshFlushes, RefreshDefers, RefreshAsks, Flush
<1>4. CASE Dequeue \/ CompleteVideoFrame(unit) \/ InitializeVideoDepacketizer
             \/ DestroyVideoDepacketizer
  BY <1>4 DEF Dequeue, CompleteVideoFrame, InitializeVideoDepacketizer,
              DestroyVideoDepacketizer
<1>5. CASE UNCHANGED depacketizerVars
  BY <1>5 DEF depacketizerVars
<1> QED
  BY <1>1, <1>2, <1>3, <1>4, <1>5 DEF DepacketizerStep

LEMMA DataPreserved ==
  ASSUME DepacketizerData, DepacketizerFlags, DepacketizerStep
  PROVE  DepacketizerData'
<1> USE DepacketizerAssumption DEF DepacketizerData, network, waits, drops
<1>1. CASE Receives
  <2>1. ASSUME NEW type \in FrameType, FirstPacket(type) PROVE DepacketizerData'
    <3>1. consecutiveFrameDrops' \in 0 .. DropLimit - 1
      BY <2>1, DropsCounted DEF FirstPacket, CountDrop
    <3> QED
      BY <2>1, <3>1 DEF FirstPacket
  <2>2. CASE DropReceived \/ AcceptReceived
    <3>1. consecutiveFrameDrops' \in 0 .. DropLimit - 1
      BY <2>2, DropsCounted DEF DropReceived, AcceptReceived, DropFrameState, CountDrop
    <3> QED
      BY <2>2, <3>1 DEF DropReceived, AcceptReceived
  <2>3. CASE Reassemble
    <3>1. consecutiveFrameDrops' \in 0 .. DropLimit - 1
      <4>1. \/ consecutiveFrameDrops' = 0
            \/ consecutiveFrameDrops' = (consecutiveFrameDrops + 1) % DropLimit
        BY <2>3, Zenon DEF Reassemble, DropFrameState, CountDrop
      <4> QED
        BY <4>1, DropsCounted
    <3>2. PICK u \in Unit :
            \/ UNCHANGED decodeUnitQueue
            \/ Len(decodeUnitQueue) < QueueBound
                 /\ decodeUnitQueue' = Append(decodeUnitQueue, u)
      BY <2>3, QueueGains DEF DepacketizerFlags
    <3>3. decodeUnitQueue' \in Seq(Unit) /\ Len(decodeUnitQueue') <= QueueBound
      BY <3>2
    <3> QED
      BY <2>3, <3>1, <3>3 DEF Reassemble
  <2>4. CASE Overflowed
    BY <2>4 DEF Overflowed, Flush
  <2> QED
    BY <1>1, <2>1, <2>2, <2>3, <2>4 DEF Receives
<1>2. CASE NotifyFrameLost \/ FramesLost \/ CorruptFrame
  <2>1. consecutiveFrameDrops' \in 0 .. DropLimit - 1
    BY <1>2, DropsCounted
       DEF NotifyFrameLost, FramesLost, CorruptFrame, DropFrameState, CountDrop
  <2> QED
    BY <1>2, <2>1 DEF NotifyFrameLost, FramesLost, CorruptFrame
<1>3. CASE RefreshFlushes
  BY <1>3 DEF RefreshFlushes, Flush
<1>4. CASE Dequeue
  BY <1>4 DEF Dequeue
<1>5. CASE RequestIdr \/ RefreshWaits \/ RefreshDefers \/ RefreshAsks
  BY <1>5 DEF RequestIdr, RefreshWaits, RefreshDefers, RefreshAsks
<1>6. CASE CompleteVideoFrame(unit)
  BY <1>6 DEF CompleteVideoFrame
<1>7. CASE InitializeVideoDepacketizer \/ DestroyVideoDepacketizer
  <2>1. decodeUnitQueue' = <<>> /\ frameType' \in FrameType
    BY <1>7 DEF InitializeVideoDepacketizer, DestroyVideoDepacketizer, FrameType
  <2> QED
    BY <1>7, <2>1 DEF InitializeVideoDepacketizer, DestroyVideoDepacketizer
<1>8. CASE UNCHANGED depacketizerVars
  BY <1>8 DEF depacketizerVars
<1> QED
  BY <1>1, <1>2, <1>3, <1>4, <1>5, <1>6, <1>7, <1>8 DEF DepacketizerStep

StreamData ==
  /\ worker \in Idle \cup Looping \cup Giving \cup {"started"}
  /\ unit \in Unit \cup {NoUnit}
  /\ frames \in Picture /\ shown \in Picture
  /\ launching \in 0 .. MaxLaunching

LEMMA TypeOKSplit ==
  TypeOK <=> /\ DepacketizerData /\ DepacketizerFlags
             /\ StreamData /\ StreamFlags
  BY DepacketizerTypesSplit DEF TypeOK, StreamData, StreamFlags

LEMMA StreamFlagsPreserved ==
  StreamFlags /\ [Next]_vars => StreamFlags'
<1> SUFFICES ASSUME StreamFlags, [Next]_vars PROVE StreamFlags'
  OBVIOUS
<1> USE DEF StreamFlags, session, videoOutput, PutPicture, Notify
<1>1. CASE Start \/ Stop \/ GoBack \/ Window
  BY <1>1 DEF Start, Stop, GoBack, Window, Render, Rebuild
<1>2. CASE StartFails \/ Connect \/ BadAccessUnit \/ GiveUp \/ Terminate
  BY <1>2 DEF StartFails, Connect, BadAccessUnit, GiveUp, Terminate
<1>3. CASE Started
  BY <1>3 DEF Started
<1>4. CASE Pull \/ PullNothing \/ Decode \/ Present \/ PresentNotifies
  BY <1>4 DEF Pull, PullNothing, Decode, Present, PresentNotifies
<1>5. CASE Complete \/ NeedIdr \/ Leave
  BY <1>5 DEF Complete, NeedIdr, Leave
<1>6. CASE Receive \/ Predict \/ Lose \/ Control
  BY <1>6 DEF Receive, Predict, Lose, Control, media
<1>7. CASE UNCHANGED vars
  BY <1>7 DEF vars
<1> QED
  BY <1>1, <1>2, <1>3, <1>4, <1>5, <1>6, <1>7 DEF Next, Works

LEMMA StreamDataPreserved ==
  ASSUME DepacketizerData, StreamData, [Next]_vars
  PROVE  StreamData'
<1> USE DEF StreamData, Idle, Looping, Giving, Picture, session, videoOutput,
            PutPicture, WorkerGoes
<1>1. CASE Start \/ Stop \/ GoBack
  BY <1>1, LaunchingAssumption DEF Start, Stop, GoBack
<1>2. CASE Window
  <2>1. shown' \in {shown, frames, "none"} /\ UNCHANGED <<worker, unit, frames, launching>>
    BY <1>2 DEF Window, Render, Rebuild
  <2> QED
    BY <2>1
<1>0. launching > 0 => launching - 1 \in 0 .. MaxLaunching
  BY LaunchingAssumption
<1>3. CASE StartFails \/ BadAccessUnit \/ GiveUp \/ Terminate
  BY <1>0, <1>3 DEF StartFails, BadAccessUnit, GiveUp, Terminate
<1>4. CASE Connect
  <2>1. frames' \in Picture /\ shown' \in Picture
    BY <1>4 DEF Connect
  <2> QED
    BY <1>0, <1>4, <2>1 DEF Connect
<1>5. CASE Started
  BY <1>5 DEF Started
<1>6. CASE Pull
  <2>1. Head(decodeUnitQueue) \in Unit
    BY <1>6 DEF Pull, Dequeue, DepacketizerData
  <2> QED
    BY <1>6, <2>1 DEF Pull
<1>7. CASE PullNothing \/ Decode \/ Present \/ PresentNotifies
  BY <1>7 DEF PullNothing, Decode, Present, PresentNotifies
<1>8. CASE Complete \/ NeedIdr \/ Leave
  BY <1>8 DEF Complete, NeedIdr, Leave
<1>9. CASE Receive \/ Predict \/ Lose \/ Control
  BY <1>9 DEF Receive, Predict, Lose, Control, media
<1>10. CASE UNCHANGED vars
  BY <1>10 DEF vars
<1> QED
  BY <1>1, <1>2, <1>3, <1>4, <1>5, <1>6, <1>7, <1>8, <1>9, <1>10 DEF Next, Works

LEMMA TypePreserved == TypeOK /\ [Next]_vars => TypeOK'
<1> SUFFICES ASSUME TypeOK, [Next]_vars PROVE TypeOK'
  OBVIOUS
<1>1. DepacketizerData /\ DepacketizerFlags /\ StreamData /\ StreamFlags
  BY TypeOKSplit
<1>2. DepacketizerData' /\ DepacketizerFlags'
  BY <1>1, StepsOfDepacketizer, FlagsPreserved, DataPreserved
<1>3. StreamData' /\ StreamFlags'
  BY <1>1, StreamFlagsPreserved, StreamDataPreserved
<1> QED
  BY <1>2, <1>3
     DEF DepacketizerData, DepacketizerFlags, StreamData, StreamFlags, TypeOK,
         DepacketizerTypes

-------------------------------------------------------------------------------
(* The picture in the slot and the picture of the view *)

LEMMA SlotPreserved ==
  ASSUME TypeOK, SlotInv, [Next]_vars
  PROVE  SlotInv'
<1> USE DEF SlotInv, session, videoOutput, PutPicture, WorkerGoes
<1>0. launching \in Nat
  BY DEF TypeOK
<1>1. CASE Start
  <2>1. /\ ~mounted /\ UNCHANGED <<mounted, worker, shown>>
        /\ frames' = "none" /\ launching' = launching + 1
        /\ patient' => worker = "off" /\ launching = 0
    BY <1>1 DEF Start
  <2> QED
    BY <1>0, <2>1
<1>2. CASE Stop \/ GoBack
  BY <1>2 DEF Stop, GoBack
<1>3. CASE Window
  <2>1. /\ shown' \in {shown, frames, "none"} /\ (~mounted' => shown' = "none")
        /\ UNCHANGED <<worker, frames, launching, patient>>
    BY <1>3 DEF Window, Render, Rebuild
  <2> QED
    BY <2>1
<1>4. CASE StartFails
  <2>1. launching' = launching - 1 /\ UNCHANGED <<worker, frames, shown, mounted, patient>>
    BY <1>4 DEF StartFails
  <2> QED
    BY <1>0, <2>1
<1>11. CASE BadAccessUnit \/ GiveUp \/ Terminate
  BY <1>11 DEF BadAccessUnit, GiveUp, Terminate
<1>5. CASE Connect
  BY <1>0, <1>5 DEF Connect
<1>6. CASE Started
  BY <1>6 DEF Started
<1>7. CASE Pull \/ PullNothing \/ Decode \/ Present \/ PresentNotifies
  BY <1>7 DEF Pull, PullNothing, Decode, Present, PresentNotifies
<1>8. CASE Complete \/ NeedIdr \/ Leave
  <2>1. /\ UNCHANGED <<launching, frames, shown, mounted, patient>>
        /\ worker # "off"
    BY <1>8 DEF Complete, NeedIdr, Leave
  <2> QED
    BY <2>1
<1>9. CASE Receive \/ Predict \/ Lose \/ Control
  BY <1>9 DEF Receive, Predict, Lose, Control, media
<1>10. CASE UNCHANGED vars
  BY <1>10 DEF vars
<1> QED
  BY <1>1, <1>2, <1>3, <1>4, <1>5, <1>6, <1>7, <1>8, <1>9, <1>10, <1>11
     DEF Next, Works

LEMMA SignalPreserved ==
  NoPictureForgotten /\ [Next]_vars => NoPictureForgotten'
<1> SUFFICES ASSUME NoPictureForgotten, [Next]_vars PROVE NoPictureForgotten'
  OBVIOUS
<1> USE DEF NoPictureForgotten, session, videoOutput, PutPicture, Notify,
            WorkerGoes
<1>1. CASE Start \/ Stop \/ GoBack
  BY <1>1 DEF Start, Stop, GoBack
<1>8. CASE Render
  BY <1>8 DEF Render
<1>9. CASE Rebuild
  BY <1>9 DEF Rebuild
<1>2. CASE StartFails \/ Connect \/ BadAccessUnit \/ GiveUp \/ Terminate
  BY <1>2 DEF StartFails, Connect, BadAccessUnit, GiveUp, Terminate
<1>3. CASE Started \/ Pull \/ PullNothing \/ Decode
  BY <1>3 DEF Started, Pull, PullNothing, Decode
<1>4. CASE Present \/ PresentNotifies
  BY <1>4 DEF Present, PresentNotifies
<1>5. CASE Complete \/ NeedIdr \/ Leave
  BY <1>5 DEF Complete, NeedIdr, Leave
<1>6. CASE Receive \/ Predict \/ Lose \/ Control
  BY <1>6 DEF Receive, Predict, Lose, Control, media
<1>7. CASE UNCHANGED vars
  BY <1>7 DEF vars
<1> QED
  BY <1>1, <1>2, <1>3, <1>4, <1>5, <1>6, <1>7, <1>8, <1>9
     DEF Next, Works, Window

-------------------------------------------------------------------------------
(* What each step does to the worker, its unit and the depacketizer *)

\* A step of the core's threads.
CoreStep == Receives \/ NotifyFrameLost \/ FramesLost \/ CorruptFrame \/ RequestIdr

\* A step that touches no frame, and at most takes the worker further from the
\* service of the stream.
Aside ==
  /\ UNCHANGED <<depacketizerVars, unit>>
  /\ Serving' => Serving
  /\ worker' \in HasUnit => worker \in HasUnit
  /\ worker' \notin HasUnit \cup {"wait"} => worker \notin HasUnit \cup {"wait"}

LEMMA StepKinds ==
  ASSUME [Next]_vars
  PROVE  \/ Aside
         \/ CoreStep /\ UNCHANGED <<worker, unit>>
         \/ Connect \/ Pull \/ Complete \/ NeedIdr \/ Leave
<1> USE DEF Serving, HasUnit, Looping, WorkerGoes
<1>1. CASE Start \/ Stop \/ GoBack \/ Window \/ StartFails \/ Terminate
  <2>1. UNCHANGED <<depacketizerVars, worker, unit>>
    BY <1>1 DEF Start, Stop, GoBack, Window, Render, Rebuild, StartFails, Terminate
  <2> QED
    BY <2>1 DEF Aside
<1>2. CASE Started \/ PullNothing \/ BadAccessUnit \/ GiveUp \/ Decode \/ Present
             \/ PresentNotifies
  <2>1. UNCHANGED <<depacketizerVars, unit>>
    BY <1>2 DEF Started, PullNothing, BadAccessUnit, GiveUp, Decode, Present,
                PresentNotifies
  <2>2. \/ worker \in {"started", "receive"} /\ worker' \in {"receive", "leaving"}
        \/ /\ worker \in {"decode", "present", "notify"}
           /\ worker' \in {"present", "notify", "complete", "wait"}
    BY <1>2 DEF Started, PullNothing, BadAccessUnit, GiveUp, Decode, Present,
                PresentNotifies
  <2> QED
    BY <2>1, <2>2 DEF Aside
<1>3. CASE Receive \/ Predict \/ Lose \/ Control
  BY <1>3 DEF Receive, Predict, Lose, Control, media, CoreStep
<1>4. CASE UNCHANGED vars
  BY <1>4 DEF vars, Aside
<1> QED
  BY <1>1, <1>2, <1>3, <1>4 DEF Next, Works

\* Only these steps of the core touch the queue, and as they do.
LEMMA CoreStepsOnQueue ==
  ASSUME CoreStep
  PROVE  \/ UNCHANGED <<decodeUnitQueue, intact, idrFrameProcessed>>
         \/ intact' = FALSE /\ UNCHANGED <<decodeUnitQueue, idrFrameProcessed>>
         \/ Reassemble
         \/ Overflowed
<1>1. CASE Receives
  BY <1>1 DEF Receives, FirstPacket, DropReceived, AcceptReceived
<1>2. CASE NotifyFrameLost \/ FramesLost \/ CorruptFrame \/ RequestIdr
  BY <1>2 DEF NotifyFrameLost, FramesLost, CorruptFrame, RequestIdr
<1> QED
  BY <1>1, <1>2 DEF CoreStep

LEMMA UnitPreserved ==
  ASSUME TypeOK, UnitInv, [Next]_vars
  PROVE  UnitInv'
<1> USE DEF UnitInv, HasUnit, Looping, WorkerGoes
<1>1. CASE Aside
  BY <1>1 DEF Aside
<1>2. CASE CoreStep /\ UNCHANGED <<worker, unit>>
  BY <1>2
<1>3. CASE Connect
  BY <1>3 DEF Connect
<1>4. CASE Pull
  <2>1. Head(decodeUnitQueue) \in Unit
    BY <1>4 DEF Pull, Dequeue, TypeOK, DepacketizerTypes
  <2> QED
    BY <1>4, <2>1 DEF Pull
<1>5. CASE Complete \/ NeedIdr \/ Leave
  BY <1>5 DEF Complete, NeedIdr, Leave
<1> QED
  BY StepKinds, <1>1, <1>2, <1>3, <1>4, <1>5

-------------------------------------------------------------------------------
(* No frame without its references *)

LEMMA WaitPreserved ==
  ASSUME TypeOK, WaitInv, [Next]_vars
  PROVE  WaitInv'
<1> USE DEF WaitInv, network, waits, drops
<1>1. CASE Aside
  BY <1>1 DEF Aside, depacketizerVars
<1>2. CASE CoreStep /\ UNCHANGED <<worker, unit>>
  <2> SUFFICES ASSUME Serving PROVE WaitInv'
    BY <1>2 DEF Serving
  <2>1. ASSUME NEW type \in FrameType, FirstPacket(type) PROVE WaitInv'
    BY <2>1 DEF FirstPacket, FrameType
  <2>2. CASE DropReceived \/ NotifyFrameLost \/ CorruptFrame
    BY <2>2 DEF DropReceived, NotifyFrameLost, CorruptFrame, DropFrameState
  <2>3. CASE AcceptReceived
    BY <2>3 DEF AcceptReceived
  <2>4. CASE Reassemble
    BY <2>4 DEF Reassemble, DropFrameState
  <2>5. CASE Overflowed
    BY <2>5 DEF Overflowed
  <2>6. CASE FramesLost
    BY <2>6 DEF FramesLost
  <2>7. CASE RequestIdr
    BY <2>7 DEF RequestIdr
  <2> QED
    BY <1>2, <2>1, <2>2, <2>3, <2>4, <2>5, <2>6, <2>7 DEF CoreStep, Receives
<1>3. CASE Connect
  BY <1>3 DEF Connect, InitializeVideoDepacketizer
<1>4. CASE Pull
  BY <1>4 DEF Pull, Dequeue, WorkerGoes, Serving, Looping
<1>5. CASE Complete
  BY <1>5 DEF Complete, CompleteVideoFrame, WorkerGoes, Serving, Looping
<1>6. CASE NeedIdr \/ Leave
  BY <1>6 DEF NeedIdr, Leave, WorkerGoes, Serving, Looping
<1> QED
  BY StepKinds, <1>1, <1>2, <1>3, <1>4, <1>5, <1>6

\* What is queued while the worker serves the stream can be decoded after what
\* was queued before.
LEMMA QueuesDecodable ==
  ASSUME TypeOK, WaitInv, Serving, Reassemble
  PROVE  /\ frameType = "IDR" \/ intact
         /\ \E u \in Unit :
              /\ u.type = frameType /\ CanDecode(u)
              /\ IF Len(decodeUnitQueue) < QueueBound
                   THEN decodeUnitQueue' = Append(decodeUnitQueue, u)
                   ELSE UNCHANGED decodeUnitQueue
<1>1. frameType = "IDR" \/ intact
  BY DEF WaitInv, Reassemble
<1>2. frameType \in FrameType /\ intact \in BOOLEAN
  BY TypeOKSplit DEF DepacketizerData, DepacketizerFlags
<1>3. PICK u \in Unit :
        /\ u.type = frameType /\ u.sound = (frameType = "IDR" \/ intact)
        /\ IF Len(decodeUnitQueue) < QueueBound
             THEN decodeUnitQueue' = Append(decodeUnitQueue, u)
             ELSE UNCHANGED decodeUnitQueue
  BY <1>2, QueueGains
<1> QED
  BY <1>1, <1>3 DEF CanDecode

LEMMA QueuePreserved ==
  ASSUME TypeOK, WaitInv, QueueInv, [Next]_vars
  PROVE  QueueInv'
<1> USE DEF QueueInv, CanDecode
<1>1. decodeUnitQueue \in Seq(Unit)
  BY DEF TypeOK, DepacketizerTypes
<1>2. CASE Aside
  BY <1>2 DEF Aside, depacketizerVars
<1>3. CASE CoreStep /\ UNCHANGED <<worker, unit>>
  <2> SUFFICES ASSUME Serving PROVE QueueInv'
    BY <1>3 DEF Serving
  <2>1. CASE UNCHANGED decodeUnitQueue
    BY <2>1
  <2>2. CASE Reassemble
    <3>1. PICK u \in Unit :
            \/ UNCHANGED decodeUnitQueue
            \/ CanDecode(u) /\ decodeUnitQueue' = Append(decodeUnitQueue, u)
      BY <2>2, QueuesDecodable
    <3> QED
      BY <1>1, <3>1
  <2>3. CASE Overflowed
    BY <2>3 DEF Overflowed, Flush
  <2> QED
    BY <1>3, <2>1, <2>2, <2>3, CoreStepsOnQueue
<1>4. CASE Connect
  BY <1>4 DEF Connect, InitializeVideoDepacketizer
<1>5. CASE Pull
  <2>1. decodeUnitQueue # <<>> /\ decodeUnitQueue' = Tail(decodeUnitQueue)
    BY <1>5 DEF Pull, Dequeue
  <2>2. ASSUME NEW i \in DOMAIN decodeUnitQueue'
        PROVE  /\ i + 1 \in DOMAIN decodeUnitQueue
               /\ decodeUnitQueue'[i] = decodeUnitQueue[i + 1]
    BY <1>1, <2>1, <2>2
  <2>3. Serving
    BY <1>5 DEF Pull, WorkerGoes, Serving, Looping
  <2> QED
    BY <2>2, <2>3
<1>6. CASE Complete
  BY <1>6 DEF Complete, CompleteVideoFrame, WorkerGoes, Serving, Looping
<1>7. CASE NeedIdr \/ Leave
  BY <1>7 DEF NeedIdr, Leave, WorkerGoes, Serving, Looping
<1> QED
  BY StepKinds, <1>2, <1>3, <1>4, <1>5, <1>6, <1>7

LEMMA HeldPreserved ==
  ASSUME TypeOK, QueueInv, HeldInv, [Next]_vars
  PROVE  HeldInv'
<1> USE DEF HeldInv, CanDecode, HasUnit, Looping, WorkerGoes
<1>1. CASE Aside
  BY <1>1 DEF Aside
<1>2. CASE CoreStep /\ UNCHANGED <<worker, unit>>
  BY <1>2
<1>3. CASE Pull
  <2>1. decodeUnitQueue # <<>> /\ unit' = Head(decodeUnitQueue) /\ Serving
    BY <1>3 DEF Pull, Dequeue, Serving
  <2>2. 1 \in DOMAIN decodeUnitQueue /\ Head(decodeUnitQueue) = decodeUnitQueue[1]
    BY <2>1 DEF TypeOK, DepacketizerTypes
  <2> QED
    BY <2>1, <2>2 DEF QueueInv
<1>4. CASE Connect \/ Complete \/ NeedIdr \/ Leave
  BY <1>4 DEF Connect, Complete, NeedIdr, Leave
<1> QED
  BY StepKinds, <1>1, <1>2, <1>3, <1>4

-------------------------------------------------------------------------------
(* An IDR frame first *)

LEMMA IdrPreserved ==
  ASSUME TypeOK, UnitInv, WaitInv, IdrInv, [Next]_vars
  PROVE  IdrInv'
<1> USE DEF IdrInv, IdrSeen
<1>1. decodeUnitQueue \in Seq(Unit)
  BY DEF TypeOK, DepacketizerTypes
<1>2. CASE Aside
  BY <1>2 DEF Aside, depacketizerVars
<1>3. CASE CoreStep /\ UNCHANGED <<worker, unit>>
  <2>0. (Serving' <=> Serving) /\ UNCHANGED <<worker, unit>>
    BY <1>3 DEF Serving
  <2>1. CASE UNCHANGED <<decodeUnitQueue, intact, idrFrameProcessed>>
    BY <2>0, <2>1
  <2>2. CASE intact' = FALSE /\ UNCHANGED <<decodeUnitQueue, idrFrameProcessed>>
    BY <2>0, <2>2
  <2>3. CASE Reassemble
    <3> SUFFICES ASSUME Serving PROVE IdrInv'
      BY <2>0, <2>3 DEF Reassemble
    <3>1. UNCHANGED idrFrameProcessed
      BY <2>3 DEF Reassemble
    <3>2. CASE Len(decodeUnitQueue) < QueueBound
      <4>1. PICK u \in Unit :
              u.type = frameType /\ decodeUnitQueue' = Append(decodeUnitQueue, u)
        BY <2>3, <3>2, QueuesDecodable
      <4>2. decodeUnitQueue' # <<>>
        BY <1>1, <4>1
      <4>3. CASE decodeUnitQueue = <<>>
        <5>1. Head(decodeUnitQueue') = u
          BY <4>1, <4>3
        <5>2. frameType = "IDR" \/ intact
          BY <2>3, QueuesDecodable
        <5> QED
          BY <2>0, <3>1, <4>1, <4>2, <4>3, <5>1, <5>2
      <4>4. CASE decodeUnitQueue # <<>>
        <5>1. Head(decodeUnitQueue') = Head(decodeUnitQueue)
          BY <1>1, <4>1, <4>4
        <5> QED
          BY <2>0, <3>1, <4>2, <4>4, <5>1
      <4> QED
        BY <4>3, <4>4
    <3>3. CASE ~(Len(decodeUnitQueue) < QueueBound)
      BY <2>0, <2>3, <3>1, <3>3 DEF Reassemble
    <3> QED
      BY <3>2, <3>3
  <2>4. CASE Overflowed
    BY <2>0, <2>4 DEF Overflowed, Flush
  <2> QED
    BY <1>3, <2>1, <2>2, <2>3, <2>4, CoreStepsOnQueue
<1>4. CASE Connect
  BY <1>4 DEF Connect, InitializeVideoDepacketizer, WorkerGoes, HasUnit, Looping
<1>5. CASE Pull
  <2>1. /\ worker = "receive" /\ decodeUnitQueue # <<>>
        /\ unit' = Head(decodeUnitQueue) /\ UNCHANGED idrFrameProcessed
    BY <1>5 DEF Pull, Dequeue, WorkerGoes
  <2>2. unit = NoUnit /\ Serving
    BY <2>1 DEF UnitInv, HasUnit, Looping, Serving
  <2>3. IdrSeen'
    BY <2>1, <2>2 DEF NoUnit
  <2> QED
    BY <2>3
<1>6. CASE Complete
  <2>1. /\ worker = "complete" /\ worker' = "receive"
        /\ idrFrameProcessed' = (idrFrameProcessed \/ unit.type = "IDR")
    BY <1>6 DEF Complete, CompleteVideoFrame, WorkerGoes
  <2>2. IdrSeen
    BY <2>1 DEF HasUnit, Looping
  <2> QED
    BY <2>1, <2>2
<1>7. CASE NeedIdr \/ Leave
  BY <1>7 DEF NeedIdr, Leave, WorkerGoes, Serving, HasUnit, Looping
<1> QED
  BY StepKinds, <1>2, <1>3, <1>4, <1>5, <1>6, <1>7

-------------------------------------------------------------------------------
LEMMA InitIInv == Init => IInv
<1> SUFFICES ASSUME Init PROVE IInv
  OBVIOUS
<1> USE DEF Init, InitDepacketizer
<1>1. DepacketizerData
  BY DepacketizerAssumption DEF DepacketizerData, FrameType
<1>2. DepacketizerFlags
  BY DEF DepacketizerFlags
<1>3. StreamData /\ StreamFlags
  <2>1. 0 \in 0 .. MaxLaunching
    BY LaunchingAssumption
  <2> QED
    BY <2>1 DEF StreamData, StreamFlags, Idle, Picture
<1>4. UnitInv /\ WaitInv /\ QueueInv /\ HeldInv /\ IdrInv
  BY DEF UnitInv, WaitInv, QueueInv, HeldInv, IdrInv, Serving, HasUnit, Looping
<1>5. SlotInv /\ NoPictureForgotten
  BY DEF SlotInv, NoPictureForgotten
<1> QED
  BY <1>1, <1>2, <1>3, <1>4, <1>5, TypeOKSplit DEF IInv

LEMMA IInvHolds == Spec => []IInv
<1>1. IInv /\ [Next]_vars => IInv'
  BY TypePreserved, UnitPreserved, WaitPreserved, QueuePreserved, HeldPreserved,
     IdrPreserved, SlotPreserved, SignalPreserved DEF IInv
<1> QED
  BY InitIInv, <1>1, PTL DEF Spec

\* The queue of decode units never outgrows its capacity, the drop count stays
\* below its limit, and everything else keeps its type.
THEOREM TypeCorrect == Spec => []TypeOK
<1>1. IInv => TypeOK
  BY DEF IInv
<1> QED
  BY IInvHolds, <1>1, PTL

\* Whatever the network loses and wherever a queue of any capacity overflows, the
\* decoder is given no frame whose references it does not have.
THEOREM NeverUndecodable == Spec => []Decodable
<1>1. IInv => Decodable
  BY DEF IInv, HeldInv, CanDecode, Decodable, HasUnit, Looping
<1> QED
  BY IInvHolds, <1>1, PTL

\* The core's assertion that no P frame is dequeued before an IDR frame was
\* processed never fails in this program, for any capacity and drop limit.
THEOREM IdrComesFirst == Spec => []PulledAfterIdr
<1>1. IInv => PulledAfterIdr
  BY DEF IInv, IdrInv, IdrSeen, PulledAfterIdr, HasUnit, Looping
<1> QED
  BY IInvHolds, <1>1, PTL

\* However many workers prepare streams, a user whose last start found none of
\* them at work never sees the picture of an earlier stream.
THEOREM OwnPicture == Spec => []FreshPicture
<1>1. IInv => FreshPicture
  BY DEF IInv, SlotInv, FreshPicture
<1> QED
  BY IInvHolds, <1>1, PTL

\* The newest picture is on the page, or the page is about to be painted.
THEOREM NewestPicture == Spec => []NoPictureForgotten
<1>1. IInv => NoPictureForgotten
  BY DEF IInv
<1> QED
  BY IInvHolds, <1>1, PTL

===============================================================================
