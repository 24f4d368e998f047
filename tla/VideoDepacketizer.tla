-------------------------- MODULE VideoDepacketizer ---------------------------
(***************************************************************************)
(* The decode-unit queue of the transport core (VideoDepacketizer.c) for   *)
(* the one decoder this program registers: H.264, pulled, without          *)
(* reference-frame invalidation (common_bridge.c:178), so that             *)
(* strictIdrFrameWait is always TRUE and every lost frame needs an IDR     *)
(* frame.  RtpVideoQueue.c hands over the packets of complete frames only, *)
(* and tells of the frames it gave up or believes lost.                    *)
(*                                                                         *)
(* A frame is its first packet, its last packet and what is done with it;  *)
(* between these the decoder's thread may run requestDecoderRefresh.       *)
(* Frame numbers matter only as far as one was missed, so they are a flag. *)
(***************************************************************************)
EXTENDS Naturals, Sequences

CONSTANTS
  QueueBound,  \* capacity of decodeUnitQueue
  DropLimit    \* CONSECUTIVE_DROP_LIMIT

ASSUME DepacketizerAssumption ==
  QueueBound \in Nat \ {0} /\ DropLimit \in Nat \ {0}

VARIABLES
  receiver,               \* what the receive thread is doing
  missed,                 \* nextFrameNumber is not the next frame to come
  reportedLostFrame,      \* RtpVideoQueue told of the frame it assembles
  frameType,              \* of the frame being received
  waitingForIdrFrame,
  waitingForNextSuccessfulFrame,
  dropStatePending,
  consecutiveFrameDrops,
  idrFrameProcessed,
  decodeUnitQueue,        \* units: a type, and whether its references precede it
  idrFrameRequired,       \* the event idrFrameRequiredEvent
  hostOwesIdr,            \* the host got the request and has not answered
  intact                  \* the stream's last frame was queued, and is not flushed

FrameType == {"IDR", "P"}
Unit      == [type : FrameType, sound : BOOLEAN]

waits   == <<waitingForIdrFrame, waitingForNextSuccessfulFrame>>
drops   == <<dropStatePending, consecutiveFrameDrops>>
network == <<missed, reportedLostFrame, hostOwesIdr>>

depacketizerVars ==
  <<receiver, network, frameType, waits, drops, idrFrameProcessed,
    decodeUnitQueue, idrFrameRequired, intact>>

DepacketizerTypes ==
  /\ receiver \in {"idle", "decoding", "reassemble", "overflow"}
  /\ frameType \in FrameType
  /\ consecutiveFrameDrops \in 0 .. DropLimit - 1
  /\ decodeUnitQueue \in Seq(Unit) /\ Len(decodeUnitQueue) <= QueueBound
  /\ {missed, reportedLostFrame, waitingForIdrFrame, dropStatePending,
      waitingForNextSuccessfulFrame, idrFrameProcessed, idrFrameRequired,
      hostOwesIdr, intact} \subseteq BOOLEAN

InitDepacketizer ==
  /\ receiver = "idle" /\ frameType = "P" /\ decodeUnitQueue = <<>>
  /\ waitingForIdrFrame = TRUE /\ waitingForNextSuccessfulFrame = FALSE
  /\ dropStatePending = FALSE /\ consecutiveFrameDrops = 0
  /\ idrFrameProcessed = FALSE /\ idrFrameRequired = FALSE
  /\ missed = FALSE /\ reportedLostFrame = FALSE /\ hostOwesIdr = FALSE
  /\ intact = FALSE

\* The queue and the flags of a new stream; the drop count is left as it was.
InitializeVideoDepacketizer ==
  /\ receiver' = "idle" /\ frameType' = "P" /\ decodeUnitQueue' = <<>>
  /\ waitingForIdrFrame' = TRUE /\ waitingForNextSuccessfulFrame' = FALSE
  /\ dropStatePending' = FALSE /\ UNCHANGED consecutiveFrameDrops
  /\ idrFrameProcessed' = FALSE /\ idrFrameRequired' = FALSE
  /\ missed' = FALSE /\ reportedLostFrame' = FALSE /\ hostOwesIdr' = FALSE
  /\ intact' = FALSE

-------------------------------------------------------------------------------
(* Losing a frame *)

\* Mutants: the count never ends; the limit asks for nothing.
CountDropOn(ask) ==
  /\ dropStatePending' = FALSE
  /\ consecutiveFrameDrops' = consecutiveFrameDrops + 1
  /\ idrFrameRequired' = (idrFrameRequired \/ ask)
CountDropQuietly(ask) ==
  /\ dropStatePending' = FALSE
  /\ consecutiveFrameDrops' = (consecutiveFrameDrops + 1) % DropLimit
  /\ idrFrameRequired' = (idrFrameRequired \/ ask)

\* dropFrameState but for the flag it sets: what was pending is done, and every
\* DropLimit-th frame dropped in a row asks for an IDR frame by itself.
CountDrop(ask) ==
  /\ dropStatePending' = FALSE
  /\ consecutiveFrameDrops' = (consecutiveFrameDrops + 1) % DropLimit
  /\ idrFrameRequired' = (\/ idrFrameRequired
                          \/ ask
                          \/ consecutiveFrameDrops + 1 = DropLimit)

DropFrameState(ask) == CountDrop(ask) /\ waitingForIdrFrame' = TRUE

\* The receive queue predicts that a frame cannot be completed; the frame may
\* still arrive.
NotifyFrameLost ==
  /\ receiver = "idle" /\ ~reportedLostFrame
  /\ reportedLostFrame' = TRUE
  /\ DropFrameState(FALSE)
  /\ UNCHANGED <<receiver, missed, hostOwesIdr, frameType, idrFrameProcessed,
                 waitingForNextSuccessfulFrame, decodeUnitQueue, intact>>

\* One or more frames will not arrive, perhaps the IDR frame among them; they
\* are reported unless the prediction did it already.
FramesLost ==
  /\ receiver = "idle"
  /\ missed' = TRUE /\ intact' = FALSE /\ reportedLostFrame' = FALSE
  /\ hostOwesIdr' \in {FALSE, hostOwesIdr}
  /\ \/ DropFrameState(FALSE)
     \/ reportedLostFrame /\ UNCHANGED <<drops, idrFrameRequired, waitingForIdrFrame>>
  /\ UNCHANGED <<receiver, frameType, idrFrameProcessed,
                 waitingForNextSuccessfulFrame, decodeUnitQueue>>

\* A packet in the middle of a frame does not continue the one before it.
CorruptFrame ==
  /\ receiver = "decoding"
  /\ receiver' = "idle" /\ intact' = FALSE
  /\ DropFrameState(TRUE)
  /\ UNCHANGED <<network, frameType, idrFrameProcessed,
                 waitingForNextSuccessfulFrame, decodeUnitQueue>>

-------------------------------------------------------------------------------
(* Receiving a frame *)

\* After a gap everything before it is dropped; an IDR frame ends every wait as
\* soon as it begins.  RtpVideoQueue forgets that it told of a frame only
\* when the next one begins to arrive, and that one may be lost as a whole.
FirstPacket(type) ==
  /\ receiver = "idle"
  /\ hostOwesIdr => type = "IDR"
  /\ receiver' = "decoding"
  /\ frameType' = type
  /\ missed' = FALSE /\ reportedLostFrame' \in {FALSE, reportedLostFrame}
  /\ hostOwesIdr' = FALSE
  /\ waitingForIdrFrame' = (type = "P" /\ (waitingForIdrFrame \/ missed))
  /\ waitingForNextSuccessfulFrame' =
       (type = "P" /\ (waitingForNextSuccessfulFrame \/ missed))
  /\ IF missed THEN CountDrop(FALSE) ELSE UNCHANGED <<drops, idrFrameRequired>>
  /\ UNCHANGED <<idrFrameProcessed, decodeUnitQueue, intact>>

\* The last packet of a frame nobody can use: an IDR frame is asked for once the
\* network has brought a whole frame again.
DropReceived ==
  /\ receiver = "decoding"
  /\ waitingForIdrFrame \/ (dropStatePending /\ frameType = "P")
  /\ receiver' = "idle" /\ intact' = FALSE
  /\ DropFrameState(waitingForIdrFrame /\ waitingForNextSuccessfulFrame)
  /\ waitingForNextSuccessfulFrame' =
       (waitingForNextSuccessfulFrame /\ ~waitingForIdrFrame)
  /\ UNCHANGED <<network, frameType, idrFrameProcessed, decodeUnitQueue>>

\* The last packet of a frame that is to be queued.
AcceptReceived ==
  /\ receiver = "decoding"
  /\ ~waitingForIdrFrame
  /\ dropStatePending => frameType = "IDR"
  /\ receiver' = "reassemble"
  /\ dropStatePending' = FALSE
  /\ UNCHANGED <<network, frameType, waits, consecutiveFrameDrops,
                 idrFrameProcessed, decodeUnitQueue, idrFrameRequired, intact>>

\* Mutant: the frame that does not fit is dropped, and nothing waits for an IDR.
ReassembleOverflowing ==
  /\ receiver = "reassemble"
  /\ receiver' = "idle"
  /\ IF Len(decodeUnitQueue) < QueueBound
       THEN /\ decodeUnitQueue' =
                 Append(decodeUnitQueue,
                        [type |-> frameType, sound |-> frameType = "IDR" \/ intact])
            /\ intact' = (frameType = "IDR" \/ intact)
       ELSE /\ intact' = FALSE /\ UNCHANGED decodeUnitQueue
  /\ UNCHANGED <<network, frameType, waits, drops, idrFrameProcessed, idrFrameRequired>>

\* reassembleFrame: the unit is queued, or the queue is full.
Reassemble ==
  /\ receiver = "reassemble"
  /\ IF Len(decodeUnitQueue) < QueueBound
       THEN /\ receiver' = "idle"
            /\ decodeUnitQueue' =
                 Append(decodeUnitQueue,
                        [type |-> frameType, sound |-> frameType = "IDR" \/ intact])
            /\ intact' = (frameType = "IDR" \/ intact)
            /\ consecutiveFrameDrops' = 0
            /\ UNCHANGED <<waitingForIdrFrame, dropStatePending, idrFrameRequired>>
       ELSE /\ receiver' = "overflow"
            /\ intact' = FALSE
            /\ DropFrameState(FALSE)
            /\ UNCHANGED decodeUnitQueue
  /\ UNCHANGED <<network, frameType, waitingForNextSuccessfulFrame, idrFrameProcessed>>

Flush ==
  /\ decodeUnitQueue' = <<>>
  /\ intact' = (intact /\ decodeUnitQueue = <<>>)

\* The rest of the overflow: what is queued goes too, and an IDR is asked for.
Overflowed ==
  /\ receiver = "overflow"
  /\ receiver' = "idle"
  /\ Flush
  /\ idrFrameRequired' = TRUE
  /\ UNCHANGED <<network, frameType, waits, drops, idrFrameProcessed>>

Receives ==
  \/ \E type \in FrameType : FirstPacket(type)
  \/ DropReceived
  \/ AcceptReceived
  \/ Reassemble
  \/ Overflowed

\* The control thread passes the request on to the host.
RequestIdr ==
  /\ idrFrameRequired
  /\ idrFrameRequired' = FALSE
  /\ hostOwesIdr' = TRUE
  /\ UNCHANGED <<receiver, missed, reportedLostFrame, frameType, waits, drops,
                 idrFrameProcessed, decodeUnitQueue, intact>>

-------------------------------------------------------------------------------
(* The decoder's side *)

\* requestDecoderRefresh, the four things it does from the decoder's thread.
RefreshWaits ==
  /\ waitingForIdrFrame' = TRUE
  /\ UNCHANGED <<receiver, network, frameType, waitingForNextSuccessfulFrame, drops,
                 idrFrameProcessed, decodeUnitQueue, idrFrameRequired, intact>>
RefreshFlushes ==
  /\ Flush
  /\ UNCHANGED <<receiver, network, frameType, waits, drops, idrFrameProcessed,
                 idrFrameRequired>>
RefreshDefers ==
  /\ dropStatePending' = TRUE
  /\ UNCHANGED <<receiver, network, frameType, waits, consecutiveFrameDrops,
                 idrFrameProcessed, decodeUnitQueue, idrFrameRequired, intact>>
RefreshAsks ==
  /\ idrFrameRequired' = TRUE
  /\ UNCHANGED <<receiver, network, frameType, waits, drops, idrFrameProcessed,
                 decodeUnitQueue, intact>>

\* LiWaitForNextVideoFrame and LiCompleteVideoFrame(DR_OK).
Dequeue ==
  /\ decodeUnitQueue # <<>>
  /\ decodeUnitQueue' = Tail(decodeUnitQueue)
  /\ UNCHANGED <<receiver, network, frameType, waits, drops, idrFrameProcessed,
                 idrFrameRequired, intact>>
CompleteVideoFrame(unit) ==
  /\ idrFrameProcessed' = (idrFrameProcessed \/ unit.type = "IDR")
  /\ UNCHANGED <<receiver, network, frameType, waits, drops, decodeUnitQueue,
                 idrFrameRequired, intact>>

\* stopVideoDepacketizer and destroyVideoDepacketizer, the threads joined: only
\* the queue and the request go, the flags wait for the next stream.
DestroyVideoDepacketizer ==
  /\ receiver \notin {"reassemble", "overflow"}
  /\ decodeUnitQueue' = <<>> /\ idrFrameRequired' = FALSE
  /\ UNCHANGED <<receiver, network, frameType, waits, drops, idrFrameProcessed, intact>>

===============================================================================
