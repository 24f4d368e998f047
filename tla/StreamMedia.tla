----------------------------- MODULE StreamMedia ------------------------------
(***************************************************************************)
(* What a stream does with its pictures: the worker's loop (stream.rs)     *)
(* pulls decode units from the depacketizer, decodes them and puts the     *)
(* picture in the slot of the video output (video.rs), from which the      *)
(* window's thread paints.                                                 *)
(*                                                                         *)
(* The slot outlives streams.  Connecting to a host, even to none, makes   *)
(* the start button work again (ui.rs:158-172), so the next stream may be  *)
(* started while one runs and while other workers still prepare theirs;    *)
(* `patient' is whether the last start found no worker at all.  A picture  *)
(* is named by the stream it is of: the running one, or one before it.     *)
(***************************************************************************)
EXTENDS VideoDepacketizer

CONSTANT MaxLaunching  \* bound: workers that prepare a stream at one time

ASSUME LaunchingAssumption == MaxLaunching \in Nat

VARIABLES
  worker,        \* where the worker that has the connection is
  unit,          \* the decode unit it holds
  ending,        \* stop_requested, or the core reported a termination
  launching,     \* how many workers prepare a stream
  patient,       \* the last start found no worker with a connection or preparing one
  frames,        \* the picture in the slot `frames'
  shown,         \* the picture the mounted view has
  adopted,       \* the view took the slot's picture: Arc::ptr_eq of the two
  page,          \* selected_page is the stream's
  mounted,       \* the window shows that page, its view subscribed
  dirty          \* the view is to be painted

videoOutput == <<frames, shown, adopted, mounted, dirty>>
session     == <<ending, launching, patient>>
vars        == <<depacketizerVars, worker, unit, session, page, videoOutput>>

Idle    == {"off", "leaving"}
Looping == {"receive", "decode", "present", "notify", "complete"}
Giving  == {"wait", "flush", "defer", "ask"}  \* the steps of DR_NEED_IDR
NoUnit  == [type |-> "none", sound |-> FALSE]
Picture == {"none", "past", "own"}

TypeOK ==
  /\ DepacketizerTypes
  /\ worker \in Idle \cup Looping \cup Giving \cup {"started"}
  /\ unit \in Unit \cup {NoUnit}
  /\ {frames, shown} \subseteq Picture
  /\ launching \in 0 .. MaxLaunching
  /\ {ending, patient, page, adopted, mounted, dirty} \subseteq BOOLEAN

Init ==
  /\ InitDepacketizer
  /\ worker = "off" /\ unit = NoUnit
  /\ ending = FALSE /\ launching = 0 /\ patient = TRUE
  /\ frames = "none" /\ shown = "none" /\ adopted = TRUE
  /\ page = FALSE /\ mounted = FALSE /\ dirty = FALSE

CoreUp == worker # "off"

-------------------------------------------------------------------------------
(* The video output *)

\* A new picture, or none, is in the slot; a view has another one.
PutPicture(picture) ==
  /\ frames' = picture
  /\ adopted' = (mounted => adopted /\ frames = "none" /\ picture = "none")

\* PaintSignal.notify: whoever is subscribed is to be painted.
Notify == dirty' = (dirty \/ mounted)

-------------------------------------------------------------------------------
(* The window's thread *)

\* render, of a view that is due: the slot's picture is adopted, unless it has
\* it already or the texture cannot be made of it.
Render ==
  /\ mounted /\ dirty
  /\ dirty' = FALSE /\ adopted' = TRUE
  /\ shown' \in IF adopted THEN {shown} ELSE {frames, "none"}
  /\ UNCHANGED <<depacketizerVars, worker, unit, session, page, frames, mounted>>

\* The selected page is built: a new view has no picture, is subscribed before it
\* is painted, and due; the view of a page that is left is dropped.
Rebuild ==
  /\ mounted # page
  /\ mounted' = page /\ dirty' = page
  /\ shown' = "none" /\ adopted' = (page => frames = "none")
  /\ UNCHANGED <<depacketizerVars, worker, unit, session, page, frames>>

Window == Render \/ Rebuild

-------------------------------------------------------------------------------
(* The user *)

\* Mutant: the slot keeps the last picture of the stream before.
StartKeepsPicture ==
  /\ ~mounted /\ launching < MaxLaunching
  /\ launching' = launching + 1
  /\ patient' = (worker = "off" /\ launching = 0)
  /\ UNCHANGED <<depacketizerVars, worker, unit, ending, page, videoOutput>>

\* start_selected_application, from another page: the output is reset and a
\* worker spawned.
Start ==
  /\ ~mounted /\ launching < MaxLaunching
  /\ launching' = launching + 1
  /\ patient' = (worker = "off" /\ launching = 0)
  /\ PutPicture("none")
  /\ Notify
  /\ UNCHANGED <<depacketizerVars, worker, unit, ending, page, shown, mounted>>

\* stop_stream from the stream's page, or cancel_host_application from another.
Stop ==
  /\ worker \in Looping \cup Giving
  /\ ending' = TRUE
  /\ page' = FALSE
  /\ UNCHANGED <<depacketizerVars, worker, unit, launching, patient, videoOutput>>

\* The user goes elsewhere and lets the stream run; go_back from the settings
\* leads to the page that was selected when they were opened, which may be the
\* stream's.
GoBack ==
  /\ page' = ~page
  /\ UNCHANGED <<depacketizerVars, worker, unit, session, videoOutput>>

-------------------------------------------------------------------------------
(* The worker *)

WorkerGoes(from, to) == worker = from /\ worker' = to

\* The host session or the connection cannot be had; another worker's
\* connection is one reason.
StartFails ==
  /\ launching > 0
  /\ launching' = launching - 1
  /\ page' \in {page, FALSE}
  /\ UNCHANGED <<depacketizerVars, worker, unit, ending, patient, videoOutput>>

\* start_with_audio: the core is up, with a fresh queue.
Connect ==
  /\ launching > 0
  /\ WorkerGoes("off", "started")
  /\ launching' = launching - 1 /\ ending' = FALSE
  /\ InitializeVideoDepacketizer
  /\ frames' = IF frames = "own" THEN "past" ELSE frames
  /\ shown' = IF shown = "own" THEN "past" ELSE shown
  /\ UNCHANGED <<unit, patient, page, adopted, mounted, dirty>>

\* With H.264 negotiated the page is selected and the decoder opened; without,
\* or without a decoder, the stream ends.
Started ==
  /\ worker = "started"
  /\ \/ worker' \in {"receive", "leaving"} /\ page' = TRUE
     \/ worker' = "leaving" /\ UNCHANGED page
  /\ UNCHANGED <<depacketizerVars, unit, session, videoOutput>>

\* wait_for_video_frame, which returns nothing once the stream is to end.
Pull ==
  /\ ~ending
  /\ WorkerGoes("receive", "decode")
  /\ Dequeue
  /\ unit' = Head(decodeUnitQueue)
  /\ UNCHANGED <<session, page, videoOutput>>

PullNothing ==
  /\ ending
  /\ WorkerGoes("receive", "leaving")
  /\ UNCHANGED <<depacketizerVars, unit, session, page, videoOutput>>

\* The unit's buffers do not make the access unit that was announced.
BadAccessUnit ==
  /\ WorkerGoes("decode", "wait")
  /\ UNCHANGED <<depacketizerVars, unit, session, page, videoOutput>>

\* The decoder or the output refuses.  In both cases the frame is completed
\* with NeedIdr and the loop left.
GiveUp ==
  /\ WorkerGoes("decode", "wait") \/ WorkerGoes("present", "wait")
  /\ UNCHANGED <<depacketizerVars, unit, session, page, videoOutput>>

\* submit and dequeue_output: with a picture, or with none yet.
Decode ==
  /\ WorkerGoes("decode", "present") \/ WorkerGoes("decode", "complete")
  /\ UNCHANGED <<depacketizerVars, unit, session, page, videoOutput>>

\* Mutant: the slot is filled and nobody told.
PresentSilently ==
  /\ WorkerGoes("present", "complete")
  /\ PutPicture("own")
  /\ UNCHANGED <<depacketizerVars, unit, session, page, shown, mounted, dirty>>

\* present_image fills the slot, then notifies.
Present ==
  /\ WorkerGoes("present", "notify")
  /\ PutPicture("own")
  /\ UNCHANGED <<depacketizerVars, unit, session, page, shown, mounted, dirty>>

PresentNotifies ==
  /\ WorkerGoes("notify", "complete")
  /\ Notify
  /\ UNCHANGED <<depacketizerVars, unit, session, page, frames, shown, adopted,
                 mounted>>

\* The frame is completed, which gives its buffers back.
Complete ==
  /\ WorkerGoes("complete", "receive")
  /\ CompleteVideoFrame(unit)
  /\ unit' = NoUnit
  /\ UNCHANGED <<session, page, videoOutput>>

\* Mutant: the worker goes on after a frame it had to refuse.
NeedIdrAndGoOn ==
  /\ \/ WorkerGoes("wait", "flush") /\ RefreshWaits
     \/ WorkerGoes("flush", "defer") /\ RefreshFlushes
     \/ WorkerGoes("defer", "ask") /\ RefreshDefers
     \/ WorkerGoes("ask", "receive") /\ RefreshAsks
  /\ unit' = NoUnit
  /\ UNCHANGED <<session, page, videoOutput>>

\* NeedIdr: requestDecoderRefresh, step by step; then the worker gives up.
NeedIdr ==
  /\ \/ WorkerGoes("wait", "flush") /\ RefreshWaits
     \/ WorkerGoes("flush", "defer") /\ RefreshFlushes
     \/ WorkerGoes("defer", "ask") /\ RefreshDefers
     \/ WorkerGoes("ask", "leaving") /\ RefreshAsks
  /\ unit' = NoUnit
  /\ UNCHANGED <<session, page, videoOutput>>

\* connection.stop joins the core's threads; the page of the stream is left if
\* it failed or the phase is still Streaming.
Leave ==
  /\ WorkerGoes("leaving", "off")
  /\ DestroyVideoDepacketizer
  /\ page' \in {page, FALSE}
  /\ UNCHANGED <<unit, session, videoOutput>>

Works ==
  \/ Started \/ Pull \/ PullNothing \/ Decode \/ Present \/ PresentNotifies
  \/ Complete \/ NeedIdr \/ Leave

-------------------------------------------------------------------------------
(* The core *)

Terminate ==
  /\ CoreUp /\ ~ending
  /\ ending' = TRUE
  /\ UNCHANGED <<depacketizerVars, worker, unit, launching, patient, page,
                 videoOutput>>

media == <<worker, unit, session, page, videoOutput>>

Receive  == CoreUp /\ Receives /\ UNCHANGED media
Predict  == CoreUp /\ NotifyFrameLost /\ UNCHANGED media
Lose     == CoreUp /\ (FramesLost \/ CorruptFrame) /\ UNCHANGED media
Control  == CoreUp /\ RequestIdr /\ UNCHANGED media

Next ==
  \/ Start \/ Stop \/ GoBack \/ Window
  \/ StartFails \/ Connect \/ BadAccessUnit \/ GiveUp \/ Works
  \/ Terminate
  \/ Receive \/ Predict \/ Lose \/ Control

\* The worker goes on, the network brings packets, and the control thread sends
\* what it is asked for.
Fairness == WF_vars(Works) /\ WF_vars(Receive) /\ WF_vars(Control)

Spec == Init /\ [][Next]_vars /\ Fairness

\* The same streams with a window that never shows them: neither the worker nor
\* the depacketizer ever looks at it.
UnseenSpec == Init /\ [][Next /\ UNCHANGED mounted]_vars /\ Fairness

-------------------------------------------------------------------------------
(* Properties *)

\* What the decoder is given is an IDR frame, or a frame whose predecessor was
\* queued and not flushed, back to an IDR frame: whatever the network loses,
\* wherever the queue overflows, no picture is decoded without its references
\* (VideoDepacketizer.c:513-533, 1072-1106).
Decodable == worker = "decode" => unit.type = "IDR" \/ unit.sound

\* The assertion of the core (VideoDepacketizer.c:232): no P frame is dequeued
\* before an IDR frame was processed.  requestDecoderRefresh runs beside a
\* receiver that may just be queueing a P frame; only because the worker
\* (stream.rs:165-200) gives up after the first frame it refuses is that frame
\* never dequeued.
PulledAfterIdr ==
  worker = "decode" => unit.type = "IDR" \/ idrFrameProcessed

\* The page of a stream never shows a picture of a stream before it, if the last
\* start found no worker that had the connection or still prepared a stream
\* (ui.rs:289, video.rs:85).  Who starts a stream before that exempts himself:
\* the slot is emptied for the stream that was started, not for the one that
\* connects next.
FreshPicture == patient /\ mounted => shown # "past"

\* If the view of the page has another picture than the slot, it is due for
\* painting or about to be told: the newest picture is never forgotten, wherever
\* the window mounts the view among the worker's steps (video.rs:130-136 fills
\* the slot and then notifies).
NoPictureForgotten == mounted /\ ~adopted => dirty \/ worker = "notify"

\* From some time on the stream runs, the network brings every frame whole and
\* the worker keeps the queue from overflowing.
Steady ==
  /\ <>[](worker \in Looping /\ ~ending)
  /\ <>[][~Lose /\ ~Overflowed]_vars

\* Then frames are completed again and again: the depacketizer never waits for
\* an IDR frame that nobody asks for.  Where a loss was predicted and the frame
\* came after all, nobody does ask (VideoDepacketizer.c:1140: the request is for
\* the other kind of recovery only), and it is the drop limit that does.
Recovers == Steady => []<>(worker = "complete")

===============================================================================
