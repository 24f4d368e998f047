# Verification of Moonlight for Scarlet

TLA+ models of the Moonlight streaming client in this repository, TLC
configurations that check them on small instances, and TLAPS proofs of the most
important results for every instance.

## 1. Inventory of the system

The program is one process. A UI thread (`moonlight/src/ui.rs`) owns the pages
and starts one short-lived worker thread per host operation. A *stream worker*
runs `stream::run`: it starts the vendored C transport core through
`moonlight-sys`, pulls coded frames, decodes and presents them. The core runs
its own threads (receive, control, audio, loss statistics) and calls back into
Rust. On Scarlet the core's threads, mutexes and condition variables are the
futex-based ones of `moonlight-sys/src/scarlet.rs`.

| Component | Source | State | Operations | Hard behaviour |
|---|---|---|---|---|
| Futex mutex and condition variable | `moonlight-sys/src/scarlet.rs` | one atomic word each | lock, unlock, wait, signal | lost wakeups between a test and a sleep |
| Singleton connection | `moonlight-sys/src/connection.rs`, `platform/common_bridge.c`, core `Connection.c` | `CONNECTION_ACTIVE`, `CORE_CONNECTION_LOCK`, `VIDEO_WAKE_STATE`, bridge scalars, per-connection flags | start, wait for frame, request stop, send input, stop, termination callback | teardown against wakes and input of other threads, late callbacks of an earlier session |
| Decode-unit queue | core `LinkedBlockingQueue.c`, `VideoDepacketizer.c` | list, size, shutdown/drain/wake flags | offer, wait, wake, shutdown, flush, complete | signals issued after unlocking, overflow, IDR recovery |
| Stream UI | `moonlight/src/ui.rs` | phase, page, `stream_control`, prepared session, connected host | connect, start, stop, cancel, shutdown | worker results that arrive after the user has moved on |
| Gamepads | `moonlight/src/gamepad.rs` | 16 device slots, 16 sent states | observe, sync, release, reset | sends that fail half way through a batch |
| Touch routing | `moonlight/src/touch.rs` | contacts, native or emulated | route, release | contact ids, cancelled contacts, failures |
| Keyboard and mouse | `moonlight/src/input.rs` | pressed keys and buttons, suppression sets | send, release all, suppress | keys left pressed on the host |
| Host control plane | `moonlight-control/src/client.rs`, `session.rs` | host status, pairing | connect, pair, apps, launch, resume, cancel | multi-step exchanges that fail half way |
| Client identity and host list | `moonlight-control/src/crypto.rs`, `hosts.rs`, `settings.rs` | files in the state directory | load or create, remember, update | crash between files, concurrent writers |
| Audio callbacks and renderer | `moonlight-sys/src/audio.rs`, `moonlight/src/audio.rs` | installed renderer, first error, PCM queue | init, decode, clear | callbacks during replacement |
| Video output | `moonlight/src/video.rs` | latest-frame slot, paint signal | present, take, reset | producer and painter |
| Diagnostics | `moonlight/src/stream_diagnostics.rs` | stage and timestamp | enter, watch | monitor against worker |
| XML, licences, build, entry point | `xml.rs`, `licenses.rs`, `build.rs`, `main.rs` | none | parsing, text | none |
| Transport core proper | `third_party/moonlight-common-c` | RTSP, RTP, ENet, FEC | network streaming | vendored |

### How the parts interact

- **UI thread to workers.** `connect`, `start_selected_application` and
  `cancel_host_application` each spawn a thread and return. Worker and UI share
  `State` cells (phase, page, host, stream handle, texts); a worker publishes
  what it learns one `set()` at a time, so the UI can act between two of them.
- **UI thread to the running stream.** The UI keeps a cloned
  `ConnectionControl`. `request_stop` sets a flag of that connection and wakes
  the frame queue through the gate `VIDEO_WAKE_STATE`; input takes
  `CORE_CONNECTION_LOCK`, tests that the connection is active and calls into
  the core.
- **Worker to core.** The worker starts the core, waits in `LbqWaitForQueueElement`
  for decode units, and on its way out stops the core, which joins the core's
  threads.
- **Core to client.** Receive threads offer decode units to the queue and may
  flush it; the audio thread calls the installed renderer; a thread that finds
  the connection lost spawns a *detached* thread for the termination callback.
- **Window manager to UI.** Pointer capture and fullscreen are requests with
  answers that come later, or unasked; loss of focus releases all input.
- **Platform layer.** Every mutex and condition variable of the core is one of
  `scarlet.rs`.

### What makes each part correct

| Component | Properties |
|---|---|
| Futex mutex | two threads are never inside; a sleeper is never forgotten; somebody gets in again; it is a mutex |
| Decode-unit queue | bound and order kept; no signal lost between test and sleep; a wake, a drain or a shutdown ends a blocked read |
| Singleton connection | core, renderer and wake registration have one owner; wakes and input only reach a core that exists, and the caller's own; a requested stop and a reported termination end the frame loop |
| Application session logic | a phase that refuses clicks is always replaced; the published handle is live; a running stream can be stopped |
| Controllers | every control can be told apart on the host; what was recorded as sent is what the host has; one controller is one player; a player's place is not handed over; the host converges to what is plugged in |
| Keyboard, mouse, touch | the host holds the keys that are held, whatever modifiers change meanwhile; what the host holds down is on the list that is released on focus loss; no button is held without capture; fingers keep apart; a stream starts with an empty record |
| Control plane | a reported success is true, but for the application of a session resumed while somebody switches the host; the PIN is proven before the client's secret leaves it; a failed pairing can be repeated; a lost answer to a launch is resumed, not launched again |
| Identity and files | every caller gets the same identity, whatever crashes, as long as two workers do not meet while one is created; no remembered host is lost; settings shown, used and stored agree |
| Video depacketizer | the decoder gets no frame without its references; pictures come back after every loss |
| Video output | the newest picture is painted, and on the page of its own stream, as long as one start at a time is under way |

`PROJECT.json` lists the hazards of the code line by line with the properties
that cover each, and the components that are not modelled with the reason.

## 2. Modules

```
 Mutex  <--refines-- PlatformMutex --INSTANCE--> RawMutex   (LinkedQueueProofs)
   ^                    : it is the mutex LinkedQueue locks
   +----uses-------- LinkedQueue --refines--> BlockingQueue   (LinkedQueueProofs)
   |                    : its reader is the wait of Connection
   +-refines, uses-- Connection          (ConnectionProofs)
   |                    : its lease is the core SessionUi's workers claim
   +----uses-------- SessionUi           (SessionUiProofs)
                        : its streams are the links of
      Gamepads (GamepadsProofs)   RemoteInput (RemoteInputProofs)   StreamMedia (StreamMediaProofs)
         ^ states                    : its keys are those of           | EXTENDS
      GamepadsMC                  Keyboard (RemoteInputProofs)      VideoDepacketizer
         | EXTENDS                   | EXTENDS
      ControllerEvents            KeyCodes

 HostSession (HostSessionProofs)          ClientFiles (ClientFilesProofs)
    what SessionUi's workers ask of the host, and what they keep on disk
```

Three modules put two models that never meet into one run, `LinkedQueueMC`
(`LinkedQueue`, `PlatformMutex`), `RemoteInputMC` (`RemoteInput`, `Keyboard`) and
`HostSessionMC` (`HostSession`, `Gamepads`): each model moves while the other
stands in its initial state, so that a run explores the behaviours of both, one
after the other and never their product. No fair action of either is enabled, or
changes anything, in the states the other begins in, so that fairness asks
nothing of the model that stands still.

Each level uses the level below through what the lower one was shown to
implement: `LinkedQueue` takes the mutex in one step because `RawMutex`
implements `Mutex`; `Connection` has a queue with a counter and a wake flag
because `LinkedQueue` implements `BlockingQueue`; `SessionUi` has one variable
`active` for the core because `Connection` implements `Mutex` with the owner of
the singleton as holder.

That the lower level implements the promise is one half; that the upper one keeps
to its side is the other. For every lock both are theorems: `LinkedQueue` uses its
lock as a `Mutex` (`QueueUsesMutex`), `Connection` uses `CORE_CONNECTION_LOCK` and
the gate as two (`CoreLockIsMutex`, `GateIsMutex`), and `SessionUi`'s workers use
the core as one (`CoreIsLeased`): each is taken only when free and given back only
by the thread that has it, through every step of every other thread. That
`Connection`'s counter and wake flag are the queue of `BlockingQueue` is read by
hand: both its items and its results are counted, not kept, there.

### RawMutex and Mutex

`RawMutex` is `scarlet.rs:127-176` instruction by instruction. `state` is the
atomic word, `pc[t]` says where a thread is between two atomic accesses or system
calls: `LockFast` is the compare_exchange, `SwapTakes`/`SwapBlocked` the swap of
the slow path, `FutexSleep`/`FutexReturn` FutexWait with its atomic comparison,
its failure and its 1 ms fallback, `Unlock` the swap to unlocked and `FutexWake`
the system call that follows it. `PlatformMutex` is one such mutex with its word and
its threads' points under names of their own, so that its proofs can stand beside
those of the queue that locks it. The kernel is external: it may end a sleep
spuriously. `Mutex` is the specification its callers rely on: acquired only when
free, released only by the holder.

### LinkedQueue and BlockingQueue

`LinkedQueue` is `LinkedBlockingQueue.c` with the platform's condition variable
(`scarlet.rs:199-230`). Writers (`Caller`) go through lock, body, signal and
futex wake; a writer signals after it has released the mutex, and an offer
signals only if the queue was empty. The reader tests, loads the sequence
number, unlocks, and sleeps only if the number has not moved. `moved` stands for
"the sequence number is not the loaded one": exact as long as fewer than 2^32
signals fall between the reader's load and its FutexWait. `BlockingQueue` is the
promise: at most `Bound` items, in order, shutdown before a requested wake before
items, draining ends only an empty queue, and a read that has something to return
does return.

### Connection

`Connection` is `connection.rs` (start, frame loop, stop, callbacks, handles),
`common_bridge.c` and the parts of `Connection.c` that start, terminate and stop
the core, with the frame loop of `stream.rs`. A *session* is one start attempt;
`pc[s]` walks it from the validation of its parameters and the compare_exchange
on `CONNECTION_ACTIVE` through `install_audio_renderer`, the reset of the bridge,
the start stages, the registration under the gate, the frame loop and the seven
steps of `stop`. `term[<<s, w>>]` is the detached thread that core thread `w` of
session `s` spawns: it tests the latch, sets it in a separate step, stores the
error, and wakes the queue under the gate. Clients call `request_stop` or send
input through handles of any session that ever published one, however old. The
bridge's scalars are tagged with the attempt that wrote them, which is all the
properties need to tell apart.

Abstractions: the queue is atomic (see `LinkedQueue`), `install_audio_renderer`
is one step (its mutex is held throughout), a frame's contents and the decoder's
verdict are a choice, and of the server's and the stream's parameters only what
validation tells apart is kept (`Values`).

### SessionUi

`SessionUi` is `MoonlightApp` in `ui.rs` with its workers and `stream::run` as
they see it. A handler of the UI thread is one step; each `set()` of a worker
that another thread reads back is a step of its own, so handlers and workers
interleave at every point where they can observe each other, except inside a
handler. Workers are `connect` (query, contact, pair), `start` (request, claim,
bring-up, announce, show, consume, drop, judge) and `quit`. Which host was
connected, texts and titles are left out; `host` is none, idle or running. Host
and network are the choice between the answers a worker can get. `patient` is a
history variable: the user never set out on an operation while another was under
way.

### Gamepads and ControllerEvents

`Gamepads` is the table of `gamepad.rs` with the handlers of `ui.rs` that feed
it. `devices` and `sent` are the two arrays, `remote` is what the masks and states
of the packets make of the host. `on_gamepad` is one step (`Observe`,
`ObserveReset`: the snapshot, then a sync), `on_window_sync` another
(`WindowSync`), both gated by the stream's page and by `routed`, which says that
the window has stopped using controllers to navigate. One packet is one step;
`SendFails` ends a sync at any packet. The mutex that `sync` holds is `syncing`.

`ControllerEvents` is `translate`, `hat`, `trigger` and the A/B exchange on the
platform's events at full width: 16-bit sticks with the saturating negation,
15-bit triggers of two conventions, buttons as sets. `GamepadsMC` gives `Gamepads`
states that `Translate` makes, and checks the translation itself over everything
that can be held.

### RemoteInput

`RemoteInput` is `input.rs`, `touch.rs` and the handlers of `ui.rs` that call
them: keys, buttons, contacts, the shortcut chords and the pointer capture with
the window manager's answers. `state` is `PressedInput`, `host` is what the host
holds down, `lost` is a history variable: what stays down because its one
release failed. A key or button is sent (`Send`) and recorded afterwards
(`Record`), and the worker of a stream that ends resets the record in between
(`Reset`); handlers exclude each other, and the packets of one release are one
step with any subset of them failing. Positions, motion and wheel steps press
nothing and are left out.

`Gamepads` and `RemoteInput` follow one stream after the other. That is what
`SessionUi` gives for a patient user. In both the stream's page can also be left
with everything held (`LeavePage`): that is a worker selecting another page. The
back arrow of the stream's page calls `stop_stream` (`ui.rs:1141`), which releases
keys and controllers (`LeaveStream`, `ReleaseAll`).

### Keyboard and KeyCodes

`KeyCodes` is the code of a key event. The platform reports a printable key by
the character it types just now: up to three, alone, with Shift and with Ctrl
(`UsLayout`, which is external: it is what `scarlet_ui` reports). `Vk` is
`char_to_vk`; it has no code for 0 and 30, which Ctrl makes of 2 and 6.

`Keyboard` presses and releases such keys while Shift, Ctrl and Alt go down and
up in between, the focus moves to another window and back, chords take events,
and packets fail. In `RemoteInput` a key is its code; here a press and a release
each look their code up (`VkNow`). `recorded` and `swallowing` are the key sets of
`PressedInput`, `remote` is what the host holds. Three history variables say why
the host holds a code that no key holds: the packet of its release failed
(`unsent`), its release typed a character without a code (`untyped`), or its
release was taken for a chord's (`swallowed`). The last also befalls a plain
press: a chord's key that is released in another window stays in
`suppressed_shortcut_keys`, and the release of its next press is consumed
(`input.rs:100`).

### HostSession

`HostSession` is `client.rs` and `session.rs` of `moonlight-control`: connect
with its pairing (prompt, challenge, response, secret, confirmation; `unpair`
after a failure), start, launch, resume and cancel. `GameStreamClient` keeps no
state, so one caller is modelled and everybody else is `HostStep`: other clients
start and quit games, unpair this one, the PIN is typed or mistyped. A request is
one step of host and client; or it fails, or it times out and stays in `late`
until the host takes it after all (`HostTakesLate`) or it is dropped. `switched`
is a history variable: what the host runs has changed between the query that
found the application running and the answer to the resume request. That request
does not name an application, and `SuccessIsTrue` then says only that something
runs.

### ClientFiles

`ClientFiles` is `crypto.rs`, `hosts.rs`, `settings.rs` and their use by the
workers in `ui.rs`. Nothing locks a file: each existence test and each read is a
step, a write is several (it empties the file, it fills it), each may fail, and the
process may end between any two (`Restart`), which leaves a file empty or cut
short. A certificate, a key or a `hosts.json` cut short is refused when it is
read; `unique_id` is not: any non-empty string of hexadecimal digits is an id
(`crypto.rs:101`), so that a piece of it (`Piece`) is a value of its own, taken by
every later caller, and `FillSome` lets a reader find it before the write is
complete. `used` collects what callers were handed, `kept` what was saved,
`raced` and `crowded` remember whether two workers were ever inside the
unprotected region together. `ClientFilesMC` adds the symmetry of workers,
identities and hosts, and a bound: a second identity, a second host and a change
of the settings are not all three explored in one behaviour, but any one of them
with everything that can happen to the other files.

### VideoDepacketizer and StreamMedia

`VideoDepacketizer` is the decode-unit queue of `VideoDepacketizer.c` for the one
decoder this program registers (H.264, pulled, no reference-frame invalidation):
waits, drops and their limit, overflow with its flush, `requestDecoderRefresh` in
three steps beside the receiver, the request for an IDR frame and the host's
answer. A frame is its first packet, its last packet and what is done with it.
`sound` says of a queued frame that its references were queued before it.

`StreamMedia` puts the worker's loop of `stream.rs` with every way out of it and
the video output of `video.rs` around it: the slot of the newest picture, the
signal, the mounted view and its painting. The worker selects the page
(`Started`, `page`), and the window's thread builds the view when it gets to it
(`Rebuild`, `mounted`), before or after the first pictures. Any number of further
starts up to `MaxLaunching` may be under way at any time, since connecting to no
host makes the start button work again (`ui.rs:158-172`); which of them gets the
connection is open. `patient` is a history variable: the last start found no
worker with the connection and none preparing a stream.

## 3. Runs

| Run | Instance | What it shows |
|---|---|---|
| `linked_queue` | a mutex with 4 threads; a queue with 2 callers, 2 items, bound 2 | mutex: no stranded sleeper, progress, refinement of `Mutex` (with it, exclusion); queue: no lost wakeup, a raised flag ends a read, refinement of `BlockingQueue` with its bound, order and progress |
| `connection` | 2 sessions, 1 client, 1 core thread, bound 1 | ownership, wakes and input against teardown, reports of an attempt's own, refinement of `Mutex` |
| `connection_live` | 1 session, 2 clients, 1 core thread | a requested stop and a reported termination end the session |
| `stale_termination` | as `connection` | *violation*: a detached callback of the last session terminates the next |
| `session_ui` | 2 workers | no phase locks the UI, the published handle is live, a patient user can stop every stream, busy phases end |
| `orphaned_stream` | 2 workers | *violation*: a user in a hurry cannot |
| `remote_input` | 2 keys, 2 buttons, 3 fingers, 2 contact ids; 5 keys of the keyboard, 3 modifiers | the release list is complete, capture and buttons agree, fingers apart, unlocking spares the rest; the host follows the keys |
| `host_and_gamepads` | 2 applications, 2 requests given up and still under way; 3 controllers, 2 slots, 3 states, 2^13 sets of buttons with 9 hat positions, all trigger and stick values | success is true (with the exemption above), the PIN is proven, a lost launch is resumed, pairing recovers; sent equals remote, players distinct and not handed over, convergence, every control told |
| `switched_game` | 2 applications | *violation*: a session is reported as resumed for an application that the host no longer runs |
| `client_files` | 2 workers, 2 identities, 2 hosts, 2 settings (two of the three doubled at a time), symmetry | one identity, hosts kept, settings agree, over crashes and failed writes |
| `stream_media` | queue of 1, drop limit 2, 2 starts under way | decodable frames only, nothing before an IDR frame, newest picture, of the own stream |
| `stream_recovery` | queue of 1, drop limit 2, 1 start, no window | pictures come back after every loss |

`stream_recovery` leaves the window out (`UnseenSpec`: no view is ever built),
because neither the worker nor the depacketizer looks at it and `Recovers` speaks
of them only.

Type invariants are theorems for every module; a run lists what a bug would be
likelier to break.

**Why the bounds are enough to be interesting.** Four threads are a holder, an
unlocker between its swap and its wake, a sleeper and a newcomer: one for each
role the word distinguishes. A bound of two lets the queue be empty, partly
filled and full, and two callers let a signal overtake an operation. Two
sessions are an old and a new one, with one thread's late callback and one
client holding a handle of either; three would repeat a pair. Liveness of the
connection is about one session and those who want to end it, hence two
clients. Two workers in `SessionUi` give every pair of overlapping operations,
and a worker that ends can be used again. Three devices on two slots make a
device wait for a slot, take over a slot and change slots; the three states are
a controller at rest, one with South and one with East held, the two that the
setting exchanges. Three fingers on two ids exhaust the ids. Two late requests of
any kind let one of an earlier attempt meet one of this; two applications are the
one asked for and another. Two workers with an identity each are what it takes to
mix two, and the second host tells a lost one from a kept one. A queue of one
overflows while the worker holds a frame; with a drop limit of two the limit is
reached, and not by the first drop. Two starts under way beside the running
stream are one that was there before the last start and the last start itself.
The five keys are two letters (one of a chord, one of the chord that disconnects),
2 and -, which Ctrl turns into a character without a code and into one with a
code, and Enter, which types nothing. All counters of the code that matter are
bounded by the code itself (`QueueBound`, `Bound`, `Slots`, `Contacts`,
`DropLimit`); the bounds that are the model's are `MaxLate`, `MaxLaunching` and
that of `ClientFilesMC`. The first two are guards, the last restricts `MCNext`; no
state constraint is used. The theorems hold without any of them.

**Deadlock** is checked in `linked_queue`, `host_and_gamepads`, `client_files`,
`stream_media` and `stream_recovery`. The other configurations
switch it off because the modelled programs do stop: every session done, or the
window shut and no worker running; in `RemoteInput` the final states are those in
which nobody presses anything, and its `Next` covers only one page.

**Fairness.** `RawMutex` and `LinkedQueue`: a thread inside an operation is
scheduled again (the kernel does not starve a runnable thread), and critical
sections end; nobody has to start an operation and no wakeup has to be spurious.
`LinkedQueue` and `Connection` also assume that a mutex that is free again and
again is eventually taken by a thread that wants it (strong fairness of the lock
steps). `RawMutex` alone guarantees that *somebody* gets in (`WaitersMakeProgress`);
the writers of these locks pause between operations, which is what the stronger
assumption amounts to. `Connection` obliges nobody to start, stop, lose the
connection or send. `SessionUi`: a worker goes on, since every network call of
`moonlight-control` has a timeout (`client.rs:19-20`, `session.rs:10-12`; 120 s
while a PIN is typed at the host); a stream has to end only if it was asked to,
which is `StopIsObeyed` of `Connection`. `HostSession`: for the same reason an
exchange ends, and nobody has to call. `Gamepads`: every frame of the window calls
`on_window_sync`, a sync goes on, and packets can be queued time and again.
`StreamMedia`: the worker, the receive thread and the control thread go on;
painting need not.

Three liveness properties have a premise about the world, stated beside them:
`Calm` (from some time on no device, setting or page changes), `Smooth` (from some
time on answers arrive and the PIN is typed) and `Steady` (from some time on the
stream runs, frames come whole and the queue does not overflow). Before that time
everything may go wrong, which is what the properties are about.

## 4. Proofs

The `*Proofs` modules hold what holds for every value of the constants. Each
follows the same argument: an inductive invariant `IInv`, one lemma per group of
actions that it is preserved, and the theorems as its consequences.

| Module | Theorems | What the invariant adds |
|---|---|---|
| `LinkedQueueProofs`, of `PlatformMutex` | `TypeOK`, `MutualExclusion`, `NoStrandedSleeper`, `ImplementsMutex` | somebody holds the mutex exactly while the word is not unlocked |
| `LinkedQueueProofs`, of `LinkedQueue` | `TypeOK` (with the bound), `NoLostWakeup`, the safety part of `ImplementsQueue` (`SafeRefinement`), its lock is a `Mutex` | who holds the lock; between test and unlock nothing is due; between unlock and sleep, what became due has moved the number or a signal is on its way |
| `ConnectionProofs` | `TypeOK`, `CoreBelongsToOwner`, `WakeHitsLiveQueue`, `InputReachesOwnCore`, `ConsumerHasQueue`, `ReportsAreOwn`, `ImplementsLease`, its two locks are each a `Mutex`, `NoWakeLost`, `ChainsOfWaitsEnd` | at which points an attempt owns the singleton, has a core, a renderer and a registration; who holds the two locks where; what the holder of each may rely on; whose stage and audio error the bridge has |
| `SessionUiProofs` | `TypeOK`, `BusyPhaseOwned`, `HandleLive`, `PatientCanStop`, the core is a `Mutex` (`CoreIsLeased`) | nothing for the first three; for a patient user, that one worker at most is on its way to or from a stream, and that its handle is published or it was asked to stop; for the core, that a worker has it exactly between its claim and the end of its stream |
| `GamepadsProofs` | `TypeOK`, `SentIsRemote`, `OnePlayerEach`, `NoHandover`, `ToldFaithfully` | a sync runs only on a stream; without one the host has no controllers; a launch has recorded none as sent |
| `RemoteInputProofs` | `TypeOK`, `HeldIsListed`, `UncapturedIsReleased`, `FingersApart`, `FreshStart`, `UnlockSparesTheRest` | the list is complete also while something is being sent, dead streams hold nothing, buttons are recorded only under capture |
| `RemoteInputProofs`, of `Keyboard` | `HostFollowsKeys` (`KeysFollowed`) | what the host holds is recorded, unless the packet of its release failed |
| `HostSessionProofs` | `TypeOK`, `PinProven`, `SuccessIsTrue` | while a resume is under way the host runs the application, or has been switched since it was seen to run it |
| `ClientFilesProofs` | `TypeOK`, `SameIdentity`, `HostsKept`, `SettingsAgree` | `unique_id` is written last and tested last, so that who finds all three files reads what one creation wrote, or a piece of its id, which stays what it is once the creator is gone; a worker about to save holds all that was saved |
| `StreamMediaProofs` | `TypeOK`, `Decodable`, `PulledAfterIdr`, `FreshPicture`, `NoPictureForgotten` | when the receive thread no longer waits for an IDR frame, what it is about to queue follows what it queued last (`WaitInv`); every unit queued or held has its references before it; before the first IDR frame was processed one is held or heads the queue |

Assumptions are those of the modules (`ThreadAssumption`, `QueueAssumption`,
`ConnectionAssumption`, `WorkerAssumption`, `GamepadAssumption`,
`InputAssumption`, `KeyboardAssumption`, `AppAssumption`, `FilesAssumption`,
`DepacketizerAssumption`, `LaunchingAssumption`):
distinct model values,
natural numbers for bounds, the two chord keys among the keys, the keys of the keyboard among those of the US
layout, the setting's exchange a map of states. Each is evaluated by a run. No set
is assumed to be finite.

In `ConnectionProofs` the locks carry the argument. `WakeHitsLiveQueue` needs
that whoever is between its check and its wake holds the gate, that `Unregister`
needs the gate, and that the queue is destroyed only after it;
`InputReachesOwnCore` needs the same of the core lock, and that an active
connection is the owner's. That a callback may come from any earlier session is
why the first is stated with *some* live queue for callbacks.

Two theorems there are not about a run's property but about what its liveness
rests on, and hold for any number of attempts, clients and core threads, where
`connection_live` has one attempt. `NoWakeLost`: a worker that waits for a frame and
was asked to stop, or whose core reported its end, has the wake in its queue, or a
thread on the way that cannot miss it (it has yet to take the gate, and the worker
stays registered while it waits). `ChainsOfWaitsEnd`: of threads that wait for the
gate, the core lock or a join, who waits for a waiting thread waits for one that
goes on, so that nobody waits in a circle. The configurations of `Connection`
switch the check for deadlock off, because attempts do end; this is what takes its
place. Both were checked by TLC on the instance of `connection` first, which also
shows that chains of two do occur.

In `StreamMediaProofs` the two sides of the queue are separate. `WaitInv` is about
the receive thread alone and holds as long as the worker serves the stream;
`QueueInv` and `HeldInv` carry what it queued to the decoder; `IdrInv` says where
the first IDR frame is. When the worker gives a frame back unread, the invariants
are given up with it: the refresh that follows runs beside the receive thread and
breaks them, and `PulledAfterIdr` holds only because nothing is pulled any more.

`ToldFaithfully` speaks of finite tables, and its run evaluates them completely;
the proof says why it holds: that the map of buttons is one-to-one and the hat's
directions are none of its buttons, that a rounded quotient is at most half a step
off, and that negation saturates.

`HostFollowsKeys` (`KeysFollowed`) needs of the key tables that a key is pressed and
released under its own code or, for 2 and 6 with Ctrl, under none (`OneCodePerKey`),
and that no other key has that code (`OwnCodes`). They follow from the table of
codes being exactly the list `Row`, in which a character has one code. The rest is
by induction: that losing the focus releases what is held needs that it is
recorded. The theorem is for any set of keys of the US layout; TLC's instance has
five.

In `ClientFilesProofs` the order of the writes does. While no two workers have met
at a creation (`raced`), the invariant says that the one creating has written the
parts before its own (`Written12`); that once `unique_id` is there, certificate and
key are those of one identity and `unique_id` is empty, a piece of its id or all of
it, which is what everybody was handed, and that before it is there nobody was
handed anything (`Settled`); and that whoever reads has read what is still in the
files (`Reading`). `HostsKept` rests on `Remembered`: unless `crowded`, the document
a worker is about to write holds every host that was kept and its own, and a file
that is empty or torn stops the next save at its load.

In `StreamMediaProofs`, `FreshPicture` is about the last start: with no worker
before it, no picture of an earlier stream is in the slot or on its way there
until the next connection.

**Only model-checked**: all liveness (`WaitersMakeProgress`, `RaiseEndsRead`,
`StopIsObeyed`, `TerminationEndsLoop`, `BusyPhasesEnd`, `Converges`,
`LostLaunchResumed`, `PairingRecovers`, `Recovers`), which is out of the prover's
reach, and with it the progress that `ImplementsQueue` includes. Every invariant
and every action property that a passing run checks is a theorem.

## 5. Findings

Statements of the repository that the code does not keep. Three have a run, which
prints a shortest behaviour:

- **stale_termination** (`Connection.c:178`): the thread that reports a lost
  connection is detached and stores its error in a process-wide variable. If it is
  delayed past the end of its session and the reset by the next, the next
  session's `termination_error` is the old one's, and its stream ends.
- **orphaned_stream** (`ui.rs:349`): a worker that ends clears `stream_control`
  whoever's handle it is; `connect` is allowed during a launch and re-enables a
  second one. The stream that runs then has no handle.
- **switched_game** (`session.rs:280`): a start or resume that finds the selected
  application running asks the host to resume, without saying what, and then
  reports the selected application. If another client makes the host run something
  else in between, the report is wrong: `session.rs:73` has 'Application that was
  launched or resumed', `session.rs:179` 'Resume the selected application when it
  is already running on the host'.

Two more are in the models without a run that exhibits them:

- A failed start gives the singleton up before it reads the stage for its report
  (`connection.rs:930`; `ReportStage` after `ReleaseAfterFailure`). By then another
  attempt may have reset or advanced it, so that `StartFailed` names the stage of
  that attempt, while `connection.rs:342` has '`LiStartConnection()` failed during
  the reported stage' and `connection.rs:346` 'Last initialization stage entered by
  the core'. The audio error it reports is its own (`ReportsAreOwn`).
- Two workers of a first run can both find no identity and both create one
  (`crypto.rs:54-66`): the later overwrites files of the other, and callers get two
  identities. `crypto.rs:36` has 'creating it when no files exist' and `crypto.rs:56`
  'refusing to overwrite it'. `SameIdentity` exempts this (`raced`), but for the key
  always being that of the certificate.

Smaller things met while modelling:

- The left button of the mouse and that of a finger's drag are one button on the
  host: unlocking the pointer while both hold it ends the drag (`input.rs:209`).
  `UnlockSparesTheRest` states the exception.
- A paired client whose authenticated query goes unanswered takes itself for
  unpaired (`client.rs:272`) and starts pairing; if that fails, it unpairs.
- A `unique_id` cut short by a failed write or the end of the process is taken as
  the id by every later start (`crypto.rs:101`); certificate and key decide what
  the host trusts, so that pairings hold.
- A torn `hosts.json` is never repaired: every load fails, and every save loads
  first. A creation of the identity that was cut short, or two that overlapped
  with a failure, leave a directory that is refused as incomplete for good.
- After a loss that was predicted and did not happen the receiver waits for an
  IDR frame nobody asks for until the drop limit asks (`VideoDepacketizer.c:1140`).
- `requestDecoderRefresh` can leave a dependent frame behind a flushed queue
  (`VideoDepacketizer.c:719`). It is never decoded only because the worker gives
  up after the first frame it refuses.
- The slot of the newest picture is emptied by a start, not by the connection that
  follows it (`ui.rs:289`). A user who starts a stream while another worker still
  has the connection, or prepares one, can be shown a picture of the earlier stream
  on the page of the next: hence `patient` in `FreshPicture`.
- Ctrl+2 and Ctrl+6 are reported as the characters 0 and 30, which have no key
  code: a 2 or a 6 released under Ctrl stays down on the host until the focus is
  lost or the key is pressed and released again.
- A chord's key that is released in another window is still awaited: the release of
  its next plain press is consumed (`input.rs:100`), and the key stays down on the
  host as long.

## 6. Not modelled

- **Fullscreen and decorations**: the wish, the pending request and the answer
  are the machine of the pointer capture, which `RemoteInput` has; decorations
  follow the answers, and a resize finds nothing left to change. An answer that
  comes after the stream has ended can leave the window fullscreen.
- **Audio**: that installing and clearing the renderer and its failure latch are
  the attempt's own is in `Connection`; the Opus decoder and the ring buffer of
  the audio server are one thread and its data.
- **Which host**: `SessionUi` does not tell hosts apart, so that a late connect
  worker publishing its host over a newer one's (`ui.rs:245`) is not covered.
- **Overlapping workers and input**: a worker that ends resets the controllers
  and the pressed input of a stream started meanwhile (`ui.rs:350`).
- **Views and texts, XML parsing, diagnostics, licences and build**: no state that
  threads share.
- **Sockets, threads, time and memory** of the platform layer: thin wrappers.
- **The transport core proper** (RTSP, RTP, ENet, error correction): vendored and
  used as it is.
- **Weak memory**: every model interleaves atomic steps.

## 7. Plan

Done, in the order of importance: the connection and what it stands on
(`RawMutex`, `LinkedQueue`, `Connection`), the session logic on top
(`SessionUi`), the input of a stream (`Gamepads`, `RemoteInput`, `Keyboard`), the
control plane (`HostSession`), the files (`ClientFiles`), and the pictures
(`VideoDepacketizer`, `StreamMedia`).

What is left, in this order:

1. `Connection` and `StreamMedia` shown to use their queue as `BlockingQueue`
   promises, with its results kept.
2. `Gamepads` and `RemoteInput` composed with the overlapping workers of
   `SessionUi`, and `SessionUi` with two hosts.
3. Audio callbacks step by step against the replacement of the renderer.
4. Fullscreen, composed with the end of a stream.
5. `RemoteInput` with the keys of `Keyboard`, so that the record that a worker
   resets and the codes that modifiers change are in one model.
