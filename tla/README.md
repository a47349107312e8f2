# TLA+ models of the indoor unit

The repository is the firmware of an indoor unit of a video door phone (Anyka SoC, LVGL pages, a
private Ethernet bus to door stations and other indoor units, Tuya as cloud). This directory
holds TLA+ models of the parts of it whose correctness depends on threads, order and loss, the TLC
runs that check them on small instances, and proofs for TLAPS. `PROJECT.json` lists every
component, run, hazard, theorem, and for each definition the lines of source it stands for.

## 1. Inventory

| component | state it keeps | operations | how it interacts |
|---|---|---|---|
| decoder byte ring, `api/queue/ring_buffer.c` | memory, two pointers, fill, counters; a mutex and a condition | init, write, read (with a 10 ms wait), release, snapshot | network thread writes, decoder thread reads, UI thread releases |
| network audio, `api/network/network_audio_package.c` | per direction: task flag, thread flag, id, socket; for sending a pool, a queue, a ready flag | open, close, push, two detached threads | opened by `leo_monitor.c`; microphone and ring tone player push |
| network video, `api/network/network_video_package.c` | the same for video; frame in assembly, indexes, event status | open, close, push, two threads | opened by `leo_monitor.c`; hands frames to decoder, recorder and Tuya |
| monitor and talk switching, `api/common/leo_monitor.c` | channel, way of entry, talk pattern | `monitor_open/close/switch`, `audio_talk_open/close` | calls the network tasks from the UI thread |
| bus commands, `api/network/network_common.c` | presence table, door station info, clash, claim | a receive thread, a table of handlers, a check per second | pushes events to pages; sends heartbeats |
| Wi-Fi, `api/wlan/wlan.c`, three pages | result, running flag, generation; configurations; page flags | start, state, cancel, worker, setup thread | LVGL timer polls; `wpa_supplicant` through shell |
| monitor UI session, `layout_monitor.c`, `layout_standby.c`, `layout_monitor_1.c`, `tuya_session_guard.c` | page, channel, way of entry, talk flags, motion, the task of the talk button | buttons, keys, timers, calls of doors, a handler of the phone's events per page kind | takes events of the queue; opens and closes picture and sound through `leo_monitor.c`; tells the doors over the bus |
| Tuya client session, `ty_sdk_media_callback.c`, `tuya_sdk.c` | number of clients, without a lock | callbacks of the library, a check each second that may reset the number | pushes events for the pages |
| event queue and page framework, `layout_define.c`, `layout_event.c` | a queue of `OS_EVENT_NUM_MAX` nodes, the page | push, take, `goto_layout` | threads push, the UI thread takes |
| storage upload thread, `tuya/tuya_sdk.c` | semaphore, enable flag, count | start, stop, thread | called by the video receiving thread |
| video decoder, `api/video/video_decode.c` | decoder threads, flags | open, close, pause, push | ring (the linked list is not built) |
| recorder, player, thumbnails, local audio, SD card, upgrades, TCP management, user data, pages | threads and files | | see PROJECT.json |

### Which behaviours are hard

* **Sessions outlive their closing.** Every network task is closed by clearing a flag; its detached
  thread leaves later. The next open polls `thread_run`, which only the thread itself raises. So a
  close may overtake the start of a thread, an open may come between the last two statements of a
  thread, and comparisons of ids see the id of a session that is over.
* **Queues across sessions.** Producers do not know of sessions; the queue has to be empty when the
  next begins.
* **Loss.** Video is UDP without retransmission; bus messages are raw frames.
* **Cancellation.** The Wi-Fi worker blocks in `wpa_cli` between its test of the token and its result.
* **Time.** Presence and claims expire by a check that runs when the second changes.
* **Two users of one door.** The person at the unit and a phone share stream, sound and talk. Three handlers,
  each with flags of its own, decide who gets what, and pages come and go below them.
* **A bounded queue of events.** An event that finds it full is lost, and nobody looks at that.
* **Events at the cloud** are started and stopped by a thread that may have been told to leave.

### What makes each component correct

ring: pointers, fill and contents determine one another, and the ring is a FIFO that loses its
oldest bytes. Tasks: what was asked for is running, alone, on the right id and socket; threads leave.
Queue: each package in one place, sent in its session and in order, returned. Reassembly: no torn
frame, no gap in the headers but before a key frame, recovery at each key frame. Events end with their threads.
Wi-Fi: the single-flight flag comes down, an attempt is never taken for another, a saved network
works, the dialog ends. Presence: what is shown is recent, who beats is shown, and nothing is kept of a door station that went. Claims: somebody hears. Session: what is shown is what is
heard, a phone keeps its stream, one of the two talks, a talk and a session that are over are ended.

## 2. Modules and how they correspond to the code

| module | of | state | actions |
|---|---|---|---|
| `LossyFifo` | what the ring promises | interval of held bytes | `Put`, `Take`, `TakeNothing`, ... |
| `RingBuffer` | `ring_buffer.c` | `r_addr`, `w_addr`, `cache_len`, memory, counters, the reader's position | one per critical section; a read is a wait and a copy |
| `RingBufferProofs` | | | inductive invariant and refinement of `LossyFifo` |
| `AudioTasks` | both audio tasks under `audio_talk_open/close` | flags, ids, sockets, a pc per thread, the UI's call | `TalkOpen`, `CompareSame/Other`, `WaitPoll`, `Start`, `TalkClose`; `Begin` ... `ForgetId` of a thread |
| `AudioTasksProofs` | | | inductive invariant |
| `Outbox` | what a sending task promises of the packages pushed to it | numbers offered, those that may still go out, the last that did | `Offer`, `SendVoiceFrame`, `SendRingFrame`, `Discard` |
| `SendQueue` | audio send queue | free and send queues, `ready`, flags, cover buffer | `Push`, `Take`, `SendVoice`, `CoverRing`, `GiveBack`, `ReleaseAll`, ... |
| `SendQueueProofs` | | | inductive invariant, three action properties, refinement of `Outbox` |
| `VideoReceive` | video receiving task under `monitor_*` | flags, id, the static `eth_p_id`, socket, event status, the semaphore | `Open`, `Close`, `Switch*`; thread steps; `StartStorage`, `StopStorage`, `Leave` |
| `VideoReceiveProofs` | | | inductive invariant |
| `LossyStream` | what the video receiver promises the decoder | frames sent, the last that is over, what is handed over | `Make`, `HandOver`, `PassOver` |
| `FrameReassembly` | sender's cutting, receiver's loop | index, `prev_video_index`, assembly, first-key-frame flags | `NewFrame`, `Header`, `Continuation`, `Lost` |
| `FrameReassemblyProofs` | | | inductive invariant, two action properties, refinement of `LossyStream` |
| `WifiConnect` | `wlan.c`, `layout_connect_wifi.c` | page, result, flag, token, workers, setup thread, configurations | one per shared access |
| `WifiConnectProofs` | | | inductive invariant, what `NotConfused` and `SavesWhatConnects` need to hold, why `DialogEnds` does not |
| `BoundedDetector` | what the presence table, and the warning of a clash, promise their readers | who is believed to be there, seconds of silence | `Hears`, `Notices`, `GiveUp`, `Second` |
| `BusPresence` | `network_device_init`, `network_cmd_receive_task`'s check, every handler that writes the table or what is known of door stations, the settings of family and number | table, door stations, clash, counter, own family and number | `HeartBeat`, `StreamStatus`, `CompileTime`, `LockSettings`, `Hang`, `Renumber`, `Check` |
| `TuyaClaim` | the claim in the heartbeat, several units | `tuya_monitor_ing` and its age, per unit | `Beat`, `Hear`, `Lose`, `Phone`, `Tick` |
| `BusCommandsProofs` | | | inductive invariants of `BusPresence` and `TuyaClaim`, two refinements of `BoundedDetector` |
| `TuyaClients` | `ty_sdk_media_callback.c`, the check of `tuya_sdk_thread`, the queue of `layout_define.c` | phones, stops still to come, `client_online_num`, where the check is, the queue | `VideoStart`, `PhoneLeaves`, `VideoStop`, `MissStop`, `Compare`, `Reset`, `PushQuit`, `Speaker`, `TakeEvent` |
| `MonitorSession` | the monitor and standby pages, three handlers of the phone's events, `tuya_session_guard.c` | one record: page, way, channel, talk flags, motion, task of the button, door of sound and picture, microphone, door told | one per button, key, timer, call, event; each composes operators named for the functions it calls |
| `MonitorSessionProofs` | | | invariant and six action properties |

`MC*` modules give constants for TLC. `LossyFifo`, `Outbox`, `LossyStream` and `BoundedDetector` are abstract specifications;
`RingBuffer`, `SendQueue`, `FrameReassembly` and `BusPresence` each take theirs by `INSTANCE` with a refinement mapping, which
the runs check and the proof modules prove; `BusPresence` takes its twice, for the table and for the warning. `MonitorSession` extends `TuyaClients`, whose queue its handlers take from; `AudioTasks` and `SendQueue` are two views of the same task, one with the accesses to
flags and ids, the other with the accesses to the queues; so are `VideoReceive` and
`FrameReassembly`. The definitions of `TuyaClaim` are called `Claim...`, because one module proves things about it and
`BusPresence`. Definitions whose comment starts with "Mutant" are not part of any
specification: each is a plausible bug that the named property must find.

Conventions. A step is one access to what threads share, or one critical section. Ids, streams,
packages, networks and devices are model values; lengths are small numbers of units; what is
sent is a record of where it came from. Polls (300 of 10 ms) are `Polls`. A history variable records
what a property refers to and is never read by a guard of a code action.

Abstractions that matter:

* `RingBuffer`: `ring_buffer_init` is one step although the code takes no lock in it.
* `AudioTasks`, `VideoReceive`: sockets open without error; thread creation succeeds. `Threads`
  bounds how many threads of a task exist together.
* `VideoReceive`: `world` is what other parts answer to the loop's questions, changing at any time. The upload
  thread is one action, that of taking the semaphore. `monitor_close` and a switch to a camera or to
  a door station that is offline are `Close` (they close and open nothing here).
* `FrameReassembly`: the header is part of the first datagram; datagrams keep their order, as on the
  one Ethernet segment of the bus. A payload never begins with the start code.
* `TuyaClients`: a callback of the library is one step together with the change of the library's own number; that
  it reads and writes `client_online_num` apart is in `Overwrites`, the reset that has no effect. A stop
  the library never calls for is `MissStop`, which is what the check of `tuya_sdk_thread` is there for.
* `MonitorSession`: all of it runs in one thread, so a handler is a step. What doors and other units do is chosen
  each time the code looks. `audio` and `video` are the doors of the network tasks as asked for; how tasks come
  and go is in `AudioTasks` and `VideoReceive`. `told` is the door named in the last talk command on the bus. The
  phone's choice of a door (SWAP) is applied at any place after its ENTER instead of waiting in the queue. A
  refused call or motion is no step. "home" stands for every page that is neither monitor nor standby. Left out:
  alarm calls, the loss of the cloud connection, the state of the speaker,
  CCTV, recording, drawing, interphone, locks and light, and the branch of `goto_layout` for a phone on the
  monitor page, which cannot be reached since no phone enters that page.
* `WifiConnect`: the worker's test of flag and token is one step; a shell command is one step.
* `BusPresence`: the receiving thread sees every second (it waits 10 ms at most for a message), and a handler is one
  step, with the family and number that the settings gave last (the code reads `device_family_id` several times in a
  handler, and a settings page may change it in between). Time counts seconds since power on, which only go forward.
  The unit's own entry is online at the start, as `network_device_init` leaves it, with `heart_time` 0; nothing but a
  unit of the same number ever sends its heartbeat, and that raises the clash, so the first round takes the entry off. The messages of
  `CompileTime` and `LockSettings` only write `heart_time`: an offline door station stays offline. They and the
  `StreamStatus` come from door stations (the code indexes `OutDoor_Info` by the sender and does not check it).
  `talk_busy` is the raw flag; the 3 s grace after a hang-up belongs to its readers. A model is none, old or another, a
  version known or not; a version that is sent is not 0.
* `TuyaClaim`: time is in `Slots` of a second; a heartbeat arrives in the slot it was sent in.

## 3. Runs

| run | bounds | what it shows |
|---|---|---|
| `ring` | length 3, blocks 1-4, reads 1, 2, 4, 6 bytes in all | every wrap, exact fit and overflow; refinement of the FIFO; accepted bytes leave |
| `audio_tasks` | 2 devices, one task, 2 threads, 2 polls | sessions and leftovers; threads leave, even two that share a socket |
| `send_queue` | 2 packages, 2 threads, cover of 1, 3 pushes, 3 sessions | nothing lost, misdirected, reordered; packages return; an outbox, also when sessions overtake one another |
| `video_receive` | 2 streams, 2 threads, 1 poll, 4 worlds | right stream, one thread; events end, threads leave |
| `frames` | datagrams of 2, frames of 3, 4 and 5 units of which 5 is too long, 4 frames, phones come and go | every pattern of loss over two or three datagrams a frame; uploads start with a key frame; a lossy stream in order |
| `wifi_connect` | 2 networks of which 1 reachable, 2 attempts, 4 tokens | the flag comes down |
| `wifi_cancel`, `wifi_save`, `wifi_dialog` | the same, small | violated, see below |
| `bus_presence` | 2 families, an indoor unit and a door station, period 1, seconds 1 to 5 | two rounds of the check; table and warning are detectors with two bounds, from the start on, through messages that bring nobody online and changes of family; nothing is kept of a door station that went |
| `tuya_claim` | 3 units in 3 slots | crossing phones, lost claims; no ring of silenced units, release after four seconds, somebody hears |
| `session` | 1 phone at a time, a number of at most 2, a queue of 2 events, 2 doors, all pages, 1.25 million states | who sees, hears and talks, through every order of buttons, calls, motions and events |

Why these are enough. The ring is too long by one for no block, so that all residues of both pointers
meet every size. Two threads of a task are what one overtaken start leaves; a third adds threads
that do the same. Two devices are needed to tell "the same id" from "another". The two audio tasks share nothing
but the order in which `audio_talk_open` opens them, so one is run; the proofs take both, in any order. With
two packages one is held while one waits, and the pool can be empty; three sessions let a package or a thread of
the first meet the third. Four frames hold a frame before a gap, the gap, a key frame and the frame after it.
Four tokens are two attempts each with a cancellation, or three attempts. Five seconds are two rounds
of the check with period 1, the second of which meets a sign of life of `2 * BeatTime + 1` seconds ago; the proofs take any
period (4 in the code). Three units include one that hears the
other two. `GiveUpTicks > MaxTicks` as 30 > 12. A phone whose stop is never
called for is still in the number when it comes again, so that one makes two, and a queue of two events (32 in the code) is full after an ENTER and a QUIT, or a talk
that begins and ends. Where a theorem of section 4 covers a property, the bounds only matter for finding
out quickly. Runs of models with a bounded life (`MaxPackages`, `MaxFrames`,
`MaxTokens`, `MaxTime`) say `CHECK_DEADLOCK FALSE`, because they stop there; the others may not
deadlock.

`video_receive` takes the four worlds that lead to every path of the recording: none wanted, one
that waits for its audio, one that may begin at once, one over a running upload. One poll is enough there
because only the last poll changes anything but the count; `audio_tasks` has two.

The type invariants (`TypeOK`, `ClaimTypeOK`), `RingBuffer!PointersAgree`, `BusPresence!Recent` and `BusPresence!ClashEnds` are proved and no run
repeats them: each is part of an inductive invariant or follows from a property that a run checks. No run uses symmetry.

### Fairness

Liveness assumes weak fairness of each thread of the program: the scheduler runs every thread that
can run, no step of these threads waits for more than a timeout, and mutexes are held for a few
statements. The LVGL timer of the page (`Timer`) comes round, and the page's own code goes on
(`Page`). Nothing is assumed of users, phones, messages, access points or the Tuya library. `BytesLeave`
assumes that the decoder thread reads in its loop. `TuyaClaim` assumes that clocks advance
and that a claim arrives or is lost. `VideoReceive!ThreadsLeave` has its condition in the formula: an event that may
start but does not, because no audio comes, keeps a closed thread in its loop. `MonitorSession` states no
fairness: what must end is stated as a step property, that nothing is left without somebody who will end it.

### Named exceptions

Some properties hold only outside mishaps that the code permits; the model names them, in a history
variable or in the property, so that a reader sees what they are and the checks show that there are no others.

* `AudioTasks!hazard`: an open that finds the id of the closed session and does nothing
  (`same_id`); the id cleared after the next open set it (`unforgotten`); a close before the thread
  ran (`overtaken`); an open that gave up (`timeout`). `NextOpenStarts` and `ThreadsLeave` hold through
  all of them: the state heals when the threads have left.
* `VideoReceive!overtaken`, `gaveUp`: the same for video. `skipped`: `tuya_stream_storage_stop` does not
  stop an event while the upload thread has not yet taken the last stop from the semaphore.
* `SendQueue!overtaken`.
* `BusPresence`: `DoorsAreOnline` leaves the version out. A compile-time message makes that of an offline door station known
  and no check takes it away before the door station has been online and gone; readers want the model as well. A door station
  that goes offline takes along what is known of the one of its number in any family and the busy flag of both
  (`OutDoor_Info` knows no families); the model does so too and no property forbids it.
* `MonitorSession`, all of them defects of the code as it stands:
  * `LeftWatched`: the monitor page is left while a phone is counted, and `LAYOUT_QUIT_FUNC(monitor)` keeps all
    media: the microphone stays on and the door goes on with the talk of a person who is gone
    (`TalkHasTalker`, `MicMeansTalk`).
  * `TalkTask`: the task of the talk button compares the door only; when the talk has ended or has been taken
    over within its 100 ms, it opens the microphone and tells the door again.
  * `CallInside`: a call of the other door during a talk forgets the talk and never tells the first door.
  * `Answered`, `EndsOther`: a phone that answers a call which the person at the unit has taken, or that ends
    an old talk of its own, ends the other's without the door, or the microphone, following.
  * `MotionTimeout`, `MotionStops`: the end of a motion recording without a preview closes the stream of a phone
    that has come meanwhile (`PageKeepsStream`).
  * `OtherDoorShown`: a page that shows another door takes the stream along, which is meant.
  * a full queue or `~AllCounted`, in `SomebodyEnds`: a QUIT that finds no free node is lost, and a reset that crosses a
    phone which just came makes the number too small for good (`tuya_sdk.c:533`); the door then streams to nobody.
  * `ClientNum <= 0`, in `OneTalker`: a talk event of a phone that is no longer counted.

  Others are in the model without a property of their own, and the hazards name them: the home page resets
  the channel below a phone in the background, whose talk then opens the sound of door 2 and names no door;
  `motionTalk` survives `MotionBack`, and the next talk of a phone is ignored; a QUIT away from the monitor page
  does not close the video task; an ENTER on a stream that was kept may leave picture and sound of two doors; a SWAP
  during a phone's talk does not tell the new door.

### What disagrees with the documents

* `wifi_cancel`. The plan of the worker
  (`docs/superpowers/plans/2026-08-05-wifi-connect-background-thread.md:21`) wants a token "so
  cancelling one attempt cannot be confused with a later attempt". The worker tests it only at the
  top of its loop (`wlan.c:473`). One that is in `wpa_cli` when the page is left (a call or the
  standby timer leaves it) and finds the old network again, which leaving restores, saves, publishes SUCCESS and
  clears the flag after the next attempt has begun.
* `wifi_save`. Line 22 of the plan wants the temporary configuration persisted "on success". The
  worker's first poll may come before the setup thread has stopped the old `wpa_supplicant`
  (it first writes the file and calls `sync`); COMPLETED is then that of the old network, and the new configuration is
  saved untried.
* `wifi_dialog`. `task_timer` stops at 13, so `task_timer > 30` (`layout_connect_wifi.c:160`) is
  never true, and after 13 only FAIL is looked at. The worker polls 30 times with 500 ms between, so
  it can succeed after that; the dialog that covers the page then stays. `layout_setting_wifi.c:681`
  and `layout_add_wifi.c:192` repeat the code. The run sets `Leavable` to FALSE: nobody rings meanwhile.

One more, not written down anywhere as a promise: `TuyaClaim!NoRing` speaks of units whose seconds change at different
times, and is proved for all of these, whoever else shares a slot; `SomebodyHears` is checked when no two units' seconds
change at the same time (`Phase` differs). When they do, as units powered on together may, both claims cross, both units fall silent until the claims expire,
a little over three seconds later, and may then do it again.

## 4. Proofs

Each proof module assumes nothing but the named assumption on the constants of its model (any length, any number of
threads, phones, devices, frames, tokens). Nothing about liveness is proved.

| module | invariant | what it adds, and why |
|---|---|---|
| `RingBufferProofs` | `IInv` | that each pointer is where the fill puts it and that the cells between them hold the last accepted bytes in order: a write that overflows moves the read pointer by what was lost, and that this is where the write pointer arrives needs contents and fill. `AdvanceFacts` and `CellFacts` are the arithmetic of wrapping. `Refinement` maps each step to one of `LossyFifo` or a stutter, with `low = total - Held`, `high = total` |
| `BusCommandsProofs`, presence | `IInv` | how long ago the check was: the age of a sign of life is at most `BeatTime + count`, and one more in a second that the thread has not seen; the thread is within a second of the clock and has checked in each second since the start that `count` counts, so that the own entry is overdue at the first round. `IsDetector` and `IsClashDetector` map each step to one of `BoundedDetector`: a second that the bounds forbid does not pass, because the check comes first. Who has not been heard yet, the own entry above all, counts as silent since the second before the start (`Silence`). `BeatingIsKept` is the lower bound for one device |
| `BusCommandsProofs`, claims | `ClaimIInv`: `Fresh`, `InTurn` | that a claim is forgotten in time depends on how far the unit's next beat is: the age is at most `Keep + SinceBeat(u)`. A claim on its way was made in this slot by a unit that is not silenced but by one of the same slot; so the last claim that would close a ring is never made |
| `AudioTasksProofs` | `Held`, `Sound` | `Held`, whatever has gone wrong: each flag, the id and the socket are set only while some thread will still clear them, which is why the next open starts again. `Sound`, without a mishap: one thread, and flags that say where it is |
| `SendQueueProofs` | `Placed`, `Waiting`, `Ordered` | `Placed`: each package once, position by position. `Waiting`: a queue that is not empty has a thread that will empty it. `Ordered`, until a close overtakes a start: what waits is of this session, behind what is held, covered or sent. `Numbered`, which no mishap breaks, is what `IsOutbox` needs: what waits, is held or is covered has a number of its own. `NothingComesBack` and `PoolIsWhole` follow from it and `Placed` |
| `VideoReceiveProofs` | `Asking`, `Bound`, `Session` | what a waiting open has found, who holds the socket, and one thread on the stream asked for last |
| `FrameReassemblyProofs` | `Gathered`, `Broken`, `NoneSince`, `Led`, `Latest`, `Flows` | while nothing of a frame is lost, what is collected is its beginning; once something is, it is too short for the rest of that frame, and only one whose header is lost can complete it. `Led` carries the run of headers back to a key frame; `Flows` says when the loop is ready for the next frame of the group. `Ahead`, for `IsLossyStream`: a frame of which nothing was sent is newer than the one in assembly |
| `WifiConnectProofs` | `Fresh`, `Counted`, `Given`, `Owned` | a token not given out has no worker, and a cancellation has a token left; then the flag belongs to the worker with the current token, or the page is about to take it down. `Sole`, for `OnlyLeavesConfuse`: without a leave there is no worker but that of the attempt on the page |
| `MonitorSessionProofs` | `Good` | the monitor page has a door, sound and picture come from it, no phone's session enters it, and the person at the unit talks there only |

Three theorems are the other side of the violated properties of `WifiConnect`, for any networks and counts.
`OnlyLeavesConfuse`: in every behaviour in which the page is not left during an attempt, `NotConfused` holds, so that its
repair is about leaving alone. `OnlyEarlySavesUntried`: if besides no worker is told COMPLETED before the setup thread has
stopped the old `wpa_supplicant`, `SavesWhatConnects` holds; `Settled` says that the station then is on the network of the
temporary file whenever a worker is about to save. `LateDialogStays`: once a success is later than the counter, no step but a
leave takes the dialog down. The two assumptions are on steps, `[][~Leave]_vars` and `[][~Early]_vars`, and behaviours that
keep them are those of `wifi_dialog` and of a unit whose setup thread is quick.

`NothingIsLeft`, of `AudioTasks` and of `VideoReceive`, is what survives every named exception: an open task has a thread,
and a task without threads keeps no flag and no socket (`Served` is its invariant in `VideoReceive`).

The properties of `MonitorSession` are about steps, and its handlers compose a few functions on a record. So the
lemmas relate the record before and after each function: `Calm` (nobody begins to talk beside the person at the
unit), `Kept` (the picture stays), `Hushed` (neither a microphone nor a told door is left alone), `NotOpened` (no session
of a phone begins); the proof of a step chains them. `SomebodyEnds` needs the queue as well: `Opening` and
`Idle` say of a queue which ENTER or QUIT is the last in it, what a push and the taking of the head make of
that, and that a counted phone or the check goes on to push a QUIT.

Every property that a passing run checks is proved as well, except the liveness
properties (`BytesLeave`, both `ThreadsLeave`, `PackagesReturn`, `CheckEnds`, `SomebodyHears`), which need
fairness and ENABLED, out of the prover's reach. `NothingIsLeft`, `PoolIsWhole` and `NeverARing` are the safety
half of four of them: what the threads leave behind, that the pool is whole then, and that units that wait for one another
have a way out. The three violated properties have their counterexamples.
No module has a recursive definition.

## 5. Not modelled

PROJECT.json gives the reason for each component. In short: most lines of the repository are third-party code
(LVGL, FreeType, the headers of the Tuya SDK, lodepng, the AVI container), drawing, device and file I/O; they have no
order or concurrency of their own that a model could check. Of the program's own parts:

* **Video decoder.** Its ring is `RingBuffer`. Its two threads end when the decoder library says that the stream has
  been decoded; when it says so is not in this repository, and a model would only repeat what it assumes.
* **Storage upload loop.** Only its taking of the semaphore is modelled, in `VideoReceive`. The rest waits for states of the
  Tuya library whose order is not in this repository.
* **Audio reassembly.** The scheme of `FrameReassembly` without key frames.
* **Linked list.** Not built (`CMakeLists.txt:102`).
* **Upgrades and TCP management.** The peer is the firmware of the door station.
* **Recorder, player, local audio.** Threads of the shape of `AudioTasks` and `SendQueue` around files and drivers.
* **Scanning of Wi-Fi networks.** Its single-flight test and set are two accesses; a lost race costs a second scan that fills the same table.
* **Standby timer.** It leaves the page, which `MonitorSession` lets a person do at any time.
* **Keepalive of the bus, interphone and transfer commands, IP cameras, user data.**

## 6. Running

    tlc -workers 2 -config MCRingBuffer.cfg MCRingBuffer
    tlapm RingBufferProofs.tla

`session` and `frames` take minutes with two workers; the proofs of `MonitorSession`, `SendQueue` and `FrameReassembly`
take the longest of the proofs.
