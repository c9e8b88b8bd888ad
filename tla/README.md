# A TLA+ model of the sendspin iOS client

The repository is an iOS receiver for the Sendspin multi-room audio protocol:
a portable C++ client library (`src/src/sendspin/`), an Objective-C++ bridge
with an audio engine and a small user interface (`src/ios/`), vendored
libraries, tests and tools. This directory models the parts of the library
whose correctness depends on the order in which its threads take their steps,
checks the models with TLC and proves their safety with TLAPS.

Source paths below are relative to `src/src/sendspin/` unless they start with
`src/`.

## 1. Inventory

### Threads

| Thread | Runs | Created by |
|---|---|---|
| loop thread | `SendspinClient::loop()`, `ConnectionManager::loop()`, every listener callback | the application; the iOS bridge's worker (`src/ios/SendspinBridge.mm:820-823`) |
| application thread | `connect_to()`, `disconnect()`, queries | the application; on iOS the user interface |
| transport threads | accept, open, message and close callbacks, one per connection | IXWebSocket |
| sync thread | `SyncTask::thread_entry()` | `SyncTask::start()` |
| artwork and visualizer threads | decoding and timed display | their roles |
| render callback | `AudioEngine`'s pull of PCM | Core Audio |

### Components

| Component (source) | State | Operations | Interacts through | Hard because | Correct when |
|---|---|---|---|---|---|
| **Sync thread** (`sync_task.*`) | event bits, four-state machine, chunk on loan, codec, decode buffer | idle, wait for a header, wait for the acknowledgement, decode, synchronise, transfer, seek, stop | event bits and ring buffer (network thread), event bits (loop thread), listener's `on_audio_write` | commands are latched bits, wiped in bulk on the entry into idle; a header can overtake or be overtaken by any of them | loans are balanced, no decoded audio outlives a seek or a stream, `is_running()` is right |
| **Player role** (`player_role*.{h,cpp}`) | inbox events, parameter slot, `awaiting_sync_idle_events`, `stream_active`, high-performance request | stream start/end/clear, binary audio, `drain_events()`, `cleanup()`, stop | network thread → inbox → loop thread → listener; all of them → sync thread | a handler can be overtaken by a teardown; a listener can tear down from inside a callback; an end must wait for the sync thread | callbacks come in pairs, the stream played is the stream announced, seeks are exact, nothing hangs |
| **Encoded ring buffer** (`audio_ring_buffer.*` over `platform/spsc_ring_buffer.h`) | byte array, write and read offset, free bytes, items waiting | acquire, commit, send; receive (lend), return; marker | producer: network threads; consumer: sync and visualizer thread | a mutex and two condition variables on the host, but payloads are filled and read outside of it; wrap-around behind a filler; a thread that sleeps while there is room | a queue of loans that loses and tears nothing and wakes whoever can go on |
| **Connection manager** (`connection_manager.*`) | current connection, nursery, hello timers, pending events, deferred releases, atomic hints | `on_new_connection()`, `connect_to()`, `disconnect()`, `loop()` (events, promotion scan, hello timers, reap), `flush_deferred_releases()` | transports' callbacks, hellos, goodbyes, roles' `cleanup()` | three kinds of threads, one mutex that must not be held while a transport is stopped | each connection released once and by one thread, nobody forgotten, roles fed by the current connection only |
| **Transports, host** (`connection.*`, `host/*`) | hello flags, dispatch gate, socket | open, message, close, stop, goodbye | callbacks into the manager | callbacks race destruction | no callback on a destroyed connection |
| **Transports, ESP-IDF** (`esp/*`) | same | same, with asynchronous sends | same | not part of the iOS build | same |
| **Client facade** (`client.*`) | roles, group and server slots, high-performance count | `loop()`, message dispatch, `cleanup_connection_state()`, destructor | everything | order of the loop's phases | no message of a dead connection is applied |
| **Inbox** (`inbox.h`) | event ring, slots, dirty mask, overflow count | push, take and reset of events; write, merge, take and reset of a slot | all roles | slots are latest-wins while events queue; the drain works on a copy that a teardown may overtake | a slot is never lost, events stay in order |
| **Clock synchronisation** (`time_burst.*`, `time_filter.*`, `client.cpp:163-240`) | burst index, best sample, completion to report; pending request per connection; filter state | start, response, timeout, reset | main loop, network thread through the inbox, connections | answers come late, twice, never, or from a server that was displaced | a filter takes the best sample of each burst, once, of its own server |
| **Artwork role** (`artwork_role*`) | two buffers per slot, epoch, acknowledgement gate and parked notification per slot, notify queue, pending and held displays | image and clear payloads, stream start/end/clear, decode, display, `frame_done()`, `cleanup()` | network thread → notify queue → decode thread → display slot → loop thread → listener; inbox events | an image is read in place by one thread while another writes the next; a display outlives its stream; a gate nobody opens again | no torn image, one delivery in flight, nothing displayed after the end of its stream, no slot wedged |
| **Visualizer role** (`visualizer_role*`) | stream flag and config, frame ring with markers, command bits, config slot, lifecycle events | frame, stream start/clear/end, drain, `cleanup()`, stop | network thread → ring and bits → drain thread → listener; inbox | a command is a bit and a marker, put at two moments and found by a third thread | nothing old is shown behind a boundary, nothing new discarded with it |
| **Metadata, controller, color roles**, group (`*_role.cpp`, `client.cpp`) | slot, held delta, state | server state, `drain_events()`, `cleanup()` | network thread → slot → main loop → listener | deltas are folded in three places; a teardown empties them one by one while a handler goes on | the listener was told what the server said, no field lost, none of another server |
| **Protocol** (`protocol*`) | none | parse, format | all | pure conversion | - |
| **Decoder, transfer buffer, memory, JSON arena** | codec, buffers | set-up, decode, allocate | sync thread | failing allocations | no write into a missing buffer |
| **Platform primitives** (`platform/*`) | queues, flags, shadow slots | send, receive, set, wait, write, take | roles | lock-free | linearisable |
| **iOS audio engine** (`src/ios/AudioEngine.mm`) | lock-free PCM ring with its jitter buffer, the audio unit | write, render, clear; configure, start, dispose | sync thread, render callback, main loop | `clear()` moves the reader's position from a third thread; two threads create units | samples are rendered once, in order; the engine that runs has its unit started |
| **iOS bridge, user interface** (`src/ios/*`) | glue | start, stop, connect | library, engine | calls from the wrong thread | the library's threading rules are kept |
| **Vendored code, tests, tools** | - | - | - | third-party or test code | - |

`PROJECT.json` lists the same components with what is modelled of each, and
under `hazards` the lines at which this code is hard to test.

### Behaviours that are hard

* Commands to the sync thread are bits that are set by two threads and wiped
  by a third: two sets look like one, and the entry into idle
  (`sync_task.cpp:812`) forgets whatever was set for the next stream.
* A stream start travels on three roads: a codec header in the ring buffer,
  an event in the inbox, parameters in a slot of their own.
* `cleanup()` (main loop) and a handler (network thread) interleave at each
  lock they take.
* A listener may call `connect_to()` from inside a callback, and so tear down
  the stream the caller is about to acknowledge.
* The manager must stop transports without its mutex, because a stop joins a
  thread that may be waiting for it. Releases are therefore queued under the
  mutex and performed by whatever thread comes by.
* Memory for a message may be missing at any moment.
* A role's state is torn down step by step on one thread while the handler of the
  message before goes on on another.
* Time is read at a deadline, an interval or a timeout, each of which may pass before or
  after the answer that makes it moot.

## 2. Modules

| Module | What it is | Composes |
|---|---|---|
| `SyncTask` | the sync thread, statement by statement, in an open environment: any command bit, any chunk, at any moment | - |
| `StreamLifecycle` | what the player promises: callbacks in pairs, a stream played only between its own | - |
| `PlayerRole` | network handlers, main-loop drain, teardown, stop; closes `SyncTask` | extends `SyncTask`, implements `StreamLifecycle` |
| `ConnectionManager` | the manager with the host transports | - |
| `ArtworkRole` | network handlers, decode thread, main-loop drain and teardown of the artwork | - |
| `LoanFifo` | what a ring buffer promises: a bounded queue whose items are lent, oldest first, one at a time | - |
| `SpscRing` | the ring buffer of the host build, on its byte array | implements `LoanFifo` |
| `TimeSync` | bursts of clock measurements: burst, main loop, inbox, connections, the gate of the filter | - |
| `VisualizerRole` | network handlers, drain thread, lifecycle events, teardown | - |
| `AudioEngine` | PCM ring and audio unit of the application | - |
| `StateRoles` | controller, metadata, color and the group: slots, held deltas, states, teardown | - |
| `MC*` | instances for TLC | the above |
| `PlayerRoleProofs` (with the theorems of `SyncTask`), `ConnectionManagerProofs`, `ArtworkRoleProofs`, `SpscRingProofs`, `TimeSyncProofs`, `VisualizerRoleProofs`, `AudioEngineProofs`, `StateRolesProofs` | theorems | the above |

### SyncTask

`spc` is the place in `thread_entry()` and the functions it calls; `flags` is
`event_flags_`, `ring`/`lent` the ring buffer and its loan, `st` the
`SyncTaskState`, `entry`, `codec` and `dbuf` the fields of `sync_context` that
decide what happens. Each action runs from one access of shared state to the
next: the outer test and the entry into idle (`EnterIdle`), each receive, each
wait, each wipe of bits. Two reads of `flags` are merged only where nothing
but bits being added can happen between them and the branch does not depend on
which of the two saw it. Blocking waits are actions guarded by what they wait
for; a timed wait may also give up. A chunk is its kind and a tag; a tag says
which stream and which seek it belongs to. Timestamps, the correction of single
frames, and resynchronisation are a choice between the branches they select.

Two branches of the source cannot be taken and have no action: `entry` is
always absent when the inner loop tests its commands in a state that loads,
except where `DiscardEntry` handles it, and `decode_chunk()`'s "already have
decoded audio" return is excluded by `DecodesIntoEmpty`, which is checked and
proved. Not modelled: publishing the client state and the playback progress
(`sync_task.cpp:178-192`, `notify_audio_played()`).

### PlayerRole

The network thread handles one message at a time: JSON handlers are serialised
by `json_processing_mutex_` in `client.cpp`. (Two connections' *binary*
messages are not; the hazard list says so.) `npc` is its place in a handler,
which is split at every lock and every queue: ring write, command bit, parameter
slot (`WriteParams`), event (`PushStart`). `mpc` is the main loop's place:
`TakeEvents` takes the batch, `Snapshot` reads `is_running()` once as
`drain_events()` does, each event is an action, `cleanup()` is three. A listener
callback that tears down (`Reentrant`) is `TeardownInStart`/`TeardownInEnd`,
whole `cleanup()` included. `running` and `cleared` are history variables over
the sync thread; `heard` is `stream_active` with the stream's number, which the
code does not have but the listener has. Once the destructor has joined
(`mpc = "gone"`) nothing is sent.

A message outside `Rapid` comes only when the sync thread is `Settled`: it has
taken every command, header and marker. This is the pacing under which the
design works; the runs say for which messages it is needed.

Not modelled: volume, mute and static delay with their persistence, the batch
limit of eight events, other roles' callbacks in the same loop pass.

### StreamLifecycle

Two variables, `heard` and `playing`, four actions. `PlayerRole` implements it
with `playing <- running`.

### ConnectionManager

`transport` is each socket, `current`, `nursery`, `retry` (`hello_retries_`),
`deferred`, `opened` and `lost` (the two pending event queues) are the manager's
fields; `releasing[t]` is what thread `t` has swapped out of the deferred queue
and not released yet; `farewells` is `disconnect()`'s local list. `loopAt` walks
through `loop()`: event processing (queue swap and locked section in one
action), the promotion scan, the flush, the hello timers, the reap. The scan and
the hello timers hold `conn_ptr_mutex_` while they read flags the transports
write, so they are several actions and `Unlocked` keeps the others out. `told`
and `fed` are histories: who was published the client state, whose messages
shaped the roles since the last cleanup. `crashed` is an exception out of
`shared_from_this()`.

Abstractions: the atomic hints are read as the containers they mirror; the
nursery's order is explored as any order; dispatching a message is one action (a
handler that is overtaken is `PlayerRole`'s subject); which entries are overdue
is chosen at the reap; a dialled connection that was given up no longer opens;
`stop()` on a dialled connection joins its thread, so its Close is delivered
first (`Stopped`); what is known of a connection ends with its release.
`connect_to()` and `disconnect()` are called on the loop thread when
`SameThread`, as `connection_manager.h:138-141` demands, and at any moment when
not, as the iOS bridge does. Not modelled: starting the server with its
back-off, the manager's destructor, the reassembly of messages.

### ArtworkRole

`npc` is the network thread's place in a handler, `dpc` the decode thread's, `mpc`
the main loop's. The handlers are split at each lock: the copy of an image
(`WriteBuffer`, under `slot_mutex`) and its notification (`Notify`, where the epoch
is read) are two steps, a start is three. The decode thread sweeps the parked
notifications, receives, and processes: `SkipStale`, `Park` or `Claim` are the three
outcomes of the locked section at the head of `process_notification()`, `Decoded` is
the listener's return, `Handoff` the test of `stream_active`, `Merge` what it hands
over. In the main loop `Snapshot` reads `current_epoch` once, as `drain_events()`
does, and `stale` remembers for which slots that read differed. `frame_done()` and the
teardown may also come from within a callback (`mpc = "callback"`), in which
`drain_events()` still has other slots to visit.

A payload is numbered; the number is the content of the buffer and stands for
`write_generation`, since within a buffer both only grow. A deadline may pass or not
at every visit (`Present`, `NotDue`). A stream clear is a stream end: the code of the
event is the only difference and both are handled alike. Channels are modelled as
`Slots`; messages for other slot numbers are rejected by `handle_binary()` and have no
action. `Sends` says which payloads the server may send, one set per payload.

`frame_done()` is called while a delivery is `PRESENTED`, which is the listener's
contract (`artwork_role.h:38-40`). `decoded`, `shown` and `over` are histories: the
image given to the listener last, the payload presented last, and the last stream whose
end the listener was given clears for.

A start that is not in `Rapid` comes when the role is `Settled`: nothing is left of the
stream before in any of its queues. `Rapid` may name `"start"` (a start behind an end
the main loop has not heard of) and `"restart"` (a start without an end).

Not modelled: the comparison of announced formats (warnings only), the arithmetic of
deadline and lateness, starting and stopping the thread.

### LoanFifo and SpscRing

The unit is one item header (8 bytes, to which the code aligns everything). `storage`
holds a header at each item's place and, in the unit behind it, what was filled in;
`write_offset`, `read_offset`, `free_bytes` and `items_waiting` are the fields of the code.
A call that holds the mutex is one step. `acquire()` that finds no room sleeps on its
condition variable and is woken by `return_item()`, `receive()` by `commit()`; filling and
reading take place between the calls. `send()` is acquire, fill and commit. `items` is a
history variable, the items whose space is taken. `Producers` may be two: while a
connection is handed over, two network threads write. The module is refined to
`LoanFifo` with the committed items as the queue. The ESP-IDF build delegates to a
FreeRTOS ring and is not modelled.

### TimeSync

A server's clock is the connection it is reached by; a sample is its error, when it came
and whose clock it is of. `flight` counts the messages a server has not answered: an answer
may come at any time, also after the timeout or after the connection was displaced, or not
at all (`Lose`). `loopAt` walks through `SendspinClient::loop()`: connections, burst,
events. `Await`, `TimeOut`, `Send` and `Refused` are the branches of
`SendspinTimeBurst::loop()`, `OnTimeResponse` its handler, `Reset` what
`cleanup_connection_state()` does to it. Time is not a number: an interval or a timeout has
passed or has not. Of the Kalman filter only the gate at the head of `update()` is
modelled, which skips a sample that is not newer than the last. `heard` and `untold` are
histories.

### VisualizerRole

`net.pc` is the network thread's place in a handler (stream flag, ring marker, command bit,
config slot, event are steps of their own), `drain.pc` the drain thread's, `main` the main
loop's. A frame is the number of the boundary it was sent behind, so that what is old and
what is new can be told; its time is due or not. A start is a boundary with a config, a
clear one without, an end and a `cleanup()` flush the ring. `late` and `lost` count what
went wrong and `cases` the orders in which the code does not promise that it goes right:
`overlap` (a boundary before the one before was done), `overtaken` (a handler of a
connection that was torn down), `blind` (the drain thread had already taken the marker)
and `unread` (a start before the last was read by the main loop). The properties name the
cases they need; the section on disagreements says what happens in them.

### AudioEngine

`write_pos`, `read_pos` and `primed` are the atomics of the ring; each load and store is
a step, a copy is one step with the load before it. A sample is the position it was
written at. `writer`, `render[u]` and `loop` are the places of the sync thread, of the
callback of audio unit `u` and of the main loop with what each has loaded. Differences of
positions are `size_t` (`AsSize`): a negative one is larger than anything asked for.
`starter` is where two threads are in `start` and `initAudioUnit`. `Dispose` is one step:
stop, dispose and `_isRunning = false` are one sequence on the main loop, and stopping a
unit waits for its callback.

`Timely` is the one assumption about time: a callback that has begun is over before the
sync thread fills the rest of a ring that holds seconds. Keep-alive is on. Not modelled:
volume, mute and delay (pure arithmetic on a sample), errors of the audio unit, the
bridge's engine pointers (`src/ios/SendspinBridge.mm:1013-1018`). `InBand` says whether a
server changes the format within a stream.

### StateRoles

A state or a delta says for each field which message spoke of it last. `slot`, `held` and
`state` are the three places at which the code folds deltas (`Overlay`); `view` is what
the listener was told last, `server` what the current server has said. `net.left` holds
the sections of a message that are not handed over yet: `SERVER_STATE` speaks of several
roles, which take their parts one by one, and a teardown may come between. `loop` walks
through `SendspinClient::loop()` with its copies of the ring and of the topic bits;
`cleanup` is reached from the top of a pass or out of a callback and returns to where it
was (`back`), except that the drain of the ring is abandoned, as the generation counter
of `client.cpp` makes it. `tainted` names the roles whose slot a handler of a dead
connection has written since.

The color role is structurally the metadata role, so `Deferred` covers both. A message
says something of at least one field of a role it speaks of. The listener of the group is
given the delta; its `view` is what it has put together. The ring of events cannot
overflow with CLEARED events, since there is at most one per role and teardown, and the
module does not bound it. Not modelled: the controller's commands and the interpolation of
the track's progress, which change no state.

## 3. Runs

All twelve finish within five minutes on two workers.

| Run | Question | Bounds, and why they do |
|---|---|---|
| `player_paced` | does a paced player implement `StreamLifecycle`, are seeks exact and lossless, is audio played as it was announced and decoded into an empty, allocated buffer, is every started stream played, every end heard, does every teardown and the stop return, also when callbacks tear the connection down | two streams (the second reuses what the first left), one seek, audio before and after the seek, one teardown |
| `player_storm` | every message at any moment, overflowing inbox, failing allocations, re-entrant teardown, stop in the middle: loans and the high-performance hold | inbox of two so that it overflows, ring of two so that writes fail |
| `player_lost_header` (violation) | `sync_task.cpp:928-930` means a start right behind an end to survive; it does not | the smallest: two streams, no audio |
| `conn_arrivals` | two servers compete for one place: nobody forgotten, roles know the current one only | nursery of one (so the second is turned away), two hello attempts (so a retry exists), two servers (takeover), failing allocations on both |
| `conn_dialling` | `connect_to()` twice, `disconnect()`, beside an accepted connection: released once, by one thread, callbacks on owned objects | two dialled (one displaces the other), one accepted; the dialled ones are interchangeable, hence the symmetry (no liveness in this run) |
| `conn_settling` | nobody stays in the nursery, a lost current connection is dropped | one accepted, one dialled |
| `artwork_channels` | is an image decoded while it is written, has a gated slot one delivery in flight, is anything shown after the end of its stream, is what was decoded displayed and what was parked replayed | a gated and an open channel; three payloads (two buffers, and one more write), queues of two (they overflow), two streams, one teardown |
| `ring` | are items intact while they are out, does no thread sleep beside what it waits for, does an empty ring take an item, is it a queue of loans, does nobody starve | 6 units and items of 1 to 3 (with header 2 to 4): every place of the write offset, fillers, and items that fit only behind one; two producers; three contents, one more than fit |
| `time` | does each filter take the best sample of each burst, once, of its own server; does every burst end, and the hold on the network with it | two servers (one displaces the other), bursts of two (a timeout and an answer), inbox of two (it overflows), errors 0 to 2 (unusable, better, worse), three messages |
| `visualizer` | does a boundary cut off the old and keep the new, does the listener know the config in force, does the thread stop | ring of two, two frames, three boundaries (two that meet, and one behind) |
| `audio` | are samples rendered once and in order, does the ring not stay silent, does the engine run its unit | 4 frames (the array is passed twice), writes of 1 and 3, callbacks of 2, jitter buffer of 2, 8 frames written, three streams, three units |
| `state_roles` | is the listener told what the server said, and nothing else, across teardowns at any point; does it converge | three roles of the three kinds (whole messages, deferred deltas, group), two fields (one message each can speak of), two messages, two connections |

`CHECK_DEADLOCK FALSE` stands in the configurations of `PlayerRole` and `VisualizerRole`, where
the thread really stops, and of `TimeSync` and `AudioEngine`, where the bounds on messages, frames
and streams end a behaviour. The others are checked for deadlock in every run. The
open sync thread has no run of its own: its guarantees are proved for every environment, and
`player_storm` checks them in the least restrained one the player can make.

A configuration without a row here belongs to a disagreement below, or (`MCPlayerRole_rapid`) checks `DecodesOwnAudio` for
starts, restarts, ends and teardowns that wait for nothing, as the theorem states it.

### Fairness

* `PlayerRole`: a handler that has begun is finished (`FinishHandler`; it never
  blocks), the loop thread and the sync thread keep running. Only weak fairness
  is needed. The server, the application and the network owe nothing. The
  sync thread's `Flush` and `Drain` can be fed for ever by a server that never
  pauses; `MaxAudio` bounds that, and the liveness results hold for finite audio
  between two commands.
* `ConnectionManager`: weak fairness of each thread that has work; strong
  fairness of `ProcessEvents`, because the application may preempt the start of a
  pass any number of times; of `Expires`, because an entry becomes overdue by the
  passage of time, which nothing but its own departure stops; weak fairness of
  each `Close`, because the transport's thread reports the end of a socket that was
  shut.
* `ArtworkRole`: weak fairness of a handler that has begun, of the decode thread and of
  the main loop. Strong fairness of `HandleStreamEvent`, because `drain_events()` may run
  first in a pass whose poll of the inbox missed the event, but the next pass finds it;
  of `Present`, because a deadline that is visited again and again passes; and of
  `FrameDone`, because the listener owes the call (`artwork_role.h:38-41`) but can make it
  only from the main thread. Server and network owe nothing.
* `SpscRing`: weak fairness of the consumer, which receives again and again and returns what it
  borrowed, of a producer that has acquired (it fills and commits) and of a thread that was
  woken. Producers need not come.
* `TimeSync`: weak fairness of the loop; strong fairness of `TimeOut` (a timeout that is looked
  at again and again is over at some time), of `Send` (a transport that is up takes a message at some
  time) and of `Drop` (the event of a lost connection is processed). Servers owe no answer.
* `VisualizerRole`: weak fairness of a handler that has begun, of the drain thread and of the
  main loop's teardown.
* `AudioEngine`: weak fairness of each thread and of the callback of a running unit, which Core
  Audio calls periodically. The bounds on frames appear as an escape in `PrimingEnds`.
* `StateRoles`: weak fairness of the loop and of a handler that has begun; strong fairness of
  `Apply` per role, because the deadline of a delta that is looked at again and again passes.

### Known disagreements

The run `player_lost_header` is the one that is kept as a violation. These further statements
of the sources are refuted by TLC with a configuration that is kept beside the runs:

| Configuration | Statement | What happens |
|---|---|---|
| `MCPlayerRole_lost_marker` (`DecodesOwnAudio`) | `player_role.cpp:325-327`: a seek whose marker finds no room costs new audio | the flush goes on until the ring is empty, and discards the codec header of a restart that comes meanwhile; the audio of the new stream then goes to the decoder of the old one |
| `MCPlayerRole_stale_start` | `player_role.cpp:304-305`: the window inside `handle_stream_start()` is benign | a teardown between the steps leaves the listener with a start of a dead connection |
| `MCConnectionManager_ui_thread` (`OneStopper`) | `connection_manager.h:138-141`: one thread calls the manager | the bridge calls it from the user interface, and two threads stop one transport |
| `MCArtworkRole_order` (`PresentedInOrder`) | `artwork_role.h:45-47`, `artwork_role.cpp:663-664`: a parked payload is superseded or delivered in turn | it can follow a newer one |
| `MCTimeSync_hollow` (`CompletionMeansUpdate`) | `time_burst.h:31`: a completed burst has updated the filter | a burst of which every answer was lost or unusable completes too |
| `MCVisualizerRole_start` (`StartObservesConfig`) | `visualizer_role.cpp:277-279`: who takes the START event observes its config | a second start overwrites the slot before the first event is taken; the first event is then handled with the second config and the second with none |
| `MCVisualizerRole_marker` (`MarkerPreserves`) | `visualizer_role.cpp:457-460`: discarding up to the marker preserves what was enqueued after it | when the drain thread takes the marker in its normal flow before the command bit is set, the discard finds no marker and goes on into the new frames |
| `MCAudioEngine_units` (`SingleConsumer`) | `src/ios/AudioEngine.mm:25`: a single consumer | a format change within a stream is configured while the sync thread starts the engine: two units are created and play at once |

Others need only another constant or property in a configuration that is there:

* `ReaderStaysBehind` (`src/README.md:17` calls the ring lock-free): `clear()` stores the reader's
  position from the main loop. Between a callback's two loads, the difference becomes
  negative, which as a `size_t` is huge; behind them, the callback stores its old position over the
  clear and what was cleared is replayed, or the ring is left full and unprimed. The next clear that meets
  no callback repairs it. `RenderedInOrder`, `PositionsHold` and `PrimingEnds` hold up to there.
* A handler of the network thread that is overtaken by a teardown writes what the dead server said
  into a slot that was just emptied (`tainted` in `StateRoles`, `overtaken` in
  `VisualizerRole`). No code repairs it before the next teardown; the properties hold for the rest.
* `client.h:359`: the group of the current connection. `cleanup_connection_state()` empties the group's
  slot and not `group_state_`, so a new server's group is overlaid on the old one's.
* `sync_task.h:56` says that the task should stop after a failed allocation, but the
  result is ignored for the first header (`sync_task.cpp:879`).
* `sync_task.cpp:828-829` says a clear preserves codec headers, but one that is already waiting for its
  acknowledgement is dropped (`:856`).
* `connection_manager.h:101-102` says the current
  connection is always established, but Close clears the hello flags first.
* After `host/client_connection.cpp:173-188` gives a connection up for want of memory the
  manager can drop it before its Close, which then calls `shared_from_this()` during
  destruction (set `NoMemory = {o1, o2}` in the dialling configuration).
* `connection_manager.cpp:804` says that an "unproven" connection needs "no client-state
  cleanup (it was never admitted)", but dispatch is enabled from construction
  (`connection.h:447`): what a server says before it is admitted stays with the roles when it
  is refused (set `Eager = TRUE` in the arrivals configuration; `RolesKnowCurrent`).
* `artwork_role.h:42` says that at most one un-acked delivery is in flight: when a stream starts
  while the display of an earlier one is still held, its release (`artwork_role.cpp:465`) can
  open the gate a new delivery has just closed (set `Rapid = {"restart"}` in
  `MCArtworkRole_channels.cfg`; `OneInFlight`).
* `artwork_role.h:41` calls an extra `frame_done()` harmless, but
  `artwork_role.cpp:547` lets it release a delivery that is decoded and not yet displayed.

## 4. Proofs

Every theorem holds for all values of the constants that satisfy
the assumptions of its module (`SyncTaskAssumption`, `PlayerAssumption`, `ConnAssumption`,
`ArtworkAssumption`, `VisualizerAssumption`, `SizeAssumption` and its neighbours, `TimeAssumption`,
`AudioAssumption`, `StateAssumption`), which TLC evaluates in every run that uses them. No step is left unproved. A
hypothesis beyond these is written in the theorem and named below with its reason.

**PlayerRoleProofs, the sync thread.** `Inv == TypeOK /\ BorrowDiscipline /\ DecodesIntoEmpty /\
RunningBit` is inductive: a chunk on loan is the oldest of the ring, so appending
keeps it and returning removes exactly it. `SyncTaskTypeOK`, `SyncTaskBorrows`,
`SyncTaskDecodesIntoEmpty` and `SyncTaskRunningBit` follow.
`SyncTaskCodecHasBuffer` needs `Inv` and its own induction; `SyncTaskDecodeBuffer` joins it with
`DecodesIntoEmpty`.

**PlayerRoleProofs, the whole role.** `PlayerStepIsOpenStep` shows that each step of the closed
system is a step of the open sync thread or leaves it alone, so everything proved
about `SyncTask` carries over (`PlayerImplementsSyncTask`, `PlayerBorrows`). The
inductive invariant is `PlayerInv`; beside `Inv` and the types it needs `HasStream`
(a handler is about a stream that was started, so that the chunks it writes carry a
legal tag), `StartsNamed` (a queued STREAM_START names a stream, through inbox, batch
and waiting list) and `HighPerfHeld` (inside a pass, only an unfinished teardown
holds the request for a stream that is over), which yields `PlayerHighPerf`.
Four more inductive invariants, each over `PlayerInv`, relate the contents of the ring to the bits
and to the places of the three threads:

* `KeepInv`, for any pacing: while a clear is pending its marker is still to be written and no newer
  audio is there (`NoFreshYet`), or a marker lies ahead of all newer audio (`MarkerAhead`). So a flush
  never reaches audio of after the seek (`PlayerSeekKeepsNewAudio`).
* `SeekInv`, assuming `"clear" \notin Rapid`: behind a marker there is audio of the last seek only
  (`MarkerDivides`), and the ring holds none from before the seek that was applied or is about to be
  (`KeptAudio`, `FlushedAudio`). `PlayerSeekIsExact` follows. With two seeks in a row the thread's
  one `apply` wipes the bit of both, and audio from between them is played.
* `OwnInv`, assuming `HeadersSafe`: audio behind a header has a header of its own stream behind that one
  (`HeadersDivide`, `LastHeader`), so the decoder in use is that of the next audio unless the header
  that changes it comes first (`OwnDecoder`, `CurrentDecoder`); and a flush meets no header
  unless the stream it is in is over (`HeaderEnds`, from `NoClear`, `ClearEnds`, `DownEnds`).
  `PlayerDecodesOwnAudio` follows. `HeadersSafe` allows every rapid message when nothing seeks, and
  seeks when neither they nor restarts are rapid: a flush that has lost its marker, or begins
  in the stream before, eats the header of the next one. It excludes starts whose
  header is not sent (`Refusals`): audio of such a stream would meet the decoder of the one before.
* `PacedInv`, assuming `Rapid = {}`: one header at most is in the ring and the thread waits with it
  (`OneHeader`, `HeaderWaits`); one start at most is queued, as the last event (`StartIsLast`); while it is
  announced the thread waits for it (`AnnouncedFirst`); once the thread is armed or in a stream, the
  listener has heard of that stream (`ArmedIsHeard`, `ActiveIsHeard`), and of its end when it is over
  (`OverIsTold`). `PlayerPlaysWhatWasHeard` follows. The hypothesis is strong, but each single rapid
  kind of message breaks the property. From the same invariant `PlayerImplementsLifecycle`
  proves the refinement of `StreamLifecycle`, one case per kind of step.

**ConnectionManagerProofs.** `ConnInv` is the conjunction of the safety properties
with what they need:

* `OnePlace` needs `Fresh` (a connection that has not arrived is queued nowhere, so
  admitting it cannot put it in two places) and `ScanOfNursery` (what the promotion
  scan still has to visit is in the nursery, so promotion takes members only);
* `NoOrphan` and `CallbacksOnOwned` need `Reach`: a connection that can still speak is
  managed or queued for a goodbye; `CloseOwned` adds that the Close of a dialled
  connection finds an owner, when memory never fails;
* `OneStopper` needs `OneCaller`: under `SameThread` the application has nothing in its
  hands while `loop()` is in a pass;
* `RolesKnowCurrent` needs `Knows`: among connections that can still dispatch only the
  current one was told the client's state, so only it feeds the roles unless servers are
  `Eager`;
* `NurseryBounded` follows from `Admit`'s test and from `ConnectTo`'s replacement of the
  earlier dial; its proof counts with the library's cardinality theorems.

**ArtworkRoleProofs.** `ArtInv` holds under any pacing: the types, `InHand` (the decode
thread has a notification exactly where it works on one) and `DecodeGuarded` (the buffer
being decoded is marked and still holds the image of the notification), because the writer
avoids the marked buffer. It yields `ArtworkTypeOK` and `ArtworkNoTornImage`. `GateInv`
assumes `Rapid = {}` and has three parts: `Phases` (a stream starts with nothing on its way to
the listener, and no end is handled while one is active), `Epochs` (what is on its way while a
stream is active carries the current epoch, and what was delivered is out of date once it is
not) and `OneDelivery` (while a stream is active, the delivery of a gated slot that is not
presented yet is with the decode thread, or waits to be taken, or is held, never two of these,
and its gate is closed). The steps that open a gate find nothing of the slot behind it: an
acknowledgement comes after the presentation, a start finds nothing delivered, and a held
display is only released when no stream is active. `ArtworkOneInFlight` and
`ArtworkDisplaysDecoded` follow. `EndInv` holds under any pacing again: an end that is handled or waits is
of a stream the server has left (`EndsBehind`); what carries the epoch of an active stream is of a stream
that is not over (`OfOpenStream`); while none is active, nothing that may be displayed carries the
current epoch (`OutOfDate`); and what the main loop still visits in its pass is not over
(`VisitsAhead`). `ArtworkNothingAfterEnd` follows.

**VisualizerRoleProofs.** `VisInv` holds the types and what the threads' places imply. Over it each
part of the agreement has an invariant of its own, under the `cases` that its property names.
`OnTheWay`: at most one start is on its way and its config is in the slot; the last switch on its way
decides what the listener will believe, and when none is, it believes what is so
(`VisualizerListenerAgrees`). `OldIsCutOff`: a frame of an earlier boundary in the ring is going to be
flushed, or discarded with no marker before it, so that it is never delivered once the boundary is
settled (`VisualizerBoundaryHonoured`). `NewIsKept`: while a flush is pending no new frame can
come, and while a clear is pending every new frame lies behind a marker or the marker is still to come
(`VisualizerNewSurvive`). `VisualizerBoundariesHold` is the last two together. None assumes
anything of the pacing.

**SpscRingProofs.** Holds for any size of the array, any set of item sizes and any number of
producers. `RingInv` says where the items are: within the array (`Placed`), apart from each other
(`Apart`), those at or above the read offset first and those behind the wrap below them (`Below`,
`Linked`), the oldest behind the read offset or behind a filler (`Front`), the newest before the write offset (`Back`),
what is left as free space (`Space`); each is what the producers and the consumer have in their
hands (`Kept`, `Distinct`, `Making`, `Alone`, `Reading`), and `items_waiting` counts the committed ones
(`Counted`). `SleepInv` adds that who sleeps has nothing to get. From them follow `RingIntact`,
`RingCountIsExact`, `RingRoomWhenEmpty`, `RingNoLostWakeup` and, step by step, the refinement
`RingImplementsFifo`.

**TimeSyncProofs.** Time stamps carry the argument. The ring holds its answers in the order they came
(`InOrder`), each newer than all that the burst has heard and all that any filter has taken (`Newer`,
`Stamped`). `Chosen` says that `best` is the best of what was heard; `Applied`, that the filter has none
of it while the burst goes on and the best of it when it is over. So the best of a burst that ends is
one the filter accepts, and a late answer that is better than the best of a burst that is over is one
too. `Connected` (a connection that was never current has nothing pending) keeps `AwaitedInBurst` through a
takeover. `TimeSyncBursts` and `TimeSyncFilter` follow, for any servers, sizes of bursts and losses.

**AudioEngineProofs.** Assumes `~InBand`. `Turns` (main loop and sync thread take turns), hence
`OneUnit` (one unit runs, and it alone calls back), hence `Loaded`: what a callback and a write have
loaded is still true when they store, until a clear meets a callback. `RingHolds` gives
`AudioEnginePositions`. For `AudioEngineRendersInOrder`, an action property, `OrderInv` adds the content:
what was not read yet stands in its place (`InPlace`), which rests on the arithmetic lemma that two
positions less than the capacity apart have places of their own (`PlacesApart`), and what was rendered
lies behind the reader (`Behind`); after a race, that all of it was written before (`Written`), so that
the next clear restores both.

**StateRolesProofs.** `StateInv` is `Mirrors` with what it needs: what the server said is what the slot, the
held delta and the state together know (`Servers`, where the roles are not tainted), what the
main loop has copied (`Passes`), and which roles a cleanup still has to clear (`YetToClear`). Overlaying
is associative, so a delta may be folded into its predecessor at any of the three places; the proof
has one lemma per place. `StateRolesMirror` holds for any roles, fields, messages and connections.

**Proved and in no run:** the type invariants of `SyncTask`, `PlayerRole`, `ConnectionManager`, `ArtworkRole` and
`SpscRing`, and `RunningBit`, `DecodesOwnAudio`, `OnlyManagedDispatch`, `DisplaysDecoded` and `CountIsExact`.

**Model-checked only:** the liveness properties, which are out of the prover's reach. Every invariant and every action
property of a run that passes, and every refinement, is proved.

## 5. Not modelled

* The vendored libraries (Opus, micro-flac, micro-ogg-demuxer, IXWebSocket, ArduinoJson): third-party
  code, and by far most of the lines of the repository. The share of all lines that the models
  cover is small for that reason.
* The JSON conversions of `protocol.cpp`, and the decoders: pure data.
* The Kalman filter of the clock and the interpolation of samples: floating point.
* The arithmetic of synchronisation in `sync_task.cpp` (hard sync, single frame correction,
  `notify_audio_played()`): `SyncTask` has a choice in its place.
* Volume, mute, static delay and their persistence; the controller's commands.
* The ESP-IDF transports and ring (not in the iOS build), the server's back-off and the manager's
  destructor.
* The user interface, tests and tools.

Two components interact in the models only through what one assumes of the other: two transports' binary
messages are not serialised (`client.cpp:803`), which `SpscRing` allows with its two
producers and `PlayerRole` does not; and the main loop's work is split between `ConnectionManager`
(connections), `TimeSync` (bursts), `StateRoles` (ring and slots) and `PlayerRole`, `ArtworkRole`,
`VisualizerRole` (their own events), each of which treats the others' callbacks as absent, except
for the teardown, which all of them allow from inside a callback or at the top of a pass.

## 6. Plan

1. Weaker hypotheses: which orders of rapid messages, rather than which kinds, break
   `PlaysWhatWasHeard` and `SeekIsExact`.
2. `PlayerRole` with two network threads, composed with `SpscRing` in place of the sequence of chunks.
3. `SyncAudio`: the arithmetic of synchronisation, over bounded integers.
4. The controller's commands and the persistence of the player's settings.
