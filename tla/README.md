# TLA+ models of space

*space* is a 3D spatial computing platform: a C++ engine (`src/src`, about
54 000 lines) that hosts a Fennel/Lua program (`src/assets/lua`). This directory
models the parts of the engine that a test hardly reaches: how work leaves the
main thread, how its results come back, how everything is torn down, and the
stateful modules that scripts use from any callback and in any order.

The leading `src/` of a path below is the repository's root: `src/src/job_system.cpp`
is its file `src/job_system.cpp`.

## 1. The system

### The rule everything follows

`src/docs/dev/notes/multithreading.md` states the execution model: the main
thread owns SDL, OpenGL and the Lua VM; workers produce results, and the main
thread polls them once per frame. `Engine` (`src/src/engine.cpp:589-595`)
dispatches, each frame and in this order, jobs, HTTP, processes, SSH, the HTTP
server and the callback queue; `Engine::shutdown` (`src/src/engine.cpp:1501`)
tears the same parts down in its own order. Every asynchronous component is an
instance of one pattern:

    main thread --submit--> queue --> worker threads --> completed --poll--> main thread
                                                                      |
                                              Lua callback <-- lua_callbacks queue

so every component meets the same questions. Is each request answered, once? By
whom is it answered when a cancel, a timeout, a late answer and a shutdown race?
Does the answer reach the callback that was registered for it? Does shutdown end?

### Inventory

| component | state | operations | hard behaviour | what makes it correct |
|---|---|---|---|---|
| **JobSystem** `job_system.*` | `stop`, `nextId`, `handlers`, `jobQueue`, `completed`, worker threads, a condition variable | `register_handler`, `submit`, four polls, `shutdown`; `worker_loop`, `pop_job` | workers racing the main thread; lost wake-ups; a stop flag written outside the mutex | each accepted job is run and answered once, in order, to its owner; a queued job is taken; shutdown returns |
| **SSH service** `ssh_service.*`, `ssh_types.h`, `ssh_backend.h` | `operations_`, `sessions_`, `channels_`, `tunnels_`, `events_`, worker and watcher threads | `connect`, `exec`, SFTP, shells, tunnels, `cancel`, `resolve_known_host`, `poll`, `shutdown`; the backend's `emit` | answer against timeout against cancel against shutdown; checks and starts in separate critical sections | one terminal event per operation and nothing after it; handle tables follow the events |
| **SSH backend** `ssh_backend_libssh.cpp` | `sessions_`, `channels_`, `tunnels_`, `pending_`, a thread per shell or tunnel | the backend calls, `cancel_operation`, the destructor | two known-host decisions; a child closed from several sides while it is opened | a backend of the kind the service assumes; a challenge decided once, a child closed once |
| **lua_callbacks** `lua_callbacks.*` | registry, deferred unregistrations, retired ids, pending queue, dispatch depth | `register`, `unregister`, `enqueue` (any thread), `dispatch`, `dispatch_ids`, `retire_ids`, `shutdown` | callbacks that dispatch again; workers that enqueue during a dispatch | events once each and in order; nothing noted survives the outermost dispatch |
| **HttpClient, lua_http** `http_client.*`, `lua_http.cpp` | pending, completed, `cancel_flags`, `stop`; callbacks, stream callbacks, buffered responses | `submit`, `cancel`, `poll`, `shutdown`; `request`, `poll`, `dispatch` | cancel at every stage; chunks from a worker thread; the end of a stream | each request is answered once |
| **lua_jobs, lua_ssh** `lua_jobs.cpp`, `lua_ssh.cpp` | callback tables, buffered results and events | `submit`, the SSH API, `poll`, dispatch, drop | a callback that starts or ends operations while its own event is handled | a callback gets what is its own, once |
| **Process manager** `lua_process.cpp` | processes, buffered output, callbacks | spawn, kill, read, poll, wait, dispatch, drop | exit against timeout; poll against dispatch | a child is reaped and reported once |
| **Resource manager** `resource_manager.*`, `lua_textures.cpp` | caches, pending loads, upload budgets | async texture, cubemap and audio loads; `process*`; `clear` | two loads of one name; clear with loads in flight | a load is answered once, an upload has an entry |
| **Realtime** `realtime/core.*`, `lua_realtime.cpp` | slots, tickets, active features, command and event queues, lifecycle | server/client `start`, `stop`, `activate`, `deactivate`, `send`, `connect`, `disconnect`, `close` | commands addressed by slot and applied a tick later; connect and disconnect within a tick | payloads pass only over a feature allowed and active for that session; a closed handle is silent |
| **HTTP server** `lua_http_server.cpp` | routes, pending calls, event streams | listen, handlers, `send`, `close`, `on-close`, `stop` | a pool thread that waits for the main thread, which may be joining it; four ways to end a stream | a stream's on-close handler is told once; every request is answered; stop returns |
| **Input** `input_state.*`, `engine.cpp`, `dial_type.cpp`, `input_dial_type.cpp` | pressed and previous controls, primaries, dials | SDL's events, queries, pause, dials | devices that go while pressed; pauses; frames that sleep | what scripts see is what is pressed; a press is told once |
| **Audio, video, recording** `audio.*`, `video_player.*`, `audio_input.*` | sources, streams; queues of a decoding thread; a ring | play, seek, loop, drop, reset; read, clear | a thread that decodes ahead of seeks; a device callback that never waits | ends are true, little of the past after a seek; no sample twice or torn |
| **File system** `lua_fs.cpp` | files and tokens of them | atomic replacement, other writers, windows of text | a writer between check and rename | no change a token can show is overwritten |
| **Terminal** `terminal.*` | damage, scrollback, the alternate screen, a child | output, resize, send, draw | lines that leave and come back; damage told late | what changed is told; only the limits cut history |
| **Vector buffer** `vector_buffer.h`, `lua_vector_buffer.cpp` | blocks, free blocks, a dirty range | allocate, reallocate, release, write, upload | handles kept too long; blocks split and merged | blocks tile the buffer; the copy differs only where the next upload goes |
| **Torrents** `lua_libtorrent.cpp` | ids, lent alerts, boxed userdata | add, remove, pop-alerts, direct requests, bencoding | alerts freed by the next call; boxes freed while under way | alerts told once, tags come back, tables survive |
| **Temporal** `temporal.*`, `lua_temporal_core.cpp` | - | arithmetic of instants, durations, dates, zones | limits of 64 bits; gaps and folds of zones | exact or refused |
| **Desktop** `lua_tray.cpp`, `lua_notify.cpp`, `lua_file_watch.cpp` | menus and their callbacks, notifications by key, watches and their queue | tray, notify and watch calls; GTK's, libnotify's and efsw's callbacks | scripts that rebuild or drop what calls them | callbacks once each, nothing freed is used |
| **Engine** `engine.cpp` | the frame loop | the dispatches of a frame, `shutdown` | the order of tearing down | in `LuaRuntime` |
| **Keyring, logging, error reporting, Fennel scheduler, units, workflows** | per component | many | OS threads that post to the main thread; reload with work outstanding | - |
| Rendering, physics, colour science, layout, fonts, search, Matrix | - | - | sequential, numeric or bindings to third-party code | - |

## 2. The modules

| module | models | checked by | proofs |
|---|---|---|---|
| `JobDelivery` | what the worker pool promises a caller: one phase per job, only forward | refinement target of `JobSystem`, machine of `LuaJobs` | - |
| `JobSystem` | `job_system.cpp` | `jobs` | `JobSystemProofs` |
| `SshService` | `ssh_service.cpp` over an arbitrary backend (`ssh_backend.h`) | `ssh` | `SshServiceProofs` |
| `SshLibssh` | `ssh_backend_libssh.cpp`, running under `SshService` | `libssh_*` | `SshLibsshProofs` |
| `LuaCallbacks` | the callback registry and the stack of the main thread | `lua_runtime` | `LuaRuntimeProofs`, `LuaAnswersProofs` |
| `HttpClient`, `LuaHttp` | `http_client.cpp`, `lua_http.cpp` | `lua_runtime` | `LuaRuntimeProofs` |
| `LuaJobs`, `LuaSsh`, `LuaProcess`, `LuaRealtime`, `LuaTextures` | the bindings of jobs, SSH, processes, realtime handles and asynchronous loads | `lua_runtime` | `LuaRuntimeProofs` (processes, handles), `LuaAnswersProofs` (order, one answer each) |
| `LuaRuntime` | the frame loop and the engine's shutdown over all of these | `lua_runtime`, `lua_promises` | `LuaRuntimeProofs`, `LuaAnswersProofs` |
| `LuaHttpServer` | a server of `lua_http_server.cpp` and httplib's loop around a stream | `http_server`, `http_left` | `LuaHttpServerProofs` |
| `Realtime` | `realtime/core.cpp`: one server, its slots, clients | `subsystems` | - |
| `Input` over `InputDialType` over `DialType` | `input_state.cpp`, the event loop of `engine.cpp`, dial gestures | `subsystems` | `SubsystemsProofs` |
| `VideoPlayer` over `Audio`; `AudioInput` | `video_player.cpp`, `audio.cpp`, `audio_input.cpp` | `subsystems` | `SubsystemsProofs` |
| `Files`, `Terminal` | `lua_fs.cpp`, `terminal.cpp` | `subsystems` | - |
| `VectorBuffer` | `vector_buffer.h` and a renderer's copy | `bindings` | `BindingsProofs` |
| `Torrents`, `Temporal` | `lua_libtorrent.cpp`; `temporal.cpp` | `bindings`, `bindings_promises` | - |
| `Desktop` | `lua_tray.cpp`, `lua_notify.cpp`, `lua_file_watch.cpp` | `bindings` | `BindingsProofs` |
| `Scenario`, `Subsystems`, `Bindings` | the frame that puts parts without shared state side by side | | |

`MC*` modules extend a specification and give its constants their values.
Definitions whose comment begins with "Mutant" change one definition the way a
bug in the code would; the run named for them in `PROJECT.json` then finds the
property violated. They are used by nothing else.

### JobSystem

| code | model |
|---|---|
| `stop`, `nextId`, `handlers`, `jobQueue`, `completed` | variables of the same names; `completed` is a set of results with the rank of their `push_back` |
| a worker thread in `worker_loop`, `pop_job` | `workerPc[w]` and `current[w]`; `LoopTest`, `PopJob`, `Block`, `Finish` |
| `condition_variable::wait` | `PopJob` (the predicate), `Block` (joining the wait list), `SubmitNotify`, `ShutdownNotify`, `SpuriousWake` |
| `submit` | `Submit` (the id and the handler lookup), `SubmitPush`, `SubmitNotify` |
| the four polls | `Poll`, `PollKind`, `PollOwner`, `PollKindOwner` |
| `shutdown` | `Shutdown`, `ShutdownNotify`, `ShutdownJoin` |

A step is a critical section. The wait of a condition variable is taken apart
because `shutdown` writes `stop` without holding `queueMutex`
(`src/src/job_system.cpp:37-43`): a worker that has found the predicate false
and has not yet joined the wait list misses `notify_all`, and `shutdown` then
joins a thread that sleeps for good. `ShutdownReturns` is therefore stated with
the condition that no worker is in that gap at the moment of the notification
(`QueueMutexFree`); drop the condition and TLC shows the lost wake-up in a few
steps. No document of the repository promises more, so this is recorded as a
hazard of the code and not as a finding. `submit` has no such gap: it pushes
under the mutex, which is what `EnoughAwake` says.

### SshService

| code | model |
|---|---|
| `operations_` and each entry's token | `operations` (the keys), `cancelled` |
| `sessions_`, `channels_`, `tunnels_`, `channel_sessions_`, `tunnel_sessions_` | `sessions`, `children`, `owner`; a child is a channel or a tunnel |
| `events_` | the part of the history `log` after `polled` |
| `workers_` | `workers[i]`, `watcher[i]`: the threads of each operation that run |
| a call on a session, channel or tunnel | `CheckSession` or `CheckChild`, then `Proceed`: two critical sections |
| `cancel`; `finish_operation` | `Cancel`, `CancelTold`; the same two halves for a watcher (`WatcherFinishes`, `WatcherTold`) |
| `shutdown` | `Shutdown`, `ShutdownTold`, `ShutdownJoined` |
| `OperationSink` | `Emit`, `AllocateSession`, `AllocateChild` |

The backend is whatever `OperationSink` allows: each worker may emit any event
of its own operation at any time, in any order and any number of times, return
or throw. Two things are assumed of it: it names only ids it was given, and it
announces each of them once. `SshLibssh` discharges them.

### SshLibssh

The service's variables and critical sections are those of `SshService`
(`S == INSTANCE SshService`); the module adds a program counter for each backend
thread (`work`), the backend's own tables (`bSessions`, `bChildren`, `bOwner`,
`pending`) and the thread of each shell or tunnel (`reader`). A step is one
critical section of the backend's `mutex_`, one call of the service, or one
answer of libssh, which may be any answer. `Passes` and `Stops` are the two
outcomes of `check_active`; `Fails` is every error path.

`Joinable` models a data race of the code: the thread object of a shell is
stored by the worker that opens it (`src/src/ssh_backend_libssh.cpp:1079`) while
`close_session` may already be joining the channel. A join in that window may
wait or may find nothing to wait for.

`ImplementsService == S!Spec` states that this is a backend of the kind
`SshService` quantifies over, so what is proved of `SshService` holds with
libssh. `ImplementsFairService == S!FairSpec` adds that its calls return once
cancelled, the assumption under which `SshService` shows that `shutdown` returns.

### LuaRuntime and its parts

The main thread is a stack of frames (`LuaCallbacks.stack`): one `"dispatch"`
frame for each activation of `lua_callbacks_dispatch` or `_dispatch_ids`, with
the rest of its batch and the item being called, and frames of the bindings that
call into Lua from a loop of their own (`"ssh"`, `"close"`). Lua code runs when
the stack is empty or its top is calling (`LuaRuns`); it may register, unregister,
use any binding or dispatch again. `DispatchFrom` is `take_pending_callbacks` with
its limit and its set of ids; `EndDispatch` is `~DispatchScope`.

| code | model |
|---|---|
| `Engine::run`'s dispatches, `callbacks.run-loop` | `Frames`, at the bottom of the stack or, for a budget, above it |
| what a script calls | `Script`, `ScriptWithChildren`: each sort of call as often as the scenario allows |
| curl threads, the pool, SSH workers, children, decoders, the realtime thread | `Threads` |
| `Engine::shutdown`, then the destruction of the runtime | `EngineShutdown`, `RuntimeEnds` |

`LuaJobs` runs over the machine of `JobDelivery` and `LuaSsh` over a queue of
events as `SshService` promises it, which is what the refinements of `JobSystem`
and `SshLibssh` justify. `LuaProcess` keeps the table of children, whose zombies
and timeouts are noticed only when the main thread looks. `LuaTextures` gives
decoded pixels to the texture that has the name by then.

`AnsweredOnce` leaves two things out, because they do not hold: the end of a stream,
whose callback is unregistered as its response is taken (`StreamIsTold`), and the
result of a child with a callback, which `process.poll` erases (`CallbackIsTold`,
`src/src/lua_process.cpp:878-886`). The run `lua_promises` shows both. Other
behaviours that the model has contradict no document: two loads of one texture name, or a drop
during the upload, leave an entry behind, and two such entries stop all texture
uploads; `clear_callbacks` and the drops never unregister the functions.

### LuaHttpServer

A request is a number, and so are its thread of httplib's pool and its stream.
`Arrive`, `WaitForLua` and `Answer` are its thread up to the stream. The stream is
written in a loop of httplib (`src/external/cpp-httplib/httplib.h:4698-4708`):
`CallProvider` and `NotWritable` are its head, `WriteChunk`, `ProviderReturns` and
`WriteFails` a call of `write_chunks`, `Notify` the second critical section of
`mark_closed`. The loop ends by itself, telling the stream nothing, when the server
shuts down, when the socket cannot be written and after an empty chunk, and it is
never entered for a HEAD request; what the stream still holds is lost then. `gone`
and `cut` record these streams. `Dispatch` and `Return` are the handler, `Send`,
`Close` and `OnClose` the stream's methods, `Stop`, `StopStreams`, `StopListening`
(`svr_.stop`), `FailPending` and `StopReturn` the steps of `stop`. A handler that calls `stop` waits for itself
(`src/src/lua_http_server.cpp:361-365`), which `StuckInHandler` excludes from
liveness. An on-close handler set after the end of its stream is never told, and
one that replaces another leaks it; `notified` records the handler the stream had
at its end, so the property speaks of that one.

### Subsystems

`Scenario` chooses a subject and a budget per sort of outside event; only the
subject moves. Parts that share no state are checked side by side in one run this
way without multiplying their states.

- `Realtime`: a slot holds a session, a client and the number of its attempt.
  Commands of the script are queued with the slot they name and applied by the
  next tick, when the slot may have another session. What the model shows beside
  the properties: a client given an unreadable ticket, or connected and
  disconnected within a tick, stays "connecting"; a worker that fails leaves a
  joinable thread; `disconnect` followed by `send` in one batch reaches a
  disconnected client (`src/src/realtime/core.cpp:1272`).
- `Input`: a frame keeps "previous", takes SDL's events and lets scripts look. A
  pause drops the removal of fingers, pens and gamepads; a press and its release
  within one frame are never shown. Dials drop their
  subscriptions at the first axis event that completes no gesture
  (`src/src/input_dial_type.cpp:106-108`), so that later gestures are told nobody.
  `InputAgrees` does not cover that: it says that the tables of dials agree.
  `GestureIsTold` of `InputDialType`, in no run, states it, and TLC refutes it.
- `VideoPlayer` over `Audio`: the decoding thread runs ahead of the main thread
  into two bounded queues; `fresh` tells pictures from before a seek. After the end
  of a video that does not loop the thread is gone and a seek decodes nothing;
  without a working audio device nothing drains the queues and the picture stops.
- `AudioInput`: a delivery fits, overwrites, overruns or finds the ring locked.
- `Files`: a save against writers, appends, touches, removals and replacements,
  at a clock of ticks. The gap between the last check and the rename is
  documented and excluded; a change in the clock's tick that keeps the
  size may pass unseen, for a token's sample is of a later moment than its stat.
- `Terminal`: libvterm tells of damage later than it changes cells. Lines pushed
  out behind the alternate screen are lost; a resize to no columns changes the
  size and not the screen (`src/src/terminal.cpp:354`).

### Bindings

- `VectorBuffer`: free and used blocks as pairs of first float and size, the dirty range and
  the renderer's copy. Handles whose block was given back are kept and used. The
  class accepts them once a block of their index and size is in use again
  (`validateHandle` looks at the bounds and at `active`), and a value written
  to a block released and allocated again between two uploads may not be
  uploaded; the properties state what does hold.
- `Torrents`: numbers for torrents, lent alerts, boxed numbers. Alerts kept over
  `wait-for-alert` are read after libtorrent freed them
  (`src/src/lua_libtorrent.cpp:1791`): `AlertsAreAlive` does not hold, and
  `AlertsOnce` speaks of what was told before. Bencoding is a recursive
  operator over nested tables.
- `Temporal`: every call is a step that records operands and result; the
  properties compare it with a reference without width. `AsInt` is what sol2 makes of
  a number of Lua's for a parameter that is a C++ int, `Byte` what `date::month` and
  `date::day` keep; the reference of `TemporalAgrees` is asked about numbers that fit,
  `InvalidIsLoud` says that others are refused, and does not hold. The scale is smaller (a
  number has 20 002 values either side, a second 8 ticks, a day 3 seconds), the
  shape is that of the code, its intermediate overflows included.
- `Desktop`: GTK, libnotify and efsw call back while scripts rebuild, drop and
  send again. A rebuild that throws halfway leaves the menu on freed storage
  (`src/src/lua_tray.cpp:57`), so does an update within the menu's own callback.
  Both steps are in the model; `strayed` records them, and the properties speak of
  scripts that make none.

## 3. The runs

| run | question | result |
|---|---|---|
| `jobs` | is a job lost, answered or run twice, started or polled out of order, or its wake-up lost; does the pool implement `JobDelivery`; is a queued job taken, a Lua job answered, does `shutdown` return | holds, `ShutdownReturns` with the condition above |
| `ssh` | worker, watcher, `cancel`, decision and `shutdown` racing for one operation; are the live ids those a reader of the events believes in; does a timed operation end, does `shutdown` return | holds |
| `libssh_safety` | one decision for one challenge; a shell closed from several sides; the backend's sessions against the service's; conformance to `SshService` | holds |
| `libssh_live` | do backend calls, joins and the answer come; conformance with fairness | holds |
| `libssh_closing` | is some kind of close final: is the id of a remotely closed channel refused, are those opened on a closed session, is no thread left when the backend is destroyed | **violated**, all three |
| `lua_runtime` | does every callback get its events once and in order, every request its answer, under nested dispatches, polls, cancels and closes; do side tables agree; is a closed handle silent | holds |
| `lua_promises` | is the end of a stream, or else the result of a child, told its callback | **violated**, both |
| `http_server` | is a stream's end told once, is what was accepted written; does `stop` return, is every request answered | holds, but for a handler that calls `stop` |
| `http_left` | is the on-close handler told when the client leaves | **violated** |
| `subsystems` | realtime, input, media, recording, files, terminal, each against what its users rely on | holds |
| `bindings` | vector buffer, torrents, temporal, desktop, likewise | holds |
| `bindings_promises` | are alerts read while they live, or else invalid fields refused | **violated**, both |

The violations are behaviours of the code that contradict what its tests, its
documents or its design say; `PROJECT.json` "findings" quotes the lines. Where a run
has several of them, its property is the disjunction of the promises, so that one
trace shows every one broken; each is a definition of its own beside it.

- *Announced after its end.* `open_shell` and `open_local_tunnel` start the
  thread of the new channel before they emit `ShellOpened` or `TunnelOpened`
  (lines 1079 and 1082, 1198 and 1201). If the remote end closes in between, the service
  handles `ChannelClosed` first and `ShellOpened` second, and keeps a channel
  that the backend has forgotten. The same happens, without any remote close,
  when `close_session` runs between the session lookup and the registration.
- *A thread nobody joins.* A reader that ends by itself erases its channel
  before its last `emit`. The destructor joins what it finds in the tables, so
  it does not wait for that thread, which may call the service as it is destroyed.
- *Callbacks that are not called.* A stream's callback is unregistered before its
  `{ :done true }` is delivered (`src/src/lua_http.cpp:126`, 184); `process.poll`
  erases children that have a callback (`src/src/lua_process.cpp:886`).
- *A client that leaves between two writes.* httplib ends the loop without another
  call of `write_chunks`, so that nobody closes the stream before `stop`.
- *Alerts and dates.* `pop-alerts` after a `wait-for-alert` that left some behind
  reads freed alerts (`src/src/lua_libtorrent.cpp:1790`). A month or a day of more
  than a byte is cut to one before it is looked at (`src/src/temporal.cpp:107`), and
  Lua's numbers are cut to an int before that: day 257 is day 1.

Three more behaviours are in the model and violate nothing that is stated: a
challenge recorded after its connect was cancelled stays in `pending_`
(line 1813); a session registered, or a channel opened, after its operation was
cut short stays open under an id nobody was told (lines 1884, 1073);
and cancelling a write closes the handle of the whole shell, whose reader then leaves
without `ChannelClosed` (lines 711, 1382). `SessionsAgree` excludes
operations that were cut short for that reason.

### Bounds

- `JobSystem`: two workers, so that they race for the queue and one sleeps while
  the other runs; three jobs, so that the order of two of them can be disturbed
  by a third; one kind, which may or may not have a handler yet; polls with a
  limit of one and without.
- `SshService`: two operations with their watchers cover every race for one
  operation and one bystander; `MaxNews` bounds the events that end nothing.
  `Within` gives sessions and children to an operation that is alone; where two
  operations or a worker's second thread race, at most one event is news. The
  theorems of `SshServiceProofs` hold for every `MaxNews` and without `Within`.
- `SshLibssh`: `Clients` says how often a client makes each call. The races
  looked for need one connect, one shell or tunnel, and one call on it; a
  challenge needs three workers, for two decisions. `MaxSessions` and `MaxChildren` are as many
  as the budget can allocate. After `shutdown` ids are 0; at most one channel and one
  tunnel get that id (the bound in `Allocates`). `libssh_closing` has two shells,
  and `Late` keeps its client to the calls of the three counterexamples.

- `LuaRuntime`: twelve scenarios, each a budget of calls for one or two
  bindings. Three callbacks and three requests, jobs or loads are enough for an
  order to be disturbed and a batch to be split by a limit of one; four frames allow a dispatch
  within a close within a dispatch.
- `LuaHttpServer`: two requests, so that one may wait while the other is handled
  or stopped; two chunks and two on-close handlers, so that one is replaced or late; two nested handlers. `http_left` needs one of each.
- `Subsystems`, `Bindings`: per subject a few scenarios with budgets of one to
  four events of each sort; two of every device, client, player, saver, holder or
  tray, so that one may be taken for the other.
- `Temporal`: operands are the limits, both sides of each unit and of zero, and
  some between.

`Rest` in `SshLibssh` is the stutter of a quiet system, so that deadlock is
checked: a state with a thread that can never move again is reported. The
scenarios of `LuaHttpServer`, `Subsystems` and `Bindings` use up their budgets
and may then rest anywhere; these runs do not check deadlock.

### Fairness

- `JobSystem`: a call once begun goes on, a worker is scheduled, a handler
  returns, and a thread that wants `queueMutex` again and again gets it. The
  engine calls `lua_jobs_dispatch` each frame (`src/src/engine.cpp:589`), which polls
  Lua's results without a limit: that poll is fair. Nothing is assumed about
  submits, other polls and shutdown.
- `SshService`: watchers run, since their deadline passes; a call of the main thread
  once begun goes on; a backend call returns once its token is cancelled
  (`WorkerStops`). A backend that never answers is allowed.
- `SshLibssh`: a connection attempt, a remote command and a write may last for
  ever; they look at their token between two short calls of libssh
  (`connect_nonblocking`, `exec`, `channel_write`), so `Stops` is fair once it
  is cancelled. Every other call of libssh is taken to return. Shells and tunnels look at their
  flag between two calls as well. `WorkerStops` is a consequence here.
- `LuaHttpServer`: a thread of the pool is scheduled, the engine dispatches each
  frame, a handler returns, and `stop` goes on once begun. Clients, scripts and
  the call of `stop` are free.

## 4. What is proved

Every theorem holds for all values of the constants: any number of workers,
callbacks, requests, frames, and any scenario. Each proof module extends the
module it is about; its theorems are listed in `PROJECT.json`, and the lemmas
they rest on precede them.

### JobSystemProofs

`TypeCorrect`, then one inductive invariant, `JobInv`, for the six safety
properties together: none is inductive alone. That a job is not answered twice
depends on its not being in two places (`RunOnce`), which depends on the queue's
order (`StartedInOrder`), and the order of polls depends on the ranks of results
still to be polled being below the next one (`RanksInOrder`). The lemmas follow a
job along its way: `PushStep`, `PopStep`, `FinishStep`, `TakeStep`; `NoHandover`
covers the steps that move no job. `PoolImplementsDelivery` is the refinement:
each step of the pool is a step of `JobDelivery` or leaves every phase as it was.

`NoWakeUpIsLost` counts the workers on their way to `pop_job` against the queue.
It needs `NothingToMiss`: a worker that found the predicate false and has not
yet joined the wait list does so under the mutex, so no push can fall into that
gap. It is the part that `shutdown`, which writes `stop` without the mutex, lacks.

### SshServiceProofs and SshLibsshProofs

Of the service, from three invariants over `TypeOK`:
- `OperationInv` for `EndedOnce`, `Accounted`, `TokensFollow`: ids in the log
  were given out, no operation in the table has an end in the log, none is both
  in the table and cancelled, and a running thread's operation is in one of the
  two. With it, each of the three racing sections finds that the event it adds
  is the first end or is dropped.
- `ShutdownInv` for `ShutdownIsFinal` and `ShutdownLeavesNoThread`.
- `TablesFollow` for `HandlesFollowEvents`: each of `sessions`, `children` and
  `owner` is characterised by the log. It needs that an id is announced once,
  which is the assumption on the backend: `TablesFollowNext` fails without it.

Of the backend:
- `LibsshServes` discharges that assumption: every step of the backend is a step
  of `SshService` or a stutter, so what is proved of the service holds with
  libssh. The refinement needs that a thread names only ids it holds or that were
  given out (`Given`), that an id is announced by the one thread that brings it,
  and that the workers the service counts are those that have a program
  (`Counted`).
- `LibsshTypeCorrect` follows from the same invariant and the service's own types,
  which every step of the service keeps whatever its backend does, and `Tables`:
  a program that writes has a child, so cancelling it stops a child.
- `OneDecision`: of the threads of an operation at most one is past its
  challenge. The challenge in `pending` is a token; `resolve` takes it, and
  nobody else makes another for an operation that has one.
- `ChildrenCloseOnce`: per child there is one right to tell `ChannelClosed`. The
  invariant `Child(c)` says who holds it: the table, the reader, or the thread
  that took the entry out of the table.
- `SessionsAgreeAtRest`: per session the same with `Brings` (who will announce
  it) and `Took` (who will tell its end), and `Agree` while no operation was cut
  short.

`SomeCloseIsFinal`, refuted, shows that these are the strongest statements that
hold: what they exclude is exactly what its run exhibits.

### LuaRuntimeProofs

Of the whole runtime, with every binding, thread and nested loop in it:
- `FlagsAreThoseOfRequests` from `HttpInv` (ids ascend, a request is at one place
  of the pool), `ChildrenAreReapedOnce` from `ProcInv`, and with both
  `TablesAlwaysAgree`. `NextIsHttpStep` and `NextIsProcStep` sort the steps of the
  runtime by what they do to the service, so that each proof goes through the few
  operations of that service.
- `NothingIsNotedAtRest` from `RegistryInv`: whatever is retired is also noted, and
  something is noted only while a dispatch frame is on the stack. A step either
  notes within a dispatch (`Noting`), or adds to the stack (`Calm`), or is the end
  of the outermost dispatch, which clears both.
- `ClosedHandlesAreSilent`, the longest. Nobody but the handle and its thread
  enqueues for the handle's callbacks: the callbacks that other services keep
  (`Foreign`) and those of the handle (`Mine`) stay disjoint (`OwnInv`), which needs
  what each step of each service enqueues, registers and takes away (`Others`).
  After close nothing of `Mine` is in the queue, and what is still in the batch of
  an outer dispatch stays retired until that dispatch is over, because an id is
  retired only together with the note that is flushed at the very end
  (`SilentInv`). For the other half, the event "stopped" is followed from the
  queue through the batch above the frame of close to the call (`Reaches`,
  `CloseInv`). The lemmas on sequences (`AtIs`, `DispatchGoes`, `TopIs`, `ReplacedIs`)
  are what every statement about batches needs.
- Its last part, on the order of events, belongs to the next theorem: what the steps
  of the registry, the scripts, the handle, the ssh and the jobs module do to it.

### LuaAnswersProofs

`EventsInOrder`: a callback gets its events once each and in the order they were
enqueued, for any script, nesting and set of services. It goes in three parts.
- Of the queue and the batches (`Order`): the events of one callback ascend within
  the queue and within each batch, an outer batch precedes an inner one and all
  precede the queue, and a callback that has heard a later event heard it at
  a greater depth. `PostingOrders`, `DispatchingOrders`, `CallNextOrders` and the
  other lemmas named so show what each operation of the registry does to it,
  provided that what is enqueued is `Timely`: later than all that waits.
  `lua_ssh_dispatch` is no posting at the end of the queue: it keeps its own batch
  and enqueues one event at a time, which a nested loop may overtake. `SshOrder`
  says where such an event may be (alone in the batch above its frame) and how the
  frames of that dispatch relate to each other.
- Of who tells (`ClaimInv`): each callback belongs to one source (a request, a
  stream, a job, an operation, a child, a load, the handle, a script), and every
  event on its way is of the source of its callback. A step of one service then
  leaves the callbacks of the others as they were (`Sparing`, `OtherSourceStays`).
- Of each source, that what it still has to tell was not told (`ScriptDue`,
  `RealtimeDue`, `StreamDue`, `HttpDue`, `JobDue`, `ProcessDue`, `LoadDue`) and that
  no request, job or load is on a list of results twice (`HttpLineInv`,
  `JobLineInv`, `LoadLineInv`). For streams it rests on a request being with one
  thread, for loads on the parts of an upload queue being disjoint (`Parted`).

`ModuleSteps` puts the three together for the steps of each module, over
`RealtimeInv`, the invariant behind `ClosedHandlesAreSilent`.

`AnswersHaveOnePlace`: until the shutdown each response, job, event of an operation and
load is at one place of its service, or its callback was told, or a poll has handed it
out; so is the result of a child without a callback. Of a child with one it says
only that it is not told twice, and of the chunks and ends of streams nothing,
which is what the run `lua_promises` needs. The first theorem
says that no answer is told twice; this one needs that none is lost.
- The property counts places, and the proof turns counts into sets: what was told
  so far is `Tales`, events on their way and events heard, and `ToldIs`, `SourceToldIs`
  and `CountIs` say that a count is one or zero. Each service then has an invariant
  that its requests are parted into the places where they may be
  (`HttpOnceInv`: queued, performed, completed, buffered, polled, told; `JobOnceInv`,
  `SshOnceInv` of pairs of an operation and an event's number, `ProcOnceInv`,
  `LoadOnceInv` with the loads that failed; `UploadInv` for the textures whose upload
  goes on, which hold the pixels of a load of their name that is in the queue).
- An event that was enqueued is lost if its callback is unregistered before its
  turn. So each callback that a table has, or for which an answer waits, is
  `Alive`: registered, and neither noted nor retired. It needs the claims of the
  first theorem: whoever unregisters has the callback to himself.
- What a step may do to the other services is `Serves(K)`: it tells events of the
  sources in `K` alone, takes away the callbacks of no other, and leaves the
  batches of lua_ssh_dispatch alone unless it is of the ssh module. Each step of
  the runtime serves (`CallbacksServe`, `RealtimeServes`, `HttpServe`, `JobsServe`,
  `SshServe`, `ProcessesServe`, `LoadsServe`), and `ModuleServes` concludes that the
  others keep their invariants.

### LuaHttpServerProofs

`StreamsAlwaysEnd` from `ServerInv`. `HandlerInv` counts the places where the end of
a stream may be for its handler (`Places`: pending, being handled, told), which is
none before the stream is closed and one after, so that none of the ways to
close a stream tells it twice. `QueueInv` says that a pending call's thread is
waiting for it, `StreamInv` that a thread that is over has written what was
accepted, but for the streams in `gone` and `cut`.

### SubsystemsProofs

The parts share no state, so that each has an invariant of its own, which the steps
of the others leave as it is.

`InputAlwaysAgrees` from `InputInv`: when a frame ticks, what `InputState` says of each
finger, pen, button and stick is what the devices have done since the last tick.
- `Follow` is the heart of it. It speaks of a device, SDL's queue and `InputState` at
  once: the last event in the queue that tells of a control says how the control
  is now, and a control of which no queued event tells is seen as it is, unless
  the code leaves it `stale`. At the tick the queue is empty, and the second half
  is the property. `UntoldQueued` and `UntoldTaken` are the two lemmas by
  which a device's event enters the queue and the loop takes one out.
- `PadQueue`: a gamepad is added once and removed once and its other events come
  between, so that what `InputState` drops when it opens or closes a gamepad is not
  told of again; `Over(g)` is a gamepad of which nothing more is heard.
- `Edges` carries the presses: over the frame, what was down at the last tick is
  what the scripts were shown, or belongs to a gamepad that is over.
- `Primary` and `Dials`: the primary devices are there; each subscription of a dial
  is in both tables, and a dial nobody reads is at rest.

`Happened` is what all that a device may do has in common: an event is appended
that tells of what has changed (`HappenedFollow`, `HappenedPadQueue`). `Taken...` is
its counterpart for the loop, and `MouseEffect`, `TouchEffect` and so on say what
each handler does with the event that was taken.

`PlayingAndRecordingAlwaysAgree` from `MediaInv` and `RingInv`.
- What a seek may leave behind is a count, and it is the thread that makes it
  small: the script's two halves, asking and clearing, may fall anywhere in the
  thread's loop. `PlayerInv` therefore says by the thread's place what may still
  come before it looks (`AwaitsSeek`: nothing is queued while it waits or reads;
  while it empties the decoder, what is queued and what the decoder has are
  together at most what it keeps back and one), and that once it has looked all
  but so many at the head of a queue are fresh (`ObeyedSeek`). A seek that was
  asked for and whose clearing is still to come asks for neither. One lemma for each step of the
  thread (`TakeKeeps`, `PushKeeps`, `FinishKeeps`...), one for whatever the main thread
  takes from the queues (`MainKeeps`), one for the clearing (`ClearKeeps`).
- That a video which has ended stays ended is in `PlayerInv` too: its thread is over
  for good and nothing is left to show.
- `StreamsInv` pairs streams and players: who holds a source holds a stream, each stream
  is held, and by one. `SourcesAgree` states the last by counting; `OneEach`
  gets there by the pigeonhole principle, both ways. `TurnInv` says where the
  main thread may be, with what: an update is of a player that is listed, and
  when the last has been dropped none is listed, so that none has a source when
  the manager forgets Audio.
- `RingInv` numbers the samples by when they were heard. A place of the ring holds a
  sample of its channel, because what is dropped is whole frames (`Whole`), whether
  the delivery fits, pushes out what is oldest (`ShortIsStored`) or starts the ring
  anew (`LongIsStored`). The remainders by the ring's size and by the number
  of channels, neither of which is known, are dealt with in `Around`, `RemainderIs` and
  `WholeAdds`; nothing else computes with products.

### BindingsProofs

Of the four parts of `Bindings` the two without recursive operators, each by itself.

`BlocksAlwaysTile`: free and used blocks tile the floats below `freeFrom`, through
splitting, merging, giving back the tail and growing (`AddLast`, `DropLast`, `Cut`).
`VectorAlwaysAgrees` adds the renderer's copy: it differs from the buffer only
within the dirty range, for the writes that `CopyInv` covers.

`DesktopAlwaysAgrees` from `DesktopInv`, which has a part for the tray, one for notes and
one for watches. The first two say what holds whatever scripts do, and what holds as
long as they have not `strayed`.
- `TrayCalm`: the last menu of every handle was read, so that the menu shown is the one
  there is; the indicator is that of the one tray that runs; and the menu of the click
  that is under way is still there. `TrayShape` is left once scripts stray: a
  handle that was made has had a menu, by which the loop's exit is told from a menu
  that is replaced (`LoopTellsExit`).
- Notes go by the numbers of their sends. `HandlerInv`: a number is of one on-close of one
  note, and is above what is `left` to be sent. `ToldInv`: a number is told at most
  once, and of a note that may still be closed (it is kept, or shown and not being
  closed) none was told. `CallingInv`: what a closing has still to tell is part of the
  note's handlers and untold. These hold even when a function sends its own note
  again while it is being closed; that each on-close *is* told (`NoteCalm`) needs that
  it does not.
- `CenterInv`: a center that is gone shows nothing, by which a closing that begins is of
  a center that is there.
- `WatchInv`: what was told, what waits and what efsw's thread holds count on from each
  other (`CountedOn`).

### Assumptions

Those the modules state: bounds and limits are natural numbers, `Workers` is
finite, an operation has at least one worker, types of children are channels and
tunnels, a backend ends operations with terminal kinds, a load has at least one
piece, a script's budgets are natural numbers, and the ids of contacts, pens and
gamepads are positive (0 is "none" in the code), as are OpenAL's names of sources; a file,
the ring and a queue hold at least one, and a seek can always go to a file's start. What
a scenario spends is counted by natural numbers (`ScenarioBounds`), and no key of a
notification is the sign for none. TLC evaluates all of them in the runs.

### Only model-checked

- All liveness, and whatever rests on `ENABLED`: the prover does not treat it.
  `ImplementsFairService` is the fair half of `LibsshServes`.
- `RealtimeAgrees`, `FilesAgree`, `TerminalAgrees`, `TorrentsAgree`, `TemporalAgrees`:
  part of what each says of a state is itself computed by folds or recursion over data.
- Anything that needs induction over data or a recursive operator: nested tables
  of `Torrents` (bencoding) and the fractions of `Temporal`. `Bindings` extends both,
  which is why the two other parts of that run are proved on their own,
  `VectorBuffer` from `VectorSpec` and `Desktop` from `DesktopSpec`.

## 5. The plan

Everything planned for the model is done; what was left out is in section 6.
What can still be proved: the parts of `RealtimeAgrees`, `FilesAgree` and `TerminalAgrees`
that rest on no fold, for which those conjunctions would have to be split.

## 6. What is not modelled

- Data: payloads, options and their validation beyond "malformed", event fields
  and their redaction, error codes, exit codes. Which outcome occurs is a choice.
- libssh, curl, httplib, SQLite, libtorrent, GTK, libnotify, efsw, FFmpeg and every
  other library: any answer they may give.
- The relays of a tunnel's connections: they emit no event and change no table.
- SFTP's files. `exec` stands for the two transfers, which have the same shape.
- The pipes of a child and their buffers, shaders, directories and links, what keys
  encode to, statistics of torrents, the texts of times: they keep no state that
  another part relies on. `PROJECT.json` names the rest per component.
- Exhaustion of 64-bit ids; allocation failure.
- The keyring, a binding to a service of the operating system, and logging and error
  reporting, which are I/O around third-party libraries.
- The Fennel program: its scheduler, timers, unit reload and workflows. It runs over
  the callbacks modelled here as any script does.
- Rendering, physics, layout, colour science, audio mixing and bindings to
  third-party code: no protocol between actors.
