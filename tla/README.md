# Edge security kit: a verification project

TLA+ modules, TLC configurations and TLAPS proofs for the edge security kit: a
hub (`hub/edge_hub`) that judges rules over what edge detectors
(`platforms/*`) see, keeps the alerts, and serves a web workbench
(`web/dist`).

## 1. The system

| part | state it keeps | operations | talks to |
|---|---|---|---|
| MQTT ingest (`mqtt_ingest.py`) | connection, counters | receive, validate, dispatch **one message at a time**, reconnect with backoff, publish | broker; calls every handler below |
| rule engine (`rules/`) | per device: session, per stream: frame watermark, tracks with zone entry instants and line sides | `on_detections`, `reset_device` | returns candidates |
| alert manager (`alert_manager.py`) | cooldown stamps, sequence counters, parked snapshots, snapshot timers | `allow`, `fire`, `attach_snapshot`, `expire_snapshot`, `transition`, re-arm at start-up | storage, publish, WebSocket |
| storage (`storage.py`) | SQLite: alerts, devices, rules, config_versions, auth, sessions, audit; the config.json mirror; JPEG files | one transaction each | disk |
| device registry (`device_registry.py`) | status, mode, session and streams of each device | `on_status`, `note_single_box` | session-change callback, WebSocket |
| control plane (`control.py`) | pending requests | `send`, `on_ack`, timeout | cmd topics; audit |
| HTTP and WebSocket (`http_api.py`, `auth.py`) | sockets, login sessions, preview cache | REST handlers, `broadcast`, preview proxy | everything above |
| detector (`platforms/_shared/esk_core`, `platforms/*/esk_*`) | streams, worker threads, verdicts already given | `cmd/control`, capture loop, tracker, status, snapshots | broker, camera |
| preview server (`preview.py` of each platform) | the latest frame of each camera | stills, live page, snapshots | capture loops, MQTT thread |
| reCamera application (`platforms/recamera-pro`) | frequency policy, replay child, frame loop | setup, benchmark, loop, exit | board, broker |
| memory bench (`esk/bench_infer.py`, `esk/ctypes_infer.py`) | iterations, what the library holds, the report | one native call at a time, samples, stop, release | board, in place of the pipeline |
| web workbench (`web/dist/js`) | store, last alert id, undo bar, shapes being edited, who is signed in | catch-up, WebSocket messages, dispositions, saves, sign-in | REST, WebSocket |

### How they interact

The hub is **one asyncio process**. MQTT messages are handled strictly one
after the other by the ingest task; HTTP handlers, snapshot timers, the
retention loop and the WebSocket pushes are other tasks that run wherever the
ingest task awaits. What is in memory is lost on a restart, SQLite is not. A
detector is a process with one capture **thread per stream**, a Paho network
thread that runs the control handler, and the main thread, which sends the
status and takes everything down. Between them is an
MQTT broker: detections are QoS0 (lost, never repeated), events, snapshots,
acks and status are QoS1 (repeated, delayed), status is retained.

### What is hard

* **awaits**: `fire()` inserts, pushes, publishes twice and only then arms a
  timer; `broadcast()` awaits each socket in turn, so two broadcasts interleave;
  `ControlPlane.send` waits eight seconds for an answer that may come at eight
  seconds and a bit, from a detector that itself waits eight seconds for a
  first frame;
* **generations**: a detector restart is announced twice, by its frames and by
  its status, in either order, and late messages of the old process follow;
* **restarts of the hub**: counters, timers, cooldowns and parked snapshots
  vanish, rows and the device's session stay;
* **partial failure**: a raised publish, a failed file write, a commit without
  its mirror;
* **numbers**: sequence numbers, frame watermarks, cooldown boundaries, the
  polygon and segment tests, byte thresholds, odd frame sizes;
* **shared buffers**: one accelerator, one frame store and one registry of workers
  under several threads;
* **late answers**: a page that has moved on to another stream or another session
  when the answer comes.

### What makes each part correct

| part | it is correct when |
|---|---|
| alert lifecycle | an event id is never stored twice, across restarts; a pending alert is always armed, and settles; event and snapshot meet in either order; the hub never mistakes its own echo for a device event |
| rule engine | the verdicts are exactly what the positions of the track have earned, whatever was lost, repeated, toggled, expired or reset |
| geometry | containment and intersection agree with their definitions, and the canvas with the hub |
| generations | a session is reset once, by whichever message announces it first, and never because of a late one; online and offline follow the device |
| control plane | what the operator is told about a command is true; it is applied once; what was acked as persisted survives |
| config store | what was confirmed is in the tables, in `config.json` and in `Hub.config`, and a setting that is handed on is in force in its component; the history has no gap; an import is whole |
| sessions | a session ends when it must and not before; a changed password ends the others for good |
| ingest | a faulty message or handler costs its own message; the connection comes back; the counters add up |
| preview proxy | the age it tells bounds what the cache adds to the device's own frame |
| console | an alert is shown and rung once; what was undone is not sent; no guess stays on the screen |
| rules editor | what it calls saved is saved, for this stream |
| sign-in and socket | who is signed in is connected, who is not does not go on trying |
| detector processes | no thread runs on unseen; the decode path told is the true one; a camera that cannot be decoded is refused or ends the process |
| shared accelerator | a stream publishes results of its own frame |
| preview server | a frame that is served is whole and recent |
| trackers | one id per box and one box per id, and the best overlaps win |
| post-processing | the published boxes are the anchors that qualify, where they are in the frame |
| reCamera application | the board is given back as it was found, unless a SIGTERM met no handler |
| memory bench | it keeps what its mode means to keep, stops before the board has no memory left, and reports what it did |

## 2. The plan, as carried out

| order | module | what it composes | abstract specification or reference | checked in | proved in |
|---|---|---|---|---|---|
| 1 | `AlertLifecycle` | alert manager, alerts table, ingest, timers, HTTP | `AlertSpec` | `alerts_*`, `hub_services` | `AlertLifecycle_proofs`, `AlertSnapshots_proofs` |
| 2 | `Geometry`, `RuleEngine` | geometry, zones, lines, track state | orientation tests; the `trail` of observations | `hub_services`, `rules_expiry`, `geometry_canvas` | `Services_proofs` |
| 3 | `DeviceGeneration` | detector, broker, registry, engine, cooldowns | | `detectors`, `generation_will` | `Detectors_proofs` |
| 4 | `ControlPlane` | REST call, hub, MQTT, detector, capture loops, config file | | `control`, `control_frames` | `ControlPlane_proofs` |
| 5 | `Console` | hub broadcast, REST, browser store, undo bar | | `console` | `Console_proofs` |
| 6 | `ConfigStore` | tables, versions, mirror, settings | | `hub_services` | `ConfigStore_proofs` |
| 6 | `Sessions`, `Ingest`, `PreviewProxy` | one service of the hub each | | `hub_services` | `Services_proofs` |
| 7 | `Tracker`, `Vision` | the algorithms from the network's output to the tracked box | matching by overlap; what the network said | `detectors` | `Detectors_proofs` |
| 8 | `EdgeDetector` | capture threads, commands, main loop, broker | | `detectors`, `edge_refusal` | `EdgeDetector_proofs` |
| 8 | `Engine`, `PreviewServer` | threads over one model, one frame store | | `detectors` | `Detectors_proofs` |
| 9 | `ReCamera` | the application and its board | | `detectors` | `Detectors_proofs` |
| 9 | `RulesEditor`, `WebSession` | two pages of the workbench with the hub behind them | | `hub_services`, `signed_in_again` | `Services_proofs` (the editor) |
| 10 | `NpuBench` | the bench loop over the library's calls | | `detectors` | `Detectors_proofs` |

`MCHub` and `MCDetectors` put modules that share no state into one run: a
variable `part`, chosen in the initial state, says which module the behaviour is
about, and the variables of the others rest. The state space is the sum, not the
product, of the parts; every property is stated of one part, and in the other
parts it speaks of an initial state.

## 3. The modules

An action is a stretch of code between two points where something else can run:
an `await` in the hub and the browser, the end of a callback or an access to
shared data in a detector thread. Where the code between two such points loops
over independent items, the loop is one action. History variables record what
happened for the properties and are never read by a guard of the modelled code.

### AlertLifecycle and AlertSpec

State: the `alerts` table with its AUTOINCREMENT (`row`, `lastId`, survive a
crash); `seq`, `timers`, `parked`, `mode` (in memory, lost). `fire` is where the
ingest task stands inside `fire()`: at the push, at `_republish_event`, at
`_request_snapshot`, at the end. `Fire`, `Republish`, `RequestSnapshot`,
`Settle` are its four stretches; `FireConflict` is the INSERT that hits the UNIQUE
constraint; `OnEvent`, `OnModeStatus`, `OnSnapshot` are messages; `ExpireSnapshot`
the 60 s timer; `Transition` ack and dismiss; `Simulate` the installer's button;
`RetentionPass` the hourly purge; `Crash`, `Boot`, `RearmPendingSnapshots` the
restart, in which HTTP already serves before the timers are armed again.
Cooldowns are left out here (any candidate may fire) and are in DeviceGeneration.

`AlertSpec` is the promise of HUB_SPEC section 3: two state machines per alert,
ids in increasing order. `AlertLifecycle` implements it under the mapping
`disp`, `snap` <- the columns of the row, `last` <- `lastId`.

### Geometry and RuleEngine

`Geometry` has the tests of `rules/geometry.py` on integer points, and the canvas's
copy in `coords.js`. Coordinates are normalised floats in the code; a grid keeps
every sign the tests look at exact. `MCGeometry` moves a corner and a point
freely over the grid, from every choice of two others, and compares the operators
with orientation-based definitions.

`RuleEngine` is one stream of one device: `OnDetections` is the whole of
`RuleEngine.on_detections` for a message (session, out-of-order guard, then for
each detection the track's state, zones and lines, and the expiry sweep last), `OnDetectionsNoRules` and `OnDetectionsLate` its
early returns, `ResetDevice` the generation reset, `ChangeRules` a change of the enabled
features, `Tick` the clock. `trail` holds every evaluated observation; the
properties recompute the verdicts from it, without the incremental state
(`zone_entered_at`, `line_side`, `line_anchor`) that the code keeps. What ends a visit is an
absence longer than the expiry, as HUB_SPEC has it; the code ends it only when a message of the stream
falls into the time between, which is the finding `rules_expiry`. `ZoneVerdictsAreEarned` leaves that
case, and no other, out by name (`Overlooked`).

### DeviceGeneration

One hub-mode device from end to end: the process with its session (`Start`,
`Heartbeat`, `Die`, `Reconnect`, `PublishFrame`; the end in two steps, the goodbye of `BeginExit` and the disconnect of
`EndExit`, between which the MQTT thread may still end a command, `CommandEnds`, or reconnect), the broker (`WillFires`,
the retained status, loss of QoS0 frames), and the hub (`Deliver` runs the handler
of one message: `on_status` with `_on_session_change`, or `on_detections` with
the engine's adoption of a session and `AlertManager.allow`; `HubReconnect`,
`HubRestart`). A status may be rejected by the contract validator.

### ControlPlane

`Send`, `TimeOut`, `OnAck`, `OnStatus` are the hub; `Handle` is
`ControlHandler.handle` with its whole decision table; `AddOpened` and `AddFails`
end the wait of an add for its first frame; `Capture` is one turn of a capture
thread; `GhostEnds` one of a thread whose join timed out; `Heartbeat` the status;
`Redeliver` QoS1 (one of the latest `RetryWindow` commands comes again, before those that have not come yet); `Restart` a new detector process that reads its config file. A
thread can outlive the join of `stop()`, a publish can be lost or raise, a
write-back can fail. REST calls run concurrently, also two for one stream.
Anything else that raises inside a handler (the start of a thread, the status that follows a change, a
write-back with another error) is caught by `handle` and acked `ok: false` with the text of the
exception, whatever has been changed by then (`Faulted`, `StartRaises`, `FaultOf`, `Ends`). Such a command is
remembered as decided; the caller's verdict is `"fault"`, apart from the refusals.

### Console

`Broadcast` and `Push` are the hub's `broadcast`, in which two messages may reach a
socket in either order; `Cut` and `Connect` the socket with its catch-up,
`ServeLoad`/`LoadArrives`/`LoadFails` the page's list call and
`ServeCatchUp`/`CatchUpArrives`/`CatchUpFails` each connection's catch-up: a
response is computed at one moment and arrives at a later one. `Stage`, `Timer`,
`Undo`, `ServeDisposition`, `DispositionEnds`, `DispositionFails` are `undo.js` with
the hub's answers; a batch is taken id by id with broadcasts in between.
`ChangeByOthers` is another operator or a snapshot.

### ConfigStore

`db` is the tables `rules` and `config_versions`, `tx` what the open transaction
sees, `mirror` is `config.json`, `settings` is `Hub.config`, `running` what the components use. `PutRules`,
`ImportDevice` and `PutConfig` open a transaction, `WriteItem` writes one scope with
its version row and the pruning, then `Commit`, the mirror, the resolved settings
and the answer (`Confirm`, or `RefuseValue` when a value that is handed on does not parse); `Refuse`, `Rollback`, `MirrorFails` and `RestartHub` end
it in between. A body is, per key, the number of the PUT that wrote it. A PUT of a
value that is stored before it is parsed leaves a hub that cannot start (`at = "dead"`).
`Handed` are the settings `update_config` hands to their component at once, `Parsed` those that are
parsed at a start: the others of these are answered 200 and used from the next start on.

### Sessions, Ingest, PreviewProxy

`Sessions`: `Login`, `Request`, `RequestLapsed`, `Logout`, the two statements of a
password change (`SetPassword`, `EndOthers`) with a crash possible between them,
`Handshake` and `SocketOpens` of a WebSocket, `StartHub` with the account's creation and the
sweep of lapsed rows, `ClockMoves`, and `Retune` of the idle time. A request that was resolved
before a change may go on after it.

`Ingest`: the loop of `_run` (connect, subscribe, dispatch, notice a cut, wait), with every
combination of topic family and fault of a message, and the counters.

`PreviewProxy`: `FromCache`, `StartFetch`, `GetFrame`, `EndFetch`, `FetchFails`
for viewers whose fetches overlap; on the device `PutFrame` and `ReplaceWorker`. A frame is the moment the
capture loop stored it; the camera may stall for any time, and the device goes on serving its last frame.

### RulesEditor and WebSession

`RulesEditor`: `Pick` a stream, the load (`ServeRules`, `RulesArrive`, `RulesFail`),
`DrawShape`, `Drag`, `Delete`, `Revert`, the save (`Save` with the checks before it,
`ServeSave`, `SaveEnds`, `SaveFails`), and `OthersSave`. A call that belongs to a
buried effect is ignored, one that does not is taken for the stream that is picked.

`WebSession`: `bootstrap` in its two calls, the effect of `App`, the latch of
`ensureWs`, `SignIn`, forced `ChangePassword`, `SignOut`, any call that gets a
401, the socket with its retries and the probe of the session, lapses, outages, reloads.

### EdgeDetector

`thread` is every `StreamWorker` ever made and where its thread stands: at the top of
its loop, opening, reading, publishing, ended. `workers` is `_workers`. The
commands `CmdAddStream` and `CmdRemoveStream` are cut where the other threads may come in:
registered, started, awaiting its first frame, refused, taken out. `Main` is
`Detector.run`: the heartbeat, a fatal failure seen, a signal, the stop of the
workers one by one, the goodbye, the disconnect, the end. `platform` chooses the
backend: which sources exist and what falls back to what. rknn and jetson differ
in names only; the passing run has jetson, the finding rknn.

### Engine, PreviewServer, Tracker, Vision, ReCamera

`Engine` is one model under several capture threads: taking the lock, filling the input
buffer, running, decoding, leaving, publishing, in the order each backend has. A buffer holds the
frame it was written for.

`PreviewServer` is a frame store per camera and the readers of it: an HTTP request,
the live page, `cmd/snapshot`. A frame is two halves, so that a torn copy shows. Cameras come
and go meanwhile.

`Tracker` is `IoUTracker.update` on integer boxes. `Vision` is the three head decoders with
every order and layout of their tensors, the cut, the suppression and both letterboxes.

`ReCamera` is the application from setup to exit: `GovernorLock` with a kernel that
refuses an inverted window, the benchmark, the replay's child, connect, frame loop,
close-down, `atexit`. The handlers are installed after the connect (`InstallHandlers`); a SIGTERM sets
the stop flag then (`StopSignal`), and before ends the process where it stands, without its exit hooks
(`Killed`, remembered in `cut`). SIGKILL, which no program can answer, is left out.

### NpuBench

`run_bench` of the reCamera, which takes the place of the frame loop to find out who keeps memory: the model is
built before the `try` (`OpenModel`, `AskTensors`, `BindTensor` for the calls of
`CtypesRknnModel.__init__`), then the head of the loop with its sample (`Deadline`,
`TakesSample`, `NoSampleDue`), one action per call into the library in the order of the mode (`CallsNative`,
`CallFails`), the count with the two reasons to stop (`Counts`), and the end (`Closes`, `FlushFails`, `WriteAgain`).
Memory is counted in sets of output tensors.

## 4. The runs

| run | question | bounds, and why they are enough |
|---|---|---|
| `alerts_clean` | with healthy publishes and writes, with retention: `NextIdFresh`, `PendingArmed`, `ParkedHasNoAlert`, `PendingSettles`, and that `AlertSpec` is implemented (`ImplementsPromise`) | a key of the hub alone and one the device's engine uses too, two numbers per key, two alerts, one restart: a number is reused only if a restart forgets it or another alert took it, and both happen; under the shared key an INSERT also hits the UNIQUE constraint (`FireConflict`) |
| `alerts_stuck` | finding, section 7: `PendingSettles` | no restart |
| `geometry_canvas` | finding: `CanvasMirrorsHub` | a 4 by 4 grid |
| `rules_expiry` | finding: `AbsenceEndsVisits` | one track in one zone, an expiry of one tick |
| `generation_will` | finding: `EntriesAreReal` | two sessions, two frames each |
| `control` | `OutcomeIsTrue`, `AppliedOnce`, `NoOrphanStreams`, `PersistedHolds`, `RosterFollows` | two commands over two streams and a default one, memory of one request, one repeated delivery, two detector sessions: a repeat can come before and after another command; an exception may come at every point where a change is already made |
| `control_frames` | finding: `FrameIdsIncrease` | one camera, two commands, two frames |
| `console` | `RingsOnce`, `NoneSlipsThrough`, `ShownIsReal`, `UndoneNeverSent`, `ConsoleSettles` | two alerts, one of them stored at first, three events in all (alerts, others' changes, dispositions), two connections, a catch-up limit of one row: two dispositions and the other operator on one alert, or a batch of two with a new alert, and catch-ups that overlap |
| `hub_services` | `MCHub`: `ConfirmedHolds`, `HistoryInStep`, `ImportIsWhole`; `BarredStayOut`, `SessionLife`; `HubIngestRecovers`; `CachedAgeIsHonest`; `ZoneVerdictsAreEarned`, `CrossingsAreEarned`; `GeometryIsRight`; `EditorIsHonest`; `SocketFollowsSession`; `EchoSafe` | store: two streams and the hub's scope, three PUTs, two versions kept, so that the third is pruned; one setting that is handed on and may be unparsable, and one that is read at a start; none overridden by the environment, none read at a start and unparsable (the theorem has both). Sessions: two tokens and passwords, four ticks over idle times of one and two. Ingest: three messages, three cuts. Preview: two viewers, four moments, a window shorter than a fetch's time-out, a camera that may stall. Rules: one track (tracks share only the watermark and the sweep), three messages at three instants: a side, a gap or an expiry, and a crossing; positions left, on and right of the lines and beyond the short one's end. Geometry: 3 by 3 grid, every orientation, slopes of both signs, level and vertical edges, points level with a corner. Editor: two streams, two picks, two edits, one save. Web: two loads, two sign-ins, one lapse, one outage. Alerts: a key of the hub and one of the device, two numbers each, publishes and writes fail, no crash |
| `detectors` | `MCDetectors`: `NothingLeftRunning`, `DecodeIsHonest`, `FatalSurfaces`; `EntriesAreReal`, `RegistryFollowsDevice`; `BoardIsAsFound`; `TracksHold`; `BoxesAreTrue`; `ResultsAreOwn`; `ServedWhole`; `BenchIsHonest` | processes: two cameras, two workers, so that one leaves while another comes. Generations: two sessions, two frames, three messages in flight: a status may be a generation late. Board: three clock steps, every window of them. Tracker: three boxes, two per frame, ages within and beyond the limit. Vision: three anchors on three grids, a frame of even, one of odd and one of upright size, scores below, at and above the threshold. Engine: two threads, two frames each. Preview server: two cameras, two frames, one viewer besides the snapshot. Bench: five iterations with memory for four sets of outputs, of which three must stay free: the headroom is reached in the middle |
| `edge_refusal` | finding: `RefusalIsHarmless` | two cameras, two workers, rknn |
| `signed_in_again` | finding: `SignedInIsConnected` | one load, one sign-in after a sign-out, nothing goes wrong |

What the bounds stop is named in the modules (`Max...`). `CHECK_DEADLOCK FALSE`
is set where bounded counters, or processes that end, let a run stop (`control`,
`control_frames`, `console`, `hub_services`, `detectors`, `edge_refusal`,
`signed_in_again`); in the others every state has a successor, and TLC checks it.

Type invariants (`...TypeOK`) are part of the inductive invariants where a module
has proofs, or theorems of their own (`TypeCorrect`, `TypesHold`, `ChainsAreWhole`,
`WatermarksAreOwn`). Most are left out of the runs, which are kept for what could be
wrong; they hold on the instances above when named in the cfg. Those of ConfigStore,
Ingest and ReCamera (`StoreTypeOK`, `IngestTypeOK`, `CameraTypeOK`) are not proved; the
proofs about these modules have the types they need in their own invariants.

The properties that are not obvious:

* `PendingArmed`: between restarts, and outside the row `fire()` is working on, a
  row is `pending` exactly if its timer is armed. Attach, expiry, re-arm and the end
  of `fire()` each change both, at different awaits.
* `EchoSafe`: the hub hears its own republished events. They are recognised by
  the origin mark, or, when a bridge has dropped it, by the event id in the table;
  the second test only works because the INSERT comes first and ids are fresh.
* `EntriesAreReal`: a session announced by frames is announced again by a status one
  heartbeat later; the second must not reset what the first established.
* `OutcomeIsTrue`: 200 means the change is in force, and a 409 with the reason of a refusal that nothing
  happened, though an ack may come after its time-out or twice. A 409 with the text of an exception
  claims nothing, see the observations, nor does a 504, and
  `RosterFollows` says that the registry learns what it did from the status.
* `PersistedHolds`: an acked persisted change is what the next start finds, even if
  a later write-back of another stream's change failed or rewrote the list.
  Removing the default stream of a config that lists no other is left out, see
  the observations.
* `NoneSlipsThrough`: an alert that is not shown is on its way, or was forfeited by a
  call that failed, was cut at its limit, was not made because the list was
  empty, or was overwritten by a page load. It is the safety half of
  `ConsoleSettles`; the list of exceptions is what FRONTEND_SPEC section 7
  does not mention.
* `ShownIsReal`: a state on the screen is one the row had at the hub, or a guess
  whose call is still queued or under way.
* `ConfirmedHolds`: what a caller was told is saved is at the same time in the tables, in
  `config.json` and in `Hub.config`, and a setting that is handed on in the component that uses it, although
  they are written one after the other and each may fail. The other settings are used from the next start on, and
  nothing is claimed of when they take effect; the mirror, which is rebuilt at a start, is never ahead of the tables.
* `NothingLeftRunning`: commands take a worker out of the registry before they
  stop it, or after; the main thread stops those it finds; an add starts its worker, which
  clears the very event a stop has set. A thread nobody has in a registry
  must have been told to stop all the same.
* `ResultsAreOwn`: `last_inference_ms` and the pinned buffers belong to the model, not
  to the caller, and are read inside the lock on some backends and copied out on others.
* `CachedAgeIsHonest`: fetches overlap and end in any order, so an older frame may replace a newer one in the
  cache; the stamp must still be a true bound. It bounds what the cache adds, not the age of the
  device's own frame, which has no limit when a camera stalls.
* `RegistryFollowsDevice`: the last word about a device is retained, and is written by its heartbeat, by its
  goodbye, by the MQTT thread and by the broker. The one way in which it stays wrong, a word of the MQTT thread between
  the goodbye and the disconnect, is excepted by name (`overtaken`), see the observations.
* `BoardIsAsFound`: setup, benchmark, connect and loop each may fail or be stopped while the governor is pinned; the way
  back is a `finally`, an exit hook or neither, and two writes the kernel may refuse in one order.
* `EditorIsHonest`: "clean" and "saved" are claims about the hub, made from answers that may
  be about the stream that was picked before.

* `BenchIsHonest`: an iteration is several native calls, any of which may raise, and only
  the mode `leak` may leave outputs unreleased; others may take memory at the same time. The native model
  is built outside the `try`, and a last flush that raises skips the release: the property is about
  results that are returned.

## 5. Fairness

* Hub: asyncio runs every task that is ready. So the stretches of `fire()`, a timer
  that is due, the delivery of a queued message, `wait_for`'s time-out, and
  start-up once the process has been restarted (compose restarts it) are weakly fair.
  Of the ingest loop: a connection attempt that can succeed, the subscription, the notice of a
  cut, the dispatch and the end of a handler; cuts are bounded, refused attempts too.
* Detector: of `DeviceGeneration` the heartbeat is sent at an interval, a process that has said goodbye disconnects, and the broker publishes the will
  of a connection that is gone. In `ControlPlane` the MQTT thread handles what comes and an add waits
  `OPEN_TIMEOUT_S` at most. In `EdgeDetector` only the MQTT thread and the main
  thread are fair, as joins and waits have time-outs; nothing is asked of the capture threads, which may
  hang in a read of a camera for ever.
* Browser: its event loop runs callbacks, timers fire, a call ends with an answer or an
  error, the socket is opened again after its backoff. In `Console` the last connection of a
  run is not cut: liveness speaks of what happens once connections hold; one
  weak fairness for all these steps is enough, as none can recur for ever. In `WebSession`
  a retry can recur for ever, so each kind of step has its own.
* Nothing is assumed of cameras, people in front of them, operators, crashes
  or losses.

In `MCHub` and `MCDetectors` each fair action is conjoined with its `part`, so that it
asks nothing of behaviours about another part.

## 6. What is proved

TLAPS proves the following for every value of the constants that satisfies the named
`...Assumption` of the module; further assumptions are given. In each case the property itself
is not inductive, and the invariant says what is missing.

| theorem | property | further assumptions | inductive invariant, and why it is needed |
|---|---|---|---|
| `TypeCorrect` | `TypeOK` of AlertLifecycle | | `TypeInv`: `fire()` works on a stored row, and no row lies above `lastId` |
| `NextIdsAreFresh` | `NextIdFresh` | no retention | `Kept`, `SeqAhead`: the counter in memory is never below a stored number of its key, and after a restart, when it is gone, it is read from the table. The property leaves out keys the device's engine uses too, of which it can take the next number. The assumption is needed: a purge followed by a restart hands numbers out again, and the late, unmarked echo of a purged alert, taken for an event of the device, may have come back with one. That takes three alerts, so the instance, which has two and retention, does not show it |
| `EchoNeverFlips` | `EchoSafe` | no retention | `Kept`: what was echoed was stored, so it is recognised |
| `WaitingIsArmed` | `PendingArmed` | publishes and writes succeed | `WaitInv`: while `fire()` has a row in hand the row waits without a timer, and no timer is armed for an id not yet handed out. A publish that raises breaks it: that is the finding `alerts_stuck` |
| `ParkedIsFound` | `ParkedHasNoAlert` | publishes succeed | `ParkedInv`: snapshots are asked for and parked for events of cameras only, never for a simulated alert, which nobody looks up |
| `PersistedIsFound` | `PersistedHolds` | no command is about the default camera | `ControlInv`: file and registry agree on each stream's last persisted change, except for the one that is being added; messages in flight are of requests that were sent |
| `SavedIsSaved` | `ConfirmedHolds` | | `StoreInv`: the transaction's tables are never behind the committed ones, the PUT in hand has written what is no longer to do, and the newest row of the hub's scope, which is its current value, survives the pruning; an answer of 200 is only given when every handed value parses, so the components have what `Hub.config` has |
| `BarredForGood`, `SessionsEndAsTold` | `BarredStayOut`, `SessionLife` | | `SessionInv`: only tokens handed out have a row, and a barred one has been handed out, so it is not issued again |
| `PromiseIsKept` | `ImplementsPromise`: refinement of `AlertSpec` | | `TypeInv`: every step of every task, purge and restart, seen through the columns of the table, is a step of the promise or a stutter |
| `CallersAreToldTheTruth`, `NoneAppliedTwice`, `RefusedLeaveNothing` | `OutcomeIsTrue`, `AppliedOnce`, `NoOrphanStreams` | `RetryWindow <= SeenLimit` (in `ControlAssumption`) | `VerdictInv`: in the queue, repeats are of recent commands and stand before the fresh ones; the memory holds the verdicts of exactly the latest decided commands, in order; every verdict remembered or on its way is true, and a refusal stays true because what is decided is never applied later, a verdict of an exception included. The assumption is needed: the memory is bounded (`control.py:145`), and a repeat of a command that has aged out is applied again |
| `RingsOnceHolds`, `NoAlertIsLost`, `NoGuessStays`, `UndoneStaysUndone` | `RingsOnce`, `NoneSlipsThrough`, `ShownIsReal`, `UndoneNeverSent` | | `Inv` of Console. An alert is `Settled` when it is shown, forfeited, or what a call under way will bring or forfeit, and stays so. All alerts up to the last id of the page, and up to the start of each catch-up, are settled; pushes of new alerts come in the order of their ids (`CastsInOrder`, `WireInOrder`), answers have no gap (`GapFree`): so the last id, from which the next catch-up asks, never passes an alert that is lost. `Honest`: what is shown, and what an undo would put back (`Restorable`), the row has had or this browser has asked for |
| `HistoryIsComplete`, `ImportsAreWhole` | `HistoryInStep`, `ImportIsWhole` | | `HistoryInv`: both the committed tables and the open transaction have, per scope, the last `Keep` revisions, each once, ending in the current value; an insert with its pruning keeps that for its scope and leaves the others alone |
| `PageIsHonest` | `EditorIsHonest` | | `EditorInv`: shapes in the page, in an answer or in a save are of the stream they are labelled with, unless that stream was saved while another was shown; what the page takes for persisted the hub has had; an answer that is not buried is for the stream that is picked |
| `ZonesAreJudged`, `CrossingsAreJudged` | `ZoneVerdictsAreEarned`, `CrossingsAreEarned` | | `RuleInv`: what the engine remembers of a track stands for what it has observed of it since its birth: `zone_entered_at` for the first instant of the visit that is under way, `line_side` and `line_anchor` for the newest observation off the line in the chain; and it remembers nothing once a later message has swept the track or the generation has been reset; for a track that is not `Overlooked`, its birth by the sweeps is its appearance by HUB_SPEC's absences (`BornAt`, `AppearedAt`). The lemmas (`ZoneJudged` and its like for lines) say that one more observation keeps that up |
| `GeometryDecides` | `GeometryIsRight` | | no induction on the points: `CanvasEdgeSide` and `HubEdges` say on which side of an edge a point that hits it lies, `CrossesBalance` that the three areas balance at the heights of the corners, `OddOfFour` what a parity of up to four hits means; the rest is a case split on signs. It is also the limit of the claim: `HubEdges` holds of level and upright edges only, and for slanted ones the hub is wrong (`geometry_canvas`) |
| `ChainsAreWhole` | `TypeOK` of RuleEngine (in no run) | | itself: `EvaluatedTyped` says that an evaluation writes side and anchor together, with the chain's instant that of the track. A centroid is a pair of numbers (`EngineAssumption`), so no anchor is taken for none |
| `WatermarksAreOwn` | `TypeOK` of DeviceGeneration (in no run) | | `GenTypeInv`: what is on its way, and what is retained, was `Sent`: of a session that has started, and a frame not ahead of those its process has published. Late wills are allowed here |
| `NoEntryTwice` | `EntriesAreReal` | no will comes late | `GenInv`: sessions rise along the queue to the hub and none in it is behind the engine's, so when the engine has left the session in which a track stood, no message of that session will come. A late will breaks it: that is the finding `generation_will` |
| `FramesAreWhole` | `ServedWhole` | | `ServerInv`: a store has two equal halves except while the reCamera's loop holds its lock; a request that has found a worker finds frames not before it was made; a refusal was once due. All steps of readers go through one lemma, `ReaderKeeps` |
| `CurvesAreTold` | `BenchIsHonest` | | `BenchInv`: what is unreleased is what the mode means plus what the iteration has in hand, by the next call; before an iteration fetches, the last one has left the headroom |
| `CountersAccount` | `CountsAddUp` (in no run) | | `CountInv`: while a handler runs, its message has been counted and its error not yet |
| `AgeIsHonest` | `CachedAgeIsHonest` | | `PreviewInv`: the entry is stamped with the beginning of its fetch, and its frame is at least the one the device held then, as what the device holds only grows newer or is gone |
| `NoWorkerIsLost` | `NothingLeftRunning` | | `EdgeInv`: the worker of an add is in the registry from its start to its refusal, and is told to stop before it leaves it |
| `DecodeIsTold` | `DecodeIsHonest` | | `EdgeInv` with `HonestThreads`: `decode` was resolved from the source the thread has, also after a reopen that fell back |
| `OwnResults` | `ResultsAreOwn` | | `EngineInv`: the lock is held by exactly the thread that is inside, so between filling and decoding the buffers carry its frame |
| `BoardIsGivenBack` | `BoardIsAsFound` | | `CameraInv`: the process is gone only with its lock restored or cut short, and while a lock is registered and not restored the policy is the one found or what `set_governor` made of it. Its lemma `PutBackUndoes` shows that the order in which `restore` writes the two ends of the window is never refused by the kernel, whichever side the pin was on |
| `IdsAreKept` | `TracksHold` | | `TrackerInv`: ids of live tracks lie below the next one. What update's loop picks is `Picked`, see below; that it is a matching, that new ids are new and that no good overlap is passed over follow from it |
| `BoxesAreWhereSeen` | `BoxesAreTrue` | | none beyond itself, as a frame is decoded from nothing: the work is in the lemmas. `ZooPairsAre`, `SplitPairsAre`: every branch is read at its own grid, in every layout and order; `PassingIsConfident`: the byte threshold drops nothing that reaches the exact one; `SuppressedPicks`; `FrameNormIsNear`, `FrameNormKeeps`: the inverse of either letterbox against what the frame covers of the canvas |

The invariants were checked with TLC on the instances of the runs before they were proved.

The tracker and the suppression both choose greedily: they take the best, drop what clashes with it,
and go on with the rest. The recursion runs over the subsets of a finite set, and a statement
about its result needs an induction over them. The library's induction theorems take an operator as
a parameter, which the installed provers cannot instantiate; so the induction is done by the least
counterexample instead: inclusion is well-founded on finite subsets, hence a non-empty set of
subsets has a member with none below it (`SmallestSubset`). From it follow, for any total order `R` and any clashes `K`
given as sets of pairs, that a best one exists (`BestIs`), that there is exactly one set in which each is picked
unless a better picked one clashes with it (`SomePicked`, `PickedOnce`), that the recursion has a
solution (`GreedyIsDefined`) and that any solution computes that set (`GreedyPicks`).

What `BoxesAreTrue` says of small boxes came out of its proof. The letterbox with one scale for both axes
may cut off a box of which the frame covers up to half a model pixel, when rounding has made the picture on the
canvas larger than the scale says (a source of 128 by 3 in a side of 64); the property therefore asks for more
than that half pixel there, and for anything at all where each axis has its scale.

Only model-checked:

* liveness (`PendingSettles`, `RosterFollows`, `ConsoleSettles`, `FatalSurfaces`,
  `RegistryFollowsDevice`, `HubIngestRecovers`, `SocketFollowsSession`): liveness under fairness
  and `ENABLED` are beyond the proof system.

Every other property of a passing run is proved.

No module that is proved about has a RECURSIVE operator.

## 7. Findings

Each is a run that ends in a counterexample.

* `alerts_stuck`: `fire()` arms the snapshot timer after its two publishes
  (`alert_manager.py:187-188`). If one raises, the row stays `pending` until the
  hub restarts; HUB_SPEC:174 says 60 seconds.
* `geometry_canvas`: `max((yj - yi), 1e-9)` in `geometry.py:30` makes the divisor
  1e-9 for every falling edge, so containment depends on the winding of a polygon
  that is not a rectangle; the canvas (`coords.js:85`) says it mirrors it.
* `rules_expiry`: `on_detections` moves a track's `last_seen` on (`engine.py:131`) before it sweeps (`:159`), so a track
  that is in the first message after an absence of any length goes on with its old visit: no `zone_enter`, and the dwell
  counts the absence. HUB_SPEC:90 says the state is cleared.
* `generation_will`: the client id contains the session, so a dead process's will can come
  after its successor's first messages; the registry takes it for a session
  change and the running generation is reset, which `app.py:130` rules out.
* `control_frames`: a camera removed and added again within a session counts its frames
  from the start, below the hub's watermark; contracts/MQTT.md:247 says ids are monotonic.
* `edge_refusal`: a refused add stays in the registry until its join ends
  (`supervisor.py:190`); if its failure is fatal and the main loop looks meanwhile, the whole detector
  goes down with its other cameras, where contracts/MQTT.md:157 asks for an `ok: false`.
* `signed_in_again`: `ensureWs` has a latch that is never reset (`main.js:36`), so after a sign-out or a 401
  and a sign-in without a reload no socket is opened; FRONTEND_SPEC:136 says that the WebSocket pushes what is new.

### Observations without a run

Hub:

* After retention has purged a key's newest row and the hub has restarted, the key's
  numbers are handed out again (`storage.py:345`).
* Cooldowns of an old session survive when its successor's frames come before its status
  (`app.py:141`, `alert_manager.py:88`).
* `segments_intersect` takes a touch for a crossing at one end of a segment and not at
  the other (`geometry.py:43`).
* An alert fired by the simulate button runs beside the ingest task; its push may
  overtake a smaller id, which a cut connection then skips.
* A PUT of a setting whose value is stored and then cannot be parsed prevents the next start of the hub
  (`ConfigStore`, `at = "dead"`). If the setting is handed on, the caller gets a 400 although the body is stored, as does the
  caller of any later PUT; if it is read at a start only (`mqtt_port`, `max_snapshot_bytes`), a 200.
* `max_snapshot_bytes` (`app.py:116`) takes effect at the next start but is not among `RESTART_REQUIRED`
  (`config.py:85`); `track_expiry_s` and `line_chain_gap_ms` of the hub's settings are never read
  (`engine.py:120` takes them from the rules body).
* A camera that stalls is shown with its last frame for ever, whose `X-Preview-Age-Ms` starts at 0 with each fetch.
* SQLite runs with `synchronous=NORMAL`: a power cut, as against a crash of the process,
  may lose the last transactions. Power cuts are not modelled.

Control plane and detectors:

* After the last camera is removed, the empty `streams` list is falsy and is taken
  for the single-stream form, whose keys have defaults
  (`config_streams.py:27`, `esk_generic/config.py:91`): the next start attaches the
  default camera although the ack said persisted.
* An add whose source does not open is refused after eight seconds
  (`esk_core/streams.py:44`), when the hub has given up after its eight (`control.py:36`).
* A command redelivered after it has aged out of the memory of request ids is applied again (excluded in
  `ControlPlane` by `RetryWindow <= SeenLimit`: a broker repeats what was not acknowledged yet).
* A connect or a command that ends between the goodbye and the disconnect leaves a retained
  `online: true` (`detector.py:376`), which contracts/MQTT.md:208 rules out; `DeviceGeneration` reaches it with
  `CommandEnds` or `Reconnect` between `BeginExit` and `EndExit` (the exception of `RegistryFollowsDevice`), `EdgeDetector`
  with `OnConnect` or `SayDone` between `SayGoodbye` and `Disconnect`.
* A command whose change is in force is acked `ok: false` when what follows raises, a write-back with an error that is
  not one of I/O or value, or the status (`esk_core/control.py:102`, `supervisor.py:170`); an add whose worker was registered
  before the exception stays and runs. `ControlPlane` reaches both (`FaultOf`).
* `StreamWorker.start` clears the stop event: an add under way while `run` stops the workers revives its own.
* A heartbeat of the main thread that was composed before a command and sent after it leaves a
  stale stream list in the retained status until the next one.
* An exception in building or publishing a payload ends a worker silently with `fatal` unset.
* `model.close()` may run while a thread whose join timed out is still in `detect`.
* `OPENCV_FFMPEG_CAPTURE_OPTIONS` is set in the process's environment for each open, which two threads may do at once.
* The Hailo detector sets an attribute `decode_path` (`esk_hailo/detector.py:72`) that shadows the method it calls for every
  status and frame (`:197`, `:213`), which ends the thread that calls it (modelled as `HealthRaises`); and its preview handler
  is given `store` and `stream_id` (`esk_hailo/preview.py:190`) but reads others, so that every GET raises (`HandlerRaises`).
* The rknn, jetson and hailo preview modules have a `FrameStore` of their own that nothing uses; the live page
  waits for an image without a time-out.
* Of the memory bench, a native model whose `__init__` raises after `rknn_init` is released by nobody
  (`ctypes_infer.py:286`), and neither is one whose last flush raises (`bench_infer.py:303`); the second
  writing of the report is not atomic as the first is (`app.py:664`).
* The letterbox of generic and hailo has one scale for both axes, so boxes are off by the rounding of the
  resized size on one of them; suppression comes before the clipping to the frame.
* reCamera: its first status is published before the frame loop has set the decode path, with a value (`unknown`)
  the schema does not admit (`app.py:299`); a SIGTERM before the handlers are installed (`app.py:680`), in the
  setup, the connect or the whole of the bench mode, leaves the governor pinned, which `cpufreq.py:20` and `:155` rule
  out; `ReCamera` reaches it (`Killed`).

Workbench:

* `GET /api/alerts/{id}`, ack and dismiss answer `{"alert": ...}` (`http_api.py:241`, `:292`),
  and the browser takes the answer for the row (`ws.js:114`, `:147`, `undo.js:26`, `:45`; the
  mock server answers with the bare row). The refresh of rows without a snapshot
  (FRONTEND_SPEC:258) changes no alert, and inserts a row without an id.
* A failed catch-up is left to "the next reconnect" (`ws.js:141`), which starts after
  the newest id shown: once a live alert has come, the gap is never asked for.
  With an empty list none is asked for at all (`ws.js:130`), and 500 rows is a limit.
* `setAlerts` (`store.js:65`) drops what was pushed since the answer was computed; such
  an alert may come back and ring again.
* An undo, or a failure, puts back the state of the moment of staging, over another
  operator's change that arrived since (`undo.js:87`, `:49`); after a failure the state put
  back may be an earlier guess that failed too. Rows carry no version, so an older
  broadcast may overwrite a newer one (`store.js:78`).
* Rules editor: Save is enabled while the picked stream's rules load or after their load failed, and then writes the other
  stream's shapes; a save that ends after a pick marks the newly picked stream as saved; after a failed first load
  edits show as clean (FRONTEND_SPEC:201); a pick drops edits without a question. `EditorIsHonest` makes these exceptions by name.
* `bootstrap` goes on to `ensureWs` after a 401 of `GET /devices`; a sign-out during an outage leaves the cookie valid;
  a late 401 of a former session signs the new one out.
* The video wall polls its overlays every 500 ms whether or not the last poll has ended, so answers may be applied out of order.

## 8. What is not modelled

* Pixels, the softmax over the distance bins, bcrypt and cookies: taken as given by the
  operators around them. The vendor runtimes, building and closing an engine.
* Rules schema and clock and settings merge: pure functions over documents. Export, audit, live
  views, static files: reads.
* The devices and video wall pages: polled views whose content the next answer replaces as a whole.
* Fixtures, evidence and measurement tools: no part of the running system. A report that an earlier run of the memory
  bench left in the same place.
* reCamera parameter changes, trace and evidence files. A power cut of the hub's disk.
* Of a rule edited under the same id, that it keeps the state of its old geometry (`state.py:34`): no document
  says what should happen.

`PROJECT.json` lists each part with its reason, and the hazards no property covers.
