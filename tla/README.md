# Verification of the DSLR daemon

TLA+ models of the program in this repository, TLC configurations that check
them on small instances, and TLAPS proofs of what holds for every instance.
The program is a daemon on a Raspberry Pi that offers a DSLR camera to ROS 2
over Zenoh: a `SetBool` service call starts a capture, the frame goes out as a
Zenoh blob and as a native ROS 2 image, and a small ROS 2 parameter server
(`pico-ros-py`, a library in this repository) holds the camera's exposure
settings. Paths below are relative to `src/`; `pi_runtime/…` stands for
`pi_runtime/zenoh_dslr_pi_runtime/`.

To check: `tlc -config <run>.cfg <MC module>` for each run of `PROJECT.json`,
and `tlapm <module>Proofs.tla` for each proof module.

## 1. Inventory

| part | state it keeps | operations | who else touches it |
|---|---|---|---|
| capture service (`pi_runtime/runtime.py`) | capture lock, capture count, stop event, service holder | `run`, `stop`, `on_request`, `do_capture` | one service thread per call, one daemon thread per capture, the main thread; the heartbeat reads the count |
| image publisher (`ros2_image_publisher.py`) | the lazily built SDK publisher | `publish`, `close` | capture threads publish, the main thread closes; no lock of its own |
| broadcasters (`heartbeat.py`, `ros2_core_temp_publisher.py`) | client, thread, stop event, liveliness token | `start`, `_loop`, `publish`, `stop`, `close` | main thread and broadcaster thread; the MQTT library's own thread connects |
| rolling buffer (`persistence.py`) | a directory that outlives the process | `persist`, `_prune` | whoever else deletes files; the wall clock orders them |
| exposure settings (`exposure_params.py`) | backend, node, server | `start`, `current`, `stop` | capture threads read, parameter handlers write, the main thread starts and stops |
| capture backends (`capture_backends.py`) | none in the process; gphoto2's settings stay in the camera | `capture` | the capture thread |
| parameter server (`pico_ros_py/picoparams.py`) | parameters, services, event publisher | `start`, `stop`, six handlers | one thread per request |
| node identity (`pico_ros_py/picoros.py`) | the SDK session's id allocator, `_IDENTITY_LOCK` | `Node(...)`, four factories, `close` | every thread that declares an endpoint, also those that use the SDK directly |
| message conversion (`_rcl.py`, `picoserdes.py`) | none | pure conversions | |
| settings (`models.py`) | none after boot; every name, id, topic and key of a daemon comes from its file and its host's name | `from_file` and its helpers | all other parts use the names; two daemons share a router, a broker and a ROS graph |
| session override, QoS (`zenoh_native_session.py`, `qos_profile.py`) | `ZENOH_CONFIG_OVERRIDE` in the process's environment | rewritten by `main` and again by `run` | the user, who may have set it; the SDK, which applies it when a native session opens |
| gateway (`ros2_gateway/…`) | relay: subscriber, session and two image publishers; client: one future | relay a frame, `destroy_node`; call the service with two timeouts | the relay's callback runs beside its main thread; deprecated in favour of the native image |
| mothership | the retained pgwaam pulse at the broker | reads `ts` | not in this repository: what `heartbeat.py:92-94` says it does |
| CI verifier, live validator, examples, spikes, deployment | | | around the system |

**What makes each part correct.** The capture service: one capture at a time, a lock
that always comes back unless the camera hangs, a count equal to the frames put, every
call answered at once, a stop that does not wait for the camera. The image publisher
and the broadcasters: never two clients, none lost, nothing left after stop, no
failure that ends a capture or a loop. The buffer: under its cap after each capture,
oldest first, no more than needed. The parameter server: only legal values, and
subscribers of `/parameter_events` who know what is stored. Node identity: one id per
node, the allocator always put back. Exposure: a frame shot with the settings the
parameters had, and metadata that says so. The parameter services: no endpoint lost by
a start or a close that fails, an answer to whoever asks while the server serves.
Settings: names that ROS 2 takes and that tell the daemons of a fleet apart. The
whole: a client whose verdict can be relied on, each frame shown once on the right
topic, and a pulse by whose age the mothership tells the living from the dead.

**What makes them hard.** Threads without locks of their own that rely on the
capture lock or on an order of events; a lock taken by one thread and released
by another; a lazy client built, stored and closed in separate steps; a join
with a timeout; a process killed between two steps with state left on the disk
and in the camera; events published after and apart from the store they
describe; a monkey-patched allocator shared by everything in the process; answers
found by position in a list that start and stop change; a retained message that
outlives its sender; names that several parties derive on their own.
`PROJECT.json` lists each such hazard at its line with the properties that bear
on it, or the reason why none does.

## 2. Modules

| module | models | its steps |
|---|---|---|
| `CaptureContract` | what a client may rely on, as an abstract specification | a call is dropped, refused or accepted; an accepted one hangs, fails or delivers exactly one frame, and settles; one at a time |
| `CaptureService` | `runtime.py`, `ros2_image_publisher.py`, `cli.py` | `OnRequest TryLock Spawn Reply` of a service thread; `Shoot Put ReadCount WriteCount EnsurePublisher Build StorePublisher PublishImage Release` of a capture thread, each with its failure; `DeclareService … CloseImage ForgetImage CloseService CloseSession Exit` of the main thread, each with its failure; `Stop`, `Kill` |
| `ParameterServer` | `picoparams.py` | `Receive`, then one `Set`, `Refuse` or `Unreadable` per parameter, `Applied`, `Emit` or `EmitFails`, `Reply`; `StopServices`, `StopEvents` |
| `ExposureCapture` | `exposure_params.py`, the job's use of it, `GPhoto2CaptureBackend` | `ParameterServer`'s steps composed with `StartReturns Begin ReadParam SetConfig Shoot CaptureFails Restart` |
| `PersistenceBuffer` | `persistence.py` | `Open WriteSome Write Scan Prune Return`, each with its failure; `Delete` by others; `Kill`, `Restart` |
| `NodeIdentity` | `picoros.py` | `CreateNode`; `Acquire Pin Build Restore Release` of an endpoint; `BuildForeign` of the SDK's |
| `PulseBroadcaster` | the three broadcasters, told apart by `kind` | `Found/Missing Build Store Send` of publish; `Top Wake Begin Pulsed` of the loop; `Start … Stop Joined/JoinTimeout CloseClient/CloseClientFails Forget` of the main thread; `Connect`, `Disconnect` |
| `ParameterServices` | the life of a `ParameterServer`, `Node.close`, the reading requests | `Start BuildService RepairFails StoreService CreateEvents`, `Stop CloseService ClearServices CloseEvents`, `CloseNode CloseEntity ClearEntities`, each with its failure; `Receive`, `Reply`, `Raise` of a handler |
| `Settings` | `models.py`, `zenoh_native_session.py` | pure operators: `Slug Ros2SafeName DefaultDeviceId FromFile ForceNativeClientMode` |
| `CaptureSystem` | daemons, clients and the relay end to end, over `Settings` | `Boot Run Crash` of a daemon; `Accept Refuse` and `Fail Hang Deliver Finish` of its service and jobs; `Call WaitTimesOut CallTimesOut TakeAnswer` of a client; `OnFrame PublishRaw Destroy` of the relay |
| `OnlinePulse` | the pgwaam pulse in time | `Start BuildClient Send Wake Stop Exit` of the daemon; `Connect Disconnect BrokerRestarts`; `Tick` |

`CaptureSystem` composes what the others detail: the capture service of a daemon
takes there the steps of `CaptureContract`, by its definition; that the code takes no
others is what `CaptureService` is shown to do (`ImplementsContract`). `ExposureCapture` composes the capture job with
`ParameterServer`. `OnlinePulse` is one of the three broadcasters of
`PulseBroadcaster` seen from outside: its threads' races are left to the latter.

`MC…` modules give the constants their values for TLC and `…Proofs` modules hold
the theorems. A definition called "mutant" in its comment is a plausible bug in
the definition it stands before; it is used only to see that a property can
fail. `PROJECT.json` maps each definition to the lines it models.

**How a step is cut.** A step of a model ends where another thread can see or
disturb the next one: at a lock, at a read or write of shared state, at a call
that leaves the process. Local computation, logging and wording are folded into
the step they belong to. What is passed over: payload bytes, JSON and images. A text
is a sequence of words and separators in `Settings` and a model value elsewhere; an
encoding is one where a frame is labelled with it.

**What the code swallows.** Several calls that end something may raise, and the code
goes on as if they had not: the image publisher's close, the broadcasters' closes and
the undeclaring of the token, the closes of endpoints. Each is a step with its failure
in the models. What is then open, and known to nobody, is kept in a history variable
(`leaked`, `lost`, a token `"lost"`), and the properties name it as their exception.

**Environment.** Modelled from how `src/` uses it: the Zenoh session (a put
works, raises, and always raises once closed), the SDK's endpoints (a
constructor draws one id and works or raises), the MQTT client (connects in the
background, drops a QoS 0 message while it has no connection), gphoto2 (works
through its arguments from left to right, stops at the first it refuses, keeps
what it has set, may never return), the disk, the wall clock, and a supervisor
that restarts the process (`deploy/pi/zenoh-dslr-runtime.service:14-15`).

## 3. What the runs check

Counts are TLC's distinct states. The runs list the properties that say something of
the behaviour. That a module's variables keep their types (`TypeOK`, `JobTypeOK`) and
that its inductive invariant is one (`IInv`, `JobIInv`) TLC checked in these
same runs before it was proved; now each is a theorem (section 4). `CaptureSystem`
keeps its `TypeOK` in its run, for its variables are many and set in many places.

**CaptureSafety** (36 000). Three calls and every failure. `LockHeldByItsJob`: the lock is held exactly while one call
that took it has not given it back, and no two calls are served at once. `CountExact`:
the counter is the number of frames put by jobs that are past it, although it is read
and written in two steps. `NoPublisherLost`: an open SDK publisher is the stored one
or about to be stored, though it is built by capture threads and closed by the main
thread without a lock. Two failures do lose one, and only they: a close that raises, and
message classes that do not load after it was built (`leaked`). Three calls are enough for one served, one refused and one that
comes after the release.

**CaptureLiveness** (10 000). Two calls, threads scheduled fairly.
`EveryCallAnswered`, `StopCompletes`, and `ImplementsContract`: with `phase` and
`frames` computed from the threads' places and the counter, the service implements
`CaptureContract!Spec`, its liveness included. That a call is refused only while
another one is served, and that whatever fails in a job gives the camera back unless it
hangs, is part of the contract: `Refuse` has the one as its guard, the fairness of
`Settle` brings the other.

The run leaves out a `Thread.start` that raises (see section 5).

**Params** (35 000). Two requests of both kinds from six lists: accepted and refused
values in both orders, one name twice, an undeclared name, a type that does not fit, a
dynamically typed parameter with a range, a read-only one, a value that cannot be read
after one that is set; a stop at any time. `StoreLegal`, `MirrorAgrees` (subscribers
agree with the store on every parameter no two requests were writing at once and whose
events were sent), `EveryRequestAnswered` (every request whose values can be read: an
unknown type tag raises out of the handler with the earlier values set and no event,
`picoparams.py:487`).

**ParamsAtomic**, a violation. `_handle_set_atomic` validates the names only and
keeps what it has set when a later value is refused (`picoparams.py:454, 467`). In the
trace `iso` goes from `auto` to `s1` by a request that is answered with a failure.

**Buffer** (579 000). A cap of two bytes and four captures of one, two and three: below
it, at it and beyond it; writes that leave any part of a file behind, deletions by
others and kills between any two steps.
`CapRespected`, `SurvivorsAreNewest`, `KeepsWhatFits`, `PersistEnds`; together they
say that a frame that fits is there when its path is returned, where nobody else
deletes. Four captures let two files fill the cap and partial or empty ones stand
between them when one more comes in, too big or just fitting. The clock moves forward, as it must for "oldest" to be
the file written first.

**Identity** (3 300). Two nodes, three endpoints of theirs, one the SDK builds
alone, each on a thread; constructors may raise. `EndpointsShareNodeId`,
`AllocatorRestored`, `DistinctUnlessRaced` (ids drawn while nothing is pinned are
nobody else's), `EveryBuildEnds`.

**IdentityRaced**, a violation. `Node.__init__` draws its id without the lock
(`picoros.py:111`), so that a node created while another node's endpoint is
built gets that node's id, against the comment on the lock (`picoros.py:19`).

**Pulse** (960). Each of the three broadcasters. `OneClient`: one client at a time and
none lost, but for one whose close raised. `StoppedIsSilent`: stop leaves no token held,
and unless the join timed out no thread and no other client. `NoPulseStartsAfterStop`:
after the stop event one pulse may still begin, for which the loop had already looked
at it, and no second one. `StopCompletes` even if the thread never moves
again, and, for a thread that runs, `PulsesKeepArriving`. No
bound is needed: at most two clients can be built, the second by a pulse that
outlasts the join.

**Exposure** (1.9 million). Two settings, two requests that set both in either
order, texts the camera takes and one it refuses, a blank and an integer;
captures that fail at every point, restarts that reset the parameters and not
the camera. `SetsHonoured`: each setting of a frame is one its own parameter had
while the job read, or the camera's own if it was empty. `MetadataTruthful`:
what the metadata reports is what the camera was set to.

**Services** (183 000). Three of the six services (one that lists, one that looks up,
one that sets), two calls of `start` that may fail at any service, before its endpoint is there or
after, when its types are repaired; stops and
`Node.close` between and after them, an endpoint whose close may raise, and a request
that may come as soon as its endpoint is built and end at any later moment.
`NothingLost`: an open endpoint is always in both lists that close, but for the one
between its construction and its `append`, those whose close raised, and those whose
repair did (`leaked`). `ServingAnswers`: a handler that ends while
the server serves answers in its own service's class. `RequestsAnswered`: and it
does end, if the server goes on serving. `ListExact`: a list request tells every name
under its prefixes, and every namespace, once, over declared names one of which is a
prefix of another only as text. Three services are enough for a first, a
middle and a last position in the zip; two starts are enough for a failed one and one
that repeats it.

**System** (130 000). Two daemons, two clients and a relay in one of four fleets.
`cameras`: two cameras, both called. `busy`: one camera called twice, beside a backend
that nobody knows. `twins`: the same file on two hosts, with the native image on the
topic that the relay publishes to. `unnamed`: two command backends, one of which has no
names in its file, the other no command, a model "6D EOS" and a device `id2_-rpi4`. The
hosts are `id2-rpi4.shop` and `id2_rpi4`, one camera's model needs squeezing at both ends
and inside, one daemon's override already has a `mode`, a repeated path and an empty
part. Any process may end between two steps, answers may come late, a stray frame
without an id is under the relay's prefix.

`VerdictSound` is what a client may conclude. `OneImageEach`: what is published is
counted, and no frame is published twice on a topic in one form, native, compressed
or raw, nor on a topic that another camera has by default; where the relay's topic is the
native one, a frame is there in two forms, and that is what the code does. `LabelTruthful`:
RAW beside JPEG does not hide it, whatever the case of the suffixes. `SessionForced`: the
override wins once and only for its own paths, rewritten once or twice.

`NamesLegal` says how far the squeezing of `models.py:11-25` goes. What it leaves are
letters, digits and underscores; a segment that ROS 2 takes must also not begin with a
digit or have two underscores side by side (`Legal`), and the property names when it
does. `FleetToldApart` says who shares which names when the file gives none: the heartbeat's
key, token and client id belong to the camera, the online pulse's to the device, which
is by default the host. Two hosts with one camera share the former, two cameras on one
host the latter, both of which are states of the run. `FramesRelayed`: a frame put is
shown while the relay runs. Deadlock checking is off: everything may end.

**Online** (3 600). One daemon, an interval of five and delays of up to two ticks, any
number of starts, stops, kills, lost links and broker restarts. Ages beyond 12 are not
told apart, which is one more than the limit of 11. `AliveIsFresh`, `DeadIsStale`: judged by
a limit of the interval and three delays, nobody who has been up and linked for a turn
is taken for dead, and nobody who has been down for longer than the limit for alive.
`ComesOnline`: a daemon that stays up and linked stays fresh.

### Fairness

Weak fairness of a thread means that the operating system schedules it and that its
calls return, and it is assumed only where that is the code's business. Service and
capture threads are fair; a camera that does not return is an outcome of `Shoot`
(`hung`), since gphoto2 runs without a timeout. The main thread is fair. A
broadcaster's thread is not: `Spec` runs the main thread alone and
`PulsesKeepArriving` names `LoopRuns` as what it needs. Handlers of the parameter
server are fair, the process that prunes is, and so are endpoint builders including
their wait for the lock. In `ParameterServices` the handlers are fair, and start, stop
and close are not. In `CaptureSystem` only the relay's callback is fair, because the
session runs it; nothing is assumed of clients and jobs, for nothing is said of what
they do in the end. In `OnlinePulse` time passes and the
thread publishes; that it wakes and sends within `Slack` is an assumption on the
scheduler and the CPU, made in the guard of `Tick`. There, too: the clocks of daemon
and mothership agree, `retain` is on and `qos` is 0, as `models.py:99-100` has it.
Nothing is assumed of whoever calls `stop`, of kills, restarts, the broker, the
router, deletions or the wall clock. Deadlock checking is off in the runs whose
program ends for good.

## 4. What is proved

For every set of calls, requests, nodes, endpoints and parameters, every list
a request may carry and every outcome of the environment:

- `CaptureServiceProofs`: `TypeOK`, `LockHeldByItsJob`, `CountExact`,
  `NoPublisherLost` and `ContractSafety`: every step of
  the service is a step of `CaptureContract` or leaves it as it is. The
  assumptions are that the set of calls is finite, that None is no call and that
  the flags are Boolean.
- `NodeIdentityProofs`: `TypeOK`, `AllocatorRestored`, `EndpointsShareNodeId`,
  `DistinctUnlessRaced`.
- `PulseBroadcasterProofs`: `TypeOK`, `OneClient`, `StoppedIsSilent`,
  `NoPulseStartsAfterStop`, without a bound on the number of clients and whatever
  raises.
- `ParameterServicesProofs`: `TypeOK`, `NothingLost`, `ServingAnswers`, for any
  list of distinct services and any number of calls of `start` and of requests;
  `ListExact`, for any declaration and any prefixes, assuming that declared names have
  parts and that what a request lists is a list (`NamesAssumption`).
- `PersistenceBufferProofs`: `TypeOK`, `CapRespected`, `KeepsWhatFits`, on any clock;
  `SurvivorsAreNewest`, assuming `Forward`: the wall clock goes on from capture to capture.
- `ExposureCaptureProofs`, of the parameter server: `TypeOK`, `StoreLegal` (assuming
  legal initial values, which `declare` does not check), `MirrorTruthful`,
  `MirrorAgrees`; of the job beside it: `JobTypeOK`, `SetsHonoured`, `MetadataTruthful`,
  assuming that the names of the parameters are distinct, as the keys of a dict are,
  and that every value has a text.
- `CaptureSystemProofs`: `TypeOK`, `VerdictSound`, `LabelTruthful`, `OneImageEach`,
  `FleetToldApart`, `NamesLegal` and `SessionForced`; and that rewriting the override is
  idempotent, as `force_native_client_mode` says of itself. They hold for any fleets,
  daemons, clients, hosts, downloads and overrides. Assumed are that hosts' names and the names in files are
  texts (`TextAssumption`), that a user's override is a sequence of segments
  (`OverrideAssumption`), that the words of the defaults are words that begin with a
  letter and the underscore is a separator (`TokenAssumption`), and that the marks for nobody are nobody
  (`NobodyAssumption`).
- `OnlinePulseProofs`: `TypeOK`, `AliveIsFresh`, `DeadIsStale`, for any interval and any
  bound on delays.

Each proof rests on an inductive invariant. Those that stand in the models (`IInv`,
`JobIInv`, `CapInv`) TLC checked in the run of their module before anything was proved
of them, and they are theorems themselves:

- *CaptureService.* `LockHeldByItsJob` needs to know that a job exists exactly if
  its call was spawned (`ThreadsAgree`). `CountExact` needs the job between the
  read and the write to have read the present counter (`ReadIsFresh`), which
  the lock gives it. `NoPublisherLost` needs the job that builds to have found no
  publisher and the main thread in `close` to have closed, or tried to close, the one it
  forgets (`BuilderFoundNone`, `ClosingIsClosed`).
- *ParameterServer.* `MirrorAgrees` compares store and subscriber at rest; on the
  way there, an uncontested name has one writer (`OneWriter`), the store holds the
  last value that writer was granted (`StoreHoldsLast`), and that is the one its
  event will tell last. A failed atomic request never gets to an event
  (`AtomicAccepts`).
- *NodeIdentity.* The endpoint that holds the lock is the only one inside the
  pinning, it found the SDK's own allocator, and while it is there the allocator
  gives its node's id (`HolderInv`, `PinInv`); ids drawn are below the counter
  (`DrawnInv`).
- *PulseBroadcaster.* Main and loop take turns in publish: main only before the
  thread is there, the loop only while it pulses. Hence a thread that found no
  client is still alone when it stores its own (`PublishInv`). Only stop closes, and it
  does so once, so that at most one client is lost (`StopInv`); and of the pulses that
  are due when the event is set, only the one that had passed its check is left (`DueInv`).
- *ParameterServices.* Positions and names agree while no start has failed (`Aligned`);
  what stop or `Node.close` has passed is closed or has refused to be (`Progress`), so
  that clearing a list loses nothing; requests come to services (`Asked`). `ListExact`
  says what an answer has in it, and needs only that an answer is worked out of the
  arguments the request came with (`Answers`). The rest is about sequences:
  `FlattenSeq` is a function recursive along its argument, and that it exists, keeps
  the elements and keeps them distinct is counted up to the argument's length
  (`Counting`, a consequence of `<` being well-founded).
- *PersistenceBuffer.* A directory's volume is the number of its bytes, each a pair of a
  file and a position in it, so that adding or deleting a file adds or takes its size by
  what is known of finite sets. The total that `_prune` counts down is at least the
  volume that is left, and exactly that as long as nobody else deletes (`Accounted`):
  the one gives the cap, the other that no file goes needlessly.
  `SurvivorsAreNewest` speaks of captures and the code sorts by
  mtime. With a clock that goes on the two orders agree (`Dated`), and the list that
  `_prune` works through has every file that is still there, by its mtime (`Listed`), so
  that the oldest of the list is the oldest of all.
- *ExposureCapture.* What a job has read is true of the moments it read at, and each
  name is there at most once (`ReadTruly`); the camera has the settings that gphoto2 has
  come to, and its own besides (`SetTruly`). The parameter server's own steps enter
  only through what they may do to the store.
- *OnlinePulse.* A pulse is never sent later than `Slack` after it was stamped, nor the
  next one later than `Turn` after it (`Timely`), and the last one sent over a
  link that was up before is the one retained (`LastSentRetained`).

- *CaptureSystem.* Each question has an invariant of its own, beside the types: how the
  state of a call and what its client knows of it go together (`Verdicts`), that a frame
  is one its camera could have given (`Taken`), that an image on a topic came from its
  daemon or through the relay from one under its prefix (`Traced`), that what is still on
  its way or in the works has not been published yet (`Once`), and how far the
  environment is rewritten (`Environment`). The names hold in every state because the
  files are read once (`FleetStays`), and are facts about texts: what is squeezed
  (`SqueezeFacts`) has no two underscores in a row but where an underscore stood beside
  another separator, and begins with a letter if the text's words do; stripping adds no
  letter and brings no two together; and what a default is made of can be read back from it. `SessionForced`
  needs that the last segment of a path is still the last after others were dropped
  (`LastKept`).

So every invariant that a passing run checks is a theorem, and so are its action
properties. Model-checked only: liveness (the prover has no rules for fairness here),
namely `EveryCallAnswered`, `StopCompletes`, `EveryRequestAnswered`, `PersistEnds`,
`EveryBuildEnds`, `PulsesKeepArriving`, `RequestsAnswered`, `FramesRelayed`,
`ComesOnline` and the liveness half of `ImplementsContract`. The violations of the two
runs that expect one are states TLC found.

## 5. Where code and documents differ

The two violation runs are listed under "findings". More differences were read off
the code and have no run of their own:

- `Thread.start` may raise after the capture lock was taken (`runtime.py:158`). Nothing
  releases it then, and every later call is told "capture already in progress"
  (`runtime.py:151`). `CaptureService` has the step (`SpawnFails`);
  `ImplementsContract` is checked without it.
- A clock that steps back makes the frame just written the oldest by mtime
  (`persistence.py:27`): it may be pruned first, and `persisted_path` names no
  file, where `README.md:228` has the response carry it. `SurvivorsAreNewest` is
  checked and proved with a clock that goes on; a Pi without a clock chip has
  one that steps at boot.
- The first pgwaam pulse is given to a client whose `connect_async` has only begun
  (`heartbeat.py:264`) and is lost, though the comment above it means it to spare the
  mothership the wait. `AliveIsFresh` says what holds instead: fresh after a turn of the link.
- After a `start` that failed half-way, a second `start` appends its services behind the
  first one's (`picoparams.py:362`), and handlers find another service's class
  by position, or none, until `stop` is called. `ServingAnswers` leaves that
  state (`dirty`) out.
- `ros2_safe_name` is to make a "ROS 2-legal token" of any text (`models.py:16-22`). A
  text that begins with a digit stays so, and a text with an underscore beside
  another separator gets two underscores in a row, `id2_-rpi4` becoming `id2__rpi4`
  (`models.py:24`); ROS 2 takes neither. `slugify_camera_name` leaves a leading digit,
  too. `NamesLegal` says so.
- Two daemons with the same `camera_id`, as of one file on two hosts, have one heartbeat
  key, one liveliness token and one MQTT client id (`models.py:285-297`): their pulses
  are taken for each other's and the broker lets only one of them in. Two daemons on one
  host, with two cameras, share the topic of the online pulse and its client id in the
  same way (`models.py:246, 310-316`). `FleetToldApart` says so.
- `Ros2SafeName` is not injective: `id2-rpi4` and `id2_rpi4` share the default
  temperature topic (`models.py:361`). `FleetToldApart` speaks of the names it holds for.
- A `camera_id` of the file is taken as it is, only a `camera_model` is made a slug
  (`models.py:226`); `NamesLegal` speaks of the latter.
- The mock draws a PNG and labels it with the configured encoding, by default
  `image/jpeg` (`capture_backends.py:172`, `models.py:48`); `LabelTruthful` is about gphoto2.
- `ros2_gateway/…/config/canon_eos_6d.params.yaml` gives the relay the topic that the
  daemon's native image takes by default: with both enabled each frame is shown
  twice, once in each form. The fleet `twins` has such a relay; `OneImageEach` counts the
  forms apart.
- `spikes/fleet_heartbeat_mon.py:21` subscribes `pgwaam/heartbeat/#`, under which
  the daemon publishes nothing.
- `README.md:101` has the service reply carry `capture_id`, `image_key`, encoding
  and dimensions; `on_request` replies "capture accepted" with a request id as
  soon as the thread has started (`runtime.py:164`), before there is a frame.
- The backend "enforces type, range, and read-only constraints"
  (`picoparams.py:195-197`) but not the step of a range
  (`picoparams.py:274-284`); `StoreLegal` takes a range without its step.
- `README.md:150` "uses whatever the params are right now": `current()` reads them
  one by one (`exposure_params.py:97`), so one frame may mix the settings from
  before and after one request that sets two. `SetsHonoured` therefore speaks of
  each setting for itself.

Two more things a reader of the properties should know. What raises while something
is closed is swallowed and the object forgotten, open: an image publisher
(`ros2_image_publisher.py:142-146`, and in the same way one whose message classes do not
load, line 60), an MQTT client whose `loop_stop` raises and whose `disconnect` is
skipped (`heartbeat.py:150-155`), the temperature's publisher
(`ros2_core_temp_publisher.py:132-137`), a liveliness token (`heartbeat.py:233-237`), an
endpoint (`picoparams.py:380-383`, `picoros.py:234-236`). An endpoint whose types cannot be
repaired (`picoros.py:203`) is open, answers, and is in neither list. No document of the
repository denies any of it; the properties name these as what may be lost and say
that nothing else is. And a job or a pulse that outlasts shutdown may build a client
after `close`; it stays open until the process ends.

## 6. Not modelled

- The QoS mapping (`qos_profile.py`) is one lookup; the numbers and flags of the
  settings that no name depends on are left out of `Settings`.
- Of message conversion: `param_value_to_msg` field by field, and what the repair of
  nested types registers (`picoros.py:246-262`, `picoserdes.py`); that it may raise is
  `RepairFails`. Image decoding and synthesis, probes (`heartbeat.py`'s
  readings of temperature and throttling) and the payload of the heartbeat are values.
- The relay's CDR and JSON, and the SDK's own retries.
- The CI verifier (a walk through CDR bytes), the validator, examples, spikes, launch
  files, images and deployment scripts are not part of the running system.

## 7. Plan

Done, most important first: `CaptureService` with `CaptureContract`,
`ParameterServer`, `NodeIdentity`, `PulseBroadcaster`, `PersistenceBuffer`,
`ExposureCapture`, `ParameterServices`, `Settings` with `CaptureSystem`,
`OnlinePulse`; proofs of all their invariants and action properties.

What could still be added:

1. For the liveness properties, the safety facts that a proof by hand would rest on, as
   theorems: that each step of a handler, a job or a pruning is a step nearer to its
   end, and which of its steps can be taken in every state it waits in.
2. The heartbeat's two channels and its liveliness token in time, as `OnlinePulse`
   has the pgwaam pulse.
3. What `Slug` and `Ros2SafeName` do to a text that is already what they make of texts.
