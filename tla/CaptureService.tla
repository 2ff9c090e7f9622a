--------------------------- MODULE CaptureService ----------------------------
(***************************************************************************)
(* The Pi runtime's process (runtime.py) with the native image publisher   *)
(* it drives (ros2_image_publisher.py).                                    *)
(*                                                                         *)
(* Three kinds of threads share the process:                               *)
(*   - the main thread, in PiDslrRuntime.run: it opens the Zenoh session,  *)
(*     declares the capture service, starts the helpers, waits for the     *)
(*     stop event and takes everything down again;                         *)
(*   - one service thread per call, in on_request: it takes the capture    *)
(*     lock without waiting, or refuses, and starts a job;                 *)
(*   - one daemon thread per accepted call, in do_capture: it shoots, puts *)
(*     the frame on the session, counts it, publishes it as a ROS 2 image  *)
(*     and releases the lock that on_request took.                         *)
(*                                                                         *)
(* A step ends where another thread can see or disturb the next one: at    *)
(* the lock, at the session, at the read and the write of the counter, and *)
(* at the construction and the store of the lazily built publisher.        *)
(***************************************************************************)
EXTENDS Integers, FiniteSets

CONSTANTS
  Requests,        \* the calls clients make on the capture service
  NoPublisher,     \* the None of Ros2ImagePublisher._publisher
  NativeEnabled,   \* settings.ros2_publish.enabled
  SpawnMayFail,    \* Thread.start may raise (no thread to be had)
  HelpersMayFail   \* the start of a helper may raise

ASSUME RequestsAssumption == IsFiniteSet(Requests) /\ NoPublisher \notin Requests

ASSUME FlagsAssumption ==
  {NativeEnabled, SpawnMayFail, HelpersMayFail} \subseteq BOOLEAN

VARIABLES
  main,        \* where the main thread is in run()
  stopEvent,   \* _stop_event is set
  lock,        \* _capture_lock is held
  count,       \* _capture_count
  publisher,   \* _publisher, named after the job that built it
  open,        \* the SDK publishers built and not closed, likewise
  leaked,      \* history: those forgotten while open, by what raised
  call,        \* call[r]: where the service thread of r is in on_request
  job,         \* job[r]: where the capture thread of r is in do_capture
  loaded,      \* loaded[r]: the counter as job r read it
  blobs        \* the calls whose frame was put on the session

vars == <<main, stopEvent, lock, count, publisher, open, leaked, call, job, loaded,
          blobs>>
pubVars == <<publisher, open, leaked>>
mainVars == <<main, stopEvent>>
jobVars == <<count, pubVars, job, loaded, blobs>>

MainPhases == {"starting", "declared", "holding", "serving", "helpersStopped",
               "imageClosing", "imageClosed", "serviceClosed", "raised",
               "returned", "exited"}
CallPhases == {"new", "keyError", "entered", "refused", "locked", "spawnError",
               "spawned", "accepted"}
JobPhases  == {"none", "started", "hung", "shot", "put", "read", "counted",
               "building", "built", "ready", "finishing", "released"}

TypeOK ==
  /\ main \in MainPhases
  /\ stopEvent \in BOOLEAN
  /\ lock \in BOOLEAN
  /\ count \in Nat
  /\ publisher \in Requests \cup {NoPublisher}
  /\ open \subseteq Requests
  /\ leaked \subseteq Requests
  /\ call \in [Requests -> CallPhases]
  /\ job \in [Requests -> JobPhases]
  /\ loaded \in [Requests -> Nat]
  /\ blobs \subseteq Requests

Init ==
  /\ main = "starting"
  /\ stopEvent = FALSE
  /\ lock = FALSE
  /\ count = 0
  /\ publisher = NoPublisher
  /\ open = {}
  /\ leaked = {}
  /\ call = [r \in Requests |-> "new"]
  /\ job = [r \in Requests |-> "none"]
  /\ loaded = [r \in Requests |-> 0]
  /\ blobs = {}

\* The threads are daemons: none of them outlives the process.
Alive == main # "exited"

\* The service answers from its declaration to its close; an exception that
\* leaves run() by way of a helper never closes it.
ServiceDeclared == main \notin {"starting", "serviceClosed", "returned", "exited"}
HolderSet == main \notin {"starting", "declared"}
SessionOpen == main \notin {"starting", "raised", "returned", "exited"}

-----------------------------------------------------------------------------
(* The service threads: on_request.                                        *)

MoveCall(r, from, to) ==
  /\ Alive
  /\ call[r] = from
  /\ call' = [call EXCEPT ![r] = to]

\* A call comes in; server_holder["server"] is its first lookup.
OnRequest(r) ==
  /\ ServiceDeclared
  /\ MoveCall(r, "new", IF HolderSet THEN "entered" ELSE "keyError")
  /\ UNCHANGED <<mainVars, lock, jobVars>>

\* Mutants of TryLock: the result of acquire is ignored; acquire waits.
TryLockIgnored(r) ==
  /\ MoveCall(r, "entered", "locked")
  /\ lock' = TRUE
  /\ UNCHANGED <<mainVars, jobVars>>

TryLockBlocking(r) ==
  /\ ~lock
  /\ MoveCall(r, "entered", "locked")
  /\ lock' = TRUE
  /\ UNCHANGED <<mainVars, jobVars>>

TryLock(r) ==
  /\ MoveCall(r, "entered", IF lock THEN "refused" ELSE "locked")
  /\ lock' = TRUE
  /\ UNCHANGED <<mainVars, jobVars>>

Spawn(r) ==
  /\ MoveCall(r, "locked", "spawned")
  /\ job' = [job EXCEPT ![r] = "started"]
  /\ UNCHANGED <<mainVars, lock, count, pubVars, loaded, blobs>>

\* No handler around Thread.start: the exception leaves on_request, lock held.
SpawnFails(r) ==
  /\ SpawnMayFail
  /\ MoveCall(r, "locked", "spawnError")
  /\ UNCHANGED <<mainVars, lock, jobVars>>

Reply(r) ==
  /\ MoveCall(r, "spawned", "accepted")
  /\ UNCHANGED <<mainVars, lock, jobVars>>

Handler(r) == TryLock(r) \/ Spawn(r) \/ SpawnFails(r) \/ Reply(r)

-----------------------------------------------------------------------------
(* The capture threads: do_capture.                                        *)

MoveJob(r, from, to) ==
  /\ Alive
  /\ job[r] = from
  /\ job' = [job EXCEPT ![r] = to]

\* Mutant of Shoot: the lock covers the camera only.
ShootThenRelease(r) ==
  /\ \E to \in {"shot", "finishing", "hung"} : MoveJob(r, "started", to)
  /\ lock' = FALSE
  /\ UNCHANGED <<mainVars, count, pubVars, call, loaded, blobs>>

\* backend.capture returns a frame, raises, or never returns: the gphoto2 and
\* command backends run their subprocess without a timeout.
Shoot(r) ==
  /\ \E to \in {"shot", "finishing", "hung"} : MoveJob(r, "started", to)
  /\ UNCHANGED <<mainVars, lock, count, pubVars, call, loaded, blobs>>

Put(r) ==
  /\ SessionOpen
  /\ MoveJob(r, "shot", "put")
  /\ blobs' = blobs \cup {r}
  /\ UNCHANGED <<mainVars, lock, count, pubVars, call, loaded>>

\* Mutant of PutFails: a failure is counted.
PutFailsCounted(r) ==
  /\ MoveJob(r, "shot", "finishing")
  /\ count' = count + 1
  /\ UNCHANGED <<mainVars, lock, pubVars, call, loaded, blobs>>

\* session.put raises, as it always does on a closed session.
PutFails(r) ==
  /\ MoveJob(r, "shot", "finishing")
  /\ UNCHANGED <<mainVars, lock, count, pubVars, call, loaded, blobs>>

\* self._capture_count += 1 is a load and a store.
ReadCount(r) ==
  /\ MoveJob(r, "put", "read")
  /\ loaded' = [loaded EXCEPT ![r] = count]
  /\ UNCHANGED <<mainVars, lock, count, pubVars, call, blobs>>

WriteCount(r) ==
  /\ MoveJob(r, "read", IF NativeEnabled THEN "counted" ELSE "finishing")
  /\ count' = loaded[r] + 1
  /\ UNCHANGED <<mainVars, lock, pubVars, call, loaded, blobs>>

\* Mutant of EnsurePublisher: no test.
EnsurePublisherAnew(r) ==
  /\ MoveJob(r, "counted", "building")
  /\ UNCHANGED <<mainVars, lock, count, pubVars, call, loaded, blobs>>

\* The test at the top of _ensure_publisher.
EnsurePublisher(r) ==
  /\ MoveJob(r, "counted", IF publisher = NoPublisher THEN "building" ELSE "ready")
  /\ UNCHANGED <<mainVars, lock, count, pubVars, call, loaded, blobs>>

Build(r) ==
  /\ MoveJob(r, "building", "built")
  /\ open' = open \cup {r}
  /\ UNCHANGED <<mainVars, lock, count, publisher, leaked, call, loaded, blobs>>

\* The imports or ROS2Publisher raise: publish returns False.
BuildFails(r) ==
  /\ MoveJob(r, "building", "finishing")
  /\ UNCHANGED <<mainVars, lock, count, pubVars, call, loaded, blobs>>

StorePublisher(r) ==
  /\ MoveJob(r, "built", "ready")
  /\ publisher' = r
  /\ UNCHANGED <<mainVars, lock, count, open, leaked, call, loaded, blobs>>

\* get_message_class raises: the publisher just built is neither kept nor closed.
TypesFail(r) ==
  /\ MoveJob(r, "built", "finishing")
  /\ leaked' = leaked \cup {r}
  /\ UNCHANGED <<mainVars, lock, count, publisher, open, call, loaded, blobs>>

\* Decode, downsample and publish; whatever goes wrong is swallowed.
PublishImage(r) ==
  /\ MoveJob(r, "ready", "finishing")
  /\ UNCHANGED <<mainVars, lock, count, pubVars, call, loaded, blobs>>

Release(r) ==
  /\ MoveJob(r, "finishing", "released")
  /\ lock' = FALSE
  /\ UNCHANGED <<mainVars, count, pubVars, call, loaded, blobs>>

Job(r) ==
  \/ Shoot(r) \/ Put(r) \/ PutFails(r) \/ ReadCount(r) \/ WriteCount(r)
  \/ EnsurePublisher(r) \/ Build(r) \/ BuildFails(r)
  \/ StorePublisher(r) \/ TypesFail(r) \/ PublishImage(r) \/ Release(r)

-----------------------------------------------------------------------------
(* The main thread: run.                                                   *)

Go(from, to) ==
  /\ main = from
  /\ main' = to
  /\ UNCHANGED <<stopEvent, lock, call, count, job, loaded, blobs>>

DeclareService == Go("starting", "declared") /\ UNCHANGED pubVars

SetHolder == Go("declared", "holding") /\ UNCHANGED pubVars

StartHelpers == Go("holding", "serving") /\ UNCHANGED pubVars

\* The helpers start before the try: what they raise skips its finally, and
\* only the with statement's exit closes the session.
StartHelpersFails ==
  /\ HelpersMayFail
  /\ Go("holding", "raised")
  /\ UNCHANGED pubVars

\* The loop ends and the helpers are stopped.
StopHelpers ==
  /\ stopEvent
  /\ Go("serving", "helpersStopped")
  /\ UNCHANGED pubVars

\* Ros2ImagePublisher.close: close what is there,
CloseImage ==
  /\ NativeEnabled
  /\ Go("helpersStopped", IF publisher = NoPublisher THEN "imageClosed"
                                                     ELSE "imageClosing")
  /\ open' = open \ {publisher}
  /\ UNCHANGED <<publisher, leaked>>

\* or try to: what its close raises is swallowed;
CloseImageFails ==
  /\ NativeEnabled
  /\ publisher # NoPublisher
  /\ Go("helpersStopped", "imageClosing")
  /\ leaked' = leaked \cup {publisher}
  /\ UNCHANGED <<publisher, open>>

\* then forget it, closed or not.
ForgetImage ==
  /\ Go("imageClosing", "imageClosed")
  /\ publisher' = NoPublisher
  /\ UNCHANGED <<open, leaked>>

\* Mutant of CloseService: waits for the capture that holds the lock.
CloseServiceJoins ==
  /\ ~lock
  /\ Go(IF NativeEnabled THEN "imageClosed" ELSE "helpersStopped", "serviceClosed")
  /\ UNCHANGED pubVars

CloseService ==
  /\ Go(IF NativeEnabled THEN "imageClosed" ELSE "helpersStopped", "serviceClosed")
  /\ UNCHANGED pubVars

CloseSession == Go("serviceClosed", "returned") /\ UNCHANGED pubVars

\* cli.main is over: the interpreter ends and takes the daemon threads along.
Exit ==
  /\ main \in {"returned", "raised"}
  /\ Go(main, "exited")
  /\ UNCHANGED pubVars

Main ==
  \/ DeclareService \/ SetHolder \/ StartHelpers \/ StartHelpersFails
  \/ StopHelpers \/ CloseImage \/ CloseImageFails \/ ForgetImage
  \/ CloseService \/ CloseSession \/ Exit

\* stop(), from another thread, or the KeyboardInterrupt that ends the loop.
Stop ==
  /\ Alive
  /\ ~stopEvent
  /\ stopEvent' = TRUE
  /\ UNCHANGED <<main, lock, call, jobVars>>

\* SIGTERM has no handler: systemd's stop ends the process where it stands.
Kill ==
  /\ Alive
  /\ Go(main, "exited")
  /\ UNCHANGED pubVars

Next ==
  \/ Main \/ Stop \/ Kill
  \/ \E r \in Requests : OnRequest(r) \/ Handler(r) \/ Job(r)

\* Threads that can run are run; no client has to call and nobody has to stop.
Fairness ==
  /\ WF_vars(Main)
  /\ \A r \in Requests : WF_vars(Handler(r)) /\ WF_vars(Job(r))

SafeSpec == Init /\ [][Next]_vars
Spec == SafeSpec /\ Fairness

-----------------------------------------------------------------------------
(* Properties.                                                             *)

JobRunning(r) == job[r] \notin {"none", "released"}

\* The lock was taken on behalf of r and not released yet.
Holds(r) == call[r] \in {"locked", "spawnError"} \/ JobRunning(r)

\* The lock is taken by one thread and released by another (runtime.py:144,
\* 140).  Whatever the interleaving, it is held exactly while one call that
\* took it has not given it back, and no two calls are ever served at once:
\* the camera, the counter and the lazy publisher all rely on that.
AtMostOneHolder == \A q, r \in Requests : Holds(q) /\ Holds(r) => q = r
LockHasHolder == lock <=> \E r \in Requests : Holds(r)
LockHeldByItsJob == AtMostOneHolder /\ LockHasHolder

\* _capture_count += 1 (runtime.py:117) loses no frame although it is not
\* atomic: the counter is the number of frames put on the session by jobs that
\* are past it.
Counted == {r \in blobs : job[r] \notin {"put", "read"}}
CountExact == count = Cardinality(Counted)

\* _ensure_publisher checks and stores _publisher without a lock, and close()
\* resets it from the main thread: every SDK publisher that is open is the one
\* _publisher names, or its builder is about to store it. The exceptions are the
\* two the code makes: a publisher whose close raised (ros2_image_publisher.py:144)
\* and one whose message classes did not load (ros2_image_publisher.py:72).
NoPublisherLost ==
  \A h \in open : h = publisher \/ job[h] = "built" \/ h \in leaked

\* The strengthening that makes the four invariants above inductive: where
\* the two threads of a call and its frame are, what a job knows between the
\* read and the write of the counter, and what it knows about _publisher
\* between the test and the store.
ThreadsAgree ==
  \A r \in Requests :
    /\ job[r] # "none" <=> call[r] \in {"spawned", "accepted"}
    /\ job[r] \in {"none", "started", "hung", "shot"} => r \notin blobs
    /\ job[r] \in {"put", "read", "counted", "building", "built", "ready"}
         => r \in blobs
ReadIsFresh == \A r \in Requests : job[r] = "read" => loaded[r] = count
BuilderFoundNone ==
  \A r \in Requests : job[r] \in {"building", "built"} => publisher = NoPublisher
ClosingIsClosed ==
  main = "imageClosing"
    => publisher # NoPublisher /\ (publisher \in open => publisher \in leaked)
LockInv == TypeOK /\ ThreadsAgree /\ LockHeldByItsJob
CountInv == ReadIsFresh /\ CountExact
PublisherInv == BuilderFoundNone /\ ClosingIsClosed /\ NoPublisherLost
IInv == LockInv /\ CountInv /\ PublisherInv

\* on_request answers every call that got past the holder lookup, unless the
\* process ends first; it never waits for the camera.
EveryCallAnswered ==
  \A r \in Requests :
     call[r] = "entered" ~> (call[r] \in {"refused", "accepted"} \/ ~Alive)

\* A stop always gets the process down, even while a capture hangs and holds
\* the lock: the main thread joins no capture thread.
StopCompletes == stopEvent ~> ~Alive

-----------------------------------------------------------------------------
(* The service implements the capture contract.                            *)

\* Before a job runs, the phase is the service thread's; afterwards the job's,
\* and "finishing" and "released" tell by the frame how it went.
PhaseOf(r) ==
  CASE call[r] \in {"new", "entered"} -> "idle"
    [] call[r] = "keyError" -> "dropped"
    [] call[r] = "refused" -> "refused"
    [] job[r] = "hung" -> "hung"
    [] job[r] \in {"counted", "building", "built", "ready"} -> "delivered"
    [] job[r] = "finishing" /\ r \in blobs -> "delivered"
    [] job[r] = "released" -> IF r \in blobs THEN "done" ELSE "failed"
    [] OTHER -> "working"

Contract == INSTANCE CaptureContract WITH
  up <- Alive, phase <- [r \in Requests |-> PhaseOf(r)], frames <- count

ImplementsContract == Contract!Spec
ContractSafety == Contract!Init /\ [][Contract!Next]_(Contract!vars)
=============================================================================
