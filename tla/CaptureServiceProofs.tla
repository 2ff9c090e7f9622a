------------------------ MODULE CaptureServiceProofs -------------------------
(***************************************************************************)
(* Proofs that the invariants of CaptureService hold for any number of     *)
(* calls and any of its settings, and that its steps are steps of          *)
(* CaptureContract.  The invariants are layered: the lock (with the types  *)
(* and the agreement of a call's two threads) needs nothing else; the      *)
(* counter and the lazy publisher rest on the lock.                        *)
(***************************************************************************)
EXTENDS CaptureService, FiniteSetTheorems, TLAPS

-----------------------------------------------------------------------------
(* The lock.                                                               *)

\* Initially no thread runs and the lock is free.
LEMMA LockInvInit == Init => LockInv
  <1> SUFFICES ASSUME Init PROVE LockInv
    OBVIOUS
  <1>1. TypeOK
    BY DEF Init, TypeOK, MainPhases, CallPhases, JobPhases
  <1>2. ThreadsAgree
    BY DEF Init, ThreadsAgree
  <1>3. LockHeldByItsJob
    BY DEF Init, LockHeldByItsJob, AtMostOneHolder, LockHasHolder, Holds, JobRunning
  <1>4. QED
    BY <1>1, <1>2, <1>3 DEF LockInv

\* The main thread, a stop and a kill touch neither the lock nor its holders.
LEMMA LockInvMain ==
  ASSUME LockInv, Main \/ Stop \/ Kill \/ UNCHANGED vars
  PROVE  LockInv'
  <1> USE DEF LockInv, TypeOK, ThreadsAgree, LockHeldByItsJob, AtMostOneHolder,
              LockHasHolder, Holds, JobRunning, MainPhases, pubVars
  <1>1. CASE Main
    BY <1>1 DEF Main, Go, DeclareService, SetHolder, StartHelpers,
                StartHelpersFails, StopHelpers, CloseImage, CloseImageFails, ForgetImage,
                CloseService, CloseSession, Exit
  <1>2. CASE Stop
    BY <1>2 DEF Stop, jobVars
  <1>3. CASE Kill
    BY <1>3 DEF Kill, Go
  <1>4. CASE UNCHANGED vars
    BY <1>4 DEF vars
  <1>5. QED
    BY <1>1, <1>2, <1>3, <1>4

\* A service thread takes the lock only when nobody holds it.
LEMMA LockInvHandler ==
  ASSUME LockInv, NEW r \in Requests, OnRequest(r) \/ Handler(r)
  PROVE  LockInv'
  <1> USE DEF LockInv, TypeOK, ThreadsAgree, LockHeldByItsJob, AtMostOneHolder,
              LockHasHolder, Holds, JobRunning, MoveCall, CallPhases, JobPhases,
              mainVars, jobVars, pubVars
  <1>1. CASE OnRequest(r)
    BY <1>1 DEF OnRequest
  <1>2. CASE TryLock(r)
    BY <1>2 DEF TryLock
  <1>3. CASE Spawn(r)
    BY <1>3 DEF Spawn
  <1>4. CASE SpawnFails(r)
    BY <1>4 DEF SpawnFails
  <1>5. CASE Reply(r)
    BY <1>5 DEF Reply
  <1>6. QED
    BY <1>1, <1>2, <1>3, <1>4, <1>5 DEF Handler

\* A capture thread keeps the lock until its last step, which frees it.
LEMMA LockInvJob ==
  ASSUME LockInv, NEW r \in Requests, Job(r)
  PROVE  LockInv'
  <1> USE DEF LockInv, TypeOK, ThreadsAgree, LockHeldByItsJob, AtMostOneHolder,
              LockHasHolder, Holds, JobRunning, MoveJob, JobPhases, mainVars, pubVars
  <1>1. CASE Shoot(r)
    BY <1>1 DEF Shoot
  <1>2. CASE Put(r)
    BY <1>2 DEF Put
  <1>3. CASE PutFails(r)
    BY <1>3 DEF PutFails
  <1>4. CASE ReadCount(r)
    BY <1>4 DEF ReadCount
  <1>5. CASE WriteCount(r)
    BY <1>5 DEF WriteCount
  <1>6. CASE EnsurePublisher(r)
    BY <1>6 DEF EnsurePublisher
  <1>7. CASE Build(r) \/ BuildFails(r)
    BY <1>7 DEF Build, BuildFails
  <1>8. CASE StorePublisher(r) \/ TypesFail(r)
    BY <1>8 DEF StorePublisher, TypesFail
  <1>9. CASE PublishImage(r)
    BY <1>9 DEF PublishImage
  <1>10. CASE Release(r)
    <2>1. TypeOK'
      BY <1>10 DEF Release
    <2>2. ThreadsAgree'
      BY <1>10 DEF Release
    <2>3. Holds(r) /\ ~Holds(r)'
      BY <1>10 DEF Release
    <2>4. \A q \in Requests : Holds(q)' => Holds(q) /\ q # r
      BY <1>10, <2>3 DEF Release
    <2>5. ~lock'
      BY <1>10 DEF Release
    <2>6. AtMostOneHolder'
      BY <2>4
    <2>7. LockHasHolder'
      BY <2>3, <2>4, <2>5
    <2>8. QED
      BY <2>1, <2>2, <2>6, <2>7
  <1>11. QED
    BY <1>1, <1>2, <1>3, <1>4, <1>5, <1>6, <1>7, <1>8, <1>9, <1>10 DEF Job

LEMMA LockInvStep == LockInv /\ [Next]_vars => LockInv'
  BY LockInvMain, LockInvHandler, LockInvJob DEF Next

LEMMA LockInvAlways == SafeSpec => []LockInv
  BY LockInvInit, LockInvStep, PTL DEF SafeSpec

\* Every variable of the runtime keeps its type.
THEOREM TypeCorrect == SafeSpec => []TypeOK
  <1>1. LockInv => TypeOK
    BY DEF LockInv
  <1>2. QED
    BY <1>1, LockInvAlways, PTL

\* The capture lock serialises the captures: it is held exactly while one call
\* that took it has not given it back, and never for two calls at once.
THEOREM LockIsHeldByItsJob == SafeSpec => []LockHeldByItsJob
  <1>1. LockInv => LockHeldByItsJob
    BY DEF LockInv
  <1>2. QED
    BY <1>1, LockInvAlways, PTL

-----------------------------------------------------------------------------
(* The counter.                                                            *)

\* A step that leaves the counter, the frames and every job's place among
\* them alone keeps the counter exact.
LEMMA CountedUnchanged ==
  ASSUME CountInv, UNCHANGED <<count, loaded, blobs>>,
         \A q \in Requests : job'[q] = "read" => job[q] = "read",
         \A q \in blobs : job'[q] \in {"put", "read"} <=> job[q] \in {"put", "read"}
  PROVE  CountInv'
  <1>1. Counted' = Counted
    BY DEF Counted
  <1>2. ReadIsFresh'
    BY DEF CountInv, ReadIsFresh
  <1>3. QED
    BY <1>1, <1>2 DEF CountInv, CountExact

\* Only the job between its read and its write of the counter writes it, since
\* it holds the lock; its frame joins the counted ones in the same step.
LEMMA CountInvJob ==
  ASSUME LockInv, CountInv, NEW r \in Requests, Job(r)
  PROVE  CountInv'
  <1> USE DEF LockInv, TypeOK, MoveJob
  <1>1. CASE Shoot(r)
    BY <1>1, CountedUnchanged DEF Shoot, ThreadsAgree
  <1>2. CASE Put(r)
    <2>1. Counted' = Counted
      BY <1>2 DEF Put, Counted, ThreadsAgree
    <2>2. ReadIsFresh'
      BY <1>2 DEF Put, CountInv, ReadIsFresh
    <2>3. QED
      BY <1>2, <2>1, <2>2 DEF Put, CountInv, CountExact
  <1>3. CASE ReadCount(r)
    <2>1. Counted' = Counted
      BY <1>3 DEF ReadCount, Counted
    <2>2. ReadIsFresh'
      BY <1>3 DEF ReadCount, CountInv, ReadIsFresh
    <2>3. QED
      BY <1>3, <2>1, <2>2 DEF ReadCount, CountInv, CountExact
  <1>4. CASE WriteCount(r)
    <2>1. Counted' = Counted \cup {r} /\ r \notin Counted
      BY <1>4 DEF WriteCount, Counted, ThreadsAgree
    <2>2. IsFiniteSet(Counted)
      BY RequestsAssumption, FS_Subset DEF Counted
    <2>3. Cardinality(Counted') = Cardinality(Counted) + 1
      BY <2>1, <2>2, FS_AddElement
    <2>4. count' = count + 1
      BY <1>4 DEF WriteCount, CountInv, ReadIsFresh
    <2>5. \A q \in Requests : job'[q] # "read"
      <3>1. ASSUME NEW q \in Requests, job'[q] = "read" PROVE FALSE
        <4>1. job[q] = "read" /\ job[r] = "read" /\ q # r
          BY <1>4, <3>1 DEF WriteCount
        <4>2. Holds(q) /\ Holds(r)
          BY <4>1 DEF Holds, JobRunning
        <4>3. QED
          BY <4>1, <4>2 DEF LockHeldByItsJob, AtMostOneHolder
      <3>2. QED
        BY <3>1
    <2>6. QED
      BY <2>3, <2>4, <2>5 DEF CountInv, CountExact, ReadIsFresh
  <1>5. CASE PutFails(r)
    BY <1>5, CountedUnchanged DEF PutFails
  <1>6. CASE EnsurePublisher(r)
    BY <1>6, CountedUnchanged DEF EnsurePublisher
  <1>7. CASE Build(r) \/ BuildFails(r)
    BY <1>7, CountedUnchanged DEF Build, BuildFails
  <1>8. CASE StorePublisher(r) \/ TypesFail(r)
    BY <1>8, CountedUnchanged DEF StorePublisher, TypesFail
  <1>9. CASE PublishImage(r) \/ Release(r)
    BY <1>9, CountedUnchanged DEF PublishImage, Release
  <1>10. QED
    BY <1>1, <1>2, <1>3, <1>4, <1>5, <1>6, <1>7, <1>8, <1>9 DEF Job

\* Nothing but a job touches the counter; Spawn starts a job that has no frame.
LEMMA CountInvStep == LockInv /\ CountInv /\ [Next]_vars => CountInv'
  <1> SUFFICES ASSUME LockInv, CountInv, [Next]_vars PROVE CountInv'
    OBVIOUS
  <1>1. CASE Main \/ Stop \/ Kill \/ UNCHANGED vars
    BY <1>1, CountedUnchanged
       DEF Main, Go, DeclareService, SetHolder, StartHelpers, StartHelpersFails,
           StopHelpers, CloseImage, CloseImageFails, ForgetImage, CloseService,
           CloseSession, Exit, Stop, Kill, jobVars, pubVars, vars
  <1>2. ASSUME NEW r \in Requests, OnRequest(r) \/ Handler(r) PROVE CountInv'
    <2>1. CASE Spawn(r)
      BY <2>1, CountedUnchanged
         DEF Spawn, MoveCall, LockInv, TypeOK, ThreadsAgree
    <2>2. CASE OnRequest(r) \/ TryLock(r) \/ SpawnFails(r) \/ Reply(r)
      BY <2>2, CountedUnchanged DEF OnRequest, TryLock, SpawnFails, Reply, jobVars
    <2>3. QED
      BY <1>2, <2>1, <2>2 DEF Handler
  <1>3. QED
    BY <1>1, <1>2, CountInvJob DEF Next

LEMMA CountInvInit == Init => CountInv
  <1> SUFFICES ASSUME Init PROVE CountInv
    OBVIOUS
  <1>1. Counted = {}
    BY DEF Init, Counted
  <1>2. QED
    BY <1>1, FS_EmptySet DEF Init, CountInv, CountExact, ReadIsFresh

LEMMA CountInvAlways == SafeSpec => []CountInv
  BY LockInvAlways, CountInvInit, CountInvStep, PTL DEF SafeSpec

\* The capture counter, incremented without a lock of its own, counts every
\* frame put on the session once.
THEOREM CountIsExact == SafeSpec => []CountExact
  <1>1. CountInv => CountExact
    BY DEF CountInv
  <1>2. QED
    BY <1>1, CountInvAlways, PTL

-----------------------------------------------------------------------------
(* The lazy publisher.                                                     *)

LEMMA PublisherInvInit == Init => PublisherInv
  BY DEF Init, PublisherInv, BuilderFoundNone, ClosingIsClosed, NoPublisherLost

\* A job that builds a publisher is alone: nobody stores or builds another
\* between its test and its store.
LEMMA PublisherInvJob ==
  ASSUME LockInv, PublisherInv, NEW r \in Requests, Job(r)
  PROVE  PublisherInv'
  <1> USE RequestsAssumption
      DEF LockInv, TypeOK, MoveJob, PublisherInv, BuilderFoundNone, ClosingIsClosed,
          NoPublisherLost, mainVars, pubVars
  <1>1. CASE EnsurePublisher(r)
    BY <1>1 DEF EnsurePublisher
  <1>2. CASE Build(r)
    BY <1>2 DEF Build
  <1>3. CASE StorePublisher(r)
    <2>1. ASSUME NEW q \in Requests, q # r PROVE job[q] \notin {"building", "built"}
      <3>1. job[q] \in {"building", "built"} => Holds(q) /\ Holds(r)
        BY <1>3 DEF StorePublisher, Holds, JobRunning
      <3>2. QED
        BY <2>1, <3>1 DEF LockHeldByItsJob, AtMostOneHolder
    <2>2. BuilderFoundNone'
      BY <1>3, <2>1 DEF StorePublisher
    <2>3. ClosingIsClosed'
      BY <1>3 DEF StorePublisher
    <2>4. NoPublisherLost'
      BY <1>3, <2>1 DEF StorePublisher
    <2>5. QED
      BY <2>2, <2>3, <2>4
  <1>4. CASE Shoot(r) \/ Put(r) \/ PutFails(r) \/ ReadCount(r) \/ WriteCount(r)
    BY <1>4 DEF Shoot, Put, PutFails, ReadCount, WriteCount
  <1>5. CASE BuildFails(r) \/ PublishImage(r) \/ Release(r)
    BY <1>5 DEF BuildFails, PublishImage, Release
  <1>6. CASE TypesFail(r)
    BY <1>6 DEF TypesFail
  <1>7. QED
    BY <1>1, <1>2, <1>3, <1>4, <1>5, <1>6 DEF Job

\* close() forgets the publisher only after it has closed it, or failed to.
LEMMA PublisherInvMain ==
  ASSUME LockInv, PublisherInv, Main \/ Stop \/ Kill \/ UNCHANGED vars
  PROVE  PublisherInv'
  <1> USE DEF PublisherInv, BuilderFoundNone, ClosingIsClosed, NoPublisherLost, pubVars
  <1>1. CASE CloseImage \/ CloseImageFails
    BY <1>1 DEF CloseImage, CloseImageFails, Go
  <1>2. CASE ForgetImage
    BY <1>2 DEF ForgetImage, Go
  <1>3. CASE DeclareService \/ SetHolder \/ StartHelpers \/ StartHelpersFails
             \/ StopHelpers \/ CloseService \/ CloseSession \/ Exit
    BY <1>3 DEF DeclareService, SetHolder, StartHelpers, StartHelpersFails,
                StopHelpers, CloseService, CloseSession, Exit, Go
  <1>4. CASE Stop \/ Kill \/ UNCHANGED vars
    BY <1>4 DEF Stop, Kill, Go, jobVars, pubVars, vars
  <1>5. QED
    BY <1>1, <1>2, <1>3, <1>4 DEF Main

LEMMA PublisherInvHandler ==
  ASSUME LockInv, PublisherInv, NEW r \in Requests, OnRequest(r) \/ Handler(r)
  PROVE  PublisherInv'
  <1> USE DEF PublisherInv, BuilderFoundNone, ClosingIsClosed, NoPublisherLost, pubVars
  <1>1. CASE Spawn(r)
    BY <1>1 DEF Spawn, MoveCall, mainVars, LockInv, TypeOK, ThreadsAgree
  <1>2. CASE OnRequest(r) \/ TryLock(r) \/ SpawnFails(r) \/ Reply(r)
    BY <1>2 DEF OnRequest, TryLock, SpawnFails, Reply, mainVars, jobVars, pubVars
  <1>3. QED
    BY <1>1, <1>2 DEF Handler

LEMMA PublisherInvAlways == SafeSpec => []PublisherInv
  <1>1. LockInv /\ PublisherInv /\ [Next]_vars => PublisherInv'
    BY PublisherInvJob, PublisherInvMain, PublisherInvHandler DEF Next
  <1>2. QED
    BY <1>1, PublisherInvInit, LockInvAlways, PTL DEF SafeSpec

\* Every SDK publisher that is open is the one _publisher names, its builder is
\* about to store it, or what raised made the code forget it: the capture lock is
\* what makes the unlocked lazy initialisation safe, shutdown included.
THEOREM NoPublisherIsLost == SafeSpec => []NoPublisherLost
  <1>1. PublisherInv => NoPublisherLost
    BY DEF PublisherInv
  <1>2. QED
    BY <1>1, PublisherInvAlways, PTL

\* The three inductive invariants hold together.
THEOREM InvariantHolds == SafeSpec => []IInv
  <1>1. LockInv /\ CountInv /\ PublisherInv => IInv
    BY DEF IInv
  <1>2. QED
    BY <1>1, LockInvAlways, CountInvAlways, PublisherInvAlways, PTL

-----------------------------------------------------------------------------
(* The service implements the contract, as far as safety goes.             *)

\* A step of the threads of r moves at most the phase of r.
LEMMA OthersStay ==
  ASSUME LockInv, NEW r \in Requests, OnRequest(r) \/ Handler(r) \/ Job(r),
         NEW q \in Requests, q # r
  PROVE  PhaseOf(q)' = PhaseOf(q)
  <1>1. call'[q] = call[q] /\ job'[q] = job[q] /\ (q \in blobs' <=> q \in blobs)
    <2>1. CASE OnRequest(r) \/ Handler(r)
      BY <2>1 DEF OnRequest, Handler, TryLock, Spawn, SpawnFails, Reply, MoveCall,
                  jobVars, LockInv, TypeOK
    <2>2. CASE Job(r)
      BY <2>2 DEF Job, Shoot, Put, PutFails, ReadCount, WriteCount, EnsurePublisher,
                  Build, BuildFails, StorePublisher, TypesFail, PublishImage, Release,
                  MoveJob, LockInv, TypeOK
    <2>3. QED
      BY <2>1, <2>2
  <1>2. QED
    BY <1>1 DEF PhaseOf

\* The phase of r moves as one of the contract's actions wants it to.
LEMMA PhaseMoves ==
  ASSUME NEW r \in Requests, NEW from, NEW to, Alive, UNCHANGED main,
         PhaseOf(r) = from, PhaseOf(r)' = to,
         \A q \in Requests : q # r => PhaseOf(q)' = PhaseOf(q)
  PROVE  Contract!Move(r, from, to)
  BY DEF Contract!Move, Alive

LEMMA PhaseStays ==
  ASSUME NEW r \in Requests, UNCHANGED <<main, count>>, PhaseOf(r)' = PhaseOf(r),
         \A q \in Requests : q # r => PhaseOf(q)' = PhaseOf(q)
  PROVE  UNCHANGED Contract!vars
  BY DEF Contract!vars, Alive

\* The camera is busy for q exactly if q holds the lock.
LEMMA BusyHolds ==
  ASSUME LockInv, NEW q \in Requests
  PROVE  Contract!Busy(q) <=> Holds(q)
  BY DEF Contract!Busy, PhaseOf, Holds, JobRunning, LockInv, TypeOK, ThreadsAgree,
         CallPhases, JobPhases

LEMMA HandlerImplements ==
  ASSUME LockInv, NEW r \in Requests, OnRequest(r) \/ Handler(r)
  PROVE  [Contract!Next]_(Contract!vars)
  <1> USE DEF LockInv, TypeOK, MoveCall, mainVars, jobVars, pubVars
  <1>0. Alive /\ UNCHANGED <<main, count, blobs>>
        /\ \A q \in Requests : q # r => PhaseOf(q)' = PhaseOf(q)
    BY OthersStay DEF OnRequest, Handler, TryLock, Spawn, SpawnFails, Reply
  <1>1. CASE OnRequest(r)
    <2>1. CASE HolderSet
      <3>1. PhaseOf(r)' = PhaseOf(r)
        BY <1>1, <2>1 DEF OnRequest, PhaseOf
      <3>2. QED
        BY <1>0, <3>1, PhaseStays
    <2>2. CASE ~HolderSet
      <3>1. PhaseOf(r) = "idle" /\ PhaseOf(r)' = "dropped"
        BY <1>1, <2>2 DEF OnRequest, PhaseOf, ThreadsAgree
      <3>2. Contract!Drop(r)
        BY <1>0, <3>1, PhaseMoves DEF Contract!Drop
      <3>3. QED
        BY <3>2 DEF Contract!Next
    <2>3. QED
      BY <2>1, <2>2
  <1>2. CASE TryLock(r)
    <2>1. CASE lock
      <3>1. PhaseOf(r) = "idle" /\ PhaseOf(r)' = "refused"
        BY <1>2, <2>1 DEF TryLock, PhaseOf, ThreadsAgree
      <3>2. \E q \in Requests : Contract!Busy(q)
        BY <2>1, BusyHolds DEF LockHeldByItsJob, LockHasHolder
      <3>3. Contract!Refuse(r)
        BY <1>0, <3>1, <3>2, PhaseMoves DEF Contract!Refuse
      <3>4. QED
        BY <3>3 DEF Contract!Next
    <2>2. CASE ~lock
      <3>1. PhaseOf(r) = "idle" /\ PhaseOf(r)' = "working"
        BY <1>2, <2>2 DEF TryLock, PhaseOf, ThreadsAgree
      <3>2. \A q \in Requests : ~Contract!Busy(q)
        BY <2>2, BusyHolds DEF LockHeldByItsJob, LockHasHolder
      <3>3. Contract!Accept(r)
        BY <1>0, <3>1, <3>2, PhaseMoves DEF Contract!Accept
      <3>4. QED
        BY <3>3 DEF Contract!Next
    <2>3. QED
      BY <2>1, <2>2
  <1>3. CASE Spawn(r) \/ SpawnFails(r) \/ Reply(r)
    <2>1. PhaseOf(r)' = PhaseOf(r)
      BY <1>3 DEF Spawn, SpawnFails, Reply, PhaseOf, ThreadsAgree
    <2>2. QED
      BY <1>0, <2>1, PhaseStays
  <1>4. QED
    BY <1>1, <1>2, <1>3 DEF Handler

LEMMA JobImplements ==
  ASSUME LockInv, CountInv, NEW r \in Requests, Job(r)
  PROVE  [Contract!Next]_(Contract!vars)
  <1> USE DEF LockInv, TypeOK, MoveJob, mainVars
  <1>0. /\ Alive /\ UNCHANGED main
        /\ \A q \in Requests : q # r => PhaseOf(q)' = PhaseOf(q)
        /\ call'[r] = call[r]
        /\ call[r] \in {"spawned", "accepted"}
    BY OthersStay
       DEF Job, Shoot, Put, PutFails, ReadCount, WriteCount, EnsurePublisher,
           Build, BuildFails, StorePublisher, TypesFail, PublishImage, Release,
           ThreadsAgree
  <1>1. CASE Shoot(r)
    <2>1. CASE job'[r] = "hung"
      <3>1. PhaseOf(r) = "working" /\ PhaseOf(r)' = "hung"
        BY <1>0, <1>1, <2>1 DEF Shoot, PhaseOf
      <3>2. Contract!Hang(r)
        BY <1>0, <1>1, <3>1, PhaseMoves DEF Contract!Hang, Shoot
      <3>3. QED
        BY <3>2 DEF Contract!Next, Contract!Settle
    <2>2. CASE job'[r] # "hung"
      <3>1. PhaseOf(r)' = PhaseOf(r)
        BY <1>0, <1>1, <2>2 DEF Shoot, PhaseOf, ThreadsAgree
      <3>2. QED
        BY <1>0, <1>1, <3>1, PhaseStays DEF Shoot
    <2>3. QED
      BY <2>1, <2>2
  <1>2. CASE Put(r) \/ PutFails(r) \/ ReadCount(r)
    <2>1. PhaseOf(r)' = PhaseOf(r) /\ UNCHANGED count
      BY <1>0, <1>2 DEF Put, PutFails, ReadCount, PhaseOf, ThreadsAgree
    <2>2. QED
      BY <1>0, <2>1, PhaseStays
  <1>3. CASE WriteCount(r)
    <2>1. PhaseOf(r) = "working" /\ PhaseOf(r)' = "delivered"
      BY <1>0, <1>3 DEF WriteCount, PhaseOf, ThreadsAgree
    <2>2. count' = count + 1
      BY <1>3 DEF WriteCount, CountInv, ReadIsFresh
    <2>3. Contract!Deliver(r)
      BY <1>0, <2>1, <2>2, PhaseMoves DEF Contract!Deliver
    <2>4. QED
      BY <2>3 DEF Contract!Next, Contract!Settle
  <1>4. CASE \/ EnsurePublisher(r) \/ Build(r) \/ BuildFails(r)
             \/ StorePublisher(r) \/ TypesFail(r) \/ PublishImage(r)
    <2>1. PhaseOf(r)' = PhaseOf(r) /\ UNCHANGED count
      BY <1>0, <1>4 DEF EnsurePublisher, Build, BuildFails, StorePublisher,
                        TypesFail, PublishImage, PhaseOf, ThreadsAgree
    <2>2. QED
      BY <1>0, <2>1, PhaseStays
  <1>5. CASE Release(r)
    <2>1. UNCHANGED count
      BY <1>5 DEF Release
    <2>2. CASE r \in blobs
      <3>1. PhaseOf(r) = "delivered" /\ PhaseOf(r)' = "done"
        BY <1>0, <1>5, <2>2 DEF Release, PhaseOf
      <3>2. Contract!Finish(r)
        BY <1>0, <2>1, <3>1, PhaseMoves DEF Contract!Finish
      <3>3. QED
        BY <3>2 DEF Contract!Next, Contract!Settle
    <2>3. CASE r \notin blobs
      <3>1. PhaseOf(r) = "working" /\ PhaseOf(r)' = "failed"
        BY <1>0, <1>5, <2>3 DEF Release, PhaseOf
      <3>2. Contract!Fail(r)
        BY <1>0, <2>1, <3>1, PhaseMoves DEF Contract!Fail
      <3>3. QED
        BY <3>2 DEF Contract!Next, Contract!Settle
    <2>4. QED
      BY <2>2, <2>3
  <1>6. QED
    BY <1>1, <1>2, <1>3, <1>4, <1>5 DEF Job

\* The main thread is invisible to the contract but for the end of the process.
LEMMA MainImplements ==
  ASSUME Main \/ Stop \/ Kill \/ UNCHANGED vars
  PROVE  [Contract!Next]_(Contract!vars)
  <1>1. UNCHANGED <<call, job, blobs, count>>
    BY DEF Main, Go, DeclareService, SetHolder, StartHelpers, StartHelpersFails,
           StopHelpers, CloseImage, CloseImageFails, ForgetImage, CloseService,
           CloseSession, Exit, Stop, Kill, jobVars, pubVars, vars
  <1>2. \A r \in Requests : PhaseOf(r)' = PhaseOf(r)
    BY <1>1 DEF PhaseOf
  <1>3. CASE main' = "exited" /\ main # "exited"
    BY <1>1, <1>2, <1>3 DEF Contract!Next, Contract!Exit, Alive
  <1>4. CASE main' # "exited" \/ main = "exited"
    <2>1. Alive' = Alive
      BY <1>4 DEF Alive, Main, Go, DeclareService, SetHolder, StartHelpers,
             StartHelpersFails, StopHelpers, CloseImage, CloseImageFails, ForgetImage,
             CloseService, CloseSession, Exit, Stop, Kill, vars
    <2>2. QED
      BY <1>1, <1>2, <2>1 DEF Contract!vars
  <1>5. QED
    BY <1>3, <1>4

\* Whatever the threads do, an observer of the process sees the contract: one
\* capture at a time, refusals only of calls that meet a busy camera, and one
\* count per delivered frame.
THEOREM ImplementsContractSafety == SafeSpec => ContractSafety
  <1>1. Init => Contract!Init
    BY DEF Init, Contract!Init, PhaseOf, Alive
  <1>2. LockInv /\ CountInv /\ [Next]_vars => [Contract!Next]_(Contract!vars)
    BY HandlerImplements, JobImplements, MainImplements DEF Next
  <1>3. QED
    BY <1>1, <1>2, LockInvAlways, CountInvAlways, PTL DEF SafeSpec, ContractSafety
=============================================================================
