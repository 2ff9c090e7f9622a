------------------------ MODULE PulseBroadcasterProofs -----------------------
(***************************************************************************)
(* Proofs about the broadcasters, for each of their kinds and without a    *)
(* bound on the number of clients: no client is lost but by a close that   *)
(* raised, although the two threads build and close it without a lock, and *)
(* stop leaves nothing else behind unless its join timed out. The argument *)
(* is that the threads take turns in publish, so that a thread that found  *)
(* no client is still alone when it stores its own (PublishInv).           *)
(***************************************************************************)
EXTENDS PulseBroadcaster, FiniteSetTheorems, TLAPS

\* The two threads; their set is not expanded below.
LEMMA ActorFacts ==
  /\ "main" \in Actors /\ "loop" \in Actors
  /\ \A a \in Actors : a = "main" \/ a = "loop"
  BY DEF Actors

LEMMA InvInit == Init => IInv
  <1> SUFFICES ASSUME Init PROVE IInv
    OBVIOUS
  <1>1. TypeOK
    <2>1. at \in [Actors -> {"out", "test", "build", "store", "send"}]
      BY DEF Init
    <2>2. client \in 0 .. built /\ open \subseteq 1 .. built /\ online \subseteq open
      BY DEF Init, NoClient
    <2>3. QED
      BY <2>1, <2>2 DEF Init, TypeOK, NoClient
  <1>2. Tracked /\ StopInv /\ DueInv /\ StoppedIsSilent
    BY DEF Init, Tracked, StopInv, DueInv, StoppedIsSilent
  <1>3. PublishInv
    BY ActorFacts DEF Init, PublishInv, Building, NoClient
  <1>4. QED
    BY <1>1, <1>2, <1>3 DEF IInv

\* A step of publish, by either thread: the other one is not in it.
LEMMA PublishStep ==
  ASSUME IInv, NEW a \in Actors, Publish(a)
  PROVE  IInv'
  <1>1. UNCHANGED <<kind, main, loop, stopEvent, token, history>>
    BY DEF Publish, Unreadable, Found, Missing, Build, BuildFails, Store, Send, Move
  <1>2. /\ at' \in [Actors -> {"out", "test", "build", "store", "send"}]
        /\ \A b \in Actors : b # a => at'[b] = at[b]
        /\ at[a] # "out"
    BY DEF Publish, Unreadable, Found, Missing, Build, BuildFails, Store, Send, Move,
           IInv, TypeOK
  <1>3. \A b \in Actors : b # a => at[b] = "out"
    BY <1>2, ActorFacts DEF IInv, PublishInv
  <1>4. /\ loop # "ended"
        /\ Building(a) => client = NoClient
        /\ at[a] = "build" => open \subseteq lost
        /\ at[a] = "store" => hold[a] \in open
    BY <1>2, ActorFacts DEF IInv, PublishInv
  <1> USE DEF IInv, NoClient, Move, clientVars, history
  <1>5. TypeOK'
    <2>1. CASE Unreadable(a) \/ Found(a) \/ Missing(a) \/ BuildFails(a) \/ Store(a)
      <3>1. UNCHANGED <<built, open, online>>
        BY <2>1 DEF Unreadable, Found, Missing, BuildFails, Store
      <3>2. hold' \in [Actors -> 0 .. built] /\ client' \in 0 .. built
        BY <2>1, <1>3 DEF Unreadable, Found, Missing, BuildFails, Store, TypeOK
      <3>3. QED
        BY <1>1, <1>2, <3>1, <3>2 DEF TypeOK
    <2>2. CASE Build(a)
      BY <1>1, <1>2, <2>2 DEF Build, TypeOK
    <2>3. CASE Send(a)
      BY <1>1, <1>2, <2>3 DEF Send, TypeOK
    <2>4. QED
      BY <2>1, <2>2, <2>3 DEF Publish
  <1>6. Tracked'
    <2>1. CASE Unreadable(a) \/ Found(a) \/ Missing(a) \/ BuildFails(a) \/ Send(a)
      <3>1. UNCHANGED <<client, open>> /\ at[a] # "store"
        BY <2>1 DEF Unreadable, Found, Missing, BuildFails, Send
      <3>2. \A c \in open : c = client \/ c \in lost
        BY <1>3, <3>1, ActorFacts DEF Tracked
      <3>3. QED
        BY <1>1, <3>1, <3>2 DEF Tracked
    <2>2. CASE Build(a)
      <3>1. open' \subseteq lost \cup {built + 1}
        BY <1>4, <2>2 DEF Build
      <3>2. at'[a] = "store" /\ hold'[a] = built + 1
        BY <1>2, <2>2 DEF Build, TypeOK
      <3>3. QED
        BY <1>1, <3>1, <3>2 DEF Tracked
    <2>3. CASE Store(a)
      <3>1. client = NoClient
        BY <1>4, <2>3 DEF Store, Building
      <3>2. \A c \in open : c = hold[a] \/ c \in lost
        BY <1>3, <3>1 DEF Tracked, TypeOK
      <3>3. QED
        BY <1>1, <2>3, <3>2 DEF Store, Tracked
    <2>4. QED
      BY <2>1, <2>2, <2>3 DEF Publish
  <1>7. PublishInv'
    <2>1. \A b \in Actors : b # a => at'[b] = "out"
      BY <1>2, <1>3
    <2>2. at'[a] \in {"build", "store"} => client' = NoClient
      BY <1>2, <1>4 DEF Publish, Unreadable, Found, Missing, Build, BuildFails, Store,
                        Send, TypeOK, Building
    <2>3. at'[a] = "build" => open' \subseteq lost'
      <3>1. CASE Missing(a)
        <4>1. open \subseteq lost
          BY <1>3, <3>1 DEF Missing, Tracked, TypeOK
        <4>2. QED
          BY <1>1, <3>1, <4>1 DEF Missing
      <3>2. CASE ~Missing(a)
        BY <1>2, <3>2 DEF Publish, Unreadable, Found, Build, BuildFails, Store, Send,
                          TypeOK
      <3>3. QED
        BY <3>1, <3>2
    <2>4. at'[a] = "store" => hold'[a] \in open'
      BY <1>2 DEF Publish, Unreadable, Found, Missing, Build, BuildFails, Store, Send,
                  TypeOK
    <2>5. /\ at'["main"] # "out" => main = "first"
          /\ at'["loop"] # "out" => loop = "publishing"
      BY <1>2, <2>1, ActorFacts DEF PublishInv
    <2>6. QED
      BY <1>1, <2>1, <2>2, <2>3, <2>4, <2>5 DEF PublishInv, Building
  <1>8. (StopInv /\ DueInv /\ StoppedIsSilent)'
    <2>1. main = "closing" => client' # NoClient /\ open' \subseteq lost
      BY <1>4 DEF Publish, Unreadable, Found, Missing, Build, BuildFails, Store, Send,
                  StopInv, Building
    <2>2. main # "closing" => client' \in open' \cup {NoClient}
      BY <1>4 DEF Publish, Unreadable, Found, Missing, Build, BuildFails, Store, Send,
                  StopInv, Building
    <2>3. QED
      BY <1>1, <1>4, <2>1, <2>2 DEF StopInv, DueInv, StoppedIsSilent
  <1>9. QED
    BY <1>5, <1>6, <1>7, <1>8

\* A step of the broadcaster's thread outside publish.
LEMMA LoopStep ==
  ASSUME IInv, Top \/ Wake \/ Begin \/ Pulsed
  PROVE  IInv'
  <1> USE ActorFacts DEF IInv, LoopTo, clientVars, publishVars
  <1>1. /\ UNCHANGED <<kind, main, hold, stopEvent, token, late, lost, client, built,
                       open, online>>
        /\ loop \notin {"off", "ended"}
        /\ loop' \in {"top", "waiting", "due", "publishing", "ended"}
        /\ at["loop"] = "out"
        /\ at' = IF loop' = "publishing" THEN [at EXCEPT !["loop"] = "test"] ELSE at
        /\ passed' \in BOOLEAN
    BY DEF Top, Wake, Begin, Pulsed, PublishInv, TypeOK
  <1>2. at' \in [Actors -> {"out", "test", "build", "store", "send"}]
    BY <1>1 DEF TypeOK
  <1>3. \A a \in Actors : at'[a] = at[a] \/ at'[a] = "test"
    BY <1>1 DEF TypeOK
  <1>4. TypeOK'
    BY <1>1, <1>2 DEF TypeOK
  <1>5. Tracked'
    <2>1. \A a \in Actors : at[a] = "store" => at'[a] = "store"
      BY <1>1 DEF TypeOK
    <2>2. QED
      BY <1>1, <2>1 DEF Tracked
  <1>6. PublishInv'
    <2>1. at'["main"] = at["main"]
      BY <1>1 DEF TypeOK
    <2>2. at'["loop"] # "out" => loop' = "publishing"
      BY <1>1
    <2>3. QED
      BY <1>1, <1>3, <2>1, <2>2 DEF PublishInv, Building
  <1>7. (StopInv /\ StoppedIsSilent)'
    BY <1>1 DEF StopInv, StoppedIsSilent
  <1>8. DueInv'
    BY DEF Top, Wake, Begin, Pulsed, DueInv
  <1>9. QED
    BY <1>4, <1>5, <1>6, <1>7, <1>8

\* A step of close that closes nothing: a late thread may be in publish meanwhile,
\* but it builds no client while there is one to close.
LEMMA CloseStep ==
  ASSUME IInv, CloseNothing \/ CloseClientFails \/ Forget
  PROVE  IInv'
  <1> USE DEF IInv
  <1>1. /\ UNCHANGED <<kind, loop, at, hold, stopEvent, built, open, online, token, late,
                       passed>>
        /\ main \in {"joined", "closing"} /\ main' \in {"closing", "stopped"}
        /\ at["main"] = "out" /\ loop # "off" /\ stopEvent
        /\ token # "held" /\ (late \/ loop = "ended")
    BY DEF CloseNothing, CloseClientFails, Forget, MainTo, publishVars, clientVars,
           history, PublishInv, StopInv
  <1>2. /\ client' \in 0 .. built /\ (client = NoClient => client' = NoClient)
        /\ lost' \subseteq open /\ lost \subseteq lost'
        /\ \A c, d \in lost' : c = d
        /\ main' = "closing" => client' # NoClient
        /\ main' = "stopped" => client' \in open \cup {NoClient}
    <2>1. CASE CloseNothing
      BY <2>1 DEF CloseNothing, MainTo, publishVars, clientVars, history, TypeOK, StopInv
    <2>2. CASE Forget
      BY <2>2 DEF Forget, MainTo, history, TypeOK, StopInv, NoClient
    <2>3. CASE CloseClientFails
      <3>1. /\ lost = {} /\ lost' = {client} /\ client' = client
            /\ client # NoClient
        BY <2>3 DEF CloseClientFails, MainTo, publishVars, clientVars, StopInv
      <3>2. client \in open
        BY <2>3, <3>1 DEF CloseClientFails, MainTo, StopInv
      <3>3. QED
        BY <3>1, <3>2 DEF TypeOK
    <2>4. QED
      BY <2>1, <2>2, <2>3
  <1>3. /\ main' = "closing" => open \subseteq lost'
        /\ main' = "stopped" /\ loop = "ended" => open = lost'
        /\ \A c \in open : c = client => c = client' \/ c \in lost'
    <2>1. loop = "ended" => at["loop"] = "out"
      BY DEF PublishInv
    <2>2. CASE CloseNothing
      <3>1. main' = "stopped" /\ client = NoClient /\ client' = client /\ lost' = lost
        BY <2>2 DEF CloseNothing, MainTo, publishVars, clientVars, history
      <3>2. ASSUME loop = "ended" PROVE open = lost
        <4>1. at["main"] = "out" /\ at["loop"] = "out"
          BY <1>1, <2>1, <3>2
        <4>2. \A c \in open : c = client \/ c \in lost
          BY <4>1, ActorFacts DEF Tracked
        <4>3. lost \subseteq open /\ client \notin open
          BY <3>1 DEF TypeOK, NoClient
        <4>4. QED
          BY <4>2, <4>3
      <3>3. QED
        BY <3>1, <3>2
    <2>3. CASE CloseClientFails
      <3>1. /\ main' = "closing" /\ client # NoClient /\ client' = client
            /\ client \in lost' /\ lost \subseteq lost'
        BY <2>3 DEF CloseClientFails, MainTo, publishVars, clientVars
      <3>2. QED
        BY <3>1, ActorFacts DEF Tracked, PublishInv, Building
    <2>4. CASE Forget
      BY <2>4 DEF Forget, MainTo, history, StopInv, TypeOK
    <2>5. QED
      BY <2>2, <2>3, <2>4
  <1>4. TypeOK'
    BY <1>1, <1>2 DEF TypeOK
  <1>5. Tracked'
    BY <1>1, <1>2, <1>3 DEF Tracked
  <1>6. PublishInv'
    BY <1>1, <1>2 DEF PublishInv, Building
  <1>7. (StopInv /\ DueInv /\ StoppedIsSilent)'
    BY <1>1, <1>2, <1>3 DEF StopInv, DueInv, StoppedIsSilent
  <1>8. QED
    BY <1>4, <1>5, <1>6, <1>7

\* A step of start or stop.
LEMMA MainStep ==
  ASSUME IInv,
         \/ Start \/ FirstPulsed \/ StartThread \/ Stop \/ Joined \/ JoinTimeout
         \/ CloseNothing \/ CloseClient \/ CloseClientFails \/ Forget
  PROVE  IInv'
  <1> USE ActorFacts
      DEF IInv, TypeOK, Tracked, PublishInv, StopInv, DueInv, StoppedIsSilent, Building,
          NoClient, MainTo, Undeclare, publishVars, clientVars, history
  <1>1. CASE Start
    BY <1>1 DEF Start
  <1>2. CASE FirstPulsed
    BY <1>2 DEF FirstPulsed
  <1>3. CASE StartThread
    BY <1>3 DEF StartThread
  <1>4. CASE Stop
    BY <1>4 DEF Stop
  <1>5. CASE Joined
    BY <1>5 DEF Joined
  <1>6. CASE JoinTimeout
    BY <1>6 DEF JoinTimeout
  <1>7. CASE CloseNothing
    BY <1>7, CloseStep
  <1>8. CASE CloseClient
    BY <1>8 DEF CloseClient
  <1>9. CASE CloseClientFails
    BY <1>9, CloseStep
  <1>10. CASE Forget
    BY <1>10, CloseStep
  <1>11. QED
    BY <1>1, <1>2, <1>3, <1>4, <1>5, <1>6, <1>7, <1>8, <1>9, <1>10

LEMMA InvStep == IInv /\ [Next]_vars => IInv'
  <1> SUFFICES ASSUME IInv, [Next]_vars PROVE IInv'
    OBVIOUS
  <1>1. ASSUME NEW c \in open, Connect(c) \/ Disconnect(c) PROVE IInv'
    <2>1. online' \subseteq open
      BY <1>1 DEF Connect, Disconnect, IInv, TypeOK
    <2>2. UNCHANGED <<kind, main, loop, at, hold, stopEvent, client, built, open, token,
                      history>>
      BY <1>1 DEF Connect, Disconnect
    <2>3. QED
      BY <2>1, <2>2 DEF IInv, TypeOK, Tracked, PublishInv, StopInv, DueInv,
                        StoppedIsSilent, Building, history
  <1>2. CASE UNCHANGED vars
    BY <1>2 DEF vars, IInv, TypeOK, Tracked, PublishInv, StopInv, DueInv,
                StoppedIsSilent, Building, history
  <1>3. QED
    BY <1>1, <1>2, ActorFacts, PublishStep, LoopStep, MainStep DEF Next, Main, Loop

\* The whole of what the other theorems rest on.
THEOREM InvAlways == SafeSpec => []IInv
  BY InvInit, InvStep, PTL DEF SafeSpec

\* Every variable keeps its type.
THEOREM TypeCorrect == SafeSpec => []TypeOK
  <1>1. IInv => TypeOK
    BY DEF IInv
  <1>2. QED
    BY <1>1, InvAlways, PTL

\* At most one client is open beside the one whose close raised, and the
\* broadcaster knows it.
THEOREM OnlyOneClient == SafeSpec => []OneClient
  <1>1. IInv => OneClient
    <2> SUFFICES ASSUME IInv
                 PROVE  Cardinality(open \ lost) <= 1 /\ Cardinality(lost) <= 1
      BY DEF IInv, OneClient
    <2>1. ASSUME NEW S, \E x : S \subseteq {x}
          PROVE  Cardinality(S) <= 1
      <3>1. PICK x : S \subseteq {x}
        BY <2>1
      <3>2. S = {} \/ S = {x}
        BY <3>1
      <3>3. Cardinality({}) = 0 /\ Cardinality({x}) = 1
        BY FS_EmptySet, FS_Singleton
      <3>4. QED
        BY <3>2, <3>3
    <2>2. \E x : open \ lost \subseteq {x}
      BY ActorFacts DEF IInv, TypeOK, Tracked, PublishInv, Building, NoClient
    <2>3. \E x : lost \subseteq {x}
      BY DEF IInv, StopInv
    <2>4. QED
      BY <2>1, <2>2, <2>3
  <1>2. QED
    BY <1>1, InvAlways, PTL

\* stop keeps no token, and no thread and no client unless the join timed out or
\* closing the client raised.
THEOREM StopLeavesNothing == SafeSpec => []StoppedIsSilent
  <1>1. IInv => StoppedIsSilent
    BY DEF IInv
  <1>2. QED
    BY <1>1, InvAlways, PTL

\* Once stop has set the event only the pulse that had passed its check begins.
THEOREM NoPulseAfterStop == SafeSpec => NoPulseStartsAfterStop
  <1>1. IInv /\ [Next]_vars
          => [stopEvent /\ at["loop"] = "out" /\ at'["loop"] # "out"
                => passed /\ ~passed']_vars
    <2> SUFFICES ASSUME IInv, Next, stopEvent, at["loop"] = "out", at'["loop"] # "out"
                 PROVE  passed /\ ~passed'
      BY DEF vars
    <2>1. CASE Begin
      BY <2>1 DEF Begin, LoopTo, IInv, DueInv
    <2>2. CASE ~Begin
      BY <2>2, ActorFacts
      DEF Next, Main, Loop, Stop, Publish, Unreadable, Found, Missing, Build,
             BuildFails, Store, Send, Move, Top, Wake, Pulsed, LoopTo, Start,
             FirstPulsed, StartThread, Joined, JoinTimeout, CloseNothing, CloseClient,
             CloseClientFails, Forget, MainTo, Connect, Disconnect, publishVars, IInv,
             TypeOK, PublishInv
    <2>3. QED
      BY <2>1, <2>2
  <1>2. QED
    BY <1>1, InvAlways, PTL DEF SafeSpec, NoPulseStartsAfterStop
=============================================================================
