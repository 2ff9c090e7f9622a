-------------------------- MODULE PulseBroadcaster ---------------------------
(***************************************************************************)
(* The three periodic broadcasters of the Pi runtime, which have one shape *)
(* (heartbeat.py, ros2_core_temp_publisher.py): a daemon thread publishes  *)
(* through a lazily built client (an MQTT client or an SDK publisher), and *)
(* stop(), on the main thread, sets the stop event, joins the thread for   *)
(* at most two seconds and closes the client.                              *)
(*                                                                         *)
(*   heartbeat  pulses first and then waits; it holds a liveliness token   *)
(*   pgwaam     pulses once from start(), then waits and pulses in turn    *)
(*   coreTemp   likewise, but publishes only what the probe can read       *)
(*                                                                         *)
(* The client is built and stored without a lock, by whichever thread gets *)
(* there, and a pulse may outlast the join: the throttling probe alone may *)
(* take two seconds. What raises while the client is closed or the token   *)
(* is undeclared is swallowed, and the object forgotten all the same.      *)
(***************************************************************************)
EXTENDS Naturals, FiniteSets

NoClient == 0
Actors == {"main", "loop"}

VARIABLES
  kind,       \* which of the three broadcasters this is, for good
  main,       \* where the main thread is in start() and stop()
  loop,       \* where the broadcaster's thread is in _loop
  at,         \* at[a]: where the actor a is in publish, "out" if it is not
  hold,       \* hold[a]: the client a publishes through
  stopEvent,  \* _stop_event
  client,     \* _client or _publisher
  built,      \* how many clients have been built; the last one is number built
  open,       \* the clients built and not closed
  online,     \* the clients whose connection is up
  token,      \* the liveliness token: "held", or "lost" when undeclare raised
  late,       \* history: the join timed out
  lost,       \* history: the clients whose close raised
  passed      \* history: the loop had found no stop event for the pulse to come

vars == <<kind, main, loop, at, hold, stopEvent, client, built, open, online, token,
          late, lost, passed>>
clientVars == <<client, built, open, online>>
publishVars == <<at, hold, clientVars>>
history == <<late, lost, passed>>

\* start() publishes once itself, before there is a thread.
Immediate == kind # "heartbeat"
\* connect_async: the client is there before its connection.
Async == kind # "coreTemp"

TypeOK ==
  /\ kind \in {"heartbeat", "pgwaam", "coreTemp"}
  /\ main \in {"new", "first", "starting", "started", "joining", "joined", "closing",
               "stopped"}
  /\ loop \in {"off", "top", "waiting", "due", "publishing", "ended"}
  /\ at \in [Actors -> {"out", "test", "build", "store", "send"}]
  /\ hold \in [Actors -> 0 .. built]
  /\ stopEvent \in BOOLEAN
  /\ client \in 0 .. built
  /\ built \in Nat
  /\ open \subseteq 1 .. built
  /\ online \subseteq open
  /\ token \in {"none", "held", "lost"}
  /\ late \in BOOLEAN
  /\ lost \subseteq open
  /\ passed \in BOOLEAN

Init ==
  /\ kind \in {"heartbeat", "pgwaam", "coreTemp"}
  /\ main = "new"
  /\ loop = "off"
  /\ at = [a \in Actors |-> "out"]
  /\ hold = [a \in Actors |-> NoClient]
  /\ stopEvent = FALSE
  /\ client = NoClient
  /\ built = 0
  /\ open = {}
  /\ online = {}
  /\ token = "none"
  /\ late = FALSE
  /\ lost = {}
  /\ passed = FALSE

-----------------------------------------------------------------------------
(* publish: _ensure_client or _ensure_publisher, then send.                *)

Move(a, from, to) ==
  /\ at[a] = from
  /\ at' = [at EXCEPT ![a] = to]
  /\ UNCHANGED <<kind, main, loop, stopEvent, token, history>>

\* read_core_temp_c returns None: nothing to publish.
Unreadable(a) ==
  /\ kind = "coreTemp"
  /\ Move(a, "test", "out")
  /\ UNCHANGED <<hold, clientVars>>

Found(a) ==
  /\ client # NoClient
  /\ Move(a, "test", "send")
  /\ hold' = [hold EXCEPT ![a] = client]
  /\ UNCHANGED clientVars

\* Mutant of Missing: the client is built anew for every pulse.
MissingAlways(a) ==
  /\ Move(a, "test", "build")
  /\ UNCHANGED <<hold, clientVars>>

Missing(a) ==
  /\ client = NoClient
  /\ Move(a, "test", "build")
  /\ UNCHANGED <<hold, clientVars>>

Build(a) ==
  /\ Move(a, "build", "store")
  /\ built' = built + 1
  /\ open' = open \cup {built + 1}
  /\ online' = IF Async THEN online ELSE online \cup {built + 1}
  /\ hold' = [hold EXCEPT ![a] = built + 1]
  /\ UNCHANGED client

\* No library, a bad host, a router that is down: publish returns False.
BuildFails(a) ==
  /\ Move(a, "build", "out")
  /\ UNCHANGED <<hold, clientVars>>

Store(a) ==
  /\ Move(a, "store", "send")
  /\ client' = hold[a]
  /\ UNCHANGED <<hold, built, open, online>>

\* A client without a connection drops a message of QoS 0.
Send(a) ==
  /\ Move(a, "send", "out")
  /\ UNCHANGED <<hold, clientVars>>

Publish(a) ==
  \/ Unreadable(a) \/ Found(a) \/ Missing(a) \/ Build(a) \/ BuildFails(a)
  \/ Store(a) \/ Send(a)

\* The MQTT client's own thread connects, or reconnects, when the broker is up.
Connect(c) ==
  /\ c \in open \ online
  /\ online' = online \cup {c}
  /\ UNCHANGED <<kind, main, loop, at, hold, stopEvent, client, built, open, token,
                 history>>

Disconnect(c) ==
  /\ Async
  /\ c \in online
  /\ online' = online \ {c}
  /\ UNCHANGED <<kind, main, loop, at, hold, stopEvent, client, built, open, token,
                 history>>

-----------------------------------------------------------------------------
(* The broadcaster's thread: _loop.                                        *)

LoopTo(from, to) ==
  /\ loop = from
  /\ loop' = to
  /\ UNCHANGED <<kind, main, stopEvent, token, late, lost>>

\* The loop's condition; a pulse of the heartbeat is due at once.
Top ==
  /\ \/ stopEvent /\ LoopTo("top", "ended")
     \/ ~stopEvent /\ LoopTo("top", IF Immediate THEN "waiting" ELSE "due")
  /\ UNCHANGED <<passed, publishVars>>

\* Mutant of Wake: no second look at the stop event.
WakeBlindly ==
  /\ LoopTo("waiting", IF Immediate THEN "due" ELSE "top")
  /\ UNCHANGED <<passed, publishVars>>

\* The interval is over, or the stop event ends the wait.
Wake ==
  /\ \/ ~Immediate /\ LoopTo("waiting", "top")
     \/ Immediate /\ LoopTo("waiting", IF stopEvent THEN "ended" ELSE "due")
  /\ UNCHANGED <<passed, publishVars>>

\* The pulse that was due begins; stop may have come since the look at its event.
Begin ==
  /\ LoopTo("due", "publishing")
  /\ at' = [at EXCEPT !["loop"] = "test"]
  /\ passed' = FALSE
  /\ UNCHANGED <<hold, clientVars>>

\* Mutant of Pulsed: what publish raises ends the thread.
PulsedAndDone ==
  /\ at["loop"] = "out"
  /\ LoopTo("publishing", "ended")
  /\ UNCHANGED <<passed, publishVars>>

Pulsed ==
  /\ at["loop"] = "out"
  /\ LoopTo("publishing", IF Immediate THEN "top" ELSE "waiting")
  /\ UNCHANGED <<passed, publishVars>>

Loop == Top \/ Wake \/ Begin \/ Pulsed \/ Publish("loop")

-----------------------------------------------------------------------------
(* The main thread: start and stop.                                        *)

MainTo(from, to) ==
  /\ main = from
  /\ main' = to
  /\ UNCHANGED kind

\* _declare_liveliness: there may be no key, or the session refuses the token.
Start ==
  /\ MainTo("new", IF Immediate THEN "first" ELSE "starting")
  /\ at' = IF Immediate THEN [at EXCEPT !["main"] = "test"] ELSE at
  /\ token' \in IF kind = "heartbeat" THEN {"none", "held"} ELSE {"none"}
  /\ UNCHANGED <<loop, hold, stopEvent, history, clientVars>>

\* publish_once has returned.
FirstPulsed ==
  /\ at["main"] = "out"
  /\ MainTo("first", "starting")
  /\ UNCHANGED <<loop, stopEvent, token, history, publishVars>>

StartThread ==
  /\ MainTo("starting", "started")
  /\ loop' = "top"
  /\ UNCHANGED <<stopEvent, token, history, publishVars>>

Stop ==
  /\ MainTo("started", "joining")
  /\ stopEvent' = TRUE
  /\ passed' = (loop = "due")
  /\ UNCHANGED <<loop, token, late, lost, publishVars>>

\* undeclare, which may raise: the token is forgotten in any case.
Undeclare == token' \in IF token = "held" THEN {"none", "lost"} ELSE {token}

\* Mutant of Joined: the thread is not waited for.
JoinedAnyway ==
  /\ MainTo("joining", "joined")
  /\ Undeclare
  /\ UNCHANGED <<loop, stopEvent, history, publishVars>>

\* join returns, and the liveliness token goes.
Joined ==
  /\ loop = "ended"
  /\ MainTo("joining", "joined")
  /\ Undeclare
  /\ UNCHANGED <<loop, stopEvent, history, publishVars>>

\* Mutant of JoinTimeout: join has no timeout.
JoinForever ==
  /\ FALSE
  /\ UNCHANGED vars

\* Two seconds are over: stop goes on without the thread.
JoinTimeout ==
  /\ loop # "ended"
  /\ MainTo("joining", "joined")
  /\ late' = TRUE
  /\ Undeclare
  /\ UNCHANGED <<loop, stopEvent, lost, passed, publishVars>>

\* close finds nothing to close,
CloseNothing ==
  /\ client = NoClient
  /\ MainTo("joined", "stopped")
  /\ UNCHANGED <<loop, stopEvent, token, history, publishVars>>

\* or closes the client,
CloseClient ==
  /\ client # NoClient
  /\ MainTo("joined", "closing")
  /\ open' = open \ {client}
  /\ online' = online \ {client}
  /\ UNCHANGED <<loop, at, hold, stopEvent, client, built, token, history>>

\* or tries to: what loop_stop, disconnect or the publisher raises is swallowed;
CloseClientFails ==
  /\ client # NoClient
  /\ MainTo("joined", "closing")
  /\ lost' = lost \cup {client}
  /\ UNCHANGED <<loop, stopEvent, token, late, passed, publishVars>>

\* and forgets it either way.
Forget ==
  /\ MainTo("closing", "stopped")
  /\ client' = NoClient
  /\ UNCHANGED <<loop, at, hold, stopEvent, built, open, online, token, history>>

Main ==
  \/ Start \/ FirstPulsed \/ StartThread \/ Publish("main")
  \/ Joined \/ JoinTimeout
  \/ CloseNothing \/ CloseClient \/ CloseClientFails \/ Forget

Next == Main \/ Stop \/ Loop \/ \E c \in open : Connect(c) \/ Disconnect(c)

SafeSpec == Init /\ [][Next]_vars
\* The main thread runs, whatever the broadcaster's thread is kept by. Nothing
\* is assumed of the broker or the router, nor that stop is ever called.
Spec == SafeSpec /\ WF_vars(Main)

-----------------------------------------------------------------------------
(* Properties.                                                             *)

Building(a) == at[a] \in {"build", "store"}

\* A client that is open is the one close will find, or its builder is about to
\* store it, or close has tried it and failed.
Tracked ==
  \A c \in open :
    c = client \/ c \in lost \/ \E a \in Actors : at[a] = "store" /\ hold[a] = c

\* The client is built without a lock, by two threads, and closed by one of them:
\* at most one is open beside the one that could not be closed, and none is lost
\* but by that failure (_ensure_client and close, heartbeat.py:112-155).
OneClient == Tracked /\ Cardinality(open \ lost) <= 1 /\ Cardinality(lost) <= 1

\* When stop returns it holds no token, and unless the join timed out the thread
\* has ended and no client is open but one whose close raised
\* (heartbeat.py:228-239). A token whose undeclare raised stays with the session.
StoppedIsSilent ==
  main = "stopped" => token # "held" /\ (late \/ (loop = "ended" /\ open = lost))

\* Once stop has set the event the loop begins no pulse but one for which it had
\* already found the event unset (heartbeat.py:208, 226, 282-286): so at most one.
NoPulseStartsAfterStop ==
  [][stopEvent /\ at["loop"] = "out" /\ at'["loop"] # "out" => passed /\ ~passed']_vars

\* stop returns, even when the thread is stuck in a pulse (the join's timeout,
\* heartbeat.py:231).
StopCompletes == main = "joining" ~> main = "stopped"

\* The broadcaster's thread runs, too: every probe and every send comes back.
LoopRuns == WF_vars(Loop)

\* While a connection stays up the pulses go on through it, whatever failed
\* before: no failure stops the loop or makes it keep a client that is not the
\* connected one. (The temperature is not sent while its probe is unreadable.)
PulsesKeepArriving ==
  LoopRuns /\ <>[](Async /\ main = "started" /\ online # {})
    => []<>(at["loop"] = "send" /\ hold["loop"] \in online)

\* One actor at a time is inside publish: main only before it starts the thread,
\* the loop only while it pulses. Whoever builds has found no client.
PublishInv ==
  /\ at["main"] # "out" => main = "first"
  /\ at["loop"] # "out" => loop = "publishing"
  /\ main \in {"new", "first", "starting"} <=> loop = "off"
  /\ \A a \in Actors : Building(a) => client = NoClient
  /\ \A a \in Actors : at[a] = "build" => open \subseteq lost
  /\ \A a \in Actors : at[a] = "store" => hold[a] \in open

\* How far stop has come: only it closes, once, and forgets what it has closed.
StopInv ==
  /\ main = "closing" => client # NoClient /\ open \subseteq lost
  /\ main # "closing" => client \in open \cup {NoClient}
  /\ main \in {"joined", "closing"} => token # "held" /\ (late \/ loop = "ended")
  /\ lost # {} => main \in {"closing", "stopped"}
  /\ \A c, d \in lost : c = d
  /\ main \in {"joining", "joined", "closing", "stopped"} <=> stopEvent

\* Of the pulses that were due only the one that had passed its check is left.
DueInv ==
  /\ loop = "due" /\ stopEvent => passed
  /\ passed => loop = "due"

\* The inductive strengthening of OneClient, StoppedIsSilent and
\* NoPulseStartsAfterStop.
IInv == TypeOK /\ Tracked /\ PublishInv /\ StopInv /\ DueInv /\ StoppedIsSilent
=============================================================================
