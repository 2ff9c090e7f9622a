----------------------------- MODULE OnlinePulse -----------------------------
(***************************************************************************)
(* The pgwaam pulse (PgwaamOnlineBroadcaster, heartbeat.py) as the         *)
(* mothership sees it, in time: a daemon stamps a pulse and publishes it   *)
(* once per interval, the broker retains the last one it has got, and the  *)
(* mothership reasons about staleness by its ts.                           *)
(*                                                                         *)
(* The daemon sets no will: when it dies, or its link does, the retained   *)
(* pulse goes on saying "online".  Its first pulse is published before     *)
(* connect_async can have connected, and a pulse without a link is lost.   *)
(* The broker may restart and forget.                                      *)
(*                                                                         *)
(* Time passes in ticks.  Event.wait wakes up, and a pulse is sent, with a *)
(* delay of at most Slack: Tick does not overrun either.  The clocks of    *)
(* daemon and mothership agree, so that ages are told instead of ts.       *)
(***************************************************************************)
EXTENDS Integers

CONSTANTS
  Interval,  \* settings.pgwaam.interval_s
  Slack,     \* the delay of a wake-up, and the time that a pulse takes, at most
  Cap        \* bound: ages beyond it are not told apart

\* The oldest that a retained pulse gets while pulses come, and the time in which
\* one must have come.
Limit == Interval + 3 * Slack
Turn == Interval + 2 * Slack

ASSUME TimesAssumption ==
  Interval \in Nat /\ Slack \in Nat /\ Cap \in Nat /\ Interval > 0 /\ Cap > Limit

Nothing == -1

VARIABLES
  proc,      \* the broadcaster is up, stopped, or gone with its process
  loop,      \* the broadcaster publishes, or waits
  client,    \* _MqttPublisher._client is there
  link,      \* it is connected
  busy,      \* the age of the pulse that is being published
  since,     \* the time since the last one was sent, or the broadcaster started
  linkFor,   \* how long the link has been up
  downFor,   \* how long it has not been up
  retained   \* the age of the pulse the broker retains

vars == <<proc, loop, client, link, busy, since, linkFor, downFor, retained>>
ages == <<linkFor, downFor, retained>>

TypeOK ==
  /\ proc \in {"up", "stopped", "down"}
  /\ loop \in {"publishing", "waiting"}
  /\ client \in BOOLEAN
  /\ link \in BOOLEAN
  /\ busy \in 0 .. Slack
  /\ since \in 0 .. Turn
  /\ linkFor \in 0 .. Cap
  /\ downFor \in 0 .. Cap
  /\ retained \in {Nothing} \cup 0 .. Cap

Init ==
  /\ proc = "down"
  /\ loop = "waiting"
  /\ client = FALSE
  /\ link = FALSE
  /\ busy = 0
  /\ since = 0
  /\ linkFor = 0
  /\ downFor = 0
  /\ retained = Nothing

-----------------------------------------------------------------------------
(* The daemon.                                                             *)

\* start: the first pulse is published at once.
Start ==
  /\ proc = "down"
  /\ proc' = "up"
  /\ loop' = "publishing"
  /\ busy' = 0 /\ since' = 0 /\ downFor' = 0
  /\ UNCHANGED <<client, link, linkFor, retained>>

\* _ensure_client: connect_async, which connects later.
BuildClient ==
  /\ loop = "publishing" /\ ~client
  /\ client' = TRUE
  /\ UNCHANGED <<proc, loop, link, busy, since, ages>>

\* The pulse is over; a loop that has been stopped ends.
EndPulse == loop' = "waiting" /\ since' = 0 /\ busy' = 0 /\ UNCHANGED <<proc, client, link>>

\* No client: publish returns False, and the next pulse tries again.
BuildClientFails ==
  /\ loop = "publishing" /\ ~client
  /\ EndPulse
  /\ UNCHANGED ages

\* Mutants of Send: only the first pulse is published with retain; the pulse is
\* stamped when it is sent.
SendFirstRetained ==
  /\ loop = "publishing" /\ client
  /\ retained' = IF link /\ retained = Nothing THEN busy ELSE retained
  /\ EndPulse
  /\ UNCHANGED <<linkFor, downFor>>

SendStamped ==
  /\ loop = "publishing" /\ client
  /\ retained' = IF link THEN 0 ELSE retained
  /\ EndPulse
  /\ UNCHANGED <<linkFor, downFor>>

\* client.publish with QoS 0: retained by the broker, or lost.
Send ==
  /\ loop = "publishing" /\ client
  /\ retained' = IF link THEN busy ELSE retained
  /\ EndPulse
  /\ UNCHANGED <<linkFor, downFor>>

\* Event.wait returns; the payload is built with the time of now.
Wake ==
  /\ proc = "up" /\ loop = "waiting" /\ since >= Interval
  /\ loop' = "publishing"
  /\ UNCHANGED <<proc, client, link, busy, since, ages>>

\* stop(): the client is closed, but a pulse that has outlasted the join goes on,
\* and builds another one.
Stop ==
  /\ proc = "up"
  /\ proc' = "stopped"
  /\ client' = FALSE /\ link' = FALSE /\ linkFor' = 0
  /\ UNCHANGED <<loop, busy, since, downFor, retained>>

\* The process ends or is killed: no other pulse, and no will.
Exit ==
  /\ proc # "down"
  /\ proc' = "down"
  /\ loop' = "waiting"
  /\ client' = FALSE /\ link' = FALSE
  /\ busy' = 0 /\ since' = 0 /\ linkFor' = 0
  /\ UNCHANGED <<downFor, retained>>

-----------------------------------------------------------------------------
(* The broker, and time.                                                   *)

Connect ==
  /\ client /\ ~link
  /\ link' = TRUE
  /\ UNCHANGED <<proc, loop, client, busy, since, ages>>

Disconnect ==
  /\ link
  /\ link' = FALSE /\ linkFor' = 0
  /\ UNCHANGED <<proc, loop, client, busy, since, downFor, retained>>

\* The links go down, and the retained pulse may be gone.
BrokerRestarts ==
  /\ link' = FALSE /\ linkFor' = 0
  /\ retained' \in {retained, Nothing}
  /\ UNCHANGED <<proc, loop, client, busy, since, downFor>>

Older(age) == IF age < Cap THEN age + 1 ELSE Cap

Tick ==
  /\ proc = "up" /\ loop = "waiting" => since < Interval + Slack
  /\ loop = "publishing" => busy < Slack
  /\ since' = IF proc = "up" THEN since + 1 ELSE since
  /\ busy' = IF loop = "publishing" THEN busy + 1 ELSE busy
  /\ linkFor' = IF link THEN Older(linkFor) ELSE linkFor
  /\ downFor' = IF proc = "up" THEN downFor ELSE Older(downFor)
  /\ retained' = IF retained = Nothing THEN Nothing ELSE Older(retained)
  /\ UNCHANGED <<proc, loop, client, link>>

Pulse == BuildClient \/ Send \/ Wake

Next ==
  \/ Start \/ Pulse \/ BuildClientFails \/ Stop \/ Exit
  \/ Connect \/ Disconnect \/ BrokerRestarts \/ Tick

SafeSpec == Init /\ [][Next]_vars
\* Time passes, and the daemon's threads run. Nobody has to start it, or to connect.
Spec == SafeSpec /\ WF_vars(Tick) /\ WF_vars(Pulse)

-----------------------------------------------------------------------------
(* Properties.                                                             *)

Fresh == retained # Nothing /\ retained <= Limit

\* "reason about staleness via ts" (heartbeat.py:94): a daemon that has been
\* running and linked for one turn is never taken for dead, whatever pulses were
\* lost before, the first one among them.
AliveIsFresh == proc = "up" /\ linkFor > Turn => Fresh

\* And one that has been stopped or dead for longer than the limit is never taken
\* for alive, although the retained pulse says "online" for ever, and although a
\* pulse may be sent after stop has returned.
DeadIsStale == proc # "up" /\ downFor > Limit => ~Fresh

\* A daemon that stays up and linked comes to be seen, and to stay so.
ComesOnline == <>[](proc = "up" /\ link) => <>[]Fresh

\* A pulse that was sent over a link that was up before is the one retained.
LastSentRetained ==
  proc = "up" /\ linkFor > since =>
    retained # Nothing /\ since <= retained /\ retained <= since + Slack

\* How far the loop can be, and a pulse be stamped, where the process is.
Timely ==
  /\ since <= Interval + Slack + busy
  /\ loop = "waiting" => busy = 0
  /\ proc = "down" => ~client /\ loop = "waiting"
  /\ loop = "publishing" /\ proc = "stopped" => busy >= downFor
  /\ link => client
  /\ ~link => linkFor = 0
  /\ proc = "up" => downFor = 0
  /\ retained # Nothing => retained >= downFor

\* The inductive strengthening of AliveIsFresh and DeadIsStale.
IInv == TypeOK /\ Timely /\ LastSentRetained
=============================================================================
