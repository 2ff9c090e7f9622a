-------------------------- MODULE OnlinePulseProofs --------------------------
(***************************************************************************)
(* AliveIsFresh and DeadIsStale for every interval and every delay, from   *)
(* the inductive invariant IInv of OnlinePulse.                            *)
(***************************************************************************)
EXTENDS OnlinePulse, TLAPS

USE TimesAssumption DEF TimesAssumption, Limit, Turn, Nothing

LEMMA InitInv == Init => IInv
  <1> SUFFICES ASSUME Init PROVE IInv
    OBVIOUS
  <1>1. client \in BOOLEAN /\ link \in BOOLEAN /\ ~client /\ ~link
    BY Zenon DEF Init
  <1>2. TypeOK
    BY <1>1 DEF Init, TypeOK
  <1>3. Timely /\ LastSentRetained
    BY <1>1 DEF Init, Timely, LastSentRetained
  <1> QED BY <1>2, <1>3 DEF IInv

\* An age grows by one, up to the bound.
LEMMA OlderGrows ==
  ASSUME NEW age \in 0 .. Cap
  PROVE  /\ Older(age) \in 0 .. Cap
         /\ Older(age) <= age + 1
         /\ age < Cap => Older(age) = age + 1
         /\ age = Cap => Older(age) = Cap
  BY DEF Older

LEMMA StartInv == IInv /\ Start => IInv'
  BY DEF IInv, TypeOK, Timely, LastSentRetained, Start, ages

LEMMA PulseInv == IInv /\ (Pulse \/ BuildClientFails) => IInv'
  <1> SUFFICES ASSUME IInv, Pulse \/ BuildClientFails PROVE IInv'
    OBVIOUS
  <1>1. CASE BuildClient
    BY <1>1 DEF IInv, TypeOK, Timely, LastSentRetained, BuildClient, ages
  <1>2. CASE Send
    BY <1>2 DEF IInv, TypeOK, Timely, LastSentRetained, Send, EndPulse, ages
  <1>3. CASE Wake
    BY <1>3 DEF IInv, TypeOK, Timely, LastSentRetained, Wake, ages
  <1>4. CASE BuildClientFails
    BY <1>4 DEF IInv, TypeOK, Timely, LastSentRetained, BuildClientFails, EndPulse, ages
  <1> QED BY <1>1, <1>2, <1>3, <1>4 DEF Pulse

LEMMA EndInv == IInv /\ (Stop \/ Exit) => IInv'
  <1> SUFFICES ASSUME IInv, Stop \/ Exit PROVE IInv'
    OBVIOUS
  <1>1. client' \in BOOLEAN /\ link' \in BOOLEAN /\ ~client' /\ ~link'
    BY Zenon DEF Stop, Exit
  <1>2. CASE Stop
    BY <1>1, <1>2 DEF IInv, TypeOK, Timely, LastSentRetained, Stop
  <1>3. CASE Exit
    BY <1>1, <1>3 DEF IInv, TypeOK, Timely, LastSentRetained, Exit
  <1> QED BY <1>2, <1>3

LEMMA LinkInv == IInv /\ (Connect \/ Disconnect \/ BrokerRestarts) => IInv'
  <1> SUFFICES ASSUME IInv, Connect \/ Disconnect \/ BrokerRestarts PROVE IInv'
    OBVIOUS
  <1>1. CASE Connect
    BY <1>1 DEF IInv, TypeOK, Timely, LastSentRetained, Connect, ages
  <1>2. CASE Disconnect \/ BrokerRestarts
    <2>1. link' \in BOOLEAN /\ ~link'
      BY <1>2, Zenon DEF Disconnect, BrokerRestarts
    <2>2. UNCHANGED <<proc, loop, client, busy, since, downFor>> /\ linkFor' = 0
      BY <1>2 DEF Disconnect, BrokerRestarts
    <2>3. retained' = retained \/ retained' = Nothing
      BY <1>2 DEF Disconnect, BrokerRestarts
    <2> QED BY <2>1, <2>2, <2>3 DEF IInv, TypeOK, Timely, LastSentRetained
  <1> QED BY <1>1, <1>2

LEMMA TickInv == IInv /\ Tick => IInv'
  <1> SUFFICES ASSUME IInv, Tick PROVE IInv'
    OBVIOUS
  <1>1. TypeOK'
    BY OlderGrows DEF IInv, TypeOK, Timely, Tick
  <1>2. Timely'
    BY OlderGrows DEF IInv, TypeOK, Timely, Tick
  <1>3. LastSentRetained'
    <2> SUFFICES ASSUME proc = "up", linkFor' > since'
                 PROVE  retained' # Nothing /\ since' <= retained' /\ retained' <= since' + Slack
      BY DEF LastSentRetained, Tick
    <2>1. since' = since + 1 /\ since' < Cap
      BY <1>1 DEF Tick, IInv, TypeOK
    <2>2. linkFor > since
      BY <2>1, OlderGrows DEF Tick, IInv, TypeOK, Timely
    <2>3. retained # Nothing /\ since <= retained /\ retained <= since + Slack
      BY <2>2 DEF IInv, LastSentRetained
    <2> QED BY <2>1, <2>3, OlderGrows DEF Tick, IInv, TypeOK
  <1> QED BY <1>1, <1>2, <1>3 DEF IInv

LEMMA StepInv == IInv /\ [Next]_vars => IInv'
  <1> SUFFICES ASSUME IInv, [Next]_vars PROVE IInv'
    OBVIOUS
  <1>1. CASE UNCHANGED vars
    BY <1>1 DEF IInv, TypeOK, Timely, LastSentRetained, vars
  <1> QED BY <1>1, StartInv, PulseInv, EndInv, LinkInv, TickInv DEF Next

LEMMA Inductive == SafeSpec => []IInv
  BY InitInv, StepInv, PTL DEF SafeSpec

\* The types, for every interval, delay and bound.
THEOREM TypeCorrect == Spec => []TypeOK
  <1>1. IInv => TypeOK
    BY DEF IInv
  <1> QED BY <1>1, Inductive, PTL DEF Spec

\* A daemon that has been up and linked for a turn is seen to be alive.
THEOREM AliveSeen == Spec => []AliveIsFresh
  <1>1. IInv => AliveIsFresh
    BY DEF IInv, TypeOK, Timely, LastSentRetained, AliveIsFresh, Fresh
  <1> QED BY <1>1, Inductive, PTL DEF Spec

\* A daemon that has been stopped or dead for the limit is seen to be.
THEOREM DeathSeen == Spec => []DeadIsStale
  <1>1. IInv => DeadIsStale
    BY DEF IInv, TypeOK, Timely, DeadIsStale, Fresh
  <1> QED BY <1>1, Inductive, PTL DEF Spec
=============================================================================
