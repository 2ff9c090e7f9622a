------------------------ MODULE ExposureCaptureProofs ------------------------
(***************************************************************************)
(* Proofs about the parameter server and the capture job that reads it,    *)
(* for any parameters, descriptors, payloads, number of requests at once,  *)
(* and camera.                                                             *)
(*                                                                         *)
(* The server: the backend only holds values its descriptors allow, and    *)
(* the subscribers of /parameter_events agree with it on whatever was not  *)
(* fought over.  The job: what it has read is explained by the moments of  *)
(* its reading (ReadTruly), what the camera has is explained by what       *)
(* gphoto2 has come to (SetTruly), and each parameter is in the command    *)
(* line once at most, since _param_names are the keys of a dictionary.     *)
(***************************************************************************)
EXTENDS ExposureCapture, TLAPS

-----------------------------------------------------------------------------
(* The parameter server.                                                   *)

Base == TypeOK /\ Progress /\ AtomicAccepts /\ HasLast

LEMMA BaseInit == Init => Base
  <1> SUFFICES ASSUME Init PROVE Base
    OBVIOUS
  <1>1. store \in [Names -> Values] /\ mirror \in [Names -> Values]
    BY InitialAssumption DEF Init, Values
  <1>2. \A h \in Handlers : accepted[h] \subseteq 1 .. done[h]
                            /\ 1 .. done[h] \subseteq DOMAIN op[h].params
    BY DEF Init
  <1>3. QED
    BY <1>1, <1>2 DEF Init, Base, TypeOK, Progress, PCs, NoOp, AtomicAccepts, HasLast,
                        Writing, Wrote

\* Which request a handler serves, and what a turn works on.
LEMMA OpFacts ==
  ASSUME TypeOK, NEW h \in Handlers, 1 .. done[h] # {} \/ op[h] # NoOp
  PROVE  /\ op[h].kind \in Kinds /\ op[h].params \in Payloads
         /\ Len(op[h].params) \in Nat /\ DOMAIN op[h].params = 1 .. Len(op[h].params)
         /\ \A i \in DOMAIN op[h].params : op[h].params[i].value \in Values
  <1>1. op[h] # NoOp
    BY DEF TypeOK, NoOp
  <1>2. op[h] \in [kind : Kinds, params : Payloads]
    BY <1>1 DEF TypeOK
  <1>3. QED
    BY <1>2, PayloadAssumption DEF Values

\* The three actions in which a parameter has its turn.
LEMMA TurnFacts ==
  ASSUME Base, NEW h \in Handlers, TakeTurn(h)
  PROVE  /\ done' \in [Handlers -> Nat]
         /\ done'[h] = Turn(h) /\ Turn(h) \in Nat /\ Turn(h) = done[h] + 1
         /\ Turn(h) \in DOMAIN op[h].params
         /\ 1 .. Turn(h) = 1 .. done[h] \cup {Turn(h)}
         /\ \A g \in Handlers : g # h => done'[g] = done[g]
         /\ \A g \in Handlers : 1 .. done[g] \subseteq 1 .. done'[g]
                               /\ 1 .. done'[g] \subseteq DOMAIN op[g].params
         /\ Current(h).value \in Values
         /\ pc[h] = "applying"
  <1> USE DEF Base, TypeOK
  <1>1. Turn(h) \in Nat /\ Turn(h) = done[h] + 1 /\ Turn(h) \in DOMAIN op[h].params
    BY DEF TakeTurn, Turn
  <1>2. /\ done' \in [Handlers -> Nat] /\ done'[h] = Turn(h)
        /\ \A g \in Handlers : g # h => done'[g] = done[g]
    BY <1>1 DEF TakeTurn
  <1>3. op[h] # NoOp
    BY DEF TakeTurn, Progress
  <1>4. 1 .. Turn(h) \subseteq DOMAIN op[h].params /\ Current(h).value \in Values
    BY <1>1, <1>3, OpFacts DEF Current
  <1>5. 1 .. Turn(h) = 1 .. done[h] \cup {Turn(h)}
    <2>1. done[h] \in Nat
      OBVIOUS
    <2>2. \A x : x \in 1 .. Turn(h) <=> x \in 1 .. done[h] \/ x = Turn(h)
      BY <1>1, <2>1
    <2>3. QED
      BY <2>2
  <1>6. QED
    BY <1>1, <1>2, <1>4, <1>5 DEF TakeTurn

\* What an event announces is what the backend took, and of each name the last.
LEMMA AnnounceFacts ==
  ASSUME Base, NEW h \in Handlers, pc[h] = "emitting", NEW n \in Names
  PROVE  IF Wrote(h, n)
           THEN \E i \in accepted[h] :
                  LastWritten(h, n, i) /\ Announce(h)[n] = op[h].params[i].value
           ELSE Announce(h)[n] = mirror[n]
  <1> USE DEF Base
  <1>1. op[h] # NoOp /\ done[h] = Len(op[h].params)
    BY DEF Progress
  <1>2. Announced(h) = accepted[h]
    BY <1>1, OpFacts DEF Announced, AtomicAccepts, Writing
  <1> DEFINE at == {i \in Announced(h) : op[h].params[i].name = n}
  <1>3. Announce(h)[n] = IF at = {} THEN mirror[n]
                         ELSE op[h].params[CHOOSE i \in at : \A j \in at : j <= i].value
    BY DEF Announce
  <1>4. CASE Wrote(h, n)
    <2>1. PICK k \in accepted[h] : LastWritten(h, n, k)
      BY <1>4 DEF HasLast
    <2>2. k \in at /\ \A j \in at : j <= k
      BY <1>2, <2>1 DEF LastWritten
    <2> DEFINE l == CHOOSE i \in at : \A j \in at : j <= i
    <2>3. l \in at /\ \A j \in at : j <= l
      BY <2>2
    <2>4. LastWritten(h, n, l)
      BY <1>2, <2>3 DEF LastWritten
    <2>5. Announce(h)[n] = op[h].params[l].value
      BY <1>3, <2>2
    <2>6. QED
      BY <1>4, <2>4, <2>5 DEF LastWritten
  <1>5. CASE ~Wrote(h, n)
    <2>1. at = {}
      BY <1>2, <1>5 DEF Wrote
    <2>2. QED
      BY <1>3, <1>5, <2>1
  <1>6. QED
    BY <1>4, <1>5

LEMMA BaseStep == Base /\ [Next]_vars => Base'
  <1> SUFFICES ASSUME Base, [Next]_vars PROVE Base'
    OBVIOUS
  <1>1. ASSUME NEW h \in Handlers, NEW kind \in Kinds, NEW params \in Payloads,
               Receive(h, kind, params)
        PROVE  Base'
    <2>1. [kind |-> kind, params |-> params] # NoOp
      BY DEF NoOp, Kinds
    <2>2. done[h] = 0 /\ 1 .. done[h] = {} /\ accepted[h] = {}
      BY <1>1 DEF Receive, Base, Progress, TypeOK
    <2>3. TypeOK' /\ Progress'
      BY <1>1, <2>1, <2>2 DEF Receive, Validated, PCs, Base, TypeOK, Progress
    <2>4. AtomicAccepts'
      BY <1>1, <2>2 DEF Receive, Base, TypeOK, AtomicAccepts, Writing
    <2>5. \A g \in Handlers : g # h => op'[g] = op[g]
      BY <1>1 DEF Receive, Base, TypeOK
    <2>6. HasLast'
      BY <1>1, <2>2, <2>5 DEF Receive, Base, HasLast, Wrote, LastWritten
    <2>7. QED
      BY <2>3, <2>4, <2>6 DEF Base
  <1>2. ASSUME NEW h \in Handlers, Set(h) PROVE Base'
    <2>1. TakeTurn(h)
      BY <1>2 DEF Set
    <2>2. /\ store' \in [Names -> Values]
          /\ accepted' \in [Handlers -> SUBSET Nat]
          /\ accepted'[h] = accepted[h] \cup {Turn(h)}
          /\ \A g \in Handlers : g # h => accepted'[g] = accepted[g]
      BY <1>2, <2>1, TurnFacts DEF Set, Takes, Base, TypeOK
    <2>3. \A g \in Handlers : accepted'[g] \subseteq 1 .. done'[g]
      BY <2>1, <2>2, TurnFacts DEF Base, TypeOK
    <2>4. TypeOK'
      BY <1>2, <2>1, <2>2, <2>3, TurnFacts DEF Set, TakeTurn, Base, TypeOK
    <2>5. Progress'
      BY <1>2, <2>1, TurnFacts DEF Set, TakeTurn, Base, Progress
    <2>6. AtomicAccepts'
      <3> SUFFICES ASSUME NEW g \in Handlers, Writing(g)', op'[g].kind = "atomic"
                   PROVE  accepted'[g] = 1 .. done'[g]
        BY DEF AtomicAccepts
      <3>1. accepted[g] = 1 .. done[g]
        BY <1>2, <2>1 DEF Set, TakeTurn, Base, AtomicAccepts, Writing
      <3>2. CASE g = h
        BY <2>1, <2>2, <3>1, <3>2, TurnFacts
      <3>3. CASE g # h
        BY <2>1, <2>2, <3>1, <3>3, TurnFacts
      <3>4. QED
        BY <3>2, <3>3
    <2>7. HasLast'
      <3> SUFFICES ASSUME NEW g \in Handlers, NEW n \in Names, Wrote(g, n)'
                   PROVE  \E i \in accepted'[g] : LastWritten(g, n, i)'
        BY DEF HasLast
      <3>1. op' = op
        BY <2>1 DEF TakeTurn
      <3>2. CASE g = h /\ Current(h).name = n
        <4>1. Turn(h) \in accepted'[h] /\ op'[h].params[Turn(h)].name = n
          BY <2>2, <3>1, <3>2 DEF Current
        <4>2. \A j \in accepted'[h] : j <= Turn(h)
          BY <2>1, <2>3, TurnFacts
        <4>3. QED
          BY <3>2, <4>1, <4>2 DEF LastWritten
      <3>3. CASE ~(g = h /\ Current(h).name = n)
        <4>1. Wrote(g, n)
          BY <2>2, <3>1, <3>3 DEF Wrote, Current
        <4>2. PICK i \in accepted[g] : LastWritten(g, n, i)
          BY <4>1 DEF Base, HasLast
        <4>3. LastWritten(g, n, i)'
          BY <2>2, <3>1, <3>3, <4>2 DEF LastWritten, Current
        <4>4. QED
          BY <2>2, <4>2, <4>3
      <3>4. QED
        BY <3>2, <3>3
    <2>8. QED
      BY <2>4, <2>5, <2>6, <2>7 DEF Base
  <1>3. ASSUME NEW h \in Handlers, Refuse(h) \/ Unreadable(h) PROVE Base'
    <2>1. TakeTurn(h)
      BY <1>3 DEF Refuse, Unreadable
    <2>2. pc' \in [Handlers -> PCs] /\ success' \in [Handlers -> BOOLEAN]
      BY <1>3 DEF Refuse, Unreadable, Base, TypeOK, PCs
    <2>3. \A g \in Handlers : accepted[g] \subseteq 1 .. done'[g]
      BY <2>1, TurnFacts DEF Base, TypeOK
    <2>4. TypeOK'
      BY <1>3, <2>1, <2>2, <2>3, TurnFacts
      DEF Refuse, Unreadable, TakeTurn, Base, TypeOK
    <2>5. Progress'
      BY <1>3, <2>1, TurnFacts DEF Refuse, Unreadable, TakeTurn, Base, Progress, TypeOK
    <2>6. AtomicAccepts'
      BY <1>3, <2>1, TurnFacts
      DEF Refuse, Unreadable, TakeTurn, Base, AtomicAccepts, Writing, TypeOK
    <2>7. HasLast'
      BY <1>3, <2>1 DEF Refuse, Unreadable, TakeTurn, Base, HasLast, Wrote, LastWritten
    <2>8. QED
      BY <2>4, <2>5, <2>6, <2>7 DEF Base
  <1>4. ASSUME NEW h \in Handlers, Applied(h) \/ EmitFails(h) \/ Reply(h) PROVE Base'
    <2>1. /\ UNCHANGED <<server, store, mirror, op, done, accepted, success, sent, contested>>
          /\ pc' \in [Handlers -> PCs] /\ \A g \in Handlers : g # h => pc'[g] = pc[g]
          /\ pc[h] # "idle" /\ pc'[h] # "idle"
          /\ Writing(h)' => Writing(h) /\ pc'[h] = "emitting" /\ done[h] = Len(op[h].params)
      BY <1>4 DEF Applied, EmitFails, Reply, Base, TypeOK, PCs, Writing
    <2>2. TypeOK' /\ Progress'
      BY <2>1 DEF Base, TypeOK, Progress, Writing
    <2>3. AtomicAccepts' /\ HasLast'
      BY <2>1 DEF Base, AtomicAccepts, HasLast, Wrote, LastWritten, Writing
    <2>4. QED
      BY <2>2, <2>3 DEF Base
  <1>5. ASSUME NEW h \in Handlers, Emit(h) PROVE Base'
    <2>1. mirror' \in [Names -> Values]
      <3>1. ASSUME NEW n \in Names PROVE Announce(h)[n] \in Values
        <4>1. op[h] # NoOp
          BY <1>5 DEF Emit, Base, Progress
        <4>2. \A i \in accepted[h] : op[h].params[i].value \in Values
          BY <4>1, OpFacts DEF Base, TypeOK
        <4>3. QED
          BY <1>5, <4>2, AnnounceFacts DEF Emit, Base, TypeOK
      <3>2. QED
        BY <1>5, <3>1 DEF Emit, Announce
    <2>2. TypeOK' /\ Progress'
      BY <1>5, <2>1 DEF Emit, Base, TypeOK, Progress, PCs
    <2>3. AtomicAccepts' /\ HasLast'
      BY <1>5 DEF Emit, Base, TypeOK, AtomicAccepts, HasLast, Wrote, LastWritten, Writing
    <2>4. QED
      BY <2>2, <2>3 DEF Base
  <1>6. CASE StopServices \/ StopEvents \/ UNCHANGED vars
    <2>1. UNCHANGED <<store, mirror, op, pc, done, accepted, success, sent, contested>>
          /\ server' \in {"running", "cleared", "stopped"}
      BY <1>6 DEF StopServices, StopEvents, vars, Base, TypeOK
    <2>2. TypeOK' /\ Progress'
      BY <2>1 DEF Base, TypeOK, Progress
    <2>3. AtomicAccepts' /\ HasLast'
      BY <2>1 DEF Base, AtomicAccepts, HasLast, Wrote, LastWritten, Writing
    <2>4. QED
      BY <2>2, <2>3 DEF Base
  <1>7. QED
    BY <1>1, <1>2, <1>3, <1>4, <1>5, <1>6 DEF Next, Handle

LEMMA BaseAlways == Spec => []Base
  BY BaseInit, BaseStep, PTL DEF Spec

\* Every variable keeps its type.
THEOREM TypeCorrect == Spec => []TypeOK
  <1>1. Base => TypeOK
    BY DEF Base
  <1>2. QED
    BY <1>1, BaseAlways, PTL

-----------------------------------------------------------------------------

\* However requests mix, the backend holds what its descriptors allow, if it was
\* declared with such values, which declare does not check.
THEOREM StoreIsLegal ==
  ASSUME \A n \in Names : /\ TypeAllowed(Descriptor[n], Initial[n])
                          /\ CheckRange(Descriptor[n], Initial[n])
  PROVE  Spec => []StoreLegal
  <1>1. Init => StoreLegal
    BY DEF Init, StoreLegal
  <1>2. Base /\ StoreLegal /\ [Next]_vars => StoreLegal'
    <2> SUFFICES ASSUME Base, StoreLegal, [Next]_vars PROVE StoreLegal'
      OBVIOUS
    <2>1. ASSUME NEW h \in Handlers, Set(h) PROVE StoreLegal'
      BY <2>1 DEF Set, Takes, Accepts, StoreLegal, Base, TypeOK
    <2>2. ASSUME store' = store PROVE StoreLegal'
      BY <2>2 DEF StoreLegal
    <2>3. QED
      BY <2>1, <2>2 DEF Next, Handle, Receive, Refuse, Unreadable, TakeTurn, Applied, Emit,
                        EmitFails, Reply, StopServices, StopEvents, vars
  <1>3. QED
    BY <1>1, <1>2, BaseAlways, PTL DEF Spec

\* What a handler has accepted stays accepted, of the same request.
LEMMA AcceptedStays ==
  ASSUME Base, [Next]_vars, NEW h \in Handlers, NEW i \in accepted[h]
  PROVE  i \in accepted'[h] /\ op'[h] = op[h]
  <1>1. ASSUME NEW g \in Handlers, NEW kind \in Kinds, NEW params \in Payloads,
               Receive(g, kind, params)
        PROVE  i \in accepted'[h] /\ op'[h] = op[h]
    <2>1. accepted[g] = {}
      BY <1>1 DEF Receive, Base, Progress, TypeOK
    <2>2. QED
      BY <1>1, <2>1 DEF Receive, Base, TypeOK
  <1>2. ASSUME NEW g \in Handlers, Handle(g)
        PROVE  i \in accepted'[h] /\ op'[h] = op[h]
    BY <1>2 DEF Handle, Set, Refuse, Unreadable, TakeTurn, Applied, Emit, EmitFails, Reply,
                Base, TypeOK
  <1>3. CASE StopServices \/ StopEvents \/ UNCHANGED vars
    BY <1>3 DEF StopServices, StopEvents, vars
  <1>4. QED
    BY <1>1, <1>2, <1>3 DEF Next

\* An event never shows a value the backend refused.
THEOREM MirrorIsTruthful == Spec => []MirrorTruthful
  <1>1. Init => MirrorTruthful
    BY DEF Init, MirrorTruthful
  <1>2. Base /\ MirrorTruthful /\ [Next]_vars => MirrorTruthful'
    <2> SUFFICES ASSUME Base, MirrorTruthful, [Next]_vars, NEW n \in Names
                 PROVE  \/ mirror'[n] = Initial[n]
                        \/ \E h \in Handlers : \E i \in accepted'[h] :
                             /\ op'[h].params[i].name = n
                             /\ op'[h].params[i].value = mirror'[n]
      BY DEF MirrorTruthful
    <2>1. CASE mirror'[n] = mirror[n]
      BY <2>1, AcceptedStays DEF MirrorTruthful
    <2>2. ASSUME NEW h \in Handlers, Emit(h), mirror'[n] # mirror[n]
          PROVE  \E i \in accepted'[h] : /\ op'[h].params[i].name = n
                                         /\ op'[h].params[i].value = mirror'[n]
      <3>1. mirror'[n] = Announce(h)[n] /\ pc[h] = "emitting"
        BY <2>2 DEF Emit
      <3>2. Wrote(h, n)
        BY <2>2, <3>1, AnnounceFacts
      <3>3. PICK i \in accepted[h] :
              LastWritten(h, n, i) /\ Announce(h)[n] = op[h].params[i].value
        BY <3>1, <3>2, AnnounceFacts
      <3>4. QED
        BY <3>1, <3>3, AcceptedStays DEF LastWritten
    <2>3. (\E h \in Handlers : Emit(h)) \/ mirror' = mirror
      BY DEF Next, Handle, Receive, Set, Refuse, Unreadable, TakeTurn, Applied, EmitFails,
             Reply, StopServices, StopEvents, vars
    <2>4. QED
      BY <2>1, <2>2, <2>3
  <1>3. QED
    BY <1>1, <1>2, BaseAlways, PTL DEF Spec

-----------------------------------------------------------------------------

Fought == OneWriter /\ StoreHoldsLast /\ MirrorKnows

\* A new request: the names it shares with a writer become contested.
LEMMA ReceiveStep ==
  ASSUME Base, Fought, NEW h \in Handlers, NEW kind \in Kinds, NEW params \in Payloads,
         Receive(h, kind, params)
  PROVE  Fought'
  <1>1. /\ accepted[h] = {} /\ pc[h] = "idle"
        /\ op'[h].params = params
        /\ \A g \in Handlers : g # h => op'[g] = op[g] /\ pc'[g] = pc[g]
        /\ UNCHANGED <<store, mirror, accepted, sent>>
        /\ contested \subseteq contested'
    BY DEF Receive, Base, Progress, TypeOK
  <1>2. ASSUME NEW n \in Names \ contested', n \in NamesOf(h)', NEW g \in Handlers,
               Writing(g), g # h
        PROVE  n \notin NamesOf(g)
    <2>1. \E i \in DOMAIN params : params[i].name = n
      BY <1>1, <1>2 DEF NamesOf
    <2>2. QED
      BY <1>2, <2>1 DEF Receive
  <1>3. OneWriter'
    <2> SUFFICES ASSUME NEW n \in Names \ contested', NEW f \in Handlers, NEW g \in Handlers,
                        Writing(f)', Writing(g)', n \in NamesOf(f)', n \in NamesOf(g)',
                        f # g
                 PROVE  FALSE
      BY DEF OneWriter
    <2>1. CASE f # h /\ g # h
      BY <1>1, <2>1 DEF Fought, OneWriter, Writing, NamesOf
    <2>2. CASE f = h
      BY <1>1, <1>2, <2>2 DEF Writing, NamesOf
    <2>3. CASE g = h
      BY <1>1, <1>2, <2>3 DEF Writing, NamesOf
    <2>4. QED
      BY <2>1, <2>2, <2>3
  <1>4. StoreHoldsLast'
    BY <1>1 DEF Fought, StoreHoldsLast, LastWritten, Writing
  <1>5. MirrorKnows'
    <2>1. \A n \in Names, g \in Handlers : Wrote(g, n)' <=> Wrote(g, n)
      BY <1>1 DEF Wrote
    <2>2. \A n \in Names, g \in Handlers : Wrote(g, n) => g # h
      BY <1>1 DEF Wrote
    <2>3. QED
      BY <1>1, <2>1, <2>2 DEF Fought, MirrorKnows, Writing
  <1>6. QED
    BY <1>3, <1>4, <1>5 DEF Fought

\* The only writer of the name sets it: no subscriber can know yet.
LEMMA SetStep ==
  ASSUME Base, Base', Fought, NEW h \in Handlers, Set(h)
  PROVE  Fought'
  <1>1. TakeTurn(h) /\ Writing(h) /\ Current(h).name \in Names
    BY TurnFacts DEF Set, Takes, Writing, TakeTurn
  <1>2. /\ UNCHANGED <<mirror, op, pc, sent, contested>>
        /\ accepted'[h] = accepted[h] \cup {Turn(h)}
        /\ \A g \in Handlers : g # h => accepted'[g] = accepted[g]
        /\ store'[Current(h).name] = Current(h).value
        /\ \A n \in Names : n # Current(h).name => store'[n] = store[n]
    BY <1>1 DEF Set, TakeTurn, Base, TypeOK
  <1>3. Turn(h) \in accepted'[h] /\ \A j \in accepted'[h] : j <= Turn(h)
    BY <1>1, <1>2, TurnFacts DEF Base, TypeOK
  <1>4. Current(h).name \in NamesOf(h)
    BY <1>1, TurnFacts DEF NamesOf, Current
  <1>5. OneWriter'
    BY <1>2 DEF Fought, OneWriter, Writing, NamesOf
  <1>6. StoreHoldsLast'
    <2> SUFFICES ASSUME NEW n \in Names \ contested, NEW g \in Handlers,
                        NEW i \in accepted'[g], Writing(g), LastWritten(g, n, i)'
                 PROVE  op[g].params[i].value = store'[n]
      BY <1>2 DEF StoreHoldsLast, Writing
    <2>1. CASE n # Current(h).name
      <3>1. i \in accepted[g] /\ LastWritten(g, n, i)
        BY <1>2, <2>1 DEF LastWritten, Current
      <3>2. QED
        BY <1>2, <2>1, <3>1 DEF Fought, StoreHoldsLast
    <2>2. CASE n = Current(h).name
      <3>1. i \in DOMAIN op[g].params
        BY <1>2 DEF LastWritten, Base, TypeOK
      <3>2. g = h
        BY <1>1, <1>2, <1>4, <2>2, <3>1 DEF Fought, OneWriter, LastWritten, NamesOf
      <3>3. i = Turn(h)
        <4>1. Turn(h) <= i
          BY <1>2, <1>3, <2>2, <3>2 DEF LastWritten, Current
        <4>2. i <= Turn(h) /\ i \in Nat /\ Turn(h) \in Nat
          BY <1>1, <1>3, <3>2, TurnFacts DEF Base, TypeOK
        <4>3. QED
          BY <4>1, <4>2
      <3>4. QED
        BY <1>2, <2>2, <3>2, <3>3 DEF Current
    <2>3. QED
      BY <2>1, <2>2
  <1>7. MirrorKnows'
    <2> SUFFICES ASSUME NEW n \in Names \ contested,
                        \A g \in Handlers : Wrote(g, n)' => ~Writing(g) /\ sent[g]
                 PROVE  mirror[n] = store'[n]
      BY <1>2 DEF MirrorKnows, Writing
    <2>1. n # Current(h).name
      BY <1>1, <1>2, <1>3 DEF Wrote, Current
    <2>2. \A g \in Handlers : Wrote(g, n) => Wrote(g, n)'
      BY <1>2 DEF Wrote
    <2>3. QED
      BY <1>2, <2>1, <2>2 DEF Fought, MirrorKnows
  <1>8. QED
    BY <1>5, <1>6, <1>7 DEF Fought

\* The event of the only writer tells what the store holds.
LEMMA EmitStep ==
  ASSUME Base, Fought, NEW h \in Handlers, Emit(h)
  PROVE  Fought'
  <1>1. /\ UNCHANGED <<store, op, accepted, contested>>
        /\ mirror' = Announce(h) /\ Writing(h) /\ pc[h] = "emitting"
        /\ \A g \in Handlers : Writing(g)' => Writing(g)
        /\ \A g \in Handlers : g # h => sent'[g] = sent[g] /\ (Writing(g)' <=> Writing(g))
    BY DEF Emit, Base, TypeOK, Writing
  <1>2. OneWriter' /\ StoreHoldsLast'
    BY <1>1 DEF Fought, OneWriter, StoreHoldsLast, LastWritten, NamesOf
  <1>3. MirrorKnows'
    <2> SUFFICES ASSUME NEW n \in Names \ contested,
                        \A g \in Handlers : Wrote(g, n)' => ~Writing(g)' /\ sent'[g]
                 PROVE  mirror'[n] = store[n]
      BY <1>1 DEF MirrorKnows
    <2>1. CASE Wrote(h, n)
      <3>1. PICK i \in accepted[h] :
              LastWritten(h, n, i) /\ Announce(h)[n] = op[h].params[i].value
        BY <1>1, <2>1, AnnounceFacts
      <3>2. QED
        BY <1>1, <3>1 DEF Fought, StoreHoldsLast
    <2>2. CASE ~Wrote(h, n)
      <3>1. mirror'[n] = mirror[n]
        BY <1>1, <2>2, AnnounceFacts
      <3>2. \A g \in Handlers : Wrote(g, n) => ~Writing(g) /\ sent[g]
        BY <1>1, <2>2 DEF Wrote
      <3>3. QED
        BY <3>1, <3>2 DEF Fought, MirrorKnows
    <2>3. QED
      BY <2>1, <2>2
  <1>4. QED
    BY <1>2, <1>3 DEF Fought

\* A handler goes on, or ends without its event having been sent.
LEMMA OtherStep ==
  ASSUME Base, Fought, NEW h \in Handlers,
         Refuse(h) \/ Unreadable(h) \/ Applied(h) \/ EmitFails(h) \/ Reply(h)
  PROVE  Fought'
  <1>1. /\ UNCHANGED <<store, mirror, op, accepted, sent, contested>>
        /\ \A g \in Handlers : Writing(g)' => Writing(g)
        /\ \A g \in Handlers : g # h => (Writing(g)' <=> Writing(g))
    BY DEF Refuse, Unreadable, TakeTurn, Applied, EmitFails, Reply, Base, TypeOK, Writing
  <1>2. OneWriter' /\ StoreHoldsLast'
    BY <1>1 DEF Fought, OneWriter, StoreHoldsLast, LastWritten, NamesOf
  <1>3. Writing(h) => ~sent[h]
    BY DEF Base, Progress, Writing
  <1>4. MirrorKnows'
    BY <1>1, <1>3 DEF Fought, MirrorKnows, Wrote
  <1>5. QED
    BY <1>2, <1>4 DEF Fought

LEMMA FoughtStep == Base /\ Base' /\ Fought /\ [Next]_vars => Fought'
  <1> SUFFICES ASSUME Base, Base', Fought, [Next]_vars PROVE Fought'
    OBVIOUS
  <1>1. CASE StopServices \/ StopEvents \/ UNCHANGED vars
    <2>1. UNCHANGED <<store, mirror, op, pc, accepted, sent, contested>>
      BY <1>1 DEF StopServices, StopEvents, vars
    <2>2. QED
      BY <2>1 DEF Fought, OneWriter, StoreHoldsLast, MirrorKnows, LastWritten, Wrote,
                  Writing, NamesOf
  <1>2. QED
    BY <1>1, ReceiveStep, SetStep, EmitStep, OtherStep DEF Next, Handle

\* Subscribers agree with the backend on every parameter that no two requests
\* wrote at once and whose writers' events all went out.
THEOREM MirrorIsAgreed == Spec => []MirrorAgrees
  <1>1. Init => Fought
    BY DEF Init, Fought, OneWriter, StoreHoldsLast, MirrorKnows, Writing
  <1>2. Fought => MirrorAgrees
    BY DEF Fought, MirrorKnows, MirrorAgrees
  <1>3. QED
    BY <1>1, <1>2, FoughtStep, BaseAlways, PTL DEF Spec

\* The whole of what the other theorems rest on.
THEOREM InvariantHolds == Spec => []IInv
  <1>1. Init => Fought
    BY DEF Init, Fought, OneWriter, StoreHoldsLast, MirrorKnows, Writing
  <1>2. Base /\ Fought => IInv
    BY DEF Base, Fought, IInv
  <1>3. QED
    BY <1>1, <1>2, FoughtStep, BaseAlways, PTL DEF Spec

-----------------------------------------------------------------------------
(* The job.                                                                *)

Settings == UNION {Choices[n] : n \in Names}
CameraOK == camera \in [Names -> Settings]
JobInv == JobIInv /\ CameraOK

-----------------------------------------------------------------------------
(* The parameter server under the job, and through restarts.               *)

LEMMA RestartBase == Restart => Base'
  <1> SUFFICES ASSUME Restart PROVE Base'
    OBVIOUS
  <1> USE DEF Restart
  <1>1. store' \in [Names -> Values] /\ mirror' \in [Names -> Values]
    BY InitialAssumption DEF Values
  <1>2. /\ server' = "running" /\ contested' = {}
        /\ op' = [h \in Handlers |-> NoOp] /\ pc' = [h \in Handlers |-> "idle"]
        /\ done' = [h \in Handlers |-> 0] /\ accepted' = [h \in Handlers |-> {}]
        /\ success' = [h \in Handlers |-> TRUE] /\ sent' = [h \in Handlers |-> FALSE]
    OBVIOUS
  <1> HIDE DEF Restart
  <1>3. \A h \in Handlers : accepted'[h] \subseteq 1 .. done'[h]
                            /\ 1 .. done'[h] \subseteq DOMAIN op'[h].params
    BY <1>2
  <1> QED
    BY <1>1, <1>2, <1>3 DEF Base, TypeOK, Progress, PCs, NoOp, AtomicAccepts, HasLast,
                            Writing, Wrote

LEMMA SystemBase == Base /\ [SystemNext]_allVars => Base'
  <1>1. Base /\ UNCHANGED vars => Base'
    BY BaseStep
  <1>2. Base /\ ParamsStep => Base'
    BY BaseStep DEF ParamsStep
  <1>3. StartReturns \/ Begin \/ ReadParam \/ SetConfig \/ CaptureFails \/ Shoot
          \/ UNCHANGED allVars => UNCHANGED vars
    BY DEF StartReturns, Begin, ReadParam, SetConfig, CaptureFails, Shoot, allVars
  <1> QED BY <1>1, <1>2, <1>3, RestartBase DEF SystemNext

LEMMA SystemBaseAlways == SystemSpec => []Base
  BY BaseInit, SystemBase, PTL DEF SystemSpec, SystemInit

\* A parameter's text is one that can be in an entry.
LEMMA TextFacts ==
  ASSUME Base, NEW n \in Names
  PROVE  [key |-> n, text |-> Texts[n]] \in Entries
  <1>1. store[n] \in DOMAIN TextOf
    BY TextAssumption DEF Base, TypeOK
  <1> QED BY <1>1 DEF Texts, Entries

-----------------------------------------------------------------------------
(* The steps of the job.                                                   *)

LEMMA InitJob == SystemInit => JobInv
  <1> SUFFICES ASSUME SystemInit PROVE JobInv
    OBVIOUS
  <1>1. CameraOK
    BY DEF SystemInit, CameraOK, Settings
  <1>2. JobTypeOK
    <2>1. published \in BOOLEAN /\ reader \in BOOLEAN
      BY Zenon DEF SystemInit, JobInit
    <2>2. /\ phase = "idle" /\ read = 0 /\ exposure = <<>> /\ applied = 0 /\ frame = NoFrame
          /\ \A n \in Names : camera[n] \in Choices[n]
      BY DEF SystemInit, JobInit
    <2>3. read \in 0 .. Len(Order)
      BY <2>2, OrderAssumption
    <2> QED BY <2>1, <2>2, <2>3 DEF JobTypeOK
  <1>3. ReadTruly /\ SetTruly /\ SetsHonoured /\ MetadataTruthful
    BY DEF SystemInit, JobInit, ReadTruly, SetTruly, SetsHonoured, MetadataTruthful
  <1> QED BY <1>1, <1>2, <1>3 DEF JobInv, JobIInv

\* The server's steps only add moments to a job that is reading.
LEMMA ParamsJob == JobInv /\ (ParamsStep \/ StartReturns \/ UNCHANGED allVars) => JobInv'
  <1> SUFFICES ASSUME JobInv, ParamsStep \/ StartReturns \/ UNCHANGED allVars
               PROVE  JobInv'
    OBVIOUS
  <1>1. UNCHANGED jobVars
    BY DEF ParamsStep, StartReturns, allVars, captureVars
  <1>2. /\ moments \subseteq moments' /\ published' \in BOOLEAN
        /\ phase = "shot" => moments' = moments
        /\ phase = "reading" => Texts' \in moments'
    <2>1. CASE ParamsStep
      BY <2>1 DEF ParamsStep, JobInv, JobIInv, JobTypeOK
    <2>2. CASE StartReturns
      BY <2>2 DEF StartReturns, JobInv, JobIInv, JobTypeOK, ReadTruly, vars, Texts
    <2>3. CASE UNCHANGED allVars
      BY <2>3 DEF allVars, captureVars, vars, JobInv, JobIInv, JobTypeOK, ReadTruly, Texts
    <2> QED BY <2>1, <2>2, <2>3
  <1> USE DEF jobVars, JobInv, JobIInv
  <1>3. JobTypeOK' /\ CameraOK'
    BY <1>1, <1>2 DEF JobTypeOK, CameraOK
  <1>4. ReadTruly'
    BY <1>1, <1>2 DEF ReadTruly, ReadAs
  <1>5. SetTruly' /\ MetadataTruthful'
    BY <1>1 DEF SetTruly, MetadataTruthful
  <1>6. SetsHonoured'
    BY <1>1, <1>2 DEF SetsHonoured, After
  <1> QED BY <1>3, <1>4, <1>5, <1>6

\* The steps that leave no job behind, or one that has read nothing.
LEMMA BlankJob == JobInv /\ (Begin \/ CaptureFails \/ Restart) => JobInv'
  <1> SUFFICES ASSUME JobInv, Begin \/ CaptureFails \/ Restart PROVE JobInv'
    OBVIOUS
  <1>1. exposure' = <<>> /\ read' = 0 /\ applied' = 0 /\ camera' = camera
    BY DEF Begin, CaptureFails, Restart, Forget
  <1>2. /\ phase' \in {"idle", "reading", "configuring", "failed"}
        /\ phase' \in {"reading", "configuring"} => Begin
    BY DEF Begin, CaptureFails, Restart
  <1>3. reader' \in BOOLEAN /\ published' \in BOOLEAN
    BY Zenon DEF Begin, CaptureFails, Restart, JobInv, JobIInv, JobTypeOK
  <1>4. frame' = NoFrame \/ frame' = frame
    BY DEF Begin, CaptureFails, Restart
  <1>5. JobTypeOK' /\ CameraOK'
    BY <1>1, <1>2, <1>3, <1>4, OrderAssumption DEF JobInv, JobIInv, JobTypeOK, CameraOK
  <1>6. Begin => /\ before' = camera
                 /\ phase' = "reading" => reader' /\ Texts' \in moments'
                 /\ phase' = "configuring" => ~reader'
    BY DEF Begin, vars, Texts
  <1>7. ReadTruly'
    BY <1>1, <1>2, <1>6, OrderAssumption DEF ReadTruly
  <1>8. SetTruly' /\ SetsHonoured' /\ MetadataTruthful'
    BY <1>1, <1>2, <1>6 DEF SetTruly, SetsHonoured, MetadataTruthful
  <1> QED BY <1>5, <1>7, <1>8 DEF JobInv, JobIInv

LEMMA ReadJob == Base /\ JobInv /\ ReadParam => JobInv'
  <1> SUFFICES ASSUME Base, JobInv, ReadParam PROVE JobInv'
    OBVIOUS
  <1> DEFINE n == Order[read + 1]
             e == [key |-> n, text |-> Texts[n]]
  <1>1. /\ phase = "reading" /\ read \in Nat /\ read < Len(Order) /\ applied = 0 /\ reader
        /\ Texts \in moments /\ exposure \in Seq(Entries) /\ Len(exposure) <= read
    BY OrderAssumption DEF ReadParam, JobInv, JobIInv, JobTypeOK, ReadTruly
  <1>2. /\ Len(Order) \in Nat /\ DOMAIN Order = 1 .. Len(Order)
        /\ read + 1 \in 1 .. Len(Order) /\ n \in Names
    BY <1>1, OrderAssumption
  <1>3. e \in Entries
    BY <1>2, TextFacts
  <1>4. /\ exposure' = IF Texts[n] = Unset THEN exposure ELSE Append(exposure, e)
        /\ read' = read + 1
        /\ phase' = IF read' = Len(Order) THEN "configuring" ELSE "reading"
        /\ UNCHANGED <<vars, published, reader, applied, camera, frame, before, moments>>
    BY DEF ReadParam
  <1>5. \A k \in 1 .. read : Order[k] # n
    BY <1>1, <1>2, OrderAssumption
  <1>6. \A i \in DOMAIN exposure : exposure[i].key # n
    BY <1>5 DEF JobInv, JobIInv, ReadTruly
  <1>7. Texts' = Texts
    BY <1>4 DEF Texts, vars
  <1> HIDE DEF n
  <1>8. /\ exposure' \in Seq(Entries) /\ Len(exposure') <= read' /\ applied' \in 0 .. Len(exposure')
        /\ \A i \in DOMAIN exposure : i \in DOMAIN exposure' /\ exposure'[i] = exposure[i]
        /\ \A i \in DOMAIN exposure' :
             i \in DOMAIN exposure \/ (Texts[n] # Unset /\ exposure'[i] = e)
        /\ Texts[n] # Unset => \E i \in DOMAIN exposure' : exposure'[i] = e
        /\ \A i, j \in DOMAIN exposure' :
             i \notin DOMAIN exposure /\ j \notin DOMAIN exposure => i = j
    <2>1. CASE Texts[n] = Unset
      BY <1>1, <1>4, <2>1
    <2>2. CASE Texts[n] # Unset
      <3>1. exposure' = Append(exposure, e)
        BY <1>4, <2>2
      <3>2. Len(exposure) + 1 \in DOMAIN exposure' /\ exposure'[Len(exposure) + 1] = e
        BY <1>1, <1>3, <3>1
      <3> QED BY <1>1, <1>3, <1>4, <2>2, <3>1, <3>2
    <2> QED BY <2>1, <2>2
  <1>9. JobTypeOK' /\ CameraOK'
    <2>1. read' \in 0 .. Len(Order)
      <3>1. read \in Nat /\ read < Len(Order) /\ read' = read + 1 /\ Len(Order) \in Nat
        BY <1>1, <1>2, <1>4
      <3> QED BY <3>1
    <2>2. phase' \in {"idle", "reading", "configuring", "shot", "failed"}
      BY <1>4
    <2>3. published' \in BOOLEAN /\ reader' \in BOOLEAN
      BY <1>4, Zenon DEF JobInv, JobIInv, JobTypeOK
    <2> QED BY <1>4, <1>8, <2>1, <2>2, <2>3 DEF JobInv, JobIInv, JobTypeOK, CameraOK
  <1>10. ReadTruly'
    <2>1. phase' = "reading" => read' < Len(Order) /\ applied' = 0 /\ reader' /\ Texts' \in moments'
      <3>1. phase' = "reading" => read' # Len(Order)
        BY <1>4
      <3>2. read' # Len(Order) => read' < Len(Order)
        <4>1. read \in Nat /\ read < Len(Order) /\ read' = read + 1 /\ Len(Order) \in Nat
          BY <1>1, <1>2, <1>4
        <4> QED BY <4>1
      <3>3. applied' = 0 /\ Texts' \in moments'
        BY <1>1, <1>4, <1>7
      <3>4. reader'
        BY <1>1, <1>4
      <3> QED BY <3>1, <3>2, <3>3, <3>4
    <2>2. phase' = "configuring" => read' = Len(Order)
      BY <1>4
    <2>3. 1 .. read' = 1 .. read \cup {read + 1}
      BY <1>1, <1>4
    <2>4. \A i \in DOMAIN exposure' : \E k \in 1 .. read' : exposure'[i].key = Order[k]
      BY <1>8, <2>3 DEF n, JobInv, JobIInv, ReadTruly
    <2>5. \A i, j \in DOMAIN exposure' : exposure'[i].key = exposure'[j].key => i = j
      BY <1>6, <1>8 DEF JobInv, JobIInv, ReadTruly
    <2>6. ASSUME NEW k \in 1 .. read' PROVE \E m \in moments' : ReadAs(Order[k], m[Order[k]])'
      <3>1. CASE k \in 1 .. read
        <4>1. PICK m \in moments : ReadAs(Order[k], m[Order[k]])
          BY <3>1 DEF JobInv, JobIInv, ReadTruly
        <4>2. Order[k] # n
          BY <1>5, <3>1
        <4>3. ReadAs(Order[k], m[Order[k]])'
          BY <1>8, <4>1, <4>2 DEF ReadAs
        <4> QED BY <1>4, <4>3
      <3>2. CASE k = read + 1
        <4>1. Order[k] = n
          BY <3>2 DEF n
        <4>2. PICK m \in moments : m = Texts
          BY <1>1
        <4>3. ReadAs(Order[k], m[Order[k]])'
          <5>1. CASE Texts[n] = Unset
            BY <1>6, <1>8, <4>1, <4>2, <5>1 DEF ReadAs
          <5>2. CASE Texts[n] # Unset
            BY <1>8, <4>1, <4>2, <5>2 DEF ReadAs
          <5> QED BY <5>1, <5>2
        <4> QED BY <1>4, <4>3
      <3> QED BY <2>3, <3>1, <3>2
    <2> QED BY <2>1, <2>2, <2>4, <2>5, <2>6 DEF ReadTruly
  <1>11. SetTruly'
    <2>1. applied' = 0 /\ camera' = camera /\ before' = before
      BY <1>1, <1>4
    <2>2. \A m \in Names : camera[m] = before[m]
      BY <1>1 DEF JobInv, JobIInv, SetTruly
    <2> QED BY <2>1, <2>2 DEF SetTruly
  <1>12. SetsHonoured' /\ MetadataTruthful'
    BY <1>4 DEF SetsHonoured, MetadataTruthful
  <1> QED BY <1>9, <1>10, <1>11, <1>12 DEF JobInv, JobIInv

LEMMA SetJob == JobInv /\ SetConfig => JobInv'
  <1> SUFFICES ASSUME JobInv, SetConfig PROVE JobInv'
    OBVIOUS
  <1> DEFINE e == exposure[applied + 1]
  <1>1. /\ phase = "configuring" /\ applied \in Nat /\ Len(exposure) \in Nat
        /\ applied < Len(exposure) /\ exposure \in Seq(Entries)
    BY DEF SetConfig, JobInv, JobIInv, JobTypeOK
  <1>2. applied + 1 \in DOMAIN exposure /\ e \in Entries
    BY <1>1
  <1>3. e = [key |-> e.key, text |-> e.text] /\ e.key \in Names
    BY <1>2 DEF Entries
  <1>4. /\ camera' = [camera EXCEPT ![e.key] = e.text] /\ e.text \in Choices[e.key]
        /\ applied' = applied + 1
        /\ UNCHANGED <<vars, published, phase, reader, read, exposure, frame, before, moments>>
    BY DEF SetConfig, NextSetting
  <1> HIDE DEF e
  <1>5. /\ camera'[e.key] = e.text
        /\ \A n \in Names : n # e.key => camera'[n] = camera[n]
        /\ CameraOK'
    BY <1>3, <1>4 DEF JobInv, CameraOK, Settings
  <1>6. JobTypeOK'
    <2>1. applied' \in 0 .. Len(exposure')
      BY <1>1, <1>4
    <2>2. \A n \in Names : camera'[n] \in Choices[n]
      BY <1>4, <1>5 DEF JobInv, JobIInv, JobTypeOK
    <2>3. published' \in BOOLEAN /\ reader' \in BOOLEAN
      BY <1>4, Zenon DEF JobInv, JobIInv, JobTypeOK
    <2> QED BY <1>4, <2>1, <2>2, <2>3 DEF JobInv, JobIInv, JobTypeOK
  <1>7. ReadTruly'
    <2>1. \A n, t : ReadAs(n, t)' <=> ReadAs(n, t)
      BY <1>4 DEF ReadAs
    <2> QED BY <1>1, <1>4, <2>1 DEF JobInv, JobIInv, ReadTruly
  <1>8. SetTruly'
    <2> SUFFICES ASSUME NEW n \in Names
                 PROVE  \/ camera'[n] = before[n]
                           /\ \A i \in 1 .. applied + 1 : exposure[i].key # n
                        \/ \E i \in 1 .. applied + 1 :
                             exposure[i] = [key |-> n, text |-> camera'[n]]
      BY <1>4 DEF SetTruly
    <2>1. 1 .. applied + 1 = 1 .. applied \cup {applied + 1}
      BY <1>1
    <2>2. CASE n = e.key
      BY <1>3, <1>5, <2>1, <2>2 DEF e
    <2>3. CASE n # e.key
      <3>1. \/ camera[n] = before[n] /\ \A i \in 1 .. applied : exposure[i].key # n
            \/ \E i \in 1 .. applied : exposure[i] = [key |-> n, text |-> camera[n]]
        BY <1>1 DEF JobInv, JobIInv, SetTruly
      <3> QED BY <1>5, <2>1, <2>3, <3>1 DEF e
    <2> QED BY <2>2, <2>3
  <1>9. SetsHonoured' /\ MetadataTruthful'
    BY <1>1, <1>4 DEF SetsHonoured, MetadataTruthful
  <1> QED BY <1>5, <1>6, <1>7, <1>8, <1>9 DEF JobInv, JobIInv

\* At the shot the settings are through.
LEMMA ShootJob == JobInv /\ Shoot => JobInv'
  <1> SUFFICES ASSUME JobInv, Shoot PROVE JobInv'
    OBVIOUS
  <1>1. /\ phase = "configuring" /\ applied = Len(exposure) /\ exposure \in Seq(Entries)
        /\ frame' = [config |-> camera, exposure |-> exposure]
        /\ phase' = "shot" /\ read' = 0 /\ exposure' = <<>> /\ applied' = 0
        /\ UNCHANGED <<vars, published, reader, camera, before, moments>>
    BY DEF Shoot, Forget, JobInv, JobIInv, JobTypeOK
  <1>2. DOMAIN exposure = 1 .. applied
    BY <1>1
  <1>3. \A i \in DOMAIN exposure : camera[exposure[i].key] = exposure[i].text
    <2> TAKE i \in DOMAIN exposure
    <2>1. exposure[i] \in Entries
      BY <1>1
    <2>2. exposure[i].key \in Names
      BY <2>1 DEF Entries
    <2>3. PICK j \in 1 .. applied :
            exposure[j] = [key |-> exposure[i].key, text |-> camera[exposure[i].key]]
      BY <1>1, <1>2, <2>2 DEF JobInv, JobIInv, SetTruly
    <2>4. i = j
      BY <1>2, <2>3 DEF JobInv, JobIInv, ReadTruly
    <2> QED BY <2>3, <2>4
  <1>4. ASSUME NEW n \in Names, \A i \in DOMAIN exposure : exposure[i].key # n
        PROVE  camera[n] = before[n]
    <2>1. \/ camera[n] = before[n]
          \/ \E i \in 1 .. applied : exposure[i] = [key |-> n, text |-> camera[n]]
      BY <1>1 DEF JobInv, JobIInv, SetTruly
    <2> QED BY <1>2, <1>4, <2>1
  <1>5. MetadataTruthful'
    BY <1>1, <1>3 DEF MetadataTruthful
  <1>6. SetsHonoured'
    <2> SUFFICES ASSUME reader, NEW n \in Names
                 PROVE  \E m \in moments : camera[n] = After(m, n)
      BY <1>1 DEF SetsHonoured, After
    <2>1. PICK k \in DOMAIN Order : Order[k] = n
      BY OrderAssumption
    <2>2. k \in 1 .. read
      BY <1>1, OrderAssumption DEF JobInv, JobIInv, ReadTruly
    <2>3. PICK m \in moments : ReadAs(n, m[n])
      BY <2>1, <2>2 DEF JobInv, JobIInv, ReadTruly
    <2>4. CASE m[n] = Unset
      BY <1>4, <2>3, <2>4 DEF ReadAs, After
    <2>5. CASE m[n] # Unset
      BY <1>3, <2>3, <2>5 DEF ReadAs, After
    <2> QED BY <2>4, <2>5
  <1>7. JobTypeOK' /\ CameraOK'
    <2>1. \A n \in Names : camera[n] \in Choices[n]
      BY DEF JobInv, JobIInv, JobTypeOK
    <2>2. published' \in BOOLEAN /\ reader' \in BOOLEAN
      BY <1>1, Zenon DEF JobInv, JobIInv, JobTypeOK
    <2> QED BY <1>1, <2>1, <2>2, OrderAssumption DEF JobInv, JobTypeOK, CameraOK
  <1>8. ReadTruly' /\ SetTruly'
    BY <1>1 DEF ReadTruly, SetTruly
  <1> QED BY <1>5, <1>6, <1>7, <1>8 DEF JobInv, JobIInv

LEMMA JobStep == Base /\ JobInv /\ [SystemNext]_allVars => JobInv'
  BY ParamsJob, BlankJob, ReadJob, SetJob, ShootJob DEF SystemNext

LEMMA JobAlways == SystemSpec => []JobInv
  BY InitJob, JobStep, SystemBaseAlways, PTL DEF SystemSpec

-----------------------------------------------------------------------------

\* What the job has read and what the camera has are explained at every step.
THEOREM JobInvariant == SystemSpec => []JobIInv
  BY JobAlways, PTL DEF JobInv

\* The variables of the job keep their types.
THEOREM JobTypeCorrect == SystemSpec => []JobTypeOK
  BY JobAlways, PTL DEF JobInv, JobIInv

\* Each setting of a frame is one its own parameter had while the job was reading
\* (README.md:150), however many requests set it meanwhile.
THEOREM SetsAreHonoured == SystemSpec => []SetsHonoured
  BY JobAlways, PTL DEF JobInv, JobIInv

\* The metadata says what the camera was set to (README.md:140-141), whatever failed
\* captures and earlier processes left in it.
THEOREM MetadataIsTruthful == SystemSpec => []MetadataTruthful
  BY JobAlways, PTL DEF JobInv, JobIInv
=============================================================================
