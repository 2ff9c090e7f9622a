-------------------------- MODULE ParameterServer ----------------------------
(***************************************************************************)
(* The parameter server of pico-ros-py (picoparams.py): ParameterServer    *)
(* over a DictParameterBackend.                                            *)
(*                                                                         *)
(* Each request runs on a service thread of its own.  A request to set     *)
(* parameters goes through its list one backend.set at a time, then        *)
(* announces what changed on /parameter_events, then looks up its response *)
(* class and answers; other threads run between any two of these, among    *)
(* them the one that stops the server.  Requests that only read (get,      *)
(* types, describe, list) change nothing and are left out.                 *)
(*                                                                         *)
(* A subscriber of /parameter_events is modelled by what it knows, the     *)
(* values it would display having applied the events in their order.       *)
(***************************************************************************)
EXTENDS Integers, Sequences, FiniteSets

CONSTANTS
  Names,        \* the declared parameters
  Unknown,      \* a name nobody declared
  Descriptor,   \* Descriptor[n]: the ParameterDescriptor of n
  Initial,      \* Initial[n]: the value n is declared with
  Handlers,     \* the requests, one service thread each
  Payloads      \* the lists of parameters a request may carry

NoRange == {}   \* a descriptor holds the set of its ranges, at most one each
NoOp == [kind |-> "none", params |-> <<>>]

ASSUME NamesAssumption == Unknown \notin Names

ASSUME InitialAssumption == Initial = [n \in Names |-> Initial[n]]

ASSUME PayloadAssumption ==
  \A p \in Payloads :
    /\ Len(p) \in Nat /\ DOMAIN p = 1 .. Len(p)
    /\ \A i \in DOMAIN p : p[i].name \in Names \cup {Unknown}

VARIABLES
  server,    \* "running", "cleared" (no services left), "stopped"
  store,     \* store[n]: the value of n in the backend
  mirror,    \* mirror[n]: the value of n to a subscriber of the events
  op,        \* op[h]: the request h serves
  pc,        \* pc[h]: where its thread is
  done,      \* done[h]: how many backend.set calls it has made
  accepted,  \* accepted[h]: the positions of its list the backend took
  success,   \* success[h]: nothing was refused, the answer of an atomic request
  sent,      \* sent[h]: its event went out
  contested  \* history: the names two requests have been writing at once

vars == <<server, store, mirror, op, pc, done, accepted, success, sent, contested>>

-----------------------------------------------------------------------------
(* DictParameterBackend.                                                   *)

\* An integer is checked against the integer range, a double against the
\* floating-point range, any other value against nothing.
RangeFor(d, v) ==
  CASE v.type = "INTEGER" -> d.integerRange
    [] v.type = "DOUBLE"  -> d.floatRange
    [] OTHER -> NoRange

CheckRange(d, v) ==
  \A r \in RangeFor(d, v) : r.from <= v.value /\ v.value <= r.to

TypeAllowed(d, v) == d.dynamicTyping \/ v.type = d.type

\* Mutant of Accepts: the type is not compared.
AcceptsAnyType(d, v) == ~d.readOnly /\ CheckRange(d, v)

\* What DictParameterBackend.set takes; it stores exactly what it takes.
Accepts(d, v) == ~d.readOnly /\ TypeAllowed(d, v) /\ CheckRange(d, v)

-----------------------------------------------------------------------------

\* param_value_from_msg: a type tag that is no ParameterType raises.
Readable(v) == v.type # "INVALID"

NamesOf(h) == {op[h].params[i].name : i \in DOMAIN op[h].params}

\* The positions whose parameters an event announces.
Announced(h) ==
  IF op[h].kind = "atomic" THEN DOMAIN op[h].params ELSE accepted[h]

\* The request may still write or announce.
Writing(h) == pc[h] \in {"applying", "emitting"}

Values == {Initial[n] : n \in Names}
            \cup UNION {{p[i].value : i \in DOMAIN p} : p \in Payloads}

Kinds == {"set", "atomic"}
PCs == {"idle", "applying", "emitting", "replying", "answered", "raised"}

TypeOK ==
  /\ server \in {"running", "cleared", "stopped"}
  /\ store \in [Names -> Values]
  /\ mirror \in [Names -> Values]
  /\ op \in [Handlers -> [kind : Kinds, params : Payloads] \cup {NoOp}]
  /\ pc \in [Handlers -> PCs]
  /\ done \in [Handlers -> Nat]
  /\ accepted \in [Handlers -> SUBSET Nat]
  /\ \A h \in Handlers : accepted[h] \subseteq 1 .. done[h]
                         /\ 1 .. done[h] \subseteq DOMAIN op[h].params
  /\ success \in [Handlers -> BOOLEAN]
  /\ sent \in [Handlers -> BOOLEAN]
  /\ contested \subseteq Names

Init ==
  /\ server = "running"
  /\ store = Initial
  /\ mirror = Initial
  /\ op = [h \in Handlers |-> NoOp]
  /\ pc = [h \in Handlers |-> "idle"]
  /\ done = [h \in Handlers |-> 0]
  /\ accepted = [h \in Handlers |-> {}]
  /\ success = [h \in Handlers |-> TRUE]
  /\ sent = [h \in Handlers |-> FALSE]
  /\ contested = {}

\* The loop that validates an atomic request reads the values and looks up the
\* names in order: it raises at a value it cannot read, fails at a name it does
\* not know, whichever comes first, and otherwise lets the request go on.
Validated(params) ==
  LET known(i) == params[i].name \in Names
      unreadable(i) == ~Readable(params[i].value)
  IN  IF \E i \in DOMAIN params : unreadable(i) /\ \A j \in 1 .. i - 1 : known(j)
        THEN "raised"
      ELSE IF \A i \in DOMAIN params : known(i) THEN "applying" ELSE "replying"

\* _handle_set, or _handle_set_atomic up to its first set.
Receive(h, kind, params) ==
  /\ server = "running"
  /\ pc[h] = "idle"
  /\ op' = [op EXCEPT ![h] = [kind |-> kind, params |-> params]]
  /\ LET to == IF kind = "atomic" THEN Validated(params) ELSE "applying"
     IN  /\ pc' = [pc EXCEPT ![h] = to]
         /\ success' = [success EXCEPT ![h] = to = "applying"]
  /\ contested' = contested \cup
       {n \in Names : /\ \E i \in DOMAIN params : params[i].name = n
                      /\ \E g \in Handlers : Writing(g) /\ n \in NamesOf(g)}
  /\ UNCHANGED <<server, store, mirror, done, accepted, sent>>

\* The parameter whose turn it is, and what becomes of it: its name is looked
\* up, its value read and handed to backend.set.
Turn(h) == done[h] + 1
Current(h) == op[h].params[Turn(h)]
Legible(h) == Current(h).name \in Names => Readable(Current(h).value)
Takes(h) == /\ Current(h).name \in Names
            /\ Readable(Current(h).value)
            /\ Accepts(Descriptor[Current(h).name], Current(h).value)

TakeTurn(h) ==
  /\ pc[h] = "applying"
  /\ Turn(h) \in DOMAIN op[h].params
  /\ done' = [done EXCEPT ![h] = Turn(h)]
  /\ UNCHANGED <<server, mirror, op, sent, contested>>

\* backend.set succeeds.
Set(h) ==
  /\ TakeTurn(h)
  /\ Takes(h)
  /\ store' = [store EXCEPT ![Current(h).name] = Current(h).value]
  /\ accepted' = [accepted EXCEPT ![h] = @ \cup {Turn(h)}]
  /\ UNCHANGED <<pc, success>>

\* Mutant of Refuse: what was refused is raised.
RefuseRaises(h) ==
  /\ TakeTurn(h)
  /\ ~Takes(h)
  /\ pc' = [pc EXCEPT ![h] = "raised"]
  /\ UNCHANGED <<store, accepted, success>>

\* backend.set fails, or there is no such parameter.  That ends a request to
\* set atomically, which does not take back what it has set before.
Refuse(h) ==
  /\ TakeTurn(h)
  /\ Legible(h) /\ ~Takes(h)
  /\ success' = [success EXCEPT ![h] = FALSE]
  /\ pc' = [pc EXCEPT ![h] = IF op[h].kind = "atomic" THEN "replying" ELSE @]
  /\ UNCHANGED <<store, accepted>>

\* The value cannot be read: the ValueError leaves _apply_sets, what was set
\* before stays set, and neither an event nor an answer goes out.
Unreadable(h) ==
  /\ TakeTurn(h)
  /\ ~Legible(h)
  /\ pc' = [pc EXCEPT ![h] = "raised"]
  /\ UNCHANGED <<store, accepted, success>>

\* The list is through.  A plain set that changed nothing announces nothing.
Applied(h) ==
  /\ pc[h] = "applying"
  /\ done[h] = Len(op[h].params)
  /\ pc' = [pc EXCEPT ![h] = IF op[h].kind = "atomic" \/ accepted[h] # {}
                               THEN "emitting" ELSE "replying"]
  /\ UNCHANGED <<server, store, mirror, op, done, accepted, success, sent, contested>>

\* Mutant of Announce: of several values of one name the first one counts.
AnnounceFirst(h) ==
  [n \in Names |->
     LET at == {i \in Announced(h) : op[h].params[i].name = n}
     IN  IF at = {} THEN mirror[n]
         ELSE op[h].params[CHOOSE i \in at : \A j \in at : j >= i].value]

\* Of several announced values of one name the last one counts.
Announce(h) ==
  [n \in Names |->
     LET at == {i \in Announced(h) : op[h].params[i].name = n}
     IN  IF at = {} THEN mirror[n]
         ELSE op[h].params[CHOOSE i \in at : \A j \in at : j <= i].value]

Emit(h) ==
  /\ pc[h] = "emitting"
  /\ server # "stopped"
  /\ mirror' = Announce(h)
  /\ sent' = [sent EXCEPT ![h] = TRUE]
  /\ pc' = [pc EXCEPT ![h] = "replying"]
  /\ UNCHANGED <<server, store, op, done, accepted, success, contested>>

\* There is no publisher any more, or it raises and the error is swallowed.
EmitFails(h) ==
  /\ pc[h] = "emitting"
  /\ pc' = [pc EXCEPT ![h] = "replying"]
  /\ UNCHANGED <<server, store, mirror, op, done, accepted, success, sent, contested>>

\* _response_class finds the service, unless stop has emptied the list: the
\* KeyError leaves the handler after everything was set.
Reply(h) ==
  /\ pc[h] = "replying"
  /\ pc' = [pc EXCEPT ![h] = IF server = "running" THEN "answered" ELSE "raised"]
  /\ UNCHANGED <<server, store, mirror, op, done, accepted, success, sent, contested>>

\* stop: close the services and clear the list, then close the publisher.
StopServices ==
  /\ server = "running"
  /\ server' = "cleared"
  /\ UNCHANGED <<store, mirror, op, pc, done, accepted, success, sent, contested>>

StopEvents ==
  /\ server = "cleared"
  /\ server' = "stopped"
  /\ UNCHANGED <<store, mirror, op, pc, done, accepted, success, sent, contested>>

Handle(h) ==
  Set(h) \/ Refuse(h) \/ Unreadable(h) \/ Applied(h) \/ Emit(h) \/ EmitFails(h) \/ Reply(h)

Next ==
  \/ StopServices \/ StopEvents
  \/ \E h \in Handlers :
       \/ \E kind \in Kinds, params \in Payloads : Receive(h, kind, params)
       \/ Handle(h)

Spec == Init /\ [][Next]_vars /\ \A h \in Handlers : WF_vars(Handle(h))

-----------------------------------------------------------------------------
(* Properties.                                                             *)

\* DictParameterBackend "enforces type, range, and read-only constraints from
\* each parameter's descriptor" (picoparams.py:195-197): whatever mix of
\* requests came in, every stored value satisfies its descriptor.
StoreLegal ==
  \A n \in Names :
    /\ Descriptor[n].readOnly => store[n] = Initial[n]
    /\ TypeAllowed(Descriptor[n], store[n])
    /\ CheckRange(Descriptor[n], store[n])

\* /parameter_events never shows a value the backend did not take.
MirrorTruthful ==
  \A n \in Names :
    \/ mirror[n] = Initial[n]
    \/ \E h \in Handlers : \E i \in accepted[h] :
          op[h].params[i].name = n /\ op[h].params[i].value = mirror[n]

Wrote(h, n) == \E i \in accepted[h] : op[h].params[i].name = n

\* The store is written and the event published in two steps without a lock:
\* subscribers still agree with the store on every parameter that no two
\* requests were writing at once and whose writers announced what they wrote.
MirrorAgrees ==
  \A n \in Names \ contested :
    (\A h \in Handlers : Wrote(h, n) => ~Writing(h) /\ sent[h])
       => mirror[n] = store[n]

\* The strengthening that makes MirrorAgrees inductive. A name in nobody's
\* dispute has one writer at a time; the store holds the last value that writer
\* set, which its event will tell; and with no writer at work subscribers know
\* the store, unless an event was lost. An atomic request gets to its event only
\* with everything it was to set accepted. Progress ties a request's counters to
\* the place where its thread is.
OneWriter ==
  \A n \in Names \ contested : \A g, h \in Handlers :
    Writing(g) /\ Writing(h) /\ n \in NamesOf(g) /\ n \in NamesOf(h) => g = h
LastWritten(h, n, i) ==
  /\ i \in accepted[h] /\ op[h].params[i].name = n
  /\ \A j \in accepted[h] : op[h].params[j].name = n => j <= i
HasLast ==
  \A h \in Handlers, n \in Names : Wrote(h, n) => \E i \in accepted[h] : LastWritten(h, n, i)
StoreHoldsLast ==
  \A n \in Names \ contested : \A h \in Handlers : \A i \in accepted[h] :
    Writing(h) /\ LastWritten(h, n, i) => op[h].params[i].value = store[n]
MirrorKnows ==
  \A n \in Names \ contested :
    (\A h \in Handlers : Wrote(h, n) => ~Writing(h) /\ sent[h]) => mirror[n] = store[n]
AtomicAccepts ==
  \A h \in Handlers : Writing(h) /\ op[h].kind = "atomic" => accepted[h] = 1 .. done[h]
Progress ==
  \A h \in Handlers :
    /\ pc[h] = "emitting" => done[h] = Len(op[h].params)
    /\ pc[h] = "idle" => done[h] = 0
    /\ pc[h] # "idle" => op[h] # NoOp
    /\ pc[h] \in {"idle", "applying", "emitting"} => ~sent[h]
IInv ==
  /\ TypeOK /\ Progress /\ AtomicAccepts /\ HasLast
  /\ OneWriter /\ StoreHoldsLast /\ MirrorKnows

\* Every request whose values can be read is answered, whatever it is refused,
\* unless the server is being stopped.
AllReadable(h) == \A i \in DOMAIN op[h].params : Readable(op[h].params[i].value)
EveryRequestAnswered ==
  \A h \in Handlers :
    pc[h] = "applying" /\ AllReadable(h) ~> (pc[h] = "answered" \/ server # "running")

\* "Validate all first; only commit if every set succeeds." (picoparams.py:454):
\* a request to set atomically that answers failure, and that nobody else disturbs,
\* leaves every parameter the value it had.
AtomicAllOrNothing ==
  \A h \in Handlers :
    /\ op[h].kind = "atomic" /\ pc[h] = "replying" /\ ~success[h]
    /\ \A g \in Handlers \ {h} : pc[g] = "idle"
    => store = Initial
=============================================================================
