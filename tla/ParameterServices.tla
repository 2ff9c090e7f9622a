-------------------------- MODULE ParameterServices --------------------------
(***************************************************************************)
(* The life of a parameter server (ParameterServer.start and stop,         *)
(* picoparams.py; Node.close, picoros.py) and what it means for the        *)
(* requests that come meanwhile, each on a thread of the SDK.              *)
(*                                                                         *)
(* start builds one service after the other; an endpoint answers from the  *)
(* moment it is built, before it is in _services.  A handler works out its *)
(* answer and then looks for its response class by position: the service   *)
(* paired with its name when _services is zipped with _PARAM_SERVICES.     *)
(* start may fail half-way and be called again; an endpoint whose types    *)
(* cannot be repaired is then open and in no list.                         *)
(*                                                                         *)
(* What setting does to the parameters is ParameterServer's matter; the    *)
(* requests that only read are answered here, over a fixed declaration.    *)
(***************************************************************************)
EXTENDS Naturals, SequencesExt

CONSTANTS
  Kinds,      \* _PARAM_SERVICES: the six services in order
  Declared,   \* the declared names in order, each the sequence of its parts
  Entry,      \* Entry[n]: the value, the type and the descriptor of n
  Undeclared, \* what get, get_types and describe tell of any other name
  Requests,   \* the requests made
  Arguments,  \* Arguments[k]: the argument lists that a request to k may carry
  Stubborn,   \* the kinds of endpoints whose close may raise
  MaxStarts   \* bound: how often start is called

KindSet == {Kinds[i] : i \in DOMAIN Kinds}

ASSUME KindsAssumption ==
  /\ Kinds \in Seq(KindSet) /\ IsInjective(Kinds) /\ Len(Kinds) > 0
  /\ "events" \notin KindSet
\* Names have parts, and what a request lists is a list.
ASSUME NamesAssumption ==
  /\ Declared \in Seq(ToSet(Declared))
  /\ \A n \in ToSet(Declared) : n \in Seq(ToSet(n)) /\ n # <<>>
  /\ \A a \in Arguments["list"] : a \in Seq(ToSet(a))
ASSUME StartsAssumption == MaxStarts \in Nat

\* An endpoint, and the call of start that built it.
Endpoints == [kind : KindSet \cup {"events"}, start : 1 .. MaxStarts]
Service(k, s) == [kind |-> k, start |-> s]
NoEndpoint == [kind |-> "none", start |-> 0]

VARIABLES
  main,      \* where the caller of start, stop and Node.close is
  next,      \* the service or entity it has come to
  starts,    \* how often start was called
  started,   \* _started
  services,  \* _services
  eventPub,  \* _event_pub
  entities,  \* _entities of the node
  open,      \* the endpoints that are declared with the SDK
  leaked,    \* history: the endpoints whose close, or whose repair, has raised
  dirty,     \* history: a start has failed, and no stop has come since
  state,     \* state[r]: how far the request r has come
  at,        \* at[r]: the endpoint it came to
  args,      \* args[r]: its argument list
  reply      \* reply[r]: the class and the content of its answer

listVars == <<services, eventPub, entities>>
sdkVars == <<open, leaked>>
requestVars == <<state, at, args, reply>>
vars == <<main, next, starts, started, listVars, sdkVars, dirty, requestVars>>

NoReply == [class |-> "none", content |-> <<>>]

TypeOK ==
  /\ main \in {"idle", "building", "storing", "events", "stopping", "muting", "closing"}
  /\ next \in Nat
  /\ starts \in 0 .. MaxStarts
  /\ started \in BOOLEAN
  /\ services \in Seq(Endpoints)
  /\ eventPub \in Endpoints \cup {NoEndpoint}
  /\ entities \in Seq(Endpoints)
  /\ open \subseteq Endpoints
  /\ leaked \subseteq Endpoints
  /\ dirty \in BOOLEAN
  /\ state \in [Requests -> {"idle", "handling", "answered", "raised"}]
  /\ at \in [Requests -> Endpoints \cup {NoEndpoint}]
  /\ DOMAIN reply = Requests
  /\ \A r \in Requests : reply[r].class \in KindSet \cup {"events", "none"}

Init ==
  /\ main = "idle"
  /\ next = 0
  /\ starts = 0
  /\ started = FALSE
  /\ services = <<>>
  /\ eventPub = NoEndpoint
  /\ entities = <<>>
  /\ open = {}
  /\ leaked = {}
  /\ dirty = FALSE
  /\ state = [r \in Requests |-> "idle"]
  /\ at = [r \in Requests |-> NoEndpoint]
  /\ args = [r \in Requests |-> <<>>]
  /\ reply = [r \in Requests |-> NoReply]

-----------------------------------------------------------------------------
(* What the requests that only read are told.                              *)

\* [s[i] for i in range(len(s)) if i in S]
Only(s, S) == FlattenSeq([i \in DOMAIN s |-> IF i \in S THEN <<s[i]>> ELSE <<>>])

\* Mutant of Distinct: nothing is left out.
DistinctNot(s) == s

\* list(dict.fromkeys(s)): the first of each.
Distinct(s) == Only(s, {i \in DOMAIN s : \A j \in 1 .. i - 1 : s[j] # s[i]})

\* All names for the empty prefix, else the prefix itself and what it qualifies.
NamesUnder(p) == Only(Declared, {i \in DOMAIN Declared : IsPrefix(p, Declared[i])})

Ancestors(n) == [i \in 1 .. Len(n) - 1 |-> SubSeq(n, 1, i)]

PrefixesUnder(p) ==
  LET names == NamesUnder(p)
  IN  Distinct(FlattenSeq([i \in DOMAIN names |-> Ancestors(names[i])]))

HandleList(prefixes) ==
  LET targets == IF prefixes = <<>> THEN << <<>> >> ELSE prefixes
  IN  [names    |-> Distinct(FlattenSeq([i \in DOMAIN targets |-> NamesUnder(targets[i])])),
       prefixes |-> Distinct(FlattenSeq([i \in DOMAIN targets |-> PrefixesUnder(targets[i])]))]

\* get, get_types and describe: one entry for each name, in the order asked.
HandleLookup(names) ==
  [i \in DOMAIN names |-> IF Contains(Declared, names[i]) THEN Entry[names[i]]
                          ELSE Undeclared]

\* What each list that a request may carry is answered with.
Listed == [a \in Arguments["list"] |-> HandleList(a)]

Answer(k, a) ==
  IF k = "list" THEN Listed[a]
  ELSE IF k \in {"get", "get_types", "describe"} THEN HandleLookup(a)
  ELSE <<>>

-----------------------------------------------------------------------------
(* The caller of start.                                                    *)

\* A second call of start on a started server returns at once.
Start ==
  /\ main = "idle" /\ ~started
  /\ starts < MaxStarts
  /\ starts' = starts + 1
  /\ main' = "building"
  /\ next' = 1
  /\ UNCHANGED <<started, listVars, sdkVars, dirty, requestVars>>

Built == Service(Kinds[next], starts)

BuildService ==
  /\ main = "building"
  /\ open' = open \cup {Built}
  /\ main' = "storing"
  /\ UNCHANGED <<next, starts, started, listVars, leaked, dirty, requestVars>>

\* The SDK refuses the service: start raises, and keeps what it has.
BuildFails ==
  /\ main = "building"
  /\ main' = "idle"
  /\ dirty' = TRUE
  /\ UNCHANGED <<next, starts, started, listVars, sdkVars, requestVars>>

\* The repair of the message types raises out of create_service and of start: the
\* endpoint answers already, and nobody keeps it.
RepairFails ==
  /\ main = "storing"
  /\ leaked' = leaked \cup {Built}
  /\ main' = "idle"
  /\ dirty' = TRUE
  /\ UNCHANGED <<next, starts, started, listVars, open, requestVars>>

\* Mutant of StoreService: the node does not learn of the endpoint.
StoreServiceAlone ==
  /\ main = "storing"
  /\ services' = Append(services, Built)
  /\ main' = IF next = Len(Kinds) THEN "events" ELSE "building"
  /\ next' = next + 1
  /\ UNCHANGED <<starts, started, eventPub, entities, sdkVars, dirty, requestVars>>

StoreService ==
  /\ main = "storing"
  /\ entities' = Append(entities, Built)
  /\ services' = Append(services, Built)
  /\ main' = IF next = Len(Kinds) THEN "events" ELSE "building"
  /\ next' = next + 1
  /\ UNCHANGED <<starts, started, eventPub, sdkVars, dirty, requestVars>>

CreateEvents ==
  /\ main = "events"
  /\ LET e == Service("events", starts)
     IN  /\ open' = open \cup {e}
         /\ entities' = Append(entities, e)
         /\ eventPub' = e
  /\ started' = TRUE
  /\ main' = "idle"
  /\ UNCHANGED <<next, starts, services, leaked, dirty, requestVars>>

\* Without its event publisher the server starts all the same.
EventsFail ==
  /\ main = "events"
  /\ started' = TRUE
  /\ main' = "idle"
  /\ UNCHANGED <<next, starts, listVars, sdkVars, dirty, requestVars>>

-----------------------------------------------------------------------------
(* The caller of stop and of Node.close.                                   *)

\* An endpoint's close works, or raises and is passed over.
Close(e) ==
  \/ open' = open \ {e} /\ UNCHANGED leaked
  \/ e.kind \in Stubborn /\ leaked' = leaked \cup {e} /\ UNCHANGED open

Stop ==
  /\ main = "idle"
  /\ main' = "stopping"
  /\ next' = 1
  /\ UNCHANGED <<starts, started, listVars, sdkVars, dirty, requestVars>>

CloseService ==
  /\ main = "stopping"
  /\ next <= Len(services)
  /\ Close(services[next])
  /\ next' = next + 1
  /\ UNCHANGED <<main, starts, started, listVars, dirty, requestVars>>

\* Mutant of ClearServices: the list keeps its services.
ClearServicesNot ==
  /\ main = "stopping"
  /\ next > Len(services)
  /\ main' = "muting"
  /\ UNCHANGED <<next, starts, started, listVars, sdkVars, dirty, requestVars>>

ClearServices ==
  /\ main = "stopping"
  /\ next > Len(services)
  /\ services' = <<>>
  /\ main' = "muting"
  /\ UNCHANGED <<next, starts, started, eventPub, entities, sdkVars, dirty, requestVars>>

CloseEvents ==
  /\ main = "muting"
  /\ IF eventPub = NoEndpoint THEN UNCHANGED sdkVars ELSE Close(eventPub)
  /\ eventPub' = NoEndpoint
  /\ started' = FALSE /\ dirty' = FALSE
  /\ main' = "idle"
  /\ UNCHANGED <<next, starts, services, entities, requestVars>>

\* Node.close, from the last entity to the first.
CloseNode ==
  /\ main = "idle"
  /\ main' = "closing"
  /\ next' = Len(entities)
  /\ UNCHANGED <<starts, started, listVars, sdkVars, dirty, requestVars>>

CloseEntity ==
  /\ main = "closing"
  /\ next > 0
  /\ Close(entities[next])
  /\ next' = next - 1
  /\ UNCHANGED <<main, starts, started, listVars, dirty, requestVars>>

ClearEntities ==
  /\ main = "closing"
  /\ next = 0
  /\ entities' = <<>>
  /\ main' = "idle"
  /\ UNCHANGED <<next, starts, started, services, eventPub, sdkVars, dirty, requestVars>>

Main ==
  \/ Start \/ BuildService \/ BuildFails \/ RepairFails \/ StoreService
  \/ CreateEvents \/ EventsFail
  \/ Stop \/ CloseService \/ ClearServices \/ CloseEvents
  \/ CloseNode \/ CloseEntity \/ ClearEntities

-----------------------------------------------------------------------------
(* The handlers.                                                           *)

Receive(r) ==
  /\ state[r] = "idle"
  /\ \E e \in open : \E a \in Arguments[e.kind] :
       /\ e.kind # "events"
       /\ at' = [at EXCEPT ![r] = e]
       /\ args' = [args EXCEPT ![r] = a]
  /\ state' = [state EXCEPT ![r] = "handling"]
  /\ UNCHANGED <<main, next, starts, started, listVars, sdkVars, dirty, reply>>

\* Mutant of Found: the last service is not in the zip.
FoundButLast(r) ==
  {i \in DOMAIN Kinds \cap DOMAIN services : Kinds[i] = at[r].kind /\ i < Len(Kinds)}

\* _response_class: the position whose name is the request's, if there is one.
Found(r) == {i \in DOMAIN Kinds \cap DOMAIN services : Kinds[i] = at[r].kind}

\* The answer, in the class of the service at that position.
Reply(r) ==
  /\ state[r] = "handling"
  /\ \E i \in Found(r) :
       reply' = [reply EXCEPT ![r] = [class   |-> services[i].kind,
                                      content |-> Answer(at[r].kind, args[r])]]
  /\ state' = [state EXCEPT ![r] = "answered"]
  /\ UNCHANGED <<main, next, starts, started, listVars, sdkVars, dirty, at, args>>

\* KeyError leaves the handler, and the caller has no answer.
Raise(r) ==
  /\ state[r] = "handling"
  /\ Found(r) = {}
  /\ state' = [state EXCEPT ![r] = "raised"]
  /\ UNCHANGED <<main, next, starts, started, listVars, sdkVars, dirty, at, args, reply>>

Handler(r) == Reply(r) \/ Raise(r)

Next == Main \/ \E r \in Requests : Receive(r) \/ Handler(r)

SafeSpec == Init /\ [][Next]_vars
\* The SDK's threads run. Nobody has to start, to stop or to ask.
Spec == SafeSpec /\ \A r \in Requests : WF_vars(Handler(r))

-----------------------------------------------------------------------------
(* Properties.                                                             *)

Held == ToSet(services) \cup {eventPub}

\* An open endpoint is one that both stop and Node.close will find, but for the one
\* being stored: what a failed start has built is not lost. Two failures do lose an
\* endpoint: its own close (picoparams.py:380, picoros.py:234), and the repair of
\* its types, which runs while it answers and is in no list yet (picoros.py:203).
NothingLost ==
  \A e \in open \ leaked :
    (main = "storing" /\ e = Built) \/ (e \in Held /\ e \in ToSet(entities))

Serving == started /\ main = "idle" /\ ~dirty

\* "Once started, the owning node responds" (picoparams.py:330): a handler that
\* ends while the server is started, and nobody starts, stops or closes, has its
\* own service's response class. A start that failed spoils that for the next one,
\* whose services come to stand beside other names, and stop cures it.
ServingAnswers ==
  [][Serving => \A r \in Requests :
       state[r] = "handling" /\ state'[r] # "handling"
         => state'[r] = "answered" /\ reply'[r].class = at[r].kind]_vars

\* The server keeps its promise to whoever asks it while it goes on serving.
RequestsAnswered ==
  \A r \in Requests : (state[r] = "handling" /\ []Serving) ~> state[r] = "answered"

Under(n, a) == a = <<>> \/ \E i \in DOMAIN a : IsPrefix(a[i], n)
ProperPrefixes(n) == {SubSeq(n, 1, i) : i \in 1 .. Len(n) - 1}

\* What the list tells: every declared name under one of the prefixes asked for,
\* and every namespace such a name is in, each of them once, whatever prefixes
\* overlap or repeat (picoparams.py:286-308, 394-404).
ListExact ==
  \A r \in Requests : state[r] = "answered" /\ at[r].kind = "list" =>
    LET told == reply[r].content
        names == {n \in ToSet(Declared) : Under(n, args[r])}
    IN  /\ ToSet(told.names) = names /\ IsInjective(told.names)
        /\ ToSet(told.prefixes) = UNION {ProperPrefixes(n) : n \in names}
        /\ IsInjective(told.prefixes)

\* While no start has failed the services stand beside their own names, and the
\* list is as long as start has come.
Aligned ==
  /\ ~dirty => /\ Len(services) <= Len(Kinds)
               /\ \A i \in DOMAIN services : services[i].kind = Kinds[i]
  /\ main \in {"building", "storing"} => next \in DOMAIN Kinds
  /\ main \in {"building", "storing"} /\ ~dirty => Len(services) = next - 1
  /\ (main = "events" \/ (started /\ main # "muting")) /\ ~dirty => Len(services) = Len(Kinds)

\* Where stop and Node.close are on their way.
Progress ==
  /\ main \in {"building", "storing", "events"} => ~started /\ eventPub = NoEndpoint
                                                   /\ starts > 0
  /\ ~started /\ main # "muting" => eventPub = NoEndpoint
  /\ ~started /\ ~dirty /\ main \in {"idle", "closing", "stopping", "muting"} => services = <<>>
  /\ main = "muting" => services = <<>>
  /\ main = "stopping" => next > 0 /\ \A i \in 1 .. next - 1 :
                            i \in DOMAIN services => services[i] \notin open \ leaked
  /\ main = "closing" => next <= Len(entities) /\ \A i \in DOMAIN entities :
                            i > next => entities[i] \notin open \ leaked

\* Requests come to the six services.
Asked == \A r \in Requests : state[r] # "idle" => at[r].kind \in KindSet

\* The inductive strengthening of NothingLost and of what ServingAnswers needs.
IInv == TypeOK /\ NothingLost /\ Aligned /\ Progress /\ Asked
=============================================================================
