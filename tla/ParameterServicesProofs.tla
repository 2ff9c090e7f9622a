----------------------- MODULE ParameterServicesProofs -----------------------
(***************************************************************************)
(* NothingLost, ServingAnswers and ListExact for every list of services,   *)
(* every declaration and any number of requests and starts.  The inductive *)
(* invariant IInv falls into what is said of the caller of start, stop     *)
(* and close (MainOK) and what is said of the requests (RequestsOK), which *)
(* do not disturb one another; that an answer is the one its request's     *)
(* arguments lead to (Answers) rests on the requests alone.                *)
(***************************************************************************)
EXTENDS ParameterServices, WellFoundedInduction, TLAPS

MainTypes ==
  /\ main \in {"idle", "building", "storing", "events", "stopping", "muting", "closing"}
  /\ next \in Nat
  /\ starts \in 0 .. MaxStarts
  /\ started \in BOOLEAN
  /\ services \in Seq(Endpoints)
  /\ eventPub \in Endpoints \cup {NoEndpoint}
  /\ entities \in Seq(Endpoints)
  /\ open \subseteq Endpoints
  /\ leaked \subseteq Endpoints
  /\ dirty \in BOOLEAN

RequestTypes ==
  /\ state \in [Requests -> {"idle", "handling", "answered", "raised"}]
  /\ at \in [Requests -> Endpoints \cup {NoEndpoint}]
  /\ DOMAIN reply = Requests
  /\ \A r \in Requests : reply[r].class \in KindSet \cup {"events", "none"}

Lists == Aligned /\ Progress
MainOK == MainTypes /\ NothingLost /\ Lists
RequestsOK == RequestTypes /\ Asked
mainVars == <<main, next, starts, started, listVars, sdkVars, dirty>>

LEMMA Parts == IInv <=> MainOK /\ RequestsOK
  BY DEF IInv, TypeOK, MainOK, RequestsOK, MainTypes, RequestTypes, Lists

-----------------------------------------------------------------------------

LEMMA AppendFacts ==
  ASSUME NEW s \in Seq(Endpoints), NEW e \in Endpoints
  PROVE  /\ Append(s, e) \in Seq(Endpoints)
         /\ Len(Append(s, e)) = Len(s) + 1
         /\ \A i \in 1 .. Len(s) : Append(s, e)[i] = s[i]
         /\ Append(s, e)[Len(s) + 1] = e
         /\ ToSet(Append(s, e)) = ToSet(s) \cup {e}
  <1>1. /\ Append(s, e) \in Seq(Endpoints)
        /\ Len(Append(s, e)) = Len(s) + 1
        /\ \A i \in 1 .. Len(s) : Append(s, e)[i] = s[i]
        /\ Append(s, e)[Len(s) + 1] = e
    OBVIOUS
  <1>2. ToSet(Append(s, e)) = ToSet(s) \cup {e}
    BY <1>1 DEF ToSet
  <1> QED BY <1>1, <1>2

LEMMA KindFacts ==
  /\ Len(Kinds) \in Nat /\ Len(Kinds) > 0
  /\ DOMAIN Kinds = 1 .. Len(Kinds)
  /\ \A i \in DOMAIN Kinds : Kinds[i] \in KindSet
  /\ \A i, j \in DOMAIN Kinds : Kinds[i] = Kinds[j] => i = j
  BY KindsAssumption DEF KindSet, IsInjective

\* One more service beside its name.
LEMMA AppendAligned ==
  ASSUME NEW s \in Seq(Endpoints), NEW e \in Endpoints, NEW n \in DOMAIN Kinds,
         Len(s) = n - 1, \A i \in DOMAIN s : s[i].kind = Kinds[i], e.kind = Kinds[n]
  PROVE  /\ Len(Append(s, e)) = n
         /\ \A i \in DOMAIN Append(s, e) : Append(s, e)[i].kind = Kinds[i]
  <1>1. n \in 1 .. Len(Kinds) /\ Len(Kinds) \in Nat /\ DOMAIN s = 1 .. n - 1
    BY KindFacts
  <1>2. DOMAIN Append(s, e) = 1 .. n
    BY <1>1
  <1>3. ASSUME NEW i \in 1 .. n PROVE Append(s, e)[i].kind = Kinds[i]
    <2>1. CASE i = n
      BY <2>1, AppendFacts
    <2>2. CASE i # n
      BY <1>1, <2>2, AppendFacts
    <2> QED BY <2>1, <2>2
  <1> QED BY <1>1, <1>2, <1>3, AppendFacts

\* What start builds next, and the endpoint of the events.
LEMMA BuiltFacts ==
  ASSUME MainOK, main \in {"building", "storing", "events"}
  PROVE  /\ Service("events", starts) \in Endpoints
         /\ main # "events" => Built \in Endpoints
  <1>1. starts \in 1 .. MaxStarts
    BY StartsAssumption DEF MainOK, MainTypes, Lists, Progress
  <1>2. main # "events" => Kinds[next] \in KindSet
    BY KindFacts DEF MainOK, Lists, Aligned
  <1> QED BY <1>1, <1>2 DEF Endpoints, Service, Built

\* An endpoint that was closed, or would not be, is no longer one to be closed.
LEMMA CloseFacts ==
  ASSUME MainTypes, NEW e \in Endpoints, Close(e)
  PROVE  /\ open' \subseteq Endpoints /\ leaked' \subseteq Endpoints
         /\ open' \ leaked' = (open \ leaked) \ {e}
  BY DEF Close, MainTypes

LEMMA InitMain == Init => MainOK
  <1> SUFFICES ASSUME Init PROVE MainOK
    OBVIOUS
  <1>1. ~started /\ ~dirty /\ started \in BOOLEAN /\ dirty \in BOOLEAN
    BY Zenon DEF Init
  <1>2. MainTypes
    BY <1>1, StartsAssumption DEF Init, MainTypes
  <1>3. NothingLost
    BY DEF Init, NothingLost
  <1>4. Lists
    BY <1>1, KindFacts DEF Init, Lists, Aligned, Progress
  <1> QED BY <1>2, <1>3, <1>4 DEF MainOK

LEMMA StartMain == MainOK /\ Start => MainOK'
  <1> SUFFICES ASSUME MainOK, Start PROVE MainOK'
    OBVIOUS
  <1> USE DEF MainOK, Start, listVars, sdkVars
  <1>1. MainTypes'
    BY StartsAssumption DEF MainTypes
  <1>2. NothingLost'
    BY DEF NothingLost, Held
  <1>3. Lists'
    BY KindFacts DEF MainTypes, Lists, Aligned, Progress
  <1> QED BY <1>1, <1>2, <1>3

LEMMA BuildMain == MainOK /\ (BuildService \/ BuildFails \/ RepairFails) => MainOK'
  <1> SUFFICES ASSUME MainOK, BuildService \/ BuildFails \/ RepairFails PROVE MainOK'
    OBVIOUS
  <1> USE DEF MainOK, listVars, sdkVars
  <1>1. CASE BuildService
    <2>1. MainTypes'
      BY <1>1, BuiltFacts DEF MainTypes, BuildService
    <2>2. NothingLost'
      BY <1>1 DEF NothingLost, Held, BuildService, Built
    <2>3. Lists'
      BY <1>1 DEF Lists, Aligned, Progress, BuildService, MainTypes
    <2> QED BY <2>1, <2>2, <2>3
  <1>2. CASE BuildFails
    <2>1. MainTypes'
      BY <1>2 DEF MainTypes, BuildFails
    <2>2. NothingLost'
      BY <1>2 DEF NothingLost, Held, BuildFails
    <2>3. Lists'
      BY <1>2 DEF Lists, Aligned, Progress, BuildFails, MainTypes
    <2> QED BY <2>1, <2>2, <2>3
  <1>3. CASE RepairFails
    <2>1. MainTypes'
      BY <1>3, BuiltFacts DEF MainTypes, RepairFails
    <2>2. NothingLost'
      BY <1>3 DEF NothingLost, Held, RepairFails
    <2>3. Lists'
      BY <1>3 DEF Lists, Aligned, Progress, RepairFails, MainTypes
    <2> QED BY <2>1, <2>2, <2>3
  <1> QED BY <1>1, <1>2, <1>3

LEMMA StoreMain == MainOK /\ StoreService => MainOK'
  <1> SUFFICES ASSUME MainOK, StoreService PROVE MainOK'
    OBVIOUS
  <1> USE DEF MainOK, StoreService, sdkVars
  <1>1. Built \in Endpoints
    BY BuiltFacts
  <1>2. MainTypes'
    BY <1>1, AppendFacts DEF MainTypes
  <1>3. /\ ToSet(services') = ToSet(services) \cup {Built}
        /\ ToSet(entities') = ToSet(entities) \cup {Built}
    BY <1>1, AppendFacts DEF MainTypes
  <1>4. NothingLost'
    BY <1>3 DEF NothingLost, Held
  <1>5. Aligned'
    <2>1. next \in DOMAIN Kinds /\ Built.kind = Kinds[next]
      BY DEF Lists, Aligned, Built, Service
    <2>2. ASSUME ~dirty
          PROVE  /\ Len(services') = next
                 /\ \A i \in DOMAIN services' : services'[i].kind = Kinds[i]
      <3>1. Len(services) = next - 1
            /\ \A i \in DOMAIN services : services[i].kind = Kinds[i]
        BY <2>2 DEF Lists, Aligned
      <3> QED BY <1>1, <2>1, <3>1, AppendAligned DEF MainTypes
    <2>3. ~started /\ (started' <=> started) /\ (dirty' <=> dirty)
      BY DEF Lists, Progress
    <2>4. next \in Nat /\ next <= Len(Kinds) /\ Len(Kinds) \in Nat
          /\ DOMAIN Kinds = 1 .. Len(Kinds)
      BY <2>1, KindFacts
    <2>5. next' = next + 1
      OBVIOUS
    <2>6. main' = IF next = Len(Kinds) THEN "events" ELSE "building"
      OBVIOUS
    <2> HIDE DEF StoreService, MainOK
    <2>7. /\ ~dirty' => /\ Len(services') = next
                        /\ \A i \in DOMAIN services' : services'[i].kind = Kinds[i]
          /\ ~started'
      BY <2>2, <2>3, Zenon
    <2>8. ~dirty' => Len(services') <= Len(Kinds) /\ Len(services') = next' - 1
      BY <2>4, <2>5, <2>7
    <2>9. next # Len(Kinds) => next' \in DOMAIN Kinds
      <3>1. next \in Nat /\ next <= Len(Kinds)
        BY <2>4
      <3>2. Len(Kinds) \in Nat
        BY <2>4
      <3>3. next # Len(Kinds) => next + 1 \in 1 .. Len(Kinds)
        BY <3>1, <3>2
      <3> QED BY <2>4, <2>5, <3>3, Zenon
    <2>10. main' = "events" => next = Len(Kinds)
      BY <2>6
    <2>11. main' \in {"building", "storing"} => next # Len(Kinds)
      BY <2>6
    <2> QED BY <2>7, <2>8, <2>9, <2>10, <2>11 DEF Aligned
  <1>6. Progress'
    BY DEF Lists, Progress
  <1> QED BY <1>2, <1>4, <1>5, <1>6 DEF Lists

LEMMA EventsMain == MainOK /\ (CreateEvents \/ EventsFail) => MainOK'
  <1> SUFFICES ASSUME MainOK, CreateEvents \/ EventsFail PROVE MainOK'
    OBVIOUS
  <1> USE DEF MainOK, listVars, sdkVars
  <1>1. started' = TRUE
    BY DEF CreateEvents, EventsFail
  <1>2. CASE CreateEvents
    <2> DEFINE e == Service("events", starts)
    <2>1. e \in Endpoints /\ eventPub = NoEndpoint
      BY <1>2, BuiltFacts DEF CreateEvents, Lists, Progress
    <2>2. /\ open' = open \cup {e} /\ entities' = Append(entities, e) /\ eventPub' = e
          /\ main = "events" /\ main' = "idle"
          /\ UNCHANGED <<next, starts, services, leaked, dirty>>
      BY <1>2 DEF CreateEvents
    <2> HIDE DEF e
    <2>3. MainTypes'
      BY <1>1, <2>1, <2>2, AppendFacts DEF MainTypes
    <2>4. ToSet(entities') = ToSet(entities) \cup {e}
      BY <2>1, <2>2, AppendFacts DEF MainTypes
    <2>5. NothingLost'
      <3>1. NoEndpoint \notin open
        BY KindsAssumption DEF MainTypes, Endpoints, NoEndpoint
      <3> QED BY <2>1, <2>2, <2>4, <3>1 DEF NothingLost, Held
    <2>6. Lists'
      BY <1>1, <2>2 DEF Lists, Aligned, Progress
    <2> QED BY <2>3, <2>5, <2>6
  <1>3. CASE EventsFail
    <2>1. MainTypes'
      BY <1>1, <1>3 DEF MainTypes, EventsFail
    <2>2. NothingLost'
      BY <1>3 DEF NothingLost, Held, EventsFail
    <2>3. Lists'
      BY <1>1, <1>3 DEF Lists, Aligned, Progress, EventsFail
    <2> QED BY <2>1, <2>2, <2>3
  <1> QED BY <1>2, <1>3

LEMMA StopMain == MainOK /\ (Stop \/ CloseNode) => MainOK'
  <1> SUFFICES ASSUME MainOK, Stop \/ CloseNode PROVE MainOK'
    OBVIOUS
  <1> USE DEF MainOK, listVars, sdkVars
  <1>1. CASE Stop
    <2>1. MainTypes'
      BY <1>1 DEF MainTypes, Stop
    <2>2. NothingLost'
      BY <1>1 DEF NothingLost, Held, Stop
    <2>3. Lists'
      BY <1>1 DEF Lists, Aligned, Progress, Stop, MainTypes
    <2> QED BY <2>1, <2>2, <2>3
  <1>2. CASE CloseNode
    <2>1. MainTypes'
      BY <1>2 DEF MainTypes, CloseNode
    <2>2. NothingLost'
      BY <1>2 DEF NothingLost, Held, CloseNode
    <2>3. Lists'
      BY <1>2 DEF Lists, Aligned, Progress, CloseNode, MainTypes
    <2> QED BY <2>1, <2>2, <2>3
  <1> QED BY <1>1, <1>2

LEMMA CloseMain == MainOK /\ (CloseService \/ CloseEntity) => MainOK'
  <1> SUFFICES ASSUME MainOK, CloseService \/ CloseEntity PROVE MainOK'
    OBVIOUS
  <1> USE DEF MainOK, listVars
  <1>1. CASE CloseService
    <2>1. services[next] \in Endpoints
      BY <1>1 DEF CloseService, MainTypes, Lists, Progress
    <2>2. /\ open' \subseteq Endpoints /\ leaked' \subseteq Endpoints
          /\ open' \ leaked' = (open \ leaked) \ {services[next]}
      BY <1>1, <2>1, CloseFacts DEF CloseService
    <2>3. MainTypes'
      BY <1>1, <2>2 DEF MainTypes, CloseService
    <2>4. NothingLost'
      BY <1>1, <2>2 DEF NothingLost, Held, CloseService
    <2>5. Aligned'
      BY <1>1 DEF CloseService, Lists, Aligned
    <2>6. Progress'
      <3>1. ASSUME NEW i \in 1 .. next, i \in DOMAIN services
            PROVE  services[i] \notin open' \ leaked'
        <4>1. CASE i = next
          BY <2>2, <4>1
        <4>2. CASE i # next
          BY <1>1, <2>2, <3>1, <4>2 DEF CloseService, Lists, Progress, MainTypes
        <4> QED BY <4>1, <4>2
      <3>2. next' = next + 1 /\ next \in Nat /\ main = "stopping" /\ main' = main
        BY <1>1 DEF CloseService, MainTypes
      <3> QED BY <1>1, <3>1, <3>2 DEF CloseService, Lists, Progress
    <2> QED BY <2>3, <2>4, <2>5, <2>6 DEF Lists
  <1>2. CASE CloseEntity
    <2>1. entities[next] \in Endpoints /\ next \in DOMAIN entities
      BY <1>2 DEF CloseEntity, MainTypes, Lists, Progress
    <2>2. /\ open' \subseteq Endpoints /\ leaked' \subseteq Endpoints
          /\ open' \ leaked' = (open \ leaked) \ {entities[next]}
      BY <1>2, <2>1, CloseFacts DEF CloseEntity
    <2>3. MainTypes'
      BY <1>2, <2>2 DEF MainTypes, CloseEntity
    <2>4. NothingLost'
      BY <1>2, <2>2 DEF NothingLost, Held, CloseEntity
    <2>5. Aligned'
      BY <1>2 DEF CloseEntity, Lists, Aligned
    <2>6. Progress'
      <3>1. ASSUME NEW i \in DOMAIN entities, i > next - 1
            PROVE  entities[i] \notin open' \ leaked'
        <4>1. CASE i = next
          BY <2>2, <4>1
        <4>2. CASE i # next
          <5>1. i > next
            BY <3>1, <4>2 DEF MainTypes
          <5>2. entities[i] \notin open \ leaked
            BY <1>2, <5>1 DEF CloseEntity, Lists, Progress
          <5> QED BY <2>2, <5>2
        <4> QED BY <4>1, <4>2
      <3>2. next' = next - 1 /\ next \in Nat /\ next <= Len(entities)
            /\ main = "closing" /\ main' = main
        BY <1>2 DEF CloseEntity, MainTypes, Lists, Progress
      <3>3. next - 1 <= Len(entities)
        BY <3>2 DEF MainTypes
      <3> QED BY <1>2, <3>1, <3>2, <3>3 DEF CloseEntity, Lists, Progress
    <2> QED BY <2>3, <2>4, <2>5, <2>6 DEF Lists
  <1> QED BY <1>1, <1>2

LEMMA ClearMain == MainOK /\ (ClearServices \/ ClearEntities) => MainOK'
  <1> SUFFICES ASSUME MainOK, ClearServices \/ ClearEntities PROVE MainOK'
    OBVIOUS
  <1> USE DEF MainOK, sdkVars
  <1>1. CASE ClearServices
    <2>1. MainTypes'
      BY <1>1 DEF MainTypes, ClearServices
    <2>2. \A i \in DOMAIN services : services[i] \notin open \ leaked
      BY <1>1 DEF ClearServices, Lists, Progress, MainTypes
    <2>3. ToSet(services) \cap (open \ leaked) = {}
      BY <2>2 DEF ToSet
    <2>4. NothingLost'
      BY <1>1, <2>3 DEF NothingLost, Held, ClearServices
    <2>5. Aligned'
      BY <1>1, KindFacts DEF ClearServices, Aligned
    <2>6. Progress'
      BY <1>1 DEF ClearServices, Lists, Progress
    <2> QED BY <2>1, <2>4, <2>5, <2>6 DEF Lists
  <1>2. CASE ClearEntities
    <2>1. MainTypes'
      BY <1>2 DEF MainTypes, ClearEntities
    <2>2. \A i \in DOMAIN entities : entities[i] \notin open \ leaked
      BY <1>2 DEF ClearEntities, Lists, Progress, MainTypes
    <2>3. ToSet(entities) \cap (open \ leaked) = {}
      BY <2>2 DEF ToSet
    <2>4. NothingLost'
      BY <1>2, <2>3 DEF NothingLost, ClearEntities
    <2>5. Aligned'
      BY <1>2 DEF ClearEntities, Lists, Aligned
    <2>6. Progress'
      BY <1>2 DEF ClearEntities, Lists, Progress
    <2> QED BY <2>1, <2>4, <2>5, <2>6 DEF Lists
  <1> QED BY <1>1, <1>2

LEMMA CloseEventsMain == MainOK /\ CloseEvents => MainOK'
  <1> SUFFICES ASSUME MainOK, CloseEvents PROVE MainOK'
    OBVIOUS
  <1> USE DEF MainOK, CloseEvents
  <1>1. started' \in BOOLEAN /\ ~started' /\ dirty' \in BOOLEAN /\ ~dirty'
    BY Zenon
  <1>2. services = <<>>
    BY DEF Lists, Progress
  <1>3. /\ open' \subseteq Endpoints /\ leaked' \subseteq Endpoints
        /\ open' \ leaked' = (open \ leaked) \ {eventPub}
    <2>1. CASE eventPub = NoEndpoint
      <3>1. NoEndpoint \notin open
        BY KindsAssumption DEF MainTypes, Endpoints, NoEndpoint
      <3> QED BY <2>1, <3>1 DEF MainTypes, sdkVars
    <2>2. CASE eventPub # NoEndpoint
      BY <2>2, CloseFacts DEF MainTypes
    <2> QED BY <2>1, <2>2
  <1>4. MainTypes'
    BY <1>1, <1>3 DEF MainTypes
  <1>5. NothingLost'
    BY <1>2, <1>3 DEF NothingLost, Held, ToSet
  <1>6. Aligned'
    BY <1>1, <1>2, KindFacts DEF Aligned
  <1>7. Progress'
    BY <1>1, <1>2 DEF Lists, Progress
  <1> QED BY <1>4, <1>5, <1>6, <1>7 DEF Lists

LEMMA MainMain == MainOK /\ Main => MainOK'
  BY StartMain, BuildMain, StoreMain, EventsMain, StopMain, CloseMain, ClearMain,
     CloseEventsMain DEF Main

-----------------------------------------------------------------------------
(* The requests leave the caller alone, and the caller them.               *)

LEMMA StillMain == MainOK /\ UNCHANGED mainVars => MainOK'
  <1> SUFFICES ASSUME MainOK, UNCHANGED mainVars PROVE MainOK'
    OBVIOUS
  <1> USE DEF MainOK, mainVars, listVars, sdkVars
  <1>1. MainTypes'
    BY DEF MainTypes
  <1>2. NothingLost'
    BY DEF NothingLost, Held, Built
  <1>3. Lists'
    BY DEF Lists, Aligned, Progress
  <1> QED BY <1>1, <1>2, <1>3

LEMMA StillRequests == RequestsOK /\ UNCHANGED requestVars => RequestsOK'
  BY DEF RequestsOK, RequestTypes, Asked, requestVars

LEMMA MainLeaves == Main => UNCHANGED requestVars
  BY DEF Main, Start, BuildService, BuildFails, RepairFails, StoreService, CreateEvents,
         EventsFail, Stop, CloseService, ClearServices, CloseEvents, CloseNode,
         CloseEntity, ClearEntities

LEMMA RequestsLeave ==
  ASSUME NEW r \in Requests, Receive(r) \/ Handler(r)
  PROVE  UNCHANGED mainVars
  BY DEF Receive, Handler, Reply, Raise, mainVars

LEMMA InitRequests == Init => RequestsOK
  BY DEF Init, RequestsOK, RequestTypes, Asked, NoEndpoint, NoReply

LEMMA ReceiveRequests ==
  ASSUME MainOK, RequestsOK, NEW r \in Requests, Receive(r)
  PROVE  RequestsOK'
  <1>1. PICK e \in open : e.kind # "events" /\ at' = [at EXCEPT ![r] = e]
    BY DEF Receive
  <1>2. e \in Endpoints /\ e.kind \in KindSet
    BY <1>1 DEF MainOK, MainTypes, Endpoints
  <1>3. state' = [state EXCEPT ![r] = "handling"] /\ reply' = reply
    BY DEF Receive
  <1>4. RequestTypes'
    BY <1>1, <1>2, <1>3 DEF RequestsOK, RequestTypes
  <1>5. Asked'
    BY <1>1, <1>2, <1>3 DEF RequestsOK, RequestTypes, Asked
  <1> QED BY <1>4, <1>5 DEF RequestsOK

LEMMA HandleRequests ==
  ASSUME MainOK, RequestsOK, NEW r \in Requests, Handler(r)
  PROVE  RequestsOK'
  <1>1. CASE Reply(r)
    <2>1. PICK i \in Found(r) :
            reply' = [reply EXCEPT ![r] = [class   |-> services[i].kind,
                                           content |-> Answer(at[r].kind, args[r])]]
      BY <1>1 DEF Reply
    <2>2. services[i].kind \in KindSet \cup {"events"}
      <3>1. i \in DOMAIN services /\ services \in Seq(Endpoints)
        BY DEF Found, MainOK, MainTypes
      <3>2. services[i] \in Endpoints
        BY <3>1
      <3> QED BY <3>2 DEF Endpoints
    <2>3. state' = [state EXCEPT ![r] = "answered"] /\ at' = at /\ state[r] = "handling"
      BY <1>1 DEF Reply
    <2>4. /\ DOMAIN reply' = Requests
          /\ \A q \in Requests : reply'[q].class \in KindSet \cup {"events", "none"}
      BY <2>1, <2>2 DEF RequestsOK, RequestTypes
    <2>5. RequestTypes'
      BY <2>3, <2>4 DEF RequestsOK, RequestTypes
    <2>6. Asked'
      BY <2>3 DEF RequestsOK, RequestTypes, Asked
    <2> QED BY <2>5, <2>6 DEF RequestsOK
  <1>2. CASE Raise(r)
    BY <1>2 DEF Raise, RequestsOK, RequestTypes, Asked
  <1> QED BY <1>1, <1>2 DEF Handler

LEMMA StepInv == IInv /\ [Next]_vars => IInv'
  <1> SUFFICES ASSUME MainOK, RequestsOK, [Next]_vars PROVE MainOK' /\ RequestsOK'
    <2>1. (MainOK /\ RequestsOK)' => IInv'
      BY DEF IInv, TypeOK, MainOK, RequestsOK, MainTypes, RequestTypes, Lists
    <2> QED BY <2>1, Parts
  <1>1. CASE Main
    BY <1>1, MainMain, MainLeaves, StillRequests
  <1>2. ASSUME NEW r \in Requests, Receive(r) \/ Handler(r) PROVE MainOK' /\ RequestsOK'
    BY <1>2, RequestsLeave, StillMain, ReceiveRequests, HandleRequests
  <1>3. CASE UNCHANGED vars
    BY <1>3, StillMain, StillRequests DEF vars, mainVars, requestVars, listVars, sdkVars
  <1> QED BY <1>1, <1>2, <1>3 DEF Next

\* IInv holds in every state that can be reached.
THEOREM Inductive == SafeSpec => []IInv
  <1>1. Init => IInv
    BY InitMain, InitRequests, Parts
  <1> QED BY <1>1, StepInv, PTL DEF SafeSpec

-----------------------------------------------------------------------------

\* The variables keep their types, for any list of services and any requests.
THEOREM TypeCorrect == Spec => []TypeOK
  BY Inductive, PTL DEF Spec, IInv

\* However often start, stop and close are called, and wherever start fails: what is
\* open is found by both stop and Node.close, but for the one being stored and those
\* whose close or whose repair raised (picoparams.py:358-391, picoros.py:203).
THEOREM NothingIsLost == Spec => []NothingLost
  BY Inductive, PTL DEF Spec, IInv

\* A handler that ends while the server serves has found its own class.
LEMMA OwnClass ==
  ASSUME IInv, Serving, [Next]_vars, NEW r \in Requests, state[r] = "handling",
         state'[r] # "handling"
  PROVE  state'[r] = "answered" /\ reply'[r].class = at[r].kind
  <1>1. ~dirty /\ started /\ main = "idle"
    BY DEF Serving
  <1>2. /\ Len(services) = Len(Kinds)
        /\ \A i \in DOMAIN services : services[i].kind = Kinds[i]
    BY <1>1 DEF IInv, Aligned
  <1>3. DOMAIN services = DOMAIN Kinds
    BY <1>2, KindFacts DEF IInv, TypeOK
  <1>4. PICK k \in DOMAIN Kinds : Kinds[k] = at[r].kind
    BY DEF IInv, Asked, KindSet
  <1>5. Found(r) # {} /\ \A i \in Found(r) : services[i].kind = at[r].kind
    BY <1>2, <1>3, <1>4 DEF Found
  <1>6. state \in [Requests -> {"idle", "handling", "answered", "raised"}]
        /\ DOMAIN reply = Requests
    BY DEF IInv, TypeOK
  <1>7. PICK q \in Requests : Receive(q) \/ Handler(q)
    BY MainLeaves DEF Next, vars, requestVars
  <1>8. q = r /\ Handler(r)
    BY <1>6, <1>7 DEF Receive, Handler, Reply, Raise
  <1>9. Reply(r)
    BY <1>5, <1>8 DEF Handler, Raise
  <1>10. state'[r] = "answered"
    BY <1>6, <1>9 DEF Reply
  <1>11. reply'[r].class = at[r].kind
    BY <1>5, <1>6, <1>9 DEF Reply
  <1> QED BY <1>10, <1>11

\* While the server serves, whoever is answered is answered in the class of the
\* service it asked, and nobody is left without (picoparams.py:330, 506-510).
THEOREM ServerAnswers == Spec => ServingAnswers
  <1>1. IInv /\ [Next]_vars =>
          [Serving => \A r \in Requests : state[r] = "handling" /\ state'[r] # "handling"
             => state'[r] = "answered" /\ reply'[r].class = at[r].kind]_vars
    BY OwnClass
  <1> QED BY <1>1, Inductive, PTL DEF Spec, SafeSpec, ServingAnswers

-----------------------------------------------------------------------------
(* What a list is answered with.  FlattenSeq is a function defined by      *)
(* recursion along the sequence: that it is there, and what holds of it,   *)
(* is counted up to the sequence's length (Counting).                      *)

\* Counting up from one: a set that has 1 and with each number the next has all.
LEMMA Counting ==
  ASSUME NEW n \in Nat, NEW I, n > 0 => 1 \in I,
         \A i \in I : i \in 1 .. n /\ i < n => i + 1 \in I
  PROVE  \A i \in 1 .. n : i \in I
  <1> DEFINE B == (1 .. n) \ I
             R == OpToRel(<, Nat)
  <1>1. SUFFICES ASSUME B # {} PROVE FALSE
    OBVIOUS
  <1>2. \E m \in B : \A i \in B : <<i, m>> \notin R
    <2>1. B \subseteq Nat
      OBVIOUS
    <2> HIDE DEF B, R
    <2>2. IsWellFoundedOn(R, Nat)
      BY NatLessThanWellFounded DEF R
    <2>3. QED
      BY <1>1, <2>1, <2>2, WFMin
  <1>3. PICK m \in B : \A i \in B : <<i, m>> \notin R
    BY <1>2
  <1>4. \A i, j \in Nat : i < j => <<i, j>> \in R
    BY DEF OpToRel
  <1> HIDE DEF R
  <1>5. \A i \in B : ~(i < m)
    <2>1. B \subseteq Nat
      OBVIOUS
    <2> HIDE DEF B
    <2>2. QED
      BY <1>3, <1>4, <2>1
  <1>6. m \in 1 .. n /\ m \notin I
    BY <1>3
  <1>7. m - 1 \in 1 .. n /\ m - 1 \in I
    <2>1. m \in Nat /\ 1 <= m /\ m <= n /\ m # 1
      BY <1>6
    <2>2. m - 1 \in 1 .. n /\ m - 1 < m
      BY <2>1
    <2>3. m - 1 \notin B
      BY <1>5, <2>2
    <2>4. QED
      BY <2>2, <2>3
  <1>8. (m - 1) + 1 = m /\ m - 1 < n
    BY <1>6
  <1>9. QED
    BY <1>6, <1>7, <1>8

\* The elements of a concatenation.
LEMMA ConcatFacts ==
  ASSUME NEW T, NEW a \in Seq(T), NEW b \in Seq(T)
  PROVE  /\ a \o b \in Seq(T)
         /\ ToSet(a \o b) = ToSet(a) \cup ToSet(b)
         /\ IsInjective(a) /\ IsInjective(b) /\ ToSet(a) \cap ToSet(b) = {} => IsInjective(a \o b)
  <1>1. /\ a \o b \in Seq(T)
        /\ DOMAIN (a \o b) = 1 .. Len(a) + Len(b)
        /\ \A i \in 1 .. Len(a) : (a \o b)[i] = a[i]
        /\ \A i \in 1 .. Len(b) : (a \o b)[Len(a) + i] = b[i]
        /\ DOMAIN a = 1 .. Len(a) /\ DOMAIN b = 1 .. Len(b)
        /\ Len(a) \in Nat /\ Len(b) \in Nat
    OBVIOUS
  <1> DEFINE c == a \o b
  <1> HIDE DEF c
  <1>2. /\ DOMAIN c = 1 .. Len(a) + Len(b)
        /\ \A i \in DOMAIN a : c[i] = a[i] /\ i \in DOMAIN c
        /\ \A i \in DOMAIN b : c[Len(a) + i] = b[i] /\ Len(a) + i \in DOMAIN c
        /\ \A k \in DOMAIN c : k \in DOMAIN a \/ \E i \in DOMAIN b : k = Len(a) + i
    <2>1. \A k \in 1 .. Len(a) + Len(b) : k \in 1 .. Len(a) \/ \E i \in 1 .. Len(b) : k = Len(a) + i
      <3> SUFFICES ASSUME NEW k \in 1 .. Len(a) + Len(b), k \notin 1 .. Len(a)
                   PROVE  \E i \in 1 .. Len(b) : k = Len(a) + i
        OBVIOUS
      <3>1. k - Len(a) \in 1 .. Len(b) /\ k = Len(a) + (k - Len(a))
        BY <1>1
      <3>2. QED
        BY <3>1
    <2>2. /\ DOMAIN c = 1 .. Len(a) + Len(b)
          /\ \A i \in 1 .. Len(a) : c[i] = a[i]
          /\ \A i \in 1 .. Len(b) : c[Len(a) + i] = b[i]
      BY <1>1 DEF c
    <2>3. /\ \A i \in 1 .. Len(a) : i \in 1 .. Len(a) + Len(b)
          /\ \A i \in 1 .. Len(b) : Len(a) + i \in 1 .. Len(a) + Len(b)
      BY <1>1
    <2>4. DOMAIN a = 1 .. Len(a) /\ DOMAIN b = 1 .. Len(b)
      BY <1>1
    <2>5. QED
      BY <2>1, <2>2, <2>3, <2>4
  <1>3. ToSet(c) = ToSet(a) \cup ToSet(b)
    BY <1>2 DEF ToSet
  <1>4. ASSUME IsInjective(a), IsInjective(b), ToSet(a) \cap ToSet(b) = {}
        PROVE  IsInjective(c)
    <2> SUFFICES ASSUME NEW k \in DOMAIN c, NEW l \in DOMAIN c, c[k] = c[l] PROVE k = l
      BY DEF IsInjective
    <2>1. CASE k \in DOMAIN a /\ l \in DOMAIN a
      BY <1>2, <1>4, <2>1 DEF IsInjective
    <2>2. ASSUME NEW i \in DOMAIN b, k = Len(a) + i, l \in DOMAIN a PROVE FALSE
      BY <1>2, <1>4, <2>2 DEF ToSet
    <2>3. ASSUME NEW i \in DOMAIN b, l = Len(a) + i, k \in DOMAIN a PROVE FALSE
      <3>1. c[k] = a[k] /\ c[l] = b[i]
        BY <1>2, <2>3
      <3>2. QED
        BY <1>4, <2>3, <3>1 DEF ToSet
    <2>4. ASSUME NEW i \in DOMAIN b, NEW j \in DOMAIN b, k = Len(a) + i, l = Len(a) + j
          PROVE  k = l
      BY <1>2, <1>4, <2>4 DEF IsInjective
    <2>5. QED
      BY <1>2, <2>1, <2>2, <2>3, <2>4
  <1>5. QED
    BY <1>1, <1>3, <1>4 DEF c

\* The recursive function behind FlattenSeq is there.
LEMMA FlattenIs ==
  ASSUME NEW s, NEW n \in Nat, n = Len(s), n # 0
  PROVE  \E f : /\ FlattenSeq(s) = f[n] /\ f[1] = s[1]
                /\ \A k \in 1 .. n : k < n => f[k + 1] = f[k] \o s[k + 1]
  <1> DEFINE Sums(f, k) == f = [i \in 1 .. k |-> IF i = 1 THEN s[i] ELSE f[i - 1] \o s[i]]
             I == {k \in 1 .. n : \E f : Sums(f, k)}
  <1>1. 1 \in I
    <2>1. Sums([i \in 1 .. 1 |-> s[i]], 1)
      OBVIOUS
    <2>2. 1 \in 1 .. n
      OBVIOUS
    <2> HIDE DEF Sums
    <2>3. QED
      BY <2>1, <2>2
  <1>2. ASSUME NEW k \in I, k < n PROVE k + 1 \in I
    <2>1. PICK f : Sums(f, k)
      OBVIOUS
    <2> DEFINE g == [i \in 1 .. k + 1 |-> IF i = k + 1 THEN f[k] \o s[i] ELSE f[i]]
    <2>2. k \in 1 .. n /\ k + 1 \in 1 .. n
      BY <1>2
    <2>3. \A i \in 1 .. k : f[i] = IF i = 1 THEN s[i] ELSE f[i - 1] \o s[i]
      BY <2>1
    <2>4. \A i \in 1 .. k + 1 : g[i] = IF i = k + 1 THEN f[k] \o s[i] ELSE f[i]
      OBVIOUS
    <2>6. g = [i \in 1 .. k + 1 |-> g[i]]
      OBVIOUS
    <2> HIDE DEF g
    <2>5. ASSUME NEW i \in 1 .. k + 1
          PROVE  g[i] = IF i = 1 THEN s[i] ELSE g[i - 1] \o s[i]
      <3>1. CASE i = k + 1
        <4>1. i # 1 /\ i - 1 = k /\ k \in 1 .. k + 1 /\ k # k + 1
          BY <2>2, <3>1
        <4>2. QED
          BY <2>4, <3>1, <4>1
      <3>2. CASE i = 1
        <4>1. i # k + 1 /\ i \in 1 .. k
          BY <2>2, <3>2
        <4>2. QED
          BY <2>3, <2>4, <3>2, <4>1
      <3>3. CASE i # k + 1 /\ i # 1
        <4>1. i \in 1 .. k /\ i - 1 \in 1 .. k + 1 /\ i - 1 # k + 1
          BY <2>2, <3>3
        <4>2. QED
          BY <2>3, <2>4, <3>3, <4>1
      <3>4. QED
        BY <3>1, <3>2, <3>3
    <2>7. Sums(g, k + 1)
      BY <2>5, <2>6
    <2>8. QED
      BY <2>2, <2>7
  <1>3. n \in I
    <2>1. n \in 1 .. n
      OBVIOUS
    <2> HIDE DEF I
    <2>2. QED
      BY <1>1, <1>2, <2>1, Counting
  <1> DEFINE f == CHOOSE f : Sums(f, n)
  <1>4. Sums(f, n)
    BY <1>3
  <1>5. FlattenSeq(s) = f[n]
    BY DEF FlattenSeq
  <1> HIDE DEF f
  <1>6. \A i \in 1 .. n : f[i] = IF i = 1 THEN s[i] ELSE f[i - 1] \o s[i]
    BY <1>4
  <1>7. f[1] = s[1]
    BY <1>6
  <1>8. ASSUME NEW k \in 1 .. n, k < n PROVE f[k + 1] = f[k] \o s[k + 1]
    <2>1. k + 1 \in 1 .. n /\ k + 1 # 1 /\ (k + 1) - 1 = k
      BY <1>8
    <2>2. QED
      BY <1>6, <2>1
  <1>9. QED
    BY <1>5, <1>7, <1>8

\* What FlattenSeq keeps: the elements, and that they differ.
LEMMA FlattenFacts ==
  ASSUME NEW T, NEW s \in Seq(Seq(T))
  PROVE  /\ FlattenSeq(s) \in Seq(T)
         /\ ToSet(FlattenSeq(s)) = UNION {ToSet(s[i]) : i \in DOMAIN s}
         /\ (/\ \A i \in DOMAIN s : IsInjective(s[i])
             /\ \A i, j \in DOMAIN s : i # j => ToSet(s[i]) \cap ToSet(s[j]) = {})
            => IsInjective(FlattenSeq(s))
  <1> DEFINE n == Len(s)
  <1>0. n \in Nat /\ DOMAIN s = 1 .. n /\ \A i \in 1 .. n : s[i] \in Seq(T)
    OBVIOUS
  <1>1. CASE n = 0
    <2>1. FlattenSeq(s) = s /\ s = <<>>
      BY <1>1 DEF FlattenSeq
    <2>2. QED
      BY <2>1 DEF ToSet, IsInjective
  <1>2. CASE n # 0
    <2> HIDE DEF n
    <2>1. PICK f : /\ FlattenSeq(s) = f[n] /\ f[1] = s[1]
                   /\ \A k \in 1 .. n : k < n => f[k + 1] = f[k] \o s[k + 1]
      BY <1>0, <1>2, FlattenIs DEF n
    <2> DEFINE Apart == /\ \A i \in 1 .. n : IsInjective(s[i])
                        /\ \A i, j \in 1 .. n : i # j => ToSet(s[i]) \cap ToSet(s[j]) = {}
               Told(k) == UNION {ToSet(s[i]) : i \in 1 .. k}
               I == {k \in 1 .. n : /\ f[k] \in Seq(T) /\ ToSet(f[k]) = Told(k)
                                    /\ Apart => IsInjective(f[k])}
    <2>2. 1 \in I
      <3>1. 1 \in 1 .. n /\ 1 .. 1 = {1}
        BY <1>0, <1>2
      <3>2. QED
        BY <1>0, <2>1, <3>1
    <2>3. ASSUME NEW k \in I, k < n PROVE k + 1 \in I
      <3>1. k + 1 \in 1 .. n /\ k \in 1 .. n /\ 1 .. k + 1 = (1 .. k) \cup {k + 1}
        BY <1>0, <2>3
      <3>2. f[k + 1] = f[k] \o s[k + 1]
        BY <2>1, <2>3, <3>1
      <3>3. /\ f[k] \in Seq(T) /\ s[k + 1] \in Seq(T)
            /\ ToSet(f[k]) = Told(k) /\ (Apart => IsInjective(f[k]))
        BY <1>0, <3>1
      <3>4. Told(k + 1) = Told(k) \cup ToSet(s[k + 1])
        BY <3>1
      <3>5. ASSUME Apart PROVE Told(k) \cap ToSet(s[k + 1]) = {}
        <4>1. \A i \in 1 .. k : i \in 1 .. n /\ i # k + 1
          BY <1>0, <3>1
        <4>2. \A i \in 1 .. k : ToSet(s[i]) \cap ToSet(s[k + 1]) = {}
          BY <3>1, <3>5, <4>1
        <4>3. QED
          BY <4>2
      <3>6. /\ f[k + 1] \in Seq(T) /\ ToSet(f[k + 1]) = Told(k + 1)
            /\ Apart => IsInjective(f[k + 1])
        <4> HIDE DEF Told, I
        <4>1. /\ f[k] \o s[k + 1] \in Seq(T)
              /\ ToSet(f[k] \o s[k + 1]) = ToSet(f[k]) \cup ToSet(s[k + 1])
              /\ IsInjective(f[k]) /\ IsInjective(s[k + 1])
                   /\ ToSet(f[k]) \cap ToSet(s[k + 1]) = {} => IsInjective(f[k] \o s[k + 1])
          BY <3>3, ConcatFacts
        <4>2. Apart => IsInjective(s[k + 1])
          BY <3>1
        <4> HIDE DEF Apart
        <4>3. QED
          BY <3>2, <3>3, <3>4, <3>5, <4>1, <4>2
      <3>7. QED
        BY <3>1, <3>6
    <2>4. n \in I
      <3>1. n \in 1 .. n
        BY <1>0, <1>2
      <3> HIDE DEF I
      <3>2. QED
        BY <1>0, <2>2, <2>3, <3>1, Counting
    <2>5. QED
      BY <1>0, <2>1, <2>4
  <1>3. QED
    BY <1>1, <1>2

\* What stays of a sequence.
LEMMA OnlyFacts ==
  ASSUME NEW P, NEW s \in Seq(P), NEW S \in SUBSET DOMAIN s
  PROVE  /\ Only(s, S) \in Seq(P)
         /\ ToSet(Only(s, S)) = {s[i] : i \in S}
         /\ (\A i, j \in S : s[i] = s[j] => i = j) => IsInjective(Only(s, S))
  <1> DEFINE pieces == [i \in DOMAIN s |-> IF i \in S THEN <<s[i]>> ELSE <<>>]
  <1>1. pieces \in Seq(Seq(P)) /\ DOMAIN pieces = DOMAIN s
    <2>1. \A i \in DOMAIN s : s[i] \in P
      OBVIOUS
    <2>2. \A i \in DOMAIN s : pieces[i] \in Seq(P)
      BY <2>1
    <2>3. DOMAIN s = 1 .. Len(s) /\ Len(s) \in Nat /\ pieces = [i \in DOMAIN s |-> pieces[i]]
      OBVIOUS
    <2> HIDE DEF pieces
    <2>4. QED
      BY <2>2, <2>3
  <1>2. \A i \in DOMAIN s : ToSet(pieces[i]) = IF i \in S THEN {s[i]} ELSE {}
    <2>1. \A x : ToSet(<<x>>) = {x}
      BY DEF ToSet
    <2>2. ToSet(<<>>) = {}
      BY DEF ToSet
    <2>3. QED
      BY <2>1, <2>2
  <1>3. \A i \in DOMAIN s : IsInjective(pieces[i])
    BY DEF IsInjective
  <1>4. Only(s, S) = FlattenSeq(pieces)
    BY DEF Only
  <1> HIDE DEF pieces
  <1>5. ToSet(Only(s, S)) = {s[i] : i \in S}
    <2>1. ToSet(Only(s, S)) = UNION {ToSet(pieces[i]) : i \in DOMAIN s}
      BY <1>1, <1>4, FlattenFacts
    <2>2. ASSUME NEW x \in UNION {ToSet(pieces[i]) : i \in DOMAIN s}
          PROVE  x \in {s[i] : i \in S}
      <3>1. PICK i \in DOMAIN s : x \in ToSet(pieces[i])
        OBVIOUS
      <3>2. QED
        BY <1>2, <3>1
    <2>3. ASSUME NEW i \in S PROVE s[i] \in UNION {ToSet(pieces[j]) : j \in DOMAIN s}
      <3>1. i \in DOMAIN s /\ s[i] \in ToSet(pieces[i])
        BY <1>2
      <3>2. QED
        BY <3>1
    <2>4. QED
      BY <2>1, <2>2, <2>3
  <1>6. ASSUME \A i, j \in S : s[i] = s[j] => i = j PROVE IsInjective(Only(s, S))
    <2>1. \A i, j \in DOMAIN pieces : i # j => ToSet(pieces[i]) \cap ToSet(pieces[j]) = {}
      BY <1>1, <1>2, <1>6
    <2>2. QED
      BY <1>1, <1>3, <1>4, <2>1, FlattenFacts
  <1>7. QED
    BY <1>1, <1>4, <1>5, <1>6, FlattenFacts

\* Each element once, and none is lost.
LEMMA DistinctFacts ==
  ASSUME NEW P, NEW s \in Seq(P)
  PROVE  /\ Distinct(s) \in Seq(P)
         /\ ToSet(Distinct(s)) = ToSet(s)
         /\ IsInjective(Distinct(s))
  <1> DEFINE n == Len(s)
             S == {i \in DOMAIN s : \A j \in 1 .. i - 1 : s[j] # s[i]}
             I == {k \in 1 .. n : \A i \in 1 .. k : \E j \in S : s[j] = s[i]}
  <1>1. n \in Nat /\ DOMAIN s = 1 .. n /\ S \in SUBSET DOMAIN s
    OBVIOUS
  <1>2. \A i \in 1 .. n : \E j \in S : s[j] = s[i]
    <2> HIDE DEF n
    <2>1. n > 0 => 1 \in I
      <3> SUFFICES ASSUME n > 0 PROVE 1 \in I
        OBVIOUS
      <3>1. 1 \in 1 .. n /\ 1 .. 1 = {1} /\ 1 .. 1 - 1 = {}
        BY <1>1
      <3>2. 1 \in S
        BY <1>1, <3>1
      <3>3. QED
        BY <3>1, <3>2
    <2>2. ASSUME NEW k \in I, k \in 1 .. n, k < n PROVE k + 1 \in I
      <3>1. k + 1 \in 1 .. n /\ 1 .. k + 1 = (1 .. k) \cup {k + 1} /\ (k + 1) - 1 = k
        BY <1>1, <2>2
      <3>2. \A i \in 1 .. k : \E j \in S : s[j] = s[i]
        OBVIOUS
      <3>3. \E j \in S : s[j] = s[k + 1]
        <4>1. CASE \E i \in 1 .. k : s[i] = s[k + 1]
          BY <3>2, <4>1
        <4>2. CASE ~ \E i \in 1 .. k : s[i] = s[k + 1]
          BY <1>1, <3>1, <4>2
        <4>3. QED
          BY <4>1, <4>2
      <3> HIDE DEF S
      <3>4. QED
        BY <3>1, <3>2, <3>3
    <2>3. \A k \in 1 .. n : k \in I
      <3> HIDE DEF I
      <3>1. QED
        BY <1>1, <2>1, <2>2, Counting
    <2>4. \A k \in 1 .. n : k \in 1 .. k
      BY <1>1
    <2>5. QED
      BY <2>3, <2>4
  <1>3. \A i, j \in S : s[i] = s[j] => i = j
    <2> SUFFICES ASSUME NEW i \in S, NEW j \in S, s[i] = s[j] PROVE i = j
      OBVIOUS
    <2>1. i \in Int /\ j \in Int /\ 1 <= i /\ 1 <= j
      BY <1>1
    <2>2. i \notin 1 .. j - 1 /\ j \notin 1 .. i - 1
      OBVIOUS
    <2>3. QED
      BY <2>1, <2>2
  <1>4. Distinct(s) = Only(s, S)
    BY DEF Distinct
  <1>5. {s[i] : i \in S} = ToSet(s)
    BY <1>1, <1>2 DEF ToSet
  <1> HIDE DEF S
  <1>6. /\ Only(s, S) \in Seq(P) /\ ToSet(Only(s, S)) = {s[i] : i \in S}
        /\ IsInjective(Only(s, S))
    BY <1>1, <1>3, OnlyFacts
  <1>7. QED
    BY <1>4, <1>5, <1>6

\* The namespaces that names are in.
Spaces == UNION {ProperPrefixes(n) : n \in ToSet(Declared)}

LEMMA AncestorsFacts ==
  ASSUME NEW n \in ToSet(Declared)
  PROVE  /\ Ancestors(n) \in Seq(Spaces) /\ ToSet(Ancestors(n)) = ProperPrefixes(n)
  <1> DEFINE l == Len(n) - 1
  <1>1. l \in Nat
    <2>1. n \in Seq(ToSet(n)) /\ n # <<>>
      BY NamesAssumption
    <2>2. Len(n) \in Nat /\ Len(n) # 0
      BY <2>1
    <2>3. QED
      BY <2>2
  <1>2. Ancestors(n) = [i \in 1 .. l |-> SubSeq(n, 1, i)]
    BY DEF Ancestors
  <1>3. ProperPrefixes(n) = {SubSeq(n, 1, i) : i \in 1 .. l}
    BY DEF ProperPrefixes
  <1> HIDE DEF l
  <1>4. \A i \in 1 .. l : SubSeq(n, 1, i) \in Spaces
    BY <1>3 DEF Spaces
  <1>5. DOMAIN Ancestors(n) = 1 .. l /\ \A i \in 1 .. l : Ancestors(n)[i] = SubSeq(n, 1, i)
    BY <1>2
  <1>6. Ancestors(n) \in Seq(Spaces)
    <2>1. [i \in 1 .. l |-> SubSeq(n, 1, i)] \in [1 .. l -> Spaces]
      BY <1>4
    <2>2. QED
      BY <1>1, <1>2, <2>1
  <1>7. QED
    BY <1>3, <1>5, <1>6 DEF ToSet

\* The names under a prefix, and the namespaces they are in.
Named(p) == {n \in ToSet(Declared) : IsPrefix(p, n)}

LEMMA UnderFacts ==
  ASSUME NEW p
  PROVE  /\ NamesUnder(p) \in Seq(ToSet(Declared)) /\ ToSet(NamesUnder(p)) = Named(p)
         /\ PrefixesUnder(p) \in Seq(Spaces)
         /\ ToSet(PrefixesUnder(p)) = UNION {ProperPrefixes(n) : n \in Named(p)}
  <1> DEFINE names == NamesUnder(p)
             S == {i \in DOMAIN Declared : IsPrefix(p, Declared[i])}
             all == [i \in DOMAIN names |-> Ancestors(names[i])]
  <1>1. Declared \in Seq(ToSet(Declared))
    BY NamesAssumption
  <1>2. names \in Seq(ToSet(Declared)) /\ ToSet(names) = Named(p)
    <2>1. names = Only(Declared, S) /\ S \in SUBSET DOMAIN Declared
      BY DEF NamesUnder
    <2>2. {Declared[i] : i \in S} = Named(p)
      BY DEF Named, ToSet
    <2> HIDE DEF names, S
    <2>3. /\ Only(Declared, S) \in Seq(ToSet(Declared))
          /\ ToSet(Only(Declared, S)) = {Declared[i] : i \in S}
      BY <1>1, <2>1, OnlyFacts
    <2>4. QED
      BY <2>1, <2>2, <2>3
  <1>3. PrefixesUnder(p) = Distinct(FlattenSeq(all))
    BY DEF PrefixesUnder
  <1> HIDE DEF names
  <1>4. all \in Seq(Seq(Spaces)) /\ DOMAIN all = DOMAIN names
    <2>1. \A i \in DOMAIN names : names[i] \in ToSet(Declared)
      BY <1>2
    <2>2. \A i \in DOMAIN names : all[i] \in Seq(Spaces)
      BY <2>1, AncestorsFacts
    <2>3. DOMAIN names = 1 .. Len(names) /\ Len(names) \in Nat
      BY <1>2
    <2>4. all = [i \in DOMAIN names |-> all[i]]
      OBVIOUS
    <2> HIDE DEF all
    <2>5. QED
      BY <2>2, <2>3, <2>4
  <1>5. \A i \in DOMAIN names : ToSet(all[i]) = ProperPrefixes(names[i])
    <2>1. \A i \in DOMAIN names : names[i] \in ToSet(Declared)
      BY <1>2
    <2>2. QED
      BY <2>1, AncestorsFacts
  <1>6. UNION {ToSet(all[i]) : i \in DOMAIN names} = UNION {ProperPrefixes(n) : n \in Named(p)}
    <2>1. Named(p) = {names[i] : i \in DOMAIN names}
      BY <1>2 DEF ToSet
    <2> HIDE DEF all
    <2>2. QED
      BY <1>5, <2>1
  <1> HIDE DEF all
  <1>7. /\ FlattenSeq(all) \in Seq(Spaces)
        /\ ToSet(FlattenSeq(all)) = UNION {ToSet(all[i]) : i \in DOMAIN names}
    BY <1>4, FlattenFacts
  <1>8. QED
    BY <1>2, <1>3, <1>6, <1>7, DistinctFacts DEF names

\* The answer to a list.
LEMMA ListFacts ==
  ASSUME NEW a \in Arguments["list"]
  PROVE  LET told == HandleList(a)
             names == {n \in ToSet(Declared) : Under(n, a)}
         IN  /\ ToSet(told.names) = names /\ IsInjective(told.names)
             /\ ToSet(told.prefixes) = UNION {ProperPrefixes(n) : n \in names}
             /\ IsInjective(told.prefixes)
  <1> DEFINE targets == IF a = <<>> THEN << <<>> >> ELSE a
             names == {n \in ToSet(Declared) : Under(n, a)}
             N == [i \in DOMAIN targets |-> NamesUnder(targets[i])]
             X == [i \in DOMAIN targets |-> PrefixesUnder(targets[i])]
  <1>1. DOMAIN targets = 1 .. Len(targets) /\ Len(targets) \in Nat
    <2>1. CASE a = <<>>
      <3>1. targets = << <<>> >>
        BY <2>1
      <3> HIDE DEF targets
      <3>2. QED
        BY <3>1
    <2>2. CASE a # <<>>
      <3>1. targets = a /\ a \in Seq(ToSet(a))
        BY <2>2, NamesAssumption
      <3> HIDE DEF targets
      <3>2. QED
        BY <3>1
    <2>3. QED
      BY <2>1, <2>2
  <1>2. names = UNION {Named(targets[i]) : i \in DOMAIN targets}
    <2>1. CASE a = <<>>
      <3>1. \A n \in ToSet(Declared) : IsPrefix(<<>>, n)
        <4> SUFFICES ASSUME NEW n \in ToSet(Declared) PROVE IsPrefix(<<>>, n)
          OBVIOUS
        <4>1. n \in Seq(ToSet(n))
          BY NamesAssumption
        <4>2. SubSeq(n, 1, 0) = <<>> /\ SubSeq(<<>>, 1, 0) = <<>> /\ 0 <= Len(n)
          BY <4>1
        <4>3. QED
          BY <4>2 DEF IsPrefix
      <3>2. DOMAIN targets = {1} /\ targets[1] = <<>>
        BY <2>1
      <3> HIDE DEF targets
      <3>3. names = ToSet(Declared)
        BY <2>1 DEF Under
      <3>4. QED
        BY <3>1, <3>2, <3>3 DEF Named
    <2>2. CASE a # <<>>
      BY <2>2 DEF Under, Named
    <2>3. QED
      BY <2>1, <2>2
  <1>3. HandleList(a) = [names |-> Distinct(FlattenSeq(N)), prefixes |-> Distinct(FlattenSeq(X))]
    BY DEF HandleList
  <1> HIDE DEF targets
  <1>4. N \in Seq(Seq(ToSet(Declared))) /\ DOMAIN N = DOMAIN targets
    <2>1. \A i \in DOMAIN targets : N[i] \in Seq(ToSet(Declared))
      BY UnderFacts
    <2>2. N = [i \in DOMAIN targets |-> N[i]]
      OBVIOUS
    <2> HIDE DEF N
    <2>3. QED
      BY <1>1, <2>1, <2>2
  <1>5. X \in Seq(Seq(Spaces)) /\ DOMAIN X = DOMAIN targets
    <2>1. \A i \in DOMAIN targets : X[i] \in Seq(Spaces)
      BY UnderFacts
    <2>2. X = [i \in DOMAIN targets |-> X[i]]
      OBVIOUS
    <2> HIDE DEF X
    <2>3. QED
      BY <1>1, <2>1, <2>2
  <1>6. UNION {ToSet(N[i]) : i \in DOMAIN targets} = names
    <2>1. \A i \in DOMAIN targets : ToSet(N[i]) = Named(targets[i])
      BY UnderFacts
    <2> HIDE DEF N, names
    <2>2. QED
      BY <1>2, <2>1
  <1>7. UNION {ToSet(X[i]) : i \in DOMAIN targets} = UNION {ProperPrefixes(n) : n \in names}
    <2>1. \A i \in DOMAIN targets :
            ToSet(X[i]) = UNION {ProperPrefixes(n) : n \in Named(targets[i])}
      BY UnderFacts
    <2> HIDE DEF X, names
    <2>2. QED
      BY <1>2, <2>1
  <1> HIDE DEF N, X, names
  <1>8. /\ FlattenSeq(N) \in Seq(ToSet(Declared)) /\ ToSet(FlattenSeq(N)) = names
        /\ FlattenSeq(X) \in Seq(Spaces)
        /\ ToSet(FlattenSeq(X)) = UNION {ProperPrefixes(n) : n \in names}
    BY <1>4, <1>5, <1>6, <1>7, FlattenFacts
  <1>9. /\ ToSet(HandleList(a).names) = names /\ IsInjective(HandleList(a).names)
        /\ ToSet(HandleList(a).prefixes) = UNION {ProperPrefixes(n) : n \in names}
        /\ IsInjective(HandleList(a).prefixes)
    BY <1>3, <1>8, DistinctFacts
  <1>10. QED
    BY <1>9 DEF names

\* A request carries what such a request may carry, and its answer is worked out of that.
Answers ==
  /\ DOMAIN args = Requests
  /\ \A r \in Requests :
       /\ state[r] # "idle" => args[r] \in Arguments[at[r].kind]
       /\ state[r] = "answered" => reply[r].content = Answer(at[r].kind, args[r])

LEMMA AnswersInit == Init => Answers
  BY DEF Init, Answers

LEMMA AnswersStep == IInv /\ Answers /\ [Next]_vars => Answers'
  <1> SUFFICES ASSUME RequestTypes, Answers, [Next]_vars PROVE Answers'
    BY Parts DEF RequestsOK
  <1>1. ASSUME UNCHANGED requestVars PROVE Answers'
    BY <1>1 DEF Answers, requestVars
  <1>2. ASSUME NEW r \in Requests, Receive(r) PROVE Answers'
    <2>1. PICK e \in open : \E a \in Arguments[e.kind] :
            at' = [at EXCEPT ![r] = e] /\ args' = [args EXCEPT ![r] = a]
      BY <1>2 DEF Receive
    <2>2. state' = [state EXCEPT ![r] = "handling"] /\ reply' = reply
      BY <1>2 DEF Receive
    <2>3. QED
      BY <2>1, <2>2 DEF Answers, RequestTypes
  <1>3. ASSUME NEW r \in Requests, Reply(r) PROVE Answers'
    <2>1. PICK i \in Found(r) :
            reply' = [reply EXCEPT ![r] = [class   |-> services[i].kind,
                                           content |-> Answer(at[r].kind, args[r])]]
      BY <1>3 DEF Reply
    <2>2. /\ state' = [state EXCEPT ![r] = "answered"] /\ state[r] = "handling"
          /\ UNCHANGED <<at, args>>
      BY <1>3 DEF Reply
    <2>3. QED
      BY <2>1, <2>2 DEF Answers, RequestTypes
  <1>4. ASSUME NEW r \in Requests, Raise(r) PROVE Answers'
    BY <1>4 DEF Raise, Answers, RequestTypes
  <1>5. CASE Main
    BY <1>1, <1>5, MainLeaves
  <1>6. CASE UNCHANGED vars
    BY <1>1, <1>6 DEF vars, requestVars
  <1>7. QED
    BY <1>2, <1>3, <1>4, <1>5, <1>6 DEF Next, Handler

\* Whatever prefixes a list request carries, overlapping or repeated, and whatever
\* names are declared, its answer has each name under one of them once, and each
\* namespace of such a name once (picoparams.py:286-308, 394-404).
THEOREM ListsAreExact == Spec => []ListExact
  <1>1. Answers => ListExact
    <2> SUFFICES ASSUME Answers, NEW r \in Requests, state[r] = "answered", at[r].kind = "list"
                 PROVE  LET told == reply[r].content
                            names == {n \in ToSet(Declared) : Under(n, args[r])}
                        IN  /\ ToSet(told.names) = names /\ IsInjective(told.names)
                            /\ ToSet(told.prefixes) = UNION {ProperPrefixes(n) : n \in names}
                            /\ IsInjective(told.prefixes)
      BY DEF ListExact
    <2>1. args[r] \in Arguments["list"] /\ reply[r].content = HandleList(args[r])
      BY DEF Answers, Answer, Listed
    <2>2. QED
      BY <2>1, ListFacts
  <1>2. QED
    BY <1>1, Inductive, AnswersInit, AnswersStep, PTL DEF SafeSpec, Spec
=============================================================================
