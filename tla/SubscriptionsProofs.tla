------------------------ MODULE SubscriptionsProofs ------------------------
(***************************************************************************)
(* Registrations and subscriptions, for any finite set of proxies and any  *)
(* number of listeners: what a subscription needs is there while it lasts, *)
(* vsomeip has the request of the service while it is wanted, and nothing  *)
(* stays behind.                                                           *)
(***************************************************************************)
EXTENDS Subscriptions, FiniteSetTheorems, TLAPS

\* The set of proxies counted by requestedServices_: from requestService to
\* releaseService.
ServicePlaces ==
  {"requestService", "query", "assign", "idle", "add", "listen", "insert", "subscribe", "remove",
   "close", "uncount", "releaseEvent", "release"}

InService == {p \in Proxies : pc[p] \in ServicePlaces}

LEMMA Counting ==
  ASSUME NEW S \in SUBSET Proxies, NEW p \in Proxies
  PROVE  /\ Cardinality(S) \in Nat
         /\ p \in S => Cardinality(S) >= 1 /\ Cardinality(S \ {p}) = Cardinality(S) - 1
         /\ p \notin S => Cardinality(S \cup {p}) = Cardinality(S) + 1
<1>1. IsFiniteSet(S)
  BY FS_Subset, ProxiesAssumption
<1>2. Cardinality(S) \in Nat /\ (p \in S => Cardinality(S) # 0)
  BY <1>1, FS_CardinalityType, FS_EmptySet
<1>3. p \in S => Cardinality(S \ {p}) = Cardinality(S) - 1
  BY <1>1, FS_RemoveElement
<1>4. p \notin S => Cardinality(S \cup {p}) = Cardinality(S) + 1
  BY <1>1, FS_AddElement
<1> QED  BY <1>2, <1>3, <1>4

\* Steps of a proxy's thread that do not concern the request of the service.
Elsewhere(p) ==
  \/ CountEvent(p) \/ RequestEvent(p) \/ AddHandler(p) \/ RegisterHandler(p) \/ Query(p) \/ Assign(p)
  \/ UncountEvent(p) \/ ReleaseEvent(p) \/ RemoveHandler(p) \/ UnregisterHandler(p)
  \/ Subscribing(p) \/ RemoveEventHandler(p) \/ AddListener(p) \/ Close(p)
  \/ \E n \in Tags : RemoveListener(p, n)

\* The environment, the dispatcher and the main loop move no thread of a proxy.
Others == ChangeService \/ Update \/ Dispatch \/ MainLoop \/ UNCHANGED vars

LEMMA NextCases ==
  ASSUME [Next]_vars
  PROVE  \/ Others
         \/ \E p \in Proxies : Elsewhere(p) \/ CountService(p) \/ RequestService(p) \/ ReleaseService(p)
BY DEF Next, Operate, Create, Destroy, Elsewhere, Others

LEMMA OthersKeep ==
  ASSUME Others
  PROVE  UNCHANGED <<pc, handlers, services, events, handlerAt, serviceAt, receiverAt, eventAt>>
<1>1. CASE ChangeService \/ Update \/ UNCHANGED vars
  BY <1>1 DEF ChangeService, ServiceChange, Update, vars, proxyVars, registrationVars
<1>2. CASE Dispatch
  BY <1>2 DEF Dispatch, Forgotten, Forget, Reported, BeginReport, QueueReport, EndReport,
     StatusHandler, PushStatus, PushValue, proxyVars, registrationVars
<1>3. CASE MainLoop
  BY <1>3 DEF MainLoop, InformProxies, HandleReport, CallErrorListener, EndErrorListener,
     HandleValue, TakeValue, EndValue, TakeSubscribers, Notify, proxyVars, registrationVars
<1> QED  BY <1>1, <1>2, <1>3 DEF Others

PcType == pc \in [Proxies -> Steps]

\* A step of the thread of p.
Moves(p, from, to) ==
  /\ pc[p] = from /\ pc'[p] = to /\ pc' \in [Proxies -> Steps]
  /\ \A q \in Proxies \ {p} : pc'[q] = pc[q]

LEMMA StepMoves ==
  ASSUME PcType, NEW p \in Proxies, NEW from, NEW to \in Steps, Step(p, from, to)
  PROVE  Moves(p, from, to)
BY DEF PcType, Moves, Step

ServiceInv ==
  /\ PcType
  /\ services = Cardinality(InService)
  /\ \A p, q \in Proxies : pc[p] = "requestService" /\ pc[q] = "requestService" => p = q
  /\ serviceAt \in BOOLEAN /\ receiverAt \in BOOLEAN /\ ServiceRequested

LEMMA ServiceInvInit == Init => ServiceInv
<1> SUFFICES ASSUME Init PROVE ServiceInv
  OBVIOUS
<1> USE DEF Init, RegistrationsInit
<1>1. InService = {}
  BY DEF InService, ServicePlaces
<1>2. Cardinality(InService) = 0
  BY <1>1, FS_EmptySet
<1>3. services = 0 /\ ~serviceAt /\ ~receiverAt
  OBVIOUS
<1>4. ServiceRequested
  BY <1>3 DEF ServiceRequested
<1> QED  BY <1>2, <1>4 DEF ServiceInv, PcType, Steps

LEMMA ElsewhereMoves ==
  ASSUME PcType, NEW p \in Proxies, Elsewhere(p)
  PROVE  /\ pc' \in [Proxies -> Steps]
         /\ \A q \in Proxies : /\ pc[q] \in ServicePlaces <=> pc'[q] \in ServicePlaces
                               /\ pc[q] = "requestService" <=> pc'[q] = "requestService"
         /\ UNCHANGED <<services, serviceAt, receiverAt>>
<1> USE DEF Steps, ServicePlaces, PcType, Step
<1>1. CASE CountEvent(p) \/ RequestEvent(p) \/ AddHandler(p) \/ RegisterHandler(p) \/ Query(p) \/ Assign(p)
  BY <1>1 DEF CountEvent, RequestEvent, AddHandler, RegisterHandler, Query, Assign, registrationVars
<1>2. CASE UncountEvent(p) \/ ReleaseEvent(p) \/ RemoveHandler(p) \/ UnregisterHandler(p)
  BY <1>2 DEF UncountEvent, ReleaseEvent, RemoveHandler, UnregisterHandler
<1>3. CASE Subscribing(p)
  BY <1>3 DEF Subscribing, AddEventHandler, Listen, InsertHandler, Subscribe, registrationVars
<1>4. CASE RemoveEventHandler(p) \/ AddListener(p) \/ Close(p) \/ \E n \in Tags : RemoveListener(p, n)
  BY <1>4 DEF RemoveEventHandler, AddListener, Close, RemoveListener, registrationVars
<1> QED  BY <1>1, <1>2, <1>3, <1>4 DEF Elsewhere

LEMMA ServiceInvStep ==
  ASSUME ServiceInv, [Next]_vars
  PROVE  ServiceInv'
<1> USE DEF ServiceInv, ServiceRequested
<1>1. CASE Others
  BY <1>1, OthersKeep DEF InService, PcType
<1>2. CASE \E p \in Proxies : Elsewhere(p)
  <2>1. PICK p \in Proxies : Elsewhere(p)
    BY <1>2
  <2>2. InService' = InService
    BY <2>1, ElsewhereMoves DEF InService
  <2> QED  BY <2>1, <2>2, ElsewhereMoves DEF PcType
<1>3. CASE \E p \in Proxies : CountService(p)
  <2>1. PICK p \in Proxies : CountService(p)
    BY <1>3
  <2>2. PICK to \in {"requestService", "query"} :
          Step(p, "count", to) /\ (to = "requestService" <=> services = 0)
    BY <2>1 DEF CountService
  <2>3. Moves(p, "count", to)
    BY <2>2, StepMoves DEF Steps
  <2>4. p \notin InService /\ InService' = InService \cup {p} /\ InService \subseteq Proxies
    BY <2>3, <2>2 DEF Moves, InService, ServicePlaces
  <2>5. Cardinality(InService) \in Nat /\ Cardinality(InService') = Cardinality(InService) + 1
    BY <2>4, Counting
  <2>6. services' = services + 1 /\ serviceAt' = serviceAt /\ receiverAt' = receiverAt
    BY <2>1 DEF CountService
  <2>7. ASSUME NEW q \in Proxies, pc[q] = "requestService" PROVE services # 0
    <3>1. q \in InService
      BY <2>7 DEF InService, ServicePlaces
    <3>2. Cardinality(InService) >= 1
      BY <2>4, <3>1, Counting
    <3> QED  BY <2>5, <3>2
  <2>8. \A q, r \in Proxies : pc'[q] = "requestService" /\ pc'[r] = "requestService" => q = r
    BY <2>2, <2>3, <2>7 DEF Moves
  <2>9. ServiceRequested'
    <3>1. services' > 0
      BY <2>5, <2>6
    <3>2. CASE services = 0
      <4>1. pc'[p] = "requestService" /\ ~(services > 0)
        BY <2>2, <2>3, <3>2 DEF Moves
      <4> QED  BY <2>6, <4>1
    <3>3. CASE services # 0
      <4>1. services > 0
        BY <2>5, <3>3
      <4>2. \A q \in Proxies : pc'[q] # "requestService" <=> pc[q] # "requestService"
        BY <2>2, <2>3, <3>3 DEF Moves
      <4> QED  BY <2>6, <3>1, <4>1, <4>2
    <3> QED  BY <3>2, <3>3
  <2> QED  BY <2>3, <2>5, <2>6, <2>8, <2>9 DEF Moves, PcType
<1>4. CASE \E p \in Proxies : RequestService(p)
  <2>1. PICK p \in Proxies : RequestService(p)
    BY <1>4
  <2>2. Moves(p, "requestService", "query") /\ serviceAt' = TRUE /\ receiverAt' = TRUE /\ services' = services
    BY <2>1, StepMoves DEF RequestService, Steps
  <2>3. p \in InService /\ InService' = InService /\ InService \subseteq Proxies
    BY <2>2 DEF Moves, InService, ServicePlaces
  <2>4. Cardinality(InService) \in Nat /\ Cardinality(InService) >= 1
    BY <2>3, Counting
  <2>5. \A q \in Proxies : pc'[q] # "requestService"
    BY <2>2 DEF Moves
  <2>6. services' > 0
    BY <2>2, <2>4
  <2>7. ServiceRequested'
    BY <2>2, <2>5, <2>6
  <2> QED  BY <2>2, <2>3, <2>5, <2>7 DEF Moves, PcType
<1>5. CASE \E p \in Proxies : ReleaseService(p)
  <2>1. PICK p \in Proxies : ReleaseService(p)
    BY <1>5
  <2>2. /\ Moves(p, "release", "unregister")
        /\ services' = services - 1 /\ (serviceAt' <=> serviceAt /\ services # 1)
        /\ receiverAt' = receiverAt
    BY <2>1, StepMoves DEF ReleaseService, Steps
  <2>3. p \in InService /\ InService' = InService \ {p} /\ InService \subseteq Proxies
    BY <2>2 DEF Moves, InService, ServicePlaces
  <2>4. /\ Cardinality(InService) \in Nat /\ Cardinality(InService) >= 1
        /\ Cardinality(InService') = Cardinality(InService) - 1
    BY <2>3, Counting
  <2>5. \A q \in Proxies : pc'[q] = "requestService" <=> pc[q] = "requestService"
    BY <2>2 DEF Moves
  <2>6. services > 0 /\ (services' > 0 <=> services # 1)
    BY <2>2, <2>4
  <2>7. ServiceRequested'
    BY <2>2, <2>5, <2>6
  <2>8. services' = Cardinality(InService')
    BY <2>2, <2>4
  <2>9. serviceAt' \in BOOLEAN /\ receiverAt' \in BOOLEAN
    BY <2>1 DEF ReleaseService
  <2>10. \A q, r \in Proxies : pc'[q] = "requestService" /\ pc'[r] = "requestService" => q = r
    BY <2>5
  <2> QED  BY <2>2, <2>7, <2>8, <2>9, <2>10 DEF Moves, PcType
<1> QED  BY <1>1, <1>2, <1>3, <1>4, <1>5, NextCases

\* requestService asks vsomeip after its critical section and releaseService
\* inside: vsomeip still has the request while any proxy wants the service.
THEOREM ServiceStaysRequested == Spec => []ServiceRequested
<1>1. ServiceInv => ServiceRequested
  BY DEF ServiceInv
<1> QED  BY <1>1, ServiceInvInit, ServiceInvStep, PTL DEF Spec

-----------------------------------------------------------------------------
(* Subscriptions.                                                          *)

ListenPlaces == {"listen", "insert", "subscribe", "remove", "close"}

SubscriptionTypes ==
  /\ PcType
  /\ made \in [Proxies -> Nat] /\ active \in [Proxies -> SUBSET Nat]
  /\ eventHandlers \subseteq Proxies

(* The proxy is in eventHandlers_ from the first of its listeners to the   *)
(* last.                                                                   *)
HandlerWhileListening ==
  \A p \in Proxies :
    /\ p \in eventHandlers <=> (pc[p] \in ListenPlaces \/ (pc[p] = "idle" /\ active[p] # {}))
    /\ pc[p] \notin {"idle", "add", "listen", "insert", "subscribe"} => active[p] = {}
    /\ pc[p] = "add" => active[p] \subseteq {made[p]}
    /\ pc[p] \in {"add", "listen", "insert", "subscribe"} => made[p] \in active[p]

(* Group, status handler and wrapper come with the first proxy and go with *)
(* the last.                                                               *)
GroupWhileHandlers ==
  /\ eventHandlers # {} => grouped /\ statusHandlerAt
  /\ eventHandlers = {} => /\ ~grouped /\ ~statusHandlerAt /\ ~subscribedAt
                           /\ ~wrapped /\ allHandlers = {} /\ pendingHandlers = <<>>

Inserted(p, n) ==
  n \in active[p] /\ (pc[p] \in {"idle", "subscribe"} \/ (pc[p] \in {"listen", "insert"} /\ n # made[p]))

Requested(p, n) ==
  n \in active[p] /\ (pc[p] = "idle" \/ (pc[p] \in {"listen", "insert", "subscribe"} /\ n # made[p]))

ListenersKnown ==
  \A p \in Proxies : \A n \in Nat :
    /\ Inserted(p, n) => wrapped /\ <<p, n>> \in allHandlers
    /\ Requested(p, n) => subscribedAt

SubscriptionInv ==
  SubscriptionTypes /\ HandlerWhileListening /\ GroupWhileHandlers /\ ListenersKnown

LEMMA SubscriptionInvInit == Init => SubscriptionInv
BY DEF Init, RegistrationsInit, SubscriptionInv, SubscriptionTypes, PcType, Steps, HandlerWhileListening,
   ListenPlaces, GroupWhileHandlers, ListenersKnown, Inserted, Requested

\* Steps that leave all of it alone but the queue of pending handlers.
LEMMA SubscriptionInvQuiet ==
  ASSUME SubscriptionInv,
         UNCHANGED <<pc, made, active, eventHandlers, grouped, wrapped, allHandlers, statusHandlerAt, subscribedAt>>,
         pendingHandlers' = pendingHandlers \/ pendingHandlers' = <<>> \/ grouped
  PROVE  SubscriptionInv'
BY DEF SubscriptionInv, SubscriptionTypes, PcType, HandlerWhileListening, GroupWhileHandlers,
   ListenersKnown, Inserted, Requested

\* Creation and destruction of a proxy: nobody listens then.
LEMMA CreationMoves ==
  ASSUME SubscriptionInv, NEW p \in Proxies, Create(p) \/ Destroy(p)
  PROVE  \E from \in Steps \ (ListenPlaces \cup {"idle", "add"}), to \in Steps \ (ListenPlaces \cup {"add"}) :
           Moves(p, from, to) /\ active[p] = {}
<1>1. PICK from \in Steps \ (ListenPlaces \cup {"idle", "add"}),
           to \in Steps \ (ListenPlaces \cup {"add"}) : Step(p, from, to)
  <2> USE DEF Steps, ListenPlaces
  <2>1. CASE CountEvent(p) \/ UncountEvent(p) \/ AddHandler(p) \/ RemoveHandler(p)
    BY <2>1 DEF CountEvent, UncountEvent, AddHandler, RemoveHandler
  <2>2. CASE CountService(p) \/ Query(p)
    BY <2>2 DEF CountService, Query
  <2>3. CASE RequestEvent(p) \/ RegisterHandler(p) \/ RequestService(p) \/ Assign(p)
    BY <2>3 DEF RequestEvent, RegisterHandler, RequestService, Assign
  <2>4. CASE ReleaseEvent(p) \/ ReleaseService(p) \/ UnregisterHandler(p)
    BY <2>4 DEF ReleaseEvent, ReleaseService, UnregisterHandler
  <2> QED  BY <2>1, <2>2, <2>3, <2>4 DEF Create, Destroy
<1>2. Moves(p, from, to)
  BY <1>1, StepMoves DEF SubscriptionInv, SubscriptionTypes
<1>3. active[p] = {}
  BY <1>1, <1>2 DEF Moves, SubscriptionInv, HandlerWhileListening, ListenPlaces
<1> QED  BY <1>2, <1>3

LEMMA SubscriptionInvCreate ==
  ASSUME SubscriptionInv, NEW p \in Proxies, Create(p) \/ Destroy(p)
  PROVE  SubscriptionInv'
<1>1. UNCHANGED <<made, active, eventHandlers, grouped, wrapped, allHandlers, statusHandlerAt, subscribedAt, pendingHandlers>>
  BY DEF Create, Destroy, eventVars, subscriptionVars
<1>2. PICK from \in Steps \ (ListenPlaces \cup {"idle", "add"}),
           to \in Steps \ (ListenPlaces \cup {"add"}) : Moves(p, from, to) /\ active[p] = {}
  BY CreationMoves
<1>3. Moves(p, from, to)
  BY <1>2
<1>4. active[p] = {}
  BY <1>2
<1>5. SubscriptionTypes'
  BY <1>1, <1>3 DEF Moves, SubscriptionInv, SubscriptionTypes, PcType
<1>6. HandlerWhileListening'
  BY <1>1, <1>2, <1>3, <1>4 DEF Moves, SubscriptionInv, HandlerWhileListening, ListenPlaces
<1>7. GroupWhileHandlers'
  BY <1>1 DEF SubscriptionInv, GroupWhileHandlers
<1>8. ListenersKnown'
  BY <1>1, <1>3, <1>4 DEF Moves, SubscriptionInv, ListenersKnown, Inserted, Requested
<1> QED  BY <1>5, <1>6, <1>7, <1>8 DEF SubscriptionInv

\* A listener is added to the event of the proxy.
LEMMA SubscriptionInvAdd ==
  ASSUME SubscriptionInv, NEW p \in Proxies, AddListener(p)
  PROVE  SubscriptionInv'
<1>1. PICK to \in {"add", "listen"} : Step(p, "idle", to) /\ (to = "add" <=> active[p] = {})
  BY DEF AddListener
<1>2. Moves(p, "idle", to)
  BY <1>1, StepMoves DEF SubscriptionInv, SubscriptionTypes, Steps
<1>3. /\ made' = [made EXCEPT ![p] = @ + 1]
      /\ active' = [active EXCEPT ![p] = @ \cup {made[p] + 1}]
      /\ UNCHANGED <<eventHandlers, grouped, wrapped, allHandlers, statusHandlerAt, subscribedAt, pendingHandlers>>
  BY DEF AddListener, subscriptionVars
<1>4. /\ made'[p] = made[p] + 1 /\ active'[p] = active[p] \cup {made[p] + 1} /\ made[p] \in Nat
      /\ \A q \in Proxies \ {p} : made'[q] = made[q] /\ active'[q] = active[q]
  BY <1>3 DEF SubscriptionInv, SubscriptionTypes
<1>5. SubscriptionTypes'
  BY <1>2, <1>3 DEF Moves, SubscriptionInv, SubscriptionTypes, PcType
<1>6. HandlerWhileListening'
  <2>1. made'[p] \in active'[p] /\ (active[p] = {} => active'[p] \subseteq {made'[p]})
    BY <1>4
  <2>2. HandlerWhileListening!(p)'
    BY <1>1, <1>2, <1>3, <2>1 DEF Moves, SubscriptionInv, HandlerWhileListening, ListenPlaces
  <2>3. ASSUME NEW q \in Proxies \ {p} PROVE HandlerWhileListening!(q)'
    BY <1>2, <1>3, <1>4 DEF Moves, SubscriptionInv, HandlerWhileListening, ListenPlaces
  <2> QED  BY <2>2, <2>3 DEF HandlerWhileListening
<1>7. GroupWhileHandlers'
  BY <1>3 DEF SubscriptionInv, GroupWhileHandlers
<1>8. ListenersKnown'
  BY <1>1, <1>2, <1>3, <1>4 DEF Moves, SubscriptionInv, ListenersKnown, Inserted, Requested
<1> QED  BY <1>5, <1>6, <1>7, <1>8 DEF SubscriptionInv

\* addEventHandler, listeners_.insert, addHandler and the call of vsomeip.
LEMMA SubscriptionInvSubscribing ==
  ASSUME SubscriptionInv, NEW p \in Proxies, Subscribing(p)
  PROVE  SubscriptionInv'
<1>1. UNCHANGED <<made, active>>
  BY DEF Subscribing, AddEventHandler, Listen, InsertHandler, Subscribe, eventVars
<1>2. CASE AddEventHandler(p)
  <2>1. Moves(p, "add", "listen")
    BY <1>2, StepMoves DEF AddEventHandler, SubscriptionInv, SubscriptionTypes, Steps
  <2>2. /\ eventHandlers' = eventHandlers \cup {p} /\ grouped' /\ (statusHandlerAt' <=> statusHandlerAt \/ ~grouped)
        /\ UNCHANGED <<wrapped, allHandlers, subscribedAt, pendingHandlers>>
    BY <1>2 DEF AddEventHandler
  <2>3. SubscriptionTypes'
    BY <1>1, <2>1, <2>2 DEF Moves, SubscriptionInv, SubscriptionTypes, PcType
  <2>4. HandlerWhileListening'
    BY <1>1, <2>1, <2>2 DEF Moves, SubscriptionInv, HandlerWhileListening, ListenPlaces
  <2>5. GroupWhileHandlers'
    <3>1. statusHandlerAt \/ ~grouped
      BY DEF SubscriptionInv, GroupWhileHandlers
    <3> QED  BY <2>2, <3>1 DEF GroupWhileHandlers
  <2>6. ListenersKnown'
    <3>1. active[p] \subseteq {made[p]}
      BY <2>1 DEF Moves, SubscriptionInv, HandlerWhileListening
    <3> QED  BY <1>1, <2>1, <2>2, <3>1 DEF Moves, SubscriptionInv, ListenersKnown, Inserted, Requested
  <2> QED  BY <2>3, <2>4, <2>5, <2>6 DEF SubscriptionInv
<1>3. CASE Listen(p)
  <2>1. Moves(p, "listen", "insert")
    BY <1>3, StepMoves DEF Listen, SubscriptionInv, SubscriptionTypes, Steps
  <2>2. UNCHANGED <<eventHandlers, grouped, statusHandlerAt, wrapped, allHandlers, subscribedAt, pendingHandlers>>
    BY <1>3 DEF Listen, subscriptionVars
  <2>3. SubscriptionTypes' /\ HandlerWhileListening'
    BY <1>1, <2>1, <2>2 DEF Moves, SubscriptionInv, SubscriptionTypes, PcType, HandlerWhileListening, ListenPlaces
  <2>4. GroupWhileHandlers'
    BY <2>2 DEF SubscriptionInv, GroupWhileHandlers
  <2>5. ListenersKnown'
    BY <1>1, <2>1, <2>2 DEF Moves, SubscriptionInv, ListenersKnown, Inserted, Requested
  <2> QED  BY <2>3, <2>4, <2>5 DEF SubscriptionInv
<1>4. CASE InsertHandler(p)
  <2>1. Moves(p, "insert", "subscribe")
    BY <1>4, StepMoves DEF InsertHandler, SubscriptionInv, SubscriptionTypes, Steps
  <2>2. /\ wrapped' /\ allHandlers' = allHandlers \cup {<<p, made[p]>>}
        /\ UNCHANGED <<eventHandlers, grouped, statusHandlerAt, subscribedAt>>
    BY <1>4 DEF InsertHandler
  <2>3. SubscriptionTypes' /\ HandlerWhileListening'
    BY <1>1, <2>1, <2>2 DEF Moves, SubscriptionInv, SubscriptionTypes, PcType, HandlerWhileListening, ListenPlaces
  <2>4. GroupWhileHandlers'
    <3>1. p \in eventHandlers
      BY <2>1 DEF Moves, SubscriptionInv, HandlerWhileListening, ListenPlaces
    <3> QED  BY <2>2, <3>1 DEF SubscriptionInv, GroupWhileHandlers
  <2>5. ListenersKnown'
    BY <1>1, <2>1, <2>2 DEF Moves, SubscriptionInv, ListenersKnown, Inserted, Requested
  <2> QED  BY <2>3, <2>4, <2>5 DEF SubscriptionInv
<1>5. CASE Subscribe(p)
  <2>1. Moves(p, "subscribe", "idle")
    BY <1>5, StepMoves DEF Subscribe, SubscriptionInv, SubscriptionTypes, Steps
  <2>2. /\ subscribedAt'
        /\ UNCHANGED <<eventHandlers, grouped, statusHandlerAt, wrapped, allHandlers, pendingHandlers>>
    BY <1>5 DEF Subscribe
  <2>3. p \in eventHandlers
    BY <2>1 DEF Moves, SubscriptionInv, HandlerWhileListening, ListenPlaces
  <2>4. SubscriptionTypes'
    BY <1>1, <2>1, <2>2 DEF Moves, SubscriptionInv, SubscriptionTypes, PcType
  <2>5. HandlerWhileListening'
    <3>1. made[p] \in active[p]
      BY <2>1 DEF Moves, SubscriptionInv, HandlerWhileListening
    <3> QED  BY <1>1, <2>1, <2>2, <2>3, <3>1 DEF Moves, SubscriptionInv, HandlerWhileListening, ListenPlaces
  <2>6. GroupWhileHandlers'
    BY <2>2, <2>3 DEF SubscriptionInv, GroupWhileHandlers
  <2>7. ListenersKnown'
    BY <1>1, <2>1, <2>2 DEF Moves, SubscriptionInv, ListenersKnown, Inserted, Requested
  <2> QED  BY <2>4, <2>5, <2>6, <2>7 DEF SubscriptionInv
<1> QED  BY <1>2, <1>3, <1>4, <1>5 DEF Subscribing

\* The thread of p leaves the listeners of its event without some of them.
Shrinks(p, gone, to) ==
  /\ Step(p, "idle", to) /\ active' = [active EXCEPT ![p] = @ \ gone]
  /\ to = "idle" => active[p] \ gone # {}
  /\ to # "idle" => active[p] \ gone = {}
  /\ to = "remove" => active[p] # {}
  /\ to = "close" => p \in eventHandlers
  /\ to = "uncount" => p \notin eventHandlers

\* A listener goes, or all that are left of a proxy that is destroyed.
LEMMA SubscriptionInvForget ==
  ASSUME SubscriptionInv, NEW p \in Proxies, Close(p) \/ \E n \in Tags : RemoveListener(p, n)
  PROVE  SubscriptionInv'
<1>1. PICK gone \in SUBSET Nat, to \in {"idle", "remove", "close", "uncount"} : Shrinks(p, gone, to)
  <2>1. active[p] \subseteq Nat
    BY DEF SubscriptionInv, SubscriptionTypes
  <2>2. CASE Close(p)
    <3>1. active' = [active EXCEPT ![p] = {}]
      BY <2>2 DEF Close
    <3>2. active' = [active EXCEPT ![p] = @ \ active[p]]
      BY <3>1
    <3>3. Step(p, "idle", IF p \in eventHandlers THEN "close" ELSE "uncount")
      BY <2>2 DEF Close, Added
    <3>4. CASE p \in eventHandlers
      BY <2>1, <3>2, <3>3, <3>4 DEF Shrinks
    <3>5. CASE p \notin eventHandlers
      BY <2>1, <3>2, <3>3, <3>5 DEF Shrinks
    <3> QED  BY <3>4, <3>5
  <2>3. CASE \E n \in Tags : RemoveListener(p, n)
    <3>1. PICK n \in Tags : RemoveListener(p, n)
      BY <2>3
    <3>2. /\ n \in active[p] /\ active' = [active EXCEPT ![p] = @ \ {n}]
          /\ Step(p, "idle", IF active[p] = {n} THEN "remove" ELSE "idle")
      BY <3>1 DEF RemoveListener
    <3>3. {n} \in SUBSET Nat
      BY <2>1, <3>2
    <3>4. CASE active[p] = {n}
      BY <3>2, <3>3, <3>4 DEF Shrinks
    <3>5. CASE active[p] # {n}
      BY <3>2, <3>3, <3>5 DEF Shrinks
    <3> QED  BY <3>4, <3>5
  <2> QED  BY <2>2, <2>3
<1>2. Moves(p, "idle", to)
  BY <1>1, StepMoves DEF Shrinks, SubscriptionInv, SubscriptionTypes, Steps
<1>3. UNCHANGED <<made, eventHandlers, grouped, statusHandlerAt, wrapped, allHandlers, subscribedAt, pendingHandlers>>
  BY DEF Close, RemoveListener, subscriptionVars
<1>4. /\ active'[p] = active[p] \ gone
      /\ \A q \in Proxies \ {p} : active'[q] = active[q]
  BY <1>1 DEF Shrinks, SubscriptionInv, SubscriptionTypes
<1>5. SubscriptionTypes'
  BY <1>1, <1>2, <1>3 DEF Shrinks, Moves, SubscriptionInv, SubscriptionTypes, PcType
<1>6. HandlerWhileListening'
  BY <1>1, <1>2, <1>3, <1>4 DEF Shrinks, Moves, SubscriptionInv, HandlerWhileListening, ListenPlaces
<1>7. GroupWhileHandlers'
  BY <1>3 DEF SubscriptionInv, GroupWhileHandlers
<1>8. ListenersKnown'
  BY <1>1, <1>2, <1>3, <1>4 DEF Moves, SubscriptionInv, ListenersKnown, Inserted, Requested
<1> QED  BY <1>5, <1>6, <1>7, <1>8 DEF SubscriptionInv

\* removeEventHandler: for the last proxy everything goes; then no other one
\* listens or is about to.
LEMMA SubscriptionInvRemove ==
  ASSUME SubscriptionInv, NEW p \in Proxies, RemoveEventHandler(p)
  PROVE  SubscriptionInv'
<1>1. PICK from \in {"remove", "close"}, to \in {"idle", "uncount"} : Step(p, from, to)
  BY DEF RemoveEventHandler
<1>2. Moves(p, from, to)
  BY <1>1, StepMoves DEF SubscriptionInv, SubscriptionTypes, Steps
<1>3. UNCHANGED <<made, active>> /\ eventHandlers' = eventHandlers \ {p}
  BY DEF RemoveEventHandler, eventVars
<1>4. p \in eventHandlers /\ active[p] = {}
  BY <1>1, <1>2 DEF Moves, SubscriptionInv, HandlerWhileListening, ListenPlaces
<1>5. SubscriptionTypes'
  BY <1>2, <1>3 DEF Moves, SubscriptionInv, SubscriptionTypes, PcType
<1>6. HandlerWhileListening'
  BY <1>1, <1>2, <1>3, <1>4 DEF Moves, SubscriptionInv, HandlerWhileListening, ListenPlaces
<1>7. CASE eventHandlers = {p}
  <2>1. /\ ~wrapped' /\ allHandlers' = {} /\ pendingHandlers' = <<>>
        /\ ~grouped' /\ ~statusHandlerAt' /\ ~subscribedAt'
    BY <1>7 DEF RemoveEventHandler, EndsLast, LastSubscriber
  <2>2. GroupWhileHandlers'
    BY <2>1, <1>3, <1>7 DEF GroupWhileHandlers
  <2>3. ASSUME NEW q \in Proxies, NEW n \in Nat PROVE ~Inserted(q, n)' /\ ~Requested(q, n)'
    <3>1. q \notin eventHandlers'
      BY <1>3, <1>7
    <3>2. pc'[q] \notin ListenPlaces /\ (pc'[q] = "idle" => active'[q] = {})
      BY <1>6, <3>1 DEF HandlerWhileListening
    <3> QED  BY <3>2 DEF Inserted, Requested, ListenPlaces
  <2>4. ListenersKnown'
    BY <2>3 DEF ListenersKnown
  <2> QED  BY <1>5, <1>6, <2>2, <2>4 DEF SubscriptionInv
<1>8. CASE eventHandlers # {p}
  <2>1. allHandlers' = {h \in allHandlers : h[1] # p}
    BY <1>8 DEF RemoveEventHandler, EndsLast, OneSubscriberLess, Handlers
  <2>2. UNCHANGED <<wrapped, pendingHandlers, grouped, statusHandlerAt, subscribedAt>>
    BY <1>8 DEF RemoveEventHandler, EndsLast, OneSubscriberLess
  <2>3. GroupWhileHandlers'
    BY <2>2, <1>3, <1>4, <1>8 DEF SubscriptionInv, GroupWhileHandlers
  <2>4. ASSUME NEW q \in Proxies, NEW n \in Nat PROVE ListenersKnown!(q)!(n)'
    <3>1. CASE q = p
      BY <1>3, <1>4, <3>1 DEF Inserted, Requested
    <3>2. CASE q # p
      <4>1. <<q, n>>[1] # p
        BY <3>2
      <4>2. pc'[q] = pc[q]
        BY <1>2, <3>2 DEF Moves
      <4> QED  BY <1>3, <2>1, <2>2, <4>1, <4>2 DEF SubscriptionInv, ListenersKnown, Inserted, Requested
    <3> QED  BY <3>1, <3>2
  <2>5. ListenersKnown'
    BY <2>4 DEF ListenersKnown
  <2> QED  BY <1>5, <1>6, <2>3, <2>5 DEF SubscriptionInv
<1> QED  BY <1>7, <1>8

LEMMA SubscriptionInvOthers ==
  ASSUME SubscriptionInv, Others
  PROVE  SubscriptionInv'
<1>1. UNCHANGED <<pc, made, active, eventHandlers, grouped, wrapped, allHandlers, statusHandlerAt, subscribedAt>>
      /\ (pendingHandlers' = pendingHandlers \/ pendingHandlers' = <<>> \/ grouped)
  <2>1. CASE ChangeService \/ Update \/ UNCHANGED vars
    BY <2>1 DEF ChangeService, ServiceChange, Update, vars, proxyVars, eventVars, subscriptionVars
  <2>2. CASE Forgotten \/ Reported \/ PushStatus \/ PushValue
    BY <2>2 DEF Forgotten, Forget, Reported, BeginReport, PushStatus, PushValue, proxyVars, eventVars,
       subscriptionVars
  <2>3. CASE QueueReport
    BY <2>3 DEF QueueReport, EndReport, Requeued, proxyVars, eventVars
  <2>4. CASE StatusHandler
    BY <2>4 DEF StatusHandler, PopPending, proxyVars, eventVars
  <2>5. CASE MainLoop
    BY <2>5 DEF MainLoop, InformProxies, HandleReport, CallErrorListener, EndErrorListener,
       HandleValue, TakeValue, EndValue, TakeSubscribers, Notify, proxyVars, eventVars, subscriptionVars
  <2> QED  BY <2>1, <2>2, <2>3, <2>4, <2>5 DEF Others, Dispatch
<1> QED  BY <1>1, SubscriptionInvQuiet

LEMMA SubscriptionInvStep ==
  ASSUME SubscriptionInv, [Next]_vars
  PROVE  SubscriptionInv'
<1>1. CASE Others
  BY <1>1, SubscriptionInvOthers
<1>2. ASSUME NEW p \in Proxies, Operate(p) \/ AddListener(p) \/ Close(p) \/ \E n \in Tags : RemoveListener(p, n)
      PROVE  SubscriptionInv'
  BY <1>2, SubscriptionInvCreate, SubscriptionInvAdd, SubscriptionInvSubscribing, SubscriptionInvForget,
     SubscriptionInvRemove DEF Operate
<1> QED  BY <1>1, <1>2 DEF Next, Others

\* Whoever else subscribes and unsubscribes: as long as a proxy listens, its
\* handler, the group, the wrapper and vsomeip know its subscription.
THEOREM ListenersStayRegistered == Spec => []RegisteredWhileListening
<1>1. ASSUME SubscriptionInv PROVE RegisteredWhileListening
  <2>1. SUFFICES ASSUME NEW p \in Proxies, NEW n \in Tags, Listening(p, n)
                 PROVE  /\ p \in eventHandlers /\ grouped /\ statusHandlerAt /\ subscribedAt
                        /\ wrapped /\ <<p, n>> \in allHandlers
    BY DEF RegisteredWhileListening
  <2>2. n \in active[p] /\ pc[p] = "idle"
    BY <2>1 DEF Listening
  <2>3. n \in Nat
    BY <1>1, <2>2 DEF SubscriptionInv, SubscriptionTypes
  <2>4. p \in eventHandlers
    BY <1>1, <2>2 DEF SubscriptionInv, HandlerWhileListening
  <2>5. grouped /\ statusHandlerAt
    BY <1>1, <2>4 DEF SubscriptionInv, GroupWhileHandlers
  <2>6. wrapped /\ <<p, n>> \in allHandlers /\ subscribedAt
    BY <1>1, <2>2, <2>3 DEF SubscriptionInv, ListenersKnown, Inserted, Requested
  <2> QED  BY <2>4, <2>5, <2>6
<1> QED  BY <1>1, SubscriptionInvInit, SubscriptionInvStep, PTL DEF Spec

-----------------------------------------------------------------------------
(* Nothing stays behind.                                                   *)

\* Where a proxy has a handler in availabilityHandlers_, and where its event
\* has counted itself in requestedEvents_.
HandlerPlaces == ServicePlaces \cup {"registerHandler", "count", "unregister"}
EventPlaces ==
  {"requestEvent", "register", "registerHandler", "count", "requestService", "query", "assign", "idle",
   "add", "listen", "insert", "subscribe", "remove", "close", "uncount"}

InHandlers == {p \in Proxies : pc[p] \in HandlerPlaces}
InEvent == {p \in Proxies : pc[p] \in EventPlaces}

HandlerInv ==
  /\ PcType /\ handlers = InHandlers
  /\ handlerAt => \E p \in Proxies : pc[p] \in HandlerPlaces \/ pc[p] = "unregisterHandler"

EventInv ==
  /\ events = Cardinality(InEvent) + Cardinality(eventHandlers)
  /\ eventAt => \E p \in Proxies : pc[p] \in EventPlaces \/ pc[p] = "releaseEvent"

\* The steps of a proxy that touch neither.
HandlerSteps(p) == AddHandler(p) \/ RegisterHandler(p) \/ RemoveHandler(p) \/ UnregisterHandler(p)
EventSteps(p) ==
  \/ (CountEvent(p) \/ RequestEvent(p) \/ UncountEvent(p) \/ ReleaseEvent(p)) /\ UNCHANGED eventHandlers
  \/ AddEventHandler(p) \/ RemoveEventHandler(p)
ServiceSteps(p) == CountService(p) \/ RequestService(p) \/ ReleaseService(p) \/ Query(p) \/ Assign(p)
ListenerSteps(p) ==
  \/ AddListener(p) \/ Listen(p) \/ InsertHandler(p) \/ Subscribe(p) \/ Close(p)
  \/ \E n \in Tags : RemoveListener(p, n)

LEMMA StepKinds ==
  ASSUME [Next]_vars
  PROVE  \/ Others /\ UNCHANGED <<pc, handlers, handlerAt, events, eventAt, eventHandlers>>
         \/ \E p \in Proxies : HandlerSteps(p) /\ UNCHANGED <<events, eventAt, eventHandlers>>
         \/ \E p \in Proxies : EventSteps(p) /\ UNCHANGED <<handlers, handlerAt>>
         \/ \E p \in Proxies : (ServiceSteps(p) \/ ListenerSteps(p))
              /\ UNCHANGED <<events, eventAt, handlers, handlerAt, eventHandlers>>
<1>1. CASE Others
  <2>1. UNCHANGED <<pc, handlers, handlerAt, events, eventAt>>
    BY <1>1, OthersKeep
  <2>2. UNCHANGED eventHandlers
    <3>1. CASE ChangeService \/ Update \/ UNCHANGED vars
      BY <3>1 DEF ChangeService, Update, vars, subscriptionVars
    <3>2. CASE Dispatch
      BY <3>2 DEF Dispatch, Forgotten, Reported, QueueReport, StatusHandler, PushStatus, PushValue,
         subscriptionVars
    <3>3. CASE MainLoop
      BY <3>3 DEF MainLoop, InformProxies, CallErrorListener, EndErrorListener,
         HandleValue, TakeValue, EndValue, TakeSubscribers, Notify, subscriptionVars
    <3> QED  BY <1>1, <3>1, <3>2, <3>3 DEF Others
  <2> QED  BY <1>1, <2>1, <2>2
<1>2. ASSUME NEW p \in Proxies, Create(p)
      PROVE  \/ HandlerSteps(p) /\ UNCHANGED <<events, eventAt, eventHandlers>>
             \/ EventSteps(p) /\ UNCHANGED <<handlers, handlerAt>>
             \/ ServiceSteps(p) /\ UNCHANGED <<events, eventAt, handlers, handlerAt, eventHandlers>>
  <2>1. UNCHANGED eventHandlers
    BY <1>2 DEF Create, subscriptionVars
  <2> QED  BY <1>2, <2>1 DEF Create, CountEvent, RequestEvent, AddHandler, RegisterHandler, CountService,
              RequestService, Query, Assign, HandlerSteps, EventSteps, ServiceSteps, registrationVars
<1>3. ASSUME NEW p \in Proxies, Destroy(p)
      PROVE  \/ HandlerSteps(p) /\ UNCHANGED <<events, eventAt, eventHandlers>>
             \/ EventSteps(p) /\ UNCHANGED <<handlers, handlerAt>>
             \/ ServiceSteps(p) /\ UNCHANGED <<events, eventAt, handlers, handlerAt, eventHandlers>>
  <2>1. UNCHANGED eventHandlers
    BY <1>3 DEF Destroy, subscriptionVars
  <2> QED  BY <1>3, <2>1 DEF Destroy, UncountEvent, ReleaseEvent, ReleaseService, RemoveHandler,
              UnregisterHandler, HandlerSteps, EventSteps, ServiceSteps
<1>4. ASSUME NEW p \in Proxies, AddEventHandler(p) \/ RemoveEventHandler(p)
      PROVE  EventSteps(p) /\ UNCHANGED <<handlers, handlerAt>>
  BY <1>4 DEF AddEventHandler, RemoveEventHandler, EventSteps
<1>5. ASSUME NEW p \in Proxies, ListenerSteps(p)
      PROVE  UNCHANGED <<events, eventAt, handlers, handlerAt, eventHandlers>>
  BY <1>5 DEF ListenerSteps, AddListener, Listen, InsertHandler, Subscribe, Close, RemoveListener,
     registrationVars, subscriptionVars
<1> QED  BY <1>1, <1>2, <1>3, <1>4, <1>5 DEF Next, Others, Operate, Subscribing, ListenerSteps

\* Where the threads are before and after the other steps.
LEMMA PlainMoves ==
  ASSUME PcType, NEW p \in Proxies, ServiceSteps(p) \/ ListenerSteps(p)
  PROVE  \E from \in HandlerPlaces, to \in HandlerPlaces :
           /\ Moves(p, from, to)
           /\ from # "release" => from \in EventPlaces /\ to \in EventPlaces
           /\ from = "release" => to = "unregister"
<1> USE DEF HandlerPlaces, ServicePlaces, EventPlaces
<1>1. CASE CountService(p)
  <2>1. PICK to \in {"requestService", "query"} : Step(p, "count", to)
    BY <1>1 DEF CountService
  <2>2. Moves(p, "count", to)
    BY <2>1, StepMoves DEF Steps
  <2> QED  BY <2>2
<1>2. CASE RequestService(p)
  <2>1. Moves(p, "requestService", "query")
    BY <1>2, StepMoves DEF RequestService, Steps
  <2> QED  BY <2>1
<1>3. CASE ReleaseService(p)
  <2>1. Moves(p, "release", "unregister")
    BY <1>3, StepMoves DEF ReleaseService, Steps
  <2> QED  BY <2>1
<1>4. CASE Query(p)
  <2>1. PICK to \in {"assign", "idle"} : Step(p, "query", to)
    BY <1>4 DEF Query
  <2>2. Moves(p, "query", to)
    BY <2>1, StepMoves DEF Steps
  <2> QED  BY <2>2
<1>5. CASE Assign(p)
  <2>1. Moves(p, "assign", "idle")
    BY <1>5, StepMoves DEF Assign, Steps
  <2> QED  BY <2>1
<1>6. CASE AddListener(p) \/ Close(p) \/ \E n \in Tags : RemoveListener(p, n)
  <2>1. PICK to \in {"add", "listen", "idle", "remove", "close", "uncount"} : Step(p, "idle", to)
    BY <1>6 DEF AddListener, Close, RemoveListener
  <2>2. Moves(p, "idle", to)
    BY <2>1, StepMoves DEF Steps
  <2> QED  BY <2>2
<1>7. CASE Listen(p) \/ InsertHandler(p) \/ Subscribe(p)
  <2>1. PICK from \in {"listen", "insert", "subscribe"}, to \in {"insert", "subscribe", "idle"} :
          Step(p, from, to)
    BY <1>7 DEF Listen, InsertHandler, Subscribe
  <2>2. Moves(p, from, to)
    BY <2>1, StepMoves DEF Steps
  <2> QED  BY <2>2
<1> QED  BY <1>1, <1>2, <1>3, <1>4, <1>5, <1>6, <1>7 DEF ServiceSteps, ListenerSteps

LEMMA EventMoves ==
  ASSUME PcType, NEW p \in Proxies, EventSteps(p)
  PROVE  \E from \in Steps \ {"unregisterHandler"}, to \in Steps \ {"unregisterHandler"} :
           Moves(p, from, to) /\ (from \in HandlerPlaces <=> to \in HandlerPlaces)
<1> USE DEF HandlerPlaces, ServicePlaces, Steps
<1>1. CASE CountEvent(p)
  <2>1. PICK to \in {"requestEvent", "register"} : Step(p, "none", to)
    BY <1>1 DEF CountEvent
  <2>2. Moves(p, "none", to)
    BY <2>1, StepMoves
  <2> QED  BY <2>2
<1>2. CASE RequestEvent(p)
  <2>1. Moves(p, "requestEvent", "register")
    BY <1>2, StepMoves DEF RequestEvent
  <2> QED  BY <2>1
<1>3. CASE UncountEvent(p)
  <2>1. PICK to \in {"releaseEvent", "release"} : Step(p, "uncount", to)
    BY <1>3 DEF UncountEvent
  <2>2. Moves(p, "uncount", to)
    BY <2>1, StepMoves
  <2> QED  BY <2>2
<1>4. CASE ReleaseEvent(p)
  <2>1. Moves(p, "releaseEvent", "release")
    BY <1>4, StepMoves DEF ReleaseEvent
  <2> QED  BY <2>1
<1>5. CASE AddEventHandler(p)
  <2>1. Moves(p, "add", "listen")
    BY <1>5, StepMoves DEF AddEventHandler
  <2> QED  BY <2>1
<1>6. CASE RemoveEventHandler(p)
  <2>1. Step(p, "remove", "idle") \/ Step(p, "close", "uncount")
    BY <1>6 DEF RemoveEventHandler
  <2>2. Moves(p, "remove", "idle") \/ Moves(p, "close", "uncount")
    BY <2>1, StepMoves
  <2> QED  BY <2>2
<1> QED  BY <1>1, <1>2, <1>3, <1>4, <1>5, <1>6 DEF EventSteps

\* A step inside or outside of the range of the handlers.
LEMMA HandlerInvKept ==
  ASSUME HandlerInv, NEW p \in Proxies, NEW from, NEW to, Moves(p, from, to),
         from \in HandlerPlaces <=> to \in HandlerPlaces, from # "unregisterHandler",
         UNCHANGED <<handlers, handlerAt>>
  PROVE  HandlerInv'
<1>1. \A q \in Proxies : pc[q] \in HandlerPlaces <=> pc'[q] \in HandlerPlaces
  BY DEF Moves
<1>2. \A q \in Proxies : pc[q] = "unregisterHandler" => pc'[q] = "unregisterHandler"
  BY DEF Moves
<1>3. InHandlers' = InHandlers
  BY <1>1 DEF InHandlers
<1> QED  BY <1>1, <1>2, <1>3 DEF HandlerInv, PcType, Moves

LEMMA HandlerInvStep ==
  ASSUME HandlerInv, [Next]_vars
  PROVE  HandlerInv'
<1>1. CASE UNCHANGED <<pc, handlers, handlerAt>>
  BY <1>1 DEF HandlerInv, PcType, InHandlers
<1>2. CASE \E p \in Proxies : EventSteps(p) /\ UNCHANGED <<handlers, handlerAt>>
  BY <1>2, EventMoves, HandlerInvKept DEF HandlerInv
<1>3. CASE \E p \in Proxies : (ServiceSteps(p) \/ ListenerSteps(p)) /\ UNCHANGED <<handlers, handlerAt>>
  <2>1. PICK p \in Proxies, from \in HandlerPlaces, to \in HandlerPlaces :
          Moves(p, from, to) /\ UNCHANGED <<handlers, handlerAt>>
    BY <1>3, PlainMoves DEF HandlerInv
  <2> QED  BY <2>1, HandlerInvKept DEF HandlerPlaces, ServicePlaces
<1>4. ASSUME NEW p \in Proxies, HandlerSteps(p) PROVE HandlerInv'
  <2> USE DEF HandlerPlaces, ServicePlaces, Steps
  <2>1. CASE AddHandler(p)
    <3>1. PICK to \in {"registerHandler", "count"} : Step(p, "register", to)
      BY <2>1 DEF AddHandler
    <3>2. Moves(p, "register", to)
      BY <3>1, StepMoves DEF HandlerInv
    <3>3. handlers' = handlers \cup {p}
      BY <2>1 DEF AddHandler
    <3>4. InHandlers' = InHandlers \cup {p}
      BY <3>2 DEF InHandlers, Moves
    <3>5. pc'[p] \in HandlerPlaces
      BY <3>2 DEF Moves
    <3> QED  BY <3>2, <3>3, <3>4, <3>5 DEF HandlerInv, PcType, Moves
  <2>2. CASE RegisterHandler(p)
    <3>1. Moves(p, "registerHandler", "count") /\ handlers' = handlers
      BY <2>2, StepMoves DEF RegisterHandler, HandlerInv
    <3>2. InHandlers' = InHandlers /\ pc'[p] \in HandlerPlaces
      BY <3>1 DEF InHandlers, Moves
    <3> QED  BY <3>1, <3>2 DEF HandlerInv, PcType, Moves
  <2>3. CASE RemoveHandler(p)
    <3>1. PICK to \in {"unregisterHandler", "gone"} :
            Step(p, "unregister", to) /\ (handlers = {p} => to = "unregisterHandler")
      BY <2>3 DEF RemoveHandler
    <3>2. Moves(p, "unregister", to)
      BY <3>1, StepMoves DEF HandlerInv
    <3>3. handlers' = handlers \ {p} /\ p \in handlers /\ handlerAt' = handlerAt
      BY <2>3, <3>2 DEF RemoveHandler, HandlerInv, InHandlers, Moves
    <3>4. InHandlers' = InHandlers \ {p}
      BY <3>2 DEF InHandlers, Moves
    <3>5. \E q \in Proxies : pc'[q] \in HandlerPlaces \/ pc'[q] = "unregisterHandler"
      <4>1. CASE handlers = {p}
        BY <3>1, <3>2, <4>1 DEF Moves
      <4>2. CASE handlers # {p}
        <5>1. PICK q \in handlers : q # p
          BY <3>3, <4>2
        <5>2. q \in InHandlers'
          BY <3>4, <5>1 DEF HandlerInv
        <5> QED  BY <5>2 DEF InHandlers
      <4> QED  BY <4>1, <4>2
    <3> QED  BY <3>2, <3>3, <3>4, <3>5 DEF HandlerInv, PcType, Moves
  <2>4. CASE UnregisterHandler(p)
    <3>1. Moves(p, "unregisterHandler", "gone") /\ handlers' = handlers /\ ~handlerAt'
      BY <2>4, StepMoves DEF UnregisterHandler, HandlerInv
    <3>2. InHandlers' = InHandlers
      BY <3>1 DEF InHandlers, Moves
    <3> QED  BY <3>1, <3>2 DEF HandlerInv, PcType, Moves
  <2> QED  BY <1>4, <2>1, <2>2, <2>3, <2>4 DEF HandlerSteps
<1> QED  BY <1>1, <1>2, <1>3, <1>4, StepKinds

LEMMA EventHandlersInEvent ==
  ASSUME SubscriptionInv
  PROVE  eventHandlers \subseteq InEvent
BY DEF SubscriptionInv, SubscriptionTypes, HandlerWhileListening, ListenPlaces, InEvent, EventPlaces

LEMMA EventInvStep ==
  ASSUME EventInv, SubscriptionInv, [Next]_vars
  PROVE  EventInv'
<1> PcType
  BY DEF SubscriptionInv, SubscriptionTypes
<1> eventHandlers \subseteq InEvent /\ InEvent \subseteq Proxies
  BY EventHandlersInEvent DEF InEvent
<1>1. CASE UNCHANGED <<pc, events, eventAt, eventHandlers>>
  BY <1>1 DEF EventInv, InEvent
<1>2. CASE \E p \in Proxies : HandlerSteps(p) /\ UNCHANGED <<events, eventAt, eventHandlers>>
  <2>1. PICK p \in Proxies : HandlerSteps(p) /\ UNCHANGED <<events, eventAt, eventHandlers>>
    BY <1>2
  <2>2. PICK from \in {"register", "registerHandler", "unregister", "unregisterHandler"},
             to \in {"registerHandler", "count", "unregisterHandler", "gone"} :
          Step(p, from, to) /\ (from \in EventPlaces <=> to \in EventPlaces)
    BY <2>1 DEF HandlerSteps, AddHandler, RegisterHandler, RemoveHandler, UnregisterHandler, EventPlaces
  <2>3. Moves(p, from, to)
    BY <2>2, StepMoves DEF Steps
  <2>4. InEvent' = InEvent /\ \A q \in Proxies : pc[q] = "releaseEvent" <=> pc'[q] = "releaseEvent"
    BY <2>2, <2>3 DEF InEvent, Moves
  <2>5. \A q \in Proxies : pc[q] \in EventPlaces <=> pc'[q] \in EventPlaces
    BY <2>2, <2>3 DEF Moves
  <2> QED  BY <2>1, <2>4, <2>5 DEF EventInv
<1>3. CASE \E p \in Proxies : (ServiceSteps(p) \/ ListenerSteps(p)) /\ UNCHANGED <<events, eventAt, eventHandlers>>
  <2>1. PICK p \in Proxies, from \in HandlerPlaces, to \in HandlerPlaces :
          /\ Moves(p, from, to) /\ UNCHANGED <<events, eventAt, eventHandlers>>
          /\ from # "release" => from \in EventPlaces /\ to \in EventPlaces
          /\ from = "release" => to = "unregister"
    BY <1>3, PlainMoves
  <2>2. \A q \in Proxies : pc[q] \in EventPlaces <=> pc'[q] \in EventPlaces
    BY <2>1 DEF Moves, EventPlaces
  <2>3. InEvent' = InEvent /\ \A q \in Proxies : pc[q] = "releaseEvent" => pc'[q] = "releaseEvent"
    BY <2>1, <2>2 DEF InEvent, Moves, EventPlaces
  <2> QED  BY <2>1, <2>2, <2>3 DEF EventInv
<1>4. ASSUME NEW p \in Proxies, EventSteps(p) PROVE EventInv'
  <2> USE DEF EventPlaces, Steps
  <2> /\ Cardinality(InEvent) \in Nat /\ Cardinality(eventHandlers) \in Nat
      /\ events = Cardinality(InEvent) + Cardinality(eventHandlers)
    BY Counting DEF EventInv
  <2>1. CASE CountEvent(p) /\ UNCHANGED eventHandlers
    <3>1. PICK to \in {"requestEvent", "register"} : Step(p, "none", to)
      BY <2>1 DEF CountEvent
    <3>2. Moves(p, "none", to)
      BY <3>1, StepMoves
    <3>3. InEvent' = InEvent \cup {p} /\ p \notin InEvent /\ pc'[p] \in EventPlaces
      BY <3>2 DEF InEvent, Moves
    <3>4. Cardinality(InEvent') = Cardinality(InEvent) + 1
      BY <3>3, Counting
    <3>5. events' = events + 1
      BY <2>1 DEF CountEvent
    <3> QED  BY <2>1, <3>3, <3>4, <3>5 DEF EventInv
  <2>2. CASE RequestEvent(p) /\ UNCHANGED eventHandlers
    <3>1. Moves(p, "requestEvent", "register") /\ events' = events
      BY <2>2, StepMoves DEF RequestEvent
    <3>2. InEvent' = InEvent /\ pc'[p] \in EventPlaces
      BY <3>1 DEF InEvent, Moves
    <3> QED  BY <2>2, <3>1, <3>2 DEF EventInv
  <2>3. CASE UncountEvent(p) /\ UNCHANGED eventHandlers
    <3>1. PICK to \in {"releaseEvent", "release"} :
            Step(p, "uncount", to) /\ (events = 1 => to = "releaseEvent")
      BY <2>3 DEF UncountEvent
    <3>2. Moves(p, "uncount", to) /\ events' = events - 1 /\ eventAt' = eventAt
      BY <2>3, <3>1, StepMoves DEF UncountEvent
    <3>3. p \in InEvent /\ InEvent' = InEvent \ {p}
      BY <3>2 DEF InEvent, Moves
    <3>4. Cardinality(InEvent') = Cardinality(InEvent) - 1
      BY <3>3, Counting
    <3>5. p \notin eventHandlers
      BY <3>2 DEF Moves, SubscriptionInv, HandlerWhileListening, ListenPlaces
    <3>6. \E q \in Proxies : pc'[q] \in EventPlaces \/ pc'[q] = "releaseEvent"
      <4>1. CASE InEvent = {p}
        <5>1. eventHandlers = {}
          BY <3>5, <4>1
        <5>2. Cardinality(InEvent) = 1 /\ Cardinality(eventHandlers) = 0
          BY <4>1, <5>1, FS_Singleton, FS_EmptySet
        <5>3. events = 1
          BY <5>2
        <5> QED  BY <3>1, <3>2, <5>3 DEF Moves
      <4>2. CASE InEvent # {p}
        <5>1. PICK q \in InEvent : q # p
          BY <3>3, <4>2
        <5>2. q \in InEvent'
          BY <3>3, <5>1
        <5> QED  BY <5>2 DEF InEvent
      <4> QED  BY <4>1, <4>2
    <3> QED  BY <2>3, <3>2, <3>4, <3>6 DEF EventInv
  <2>4. CASE ReleaseEvent(p) /\ UNCHANGED eventHandlers
    <3>1. Moves(p, "releaseEvent", "release") /\ events' = events /\ ~eventAt'
      BY <2>4, StepMoves DEF ReleaseEvent
    <3>2. InEvent' = InEvent
      BY <3>1 DEF InEvent, Moves
    <3> QED  BY <2>4, <3>1, <3>2 DEF EventInv
  <2>5. CASE AddEventHandler(p)
    <3>1. /\ Moves(p, "add", "listen") /\ events' = events + 1 /\ eventAt' = eventAt
          /\ eventHandlers' = eventHandlers \cup {p}
      BY <2>5, StepMoves DEF AddEventHandler
    <3>2. p \notin eventHandlers
      BY <3>1 DEF Moves, SubscriptionInv, HandlerWhileListening, ListenPlaces
    <3>3. eventHandlers \subseteq Proxies
      OBVIOUS
    <3>4. Cardinality(eventHandlers') = Cardinality(eventHandlers) + 1
      BY <3>1, <3>2, <3>3, Counting
    <3>5. InEvent' = InEvent /\ pc'[p] \in EventPlaces
      BY <3>1 DEF InEvent, Moves
    <3> QED  BY <3>1, <3>4, <3>5 DEF EventInv
  <2>6. CASE RemoveEventHandler(p)
    <3>1. PICK from \in {"remove", "close"}, to \in {"idle", "uncount"} : Step(p, from, to)
      BY <2>6 DEF RemoveEventHandler
    <3>2. /\ Moves(p, from, to) /\ events' = events - 1 /\ eventAt' = eventAt
          /\ eventHandlers' = eventHandlers \ {p}
      BY <2>6, <3>1, StepMoves DEF RemoveEventHandler
    <3>3. p \in eventHandlers
      BY <3>1, <3>2 DEF Moves, SubscriptionInv, HandlerWhileListening, ListenPlaces
    <3>4. eventHandlers \subseteq Proxies
      OBVIOUS
    <3>5. Cardinality(eventHandlers') = Cardinality(eventHandlers) - 1
      BY <3>2, <3>3, <3>4, Counting
    <3>6. InEvent' = InEvent /\ pc'[p] \in EventPlaces
      BY <3>1, <3>2 DEF InEvent, Moves
    <3> QED  BY <3>2, <3>5, <3>6 DEF EventInv
  <2> QED  BY <1>4, <2>1, <2>2, <2>3, <2>4, <2>5, <2>6 DEF EventSteps
<1> QED  BY <1>1, <1>2, <1>3, <1>4, StepKinds

LEMMA CountsInit == Init => HandlerInv /\ EventInv
<1> SUFFICES ASSUME Init PROVE HandlerInv /\ EventInv
  OBVIOUS
<1> USE DEF Init, RegistrationsInit
<1>1. InHandlers = {} /\ InEvent = {}
  BY DEF InHandlers, HandlerPlaces, ServicePlaces, InEvent, EventPlaces
<1>2. Cardinality(InEvent) = 0 /\ Cardinality(eventHandlers) = 0
  BY <1>1, FS_EmptySet
<1> QED  BY <1>1, <1>2 DEF HandlerInv, EventInv, PcType, Steps

\* When all proxies are gone, the counts, the maps and the registrations of
\* all of them are, at the connection and at vsomeip, but for the message handler.
THEOREM OnlyReceiverStays == Spec => []OnlyReceiverLeft
<1>1. ASSUME ServiceInv, SubscriptionInv, HandlerInv, EventInv PROVE OnlyReceiverLeft
  <2>1. SUFFICES ASSUME \A p \in Proxies : pc[p] \in {"none", "gone"}
                 PROVE  /\ handlers = {} /\ services = 0 /\ events = 0 /\ ~handlerAt /\ ~serviceAt /\ ~eventAt
                        /\ eventHandlers = {} /\ ~grouped /\ ~wrapped /\ allHandlers = {}
                        /\ pendingHandlers = <<>> /\ ~statusHandlerAt /\ ~subscribedAt
    BY DEF OnlyReceiverLeft
  <2>2. InService = {} /\ InHandlers = {} /\ InEvent = {}
    BY <2>1 DEF InService, InHandlers, InEvent, HandlerPlaces, ServicePlaces, EventPlaces
  <2>3. eventHandlers = {}
    BY <1>1, <2>2, EventHandlersInEvent
  <2>4. /\ ~grouped /\ ~wrapped /\ allHandlers = {} /\ pendingHandlers = <<>>
        /\ ~statusHandlerAt /\ ~subscribedAt
    BY <1>1, <2>3 DEF SubscriptionInv, GroupWhileHandlers
  <2>5. handlers = {} /\ ~handlerAt
    BY <1>1, <2>1, <2>2 DEF HandlerInv, HandlerPlaces, ServicePlaces
  <2>6. events = 0
    BY <1>1, <2>2, <2>3, FS_EmptySet DEF EventInv
  <2>7. ~eventAt
    BY <1>1, <2>1 DEF EventInv, EventPlaces
  <2>8. services = 0 /\ ~serviceAt
    <3>1. services = 0
      BY <1>1, <2>2, FS_EmptySet DEF ServiceInv
    <3> QED  BY <1>1, <3>1 DEF ServiceInv, ServiceRequested
  <2> QED  BY <2>3, <2>4, <2>5, <2>6, <2>7, <2>8
<1> QED  BY <1>1, CountsInit, ServiceInvInit, ServiceInvStep, SubscriptionInvInit, SubscriptionInvStep,
            HandlerInvStep, EventInvStep, PTL DEF Spec
=============================================================================
