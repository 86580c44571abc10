---------------------------- MODULE Subscriptions ----------------------------
(***************************************************************************)
(* The subscriptions of the proxies of one service instance to one event:  *)
(* the event handlers of the connection, the status of each subscription,  *)
(* and the values that reach the listeners, with a main loop.  A           *)
(* subscription is a proxy and the number of its listener (the tag).       *)
(***************************************************************************)
EXTENDS Registrations

CONSTANTS
  LoopProxies,     \* proxies that the application uses from inside its error listeners
  MaxListeners     \* subscriptions made by all proxies together

ASSUME ListenersAssumption == MaxListeners \in Nat

Tags == 1 .. MaxListeners
Subscribers == Proxies \X Tags
Kinds == {"initial", "update"}

VARIABLES
  made,            \* made[p]: how many listeners the proxy's event has had
  active,          \* active[p]: those that the event has now
  fresh,           \* Event::listeners_: those that wait for their initial value
  eventHandlers,   \* eventHandlers_ of the event: the proxies whose event listens
  grouped,         \* subscriptions_ has the event
  wrapped,         \* subscriptionStates_ has a SubscriptionStatusWrapper for it
  allHandlers, pendingHandlers,       \* its members
  statusHandlerAt, subscribedAt,      \* what vsomeip has
  batch,           \* handlerCopy of the status handler
  loop,            \* the main loop: "calling" an error listener, or telling a value of one kind
  left,            \* the handlers (handleProxyReceive) that are still to be told the value
  current, subscribers,   \* the event that is told it, and its local variable
  statuses,        \* statuses[p][n]: how often a subscription was told its status
  initials,        \* initials[p][n]: how many initial values it was told
  heard,           \* heard[p]: the subscriptions that were told a value
  losses           \* losses[p][n]: how often its service went away

eventVars == <<made, active, fresh>>
subscriptionVars == <<eventHandlers, grouped, wrapped, allHandlers, pendingHandlers, statusHandlerAt, subscribedAt>>
toldVars == <<statuses, initials, heard, losses>>
loopVars == <<batch, loop, left, current, subscribers>>
vars == <<proxyVars, reportVars, eventVars, subscriptionVars, toldVars, loopVars>>

Init ==
  /\ RegistrationsInit
  /\ made = [p \in Proxies |-> 0]
  /\ active = [p \in Proxies |-> {}] /\ fresh = [p \in Proxies |-> {}]
  /\ eventHandlers = {} /\ grouped = FALSE /\ wrapped = FALSE
  /\ allHandlers = {} /\ pendingHandlers = <<>> /\ statusHandlerAt = FALSE /\ subscribedAt = FALSE
  /\ batch = <<>> /\ loop = "idle" /\ left = {} /\ current = {} /\ subscribers = {}
  /\ statuses = [p \in Proxies |-> [n \in Tags |-> 0]]
  /\ initials = [p \in Proxies |-> [n \in Tags |-> 0]] /\ heard = [p \in Proxies |-> {}]
  /\ losses = [p \in Proxies |-> [n \in Tags |-> 0]]

EventHandlerMutexFree == loop # "calling"

\* An operation of the application on the event of a proxy begins.
Begins(p) == p \in LoopProxies => loop = "calling"

-----------------------------------------------------------------------------
\* Subscribing: Event::onFirstListenerAdded, onListenerAdded

AddListener(p) ==
  /\ Begins(p) /\ Cardinality({h \in Subscribers : h[2] <= made[h[1]]}) < MaxListeners
  /\ Step(p, "idle", IF active[p] = {} THEN "add" ELSE "listen")
  /\ made' = [made EXCEPT ![p] = @ + 1]
  /\ active' = [active EXCEPT ![p] = @ \cup {made[p] + 1}]
  /\ UNCHANGED <<registrationVars, reportVars, fresh, subscriptionVars, toldVars, loopVars>>

\* addEventHandler, with requestEvent, whose count the event itself keeps above 0.
AddEventHandler(p) ==
  /\ EventHandlerMutexFree
  /\ Step(p, "add", "listen")
  /\ eventHandlers' = eventHandlers \cup {p}
  /\ grouped' = TRUE /\ statusHandlerAt' = (statusHandlerAt \/ ~grouped)
  /\ events' = events + 1
  /\ UNCHANGED <<handlers, services, handlerAt, serviceAt, receiverAt, eventAt, crossed, reportVars, eventVars,
                 wrapped, allHandlers, pendingHandlers, subscribedAt, toldVars, loopVars>>

\* listeners_.insert
Listen(p) ==
  /\ Step(p, "listen", "insert")
  /\ fresh' = [fresh EXCEPT ![p] = @ \cup {made[p]}]
  /\ UNCHANGED <<registrationVars, reportVars, made, active, subscriptionVars, toldVars, loopVars>>

\* Mutant: only the subscriber that creates the wrapper waits for its status.
PendingIfFirst(h) == IF wrapped THEN pendingHandlers ELSE <<h>>

Pending(h) == Append(pendingHandlers, h)

\* insertSubscriptionStatusListener: SubscriptionStatusWrapper::addHandler
InsertHandler(p) ==
  /\ EventHandlerMutexFree
  /\ Step(p, "insert", "subscribe")
  /\ wrapped' = TRUE
  /\ allHandlers' = allHandlers \cup {<<p, made[p]>>}
  /\ pendingHandlers' = Pending(<<p, made[p]>>)
  /\ UNCHANGED <<registrationVars, reportVars, eventVars, eventHandlers, grouped,
                 statusHandlerAt, subscribedAt, toldVars, loopVars>>

\* vsomeip hands us the values of an event that was requested, by our message
\* handler; requestEvent and requestService let a second proxy go on before the
\* first has called vsomeip.
Passes == eventAt /\ receiverAt

\* vsomeip answers a subscription to an available service.
Answers == <<Entry("status", <<>>)>> \o IF Passes THEN <<Entry("initial", <<>>)>> ELSE <<>>

Subscribe(p) ==
  /\ Step(p, "subscribe", "idle")
  /\ subscribedAt' = TRUE
  /\ calls' = IF up THEN calls \o Answers ELSE calls
  /\ crossed' = (crossed \/ ~Passes)
  /\ UNCHANGED <<handlers, services, events, handlerAt, serviceAt, receiverAt, eventAt, called, known, up, dispatcher, queue, changes, eventVars, eventHandlers,
                 grouped, wrapped, allHandlers, pendingHandlers, statusHandlerAt, toldVars, loopVars>>

-----------------------------------------------------------------------------
\* Unsubscribing: Event::onLastListenerRemoved, Event::~Event

\* What a subscription was told ends with it.
Without(f, p, tags) == [f EXCEPT ![p] = [n \in Tags |-> IF n \in tags THEN 0 ELSE @[n]]]

Forgets(p, tags) ==
  /\ statuses' = Without(statuses, p, tags) /\ losses' = Without(losses, p, tags)
  /\ initials' = Without(initials, p, tags) /\ heard' = [heard EXCEPT ![p] = @ \ tags]

RemoveListener(p, n) ==
  /\ Begins(p) /\ n \in active[p]
  /\ Step(p, "idle", IF active[p] = {n} THEN "remove" ELSE "idle")
  /\ active' = [active EXCEPT ![p] = @ \ {n}] /\ Forgets(p, {n})
  /\ UNCHANGED <<registrationVars, reportVars, made, fresh, subscriptionVars, loopVars>>

\* Mutant: releases also what the proxy never added.
AddedAny(p) == TRUE

\* eventHandlerAdded_ has the event.
Added(p) == p \in eventHandlers

Close(p) ==
  /\ Begins(p)
  /\ Step(p, "idle", IF Added(p) THEN "close" ELSE "uncount")
  /\ active' = [active EXCEPT ![p] = {}] /\ Forgets(p, Tags)
  /\ UNCHANGED <<registrationVars, reportVars, made, fresh, subscriptionVars, loopVars>>

\* Nobody listens any more: the wrapper, the group and vsomeip's handler go.
LastSubscriber ==
  /\ wrapped' = FALSE /\ allHandlers' = {} /\ pendingHandlers' = <<>>
  /\ grouped' = FALSE /\ statusHandlerAt' = FALSE /\ subscribedAt' = FALSE

Handlers(p) == {h \in allHandlers : h[1] = p}

OneSubscriberLess(p) ==
  /\ allHandlers' = allHandlers \ Handlers(p)
  /\ UNCHANGED <<wrapped, pendingHandlers, grouped, statusHandlerAt, subscribedAt>>

\* Mutant: whoever goes is taken for the last one.
EndsAll(p) == TRUE

\* Whether the map of the event's handlers is empty without the proxy's.
EndsLast(p) == eventHandlers = {p}

\* removeEventHandler, with releaseEvent, whose count the event itself keeps above 0.
RemoveEventHandler(p) ==
  /\ EventHandlerMutexFree
  /\ Step(p, "remove", "idle") \/ Step(p, "close", "uncount")
  /\ eventHandlers' = eventHandlers \ {p}
  /\ IF EndsLast(p) THEN LastSubscriber ELSE OneSubscriberLess(p)
  /\ events' = events - 1
  /\ UNCHANGED <<handlers, services, handlerAt, serviceAt, receiverAt, eventAt, crossed, reportVars,
                 eventVars, toldVars, loopVars>>

-----------------------------------------------------------------------------
\* vsomeip's dispatcher

\* The service comes back: vsomeip subscribes again.  The event may have been
\* released, and not yet requested again, since the proxies subscribed.
ChangeService ==
  /\ ServiceChange(IF ~up /\ subscribedAt THEN Answers ELSE <<>>)
  /\ crossed' = (crossed \/ (~up /\ subscribedAt /\ ~Passes))
  /\ UNCHANGED <<eventVars, subscriptionVars, toldVars, loopVars>>

\* The service sends a value on its own account.
Update ==
  /\ changes < MaxChanges /\ up /\ subscribedAt /\ Passes
  /\ changes' = changes + 1 /\ calls' = Append(calls, Entry("update", <<>>))
  /\ UNCHANGED <<proxyVars, called, known, up, dispatcher, queue, eventVars, subscriptionVars, toldVars, loopVars>>

\* pushOnPendingHandlerQueue of every handler, in the order of a map of pointers.
Requeued(loss) == IF loss /\ grouped THEN pendingHandlers \o SetToSeq(allHandlers) ELSE pendingHandlers

\* onAvailabilityChange: with queueSubscriptionStatusHandler when the service
\* goes, which takes eventHandlerMutex_ inside availabilityMutex_.
QueueReport ==
  LET loss == dispatcher = "locked" /\ called /\ Head(calls).kind = "down"
  IN  /\ loss => EventHandlerMutexFree
      /\ EndReport
      /\ pendingHandlers' = Requeued(loss)
      /\ losses' = [p \in Proxies |-> [n \in Tags |->
                      losses[p][n] + IF loss /\ n \in active[p] /\ <<p, n>> \in allHandlers THEN 1 ELSE 0]]
      /\ UNCHANGED <<eventVars, eventHandlers, grouped, wrapped, allHandlers, statusHandlerAt,
                     subscribedAt, statuses, initials, heard, loopVars>>

\* Mutant: the pending handlers are copied and stay in the queue.
KeepPending == UNCHANGED pendingHandlers

\* popAndFrontPendingHandler until the queue is empty.
PopPending == pendingHandlers' = <<>>

\* The status handler of vsomeip, its critical section.
StatusHandler ==
  /\ dispatcher = "idle" /\ calls # <<>> /\ Head(calls).kind = "status"
  /\ statusHandlerAt => EventHandlerMutexFree
  /\ calls' = Tail(calls)
  /\ IF statusHandlerAt /\ pendingHandlers # <<>>
       THEN batch' = pendingHandlers /\ PopPending /\ dispatcher' = "pushing"
       ELSE UNCHANGED <<batch, pendingHandlers, dispatcher>>
  /\ UNCHANGED <<proxyVars, called, known, up, queue, changes, eventVars, eventHandlers, grouped, wrapped,
                 allHandlers, statusHandlerAt, subscribedAt, toldVars, loop, left, current, subscribers>>

PushStatus ==
  /\ dispatcher = "pushing"
  /\ queue' = Append(queue, Entry("status", Head(batch)))
  /\ batch' = Tail(batch)
  /\ dispatcher' = IF batch' = <<>> THEN "idle" ELSE "pushing"
  /\ UNCHANGED <<proxyVars, called, known, up, calls, changes, eventVars, subscriptionVars, toldVars, loop, left, current, subscribers>>

\* A notification goes to the main loop.
PushValue ==
  /\ dispatcher = "idle" /\ calls # <<>> /\ Head(calls).kind \in {"initial", "update"}
  /\ calls' = Tail(calls) /\ queue' = Append(queue, Head(calls))
  /\ UNCHANGED <<proxyVars, called, known, up, dispatcher, changes, eventVars, subscriptionVars,
                 toldVars, loopVars>>

-----------------------------------------------------------------------------
\* The main loop

InformProxies ==
  /\ loop = "idle" /\ HandleReport
  /\ UNCHANGED <<eventVars, subscriptionVars, toldVars, loopVars>>

\* processErrQueueEntry: the listener is called with the mutex held.
CallErrorListener ==
  /\ loop = "idle" /\ queue # <<>> /\ Head(queue).kind = "status"
  /\ queue' = Tail(queue)
  /\ LET h == Head(queue).who
         p == h[1]
         n == h[2]
     IN  /\ loop' = IF h \in allHandlers THEN "calling" ELSE loop
         /\ statuses' = IF h \in allHandlers /\ n \in active[p]
                          THEN [statuses EXCEPT ![p][n] = @ + 1] ELSE statuses
  /\ UNCHANGED <<proxyVars, called, known, up, calls, dispatcher, changes, eventVars, subscriptionVars,
                 initials, heard, losses, batch, left, current, subscribers>>

\* The application is done, also with what it does inside the listener.
EndErrorListener ==
  /\ loop = "calling" /\ \A p \in LoopProxies : pc[p] \in {"none", "idle", "gone"}
  /\ loop' = "idle"
  /\ UNCHANGED <<proxyVars, reportVars, eventVars, subscriptionVars, toldVars, batch, left, current, subscribers>>

\* handleProxyReceive of a notification copies the event's handlers and lets
\* go of the mutex.
TakeValue ==
  /\ loop = "idle" /\ queue # <<>> /\ Head(queue).kind \in Kinds
  /\ loop' = Head(queue).kind /\ left' = eventHandlers /\ queue' = Tail(queue)
  /\ UNCHANGED <<proxyVars, called, known, up, calls, dispatcher, changes, eventVars,
                 subscriptionVars, toldVars, batch, current, subscribers>>

\* Mutant: the initial value leaves the list of those that wait for it.
StillFresh(p) == fresh' = [fresh EXCEPT ![p] = IF loop = "initial" THEN @ ELSE {}]

\* Either kind of value ends the wait for the initial one.
NoLongerFresh(p) == fresh' = [fresh EXCEPT ![p] = {}]

\* handleEventMessage of one handler, its critical section.
TakeSubscribers(p) ==
  /\ loop \in Kinds /\ current = {} /\ p \in left
  /\ current' = {p} /\ left' = left \ {p}
  /\ NoLongerFresh(p)
  /\ subscribers' = IF loop = "initial" THEN fresh[p] ELSE {}
  /\ UNCHANGED <<proxyVars, reportVars, made, active, subscriptionVars, toldVars, batch, loop>>

\* Mutant: the subscribers are read again after listeners_ was cleared.
ReceiversReadAgain(p) == IF loop = "initial" THEN fresh[p] \cap active[p] ELSE active[p]

\* notifySpecificListener of each, or notifyListeners.
Receivers(p) == IF loop = "initial" THEN subscribers \cap active[p] ELSE active[p]

Notify(p) ==
  /\ current = {p}
  /\ heard' = [heard EXCEPT ![p] = @ \cup Receivers(p)]
  /\ initials' = IF loop = "initial"
                   THEN [initials EXCEPT ![p] = [n \in Tags |-> IF n \in Receivers(p) THEN @[n] + 1 ELSE @[n]]]
                   ELSE initials
  /\ current' = {} /\ subscribers' = {}
  /\ UNCHANGED <<proxyVars, reportVars, eventVars, subscriptionVars, statuses, losses, batch, loop, left>>

EndValue ==
  /\ loop \in Kinds /\ left = {} /\ current = {}
  /\ loop' = "idle"
  /\ UNCHANGED <<proxyVars, reportVars, eventVars, subscriptionVars, toldVars, batch, left, current, subscribers>>

-----------------------------------------------------------------------------
Create(p) ==
  /\ \/ CountEvent(p) /\ Begins(p)
     \/ RequestEvent(p) \/ AddHandler(p) \/ RegisterHandler(p)
     \/ CountService(p) \/ RequestService(p) \/ Query(p) \/ Assign(p)
  /\ UNCHANGED <<eventVars, subscriptionVars, toldVars, loopVars>>

Destroy(p) ==
  /\ UncountEvent(p) \/ ReleaseEvent(p) \/ ReleaseService(p) \/ RemoveHandler(p) \/ UnregisterHandler(p)
  /\ UNCHANGED <<eventVars, subscriptionVars, toldVars, loopVars>>

Subscribing(p) == AddEventHandler(p) \/ Listen(p) \/ InsertHandler(p) \/ Subscribe(p)

Forgotten == Forget /\ UNCHANGED <<eventVars, subscriptionVars, toldVars, loopVars>>

Reported == BeginReport /\ UNCHANGED <<eventVars, subscriptionVars, toldVars, loopVars>>

Dispatch == Forgotten \/ Reported \/ QueueReport \/ StatusHandler \/ PushStatus \/ PushValue

HandleValue == TakeValue \/ EndValue \/ \E p \in Proxies : TakeSubscribers(p) \/ Notify(p)

MainLoop == InformProxies \/ CallErrorListener \/ EndErrorListener \/ HandleValue

Operate(p) == Create(p) \/ Destroy(p) \/ Subscribing(p) \/ RemoveEventHandler(p)

Next ==
  \/ \E p \in Proxies : Operate(p) \/ AddListener(p) \/ Close(p) \/ \E n \in Tags : RemoveListener(p, n)
  \/ ChangeService \/ Update \/ Dispatch \/ MainLoop

Spec == Init /\ [][Next]_vars

\* Every thread that can go on does; nobody has to start an operation.
Fairness == WF_vars(Dispatch) /\ WF_vars(MainLoop) /\ \A p \in Proxies : WF_vars(Operate(p))

FairSpec == Spec /\ Fairness

-----------------------------------------------------------------------------
Steps == {"none", "requestEvent", "register", "registerHandler", "count", "requestService", "query",
          "assign", "idle", "add", "listen", "insert", "subscribe", "remove", "close", "uncount",
          "releaseEvent", "release", "unregister", "unregisterHandler", "gone"}

Calls == [kind : {"up", "down", "status"} \cup Kinds, who : Subscribers \cup {<<>>}]

\* Every variable has its type.
TypeOK ==
  /\ pc \in [Proxies -> Steps] /\ known \in [Proxies -> BOOLEAN]
  /\ handlers \subseteq Proxies /\ services \in Nat /\ events \in Nat
  /\ {called, handlerAt, serviceAt, receiverAt, eventAt, crossed, up, grouped, wrapped, statusHandlerAt, subscribedAt} \subseteq BOOLEAN
  /\ calls \in Seq(Calls) /\ queue \in Seq(Calls) /\ dispatcher \in {"idle", "locked", "pushing"}
  /\ changes \in 0 .. MaxChanges
  /\ made \in [Proxies -> 0 .. MaxListeners]
  /\ active \in [Proxies -> SUBSET Tags] /\ fresh \in [Proxies -> SUBSET Tags]
  /\ eventHandlers \subseteq Proxies /\ allHandlers \subseteq Subscribers
  /\ pendingHandlers \in Seq(Subscribers) /\ batch \in Seq(Subscribers)
  /\ loop \in {"idle", "calling"} \cup Kinds
  /\ left \subseteq Proxies /\ current \subseteq Proxies /\ subscribers \subseteq Tags
  /\ statuses \in [Proxies -> [Tags -> Nat]] /\ losses \in [Proxies -> [Tags -> Nat]]
  /\ initials \in [Proxies -> [Tags -> Nat]] /\ heard \in [Proxies -> SUBSET Tags]

Listening(p, n) == pc[p] = "idle" /\ n \in active[p]

\* A subscription is known at every place that its status and its values pass
\* (the event handlers, the wrapper and its members, vsomeip) while it lasts,
\* whoever else subscribes and unsubscribes (removeEventHandler ends these for
\* all proxies when it takes a handler for the last one).
RegisteredWhileListening ==
  \A p \in Proxies : \A n \in Tags :
    Listening(p, n) => /\ p \in eventHandlers /\ grouped /\ statusHandlerAt /\ subscribedAt
                       /\ wrapped /\ <<p, n>> \in allHandlers

\* A subscription is told its status once, and once more for each time that
\* its service went away: the status handler takes every pending handler out
\* of the queue (popAndFrontPendingHandler), whoever subscribed when.
NoSpuriousStatus == \A p \in Proxies : \A n \in Tags : statuses[p][n] <= 1 + losses[p][n]

\* A listener is told an initial value at most once, although vsomeip sends one
\* to all of them whenever somebody subscribes (listeners_ in handleEventMessage).
InitialOnce == \A p \in Proxies : \A n \in Tags : initials[p][n] <= 1

\* vsomeip has our request of the service, and with it our message handler,
\* exactly while a proxy has counted it and is not about to make it (requestService asks vsomeip after its critical
\* section, releaseService inside).
ServiceRequested ==
  /\ serviceAt <=> services > 0 /\ \A p \in Proxies : pc[p] # "requestService"
  /\ serviceAt => receiverAt

\* When all proxies are gone, nothing of them is left in the connection, and at
\* vsomeip only the message handler (receiverAt), which releaseService does not
\* take back: the counts, maps and registrations of every operation are undone.
OnlyReceiverLeft ==
  (\A p \in Proxies : pc[p] \in {"none", "gone"}) =>
    /\ handlers = {} /\ services = 0 /\ events = 0 /\ ~handlerAt /\ ~serviceAt /\ ~eventAt
    /\ eventHandlers = {} /\ ~grouped /\ ~wrapped /\ allHandlers = {} /\ pendingHandlers = <<>>
    /\ ~statusHandlerAt /\ ~subscribedAt

Quiet == /\ calls = <<>> /\ queue = <<>> /\ dispatcher = "idle" /\ loop = "idle"
         /\ \A p \in Proxies : pc[p] \in {"none", "idle", "gone"}

\* When nothing is on its way, a proxy knows the availability that vsomeip
\* knows, and its event is requested (registerAvailabilityHandler, init and
\* requestEvent while others unregister and release), unless one of the calls
\* that come too late has undone what another proxy registered.
KnowsWhenQuiet ==
  Quiet /\ ~crossed => \A p \in Proxies : pc[p] = "idle" => known[p] = up /\ eventAt

\* When nothing is on its way, every subscription to an available service has
\* been told its status (CHANGES, v3.1.11.2: "Fixed event's errorListener was
\* not always called on subscription").
EveryoneTold ==
  Quiet /\ up => \A p \in Proxies : \A n \in Tags : Listening(p, n) => statuses[p][n] > 0

\* ... and a value (CHANGES, v3.1.10: "Initial events were not received after
\* unsubscribe and resubscribing"), unless its event was released under it.
EveryoneHears ==
  Quiet /\ up /\ ~crossed => \A p \in Proxies : \A n \in Tags : Listening(p, n) => n \in heard[p]

\* The main loop comes back from an error listener that uses proxies (the rule
\* of handleProxyReceive: "We must not hold the lock when calling the handlers!").
CallbackReturns == loop = "calling" ~> loop = "idle"

=============================================================================
