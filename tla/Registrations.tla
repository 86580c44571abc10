---------------------------- MODULE Registrations ----------------------------
(***************************************************************************)
(* What the proxies of one service instance register at their connection,  *)
(* and the connection at vsomeip: the availability handler, the request of *)
(* the service and the request of an event.  The connection counts or      *)
(* collects what the proxies want and calls vsomeip for the first and the  *)
(* last of them.  Each proxy is created and destroyed by a thread of its   *)
(* own; a step is one critical section, or one call of vsomeip outside of  *)
(* it.                                                                     *)
(***************************************************************************)
EXTENDS Naturals, FiniteSets, Sequences, SequencesExt

CONSTANTS
  Proxies,
  MaxChanges       \* how often the service comes, goes or sends a value

ASSUME ProxiesAssumption == IsFiniteSet(Proxies)
ASSUME ChangesAssumption == MaxChanges \in Nat

VARIABLES
  pc,              \* pc[p]: what the thread of a proxy does next
  handlers,        \* availabilityHandlers_ of the instance
  services,        \* requestedServices_: the count of the instance
  events,          \* requestedEvents_: the count of the event
  called,          \* availabilityCalled_
  known,           \* known[p]: the availability that the proxy has been told
  handlerAt, serviceAt, receiverAt, eventAt,
                   \* what vsomeip has of us: the availability handler, the request of
                   \* the service, the message handler, the request of the event
  crossed,         \* a registration or a report was undone by a step that came too late
  up,              \* vsomeip's view of the service
  calls,           \* the callbacks that vsomeip will make, in order
  dispatcher,      \* the thread that makes them: "locked" holds availabilityMutex_
  queue,           \* the queue of the main loop
  changes

registrationVars == <<handlers, services, events, handlerAt, serviceAt, receiverAt, eventAt, crossed>>
proxyVars == <<pc, registrationVars>>
reportVars == <<called, known, up, calls, dispatcher, queue, changes>>

RegistrationsInit ==
  /\ pc = [p \in Proxies |-> "none"] /\ known = [p \in Proxies |-> FALSE]
  /\ handlers = {} /\ services = 0 /\ events = 0 /\ called = FALSE
  /\ handlerAt = FALSE /\ serviceAt = FALSE /\ receiverAt = FALSE /\ eventAt = FALSE
  /\ crossed = FALSE
  /\ up \in BOOLEAN /\ calls = <<>> /\ dispatcher = "idle" /\ queue = <<>> /\ changes = 0

Entry(kind, who) == [kind |-> kind, who |-> who]

Report(b) == Entry(IF b THEN "up" ELSE "down", <<>>)

AvailabilityMutexFree == dispatcher # "locked"

Step(p, from, to) == pc[p] = from /\ pc' = [pc EXCEPT ![p] = to]

-----------------------------------------------------------------------------
\* Creation: the constructor of the event, then Proxy::init

\* requestEvent
CountEvent(p) ==
  /\ Step(p, "none", IF events = 0 THEN "requestEvent" ELSE "register")
  /\ events' = events + 1
  /\ UNCHANGED <<handlers, services, handlerAt, serviceAt, receiverAt, eventAt, crossed, reportVars>>

RequestEvent(p) ==
  /\ Step(p, "requestEvent", "register")
  /\ eventAt' = TRUE
  /\ UNCHANGED <<handlers, services, events, handlerAt, serviceAt, receiverAt, crossed, reportVars>>

\* registerAvailabilityHandler
AddHandler(p) ==
  /\ AvailabilityMutexFree
  /\ Step(p, "register", IF handlers = {} THEN "registerHandler" ELSE "count")
  /\ handlers' = handlers \cup {p}
  /\ UNCHANGED <<services, events, handlerAt, serviceAt, receiverAt, eventAt, crossed, reportVars>>

\* vsomeip reports the present availability to a new handler.
RegisterHandler(p) ==
  /\ Step(p, "registerHandler", "count")
  /\ handlerAt' = TRUE /\ calls' = Append(calls, Report(up))
  /\ UNCHANGED <<handlers, services, events, serviceAt, receiverAt, eventAt, crossed,
                 called, known, up, dispatcher, queue, changes>>

\* requestService
CountService(p) ==
  /\ Step(p, "count", IF services = 0 THEN "requestService" ELSE "query")
  /\ services' = services + 1
  /\ UNCHANGED <<handlers, events, handlerAt, serviceAt, receiverAt, eventAt, crossed, reportVars>>

\* vsomeip's request_service and register_message_handler, of which the release
\* undoes only the first.
RequestService(p) ==
  /\ Step(p, "requestService", "query")
  /\ serviceAt' = TRUE /\ receiverAt' = TRUE
  /\ UNCHANGED <<handlers, services, events, handlerAt, eventAt, crossed, reportVars>>

\* Connection::isAvailable
Query(p) ==
  /\ AvailabilityMutexFree
  /\ Step(p, "query", IF called /\ up THEN "assign" ELSE "idle")
  /\ UNCHANGED <<registrationVars, reportVars>>

\* A loss since the query may have been reported already: it is overwritten.
Assign(p) ==
  /\ Step(p, "assign", "idle")
  /\ known' = [known EXCEPT ![p] = TRUE] /\ crossed' = (crossed \/ ~up)
  /\ UNCHANGED <<handlers, services, events, handlerAt, serviceAt, receiverAt, eventAt,
                 called, up, calls, dispatcher, queue, changes>>

-----------------------------------------------------------------------------
\* Destruction: the event, then Proxy::~Proxy

\* Another proxy wants it, and has registered it already.
Lost(wanted, registering) == wanted /\ \A p \in Proxies : pc[p] # registering

\* Mutant: the event itself does not release what its constructor requested.
KeepEvent(p) ==
  /\ Step(p, "uncount", "release")
  /\ UNCHANGED <<registrationVars, reportVars>>

\* releaseEvent; the count is back at 0 before vsomeip is told.
UncountEvent(p) ==
  /\ Step(p, "uncount", IF events = 1 THEN "releaseEvent" ELSE "release")
  /\ events' = events - 1
  /\ UNCHANGED <<handlers, services, handlerAt, serviceAt, receiverAt, eventAt, crossed, reportVars>>

ReleaseEvent(p) ==
  /\ Step(p, "releaseEvent", "release")
  /\ eventAt' = FALSE /\ crossed' = (crossed \/ Lost(events > 0, "requestEvent"))
  /\ UNCHANGED <<handlers, services, events, handlerAt, serviceAt, receiverAt, reportVars>>

\* Mutant: the service is released with the first proxy.
ReleaseAnyService(p) ==
  /\ Step(p, "release", "unregister")
  /\ services' = services - 1 /\ serviceAt' = FALSE
  /\ UNCHANGED <<handlers, events, handlerAt, receiverAt, eventAt, crossed, reportVars>>

\* releaseService calls vsomeip inside its critical section.
ReleaseService(p) ==
  /\ Step(p, "release", "unregister")
  /\ services' = services - 1
  /\ serviceAt' = (serviceAt /\ services # 1)
  /\ UNCHANGED <<handlers, events, handlerAt, receiverAt, eventAt, crossed, reportVars>>

\* unregisterAvailabilityHandler
RemoveHandler(p) ==
  /\ AvailabilityMutexFree
  /\ Step(p, "unregister", IF handlers = {p} THEN "unregisterHandler" ELSE "gone")
  /\ handlers' = handlers \ {p}
  /\ UNCHANGED <<services, events, handlerAt, serviceAt, receiverAt, eventAt, crossed, reportVars>>

UnregisterHandler(p) ==
  /\ Step(p, "unregisterHandler", "gone")
  /\ handlerAt' = FALSE /\ crossed' = (crossed \/ Lost(handlers # {}, "registerHandler"))
  /\ UNCHANGED <<handlers, services, events, serviceAt, receiverAt, eventAt, reportVars>>

-----------------------------------------------------------------------------
\* Availability reports

\* The service comes or goes; vsomeip tells the handler it has.
ServiceChange(more) ==
  /\ changes < MaxChanges
  /\ changes' = changes + 1 /\ up' = ~up
  /\ calls' = (IF handlerAt THEN Append(calls, Report(~up)) ELSE calls) \o more
  /\ UNCHANGED <<pc, handlers, services, events, handlerAt, serviceAt, receiverAt, eventAt, called, known, dispatcher, queue>>

\* A callback for a handler that is no longer registered is not made.
Forget ==
  /\ dispatcher = "idle" /\ calls # <<>>
  /\ Head(calls).kind \in {"up", "down"} /\ ~handlerAt
  /\ calls' = Tail(calls)
  /\ UNCHANGED <<proxyVars, called, known, up, dispatcher, queue, changes>>

\* onAvailabilityChange: up to the end of its critical section, and after it.
BeginReport ==
  /\ dispatcher = "idle" /\ calls # <<>>
  /\ Head(calls).kind \in {"up", "down"} /\ handlerAt
  /\ dispatcher' = "locked"
  /\ UNCHANGED <<proxyVars, called, known, up, calls, queue, changes>>

EndReport ==
  /\ dispatcher = "locked"
  /\ dispatcher' = "idle" /\ calls' = Tail(calls) /\ queue' = Append(queue, Head(calls))
  /\ UNCHANGED <<proxyVars, called, known, up, changes>>

\* Mutant: a loss is not passed on.
KnownAfterGain(available) == [p \in Proxies |-> known[p] \/ (p \in handlers /\ available)]

\* Every proxy that has a handler is told.
KnownAfter(available) == [p \in Proxies |-> IF p \in handlers THEN available ELSE known[p]]

\* handleAvailabilityChange, in the main loop.
HandleReport ==
  /\ queue # <<>> /\ Head(queue).kind \in {"up", "down"}
  /\ AvailabilityMutexFree
  /\ queue' = Tail(queue) /\ called' = TRUE
  /\ known' = KnownAfter(Head(queue).kind = "up")
  /\ UNCHANGED <<proxyVars, up, calls, dispatcher, changes>>

=============================================================================
