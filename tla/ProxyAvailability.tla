------------------------- MODULE ProxyAvailability -------------------------
(***************************************************************************)
(* Availability of one proxy (Proxy.cpp): how the reports of its connec-   *)
(* tion change its status, reach the listeners of its status event and     *)
(* wake blocked callers, and how the time-out thread answers the calls     *)
(* that isAvailableAsync deferred until the proxy is available.            *)
(*                                                                         *)
(* The threads are the one that delivers availability reports, the thread  *)
(* that creates the proxy, the callers of isAvailableAsync and of          *)
(* isAvailableBlocking, one thread per status listener, and the time-out   *)
(* thread.  Only the time-out thread holds availabilityTimeoutThreadMutex_ *)
(* or timeoutsMutex_, and only the reporter listenersMutex_, over several  *)
(* steps; every other critical section is one step.                        *)
(*                                                                         *)
(* A deadline is a request in "expired": the earliest deadline of a set of *)
(* requests has passed as soon as one of them has expired.                 *)
(***************************************************************************)
EXTENDS Naturals, Sequences, FiniteSets

CONSTANTS
  Requests,   \* calls of isAvailableAsync, each by a thread of its own
  Waiters,    \* threads that call isAvailableBlocking
  Listeners,  \* listeners of the proxy status event
  MaxChanges, \* bound: changes of the service or of the connection in a run
  MaxDrops,   \* bound: how many of them may be losses of the connection
  Nobody

ASSUME ProxyAssumption ==
  /\ Nobody \notin Requests
  /\ MaxChanges \in Nat
  /\ MaxDrops \in Nat

Statuses == {"UNKNOWN", "AVAILABLE", "NOT_AVAILABLE"}
Answers == {"AVAILABLE", "NOT_AVAILABLE"}

VARIABLES
  status,      \* availabilityStatus_
  creation,    \* how far Proxy::init has come
  reporter,    \* what the reporting thread does next
  listening,   \* listeners_
  subscribed,  \* subscriptions of the status event
  listener,    \* [Listeners -> how far the listener has come]
  heard,       \* [Listeners -> the last status it was told, or "UNKNOWN"]
  waiter,      \* [Waiters -> how far isAvailableBlocking has come]
  caller,      \* [Requests -> how far isAvailableAsync has come]
  timeouts,    \* timeouts_
  expired,     \* entries whose time point has passed
  thread,      \* the std::thread in availabilityTimeoutThread_, "terminated"
               \* when it was destroyed unjoined (the process has ended)
  handler,     \* what availabilityTimeoutThreadHandler does next
  timed,       \* its wait ended by time-out
  armed,       \* entries it computed its wait time from
  left,        \* entries it has not looked at in this pass
  callbacks,   \* [Requests -> the answer it is going to pass, or "none"]
  todo,        \* callbacks it has not called
  current,     \* the request whose callback is running
  told,        \* history: [Requests -> the answers passed to its callback]
  reached,     \* history: requests that were pending while it was available
  service,     \* what vsomeip's is_available says
  connected,   \* connectionStatus_ = ST_REGISTERED
  known,       \* availabilityCalled_ of the service instance
  reports,     \* availability changes on their way to the handlers
  changes, drops

eventVars == <<listening, subscribed, listener, heard>>
passVars == <<timed, armed, left, callbacks, todo, current>>
threadVars == <<thread, handler, passVars>>
deferVars == <<caller, timeouts, expired, told>>
envVars == <<service, connected, known, reports, changes, drops>>
vars == <<status, creation, reporter, eventVars, waiter, deferVars, threadVars,
          reached, envVars>>

StatusOf(up) == IF up THEN "AVAILABLE" ELSE "NOT_AVAILABLE"

\* Proxy::isAvailable
IsAvailable == connected /\ status = "AVAILABLE"

ListenersMutexFree == reporter \notin {"signalling", "telling"}
TimeoutsMutexFree == handler # "examining"
ThreadMutexFree ==
  handler \in {"off", "started", "waiting", "notified"} \/ current # Nobody

\* A proxy about to be created, or one whose deferred calls are all over.
Init ==
  /\ service \in BOOLEAN /\ known \in BOOLEAN
  /\ \/ creation = "registering" /\ thread = "none" /\ status = "UNKNOWN"
     \/ creation = "done" /\ thread = "ended" /\ status = StatusOf(service) /\ known
  /\ reporter = "idle"
  /\ listening = {} /\ subscribed = {}
  /\ listener = [l \in Listeners |-> "new"]
  /\ heard = [l \in Listeners |-> "UNKNOWN"]
  /\ waiter = [w \in Waiters |-> "new"]
  /\ caller = [r \in Requests |-> "new"]
  /\ timeouts = {} /\ expired = {} /\ armed = {} /\ left = {} /\ todo = {}
  /\ handler = "off" /\ timed = FALSE /\ current = Nobody
  /\ callbacks = [r \in Requests |-> "none"]
  /\ told = [r \in Requests |-> <<>>]
  /\ reached = {}
  /\ connected = TRUE /\ reports = <<>> /\ changes = 0 /\ drops = 0

-----------------------------------------------------------------------------
\* Proxy::init

Register ==
  /\ creation = "registering"
  /\ creation' = "querying"
  /\ reports' = IF known THEN reports ELSE Append(reports, service)
  /\ UNCHANGED status

\* Connection::isAvailable, read before the status is set
Query ==
  /\ creation = "querying"
  /\ creation' = IF connected /\ known /\ service THEN "assigning" ELSE "done"
  /\ UNCHANGED <<status, reports>>

AssignStatus ==
  /\ creation = "assigning"
  /\ creation' = "done"
  /\ status' = "AVAILABLE"
  /\ UNCHANGED reports

-----------------------------------------------------------------------------
\* Proxy::onServiceInstanceStatus, called by Connection::handleAvailabilityChange

\* A proxy that has not registered its handler is not called; a report that
\* changes nothing is ignored.
Ignores(up) == creation = "registering" \/ status = StatusOf(up)

ReportStatus ==
  /\ reporter = "idle"
  /\ reports # <<>>
  /\ reports' = Tail(reports)
  /\ known' = TRUE
  /\ IF Ignores(Head(reports))
       THEN UNCHANGED <<status, reporter>>
       ELSE /\ status' = StatusOf(Head(reports))
            /\ reporter' = "signalling"
  /\ UNCHANGED <<heard, waiter, handler>>

\* availabilityTimeoutCondition_.notify_all
WakeTimeoutThread ==
  handler' = IF handler = "waiting" THEN "notified" ELSE handler

SignalTimeoutThread ==
  /\ reporter = "signalling"
  /\ ThreadMutexFree
  /\ WakeTimeoutThread
  /\ reporter' = "telling"
  /\ UNCHANGED <<status, heard, waiter, known, reports>>

TellListeners ==
  /\ reporter = "telling"
  /\ heard' = [l \in Listeners |->
                 IF l \in listening \cap subscribed THEN status ELSE heard[l]]
  /\ reporter' = "waking"
  /\ UNCHANGED <<status, waiter, handler, known, reports>>

Blocked == {w \in Waiters : waiter[w] = "blocked"}

\* Mutant: the condition is notified when the service is lost, not when it comes.
WakeWaiterOnLoss ==
  /\ reporter = "waking"
  /\ reporter' = "idle"
  /\ IF Blocked = {} \/ status = "AVAILABLE"
       THEN UNCHANGED waiter
       ELSE \E w \in Blocked : waiter' = [waiter EXCEPT ![w] = "checking"]
  /\ UNCHANGED <<status, heard, handler, known, reports>>

\* availabilityCondition_.notify_one
WakeWaiter ==
  /\ reporter = "waking"
  /\ reporter' = "idle"
  /\ IF Blocked = {}
       THEN UNCHANGED waiter
       ELSE \E w \in Blocked : waiter' = [waiter EXCEPT ![w] = "checking"]
  /\ UNCHANGED <<status, heard, handler, known, reports>>

-----------------------------------------------------------------------------
\* Proxy::isAvailableBlocking

WaitUntilConnected(w) ==
  /\ creation = "done"
  /\ waiter[w] = "new"
  /\ connected
  /\ waiter' = [waiter EXCEPT ![w] = "checking"]

CheckStatus(w) ==
  /\ waiter[w] = "checking"
  /\ waiter' = [waiter EXCEPT ![w] =
                  IF status = "AVAILABLE" THEN "returned" ELSE "blocked"]

-----------------------------------------------------------------------------
\* The proxy status event

\* onListenerAdded: the rest is a function pushed to the main loop.
Subscribe(l) ==
  /\ creation = "done"
  /\ listener[l] = "new"
  /\ ListenersMutexFree
  /\ listener' = [listener EXCEPT ![l] = "adding"]
  /\ subscribed' = subscribed \cup {l}
  /\ UNCHANGED <<listening, heard>>

\* Mutant: the new listener is not told the present status.
EnlistOnly(l) == listening' = listening \cup {l} /\ UNCHANGED heard

Enlist(l) ==
  /\ listening' = listening \cup {l}
  /\ heard' = IF l \in subscribed /\ status # "UNKNOWN"
                THEN [heard EXCEPT ![l] = status] ELSE heard

\* Proxy::notifySpecificListener
AddListener(l) ==
  /\ listener[l] = "adding"
  /\ ListenersMutexFree
  /\ listener' = [listener EXCEPT ![l] = "added"]
  /\ Enlist(l)
  /\ UNCHANGED subscribed

\* onListenerRemoved
Unsubscribe(l) ==
  /\ l \in subscribed
  /\ ListenersMutexFree
  /\ subscribed' = subscribed \ {l}
  /\ listening' = listening \ {l}
  /\ UNCHANGED <<listener, heard>>

-----------------------------------------------------------------------------
\* Proxy::isAvailableAsync, called for a method call on an unavailable proxy

CallUnavailable(r) ==
  /\ creation = "done"
  /\ caller[r] = "new"
  /\ ~IsAvailable
  /\ caller' = [caller EXCEPT ![r] = "entering"]
  /\ UNCHANGED <<timeouts, thread, handler>>

Joinable == thread \in {"running", "ended"}

AddTimeout(r) ==
  /\ timeouts' = timeouts \cup {r}
  /\ caller' = [caller EXCEPT ![r] = "notifying"]

\* The new std::thread replaces the old one, which must not be joinable.
StartThread ==
  IF Joinable THEN thread' = "terminated" /\ UNCHANGED handler
              ELSE thread' = "running" /\ handler' = "started"

\* The first critical section of timeoutsMutex_: left to join the old thread
\* when the list is empty.
IsAvailableAsync(r) ==
  /\ caller[r] = "entering"
  /\ TimeoutsMutexFree
  /\ \/ timeouts # {} /\ AddTimeout(r) /\ UNCHANGED <<thread, handler>>
     \/ timeouts = {} /\ ~Joinable /\ AddTimeout(r) /\ StartThread
     \/ /\ timeouts = {} /\ Joinable
        /\ caller' = [caller EXCEPT ![r] = "joining"]
        /\ UNCHANGED <<timeouts, thread, handler>>

JoinThread(r) ==
  /\ caller[r] = "joining"
  /\ thread = "ended"
  /\ thread' = "joined"
  /\ caller' = [caller EXCEPT ![r] = "joined"]
  /\ UNCHANGED <<timeouts, handler>>

\* Two callers join the same thread: undefined, it may return or throw.
JoinTwice(r) ==
  /\ caller[r] = "joining"
  /\ \/ /\ thread = "joined"
        /\ caller' = [caller EXCEPT ![r] = "joined"]
     \/ /\ thread = "joined" \/ \E q \in Requests \ {r} : caller[q] = "joining"
        /\ caller' = [caller EXCEPT ![r] = "failed"]
  /\ UNCHANGED <<timeouts, thread, handler>>

\* The second critical section does not look at the list again.
RestartThread(r) ==
  /\ caller[r] = "joined"
  /\ TimeoutsMutexFree
  /\ AddTimeout(r)
  /\ StartThread

NotifyTimeoutThread(r) ==
  /\ caller[r] = "notifying"
  /\ ThreadMutexFree
  /\ WakeTimeoutThread
  /\ caller' = [caller EXCEPT ![r] = "deferred"]
  /\ UNCHANGED <<timeouts, thread>>

-----------------------------------------------------------------------------
\* Proxy::availabilityTimeoutThreadHandler

Examining(timeout) ==
  handler' = "examining" /\ timed' = timeout /\ left' = timeouts /\ armed' = {}

\* The first iteration does not wait.
BeginThread ==
  /\ handler = "started"
  /\ IF IsAvailable
       THEN Examining(FALSE)
       ELSE handler' = "looping" /\ UNCHANGED <<timed, left, armed>>
  /\ UNCHANGED <<timeouts, told, thread, callbacks, todo, current>>

WaitFor ==
  /\ handler = "looping"
  /\ handler' = "waiting"
  /\ armed' = timeouts
  /\ UNCHANGED <<timeouts, told, thread, timed, left, callbacks, todo, current>>

EndWait ==
  /\ \/ handler = "notified" /\ Examining(FALSE)
     \/ handler = "waiting" /\ armed \cap expired # {} /\ Examining(TRUE)
  /\ UNCHANGED <<timeouts, told, thread, callbacks, todo, current>>

\* Mutant: when the wait timed out, every entry has.
VerdictOnTimeout(r) ==
  IF IsAvailable THEN "AVAILABLE"
  ELSE IF timed THEN "NOT_AVAILABLE" ELSE "none"

\* Mutant: an entry that timed out is told the status as it is.
VerdictUnknown(r) ==
  IF IsAvailable \/ (timed /\ r \in expired) THEN status ELSE "none"

\* Mutant: an entry that timed out is not told anything.
VerdictNever(r) == IF IsAvailable THEN "AVAILABLE" ELSE "none"

Verdict(r) ==
  IF IsAvailable THEN "AVAILABLE"
  ELSE IF timed /\ r \in expired THEN "NOT_AVAILABLE" ELSE "none"

\* One entry of the list, whose turn comes under timeoutsMutex_
Examine(r) ==
  /\ handler = "examining"
  /\ r \in left
  /\ left' = left \ {r}
  /\ callbacks' = [callbacks EXCEPT ![r] = Verdict(r)]
  /\ todo' = IF Verdict(r) = "none" THEN todo ELSE todo \cup {r}
  /\ handler' = IF left' = {} THEN "calling" ELSE handler
  /\ UNCHANGED <<timeouts, told, thread, timed, armed, current>>

\* The callback runs without availabilityTimeoutThreadMutex_.
BeginCallback(r) ==
  /\ handler = "calling" /\ current = Nobody
  /\ r \in todo
  /\ todo' = todo \ {r}
  /\ current' = r
  /\ told' = [told EXCEPT ![r] = Append(@, callbacks[r])]
  /\ UNCHANGED <<timeouts, thread, handler, timed, armed, left, callbacks>>

EndCallback ==
  /\ current # Nobody
  /\ current' = Nobody
  /\ UNCHANGED <<timeouts, told, thread, handler, timed, armed, left, callbacks, todo>>

Handled == {r \in Requests : callbacks[r] # "none"}

\* Mutant: an entry answered while it had not expired stays in the list.
RemainingUnexpired == timeouts \ (Handled \cap expired)

Remaining == timeouts \ Handled

\* Mutant: the thread ends once it has called callbacks.
EndsAfterCallbacks == Handled # {}

Finishes == Remaining = {}

CancelThread ==
  /\ handler = "calling" /\ current = Nobody /\ todo = {}
  /\ timeouts' = Remaining
  /\ callbacks' = [r \in Requests |-> "none"]
  /\ IF Finishes
       THEN thread' = "ended" /\ handler' = "off"
       ELSE handler' = "looping" /\ UNCHANGED thread
  /\ timed' = FALSE
  /\ UNCHANGED <<told, armed, left, todo, current>>

-----------------------------------------------------------------------------
\* The clock, the service and the connection

Expire(r) ==
  /\ r \in timeouts \ expired
  /\ expired' = expired \cup {r}
  /\ UNCHANGED <<service, connected, reports, changes, drops>>

\* vsomeip reports each change of the service to the connection.
ServiceChange ==
  /\ changes < MaxChanges
  /\ changes' = changes + 1
  /\ service' = ~service
  /\ reports' = Append(reports, service')
  /\ UNCHANGED <<expired, connected, drops>>

\* Connection::onConnectionEvent
ConnectionChange ==
  /\ \/ connected /\ drops < MaxDrops /\ drops' = drops + 1
     \/ ~connected /\ UNCHANGED drops
  /\ connected' = ~connected
  /\ UNCHANGED <<expired, service, reports, changes>>

-----------------------------------------------------------------------------
\* Each thread's steps, and what none of them changes

Creator ==
  /\ Register \/ Query \/ AssignStatus
  /\ UNCHANGED <<reporter, eventVars, waiter, deferVars, threadVars,
                 service, connected, known, changes, drops>>

Reporter ==
  /\ ReportStatus \/ SignalTimeoutThread \/ TellListeners \/ WakeWaiter
  /\ UNCHANGED <<creation, listening, subscribed, listener, deferVars, thread,
                 passVars, service, connected, changes, drops>>

Waiter(w) ==
  /\ WaitUntilConnected(w) \/ CheckStatus(w)
  /\ UNCHANGED <<status, creation, reporter, eventVars, deferVars, threadVars, envVars>>

Listener(l) ==
  /\ Subscribe(l) \/ AddListener(l) \/ Unsubscribe(l)
  /\ UNCHANGED <<status, creation, reporter, waiter, deferVars, threadVars, envVars>>

Caller(r) ==
  /\ \/ CallUnavailable(r) \/ IsAvailableAsync(r) \/ JoinThread(r)
     \/ JoinTwice(r) \/ RestartThread(r) \/ NotifyTimeoutThread(r)
  /\ UNCHANGED <<status, creation, reporter, eventVars, waiter, expired, told,
                 passVars, envVars>>

TimeoutThread ==
  /\ \/ BeginThread \/ WaitFor \/ EndWait
     \/ \E r \in Requests : Examine(r) \/ BeginCallback(r)
     \/ EndCallback \/ CancelThread
  /\ UNCHANGED <<status, creation, reporter, eventVars, waiter, caller, expired, envVars>>

Environment ==
  /\ (\E r \in Requests : Expire(r)) \/ ServiceChange \/ ConnectionChange
  /\ UNCHANGED <<status, creation, reporter, eventVars, waiter, caller, timeouts,
                 told, threadVars, known>>

Step ==
  \/ Creator \/ Reporter \/ TimeoutThread \/ Environment
  \/ \E w \in Waiters : Waiter(w)
  \/ \E l \in Listeners : Listener(l)
  \/ \E r \in Requests : Caller(r)

\* The history variable follows every step.
FollowReached ==
  reached' = reached \cup IF IsAvailable' THEN timeouts' ELSE {}

Next == thread # "terminated" /\ Step /\ FollowReached

\* Threads that can go on do so, callbacks return, and deadlines pass.  The
\* callers and the waiters take finitely many steps each, so one of them cannot
\* keep another from going on.
Fairness ==
  /\ WF_vars(Next /\ Creator)
  /\ WF_vars(Next /\ Reporter)
  /\ WF_vars(Next /\ TimeoutThread)
  /\ WF_vars(Next /\ \E w \in Waiters : CheckStatus(w))
  /\ WF_vars(Next /\ \E r \in Requests : caller[r] # "new" /\ Caller(r))
  /\ WF_vars(Next /\ \E r \in Requests : Expire(r))

Spec == Init /\ [][Next]_vars
FairSpec == Spec /\ Fairness

-----------------------------------------------------------------------------
(* Properties *)

\* Every variable keeps its type.
TypeOK ==
  /\ status \in Statuses
  /\ creation \in {"registering", "querying", "assigning", "done"}
  /\ reporter \in {"idle", "signalling", "telling", "waking"}
  /\ listening \subseteq Listeners /\ subscribed \subseteq Listeners
  /\ listener \in [Listeners -> {"new", "adding", "added"}]
  /\ heard \in [Listeners -> Statuses]
  /\ waiter \in [Waiters -> {"new", "checking", "blocked", "returned"}]
  /\ caller \in [Requests -> {"new", "entering", "joining", "joined",
                              "notifying", "deferred", "failed"}]
  /\ timeouts \subseteq Requests /\ expired \subseteq Requests
  /\ thread \in {"none", "running", "ended", "joined", "terminated"}
  /\ handler \in {"off", "started", "looping", "waiting", "notified",
                  "examining", "calling"}
  /\ timed \in BOOLEAN
  /\ armed \subseteq Requests /\ left \subseteq Requests /\ todo \subseteq Requests
  /\ callbacks \in [Requests -> Answers \cup {"none"}]
  /\ current \in Requests \cup {Nobody}
  /\ told \in [Requests -> Seq(Answers \cup {"none"})]
  /\ reached \subseteq Requests
  /\ service \in BOOLEAN /\ connected \in BOOLEAN /\ known \in BOOLEAN
  /\ reports \in Seq(BOOLEAN)
  /\ changes \in 0 .. MaxChanges /\ drops \in 0 .. MaxDrops

\* A deferred call's callback runs at most once, although its entry stays in
\* the list while it runs and other entries come in meanwhile (Proxy.cpp:178,
\* 187-195).
CalledBackOnce == \A r \in Requests : Len(told[r]) <= 1

\* An entry of the list has a running thread to answer it: a thread that ends
\* leaves nothing behind, and what it is going to call and erase is still in
\* the list (Proxy.cpp:187-195, 351-382).
Attended ==
  thread # "terminated" =>
    /\ (thread = "running") <=> (timeouts # {})
    /\ (thread = "running") <=> (handler # "off")
    /\ Handled \subseteq timeouts
    /\ left \subseteq timeouts
    /\ todo \cup ({current} \ {Nobody}) \subseteq Handled

\* A deferred call is told AVAILABLE only if the proxy was available while the
\* call was pending, and NOT_AVAILABLE only after its time-out
\* (Proxy.cpp:99-126, 150-157).
CauseOfAnswer ==
  \A r \in Requests : \A i \in DOMAIN told[r] :
    \/ told[r][i] = "AVAILABLE" /\ r \in reached
    \/ told[r][i] = "NOT_AVAILABLE" /\ r \in expired

\* While no change is being handled, every listener that was added has heard of
\* the present status last: a change neither overtakes its addition nor misses
\* it (Proxy.cpp:199-215, 226-247).
ListenersUpToDate ==
  ListenersMutexFree =>
    \A l \in subscribed :
      listener[l] = "added" => l \in listening /\ heard[l] = status

\* A call that was deferred is answered at last, unless joining the old thread
\* failed (Proxy.cpp:344-390).
EventuallyAnswered ==
  []<>(\/ \A r \in Requests : caller[r] \in {"new", "failed"} \/ told[r] # <<>>
       \/ thread = "terminated")

\* When the proxy stays available, one of the blocked callers returns: the
\* status is set before the condition is notified, and checked before waiting
\* (Proxy.cpp:233-252, 336-339).
SomeWaiterReturns ==
  []<>(\/ Blocked = {}
       \/ \E w \in Waiters : waiter[w] = "returned"
       \/ status # "AVAILABLE"
       \/ thread = "terminated")

-----------------------------------------------------------------------------
(* Claims that the code does not keep *)

\* CHANGES, v3.1.12.17: a call on an unavailable proxy does not wait for its
\* complete time-out if the proxy became available in the meantime.
SentWhenAvailable ==
  (/\ handler = "waiting"
   /\ IsAvailable
   /\ reporter # "signalling"
   /\ \A r \in Requests : caller[r] # "notifying") => timeouts = {}

\* CHANGES, v3.1.11.1: no exception on thread destruction.
NoThreadDestroyed == thread # "terminated"
=============================================================================
