--------------------------- MODULE ConnectionCalls ---------------------------
(***************************************************************************)
(* Method calls of a CommonAPI SOME/IP connection, seen from the client:   *)
(* how Connection.cpp pairs the responses, errors, time-outs and losses of *)
(* availability with the reply handlers (asynchronous calls) and with the  *)
(* blocked threads (synchronous calls) that wait for them.                 *)
(*                                                                         *)
(* One action is one critical section of sendReceiveMutex_, or one step    *)
(* between two critical sections that another thread can observe.  The     *)
(* threads are the callers, the dispatcher threads of vsomeip, the cleanup *)
(* thread and, when a main loop is attached, the thread that runs it.      *)
(*                                                                         *)
(* The maps from session id to pending entry are represented by the set of *)
(* the calls that have an entry, key[c] being the session id of c's entry: *)
(* storing an entry replaces the entry that has the same key.              *)
(***************************************************************************)
EXTENDS Naturals, Sequences, FiniteSets

CONSTANTS
  AsyncCalls,     \* calls made with callMethodAsync, each by a thread of its own
  SyncCalls,      \* calls made with callMethodWithReply
  CallbackCalls,  \* the synchronous calls made inside a main-loop callback
  WarnCalls,      \* asynchronous calls whose timeout exceeds the warn threshold
  Dispatchers,    \* vsomeip dispatcher threads
  Loop,           \* the thread that runs the main loop
  Cleaner,        \* the cleanup thread
  MainLoop,       \* a main loop context is attached
  Services,
  ServiceOf,      \* the service instance a call goes to
  MaxSession,     \* session ids are 1 .. MaxSession and wrap around
  AnswerKinds,    \* bound: the kinds of answers the services give
  MaxChanges,     \* bound: availability and connection changes of a run
  NoCall

Calls == AsyncCalls \cup SyncCalls
Threads == AsyncCalls \cup Dispatchers \cup {Loop, Cleaner}

ASSUME CallsAssumption ==
  /\ AsyncCalls \cap SyncCalls = {}
  /\ AsyncCalls \cap (Dispatchers \cup {Loop, Cleaner}) = {}
  /\ Dispatchers \cap {Loop, Cleaner} = {}
  /\ Loop # Cleaner
  /\ CallbackCalls \subseteq SyncCalls
  /\ WarnCalls \subseteq AsyncCalls
  /\ NoCall \notin Calls
  /\ "none" \notin Services
  /\ MainLoop \in BOOLEAN
  /\ ServiceOf \in [Calls -> Services]
  /\ MaxSession \in Nat \ {0}
  /\ AnswerKinds \subseteq {"ok", "error"}
  /\ MaxChanges \in Nat

\* Response messages: the answer of the service ("ok" or "error"), the error
\* message made for a proxy that is not available, the response made on timeout.
Kinds == {"ok", "error", "unreachable", "timeout"}
Messages == [call : Calls, kind : Kinds]
NoMsg == [call |-> NoCall, kind |-> "none"]
Notices == [service : Services, up : BOOLEAN]
Statuses == {"SUCCESS", "REMOTE_ERROR", "NOT_AVAILABLE"}
Outcomes == [status : Statuses, reply : Messages \cup {NoMsg}]
Jobs == [call : AsyncCalls, outcome : Outcomes]

NoJob == [call |-> NoCall, outcome |-> "none"]
NoNotice == [service |-> "none", up |-> FALSE]

VARIABLES
  pc,             \* [Threads -> what the thread does next]
  msg,            \* [Threads -> the message it is about to queue or handle]
  job,            \* [Threads -> the reply handler it took and what it will pass]
  batch,          \* [Threads -> asyncAnswersToProcess, as a set of calls]
  notice,         \* [Threads -> the availability change it is handling]
  sync,           \* [SyncCalls -> "idle", "checked", "waiting" or "done"]
  woken,          \* synchronous calls whose wait has been notified
  syncAnswer,     \* [SyncCalls -> the response stored for it, or NoMsg]
  asyncAnswers,   \* asyncAnswers_
  asyncTimeouts,  \* asyncTimeouts_
  errorResponses, \* errorResponses_: calls whose error message has a fake session
  key,            \* [Calls -> session id, 0 when none was assigned]
  sent,           \* number of requests handed to vsomeip
  faked,          \* number of fake session ids given out
  lastSessionId,  \* lastSessionId_
  warning,        \* entries whose warnThreshold is not 0
  expired,        \* entries whose time point has passed
  armed,          \* entries the cleanup thread computed its wait time from
  notified,       \* cleanupCondition_ was notified while the cleanup thread waited
  queue,          \* the queue of the watch
  requests,       \* requests the services have not answered
  net,            \* answers on their way to the connection
  available,      \* what vsomeip's is_available says of a service
  proxyAvailable, \* the availability status of the service's proxies
  connected,      \* connectionStatus_ = ST_REGISTERED
  changes,        \* changes so far
  fell,           \* history: the services that have become unavailable
  outcome,        \* history: what each call was told
  refused,        \* history: calls whose send returned false
  overwritten     \* history: calls whose pending entry was replaced

callVars == <<key, sent, faked, lastSessionId, requests>>
syncVars == <<sync, woken, syncAnswer>>
tableVars == <<asyncAnswers, asyncTimeouts, errorResponses, overwritten>>
timerVars == <<warning, expired, armed, notified>>
envVars == <<available, connected, changes, fell>>
vars == <<pc, msg, job, batch, notice, syncVars, tableVars, callVars, timerVars,
          queue, net, envVars, proxyAvailable, outcome, refused>>

Fake(c) == key[c] > MaxSession

\* A session id, or a fake one, has been given out for the second time.
Wrapped == sent > MaxSession \/ faked > MaxSession

NextSession == (sent % MaxSession) + 1

\* Mutant: the fake session id is not shifted and may equal a real one.
UnshiftedFakeSession == (faked % MaxSession) + 1

\* The counter has the width of a session id and skips 0 as well; shifted by 16 bits it
\* exceeds every session id.
NextFakeSession == MaxSession + (faked % MaxSession) + 1

\* The session id of a response: a message made from an unsent request has none.
Session(m) == IF Fake(m.call) THEN 0 ELSE key[m.call]

\* handleProxyReceive first exchanges a missing session id for the fake one.
HasFakeSession(m) ==
  Session(m) = 0 /\ m.kind = "unreachable" /\ m.call \in errorResponses
SessionId(m) == IF HasFakeSession(m) THEN key[m.call] ELSE Session(m)

\* sendAndBlockAnswers_.find, asyncAnswers_.find and asyncTimeouts_.find
Waiting(k) == {s \in SyncCalls : sync[s] = "waiting" /\ key[s] = k}
\* Mutant: any entry instead of the session's
AnyEntry(table, k) == table
Entry(table, k) == {c \in table : key[c] = k}

\* Mutant: the error message of an unsent call is taken for an answer.
StatusOfAnyAnswer(m) ==
  IF m.kind \in {"ok", "unreachable"} THEN "SUCCESS" ELSE "REMOTE_ERROR"

StatusOf(m) ==
  CASE m.kind = "ok" -> "SUCCESS"
    [] m.kind = "unreachable" -> "NOT_AVAILABLE"
    [] OTHER -> "REMOTE_ERROR"

\* Where a thread goes on after queueing a message or calling a handler.
AfterMessage(t) ==
  CASE t = Cleaner \/ notice[t] # NoNotice -> "flush"
    [] t \in AsyncCalls -> "done"
    [] OTHER -> "idle"

-----------------------------------------------------------------------------
(* Asynchronous calls: ProxyHelper::callMethodAsync, sendMessageWithReplyAsync *)

IsAvailable(s) == proxyAvailable[s] /\ connected

\* The proxy is not available: isAvailableAsync takes the handler and decides later.
CallUnavailable(a) ==
  /\ pc[a] = "idle"
  /\ ~IsAvailable(ServiceOf[a])
  /\ pc' = [pc EXCEPT ![a] = "deferred"]
  /\ UNCHANGED <<msg, job, batch, notice, syncVars, tableVars, callVars, timerVars,
                 queue, net, envVars, proxyAvailable, outcome, refused>>

\* The proxy is available, or became so in time; it may cease to be so at any moment.
CallAvailable(a) ==
  /\ pc[a] \in {"idle", "deferred"}
  /\ IsAvailable(ServiceOf[a])
  /\ pc' = [pc EXCEPT ![a] = "send"]
  /\ UNCHANGED <<msg, job, batch, notice, syncVars, tableVars, callVars, timerVars,
                 queue, net, envVars, proxyAvailable, outcome, refused>>

\* The connection is not registered: sendMessageWithReplyAsync returns false,
\* callMethodAsync ignores it and the handler is destroyed.
SendDisconnected(a) ==
  /\ pc[a] = "send"
  /\ ~connected
  /\ refused' = refused \cup {a}
  /\ pc' = [pc EXCEPT ![a] = "done"]
  /\ UNCHANGED <<msg, job, batch, notice, syncVars, tableVars, callVars, timerVars,
                 queue, net, envVars, proxyAvailable, outcome>>

\* application_->send
Transmit(c) ==
  /\ sent' = sent + 1
  /\ key' = [key EXCEPT ![c] = NextSession]
  /\ requests' = requests \cup {c}

\* The session id equals that of the previous asynchronous call: taken for a
\* failed send although the request went out.
SendRefused(a) ==
  /\ pc[a] = "send"
  /\ connected
  /\ NextSession = lastSessionId
  /\ Transmit(a)
  /\ refused' = refused \cup {a}
  /\ pc' = [pc EXCEPT ![a] = "done"]
  /\ UNCHANGED <<msg, job, batch, notice, syncVars, tableVars, faked, lastSessionId,
                 timerVars, queue, net, envVars, proxyAvailable, outcome>>

\* asyncAnswers_[k] = the entry of c
StoreAnswer(c, k) ==
  LET replaced == Entry(asyncAnswers, k) IN
  /\ asyncAnswers' = (asyncAnswers \ replaced) \cup {c}
  /\ overwritten' = overwritten \cup replaced

\* Mutant: the entry is dropped instead of being kept for the queued response.
StoreNoTimeout(c) == UNCHANGED <<asyncTimeouts, overwritten>>

\* asyncTimeouts_[key of c] = the entry of c
StoreTimeout(c) ==
  LET replaced == Entry(asyncTimeouts, key[c]) IN
  /\ asyncTimeouts' = (asyncTimeouts \ replaced) \cup {c}
  /\ overwritten' = overwritten \cup replaced

Send(a) ==
  /\ pc[a] = "send"
  /\ connected
  /\ NextSession # lastSessionId
  /\ Transmit(a)
  /\ lastSessionId' = NextSession
  /\ StoreAnswer(a, NextSession)
  /\ warning' = IF a \in WarnCalls THEN warning \cup {a} ELSE warning
  /\ pc' = [pc EXCEPT ![a] = "notify"]
  /\ UNCHANGED <<msg, job, batch, notice, syncVars, asyncTimeouts, errorResponses,
                 faked, expired, armed, notified, queue, net, envVars, proxyAvailable,
                 outcome, refused>>

\* Mutant: cleanupCondition_ is notified without cleanupMutex_.
CleanupMutexIgnored == TRUE

\* The cleanup thread holds cleanupMutex_ except while it waits, queues or calls back.
CleanupMutexFree == pc[Cleaner] \in {"waiting", "push", "callback"}

NotifyCleanup(a) ==
  /\ pc[a] = "notify"
  /\ CleanupMutexFree
  /\ notified' = (notified \/ pc[Cleaner] = "waiting")
  /\ pc' = [pc EXCEPT ![a] = "done"]
  /\ UNCHANGED <<msg, job, batch, notice, syncVars, tableVars, callVars, warning,
                 expired, armed, queue, net, envVars, proxyAvailable, outcome, refused>>

\* proxyPushMessageToMainLoop: the proxy was not available when the time ran out, and
\* may have become so since.  The entry is stored under a fake session id and the
\* error message is received.
NotReachable(a) ==
  LET k == NextFakeSession IN
  /\ pc[a] = "deferred"
  /\ faked' = faked + 1
  /\ key' = [key EXCEPT ![a] = k]
  /\ errorResponses' = errorResponses \cup {a}
  /\ StoreAnswer(a, k)
  /\ msg' = [msg EXCEPT ![a] = [call |-> a, kind |-> "unreachable"]]
  /\ pc' = [pc EXCEPT ![a] = "receive"]
  /\ UNCHANGED <<job, batch, notice, syncVars, asyncTimeouts, sent, lastSessionId,
                 requests, timerVars, queue, net, envVars, proxyAvailable, outcome,
                 refused>>

-----------------------------------------------------------------------------
(* Synchronous calls: ProxyHelper::callMethodWithReply,                          *)
(* sendMessageWithReplyAndBlock                                                  *)

\* The callback of the main loop is in a blocking call.
InCallback == \E s \in CallbackCalls : sync[s] \in {"checked", "waiting"}

\* The proxy is available.  A call made inside a callback is made by the main loop.
Check(s) ==
  /\ sync[s] = "idle"
  /\ IsAvailable(ServiceOf[s])
  /\ s \in CallbackCalls => pc[Loop] = "callback" /\ ~InCallback
  /\ sync' = [sync EXCEPT ![s] = "checked"]
  /\ UNCHANGED <<pc, msg, job, batch, notice, woken, syncAnswer, tableVars, callVars,
                 timerVars, queue, net, envVars, proxyAvailable, outcome, refused>>

\* The call returns the stored response, or an empty message.
Return(s, m) ==
  /\ sync' = [sync EXCEPT ![s] = "done"]
  /\ woken' = woken \ {s}
  /\ syncAnswer' = [syncAnswer EXCEPT ![s] = NoMsg]
  /\ outcome' = [outcome EXCEPT ![s] = Append(@, [status |-> StatusOf(m), reply |-> m])]

BlockDisconnected(s) ==
  /\ sync[s] = "checked"
  /\ ~connected
  /\ Return(s, NoMsg)
  /\ UNCHANGED <<pc, msg, job, batch, notice, tableVars, callVars, timerVars, queue,
                 net, envVars, proxyAvailable, refused>>

\* Send the request; give up at once when another blocked call uses the session id
\* or the service is not available, and wait otherwise.
SendAndBlock(s) ==
  /\ sync[s] = "checked"
  /\ connected
  /\ Transmit(s)
  /\ IF Waiting(NextSession) # {} \/ ~available[ServiceOf[s]]
       THEN Return(s, NoMsg)
       ELSE /\ sync' = [sync EXCEPT ![s] = "waiting"]
            /\ UNCHANGED <<woken, syncAnswer, outcome>>
  /\ UNCHANGED <<pc, msg, job, batch, notice, tableVars, faked, lastSessionId, timerVars,
                 queue, net, envVars, proxyAvailable, refused>>

\* The wait ends with an answer or its time-out, or goes on when it was notified
\* for another call; an unavailable service ends it too.
\* Mutant: the time-out of the wait is not looked at.
WaitOverOnAnswer(s) == syncAnswer[s] # NoMsg \/ ~available[ServiceOf[s]]

WaitOver(s) == syncAnswer[s] # NoMsg \/ s \in expired \/ ~available[ServiceOf[s]]

EndWait(s) ==
  /\ sync[s] = "waiting"
  /\ s \in woken \cup expired
  /\ IF WaitOver(s)
       THEN Return(s, syncAnswer[s])
       ELSE /\ woken' = woken \ {s}
            /\ UNCHANGED <<sync, syncAnswer, outcome>>
  /\ UNCHANGED <<pc, msg, job, batch, notice, tableVars, callVars, timerVars, queue,
                 net, envVars, proxyAvailable, refused>>

-----------------------------------------------------------------------------
(* Connection::receive and handleProxyReceive *)

\* vsomeip hands an answer to a dispatcher thread.
Deliver(d) ==
  /\ pc[d] = "idle"
  /\ \E m \in net :
       /\ net' = net \ {m}
       /\ msg' = [msg EXCEPT ![d] = m]
  /\ pc' = [pc EXCEPT ![d] = "receive"]
  /\ UNCHANGED <<job, batch, notice, syncVars, tableVars, callVars, timerVars, queue,
                 envVars, proxyAvailable, outcome, refused>>

\* Mutant: every response is queued.
NeverSendAndBlockAnswer(m) == FALSE

IsSendAndBlockAnswer(m) == Waiting(Session(m)) # {}

\* receive: the answer of a blocked call bypasses the main loop.
Receive(t) ==
  /\ pc[t] = "receive"
  /\ pc' = [pc EXCEPT ![t] =
              IF MainLoop /\ ~IsSendAndBlockAnswer(msg[t]) THEN "push" ELSE "handle"]
  /\ UNCHANGED <<msg, job, batch, notice, syncVars, tableVars, callVars, timerVars,
                 queue, net, envVars, proxyAvailable, outcome, refused>>

\* Mutant: the message is released before its queue entry is made.
PushReleasedMessage(t) ==
  /\ pc[t] = "push"
  /\ queue' = Append(queue, NoMsg)
  /\ msg' = [msg EXCEPT ![t] = NoMsg]
  /\ pc' = [pc EXCEPT ![t] = AfterMessage(t)]
  /\ UNCHANGED <<job, batch, notice, syncVars, tableVars, callVars, timerVars, net,
                 envVars, proxyAvailable, outcome, refused>>

\* watch_->pushQueue of a message
PushMessage(t) ==
  /\ pc[t] = "push"
  /\ queue' = Append(queue, msg[t])
  /\ msg' = [msg EXCEPT ![t] = NoMsg]
  /\ pc' = [pc EXCEPT ![t] = AfterMessage(t)]
  /\ UNCHANGED <<job, batch, notice, syncVars, tableVars, callVars, timerVars, net,
                 envVars, proxyAvailable, outcome, refused>>

\* A blocked call waits for this session: store the response and wake all waits.
AnswerBlocked(t, m, k) ==
  /\ \E s \in Waiting(k) : syncAnswer' = [syncAnswer EXCEPT ![s] = m]
  /\ woken' = woken \cup {s \in SyncCalls : sync[s] = "waiting"}
  /\ pc' = [pc EXCEPT ![t] = AfterMessage(t)]
  /\ UNCHANGED <<job, asyncAnswers, asyncTimeouts>>

\* The handler leaves the map before the mutex is released and it is called.
TakeHandler(t, c, status, m) ==
  /\ job' = [job EXCEPT ![t] =
               [call |-> c, outcome |-> [status |-> status, reply |-> m]]]
  /\ pc' = [pc EXCEPT ![t] = "callback"]
  /\ UNCHANGED <<syncAnswer, woken>>

\* Mutant: the entry is not erased from asyncAnswers_.
TakeAnswerAndKeep(t, m, k) ==
  \E c \in Entry(asyncAnswers, k) :
    /\ TakeHandler(t, c, StatusOf(m), m)
    /\ UNCHANGED <<asyncAnswers, asyncTimeouts>>

TakeAnswer(t, m, k) ==
  \E c \in Entry(asyncAnswers, k) :
    /\ asyncAnswers' = asyncAnswers \ {c}
    /\ TakeHandler(t, c, StatusOf(m), m)
    /\ UNCHANGED asyncTimeouts

TakeTimeout(t, m, k) ==
  \E c \in Entry(asyncTimeouts, k) :
    /\ asyncTimeouts' = asyncTimeouts \ {c}
    /\ TakeHandler(t, c, "REMOTE_ERROR", m)
    /\ UNCHANGED asyncAnswers

\* No entry for this session: the message is dropped.
DropMessage(t) ==
  /\ pc' = [pc EXCEPT ![t] = AfterMessage(t)]
  /\ UNCHANGED <<job, syncAnswer, woken, asyncAnswers, asyncTimeouts>>

\* The lookups of handleProxyReceive, in its order.
Dispatch(t, m, k) ==
  IF Waiting(k) # {} THEN AnswerBlocked(t, m, k)
  ELSE IF Entry(asyncAnswers, k) # {} THEN TakeAnswer(t, m, k)
  ELSE IF Entry(asyncTimeouts, k) # {} THEN TakeTimeout(t, m, k)
  ELSE DropMessage(t)

Handle(t) ==
  LET m == msg[t] IN
  /\ pc[t] = "handle"
  /\ errorResponses' = IF HasFakeSession(m) THEN errorResponses \ {m.call}
                                            ELSE errorResponses
  /\ Dispatch(t, m, SessionId(m))
  /\ msg' = [msg EXCEPT ![t] = NoMsg]
  /\ UNCHANGED <<batch, notice, sync, overwritten, callVars, timerVars, queue, net,
                 envVars, proxyAvailable, outcome, refused>>

\* onMessageReply, without any mutex; a callback of the main loop may make
\* blocking calls and returns after them.
Callback(t) ==
  /\ pc[t] = "callback"
  /\ t = Loop => ~InCallback
  /\ outcome' = [outcome EXCEPT ![job[t].call] = Append(@, job[t].outcome)]
  /\ job' = [job EXCEPT ![t] = NoJob]
  /\ pc' = [pc EXCEPT ![t] = AfterMessage(t)]
  /\ UNCHANGED <<msg, batch, notice, syncVars, tableVars, callVars, timerVars, queue,
                 net, envVars, proxyAvailable, refused>>

-----------------------------------------------------------------------------
(* The main loop: DispatchSource::dispatch, one queue entry at a time *)

PopMessage ==
  /\ pc[Loop] = "idle"
  /\ queue # <<>>
  /\ Head(queue) \in Messages
  /\ msg' = [msg EXCEPT ![Loop] = Head(queue)]
  /\ queue' = Tail(queue)
  /\ pc' = [pc EXCEPT ![Loop] = "handle"]
  /\ UNCHANGED <<job, batch, notice, syncVars, tableVars, callVars, timerVars, net,
                 envVars, proxyAvailable, outcome, refused>>

PopNotice ==
  /\ pc[Loop] = "idle"
  /\ queue # <<>>
  /\ Head(queue) \in Notices
  /\ notice' = [notice EXCEPT ![Loop] = Head(queue)]
  /\ queue' = Tail(queue)
  /\ pc' = [pc EXCEPT ![Loop] = IF Head(queue).up THEN "inform" ELSE "wake"]
  /\ UNCHANGED <<msg, job, batch, syncVars, tableVars, callVars, timerVars, net,
                 envVars, proxyAvailable, outcome, refused>>

-----------------------------------------------------------------------------
(* Availability of the services: onAvailabilityChange, handleAvailabilityChange, *)
(* cancelAsyncAnswers                                                            *)

\* vsomeip changes the state of a service and calls the availability handler.
ServiceChange(d, s) ==
  /\ pc[d] = "idle"
  /\ changes < MaxChanges
  /\ changes' = changes + 1
  /\ available' = [available EXCEPT ![s] = ~@]
  /\ fell' = IF available[s] THEN fell \cup {s} ELSE fell
  /\ notice' = [notice EXCEPT ![d] = [service |-> s, up |-> ~available[s]]]
  /\ pc' = [pc EXCEPT ![d] = IF MainLoop THEN "announce"
                             ELSE IF available[s] THEN "wake" ELSE "inform"]
  /\ UNCHANGED <<msg, job, batch, syncVars, tableVars, callVars, timerVars, queue, net,
                 connected, proxyAvailable, outcome, refused>>

\* watch_->pushQueue of an availability change
PushNotice(d) ==
  /\ pc[d] = "announce"
  /\ queue' = Append(queue, notice[d])
  /\ notice' = [notice EXCEPT ![d] = NoNotice]
  /\ pc' = [pc EXCEPT ![d] = "idle"]
  /\ UNCHANGED <<msg, job, batch, syncVars, tableVars, callVars, timerVars, net,
                 envVars, proxyAvailable, outcome, refused>>

\* The service is down: wake the blocked calls ...
WakeBlocked(t) ==
  /\ pc[t] = "wake"
  /\ woken' = woken \cup {s \in SyncCalls : sync[s] = "waiting"}
  /\ pc' = [pc EXCEPT ![t] = "collect"]
  /\ UNCHANGED <<msg, job, batch, notice, sync, syncAnswer, tableVars, callVars,
                 timerVars, queue, net, envVars, proxyAvailable, outcome, refused>>

\* ... take the entries of the service out of asyncAnswers_ ...
\* Mutant: the service is not compared.
CancelledEverywhere(t) == asyncAnswers

Cancelled(t) == {c \in asyncAnswers : ServiceOf[c] = notice[t].service}

CollectCancelled(t) ==
  /\ pc[t] = "collect"
  /\ asyncAnswers' = asyncAnswers \ Cancelled(t)
  /\ batch' = [batch EXCEPT ![t] = Cancelled(t)]
  /\ pc' = [pc EXCEPT ![t] = "flush"]
  /\ UNCHANGED <<msg, job, notice, syncVars, asyncTimeouts, errorResponses, overwritten,
                 callVars, timerVars, queue, net, envVars, proxyAvailable, outcome,
                 refused>>

\* The entries are processed in the order of their session ids.
First(set) == {c \in set : \A o \in set : key[c] <= key[o]}

TimeoutResponse(c) == [call |-> c, kind |-> "timeout"]

\* ... and, with a main loop, keep each in asyncTimeouts_ for the response that
\* is queued next ...
FlushToMainLoop(t) ==
  /\ pc[t] = "flush"
  /\ MainLoop
  /\ \E c \in First(batch[t]) :
       /\ batch' = [batch EXCEPT ![t] = @ \ {c}]
       /\ StoreTimeout(c)
       /\ msg' = [msg EXCEPT ![t] = TimeoutResponse(c)]
  /\ pc' = [pc EXCEPT ![t] = "push"]
  /\ UNCHANGED <<job, notice, syncVars, asyncAnswers, errorResponses, callVars,
                 timerVars, queue, net, envVars, proxyAvailable, outcome, refused>>

\* ... or call its handler at once.
FlushDirectly(t) ==
  /\ pc[t] = "flush"
  /\ ~MainLoop
  /\ \E c \in First(batch[t]) :
       /\ batch' = [batch EXCEPT ![t] = @ \ {c}]
       /\ TakeHandler(t, c, "REMOTE_ERROR", TimeoutResponse(c))
  /\ UNCHANGED <<msg, notice, sync, tableVars, callVars, timerVars, queue, net, envVars,
                 proxyAvailable, outcome, refused>>

CancelDone(t) ==
  /\ pc[t] = "flush"
  /\ t # Cleaner
  /\ batch[t] = {}
  /\ pc' = [pc EXCEPT ![t] = "inform"]
  /\ UNCHANGED <<msg, job, batch, notice, syncVars, tableVars, callVars, timerVars,
                 queue, net, envVars, proxyAvailable, outcome, refused>>

\* The availability handlers of the proxies
InformProxies(t) ==
  /\ pc[t] = "inform"
  /\ proxyAvailable' = [proxyAvailable EXCEPT ![notice[t].service] = notice[t].up]
  /\ notice' = [notice EXCEPT ![t] = NoNotice]
  /\ pc' = [pc EXCEPT ![t] = "idle"]
  /\ UNCHANGED <<msg, job, batch, syncVars, tableVars, callVars, timerVars, queue, net,
                 envVars, outcome, refused>>

-----------------------------------------------------------------------------
(* The cleanup thread *)

\* The wait times out: take the expired entries.  An entry with a warn threshold
\* is logged and gets that much more time, which may have passed as well ("late").
CleanupTimeout ==
  LET overdue == asyncAnswers \cap expired IN
  /\ pc[Cleaner] = "waiting"
  /\ armed \cap expired # {}
  /\ \E late \in SUBSET (overdue \cap warning) :
       LET prolonged == (overdue \cap warning) \ late IN
       /\ batch' = [batch EXCEPT ![Cleaner] = overdue \ prolonged]
       /\ asyncAnswers' = asyncAnswers \ (overdue \ prolonged)
       /\ expired' = expired \ prolonged
  /\ warning' = warning \ overdue
  /\ armed' = {}
  /\ notified' = FALSE
  /\ pc' = [pc EXCEPT ![Cleaner] = "flush"]
  /\ UNCHANGED <<msg, job, notice, syncVars, asyncTimeouts, errorResponses, overwritten,
                 callVars, queue, net, envVars, proxyAvailable, outcome, refused>>

\* Compute the next wait time from the entries, still holding cleanupMutex_ ...
UpdateTimeout ==
  /\ \/ pc[Cleaner] = "waiting" /\ notified
     \/ pc[Cleaner] = "flush" /\ batch[Cleaner] = {}
  /\ armed' = asyncAnswers
  /\ notified' = FALSE
  /\ pc' = [pc EXCEPT ![Cleaner] = "armed"]
  /\ UNCHANGED <<msg, job, batch, notice, syncVars, tableVars, callVars, warning,
                 expired, queue, net, envVars, proxyAvailable, outcome, refused>>

\* ... which cleanupCondition_.wait_for releases.
WaitForTimeout ==
  /\ pc[Cleaner] = "armed"
  /\ pc' = [pc EXCEPT ![Cleaner] = "waiting"]
  /\ UNCHANGED <<msg, job, batch, notice, syncVars, tableVars, callVars, timerVars,
                 queue, net, envVars, proxyAvailable, outcome, refused>>

-----------------------------------------------------------------------------
(* The environment: services, vsomeip, the clock *)

\* A service answers a request it received, with a result or an error.
Answer(c) ==
  /\ c \in requests
  /\ available[ServiceOf[c]]
  /\ requests' = requests \ {c}
  /\ \E kind \in AnswerKinds : net' = net \cup {[call |-> c, kind |-> kind]}
  /\ UNCHANGED <<pc, msg, job, batch, notice, syncVars, tableVars, key, sent, faked,
                 lastSessionId, timerVars, queue, envVars, proxyAvailable, outcome,
                 refused>>

\* onConnectionEvent
ConnectionEvent ==
  /\ changes < MaxChanges
  /\ changes' = changes + 1
  /\ connected' = ~connected
  /\ UNCHANGED <<pc, msg, job, batch, notice, syncVars, tableVars, callVars, timerVars,
                 queue, net, available, fell, proxyAvailable, outcome, refused>>

\* The time point of an entry, or of a blocked call, passes.
Expire(c) ==
  /\ c \notin expired
  /\ \/ c \in asyncAnswers \cup armed
     \/ c \in SyncCalls /\ sync[c] = "waiting"
  /\ expired' = expired \cup {c}
  /\ UNCHANGED <<pc, msg, job, batch, notice, syncVars, tableVars, callVars, warning,
                 armed, notified, queue, net, envVars, proxyAvailable, outcome, refused>>

-----------------------------------------------------------------------------
\* Connected; the cleanup thread has locked cleanupMutex_ and is about to wait "forever".
Init ==
  /\ pc = [t \in Threads |-> IF t = Cleaner THEN "armed" ELSE "idle"]
  /\ msg = [t \in Threads |-> NoMsg]
  /\ job = [t \in Threads |-> NoJob]
  /\ batch = [t \in Threads |-> {}]
  /\ notice = [t \in Threads |-> NoNotice]
  /\ sync = [s \in SyncCalls |-> "idle"]
  /\ woken = {}
  /\ syncAnswer = [s \in SyncCalls |-> NoMsg]
  /\ asyncAnswers = {} /\ asyncTimeouts = {} /\ errorResponses = {}
  /\ key = [c \in Calls |-> 0]
  /\ sent = 0 /\ faked = 0 /\ lastSessionId = 0
  /\ warning = {} /\ expired = {} /\ armed = {} /\ notified = FALSE
  /\ queue = <<>>
  /\ requests = {} /\ net = {}
  /\ available \in [Services -> BOOLEAN]
  /\ proxyAvailable = available
  /\ connected = TRUE
  /\ changes = 0
  /\ fell = {s \in Services : ~available[s]}
  /\ outcome = [c \in Calls |-> <<>>]
  /\ refused = {} /\ overwritten = {}

CallerStep(a) ==
  \/ CallUnavailable(a) \/ CallAvailable(a) \/ NotReachable(a)
  \/ SendDisconnected(a) \/ SendRefused(a) \/ Send(a)

BlockedStep(s) == Check(s) \/ BlockDisconnected(s) \/ SendAndBlock(s) \/ EndWait(s)

\* What any thread does with a message or a handler it holds.
MessageStep(t) == Receive(t) \/ PushMessage(t) \/ Handle(t) \/ Callback(t)

CancelStep(t) ==
  WakeBlocked(t) \/ CollectCancelled(t) \/ CancelDone(t) \/ InformProxies(t)

FlushStep(t) == FlushToMainLoop(t) \/ FlushDirectly(t)

LoopStep == PopMessage \/ PopNotice
CleanupStep == CleanupTimeout \/ UpdateTimeout \/ WaitForTimeout

Environment ==
  \/ \E d \in Dispatchers, s \in Services : ServiceChange(d, s)
  \/ ConnectionEvent
  \/ \E c \in Calls : Answer(c) \/ Expire(c)

Next ==
  \/ \E a \in AsyncCalls : CallerStep(a) \/ NotifyCleanup(a)
  \/ \E s \in SyncCalls : BlockedStep(s)
  \/ \E d \in Dispatchers : Deliver(d) \/ PushNotice(d)
  \/ \E t \in Threads : MessageStep(t) \/ CancelStep(t) \/ FlushStep(t)
  \/ LoopStep
  \/ CleanupStep
  \/ Environment

\* Every thread that can go on does so, the main loop is run and time passes.
\* Nothing makes a call be made, a service answer or a state change.
Fairness ==
  /\ \A a \in AsyncCalls :
       WF_vars(SendDisconnected(a) \/ SendRefused(a) \/ Send(a) \/ NotifyCleanup(a))
  /\ \A s \in SyncCalls : WF_vars(BlockDisconnected(s) \/ SendAndBlock(s) \/ EndWait(s))
  /\ \A d \in Dispatchers : WF_vars(Deliver(d) \/ PushNotice(d))
  /\ \A t \in Threads : WF_vars(MessageStep(t) \/ CancelStep(t) \/ FlushStep(t))
  /\ WF_vars(LoopStep)
  /\ WF_vars(CleanupStep)
  /\ \A c \in Calls : WF_vars(Expire(c))

Spec == Init /\ [][Next]_vars
FairSpec == Spec /\ Fairness

-----------------------------------------------------------------------------
(* Properties *)

TypeOK ==
  /\ pc \in [Threads -> {"idle", "deferred", "send", "notify", "receive", "push", "handle",
                         "callback", "announce", "wake", "collect", "flush", "inform",
                         "waiting", "armed", "done"}]
  /\ msg \in [Threads -> Messages \cup {NoMsg}]
  /\ job \in [Threads -> Jobs \cup {NoJob}]
  /\ batch \in [Threads -> SUBSET AsyncCalls]
  /\ notice \in [Threads -> Notices \cup {NoNotice}]
  /\ sync \in [SyncCalls -> {"idle", "checked", "waiting", "done"}]
  /\ woken \subseteq SyncCalls
  /\ syncAnswer \in [SyncCalls -> Messages \cup {NoMsg}]
  /\ asyncAnswers \subseteq AsyncCalls
  /\ asyncTimeouts \subseteq AsyncCalls
  /\ errorResponses \subseteq AsyncCalls
  /\ key \in [Calls -> Nat]
  /\ sent \in Nat
  /\ faked \in Nat
  /\ lastSessionId \in 0 .. MaxSession
  /\ warning \subseteq AsyncCalls
  /\ expired \subseteq Calls
  /\ armed \subseteq AsyncCalls
  /\ notified \in BOOLEAN
  /\ queue \in Seq(Messages \cup Notices)
  /\ requests \subseteq Calls
  /\ net \subseteq Messages
  /\ available \in [Services -> BOOLEAN]
  /\ proxyAvailable \in [Services -> BOOLEAN]
  /\ connected \in BOOLEAN
  /\ changes \in 0 .. MaxChanges
  /\ outcome \in [Calls -> Seq(Outcomes)]
  /\ refused \subseteq AsyncCalls
  /\ overwritten \subseteq AsyncCalls

\* A reply handler is called, and a blocked call returns, at most once, whatever
\* answers, time-outs and cancellations race for it: each of them has to win the
\* handler under sendReceiveMutex_ before it calls it (Connection.cpp:122-161,
\* 201-212, 298-323).
AtMostOnce == \A c \in Calls : Len(outcome[c]) <= 1

Unsent == {"idle", "deferred", "send"}
Holds(t, c) == pc[t] = "callback" /\ job[t].call = c
InTable(c) == c \in asyncAnswers \cup asyncTimeouts
Held(c) == InTable(c) \/ \E t \in Threads : c \in batch[t] \/ Holds(t, c)

\* A handler lives in exactly one place until it is called: a pending map, the
\* entries a thread took out of one, or the thread that is about to call it; and
\* nobody has been told anything about its call.  The cleanup thread, cancelAsyncAnswers
\* and handleProxyReceive move it from one to another in separate critical sections
\* (Connection.cpp:122-161, 201-239, 298-340).
HandlerExclusive ==
  /\ asyncAnswers \cap asyncTimeouts = {}
  /\ \A t \in Threads : \A c \in Calls :
       /\ c \in batch[t] \/ Holds(t, c) => ~InTable(c)
       /\ ~(c \in batch[t] /\ Holds(t, c))
       /\ c \in batch[t] \/ Holds(t, c) =>
            \A u \in Threads \ {t} : c \notin batch[u] /\ ~Holds(u, c)
  /\ \A a \in AsyncCalls : Held(a) => outcome[a] = <<>>
  /\ \A a \in AsyncCalls : pc[a] \in Unsent => outcome[a] = <<>> /\ ~Held(a)
  /\ \A s \in SyncCalls : sync[s] # "done" => outcome[s] = <<>>
  /\ AtMostOnce

QueuedMessages == {queue[i] : i \in DOMAIN queue} \cap Messages

\* The handler of a call that was sent is never lost: until it is called, it is in
\* asyncAnswers_, in the hands of a thread, or in asyncTimeouts_ with the response
\* that fetches it queued or about to be (Connection.cpp:213-239, 325-340).
HandlerKept ==
  ~Wrapped => \A a \in AsyncCalls :
    pc[a] = "done" /\ ~Fake(a) /\ outcome[a] = <<>> /\ a \notin refused =>
      \/ a \in asyncAnswers
      \/ \E t \in Threads : a \in batch[t] \/ (job[t] # NoJob /\ job[t].call = a)
      \/ /\ a \in asyncTimeouts
         /\ TimeoutResponse(a) \in QueuedMessages \cup {msg[t] : t \in Threads}

\* A call succeeds with the answer to its own request, as long as the session ids
\* have not wrapped around (handleProxyReceive pairs them by session id alone).
OwnAnswer ==
  ~Wrapped => \A c \in Calls : \A i \in DOMAIN outcome[c] :
    outcome[c][i].status = "SUCCESS" => outcome[c][i].reply.call = c

\* A call fails only for a reason of its own: the service answered it with an error,
\* its time ran out, its service was unavailable or it could not be sent.  The
\* cleanup and the cancellation must pick the right entries (Connection.cpp:204-205,
\* 301-322).
CauseOfFailure ==
  ~Wrapped => \A c \in Calls : \A i \in DOMAIN outcome[c] :
    outcome[c][i].status = "REMOTE_ERROR" =>
      \/ outcome[c][i].reply = [call |-> c, kind |-> "error"]
      \/ c \in expired
      \/ ServiceOf[c] \in fell
      \/ c \in SyncCalls /\ key[c] = 0

\* "avoid blocking the mainloop when a synchronous call in a callback was done"
\* (Connection.cpp:43): the answer of a waiting call is never in the queue, behind
\* the callback that waits for it, even when the session ids have wrapped around.
NoAnswerBehindMainLoop ==
  \A s \in SyncCalls : sync[s] = "waiting" =>
    /\ \A m \in QueuedMessages : m.call # s
    /\ \A t \in Threads : pc[t] = "push" => msg[t].call # s

\* A pending entry is replaced by another call's only after the session ids wrapped:
\* the fake sessions of unsent calls never collide with real ones
\* (Connection.cpp:301-308, 582, 1307).
NoEntryReplaced == overwritten # {} => Wrapped

\* The calls are concluded as CallContract promises.
Made(c) == IF c \in AsyncCalls THEN pc[c] # "idle" ELSE sync[c] # "idle"

Stage(c) ==
  CASE Len(outcome[c]) > 1 -> "repeated"
    [] Len(outcome[c]) = 1 -> outcome[c][1].status
    [] outcome[c] = <<>> /\ c \in refused -> "refused"
    [] outcome[c] = <<>> /\ c \notin refused /\ Made(c) -> "pending"
    [] OTHER -> "unmade"

Contract == INSTANCE CallContract WITH
  stage <- [c \in Calls |-> Stage(c)],
  sentOut <- {c \in Calls : key[c] # 0 /\ ~Fake(c)}

\* Every call is concluded at most once, never after its send was refused, with
\* NOT_AVAILABLE only when it was not sent and SUCCESS only when it was: the
\* connection implements CallContract.
Promise == Contract!Spec

\* Whatever is lost or late, the caller of an asynchronous call that was sent is told
\* in the end: the cleanup thread never misses an entry (Connection.cpp:287-369,
\* 586-589).
Answered ==
  \A a \in AsyncCalls :
    (key[a] # 0 /\ ~Fake(a)) ~> (outcome[a] # <<>> \/ a \in refused \/ Wrapped)

\* A blocked call returns, also when it was made inside a main-loop callback and
\* nobody answers it (Connection.cpp:625-637).
Unblocked == \A s \in SyncCalls : sync[s] # "idle" ~> sync[s] = "done"

\* "Ensure that all async method calls done while the proxy is not available are
\* called with CAPI::CallStatus::NOT_AVAILABLE." (CHANGES, v3.1.12.6): they are told
\* something in the end (Connection.cpp:1293-1318).
UnavailableTold == \A a \in AsyncCalls : Fake(a) ~> outcome[a] # <<>>
=============================================================================
