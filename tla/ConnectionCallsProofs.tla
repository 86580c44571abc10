------------------------ MODULE ConnectionCallsProofs ------------------------
(***************************************************************************)
(* Proofs about ConnectionCalls, for every set of calls, dispatchers and   *)
(* services, with and without a main loop: the type invariant, that a call *)
(* is concluded at most once, and that ConnectionCalls implements          *)
(* CallContract: each step of the connection makes, sends, refuses or      *)
(* concludes one call as promised, or is none of the callers' business.    *)
(***************************************************************************)
EXTENDS ConnectionCalls, TLAPS

-----------------------------------------------------------------------------
(* The type invariant is not inductive by itself: a message is queued and a   *)
(* handler called because the thread's program counter says that it has one.  *)

\* What a thread holds at each point of its program, and which points each kind of
\* thread reaches: callers never handle availability changes, the cleanup thread only
\* goes through the steps of Connection::cleanup.
Control ==
  /\ \A a \in AsyncCalls :
       /\ notice[a] = NoNotice
       /\ pc[a] \in {"idle", "deferred", "send", "notify", "receive", "push", "handle",
                     "callback", "done"}
  /\ \A t \in Dispatchers \cup {Loop} :
       pc[t] \in {"idle", "receive", "push", "handle", "callback", "announce", "wake",
                  "collect", "flush", "inform"}
  /\ pc[Cleaner] \in {"waiting", "armed", "flush", "push", "callback"}
  /\ \A t \in Threads :
       /\ pc[t] \in {"receive", "push", "handle"} => msg[t] \in Messages
       /\ pc[t] = "callback" => job[t] \in Jobs
       /\ /\ pc[t] \in {"announce", "wake", "collect", "flush", "inform"}
          /\ t # Cleaner
          => notice[t] \in Notices

TypeInv == TypeOK /\ Control

LEMMA StatusType == \A m : StatusOf(m) \in Statuses
BY DEF StatusOf, Statuses

LEMMA AfterMessageType ==
  ASSUME NEW t \in Threads
  PROVE  /\ t \in AsyncCalls /\ t # Cleaner /\ notice[t] = NoNotice => AfterMessage(t) = "done"
         /\ t = Cleaner => AfterMessage(t) = "flush"
         /\ t \notin AsyncCalls /\ t # Cleaner =>
              AfterMessage(t) = IF notice[t] # NoNotice THEN "flush" ELSE "idle"
BY CallsAssumption DEF AfterMessage

\* A fake session id exceeds every session id, whether the counter wrapped or not.
LEMMA FakeBeyond == ASSUME TypeInv PROVE NextFakeSession \in Nat /\ NextFakeSession > MaxSession
<1>1. faked \in Nat /\ MaxSession \in Nat \ {0}
  BY CallsAssumption DEF TypeInv, TypeOK
<1>2. faked % MaxSession \in Nat
  BY <1>1
<1> QED  BY <1>1, <1>2 DEF NextFakeSession

LEMMA SessionRange == NextSession \in 1 .. MaxSession \/ sent \notin Nat
BY CallsAssumption DEF NextSession

\* What TakeHandler puts into a thread's hands is a job.
LEMMA JobType ==
  ASSUME NEW c \in AsyncCalls, NEW status \in Statuses, NEW m \in Messages
  PROVE  [call |-> c, outcome |-> [status |-> status, reply |-> m]] \in Jobs
BY DEF Jobs, Outcomes

LEMMA TimeoutResponseType == \A c \in AsyncCalls : TimeoutResponse(c) \in Messages
BY DEF TimeoutResponse, Messages, Kinds, Calls

LEMMA InitType == Init => TypeInv
<1> SUFFICES ASSUME Init PROVE TypeInv
  OBVIOUS
<1> USE CallsAssumption DEF Init, Threads, Calls
<1>1. /\ pc \in [Threads -> {"idle", "armed"}]
      /\ msg \in [Threads -> {NoMsg}] /\ job \in [Threads -> {NoJob}]
      /\ batch \in [Threads -> {{}}] /\ notice \in [Threads -> {NoNotice}]
      /\ sync \in [SyncCalls -> {"idle"}] /\ syncAnswer \in [SyncCalls -> {NoMsg}]
      /\ key \in [Calls -> {0}] /\ outcome \in [Calls -> {<<>>}]
  OBVIOUS
<1>2. TypeOK
  <2>1. job \in [Threads -> Jobs \cup {NoJob}] /\ msg \in [Threads -> Messages \cup {NoMsg}]
        /\ notice \in [Threads -> Notices \cup {NoNotice}]
    BY <1>1
  <2>2. outcome \in [Calls -> Seq(Outcomes)]
    BY <1>1
  <2>3. available \in [Services -> BOOLEAN] /\ proxyAvailable \in [Services -> BOOLEAN]
    OBVIOUS
  <2>4. queue \in Seq(Messages \cup Notices)
    OBVIOUS
  <2>5. /\ pc \in [Threads -> {"idle", "deferred", "send", "notify", "receive", "push", "handle",
                             "callback", "announce", "wake", "collect", "flush", "inform",
                             "waiting", "armed", "done"}]
        /\ batch \in [Threads -> SUBSET AsyncCalls]
        /\ sync \in [SyncCalls -> {"idle", "checked", "waiting", "done"}]
        /\ syncAnswer \in [SyncCalls -> Messages \cup {NoMsg}]
        /\ key \in [Calls -> Nat]
    BY <1>1
  <2>6. sent = 0 /\ faked = 0 /\ lastSessionId = 0 /\ changes = 0
        /\ connected = TRUE /\ notified = FALSE
    OBVIOUS
  <2>7. lastSessionId \in 0 .. MaxSession /\ changes \in 0 .. MaxChanges
    BY <2>6
  <2>8. /\ woken = {} /\ asyncAnswers = {} /\ asyncTimeouts = {} /\ errorResponses = {}
        /\ warning = {} /\ expired = {} /\ armed = {} /\ requests = {} /\ net = {}
        /\ refused = {} /\ overwritten = {}
    OBVIOUS
  <2> HIDE DEF Init, Threads, Calls
  <2>9. QED BY <2>1, <2>2, <2>3, <2>4, <2>5, <2>6, <2>7, <2>8 DEF TypeOK
<1>3. Control
  BY <1>1 DEF Control
<1>4. QED BY <1>2, <1>3 DEF TypeInv

\* The steps of callMethodAsync, sendMessageWithReplyAsync and
\* proxyPushMessageToMainLoop keep the types.
LEMMA CallerType ==
  ASSUME TypeInv, NEW a \in AsyncCalls, CallerStep(a) \/ NotifyCleanup(a)
  PROVE  TypeInv'
<1> USE CallsAssumption, SessionRange
    DEF TypeInv, TypeOK, Control, Threads, Calls, Transmit, StoreAnswer, Entry,
        syncVars, tableVars, callVars, timerVars, envVars
<1>1. CASE CallUnavailable(a)
  BY <1>1 DEF CallUnavailable
<1>2. CASE CallAvailable(a)
  BY <1>2 DEF CallAvailable
<1>3. CASE SendDisconnected(a)
  BY <1>3 DEF SendDisconnected
<1>4. CASE SendRefused(a)
  BY <1>4 DEF SendRefused
<1>5. CASE Send(a)
  BY <1>5 DEF Send
<1>6. CASE NotReachable(a)
  <2>1. NextFakeSession \in Nat
    BY FakeBeyond
  <2> QED  BY <1>6, <2>1 DEF NotReachable, Messages, Kinds
<1>7. CASE NotifyCleanup(a)
  BY <1>7 DEF NotifyCleanup
<1>8. QED BY <1>1, <1>2, <1>3, <1>4, <1>5, <1>6, <1>7 DEF CallerStep

SyncType ==
  /\ sync \in [SyncCalls -> {"idle", "checked", "waiting", "done"}]
  /\ woken \subseteq SyncCalls
  /\ syncAnswer \in [SyncCalls -> Messages \cup {NoMsg}]
  /\ outcome \in [Calls -> Seq(Outcomes)]

LEMMA ReturnType ==
  ASSUME NEW s \in SyncCalls, NEW m \in Messages \cup {NoMsg}, SyncType, Return(s, m)
  PROVE  SyncType'
<1>1. [status |-> StatusOf(m), reply |-> m] \in Outcomes
  BY StatusType DEF Outcomes
<1>2. s \in Calls
  BY DEF Calls
<1>3. outcome' \in [Calls -> Seq(Outcomes)]
  BY <1>1, <1>2 DEF Return, SyncType
<1>4. QED BY <1>3 DEF Return, SyncType

\* The steps of sendMessageWithReplyAndBlock keep the types.
LEMMA BlockedType ==
  ASSUME TypeInv, NEW s \in SyncCalls, BlockedStep(s)
  PROVE  TypeInv'
<1>1. SyncType /\ syncAnswer[s] \in Messages \cup {NoMsg}
  BY DEF SyncType, TypeInv, TypeOK
<1>2. SyncType'
  <2>1. CASE BlockDisconnected(s)
    BY <1>1, <2>1, ReturnType DEF BlockDisconnected
  <2>2. CASE SendAndBlock(s) /\ Return(s, NoMsg)
    BY <1>1, <2>2, ReturnType
  <2>3. CASE SendAndBlock(s) /\ ~Return(s, NoMsg)
    BY <1>1, <2>3 DEF SendAndBlock, SyncType
  <2>4. CASE EndWait(s) /\ Return(s, syncAnswer[s])
    BY <1>1, <2>4, ReturnType
  <2>5. CASE EndWait(s) /\ ~Return(s, syncAnswer[s])
    BY <1>1, <2>5 DEF EndWait, SyncType
  <2>6. CASE Check(s)
    BY <1>1, <2>6 DEF Check, SyncType
  <2>7. QED BY <2>1, <2>2, <2>3, <2>4, <2>5, <2>6 DEF BlockedStep
<1> USE CallsAssumption, SessionRange
    DEF TypeInv, TypeOK, Control, Threads, Calls, Transmit,
        syncVars, tableVars, callVars, timerVars, envVars
<1>3. CASE BlockDisconnected(s)
  BY <1>2, <1>3 DEF BlockDisconnected, SyncType
<1>4. CASE SendAndBlock(s)
  BY <1>2, <1>4 DEF SendAndBlock, SyncType
<1>5. CASE EndWait(s)
  BY <1>2, <1>5 DEF EndWait, SyncType
<1>6. CASE Check(s)
  BY <1>6 DEF Check
<1>7. QED BY <1>3, <1>4, <1>5, <1>6 DEF BlockedStep

\* The dispatcher's and the main loop's steps that fetch or queue something.
LEMMA FetchType ==
  ASSUME TypeInv, (\E d \in Dispatchers : Deliver(d) \/ PushNotice(d)) \/ LoopStep
  PROVE  TypeInv'
<1> USE CallsAssumption
    DEF TypeInv, TypeOK, Control, Threads, Calls,
        syncVars, tableVars, callVars, timerVars, envVars
<1>1. ASSUME NEW d \in Dispatchers, Deliver(d) PROVE TypeInv'
  BY <1>1 DEF Deliver
<1>2. ASSUME NEW d \in Dispatchers, PushNotice(d) PROVE TypeInv'
  BY <1>2 DEF PushNotice
<1>3. CASE PopMessage
  BY <1>3 DEF PopMessage
<1>4. CASE PopNotice
  BY <1>4 DEF PopNotice
<1>5. QED BY <1>1, <1>2, <1>3, <1>4 DEF LoopStep

\* What receive, handleProxyReceive and the callbacks do with a message.
LEMMA MessageType ==
  ASSUME TypeInv, NEW t \in Threads, MessageStep(t)
  PROVE  TypeInv'
<1> USE CallsAssumption, AfterMessageType
    DEF TypeInv, TypeOK, Control, Threads, Calls,
        syncVars, tableVars, callVars, timerVars, envVars
<1>1. CASE Receive(t)
  BY <1>1 DEF Receive
<1>2. CASE PushMessage(t)
  BY <1>2 DEF PushMessage
<1>3. CASE Handle(t)
  <2> DEFINE m == msg[t]
             k == SessionId(m)
  <2> USE DEF Handle
  <2>1. CASE AnswerBlocked(t, m, k)
    BY <1>3, <2>1 DEF AnswerBlocked, Waiting
  <2>2. CASE TakeAnswer(t, m, k)
    <3>1. PICK c \in Entry(asyncAnswers, k) :
            /\ asyncAnswers' = asyncAnswers \ {c}
            /\ TakeHandler(t, c, StatusOf(m), m)
      BY <2>2 DEF TakeAnswer
    <3>2. [call |-> c, outcome |-> [status |-> StatusOf(m), reply |-> m]] \in Jobs
      BY <1>3, <3>1, JobType, StatusType DEF Entry
    <3>3. QED BY <1>3, <2>2, <3>1, <3>2 DEF TakeAnswer, TakeHandler
  <2>3. CASE TakeTimeout(t, m, k)
    <3>1. PICK c \in Entry(asyncTimeouts, k) :
            /\ asyncTimeouts' = asyncTimeouts \ {c}
            /\ TakeHandler(t, c, "REMOTE_ERROR", m)
      BY <2>3 DEF TakeTimeout
    <3>2. [call |-> c, outcome |-> [status |-> "REMOTE_ERROR", reply |-> m]] \in Jobs
      BY <1>3, <3>1, JobType DEF Entry, Statuses
    <3>3. QED BY <1>3, <2>3, <3>1, <3>2 DEF TakeTimeout, TakeHandler
  <2>4. CASE DropMessage(t)
    BY <1>3, <2>4 DEF DropMessage
  <2>5. QED BY <1>3, <2>1, <2>2, <2>3, <2>4 DEF Dispatch
<1>4. CASE Callback(t)
  BY <1>4 DEF Callback, Jobs
<1>5. QED BY <1>1, <1>2, <1>3, <1>4 DEF MessageStep

\* What handleAvailabilityChange and cancelAsyncAnswers do, and how the cleanup
\* thread and the cancellation pass on the entries they took.
LEMMA CancelType ==
  ASSUME TypeInv, NEW t \in Threads, CancelStep(t) \/ FlushStep(t)
  PROVE  TypeInv'
<1> USE CallsAssumption
    DEF TypeInv, TypeOK, Control, Threads, Calls,
        syncVars, tableVars, callVars, timerVars, envVars
<1>1. CASE WakeBlocked(t)
  BY <1>1 DEF WakeBlocked
<1>2. CASE CollectCancelled(t)
  BY <1>2 DEF CollectCancelled, Cancelled
<1>3. CASE CancelDone(t)
  BY <1>3 DEF CancelDone
<1>4. CASE InformProxies(t)
  BY <1>4 DEF InformProxies, Notices
<1>5. CASE FlushToMainLoop(t)
  BY <1>5, TimeoutResponseType DEF FlushToMainLoop, First, StoreTimeout, Entry
<1>6. CASE FlushDirectly(t)
  <2>1. PICK c \in First(batch[t]) :
          /\ batch' = [batch EXCEPT ![t] = @ \ {c}]
          /\ TakeHandler(t, c, "REMOTE_ERROR", TimeoutResponse(c))
    BY <1>6 DEF FlushDirectly
  <2>2. c \in AsyncCalls
    BY <2>1 DEF First
  <2>3. [call |-> c, outcome |-> [status |-> "REMOTE_ERROR",
                                  reply |-> TimeoutResponse(c)]] \in Jobs
    BY <2>2, JobType, TimeoutResponseType DEF Statuses
  <2>4. QED BY <1>6, <2>1, <2>3 DEF FlushDirectly, TakeHandler
<1>7. QED BY <1>1, <1>2, <1>3, <1>4, <1>5, <1>6 DEF CancelStep, FlushStep

\* The steps of Connection::cleanup that look at the clock.
LEMMA CleanupType ==
  ASSUME TypeInv, CleanupStep
  PROVE  TypeInv'
<1> USE CallsAssumption
    DEF TypeInv, TypeOK, Control, Threads, Calls,
        syncVars, tableVars, callVars, timerVars, envVars
<1>1. CASE CleanupTimeout
  <2>1. PICK late : \E prolonged \in SUBSET Calls :
          /\ batch' = [batch EXCEPT ![Cleaner] = (asyncAnswers \cap expired) \ prolonged]
          /\ asyncAnswers' = asyncAnswers \ ((asyncAnswers \cap expired) \ prolonged)
          /\ expired' = expired \ prolonged
    BY <1>1 DEF CleanupTimeout
  <2>2. batch' \in [Threads -> SUBSET AsyncCalls]
    BY <2>1
  <2>3. asyncAnswers' \subseteq AsyncCalls /\ expired' \subseteq Calls
    BY <2>1
  <2>4. QED BY <1>1, <2>2, <2>3 DEF CleanupTimeout
<1>2. CASE UpdateTimeout
  BY <1>2 DEF UpdateTimeout
<1>3. CASE WaitForTimeout
  BY <1>3 DEF WaitForTimeout
<1>4. QED BY <1>1, <1>2, <1>3 DEF CleanupStep

\* Services, vsomeip and the clock.
LEMMA EnvironmentType ==
  ASSUME TypeInv, Environment
  PROVE  TypeInv'
<1> USE CallsAssumption
    DEF TypeInv, TypeOK, Control, Threads, Calls,
        syncVars, tableVars, callVars, timerVars, envVars
<1>1. ASSUME NEW d \in Dispatchers, NEW s \in Services, ServiceChange(d, s)
      PROVE  TypeInv'
  BY <1>1 DEF ServiceChange, Notices
<1>2. CASE ConnectionEvent
  BY <1>2 DEF ConnectionEvent
<1>3. ASSUME NEW c \in Calls, Answer(c) PROVE TypeInv'
  <2>1. PICK kind \in AnswerKinds : net' = net \cup {[call |-> c, kind |-> kind]}
    BY <1>3 DEF Answer
  <2>2. [call |-> c, kind |-> kind] \in Messages
    BY CallsAssumption DEF Messages, Kinds
  <2>3. net' \subseteq Messages
    BY <2>1, <2>2
  <2>4. QED BY <1>3, <2>3 DEF Answer
<1>4. ASSUME NEW c \in Calls, Expire(c) PROVE TypeInv'
  BY <1>4 DEF Expire
<1>5. QED BY <1>1, <1>2, <1>3, <1>4 DEF Environment

LEMMA StutterType == TypeInv /\ UNCHANGED vars => TypeInv'
BY DEF TypeInv, TypeOK, Control, vars, syncVars, tableVars, callVars, timerVars, envVars

LEMMA NextType == TypeInv /\ [Next]_vars => TypeInv'
BY CallerType, BlockedType, FetchType, MessageType, CancelType, CleanupType,
   EnvironmentType, StutterType DEF Next

\* Every variable of the connection keeps its type, and every thread holds what its
\* next step needs: no queue entry, handler or availability change is used that was
\* not obtained (Connection.cpp:38-281, 287-369).
THEOREM TypeCorrect == Spec => []TypeInv
<1>1. Init => TypeInv
  BY InitType
<1>2. TypeInv /\ [Next]_vars => TypeInv'
  BY NextType
<1>3. QED BY <1>1, <1>2, PTL DEF Spec

THEOREM TypesOK == Spec => []TypeOK
BY TypeCorrect, PTL DEF TypeInv

-----------------------------------------------------------------------------
(* A call is concluded at most once, because its handler is in one place only *)

USE DEF Unsent

\* A step that moves no handler and concludes no call.
LEMMA QuietStep ==
  ASSUME TypeInv, HandlerExclusive,
         UNCHANGED <<asyncAnswers, asyncTimeouts, batch, job, outcome>>,
         \A t \in Threads : pc'[t] = "callback" <=> pc[t] = "callback",
         \A a \in AsyncCalls : pc'[a] \in Unsent => pc[a] \in Unsent,
         \A s \in SyncCalls : sync'[s] # "done" => sync[s] # "done"
  PROVE  HandlerExclusive'
BY DEF HandlerExclusive, Holds, InTable, Held, AtMostOnce

\* A thread takes entries out of asyncAnswers_.
LEMMA CollectStep ==
  ASSUME TypeInv, HandlerExclusive,
         NEW t \in Threads, NEW taken \in SUBSET asyncAnswers,
         asyncAnswers' = asyncAnswers \ taken,
         batch' = [batch EXCEPT ![t] = taken],
         UNCHANGED <<asyncTimeouts, job, outcome, sync>>,
         \A u \in Threads : pc'[u] = "callback" <=> pc[u] = "callback",
         \A a \in AsyncCalls : pc'[a] \in Unsent <=> pc[a] \in Unsent
  PROVE  HandlerExclusive'
BY DEF HandlerExclusive, Holds, InTable, Held, AtMostOnce, TypeInv, TypeOK

\* A thread takes a handler out of where it was and is about to call it.
LEMMA TakeStep ==
  ASSUME TypeInv, HandlerExclusive,
         NEW t \in Threads, pc[t] # "callback", pc[t] \notin Unsent,
         NEW c \in AsyncCalls, c \in batch[t] \/ InTable(c),
         asyncAnswers' = asyncAnswers \ {c},
         asyncTimeouts' = asyncTimeouts \ {c},
         batch' = [batch EXCEPT ![t] = @ \ {c}],
         job'[t].call = c,
         \A u \in Threads \ {t} : job'[u] = job[u],
         pc' = [pc EXCEPT ![t] = "callback"],
         UNCHANGED <<outcome, sync>>
  PROVE  HandlerExclusive'
BY DEF HandlerExclusive, Holds, InTable, Held, AtMostOnce, TypeInv, TypeOK

\* A thread calls the handler it took.
LEMMA CallbackStep ==
  ASSUME TypeInv, HandlerExclusive, NEW t \in Threads, Callback(t)
  PROVE  HandlerExclusive'
<1> DEFINE c == job[t].call
<1>1. c \in AsyncCalls /\ pc[t] = "callback"
  BY DEF Callback, TypeInv, Control, Jobs
<1>2. pc' = [pc EXCEPT ![t] = AfterMessage(t)] /\ AfterMessage(t) # "callback"
  BY DEF Callback, AfterMessage
<1>3. outcome' = [outcome EXCEPT ![c] = Append(outcome[c], job[t].outcome)]
  BY DEF Callback
<1>4. outcome[c] = <<>> /\ ~InTable(c) /\ (\A u \in Threads : c \notin batch[u])
  BY <1>1 DEF HandlerExclusive, Held, Holds, Calls
<1>5. \A u \in Threads \ {t} : ~Holds(u, c)
  BY <1>1 DEF HandlerExclusive, Held, Holds, Calls
<1>6. Len(outcome'[c]) <= 1
  BY <1>1, <1>3, <1>4 DEF TypeInv, TypeOK, Calls
<1>7. UNCHANGED <<asyncAnswers, asyncTimeouts, batch, sync>>
  BY DEF Callback, syncVars, tableVars
<1>8. \A o \in Calls \ {c} : outcome'[o] = outcome[o]
  BY <1>1, <1>3 DEF TypeInv, TypeOK, Calls
<1>9. \A u \in Threads, o \in Calls :
        Holds(u, o)' <=> Holds(u, o) /\ u # t
  BY <1>2 DEF Callback, Holds, TypeInv, TypeOK
<1>10. \A o \in Calls : Held(o)' => Held(o) /\ o # c
  BY <1>1, <1>4, <1>5, <1>7, <1>9 DEF Held, InTable
<1>11. \A a \in AsyncCalls : pc'[a] \in Unsent =>
         pc[a] \in Unsent
  BY <1>1, <1>2, AfterMessageType, CallsAssumption DEF TypeInv, TypeOK, Control, Threads
<1>12. \A a \in AsyncCalls : pc[a] \in Unsent => a # c
  BY <1>1 DEF HandlerExclusive, Held, Holds
<1>13. \A a \in AsyncCalls : a \notin SyncCalls
  BY CallsAssumption
<1>14. QED
  BY <1>1, <1>6, <1>7, <1>8, <1>9, <1>10, <1>11, <1>12, <1>13
     DEF HandlerExclusive, InTable, AtMostOnce, Calls

\* handleProxyReceive moves a handler from a map to the thread that calls it.
LEMMA HandleStep ==
  ASSUME TypeInv, HandlerExclusive, NEW t \in Threads, Handle(t)
  PROVE  HandlerExclusive'
<1> DEFINE m == msg[t]
           k == SessionId(m)
<1>1. /\ pc[t] = "handle" /\ UNCHANGED <<batch, outcome, sync>>
      /\ Dispatch(t, m, k)
  BY DEF Handle
<1>2. AfterMessage(t) # "callback"
      /\ (t \in AsyncCalls => AfterMessage(t) \notin Unsent)
  BY AfterMessageType, CallsAssumption DEF AfterMessage, TypeInv, Control
<1>3. ASSUME NEW c \in AsyncCalls, InTable(c), asyncAnswers' = asyncAnswers \ {c},
             asyncTimeouts' = asyncTimeouts \ {c}, NEW status \in Statuses,
             TakeHandler(t, c, status, m)
      PROVE  HandlerExclusive'
  <2>1. c \notin batch[t]
    BY <1>3 DEF HandlerExclusive, Calls
  <2>2. batch' = [batch EXCEPT ![t] = @ \ {c}]
    BY <1>1, <2>1 DEF TypeInv, TypeOK
  <2>3. job'[t].call = c /\ \A u \in Threads \ {t} : job'[u] = job[u]
    BY <1>3 DEF TakeHandler, TypeInv, TypeOK
  <2>4. QED BY <1>1, <1>3, <2>2, <2>3, TakeStep DEF TakeHandler
<1>4. CASE AnswerBlocked(t, m, k) \/ DropMessage(t)
  <2>1. UNCHANGED <<asyncAnswers, asyncTimeouts, batch, job, outcome, sync>>
        /\ pc' = [pc EXCEPT ![t] = AfterMessage(t)]
    BY <1>1, <1>4 DEF AnswerBlocked, DropMessage
  <2>2. QED BY <1>1, <1>2, <2>1, QuietStep DEF TypeInv, TypeOK
<1>5. CASE TakeAnswer(t, m, k)
  <2>1. PICK c \in Entry(asyncAnswers, k) :
          /\ asyncAnswers' = asyncAnswers \ {c}
          /\ TakeHandler(t, c, StatusOf(m), m)
          /\ UNCHANGED asyncTimeouts
    BY <1>5 DEF TakeAnswer
  <2>2. c \in asyncAnswers /\ c \in AsyncCalls /\ c \notin asyncTimeouts
    BY <2>1 DEF Entry, TypeInv, TypeOK, HandlerExclusive
  <2>3. QED BY <1>3, <2>1, <2>2, StatusType DEF InTable
<1>6. CASE TakeTimeout(t, m, k)
  <2>1. PICK c \in Entry(asyncTimeouts, k) :
          /\ asyncTimeouts' = asyncTimeouts \ {c}
          /\ TakeHandler(t, c, "REMOTE_ERROR", m)
          /\ UNCHANGED asyncAnswers
    BY <1>6 DEF TakeTimeout
  <2>2. c \in asyncTimeouts /\ c \in AsyncCalls /\ c \notin asyncAnswers
    BY <2>1 DEF Entry, TypeInv, TypeOK, HandlerExclusive
  <2>3. QED BY <1>3, <2>1, <2>2 DEF InTable, Statuses
<1>7. QED BY <1>1, <1>4, <1>5, <1>6 DEF Dispatch

\* An asynchronous call is made: its handler enters asyncAnswers_, from the caller.
LEMMA CallerOnce ==
  ASSUME TypeInv, HandlerExclusive, NEW a \in AsyncCalls, CallerStep(a) \/ NotifyCleanup(a)
  PROVE  HandlerExclusive'
<1>1. ASSUME pc[a] \in Unsent, NEW k, StoreAnswer(a, k),
             UNCHANGED <<asyncTimeouts, batch, job, outcome, sync>>,
             NEW next \in {"notify", "receive"}, pc' = [pc EXCEPT ![a] = next]
      PROVE  HandlerExclusive'
  <2>1. outcome[a] = <<>> /\ ~Held(a)
    BY <1>1 DEF HandlerExclusive
  <2>2. a \in asyncAnswers' /\ asyncAnswers' \subseteq asyncAnswers \cup {a}
    BY <1>1 DEF StoreAnswer
  <2>3. QED BY <1>1, <2>1, <2>2, CallsAssumption
            DEF HandlerExclusive, Holds, InTable, Held, AtMostOnce, TypeInv, TypeOK, Threads
<1>2. CASE Send(a)
  BY <1>1, <1>2 DEF Send, syncVars
<1>3. CASE NotReachable(a)
  BY <1>1, <1>3 DEF NotReachable, syncVars
<1>4. CASE CallUnavailable(a) \/ CallAvailable(a)
  <2>1. PICK next \in {"deferred", "send"} :
          pc' = [pc EXCEPT ![a] = next] /\ pc[a] \in {"idle", "deferred"}
    BY <1>4 DEF CallUnavailable, CallAvailable
  <2>2. UNCHANGED <<asyncAnswers, asyncTimeouts, batch, job, outcome, sync>>
    BY <1>4 DEF CallUnavailable, CallAvailable, syncVars, tableVars
  <2>3. QED BY <2>1, <2>2, QuietStep DEF TypeInv, TypeOK
<1>5. CASE SendDisconnected(a) \/ SendRefused(a) \/ NotifyCleanup(a)
  <2>1. /\ UNCHANGED <<asyncAnswers, asyncTimeouts, batch, job, outcome, sync>>
        /\ pc[a] # "callback" /\ pc' = [pc EXCEPT ![a] = "done"]
    BY <1>5 DEF SendDisconnected, SendRefused, NotifyCleanup, syncVars, tableVars
  <2>2. QED BY <2>1, QuietStep DEF TypeInv, TypeOK
<1>6. QED BY <1>2, <1>3, <1>4, <1>5 DEF CallerStep

\* A blocked call returns once.
LEMMA BlockedOnce ==
  ASSUME TypeInv, HandlerExclusive, NEW s \in SyncCalls, BlockedStep(s)
  PROVE  HandlerExclusive'
<1>1. UNCHANGED <<asyncAnswers, asyncTimeouts, batch, job, pc>> /\ sync[s] # "done"
  BY DEF BlockedStep, Check, BlockDisconnected, SendAndBlock, EndWait, tableVars
<1>2. ASSUME NEW m, Return(s, m) PROVE HandlerExclusive'
  <2>1. outcome[s] = <<>> /\ s \in Calls /\ s \notin AsyncCalls
    BY <1>1, CallsAssumption DEF HandlerExclusive, Calls
  <2>2. Len(outcome'[s]) <= 1 /\ \A c \in Calls \ {s} : outcome'[c] = outcome[c]
    BY <1>2, <2>1 DEF Return, TypeInv, TypeOK
  <2>3. sync' = [sync EXCEPT ![s] = "done"]
    BY <1>2 DEF Return
  <2>4. \A t \in Threads, c \in Calls :
          (Holds(t, c)' <=> Holds(t, c)) /\ (InTable(c)' <=> InTable(c))
    BY <1>1 DEF Holds, InTable
  <2>5. \A a \in AsyncCalls : a \in Calls /\ a # s
    BY CallsAssumption DEF Calls
  <2>6. \A o \in SyncCalls : sync'[o] # "done" => sync[o] # "done" /\ o # s /\ o \in Calls
    BY <2>3 DEF TypeInv, TypeOK, Calls
  <2>7. AtMostOnce'
    BY <2>1, <2>2 DEF HandlerExclusive, AtMostOnce
  <2>8. \A a \in AsyncCalls : Held(a)' <=> Held(a)
    BY <1>1 DEF Held, Holds, InTable
  <2>9. QED BY <1>1, <2>2, <2>4, <2>5, <2>6, <2>7, <2>8 DEF HandlerExclusive
<1>3. ASSUME UNCHANGED outcome, \A o \in SyncCalls : sync'[o] # "done" => sync[o] # "done"
      PROVE  HandlerExclusive'
  BY <1>1, <1>3, QuietStep
<1>4. CASE BlockDisconnected(s)
  BY <1>2, <1>4 DEF BlockDisconnected
<1>5. CASE SendAndBlock(s)
  <2>1. Return(s, NoMsg) \/ (sync' = [sync EXCEPT ![s] = "waiting"] /\ UNCHANGED outcome)
    BY <1>5 DEF SendAndBlock
  <2>2. QED BY <1>1, <1>2, <1>3, <2>1 DEF TypeInv, TypeOK
<1>6. CASE EndWait(s)
  BY <1>2, <1>3, <1>6 DEF EndWait
<1>7. CASE Check(s)
  <2>1. sync' = [sync EXCEPT ![s] = "checked"] /\ UNCHANGED outcome
    BY <1>7 DEF Check
  <2>2. QED BY <1>1, <1>3, <2>1 DEF TypeInv, TypeOK
<1>8. QED BY <1>4, <1>5, <1>6, <1>7 DEF BlockedStep

\* The cancellation and the cleanup thread take entries out of asyncAnswers_ and pass
\* each on, to asyncTimeouts_ or to the thread that calls its handler.
LEMMA CancelOnce ==
  ASSUME TypeInv, HandlerExclusive, NEW t \in Threads, CancelStep(t) \/ FlushStep(t)
  PROVE  HandlerExclusive'
<1>1. CASE WakeBlocked(t) \/ CancelDone(t) \/ InformProxies(t)
  <2>1. PICK next \in {"collect", "inform", "idle"} :
          /\ pc' = [pc EXCEPT ![t] = next]
          /\ t \notin AsyncCalls \/ next # "idle"
          /\ pc[t] # "callback"
    BY <1>1, CallsAssumption
       DEF WakeBlocked, CancelDone, InformProxies, TypeInv, Control, Threads
  <2>2. UNCHANGED <<asyncAnswers, asyncTimeouts, batch, job, outcome, sync>>
    BY <1>1 DEF WakeBlocked, CancelDone, InformProxies, syncVars, tableVars
  <2>3. QED BY <2>1, <2>2, QuietStep DEF TypeInv, TypeOK
<1>2. CASE CollectCancelled(t)
  <2>1. /\ pc[t] = "collect" /\ pc' = [pc EXCEPT ![t] = "flush"]
        /\ UNCHANGED <<asyncTimeouts, job, outcome, sync>>
    BY <1>2 DEF CollectCancelled, syncVars
  <2>2. Cancelled(t) \in SUBSET asyncAnswers
    BY DEF Cancelled
  <2>3. /\ asyncAnswers' = asyncAnswers \ Cancelled(t)
        /\ batch' = [batch EXCEPT ![t] = Cancelled(t)]
    BY <1>2 DEF CollectCancelled
  <2>4. /\ \A u \in Threads : pc'[u] = "callback" <=> pc[u] = "callback"
        /\ \A a \in AsyncCalls : pc'[a] \in Unsent <=> pc[a] \in Unsent
    BY <2>1 DEF TypeInv, TypeOK, Threads
  <2>5. QED BY <2>1, <2>2, <2>3, <2>4, CollectStep
<1>3. CASE FlushToMainLoop(t)
  <2>1. PICK c \in First(batch[t]) :
          batch' = [batch EXCEPT ![t] = @ \ {c}] /\ StoreTimeout(c)
    BY <1>3 DEF FlushToMainLoop
  <2>2. c \in batch[t] /\ c \in AsyncCalls
    BY <2>1 DEF First, TypeInv, TypeOK
  <2>3. c \in asyncTimeouts' /\ asyncTimeouts' \subseteq asyncTimeouts \cup {c}
    BY <2>1 DEF StoreTimeout
  <2>4. /\ UNCHANGED <<asyncAnswers, job, outcome, sync>>
        /\ pc[t] = "flush" /\ pc' = [pc EXCEPT ![t] = "push"]
    BY <1>3 DEF FlushToMainLoop, syncVars
  <2>5. \A u \in Threads, o \in Calls :
          /\ Holds(u, o)' <=> Holds(u, o)
          /\ o \in batch'[u] <=> o \in batch[u] /\ ~(u = t /\ o = c)
    BY <2>1, <2>4 DEF Holds, TypeInv, TypeOK
  <2>6. c \in Calls /\ ~InTable(c) /\ \A u \in Threads : c \notin batch'[u] /\ ~Holds(u, c)
    BY <2>2, <2>5 DEF HandlerExclusive, Calls
  <2>7. \A o \in Calls : InTable(o)' => InTable(o) \/ o = c
    BY <2>3, <2>4 DEF InTable
  <2>8. \A a \in AsyncCalls : Held(a)' => Held(a) /\ a \in Calls
    BY <2>2, <2>5, <2>7 DEF Held, Calls
  <2>9. \A a \in AsyncCalls : pc'[a] \in Unsent => pc[a] \in Unsent
    BY <2>4 DEF TypeInv, TypeOK
  <2>10. asyncAnswers' \cap asyncTimeouts' = {}
    BY <2>3, <2>4, <2>6 DEF HandlerExclusive, InTable
  <2>11. \A u \in Threads, o \in Calls : o \in batch'[u] \/ Holds(u, o)' => o # c
    BY <2>5, <2>6
  <2>12. QED BY <2>4, <2>5, <2>7, <2>8, <2>9, <2>10, <2>11 DEF HandlerExclusive, AtMostOnce
<1>4. CASE FlushDirectly(t)
  <2>1. PICK c \in First(batch[t]) :
          /\ batch' = [batch EXCEPT ![t] = @ \ {c}]
          /\ TakeHandler(t, c, "REMOTE_ERROR", TimeoutResponse(c))
    BY <1>4 DEF FlushDirectly
  <2>2. c \in batch[t] /\ c \in AsyncCalls
    BY <2>1 DEF First, TypeInv, TypeOK
  <2>3. pc[t] = "flush" /\ UNCHANGED <<asyncAnswers, asyncTimeouts, outcome, sync>>
    BY <1>4 DEF FlushDirectly, tableVars
  <2>4. asyncAnswers' = asyncAnswers \ {c} /\ asyncTimeouts' = asyncTimeouts \ {c}
    BY <2>2, <2>3 DEF HandlerExclusive, InTable, Calls
  <2>5. job'[t].call = c /\ \A u \in Threads \ {t} : job'[u] = job[u]
    BY <2>1 DEF TakeHandler, TypeInv, TypeOK
  <2>6. QED BY <2>1, <2>2, <2>3, <2>4, <2>5, TakeStep DEF TakeHandler
<1>5. QED BY <1>1, <1>2, <1>3, <1>4 DEF CancelStep, FlushStep

LEMMA CleanupOnce ==
  ASSUME TypeInv, HandlerExclusive, CleanupStep
  PROVE  HandlerExclusive'
<1>1. CASE CleanupTimeout
  <2>1. PICK late \in SUBSET ((asyncAnswers \cap expired) \cap warning) :
          LET taken == (asyncAnswers \cap expired)
                         \ (((asyncAnswers \cap expired) \cap warning) \ late)
          IN  /\ batch' = [batch EXCEPT ![Cleaner] = taken]
              /\ asyncAnswers' = asyncAnswers \ taken
    BY <1>1 DEF CleanupTimeout
  <2>2. /\ pc[Cleaner] = "waiting" /\ pc' = [pc EXCEPT ![Cleaner] = "flush"]
        /\ UNCHANGED <<asyncTimeouts, job, outcome, sync>>
    BY <1>1 DEF CleanupTimeout, syncVars
  <2>3. Cleaner \in Threads
    BY DEF Threads
  <2>4. /\ \A u \in Threads : pc'[u] = "callback" <=> pc[u] = "callback"
        /\ \A a \in AsyncCalls : pc'[a] \in Unsent <=> pc[a] \in Unsent
    BY <2>2 DEF TypeInv, TypeOK, Threads
  <2>5. QED BY <2>1, <2>2, <2>3, <2>4, CollectStep
<1>2. CASE UpdateTimeout \/ WaitForTimeout
  <2>1. PICK next \in {"armed", "waiting"} :
          pc' = [pc EXCEPT ![Cleaner] = next] /\ pc[Cleaner] # "callback"
    BY <1>2 DEF UpdateTimeout, WaitForTimeout
  <2>2. UNCHANGED <<asyncAnswers, asyncTimeouts, batch, job, outcome, sync>>
    BY <1>2 DEF UpdateTimeout, WaitForTimeout, syncVars, tableVars
  <2>3. QED BY <2>1, <2>2, QuietStep DEF TypeInv, TypeOK
<1>3. QED BY <1>1, <1>2 DEF CleanupStep

\* The other steps neither move a handler nor call one.
LEMMA OtherOnce ==
  ASSUME TypeInv, HandlerExclusive,
         \/ \E d \in Dispatchers : Deliver(d) \/ PushNotice(d)
         \/ \E t \in Threads : Receive(t) \/ PushMessage(t)
         \/ LoopStep
         \/ Environment
  PROVE  HandlerExclusive'
<1> USE CallsAssumption
<1>1. ASSUME NEW t \in Threads, NEW next, pc' = [pc EXCEPT ![t] = next],
             pc[t] # "callback", next # "callback",
             t \in AsyncCalls => next \notin Unsent,
             UNCHANGED <<asyncAnswers, asyncTimeouts, batch, job, outcome, sync>>
      PROVE  HandlerExclusive'
  BY <1>1, QuietStep DEF TypeInv, TypeOK
<1>2. ASSUME NEW d \in Dispatchers, Deliver(d) \/ PushNotice(d) PROVE HandlerExclusive'
  BY <1>1, <1>2 DEF Deliver, PushNotice, Threads, syncVars, tableVars
<1>3. ASSUME NEW t \in Threads, Receive(t) PROVE HandlerExclusive'
  BY <1>1, <1>3 DEF Receive, syncVars, tableVars
<1>4. ASSUME NEW t \in Threads, PushMessage(t) PROVE HandlerExclusive'
  <2>1. AfterMessage(t) # "callback"
        /\ (t \in AsyncCalls => AfterMessage(t) \notin Unsent)
    BY AfterMessageType DEF AfterMessage, TypeInv, Control
  <2>2. QED BY <1>1, <1>4, <2>1 DEF PushMessage, syncVars, tableVars
<1>5. CASE LoopStep
  <2>1. Loop \in Threads /\ Loop \notin AsyncCalls
    BY DEF Threads
  <2>2. QED BY <1>1, <1>5, <2>1 DEF LoopStep, PopMessage, PopNotice, syncVars, tableVars
<1>6. CASE Environment
  <2>1. ASSUME NEW d \in Dispatchers, NEW s \in Services, ServiceChange(d, s)
        PROVE  HandlerExclusive'
    BY <1>1, <2>1 DEF ServiceChange, Threads, syncVars, tableVars
  <2>2. ASSUME UNCHANGED <<pc, asyncAnswers, asyncTimeouts, batch, job, outcome, sync>>
        PROVE  HandlerExclusive'
    BY <2>2, QuietStep
  <2>3. QED BY <1>6, <2>1, <2>2 DEF Environment, ConnectionEvent, Answer, Expire, syncVars,
                                    tableVars
<1>7. QED BY <1>2, <1>3, <1>4, <1>5, <1>6

LEMMA InitExclusive == Init => HandlerExclusive
<1> SUFFICES ASSUME Init PROVE HandlerExclusive
  OBVIOUS
<1>1. /\ \A t \in Threads : batch[t] = {} /\ pc[t] # "callback"
      /\ asyncAnswers = {} /\ asyncTimeouts = {}
      /\ \A c \in Calls : outcome[c] = <<>>
  BY DEF Init
<1>2. \A a \in AsyncCalls : ~Held(a) /\ outcome[a] = <<>>
  BY <1>1 DEF Held, Holds, InTable, Calls
<1>3. \A s \in SyncCalls : outcome[s] = <<>>
  BY <1>1 DEF Calls
<1>4. AtMostOnce
  BY <1>1 DEF AtMostOnce
<1>5. QED BY <1>1, <1>2, <1>3, <1>4 DEF HandlerExclusive, Holds

LEMMA StutterOnce == HandlerExclusive /\ UNCHANGED vars => HandlerExclusive'
BY DEF HandlerExclusive, Holds, InTable, Held, AtMostOnce, vars, syncVars, tableVars

LEMMA NextExclusive == TypeInv /\ HandlerExclusive /\ [Next]_vars => HandlerExclusive'
BY CallerOnce, BlockedOnce, HandleStep, CallbackStep, CancelOnce, CleanupOnce, OtherOnce,
   StutterOnce DEF Next, MessageStep

\* The handler of an asynchronous call is in one place only: asyncAnswers_,
\* asyncTimeouts_, the entries one thread took, or one thread about to call it,
\* whatever the sessions, answers, time-outs and cancellations.
THEOREM HandlersExclusive == Spec => []HandlerExclusive
<1>1. Init => HandlerExclusive
  BY InitExclusive
<1>2. TypeInv /\ HandlerExclusive /\ [Next]_vars => HandlerExclusive'
  BY NextExclusive
<1>3. QED BY <1>1, <1>2, TypeCorrect, PTL DEF Spec

\* No reply handler is called twice and no blocked call returns twice.
THEOREM CalledAtMostOnce == Spec => []AtMostOnce
<1>1. HandlerExclusive => AtMostOnce
  BY DEF HandlerExclusive
<1>2. QED BY <1>1, HandlersExclusive, PTL

-----------------------------------------------------------------------------
(* ConnectionCalls implements CallContract.                                *)

(* What a call's session id says about it: it has none until it is sent or *)
(* given up, an entry has one, and a blocked call waits for a real one.    *)
Keys ==
  /\ \A a \in AsyncCalls :
       /\ pc[a] \in Unsent => key[a] = 0 /\ a \notin refused
       /\ Held(a) => key[a] # 0 /\ a \notin refused
  /\ \A s \in SyncCalls :
       /\ sync[s] \in {"idle", "checked"} => key[s] = 0
       /\ sync[s] = "waiting" => key[s] # 0 /\ ~Fake(s)

(* An error message is made for a call with a fake session, whoever has it *)
(* now, and no blocked call is given one.                                  *)
ErrorMessages ==
  /\ \A t \in Threads : msg[t].kind = "unreachable" => Fake(msg[t].call)
  /\ \A i \in DOMAIN queue :
       queue[i] \in Messages /\ queue[i].kind = "unreachable" => Fake(queue[i].call)
  /\ \A m \in net : m.kind # "unreachable"
  /\ \A s \in SyncCalls : syncAnswer[s].kind # "unreachable"

(* What a thread is about to tell a caller is true.                        *)
Told(j) ==
  /\ j.outcome.status = "SUCCESS" => ~Fake(j.call)
  /\ j.outcome.status = "NOT_AVAILABLE" => Fake(j.call)

JobsTrue == \A t \in Threads : pc[t] = "callback" => Told(job[t])

ContractInv == Keys /\ ErrorMessages /\ JobsTrue

-----------------------------------------------------------------------------
(* The stages of the calls.                                                *)

Stages == [c \in Calls |-> Stage(c)]
SentOut == {c \in Calls : key[c] # 0 /\ ~Fake(c)}

LEMMA StageKept ==
  ASSUME NEW c \in Calls, outcome'[c] = outcome[c], c \in refused' <=> c \in refused,
         Made(c)' <=> Made(c)
  PROVE  Stage(c)' = Stage(c)
BY DEF Stage

LEMMA StageIsPending ==
  ASSUME NEW c \in Calls, outcome[c] = <<>>, c \notin refused, Made(c)
  PROVE  Stage(c) = "pending"
BY DEF Stage

LEMMA StageIsUnmade ==
  ASSUME NEW c \in Calls, outcome[c] = <<>>, c \notin refused, ~Made(c)
  PROVE  Stage(c) = "unmade"
BY DEF Stage

LEMMA StageIsRefused ==
  ASSUME NEW c \in Calls, outcome[c] = <<>>, c \in refused
  PROVE  Stage(c) = "refused"
BY DEF Stage

LEMMA StageIsTold ==
  ASSUME NEW c \in Calls, NEW o, outcome[c] = <<o>>
  PROVE  Stage(c) = o.status
<1>1. Len(outcome[c]) = 1 /\ outcome[c][1] = o /\ outcome[c] # <<>>
  OBVIOUS
<1> QED  BY <1>1 DEF Stage

\* A step in which no caller is told anything, makes a call or is refused.
LEMMA StutterContract ==
  ASSUME UNCHANGED <<key, refused, outcome>>, \A c \in Calls : Made(c)' <=> Made(c)
  PROVE  UNCHANGED Contract!vars
<1>1. Stages' = Stages
  BY StageKept DEF Stages
<1>2. SentOut' = SentOut
  BY DEF SentOut, Fake
<1> QED  BY <1>1, <1>2 DEF Contract!vars, Stages, SentOut

\* The stage of one call changes.
LEMMA OneStage ==
  ASSUME NEW c \in Calls, NEW s, Stage(c)' = s, \A o \in Calls \ {c} : Stage(o)' = Stage(o)
  PROVE  Stages' = [Stages EXCEPT ![c] = s]
BY DEF Stages

-----------------------------------------------------------------------------
(* What leaves the invariant alone.                                        *)

LEMMA KeysKept ==
  ASSUME Keys, UNCHANGED <<key, refused>>,
         \A a \in AsyncCalls : (pc'[a] \in Unsent => pc[a] \in Unsent) /\ (Held(a)' => Held(a)),
         \A s \in SyncCalls : /\ sync'[s] \in {"idle", "checked"} => sync[s] \in {"idle", "checked"}
                              /\ sync'[s] = "waiting" => sync[s] = "waiting"
  PROVE  Keys'
BY DEF Keys, Fake

LEMMA JobsKept ==
  ASSUME JobsTrue, UNCHANGED key,
         \A t \in Threads : pc'[t] = "callback" => pc[t] = "callback" /\ job'[t] = job[t]
  PROVE  JobsTrue'
BY DEF JobsTrue, Told, Fake

\* c has a fake session after the step.
FakeAfter(c) == key'[c] > MaxSession

LEMMA MessagesKept ==
  ASSUME TypeInv, ErrorMessages,
         \A c \in Calls : Fake(c) => FakeAfter(c),
         \A t \in Threads : msg'[t] = msg[t] \/ msg'[t].kind # "unreachable" \/ FakeAfter(msg'[t].call),
         \/ queue' = queue
         \/ queue # <<>> /\ queue' = Tail(queue)
         \/ \E e \in Messages \cup Notices :
              queue' = Append(queue, e) /\ (e \in Messages /\ e.kind = "unreachable" => FakeAfter(e.call)),
         \A m \in net' : m \in net \/ m.kind # "unreachable",
         \A s \in SyncCalls : syncAnswer'[s] = syncAnswer[s] \/ syncAnswer'[s].kind # "unreachable"
  PROVE  ErrorMessages'
<1> USE DEF ErrorMessages
<1>1. \A t \in Threads : msg'[t].kind = "unreachable" => FakeAfter(msg'[t].call)
  <2>1. SUFFICES ASSUME NEW t \in Threads, msg'[t].kind = "unreachable", msg'[t] = msg[t]
                 PROVE  FakeAfter(msg'[t].call)
    OBVIOUS
  <2>2. msg[t] \in Messages \cup {NoMsg}
    BY DEF TypeInv, TypeOK
  <2>3. msg[t] \in Messages
    BY <2>1, <2>2 DEF NoMsg
  <2>4. msg[t].call \in Calls /\ Fake(msg[t].call)
    BY <2>1, <2>3 DEF Messages
  <2> QED  BY <2>1, <2>4
<1>2. \A i \in DOMAIN queue' :
        queue'[i] \in Messages /\ queue'[i].kind = "unreachable" => FakeAfter(queue'[i].call)
  <2>1. queue \in Seq(Messages \cup Notices)
    BY DEF TypeInv, TypeOK
  <2>2. \A i \in DOMAIN queue :
          queue[i] \in Messages /\ queue[i].kind = "unreachable" => FakeAfter(queue[i].call)
    BY DEF Messages
  <2>3. CASE queue' = queue
    BY <2>2, <2>3
  <2>4. CASE queue # <<>> /\ queue' = Tail(queue)
    <3>1. \A i \in DOMAIN queue' : i + 1 \in DOMAIN queue /\ queue'[i] = queue[i + 1]
      BY <2>1, <2>4
    <3> QED  BY <2>2, <3>1
  <2>5. CASE \E e \in Messages \cup Notices :
              queue' = Append(queue, e) /\ (e \in Messages /\ e.kind = "unreachable" => FakeAfter(e.call))
    <3>1. PICK e \in Messages \cup Notices :
              queue' = Append(queue, e) /\ (e \in Messages /\ e.kind = "unreachable" => FakeAfter(e.call))
      BY <2>5
    <3>2. \A i \in DOMAIN queue' : (i \in DOMAIN queue /\ queue'[i] = queue[i]) \/ queue'[i] = e
      BY <2>1, <3>1
    <3> QED  BY <2>2, <3>1, <3>2
  <2> QED  BY <2>3, <2>4, <2>5
<1>3. \A m \in net' : m.kind # "unreachable"
  OBVIOUS
<1>4. \A s \in SyncCalls : syncAnswer'[s].kind # "unreachable"
  OBVIOUS
<1> QED  BY <1>1, <1>2, <1>3, <1>4 DEF Fake, FakeAfter

\* The response that finds an entry or a blocked call says the truth about it.
LEMMA AnswersMatch ==
  ASSUME TypeInv, NEW m \in Messages, m.kind = "unreachable" => Fake(m.call),
         NEW c \in Calls, key[c] # 0, key[c] = SessionId(m)
  PROVE  /\ StatusOf(m) = "SUCCESS" => ~Fake(c)
         /\ StatusOf(m) = "NOT_AVAILABLE" => Fake(c)
         /\ m.kind = "unreachable" => Fake(c)
<1>1. m.call \in Calls /\ m.kind \in Kinds
  BY DEF Messages
<1>2. key[m.call] \in Nat /\ key[c] \in Nat /\ MaxSession \in Nat
  BY <1>1, CallsAssumption DEF TypeInv, TypeOK
<1>3. CASE m.kind = "unreachable"
  <2>1. Session(m) = 0
    BY <1>3 DEF Session
  <2>2. SessionId(m) = key[m.call]
    BY <2>1 DEF SessionId, HasFakeSession
  <2>3. Fake(c)
    BY <1>3, <2>2 DEF Fake
  <2>4. StatusOf(m) = "NOT_AVAILABLE"
    BY <1>3 DEF StatusOf
  <2> QED  BY <2>3, <2>4
<1>4. CASE m.kind # "unreachable"
  <2>1. SessionId(m) = Session(m)
    BY <1>4 DEF SessionId, HasFakeSession
  <2>2. ~Fake(c)
    BY <1>2, <2>1 DEF Fake, Session
  <2>3. StatusOf(m) # "NOT_AVAILABLE"
    BY <1>4 DEF StatusOf
  <2> QED  BY <1>4, <2>2, <2>3
<1> QED  BY <1>3, <1>4

\* A step that neither concludes a call nor takes a handler up to call it.
LEMMA QuietContract ==
  ASSUME TypeInv, ContractInv, ErrorMessages', UNCHANGED <<key, refused, outcome, sync>>,
         NEW t \in Threads, NEW next, pc' = [pc EXCEPT ![t] = next],
         t \in AsyncCalls => pc[t] \notin Unsent /\ next \notin Unsent,
         next = "callback" => Told(job'[t]),
         \A u \in Threads \ {t} : job'[u] = job[u],
         \A a \in AsyncCalls : Held(a)' => Held(a)
  PROVE  ContractInv' /\ UNCHANGED Contract!vars
<1>1. /\ pc'[t] = next
      /\ \A u \in Threads \ {t} : pc'[u] = pc[u]
  BY DEF TypeInv, TypeOK
<1>2. \A a \in AsyncCalls : /\ pc'[a] \in Unsent => pc[a] \in Unsent
                            /\ pc'[a] = "idle" <=> pc[a] = "idle"
  BY <1>1 DEF Threads, Unsent
<1>3. Keys'
  BY <1>2, KeysKept DEF ContractInv
<1>4. JobsTrue'
  <2>1. SUFFICES ASSUME NEW u \in Threads, pc'[u] = "callback" PROVE Told(job'[u])
    BY DEF JobsTrue, Told, Fake
  <2>2. CASE u = t
    BY <1>1, <2>1, <2>2
  <2>3. CASE u # t
    BY <1>1, <2>1, <2>3 DEF ContractInv, JobsTrue
  <2> QED  BY <2>2, <2>3
<1>5. \A c \in Calls : Made(c)' <=> Made(c)
  BY <1>2 DEF Made
<1> QED  BY <1>3, <1>4, <1>5, StutterContract DEF ContractInv

\* Handlers are held where they were.
LEMMA HeldKept ==
  ASSUME TypeInv, UNCHANGED <<asyncAnswers, asyncTimeouts, batch, job>>,
         \A t \in Threads : pc'[t] = "callback" => pc[t] = "callback"
  PROVE  \A a \in AsyncCalls : Held(a)' => Held(a)
BY DEF Held, InTable, Holds

\* A thread goes on to a step that takes no handler.
LEMMA MoveContract ==
  ASSUME TypeInv, ContractInv, ErrorMessages',
         UNCHANGED <<key, refused, outcome, sync, asyncAnswers, asyncTimeouts, batch, job>>,
         NEW t \in Threads, NEW next, pc' = [pc EXCEPT ![t] = next], next # "callback",
         t \in AsyncCalls => pc[t] \notin Unsent /\ next \notin Unsent
  PROVE  ContractInv' /\ UNCHANGED Contract!vars
<1>1. \A u \in Threads : pc'[u] = "callback" => pc[u] = "callback"
  BY DEF TypeInv, TypeOK
<1>2. \A a \in AsyncCalls : Held(a)' => Held(a)
  BY <1>1, HeldKept
<1> QED  BY <1>2, QuietContract

LEMMA FakesKept == UNCHANGED key => \A c \in Calls : Fake(c) => FakeAfter(c)
BY DEF Fake, FakeAfter

LEMMA AfterMessageUnsent ==
  ASSUME TypeInv, NEW t \in Threads
  PROVE  AfterMessage(t) # "callback" /\ (t \in AsyncCalls => AfterMessage(t) \notin Unsent)
BY AfterMessageType, CallsAssumption DEF AfterMessage, TypeInv, Control, Unsent

\* The dispatchers and the main loop fetch and queue messages and notices.
LEMMA FetchContract ==
  ASSUME TypeInv, ContractInv, (\E d \in Dispatchers : Deliver(d) \/ PushNotice(d)) \/ LoopStep
  PROVE  ContractInv' /\ UNCHANGED Contract!vars
<1> USE CallsAssumption
<1>1. UNCHANGED <<key, refused, outcome, sync, asyncAnswers, asyncTimeouts, batch, job, syncAnswer>>
  BY DEF Deliver, PushNotice, LoopStep, PopMessage, PopNotice, syncVars, tableVars, callVars
<1>2. \A c \in Calls : Fake(c) => FakeAfter(c)
  BY <1>1, FakesKept
<1>3. ASSUME NEW d \in Dispatchers, Deliver(d) PROVE ContractInv' /\ UNCHANGED Contract!vars
  <2>1. PICK m \in net : net' = net \ {m} /\ msg' = [msg EXCEPT ![d] = m]
    BY <1>3 DEF Deliver
  <2>2. m.kind # "unreachable" /\ queue' = queue /\ pc' = [pc EXCEPT ![d] = "receive"]
    BY <1>3 DEF Deliver, ContractInv, ErrorMessages
  <2>3. \A t \in Threads : msg'[t] = msg[t] \/ msg'[t].kind # "unreachable"
    BY <2>1, <2>2 DEF TypeInv, TypeOK
  <2>4. ErrorMessages'
    BY <1>1, <1>2, <2>1, <2>2, <2>3, MessagesKept DEF ContractInv
  <2> QED  BY <1>1, <2>2, <2>4, MoveContract DEF Threads
<1>4. ASSUME NEW d \in Dispatchers, PushNotice(d) PROVE ContractInv' /\ UNCHANGED Contract!vars
  <2>1. /\ pc' = [pc EXCEPT ![d] = "idle"] /\ msg' = msg /\ net' = net
        /\ queue' = Append(queue, notice[d]) /\ pc[d] = "announce"
    BY <1>4 DEF PushNotice
  <2>2. notice[d] \in Notices /\ notice[d] \notin Messages
    BY <2>1 DEF TypeInv, Control, Notices, Messages, Threads
  <2>3. ErrorMessages'
    BY <1>1, <1>2, <2>1, <2>2, MessagesKept DEF ContractInv
  <2> QED  BY <1>1, <2>1, <2>3, MoveContract DEF Threads
<1>5. CASE PopMessage
  <2>1. /\ pc' = [pc EXCEPT ![Loop] = "handle"] /\ net' = net
        /\ msg' = [msg EXCEPT ![Loop] = Head(queue)]
        /\ queue # <<>> /\ Head(queue) \in Messages /\ queue' = Tail(queue)
    BY <1>5 DEF PopMessage
  <2>2. Head(queue).kind = "unreachable" => Fake(Head(queue).call)
    <3>1. queue \in Seq(Messages \cup Notices)
      BY DEF TypeInv, TypeOK
    <3>2. 1 \in DOMAIN queue /\ Head(queue) = queue[1]
      BY <2>1, <3>1
    <3> QED  BY <2>1, <3>2 DEF ContractInv, ErrorMessages
  <2>3. Head(queue).call \in Calls
    BY <2>1 DEF Messages
  <2>4. \A t \in Threads :
          msg'[t] = msg[t] \/ msg'[t].kind # "unreachable" \/ FakeAfter(msg'[t].call)
    BY <1>2, <2>1, <2>2, <2>3 DEF TypeInv, TypeOK
  <2>5. ErrorMessages'
    BY <1>1, <1>2, <2>1, <2>4, MessagesKept DEF ContractInv
  <2> QED  BY <1>1, <2>1, <2>5, MoveContract DEF Threads
<1>6. CASE PopNotice
  <2>1. PICK next \in {"inform", "wake"} :
          /\ pc' = [pc EXCEPT ![Loop] = next] /\ net' = net /\ msg' = msg
          /\ queue # <<>> /\ queue' = Tail(queue)
    BY <1>6 DEF PopNotice
  <2>2. ErrorMessages'
    BY <1>1, <1>2, <2>1, MessagesKept DEF ContractInv
  <2> QED  BY <1>1, <2>1, <2>2, MoveContract DEF Threads
<1> QED  BY <1>3, <1>4, <1>5, <1>6 DEF LoopStep

\* Receiving and queueing a message.
LEMMA PassContract ==
  ASSUME TypeInv, ContractInv, NEW t \in Threads, Receive(t) \/ PushMessage(t)
  PROVE  ContractInv' /\ UNCHANGED Contract!vars
<1> USE CallsAssumption, AfterMessageUnsent
<1>1. UNCHANGED <<key, refused, outcome, sync, asyncAnswers, asyncTimeouts, batch, job,
                  syncAnswer, net>>
  BY DEF Receive, PushMessage, syncVars, tableVars, callVars
<1>2. \A c \in Calls : Fake(c) => FakeAfter(c)
  BY <1>1, FakesKept
<1>3. CASE Receive(t)
  <2>1. msg' = msg /\ queue' = queue /\ pc[t] = "receive"
    BY <1>3 DEF Receive
  <2>2. PICK next \in {"push", "handle"} : pc' = [pc EXCEPT ![t] = next]
    BY <1>3 DEF Receive
  <2>3. ErrorMessages'
    BY <1>1, <1>2, <2>1, MessagesKept DEF ContractInv
  <2> QED  BY <1>1, <2>1, <2>2, <2>3, MoveContract DEF Unsent
<1>4. CASE PushMessage(t)
  <2>1. /\ pc[t] = "push" /\ queue' = Append(queue, msg[t])
        /\ msg' = [msg EXCEPT ![t] = NoMsg] /\ pc' = [pc EXCEPT ![t] = AfterMessage(t)]
    BY <1>4 DEF PushMessage
  <2>2. msg[t] \in Messages
    BY <2>1 DEF TypeInv, Control
  <2>3. msg[t].kind = "unreachable" => FakeAfter(msg[t].call)
    BY <1>2, <2>2 DEF ContractInv, ErrorMessages, Messages
  <2>4. \A u \in Threads : msg'[u] = msg[u] \/ msg'[u].kind # "unreachable"
    BY <2>1 DEF TypeInv, TypeOK, NoMsg
  <2>5. ErrorMessages'
    BY <1>1, <1>2, <2>1, <2>2, <2>3, <2>4, MessagesKept DEF ContractInv
  <2> QED  BY <1>1, <2>1, <2>5, MoveContract DEF Unsent
<1> QED  BY <1>3, <1>4

\* A thread takes the handler of c to call it, with a status that is true.
LEMMA TakeContract ==
  ASSUME TypeInv, ContractInv, ErrorMessages', UNCHANGED <<key, refused, outcome, sync>>,
         NEW t \in Threads, pc[t] \notin Unsent, NEW c \in AsyncCalls, Held(c),
         NEW status, NEW m, TakeHandler(t, c, status, m),
         status = "SUCCESS" => ~Fake(c), status = "NOT_AVAILABLE" => Fake(c),
         asyncAnswers' \subseteq asyncAnswers, asyncTimeouts' \subseteq asyncTimeouts,
         \A u \in Threads : batch'[u] \subseteq batch[u]
  PROVE  ContractInv' /\ UNCHANGED Contract!vars
<1>1. /\ pc' = [pc EXCEPT ![t] = "callback"]
      /\ job'[t] = [call |-> c, outcome |-> [status |-> status, reply |-> m]]
      /\ \A u \in Threads \ {t} : job'[u] = job[u]
  BY DEF TakeHandler, TypeInv, TypeOK
<1>2. Told(job'[t])
  BY <1>1 DEF Told
<1>3. \A u \in Threads, a \in AsyncCalls : Holds(u, a)' => Holds(u, a) \/ a = c
  BY <1>1 DEF Holds, TypeInv, TypeOK
<1>4. \A a \in AsyncCalls : Held(a)' => Held(a)
  BY <1>3 DEF Held, InTable
<1> QED  BY <1>1, <1>2, <1>4, QuietContract DEF Unsent

\* handleProxyReceive: the response finds the entry, or the blocked call, of its session.
LEMMA HandleContract ==
  ASSUME TypeInv, ContractInv, NEW t \in Threads, Handle(t)
  PROVE  ContractInv' /\ UNCHANGED Contract!vars
<1> DEFINE m == msg[t]
           k == SessionId(m)
<1>1. /\ pc[t] = "handle" /\ m \in Messages /\ Dispatch(t, m, k)
      /\ msg' = [msg EXCEPT ![t] = NoMsg]
      /\ UNCHANGED <<batch, sync, key, queue, net, outcome, refused>>
  BY DEF Handle, callVars, TypeInv, Control
<1>2. \A c \in Calls : Fake(c) => FakeAfter(c)
  BY <1>1, FakesKept
<1>3. m.kind = "unreachable" => Fake(m.call)
  BY DEF ContractInv, ErrorMessages
<1>4. \A u \in Threads : msg'[u] = msg[u] \/ msg'[u].kind # "unreachable"
  BY <1>1 DEF TypeInv, TypeOK, NoMsg
<1>5. ASSUME \A s \in SyncCalls : syncAnswer'[s] = syncAnswer[s] \/ syncAnswer'[s].kind # "unreachable"
      PROVE  ErrorMessages'
  BY <1>1, <1>2, <1>4, <1>5, MessagesKept DEF ContractInv
<1>6. pc[t] \notin Unsent
  BY <1>1 DEF Unsent
<1>7. CASE AnswerBlocked(t, m, k)
  <2>1. PICK s \in Waiting(k) : syncAnswer' = [syncAnswer EXCEPT ![s] = m]
    BY <1>7 DEF AnswerBlocked
  <2>2. s \in SyncCalls /\ s \in Calls /\ key[s] = k /\ key[s] # 0 /\ ~Fake(s)
    BY <2>1 DEF Waiting, ContractInv, Keys, Calls
  <2>3. m.kind # "unreachable"
    BY <1>1, <1>3, <2>2, AnswersMatch
  <2>4. ErrorMessages'
    BY <1>5, <2>1, <2>2, <2>3 DEF TypeInv, TypeOK
  <2>5. /\ pc' = [pc EXCEPT ![t] = AfterMessage(t)]
        /\ UNCHANGED <<job, asyncAnswers, asyncTimeouts>>
    BY <1>7 DEF AnswerBlocked
  <2> QED  BY <1>1, <1>6, <2>4, <2>5, AfterMessageUnsent, MoveContract
<1>8. CASE TakeAnswer(t, m, k)
  <2>1. PICK c \in Entry(asyncAnswers, k) :
          /\ asyncAnswers' = asyncAnswers \ {c}
          /\ TakeHandler(t, c, StatusOf(m), m)
          /\ UNCHANGED asyncTimeouts
    BY <1>8 DEF TakeAnswer
  <2>2. c \in AsyncCalls /\ c \in Calls /\ Held(c) /\ key[c] = k /\ syncAnswer' = syncAnswer
    BY <2>1 DEF Entry, Held, InTable, TypeInv, TypeOK, Calls, TakeHandler
  <2>3. key[c] # 0
    BY <2>2 DEF ContractInv, Keys
  <2>4. (StatusOf(m) = "SUCCESS" => ~Fake(c)) /\ (StatusOf(m) = "NOT_AVAILABLE" => Fake(c))
    BY <1>1, <1>3, <2>2, <2>3, AnswersMatch
  <2>5. ErrorMessages'
    BY <1>5, <2>2
  <2> QED  BY <1>1, <1>6, <2>1, <2>2, <2>4, <2>5, TakeContract
<1>9. CASE TakeTimeout(t, m, k)
  <2>1. PICK c \in Entry(asyncTimeouts, k) :
          /\ asyncTimeouts' = asyncTimeouts \ {c}
          /\ TakeHandler(t, c, "REMOTE_ERROR", m)
          /\ UNCHANGED asyncAnswers
    BY <1>9 DEF TakeTimeout
  <2>2. c \in AsyncCalls /\ Held(c) /\ syncAnswer' = syncAnswer
    BY <2>1 DEF Entry, Held, InTable, TypeInv, TypeOK, TakeHandler
  <2>3. ErrorMessages'
    BY <1>5, <2>2
  <2> QED  BY <1>1, <1>6, <2>1, <2>2, <2>3, TakeContract
<1>10. CASE DropMessage(t)
  <2>1. /\ pc' = [pc EXCEPT ![t] = AfterMessage(t)]
        /\ UNCHANGED <<job, asyncAnswers, asyncTimeouts, syncAnswer>>
    BY <1>10 DEF DropMessage
  <2>2. ErrorMessages'
    BY <1>5, <2>1
  <2> QED  BY <1>1, <1>6, <2>1, <2>2, AfterMessageUnsent, MoveContract
<1> QED  BY <1>1, <1>7, <1>8, <1>9, <1>10 DEF Dispatch

\* The cancellation, and how the entries that were taken are passed on.
LEMMA CancelContract ==
  ASSUME TypeInv, ContractInv, NEW t \in Threads, CancelStep(t) \/ FlushStep(t)
  PROVE  ContractInv' /\ UNCHANGED Contract!vars
<1> USE CallsAssumption
<1>1. UNCHANGED <<key, refused, outcome, sync, syncAnswer, queue, net>>
  BY DEF CancelStep, FlushStep, WakeBlocked, CollectCancelled, CancelDone, InformProxies,
         FlushToMainLoop, FlushDirectly, TakeHandler, syncVars, callVars
<1>2. \A c \in Calls : Fake(c) => FakeAfter(c)
  BY <1>1, FakesKept
<1>3. pc[t] \notin Unsent /\ (t \in AsyncCalls => FALSE)
  BY DEF CancelStep, FlushStep, WakeBlocked, CollectCancelled, CancelDone, InformProxies,
         FlushToMainLoop, FlushDirectly, TypeInv, Control, Unsent
<1>4. CASE WakeBlocked(t) \/ CancelDone(t) \/ InformProxies(t)
  <2>1. UNCHANGED <<asyncAnswers, asyncTimeouts, batch, job, msg>>
    BY <1>4 DEF WakeBlocked, CancelDone, InformProxies, tableVars
  <2>2. PICK next \in {"collect", "inform", "idle"} : pc' = [pc EXCEPT ![t] = next]
    BY <1>4 DEF WakeBlocked, CancelDone, InformProxies
  <2>3. ErrorMessages'
    BY <1>1, <1>2, <2>1, MessagesKept DEF ContractInv
  <2> QED  BY <1>1, <1>3, <2>1, <2>2, <2>3, MoveContract
<1>5. CASE CollectCancelled(t)
  <2>1. /\ asyncAnswers' = asyncAnswers \ Cancelled(t)
        /\ batch' = [batch EXCEPT ![t] = Cancelled(t)]
        /\ pc' = [pc EXCEPT ![t] = "flush"]
        /\ UNCHANGED <<asyncTimeouts, job, msg>>
    BY <1>5 DEF CollectCancelled
  <2>2. ErrorMessages'
    BY <1>1, <1>2, <2>1, MessagesKept DEF ContractInv
  <2>3. \A u \in Threads : batch'[u] \subseteq batch[u] \cup asyncAnswers
    BY <2>1 DEF Cancelled, TypeInv, TypeOK
  <2>4. \A u \in Threads, a \in AsyncCalls : Holds(u, a)' => Holds(u, a)
    BY <2>1 DEF Holds, TypeInv, TypeOK
  <2>5. \A a \in AsyncCalls : Held(a)' => Held(a)
    BY <2>1, <2>3, <2>4 DEF Held, InTable
  <2> QED  BY <1>1, <1>3, <2>1, <2>2, <2>5, QuietContract
<1>6. CASE FlushToMainLoop(t)
  <2>1. PICK c \in First(batch[t]) :
          /\ batch' = [batch EXCEPT ![t] = @ \ {c}]
          /\ StoreTimeout(c)
          /\ msg' = [msg EXCEPT ![t] = TimeoutResponse(c)]
    BY <1>6 DEF FlushToMainLoop
  <2>2. pc' = [pc EXCEPT ![t] = "push"] /\ UNCHANGED <<asyncAnswers, job>>
    BY <1>6 DEF FlushToMainLoop
  <2>3. \A u \in Threads : msg'[u] = msg[u] \/ msg'[u].kind # "unreachable"
    BY <2>1 DEF TypeInv, TypeOK, TimeoutResponse
  <2>4. ErrorMessages'
    BY <1>1, <1>2, <2>3, MessagesKept DEF ContractInv
  <2>5. c \in batch[t] /\ asyncTimeouts' \subseteq asyncTimeouts \cup {c}
    BY <2>1 DEF First, StoreTimeout
  <2>6. \A u \in Threads : batch'[u] \subseteq batch[u]
    BY <2>1 DEF TypeInv, TypeOK
  <2>7. \A u \in Threads, a \in AsyncCalls : Holds(u, a)' => Holds(u, a)
    BY <2>2 DEF Holds, TypeInv, TypeOK
  <2>8. \A a \in AsyncCalls : Held(a)' => Held(a)
    BY <2>2, <2>5, <2>6, <2>7 DEF Held, InTable
  <2> QED  BY <1>1, <1>3, <2>2, <2>4, <2>8, QuietContract
<1>7. CASE FlushDirectly(t)
  <2>1. PICK c \in First(batch[t]) :
          /\ batch' = [batch EXCEPT ![t] = @ \ {c}]
          /\ TakeHandler(t, c, "REMOTE_ERROR", TimeoutResponse(c))
    BY <1>7 DEF FlushDirectly
  <2>2. c \in AsyncCalls /\ Held(c)
    BY <2>1 DEF First, Held, TypeInv, TypeOK
  <2>3. UNCHANGED <<msg, asyncAnswers, asyncTimeouts>>
    BY <1>7 DEF FlushDirectly, tableVars
  <2>4. ErrorMessages'
    BY <1>1, <1>2, <2>3, MessagesKept DEF ContractInv
  <2>5. \A u \in Threads : batch'[u] \subseteq batch[u]
    BY <2>1 DEF TypeInv, TypeOK
  <2> QED  BY <1>1, <1>3, <2>1, <2>2, <2>3, <2>4, <2>5, TakeContract
<1> QED  BY <1>4, <1>5, <1>6, <1>7 DEF CancelStep, FlushStep

\* The cleanup thread takes the expired entries and computes its next wait.
LEMMA CleanupContract ==
  ASSUME TypeInv, ContractInv, CleanupStep
  PROVE  ContractInv' /\ UNCHANGED Contract!vars
<1> USE CallsAssumption
<1>1. /\ UNCHANGED <<key, refused, outcome, sync, syncAnswer, queue, net, msg, job,
                     asyncTimeouts>>
      /\ Cleaner \in Threads /\ Cleaner \notin AsyncCalls
  BY DEF CleanupStep, CleanupTimeout, UpdateTimeout, WaitForTimeout, syncVars, callVars,
         tableVars, Threads
<1>2. \A c \in Calls : Fake(c) => FakeAfter(c)
  BY <1>1, FakesKept
<1>3. ErrorMessages'
  BY <1>1, <1>2, MessagesKept DEF ContractInv
<1>4. CASE CleanupTimeout
  <2>1. PICK late \in SUBSET ((asyncAnswers \cap expired) \cap warning) :
          LET taken == (asyncAnswers \cap expired)
                         \ (((asyncAnswers \cap expired) \cap warning) \ late)
          IN  /\ batch' = [batch EXCEPT ![Cleaner] = taken]
              /\ asyncAnswers' = asyncAnswers \ taken
    BY <1>4 DEF CleanupTimeout
  <2>2. pc' = [pc EXCEPT ![Cleaner] = "flush"]
    BY <1>4 DEF CleanupTimeout
  <2>3. /\ asyncAnswers' \subseteq asyncAnswers
        /\ \A u \in Threads : batch'[u] \subseteq batch[u] \cup asyncAnswers
    BY <2>1 DEF TypeInv, TypeOK
  <2>4. \A u \in Threads, a \in AsyncCalls : Holds(u, a)' => Holds(u, a)
    BY <1>1, <2>2 DEF Holds, TypeInv, TypeOK
  <2>5. \A a \in AsyncCalls : Held(a)' => Held(a)
    BY <1>1, <2>3, <2>4 DEF Held, InTable
  <2> QED  BY <1>1, <1>3, <2>2, <2>5, QuietContract
<1>5. CASE UpdateTimeout \/ WaitForTimeout
  <2>1. PICK next \in {"armed", "waiting"} : pc' = [pc EXCEPT ![Cleaner] = next]
    BY <1>5 DEF UpdateTimeout, WaitForTimeout
  <2>2. UNCHANGED <<asyncAnswers, batch>>
    BY <1>5 DEF UpdateTimeout, WaitForTimeout, tableVars
  <2> QED  BY <1>1, <1>3, <2>1, <2>2, MoveContract
<1> QED  BY <1>4, <1>5 DEF CleanupStep

LEMMA NotifyContract ==
  ASSUME TypeInv, ContractInv, NEW a \in AsyncCalls, NotifyCleanup(a)
  PROVE  ContractInv' /\ UNCHANGED Contract!vars
<1>1. /\ pc[a] = "notify" /\ pc' = [pc EXCEPT ![a] = "done"] /\ a \in Threads
      /\ UNCHANGED <<key, refused, outcome, sync, syncAnswer, queue, net, msg, job,
                     asyncAnswers, asyncTimeouts, batch>>
  BY DEF NotifyCleanup, syncVars, callVars, tableVars, Threads
<1>2. \A c \in Calls : Fake(c) => FakeAfter(c)
  BY <1>1, FakesKept
<1>3. ErrorMessages'
  BY <1>1, <1>2, MessagesKept DEF ContractInv
<1> QED  BY <1>1, <1>3, MoveContract DEF Unsent

\* A step that moves no thread.
LEMMA StillContract ==
  ASSUME TypeInv, ContractInv, ErrorMessages',
         UNCHANGED <<pc, job, batch, sync, asyncAnswers, asyncTimeouts, key, outcome, refused>>
  PROVE  ContractInv' /\ UNCHANGED Contract!vars
<1>1. \A a \in AsyncCalls : Held(a)' => Held(a)
  BY HeldKept
<1>2. Keys'
  BY <1>1, KeysKept DEF ContractInv
<1>3. JobsTrue'
  BY JobsKept DEF ContractInv
<1>4. \A c \in Calls : Made(c)' <=> Made(c)
  BY DEF Made
<1> QED  BY <1>2, <1>3, <1>4, StutterContract DEF ContractInv

\* The services, vsomeip and the clock.
LEMMA EnvironmentContract ==
  ASSUME TypeInv, ContractInv, Environment \/ UNCHANGED vars
  PROVE  ContractInv' /\ UNCHANGED Contract!vars
<1>1. UNCHANGED <<key, refused, outcome, sync, syncAnswer, queue, msg, job, asyncAnswers,
                  asyncTimeouts, batch>>
  BY DEF Environment, ServiceChange, ConnectionEvent, Answer, Expire, vars, syncVars,
         callVars, tableVars
<1>2. \A c \in Calls : Fake(c) => FakeAfter(c)
  BY <1>1, FakesKept
<1>3. \A m \in net' : m \in net \/ m.kind # "unreachable"
  <2>1. CASE net' = net
    BY <2>1
  <2>2. ASSUME NEW c \in Calls, Answer(c) PROVE \A m \in net' : m \in net \/ m.kind # "unreachable"
    BY <2>2, CallsAssumption DEF Answer
  <2> QED  BY <2>1, <2>2 DEF Environment, ServiceChange, ConnectionEvent, Expire, vars
<1>4. ErrorMessages'
  BY <1>1, <1>2, <1>3, MessagesKept DEF ContractInv
<1>5. ASSUME NEW d \in Dispatchers, NEW s \in Services, ServiceChange(d, s)
      PROVE  ContractInv' /\ UNCHANGED Contract!vars
  <2>1. PICK next \in {"announce", "wake", "inform"} : pc' = [pc EXCEPT ![d] = next]
    BY <1>5 DEF ServiceChange
  <2> QED  BY <1>1, <1>4, <2>1, CallsAssumption, MoveContract DEF Threads
<1>6. CASE pc' = pc
  BY <1>1, <1>4, <1>6, StillContract
<1> QED  BY <1>5, <1>6 DEF Environment, ConnectionEvent, Answer, Expire, vars

-----------------------------------------------------------------------------
(* The steps of the contract.                                              *)

ContractStep == [Contract!Next]_(Contract!vars)

LEMMA MakeStep ==
  ASSUME NEW c \in Calls, Stage(c) = "unmade", Stage(c)' = "pending",
         \A o \in Calls \ {c} : Stage(o)' = Stage(o), SentOut' = SentOut
  PROVE  Contract!Next
<1>1. Stages' = [Stages EXCEPT ![c] = "pending"] /\ Stages[c] = "unmade"
  BY OneStage DEF Stages
<1>2. Contract!Make(c)
  BY <1>1 DEF Contract!Make, Stages, SentOut
<1> QED  BY <1>2 DEF Contract!Next

LEMMA TransmitStep ==
  ASSUME NEW c \in Calls, Stage(c) = "pending", Stage(c)' = "pending",
         \A o \in Calls \ {c} : Stage(o)' = Stage(o), SentOut' = SentOut \cup {c}
  PROVE  Contract!Next
<1>1. Stages' = Stages /\ Stages[c] = "pending"
  BY DEF Stages
<1>2. Contract!Transmit(c)
  BY <1>1 DEF Contract!Transmit, Stages, SentOut
<1> QED  BY <1>2 DEF Contract!Next

LEMMA RefuseStep ==
  ASSUME NEW c \in Calls, Stage(c) = "pending", Stage(c)' = "refused",
         \A o \in Calls \ {c} : Stage(o)' = Stage(o),
         SentOut' = SentOut \/ SentOut' = SentOut \cup {c}
  PROVE  Contract!Next
<1>1. Stages' = [Stages EXCEPT ![c] = "refused"] /\ Stages[c] = "pending"
  BY OneStage DEF Stages
<1>2. Contract!Refuse(c)
  BY <1>1 DEF Contract!Refuse, Stages, SentOut
<1> QED  BY <1>2 DEF Contract!Next

LEMMA ConcludeStep ==
  ASSUME NEW c \in Calls, NEW status \in Statuses, Stage(c) = "pending", Stage(c)' = status,
         \A o \in Calls \ {c} : Stage(o)' = Stage(o),
         SentOut' = SentOut \/ (status = "REMOTE_ERROR" /\ SentOut' = SentOut \cup {c}),
         status = "SUCCESS" => c \in SentOut,
         status = "NOT_AVAILABLE" => c \notin SentOut
  PROVE  Contract!Next
<1>1. Stages' = [Stages EXCEPT ![c] = status] /\ Stages[c] = "pending"
  BY OneStage DEF Stages
<1>2. Contract!Conclude(c, status)
  BY <1>1 DEF Contract!Conclude, Stages, SentOut
<1> QED  BY <1>2 DEF Contract!Next

-----------------------------------------------------------------------------
(* The callers of asynchronous methods.                                    *)

LEMMA JobsKeyed ==
  ASSUME TypeInv, JobsTrue, UNCHANGED job,
         \A t \in Threads : pc'[t] = "callback" => pc[t] = "callback",
         NEW c \in Calls, ~Held(c), \A o \in Calls \ {c} : key'[o] = key[o]
  PROVE  JobsTrue'
<1>1. SUFFICES ASSUME NEW t \in Threads, pc[t] = "callback" PROVE Told(job[t])'
  BY DEF JobsTrue
<1>2. job[t].call \in Calls /\ job[t].call # c
  BY <1>1 DEF TypeInv, Control, Jobs, Calls, Held, Holds
<1> QED  BY <1>1, <1>2 DEF JobsTrue, Told, Fake

\* A call leaves its caller's hands: it was sent, refused, or given a fake session.
LEMMA LeaveUnsent ==
  ASSUME TypeInv, HandlerExclusive, ContractInv,
         NEW a \in AsyncCalls, pc[a] \in {"send", "deferred"},
         NEW next \in {"notify", "receive", "done"}, pc' = [pc EXCEPT ![a] = next],
         UNCHANGED <<job, batch, asyncTimeouts, sync, outcome>>,
         NEW k \in Nat, key' = [key EXCEPT ![a] = k],
         asyncAnswers' \subseteq asyncAnswers \cup {a},
         refused' = refused \/ refused' = refused \cup {a},
         a \in asyncAnswers' => k # 0 /\ a \notin refused'
  PROVE  /\ Keys' /\ JobsTrue'
         /\ \A c \in Calls : Fake(c) => FakeAfter(c)
         /\ \A o \in Calls \ {a} : Stage(o)' = Stage(o)
         /\ Stage(a) = "pending"
         /\ Stage(a)' = IF a \in refused' THEN "refused" ELSE "pending"
         /\ SentOut' = IF k # 0 /\ k <= MaxSession THEN SentOut \cup {a} ELSE SentOut
<1> USE CallsAssumption
<1>1. /\ key[a] = 0 /\ a \notin refused /\ outcome[a] = <<>> /\ ~Held(a)
      /\ a \in Calls /\ a \in Threads /\ a \notin SyncCalls
  BY DEF ContractInv, Keys, HandlerExclusive, Calls, Threads, Unsent
<1>2. key'[a] = k /\ \A o \in Calls \ {a} : key'[o] = key[o]
  BY <1>1 DEF TypeInv, TypeOK
<1>3. pc'[a] = next /\ \A t \in Threads \ {a} : pc'[t] = pc[t]
  BY <1>1 DEF TypeInv, TypeOK
<1>4. \A t \in Threads : pc'[t] = "callback" => pc[t] = "callback"
  BY <1>3
<1>5. \A o \in AsyncCalls : Held(o)' => Held(o) \/ (o = a /\ a \in asyncAnswers')
  BY <1>4 DEF Held, InTable, Holds
<1>6. Keys'
  <2>1. ASSUME NEW o \in AsyncCalls
        PROVE  /\ pc'[o] \in Unsent => key'[o] = 0 /\ o \notin refused'
               /\ Held(o)' => key'[o] # 0 /\ o \notin refused'
    <3>1. CASE o = a
      BY <1>1, <1>2, <1>3, <1>5, <3>1 DEF Unsent
    <3>2. CASE o # a
      BY <1>2, <1>3, <1>5, <3>2 DEF ContractInv, Keys, Calls, Threads
    <3> QED  BY <3>1, <3>2
  <2>2. \A s \in SyncCalls : key'[s] = key[s]
    BY <1>1, <1>2 DEF Calls
  <2> QED  BY <2>1, <2>2 DEF ContractInv, Keys, Fake
<1>7. JobsTrue'
  BY <1>1, <1>2, <1>4, JobsKeyed DEF ContractInv
<1>8. \A c \in Calls : Fake(c) => FakeAfter(c)
  BY <1>1, <1>2 DEF Fake, FakeAfter, TypeInv, TypeOK
<1>9. \A o \in Calls \ {a} : Stage(o)' = Stage(o)
  <2>1. \A o \in Calls \ {a} : Made(o)' <=> Made(o)
    BY <1>3 DEF Made, Threads
  <2> QED  BY <2>1, StageKept
<1>10. Stage(a) = "pending"
  BY <1>1, StageIsPending DEF Made
<1>11. Stage(a)' = IF a \in refused' THEN "refused" ELSE "pending"
  <2>1. Made(a)' /\ outcome'[a] = <<>>
    BY <1>1, <1>3 DEF Made
  <2> QED  BY <2>1 DEF Stage
<1>12. SentOut' = IF k # 0 /\ k <= MaxSession THEN SentOut \cup {a} ELSE SentOut
  <2>1. \A c \in Calls \ {a} : c \in SentOut' <=> c \in SentOut
    BY <1>2 DEF SentOut, Fake
  <2>2. a \notin SentOut
    BY <1>1 DEF SentOut
  <2>3. a \in SentOut' <=> k # 0 /\ k <= MaxSession
    BY <1>1, <1>2 DEF SentOut, Fake
  <2>4. SentOut \subseteq Calls /\ SentOut' \subseteq Calls
    BY DEF SentOut
  <2>5. CASE k # 0 /\ k <= MaxSession
    <3>1. \A c : c \in SentOut' <=> c \in SentOut \cup {a}
      BY <1>1, <2>1, <2>3, <2>4, <2>5
    <3> QED  BY <2>5, <3>1
  <2>6. CASE ~(k # 0 /\ k <= MaxSession)
    <3>1. \A c : c \in SentOut' <=> c \in SentOut
      BY <1>1, <2>1, <2>2, <2>3, <2>4, <2>6
    <3> QED  BY <2>6, <3>1
  <2> QED  BY <2>5, <2>6
<1> QED  BY <1>6, <1>7, <1>8, <1>9, <1>10, <1>11, <1>12

\* callMethodAsync, sendMessageWithReplyAsync and proxyPushMessageToMainLoop.
LEMMA CallerContract ==
  ASSUME TypeInv, HandlerExclusive, ContractInv, NEW a \in AsyncCalls, CallerStep(a)
  PROVE  ContractInv' /\ ContractStep
<1> USE CallsAssumption
<1>1. a \in Calls /\ a \in Threads
  BY DEF Calls, Threads
<1>2. CASE CallUnavailable(a) \/ CallAvailable(a)
  <2>1. PICK next \in {"deferred", "send"} :
          pc' = [pc EXCEPT ![a] = next] /\ pc[a] \in {"idle", "deferred"}
    BY <1>2 DEF CallUnavailable, CallAvailable
  <2>2. UNCHANGED <<msg, job, batch, sync, syncAnswer, asyncAnswers, asyncTimeouts, key,
                    queue, net, outcome, refused>>
    BY <1>2 DEF CallUnavailable, CallAvailable, syncVars, tableVars, callVars
  <2>3. /\ pc'[a] = next
        /\ \A t \in Threads \ {a} : pc'[t] = pc[t]
    BY <1>1, <2>1 DEF TypeInv, TypeOK
  <2>4. \A t \in Threads : pc'[t] = "callback" => pc[t] = "callback"
    BY <2>3
  <2>5. \A o \in AsyncCalls : (pc'[o] \in Unsent => pc[o] \in Unsent) /\ (Held(o)' => Held(o))
    BY <2>1, <2>2, <2>3, <2>4, HeldKept DEF Unsent, Threads
  <2>6. Keys'
    BY <2>2, <2>5, KeysKept DEF ContractInv
  <2>7. JobsTrue'
    BY <2>2, <2>4, JobsKept DEF ContractInv
  <2>8. ErrorMessages'
    BY <2>2, FakesKept, MessagesKept DEF ContractInv
  <2>9. SentOut' = SentOut
    BY <2>2 DEF SentOut, Fake
  <2>10. outcome[a] = <<>> /\ a \notin refused
    BY <2>1 DEF HandlerExclusive, ContractInv, Keys, Unsent
  <2>11. \A o \in Calls \ {a} : Made(o)' <=> Made(o)
    BY <2>2, <2>3 DEF Made, Threads
  <2>12. Made(a)'
    BY <2>3 DEF Made
  <2>13. CASE pc[a] = "idle"
    <3>1. Stage(a) = "unmade"
      BY <1>1, <2>10, <2>13, StageIsUnmade DEF Made
    <3>2. Stage(a)' = "pending"
      BY <2>2, <2>10, <2>12 DEF Stage
    <3>3. \A o \in Calls \ {a} : Stage(o)' = Stage(o)
      BY <2>2, <2>11, StageKept
    <3>4. Contract!Next
      BY <1>1, <2>9, <3>1, <3>2, <3>3, MakeStep
    <3> QED  BY <2>6, <2>7, <2>8, <3>4 DEF ContractInv, ContractStep
  <2>14. CASE pc[a] # "idle"
    <3>1. \A o \in Calls : Made(o)' <=> Made(o)
      BY <2>11, <2>12, <2>14 DEF Made
    <3>2. UNCHANGED Contract!vars
      BY <2>2, <3>1, StutterContract
    <3> QED  BY <2>6, <2>7, <2>8, <3>2 DEF ContractInv, ContractStep
  <2> QED  BY <2>13, <2>14
<1>3. CASE SendDisconnected(a)
  <2>1. /\ pc[a] = "send" /\ pc' = [pc EXCEPT ![a] = "done"] /\ refused' = refused \cup {a}
        /\ UNCHANGED <<msg, job, batch, sync, syncAnswer, asyncAnswers, asyncTimeouts, key,
                       queue, net, outcome>>
    BY <1>3 DEF SendDisconnected, syncVars, tableVars, callVars
  <2>2. key[a] = 0 /\ 0 \in Nat /\ a \notin asyncAnswers
    BY <2>1 DEF ContractInv, Keys, HandlerExclusive, Held, InTable, Unsent
  <2>3. key' = [key EXCEPT ![a] = 0]
    BY <1>1, <2>1, <2>2 DEF TypeInv, TypeOK
  <2>4. /\ Keys' /\ JobsTrue' /\ Stage(a) = "pending" /\ Stage(a)' = "refused"
        /\ \A o \in Calls \ {a} : Stage(o)' = Stage(o)
        /\ SentOut' = SentOut
    BY <2>1, <2>2, <2>3, LeaveUnsent
  <2>5. ErrorMessages'
    BY <2>1, FakesKept, MessagesKept DEF ContractInv
  <2>6. Contract!Next
    BY <1>1, <2>4, RefuseStep
  <2> QED  BY <2>4, <2>5, <2>6 DEF ContractInv, ContractStep
<1>4. NextSession \in Nat /\ NextSession # 0 /\ NextSession <= MaxSession
  BY SessionRange DEF TypeInv, TypeOK
<1>5. CASE SendRefused(a)
  <2>1. /\ pc[a] = "send" /\ pc' = [pc EXCEPT ![a] = "done"] /\ refused' = refused \cup {a}
        /\ key' = [key EXCEPT ![a] = NextSession]
        /\ UNCHANGED <<msg, job, batch, sync, syncAnswer, asyncAnswers, asyncTimeouts,
                       queue, net, outcome>>
    BY <1>5 DEF SendRefused, Transmit, syncVars, tableVars
  <2>2. a \notin asyncAnswers
    BY <2>1 DEF HandlerExclusive, Held, InTable, Unsent
  <2>3. /\ Keys' /\ JobsTrue' /\ Stage(a) = "pending" /\ Stage(a)' = "refused"
        /\ \A c \in Calls : Fake(c) => FakeAfter(c)
        /\ \A o \in Calls \ {a} : Stage(o)' = Stage(o)
        /\ SentOut' = SentOut \cup {a}
    BY <1>4, <2>1, <2>2, LeaveUnsent
  <2>4. ErrorMessages'
    BY <2>1, <2>3, MessagesKept DEF ContractInv
  <2>5. Contract!Next
    BY <1>1, <2>3, RefuseStep
  <2> QED  BY <2>3, <2>4, <2>5 DEF ContractInv, ContractStep
<1>6. CASE Send(a)
  <2>1. /\ pc[a] = "send" /\ pc' = [pc EXCEPT ![a] = "notify"]
        /\ key' = [key EXCEPT ![a] = NextSession]
        /\ asyncAnswers' \subseteq asyncAnswers \cup {a}
        /\ UNCHANGED <<msg, job, batch, sync, syncAnswer, asyncTimeouts, queue, net, outcome,
                       refused>>
    BY <1>6 DEF Send, Transmit, StoreAnswer, syncVars
  <2>2. a \notin refused
    BY <2>1 DEF ContractInv, Keys, Unsent
  <2>3. /\ Keys' /\ JobsTrue' /\ Stage(a) = "pending" /\ Stage(a)' = "pending"
        /\ \A c \in Calls : Fake(c) => FakeAfter(c)
        /\ \A o \in Calls \ {a} : Stage(o)' = Stage(o)
        /\ SentOut' = SentOut \cup {a}
    BY <1>4, <2>1, <2>2, LeaveUnsent
  <2>4. ErrorMessages'
    BY <2>1, <2>3, MessagesKept DEF ContractInv
  <2>5. Contract!Next
    BY <1>1, <2>3, TransmitStep
  <2> QED  BY <2>3, <2>4, <2>5 DEF ContractInv, ContractStep
<1>7. CASE NotReachable(a)
  <2> DEFINE k == NextFakeSession
  <2>1. k \in Nat /\ k > MaxSession /\ k # 0
    BY FakeBeyond, CallsAssumption
  <2>2. /\ pc[a] = "deferred" /\ pc' = [pc EXCEPT ![a] = "receive"]
        /\ key' = [key EXCEPT ![a] = k]
        /\ asyncAnswers' \subseteq asyncAnswers \cup {a}
        /\ msg' = [msg EXCEPT ![a] = [call |-> a, kind |-> "unreachable"]]
        /\ UNCHANGED <<job, batch, sync, syncAnswer, asyncTimeouts, queue, net, outcome,
                       refused>>
    BY <1>7 DEF NotReachable, StoreAnswer, syncVars
  <2>3. a \notin refused
    BY <2>2 DEF ContractInv, Keys, Unsent
  <2>4. ~(k # 0 /\ k <= MaxSession)
    BY <2>1
  <2> HIDE DEF k
  <2>5. /\ Keys' /\ JobsTrue' /\ Stage(a) = "pending" /\ Stage(a)' = "pending"
        /\ \A c \in Calls : Fake(c) => FakeAfter(c)
        /\ \A o \in Calls \ {a} : Stage(o)' = Stage(o)
        /\ SentOut' = SentOut
    BY <2>1, <2>2, <2>3, <2>4, LeaveUnsent
  <2>6. FakeAfter(a)
    BY <1>1, <2>1, <2>2 DEF FakeAfter, TypeInv, TypeOK
  <2>7. \A t \in Threads :
          msg'[t] = msg[t] \/ msg'[t].kind # "unreachable" \/ FakeAfter(msg'[t].call)
    BY <1>1, <2>2, <2>6 DEF TypeInv, TypeOK
  <2>8. ErrorMessages'
    BY <2>2, <2>5, <2>7, MessagesKept DEF ContractInv
  <2>9. Stages' = Stages
    BY <2>5 DEF Stages
  <2>10. UNCHANGED Contract!vars
    BY <2>5, <2>9 DEF Contract!vars, Stages, SentOut
  <2> QED  BY <2>5, <2>8, <2>10 DEF ContractInv, ContractStep
<1> QED  BY <1>2, <1>3, <1>5, <1>6, <1>7 DEF CallerStep

-----------------------------------------------------------------------------
(* The callers of blocking methods.                                        *)

\* No handler belongs to a blocking call.
LEMMA SyncNotHeld ==
  ASSUME TypeInv, NEW s \in SyncCalls
  PROVE  s \notin AsyncCalls /\ s \in Calls /\ ~Held(s)
BY CallsAssumption DEF TypeInv, TypeOK, Control, Held, InTable, Holds, Jobs, Calls

LEMMA SyncStage ==
  ASSUME TypeInv, HandlerExclusive, NEW s \in SyncCalls, sync[s] # "done"
  PROVE  Stage(s) = IF sync[s] = "idle" THEN "unmade" ELSE "pending"
<1>1. s \notin refused /\ outcome[s] = <<>> /\ s \notin AsyncCalls
  BY SyncNotHeld DEF TypeInv, TypeOK, HandlerExclusive
<1> QED  BY <1>1 DEF Stage, Made

\* A blocked call moves on: no thread moves and no handler does.
LEMMA BlockedMoves ==
  ASSUME TypeInv, ContractInv, NEW s \in SyncCalls,
         NEW next \in {"checked", "waiting", "done"}, sync' = [sync EXCEPT ![s] = next],
         NEW k \in Nat, key' = [key EXCEPT ![s] = k],
         UNCHANGED <<pc, job, batch, asyncAnswers, asyncTimeouts, refused>>,
         \A o \in Calls \ {s} : outcome'[o] = outcome[o],
         next = "checked" => k = 0,
         next = "waiting" => k # 0 /\ k <= MaxSession,
         Fake(s) => k > MaxSession
  PROVE  /\ Keys' /\ JobsTrue'
         /\ \A c \in Calls : Fake(c) => FakeAfter(c)
         /\ \A o \in Calls \ {s} : Stage(o)' = Stage(o)
<1>1. s \notin AsyncCalls /\ s \in Calls /\ ~Held(s)
  BY SyncNotHeld
<1>2. key'[s] = k /\ \A o \in Calls \ {s} : key'[o] = key[o]
  BY <1>1 DEF TypeInv, TypeOK
<1>3. sync'[s] = next /\ \A o \in SyncCalls \ {s} : sync'[o] = sync[o]
  BY DEF TypeInv, TypeOK
<1>4. \A a \in AsyncCalls : key'[a] = key[a] /\ (Held(a)' => Held(a))
  BY <1>1, <1>2, HeldKept DEF Calls
<1>5. Keys'
  <2>1. ASSUME NEW o \in SyncCalls
        PROVE  /\ sync'[o] \in {"idle", "checked"} => key'[o] = 0
               /\ sync'[o] = "waiting" => key'[o] # 0 /\ ~FakeAfter(o)
    <3>1. CASE o = s
      BY <1>2, <1>3, <3>1, CallsAssumption DEF FakeAfter
    <3>2. CASE o # s
      BY <1>2, <1>3, <3>2 DEF ContractInv, Keys, Calls, Fake, FakeAfter
    <3> QED  BY <3>1, <3>2
  <2> QED  BY <1>4, <2>1 DEF ContractInv, Keys, Fake, FakeAfter
<1>6. JobsTrue'
  BY <1>1, <1>2, JobsKeyed DEF ContractInv
<1>7. \A c \in Calls : Fake(c) => FakeAfter(c)
  BY <1>2 DEF Fake, FakeAfter
<1>8. \A o \in Calls \ {s} : Made(o)' <=> Made(o)
  BY <1>3 DEF Made, Calls
<1>9. \A o \in Calls \ {s} : Stage(o)' = Stage(o)
  BY <1>8, StageKept
<1> QED  BY <1>5, <1>6, <1>7, <1>9

LEMMA SameSent == UNCHANGED key => SentOut' = SentOut
BY DEF SentOut, Fake

LEMMA OneSent ==
  ASSUME TypeInv, NEW c \in Calls, key[c] = 0,
         NEW k \in Nat, k # 0, k <= MaxSession, key' = [key EXCEPT ![c] = k]
  PROVE  SentOut' = SentOut \cup {c}
<1>1. key'[c] = k /\ \A o \in Calls \ {c} : key'[o] = key[o]
  BY DEF TypeInv, TypeOK
<1>2. \A o \in Calls : key'[o] # 0 /\ ~FakeAfter(o) <=> (key[o] # 0 /\ ~Fake(o)) \/ o = c
  <2>1. key'[c] # 0 /\ ~FakeAfter(c)
    BY <1>1, CallsAssumption DEF FakeAfter
  <2>2. \A o \in Calls \ {c} : FakeAfter(o) <=> Fake(o)
    BY <1>1 DEF FakeAfter, Fake
  <2> QED  BY <1>1, <2>1, <2>2
<1> QED  BY <1>2 DEF SentOut, Fake, FakeAfter

\* A blocked call returns, with the answer stored for it or with nothing.
LEMMA ReturnContract ==
  ASSUME TypeInv, HandlerExclusive, ContractInv,
         NEW s \in SyncCalls, sync[s] \in {"checked", "waiting"},
         NEW m \in Messages \cup {NoMsg}, m.kind # "unreachable", Return(s, m),
         UNCHANGED <<pc, msg, job, batch, asyncAnswers, asyncTimeouts, queue, net, refused>>,
         \/ UNCHANGED key /\ (StatusOf(m) = "SUCCESS" => s \in SentOut)
         \/ /\ sync[s] = "checked" /\ StatusOf(m) = "REMOTE_ERROR"
            /\ key' = [key EXCEPT ![s] = NextSession]
  PROVE  ContractInv' /\ Contract!Next
<1>1. s \notin AsyncCalls /\ s \in Calls /\ Stage(s) = "pending" /\ outcome[s] = <<>>
  BY SyncNotHeld, SyncStage DEF HandlerExclusive
<1>2. /\ sync' = [sync EXCEPT ![s] = "done"]
      /\ syncAnswer' = [syncAnswer EXCEPT ![s] = NoMsg]
      /\ outcome' = [outcome EXCEPT ![s] = <<[status |-> StatusOf(m), reply |-> m]>>]
  BY <1>1 DEF Return, TypeInv, TypeOK
<1>3. Stage(s)' = StatusOf(m)
  <2>1. outcome'[s] = <<[status |-> StatusOf(m), reply |-> m]>>
    BY <1>1, <1>2 DEF TypeInv, TypeOK
  <2>2. Len(outcome'[s]) = 1 /\ outcome'[s][1].status = StatusOf(m)
    BY <2>1
  <2> QED  BY <2>2 DEF Stage
<1>4. \A o \in Calls \ {s} : outcome'[o] = outcome[o]
  BY <1>2 DEF TypeInv, TypeOK
<1>5. \A o \in SyncCalls : syncAnswer'[o] = syncAnswer[o] \/ syncAnswer'[o].kind # "unreachable"
  BY <1>2 DEF TypeInv, TypeOK, NoMsg
<1>6. StatusOf(m) \in Statuses /\ StatusOf(m) # "NOT_AVAILABLE"
  BY StatusType DEF StatusOf
<1>7. NextSession \in Nat /\ NextSession # 0 /\ NextSession <= MaxSession
  BY SessionRange, CallsAssumption DEF TypeInv, TypeOK
<1>8. CASE UNCHANGED key /\ (StatusOf(m) = "SUCCESS" => s \in SentOut)
  <2>1. key[s] \in Nat /\ key' = [key EXCEPT ![s] = key[s]]
    BY <1>1, <1>8 DEF TypeInv, TypeOK
  <2>2. Fake(s) => key[s] > MaxSession
    BY DEF Fake
  <2>3. /\ Keys' /\ JobsTrue'
        /\ \A c \in Calls : Fake(c) => FakeAfter(c)
        /\ \A o \in Calls \ {s} : Stage(o)' = Stage(o)
    BY <1>2, <1>4, <2>1, <2>2, BlockedMoves
  <2>4. ErrorMessages'
    BY <1>5, <2>3, MessagesKept DEF ContractInv
  <2>5. Contract!Next
    BY <1>1, <1>3, <1>6, <1>8, <2>3, SameSent, ConcludeStep
  <2> QED  BY <2>3, <2>4, <2>5 DEF ContractInv
<1>9. CASE /\ sync[s] = "checked" /\ StatusOf(m) = "REMOTE_ERROR"
           /\ key' = [key EXCEPT ![s] = NextSession]
  <2>1. key[s] = 0 /\ ~Fake(s)
    BY <1>9, CallsAssumption DEF ContractInv, Keys, Fake
  <2>2. /\ Keys' /\ JobsTrue'
        /\ \A c \in Calls : Fake(c) => FakeAfter(c)
        /\ \A o \in Calls \ {s} : Stage(o)' = Stage(o)
    BY <1>2, <1>4, <1>7, <1>9, <2>1, BlockedMoves
  <2>3. ErrorMessages'
    BY <1>5, <2>2, MessagesKept DEF ContractInv
  <2>4. SentOut' = SentOut \cup {s}
    BY <1>1, <1>7, <1>9, <2>1, OneSent
  <2>5. Contract!Next
    BY <1>1, <1>3, <1>6, <1>9, <2>2, <2>4, ConcludeStep
  <2> QED  BY <2>2, <2>3, <2>5 DEF ContractInv
<1> QED  BY <1>8, <1>9

\* sendMessageWithReplyAndBlock.
LEMMA BlockedContract ==
  ASSUME TypeInv, HandlerExclusive, ContractInv, NEW s \in SyncCalls, BlockedStep(s)
  PROVE  ContractInv' /\ ContractStep
<1>1. /\ UNCHANGED <<pc, msg, job, batch, asyncAnswers, asyncTimeouts, queue, net, refused>>
      /\ s \in Calls /\ sync[s] # "done"
  BY DEF BlockedStep, Check, BlockDisconnected, SendAndBlock, EndWait, tableVars, Calls
<1>2. CASE Check(s)
  <2>1. /\ sync[s] = "idle" /\ sync' = [sync EXCEPT ![s] = "checked"]
        /\ UNCHANGED <<key, outcome, syncAnswer>>
    BY <1>2 DEF Check, callVars
  <2>2. key[s] = 0 /\ ~Fake(s) /\ Stage(s) = "unmade" /\ 0 \in Nat
    BY <1>1, <2>1, SyncStage, CallsAssumption DEF ContractInv, Keys, Fake
  <2>3. key' = [key EXCEPT ![s] = 0]
    BY <1>1, <2>1, <2>2 DEF TypeInv, TypeOK
  <2>4. /\ Keys' /\ JobsTrue'
        /\ \A c \in Calls : Fake(c) => FakeAfter(c)
        /\ \A o \in Calls \ {s} : Stage(o)' = Stage(o)
    BY <1>1, <2>1, <2>2, <2>3, BlockedMoves
  <2>5. ErrorMessages'
    BY <1>1, <2>1, <2>4, MessagesKept DEF ContractInv
  <2>6. Stage(s)' = "pending"
    <3>1. outcome'[s] = <<>> /\ s \notin refused' /\ s \notin AsyncCalls /\ sync'[s] = "checked"
      BY <1>1, <2>1, SyncNotHeld DEF HandlerExclusive, TypeInv, TypeOK
    <3> QED  BY <3>1 DEF Stage, Made
  <2>7. Contract!Next
    BY <1>1, <2>1, <2>2, <2>4, <2>6, SameSent, MakeStep
  <2> QED  BY <2>4, <2>5, <2>7 DEF ContractInv, ContractStep
<1>3. CASE BlockDisconnected(s)
  <2>1. sync[s] = "checked" /\ Return(s, NoMsg) /\ UNCHANGED key
    BY <1>3 DEF BlockDisconnected, callVars
  <2>2. NoMsg.kind # "unreachable" /\ StatusOf(NoMsg) = "REMOTE_ERROR"
    BY DEF NoMsg, StatusOf
  <2> QED  BY <1>1, <2>1, <2>2, ReturnContract DEF ContractStep
<1>4. CASE SendAndBlock(s)
  <2>1. sync[s] = "checked" /\ key' = [key EXCEPT ![s] = NextSession]
    BY <1>4 DEF SendAndBlock, Transmit
  <2>2. CASE Return(s, NoMsg)
    <3>1. NoMsg.kind # "unreachable" /\ StatusOf(NoMsg) = "REMOTE_ERROR"
      BY DEF NoMsg, StatusOf
    <3> QED  BY <1>1, <2>1, <2>2, <3>1, ReturnContract DEF ContractStep
  <2>3. CASE sync' = [sync EXCEPT ![s] = "waiting"] /\ UNCHANGED <<syncAnswer, outcome>>
    <3>1. NextSession \in Nat /\ NextSession # 0 /\ NextSession <= MaxSession
      BY SessionRange, CallsAssumption DEF TypeInv, TypeOK
    <3>2. key[s] = 0 /\ ~Fake(s) /\ Stage(s) = "pending"
      BY <1>1, <2>1, SyncStage, CallsAssumption DEF ContractInv, Keys, Fake
    <3>3. /\ Keys' /\ JobsTrue'
          /\ \A c \in Calls : Fake(c) => FakeAfter(c)
          /\ \A o \in Calls \ {s} : Stage(o)' = Stage(o)
      BY <1>1, <2>1, <2>3, <3>1, <3>2, BlockedMoves
    <3>4. ErrorMessages'
      BY <1>1, <2>3, <3>3, MessagesKept DEF ContractInv
    <3>5. Stage(s)' = "pending"
      <4>1. outcome'[s] = <<>> /\ s \notin refused' /\ s \notin AsyncCalls /\ sync'[s] = "waiting"
        BY <1>1, <2>3, SyncNotHeld DEF HandlerExclusive, TypeInv, TypeOK
      <4> QED  BY <4>1 DEF Stage, Made
    <3>6. SentOut' = SentOut \cup {s}
      BY <1>1, <2>1, <3>1, <3>2, OneSent
    <3>7. Contract!Next
      BY <1>1, <3>2, <3>3, <3>5, <3>6, TransmitStep
    <3> QED  BY <3>3, <3>4, <3>7 DEF ContractInv, ContractStep
  <2> QED  BY <1>4, <2>2, <2>3 DEF SendAndBlock
<1>5. CASE EndWait(s)
  <2>1. sync[s] = "waiting" /\ UNCHANGED key
    BY <1>5 DEF EndWait, callVars
  <2>2. CASE Return(s, syncAnswer[s])
    <3>1. syncAnswer[s] \in Messages \cup {NoMsg} /\ syncAnswer[s].kind # "unreachable"
      BY DEF TypeInv, TypeOK, ContractInv, ErrorMessages
    <3>2. s \in SentOut
      BY <1>1, <2>1 DEF ContractInv, Keys, SentOut
    <3> QED  BY <1>1, <2>1, <2>2, <3>1, <3>2, ReturnContract DEF ContractStep
  <2>3. CASE UNCHANGED <<sync, syncAnswer, outcome>>
    <3>1. ErrorMessages'
      BY <1>1, <2>1, <2>3, FakesKept, MessagesKept DEF ContractInv
    <3> QED  BY <1>1, <2>1, <2>3, <3>1, StillContract DEF ContractStep
  <2> QED  BY <1>5, <2>2, <2>3 DEF EndWait
<1> QED  BY <1>2, <1>3, <1>4, <1>5 DEF BlockedStep

-----------------------------------------------------------------------------
(* The reply handlers.                                                     *)

LEMMA CallbackContract ==
  ASSUME TypeInv, HandlerExclusive, ContractInv, NEW t \in Threads, Callback(t)
  PROVE  ContractInv' /\ ContractStep
<1>1. PICK c \in AsyncCalls, o \in Outcomes :
        /\ c = job[t].call /\ o = job[t].outcome
        /\ pc[t] = "callback" /\ c \in Calls /\ Held(c) /\ o.status \in Statuses
  BY DEF Callback, TypeInv, Control, Jobs, Outcomes, Calls, Held, Holds
<1>2. /\ pc' = [pc EXCEPT ![t] = AfterMessage(t)] /\ job' = [job EXCEPT ![t] = NoJob]
      /\ outcome' = [outcome EXCEPT ![c] = Append(@, o)]
      /\ UNCHANGED <<msg, batch, sync, syncAnswer, asyncAnswers, asyncTimeouts, key, queue,
                     net, refused>>
  BY <1>1 DEF Callback, syncVars, tableVars, callVars
<1>3. outcome[c] = <<>> /\ key[c] # 0 /\ c \notin refused /\ pc[c] # "idle"
  BY <1>1 DEF HandlerExclusive, ContractInv, Keys, Unsent
<1>4. pc'[t] = AfterMessage(t) /\ \A u \in Threads \ {t} : pc'[u] = pc[u] /\ job'[u] = job[u]
  BY <1>2 DEF TypeInv, TypeOK
<1>5. AfterMessage(t) # "callback" /\ (t \in AsyncCalls => AfterMessage(t) \notin Unsent)
  BY AfterMessageUnsent
<1>6. \A a \in AsyncCalls : (pc'[a] \in Unsent => pc[a] \in Unsent) /\ (pc'[a] = "idle" <=> pc[a] = "idle")
  BY <1>1, <1>4, <1>5 DEF Unsent, Threads
<1>7. \A u \in Threads, a \in AsyncCalls : Holds(u, a)' => Holds(u, a)
  BY <1>4, <1>5 DEF Holds
<1>8. \A a \in AsyncCalls : Held(a)' => Held(a)
  BY <1>2, <1>7 DEF Held, InTable
<1>9. Keys'
  BY <1>2, <1>6, <1>8, KeysKept DEF ContractInv
<1>10. JobsTrue'
  BY <1>2, <1>4, <1>5, JobsKept DEF ContractInv
<1>11. ErrorMessages'
  BY <1>2, FakesKept, MessagesKept DEF ContractInv
<1>12. \A x \in Calls : Made(x)' <=> Made(x)
  BY <1>2, <1>6 DEF Made
<1>13. \A x \in Calls \ {c} : outcome'[x] = outcome[x]
  BY <1>2 DEF TypeInv, TypeOK
<1>14. \A x \in Calls \ {c} : Stage(x)' = Stage(x)
  BY <1>2, <1>12, <1>13, StageKept
<1>15. Stage(c) = "pending"
  BY <1>1, <1>3, StageIsPending DEF Made
<1>16. Stage(c)' = o.status
  <2>1. outcome'[c] = <<o>>
    BY <1>1, <1>2, <1>3 DEF TypeInv, TypeOK
  <2>2. Len(outcome'[c]) = 1 /\ outcome'[c][1] = o
    BY <2>1
  <2> QED  BY <2>2 DEF Stage
<1>17. /\ o.status = "SUCCESS" => c \in SentOut
       /\ o.status = "NOT_AVAILABLE" => c \notin SentOut
  BY <1>1, <1>3 DEF ContractInv, JobsTrue, Told, SentOut
<1>18. Contract!Next
  BY <1>1, <1>2, <1>14, <1>15, <1>16, <1>17, SameSent, ConcludeStep
<1> QED  BY <1>9, <1>10, <1>11, <1>18 DEF ContractInv, ContractStep

-----------------------------------------------------------------------------
LEMMA InitContract == Init => ContractInv /\ Contract!Init
<1> SUFFICES ASSUME Init PROVE ContractInv /\ Contract!Init
  OBVIOUS
<1>1. /\ \A t \in Threads : batch[t] = {} /\ pc[t] \in {"idle", "armed"} /\ msg[t] = NoMsg
      /\ asyncAnswers = {} /\ asyncTimeouts = {} /\ refused = {} /\ net = {} /\ queue = <<>>
      /\ \A c \in Calls : outcome[c] = <<>> /\ key[c] = 0
      /\ \A s \in SyncCalls : sync[s] = "idle" /\ syncAnswer[s] = NoMsg
  BY DEF Init
<1>2. \A a \in AsyncCalls : a \in Calls /\ a \in Threads /\ pc[a] = "idle" /\ ~Held(a)
  <2>1. \A a \in AsyncCalls : a \in Calls /\ a \in Threads /\ a # Cleaner
    BY CallsAssumption DEF Calls, Threads
  <2> QED  BY <1>1, <2>1 DEF Held, Holds, InTable, Init
<1>3. Keys
  BY <1>1, <1>2 DEF Keys, Calls
<1>4. ErrorMessages
  BY <1>1 DEF ErrorMessages, NoMsg
<1>5. JobsTrue
  BY <1>1 DEF JobsTrue
<1>6. \A c \in Calls : ~Made(c)
  BY <1>1, <1>2 DEF Made, Calls
<1>7. \A c \in Calls : Stage(c) = "unmade"
  BY <1>1, <1>6, StageIsUnmade
<1>8. SentOut = {}
  BY <1>1 DEF SentOut
<1>9. Contract!Init
  BY <1>7, <1>8 DEF Contract!Init, SentOut
<1> QED  BY <1>3, <1>4, <1>5, <1>9 DEF ContractInv

LEMMA NextContract ==
  TypeInv /\ HandlerExclusive /\ ContractInv /\ [Next]_vars => ContractInv' /\ ContractStep
<1> SUFFICES ASSUME TypeInv, HandlerExclusive, ContractInv, [Next]_vars
             PROVE  ContractInv' /\ ContractStep
  OBVIOUS
<1>1. ASSUME NEW a \in AsyncCalls, CallerStep(a) \/ NotifyCleanup(a)
      PROVE  ContractInv' /\ ContractStep
  BY <1>1, CallerContract, NotifyContract DEF ContractStep
<1>2. ASSUME NEW s \in SyncCalls, BlockedStep(s) PROVE ContractInv' /\ ContractStep
  BY <1>2, BlockedContract
<1>3. CASE (\E d \in Dispatchers : Deliver(d) \/ PushNotice(d)) \/ LoopStep
  BY <1>3, FetchContract DEF ContractStep
<1>4. ASSUME NEW t \in Threads, MessageStep(t) PROVE ContractInv' /\ ContractStep
  BY <1>4, PassContract, HandleContract, CallbackContract DEF MessageStep, ContractStep
<1>5. ASSUME NEW t \in Threads, CancelStep(t) \/ FlushStep(t) PROVE ContractInv' /\ ContractStep
  BY <1>5, CancelContract DEF ContractStep
<1>6. CASE CleanupStep
  BY <1>6, CleanupContract DEF ContractStep
<1>7. CASE Environment \/ UNCHANGED vars
  BY <1>7, EnvironmentContract DEF ContractStep
<1> QED  BY <1>1, <1>2, <1>3, <1>4, <1>5, <1>6, <1>7 DEF Next

\* The connection implements CallContract: every call, asynchronous or blocking, is
\* concluded at most once, never after its send was refused, with NOT_AVAILABLE only
\* when nothing was sent for it and with SUCCESS only when something was.
THEOREM ImplementsContract == Spec => Promise
<1>1. Init => ContractInv /\ Contract!Init
  BY InitContract
<1>2. TypeInv /\ HandlerExclusive /\ ContractInv /\ [Next]_vars
        => ContractInv' /\ [Contract!Next]_(Contract!vars)
  BY NextContract DEF ContractStep
<1> QED  BY <1>1, <1>2, TypeCorrect, HandlersExclusive, PTL DEF Spec, Promise, Contract!Spec
=============================================================================
