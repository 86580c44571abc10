-------------------------- MODULE CallOutcomesProofs --------------------------
(***************************************************************************)
(* What the session ids of ConnectionCalls are good for until they wrap    *)
(* around: no two calls have the same one, so every answer finds its own   *)
(* call and no entry replaces another; a call fails only for a reason of   *)
(* its own, and the handler of a call that was sent is kept until it is    *)
(* called.  And, whatever the session ids do, where the messages come      *)
(* from: none for a blocked call waits behind it.                          *)
(***************************************************************************)
EXTENDS ConnectionCallsProofs


-----------------------------------------------------------------------------
(* The session ids.                                                        *)

\* Until they wrap around, sessions count the requests, fake ones the error messages:
\* all are different.
Fresh ==
  /\ \A c \in Calls : key[c] > sent => key[c] > MaxSession /\ key[c] <= MaxSession + faked
  /\ \A c, d \in Calls : c # d /\ key[c] # 0 => key[c] # key[d]

SessionsFresh == ~Wrapped => Fresh

\* No session id has been used twice after the step either.
NotWrappedAfter == sent' <= MaxSession /\ faked' <= MaxSession

LEMMA SmallModulus == ASSUME NEW n \in Nat, NEW m \in Nat, n < m PROVE n % m = n
OBVIOUS

LEMMA NextSessionIsNext ==
  ASSUME TypeInv, sent < MaxSession
  PROVE  NextSession = sent + 1
<1>1. sent \in Nat /\ MaxSession \in Nat
  BY CallsAssumption DEF TypeInv, TypeOK
<1>2. sent % MaxSession = sent
  BY <1>1, SmallModulus
<1> QED  BY <1>2 DEF NextSession

LEMMA NextFakeIsNext ==
  ASSUME TypeInv, faked < MaxSession
  PROVE  NextFakeSession = MaxSession + faked + 1
<1>1. faked \in Nat /\ MaxSession \in Nat
  BY CallsAssumption DEF TypeInv, TypeOK
<1>2. faked % MaxSession = faked
  BY <1>1, SmallModulus
<1> QED  BY <1>2 DEF NextFakeSession

\* A call that has no session id is given one.
IsSent(c) ==
  /\ key[c] = 0 /\ key' = [key EXCEPT ![c] = NextSession]
  /\ sent' = sent + 1 /\ UNCHANGED faked

IsFaked(c) ==
  /\ key[c] = 0 /\ key' = [key EXCEPT ![c] = NextFakeSession]
  /\ UNCHANGED sent /\ faked' = faked + 1

LEMMA KeySteps ==
  ASSUME TypeInv, ContractInv, [Next]_vars
  PROVE  UNCHANGED <<key, sent, faked>> \/ \E c \in Calls : IsSent(c) \/ IsFaked(c)
<1>1. ASSUME NEW a \in AsyncCalls, CallerStep(a) \/ NotifyCleanup(a)
      PROVE  UNCHANGED <<key, sent, faked>> \/ IsSent(a) \/ IsFaked(a)
  BY <1>1 DEF CallerStep, CallUnavailable, CallAvailable, NotReachable, SendDisconnected,
              SendRefused, Send, Transmit, NotifyCleanup, callVars, IsSent, IsFaked,
              ContractInv, Keys, Unsent
<1>2. ASSUME NEW s \in SyncCalls, BlockedStep(s)
      PROVE  UNCHANGED <<key, sent, faked>> \/ IsSent(s)
  BY <1>2 DEF BlockedStep, Check, BlockDisconnected, SendAndBlock, EndWait, Transmit,
              callVars, IsSent, ContractInv, Keys
<1>3. ASSUME \/ (\E d \in Dispatchers : Deliver(d) \/ PushNotice(d)) \/ LoopStep
           \/ \E t \in Threads : MessageStep(t)
      PROVE  UNCHANGED <<key, sent, faked>>
  BY <1>3 DEF Deliver, PushNotice, LoopStep, PopMessage, PopNotice, MessageStep, Receive,
              PushMessage, Handle, Callback, callVars
<1>4. ASSUME NEW t \in Threads, CancelStep(t) \/ FlushStep(t)
      PROVE  UNCHANGED <<key, sent, faked>>
  BY <1>4 DEF CancelStep, FlushStep, WakeBlocked, CollectCancelled, CancelDone, InformProxies,
              FlushToMainLoop, FlushDirectly, callVars
<1>5. ASSUME CleanupStep \/ Environment \/ UNCHANGED vars
      PROVE  UNCHANGED <<key, sent, faked>>
  BY <1>5 DEF CleanupStep, CleanupTimeout, UpdateTimeout, WaitForTimeout, Environment,
              ServiceChange, ConnectionEvent, Answer, Expire, callVars, vars
<1> QED  BY <1>1, <1>2, <1>3, <1>4, <1>5 DEF Next, Calls

LEMMA InitFresh == Init => SessionsFresh
BY DEF Init, SessionsFresh, Fresh

LEMMA NextFresh ==
  ASSUME TypeInv, ContractInv, SessionsFresh, [Next]_vars
  PROVE  SessionsFresh'
<1>1. CASE UNCHANGED <<key, sent, faked>>
  BY <1>1 DEF SessionsFresh, Fresh, Wrapped
<1>2. ASSUME NEW c \in Calls, IsSent(c), NotWrappedAfter PROVE Fresh'
  <2>1. sent \in Nat /\ MaxSession \in Nat /\ faked \in Nat /\ \A o \in Calls : key[o] \in Nat
    BY CallsAssumption DEF TypeInv, TypeOK
  <2>2. sent < MaxSession /\ Fresh
    BY <1>2, <2>1 DEF IsSent, NotWrappedAfter, SessionsFresh, Wrapped
  <2>3. key'[c] = sent + 1 /\ \A o \in Calls \ {c} : key'[o] = key[o]
    BY <1>2, <2>2, NextSessionIsNext DEF IsSent, TypeInv, TypeOK
  <2>4. \A o \in Calls \ {c} : key[o] # sent + 1
    BY <2>1, <2>2 DEF Fresh
  <2>5. sent' = sent + 1 /\ faked' = faked
    BY <1>2 DEF IsSent
  <2>6. \A o \in Calls : key'[o] > sent' => key'[o] > MaxSession /\ key'[o] <= MaxSession + faked'
    BY <2>1, <2>2, <2>3, <2>5 DEF Fresh
  <2>7. \A o, d \in Calls : o # d /\ key'[o] # 0 => key'[o] # key'[d]
    BY <2>2, <2>3, <2>4 DEF Fresh
  <2> QED  BY <2>6, <2>7 DEF Fresh
<1>3. ASSUME NEW c \in Calls, IsFaked(c), NotWrappedAfter PROVE Fresh'
  <2>1. sent \in Nat /\ MaxSession \in Nat /\ faked \in Nat /\ \A o \in Calls : key[o] \in Nat
    BY CallsAssumption DEF TypeInv, TypeOK
  <2>2. sent <= MaxSession /\ faked < MaxSession /\ Fresh
    BY <1>3, <2>1 DEF IsFaked, NotWrappedAfter, SessionsFresh, Wrapped
  <2>3. key'[c] = MaxSession + faked + 1 /\ \A o \in Calls \ {c} : key'[o] = key[o]
    BY <1>3, <2>2, NextFakeIsNext DEF IsFaked, TypeInv, TypeOK
  <2>4. \A o \in Calls \ {c} : key[o] # MaxSession + faked + 1
    BY <2>1, <2>2 DEF Fresh
  <2>5. sent' = sent /\ faked' = faked + 1
    BY <1>3 DEF IsFaked
  <2>6. \A o \in Calls : key'[o] > sent' => key'[o] > MaxSession /\ key'[o] <= MaxSession + faked'
    BY <2>1, <2>2, <2>3, <2>5 DEF Fresh
  <2>7. \A o, d \in Calls : o # d /\ key'[o] # 0 => key'[o] # key'[d]
    BY <2>2, <2>3, <2>4 DEF Fresh
  <2> QED  BY <2>6, <2>7 DEF Fresh
<1>4. ~Wrapped' => NotWrappedAfter
  <2>1. sent' \in Nat /\ faked' \in Nat /\ MaxSession \in Nat
    BY NextType, CallsAssumption DEF TypeInv, TypeOK
  <2> QED  BY <2>1 DEF Wrapped, NotWrappedAfter
<1> QED  BY <1>1, <1>2, <1>3, <1>4, KeySteps DEF SessionsFresh

-----------------------------------------------------------------------------
(* Every answer finds its own call, and no entry replaces another.         *)

\* The session of a response is its own call's.
LEMMA FindsItsOwn ==
  ASSUME Fresh, NEW m \in Messages, NEW c \in Calls, key[c] # 0, key[c] = SessionId(m)
  PROVE  m.call = c
<1>1. m.call \in Calls
  BY DEF Messages
<1>2. SessionId(m) = 0 \/ SessionId(m) = key[m.call]
  BY DEF SessionId, Session
<1> QED  BY <1>1, <1>2 DEF Fresh

Paired ==
  /\ \A t \in Threads : pc[t] = "callback" => job[t].outcome.reply.call = job[t].call
  /\ \A s \in SyncCalls : syncAnswer[s] # NoMsg => syncAnswer[s].call = s
  /\ \A c \in Calls : \A i \in DOMAIN outcome[c] :
       outcome[c][i].status = "REMOTE_ERROR" \/ outcome[c][i].reply.call = c
  /\ overwritten = {}

SessionsPaired == ~Wrapped => Paired

\* A step that takes no handler, concludes no call and stores nothing.
QuietStepKind ==
  /\ UNCHANGED <<job, outcome, syncAnswer, overwritten>>
  /\ \A t \in Threads : pc'[t] = "callback" => pc[t] = "callback"

\* The other steps.
BusyStep ==
  \/ \E a \in AsyncCalls : Send(a) \/ NotReachable(a)
  \/ \E s \in SyncCalls : BlockDisconnected(s) \/ SendAndBlock(s) \/ EndWait(s)
  \/ \E t \in Threads : Handle(t) \/ Callback(t) \/ FlushStep(t)

LEMMA StepKinds ==
  ASSUME TypeInv, [Next]_vars
  PROVE  QuietStepKind \/ BusyStep
<1> USE CallsAssumption DEF QuietStepKind, TypeInv, TypeOK
<1>1. ASSUME NEW a \in AsyncCalls,
             \/ CallUnavailable(a) \/ CallAvailable(a) \/ SendDisconnected(a)
             \/ SendRefused(a) \/ NotifyCleanup(a)
      PROVE  QuietStepKind
  BY <1>1 DEF CallUnavailable, CallAvailable, SendDisconnected, SendRefused, NotifyCleanup,
              syncVars, tableVars
<1>2. ASSUME NEW s \in SyncCalls, Check(s) PROVE QuietStepKind
  BY <1>2 DEF Check, tableVars
<1>3. ASSUME (\E d \in Dispatchers : Deliver(d) \/ PushNotice(d)) \/ LoopStep
      PROVE  QuietStepKind
  BY <1>3 DEF Deliver, PushNotice, LoopStep, PopMessage, PopNotice, syncVars, tableVars
<1>4. ASSUME NEW t \in Threads, Receive(t) \/ PushMessage(t) PROVE QuietStepKind
  BY <1>4, AfterMessageUnsent DEF Receive, PushMessage, syncVars, tableVars
<1>5. ASSUME NEW t \in Threads, CancelStep(t) PROVE QuietStepKind
  BY <1>5 DEF CancelStep, WakeBlocked, CollectCancelled, CancelDone, InformProxies,
              syncVars, tableVars
<1>6. ASSUME CleanupStep \/ Environment \/ UNCHANGED vars PROVE QuietStepKind
  BY <1>6 DEF CleanupStep, CleanupTimeout, UpdateTimeout, WaitForTimeout, Environment,
              ServiceChange, ConnectionEvent, Answer, Expire, vars, syncVars, tableVars
<1> HIDE DEF QuietStepKind, TypeInv, TypeOK
<1> QED  BY <1>1, <1>2, <1>3, <1>4, <1>5, <1>6
         DEF Next, CallerStep, BlockedStep, MessageStep, BusyStep

LEMMA PairedAfter ==
  ASSUME TypeInv, Paired, UNCHANGED overwritten,
         \A t \in Threads : pc'[t] = "callback" =>
           \/ pc[t] = "callback" /\ job'[t] = job[t]
           \/ job'[t].outcome.reply.call = job'[t].call,
         \A s \in SyncCalls : \/ syncAnswer'[s] \in {NoMsg, syncAnswer[s]}
                              \/ syncAnswer'[s].call = s,
         \A c \in Calls : \/ outcome'[c] = outcome[c]
                          \/ \E o : /\ outcome'[c] = Append(outcome[c], o)
                                    /\ o.status = "REMOTE_ERROR" \/ o.reply.call = c
  PROVE  Paired'
<1>1. \A t \in Threads : pc'[t] = "callback" => job'[t].outcome.reply.call = job'[t].call
  BY DEF Paired
<1>2. \A s \in SyncCalls : syncAnswer'[s] # NoMsg => syncAnswer'[s].call = s
  BY DEF Paired
<1>3. ASSUME NEW c \in Calls, NEW i \in DOMAIN outcome'[c]
      PROVE  outcome'[c][i].status = "REMOTE_ERROR" \/ outcome'[c][i].reply.call = c
  <2>1. CASE outcome'[c] = outcome[c]
    BY <1>3, <2>1 DEF Paired
  <2>2. ASSUME NEW o, outcome'[c] = Append(outcome[c], o),
               o.status = "REMOTE_ERROR" \/ o.reply.call = c
        PROVE  outcome'[c][i].status = "REMOTE_ERROR" \/ outcome'[c][i].reply.call = c
    <3>1. outcome[c] \in Seq(Outcomes)
      BY DEF TypeInv, TypeOK
    <3>2. (i \in DOMAIN outcome[c] /\ outcome'[c][i] = outcome[c][i]) \/ outcome'[c][i] = o
      BY <1>3, <2>2, <3>1
    <3> QED  BY <2>2, <3>2 DEF Paired
  <2> QED  BY <2>1, <2>2
<1> QED  BY <1>1, <1>2, <1>3 DEF Paired

\* The handler or the blocked call that a response finds.
LEMMA HandlePaired ==
  ASSUME TypeInv, ContractInv, Fresh, Paired, NEW t \in Threads, Handle(t)
  PROVE  Paired'
<1> DEFINE m == msg[t]
           k == SessionId(m)
<1>1. /\ m \in Messages /\ Dispatch(t, m, k) /\ UNCHANGED <<overwritten, outcome>>
  BY DEF Handle, TypeInv, Control
<1>2. CASE AnswerBlocked(t, m, k)
  <2>1. PICK s \in Waiting(k) : syncAnswer' = [syncAnswer EXCEPT ![s] = m]
    BY <1>2 DEF AnswerBlocked
  <2>2. s \in SyncCalls /\ s \in Calls /\ key[s] = k /\ key[s] # 0
    BY <2>1 DEF Waiting, ContractInv, Keys, Calls
  <2>3. m.call = s
    BY <1>1, <2>2, FindsItsOwn
  <2>4. \A u \in SyncCalls : syncAnswer'[u] = syncAnswer[u] \/ syncAnswer'[u].call = u
    BY <2>1, <2>2, <2>3 DEF TypeInv, TypeOK
  <2>5. \A u \in Threads : pc'[u] = "callback" => pc[u] = "callback" /\ job'[u] = job[u]
    BY <1>2, AfterMessageUnsent DEF AnswerBlocked, TypeInv, TypeOK
  <2> QED  BY <1>1, <2>4, <2>5, PairedAfter
<1>3. ASSUME NEW c \in AsyncCalls, Held(c), key[c] = k, NEW status,
             TakeHandler(t, c, status, m)
      PROVE  Paired'
  <2>1. m.call = c
    BY <1>1, <1>3, FindsItsOwn DEF ContractInv, Keys, Calls
  <2>2. job'[t].call = c /\ job'[t].outcome.reply = m
    BY <1>3 DEF TakeHandler, TypeInv, TypeOK
  <2>3. \A u \in Threads \ {t} :
          job'[u] = job[u] /\ (pc'[u] = "callback" => pc[u] = "callback")
    BY <1>3 DEF TakeHandler, TypeInv, TypeOK
  <2>4. syncAnswer' = syncAnswer
    BY <1>3 DEF TakeHandler
  <2> QED  BY <1>1, <2>1, <2>2, <2>3, <2>4, PairedAfter
<1>4. CASE TakeAnswer(t, m, k)
  BY <1>3, <1>4 DEF TakeAnswer, Entry, Held, InTable, TypeInv, TypeOK
<1>5. CASE TakeTimeout(t, m, k)
  BY <1>3, <1>5 DEF TakeTimeout, Entry, Held, InTable, TypeInv, TypeOK
<1>6. CASE DropMessage(t)
  <2>1. \A u \in Threads : pc'[u] = "callback" => pc[u] = "callback" /\ job'[u] = job[u]
    BY <1>6, AfterMessageUnsent DEF DropMessage, TypeInv, TypeOK
  <2> QED  BY <1>1, <1>6, <2>1, PairedAfter DEF DropMessage
<1> QED  BY <1>1, <1>2, <1>4, <1>5, <1>6 DEF Dispatch

\* A new entry has a session id of its own.
LEMMA StorePaired ==
  ASSUME TypeInv, HandlerExclusive, ContractInv, Fresh', Paired,
         NEW a \in AsyncCalls, Send(a) \/ NotReachable(a)
  PROVE  Paired'
<1> USE CallsAssumption
<1>1. PICK k \in Nat \ {0} :
        /\ key' = [key EXCEPT ![a] = k] /\ StoreAnswer(a, k)
        /\ UNCHANGED <<job, outcome, syncAnswer>> /\ pc[a] \in Unsent
        /\ \E next \in {"notify", "receive"} : pc' = [pc EXCEPT ![a] = next]
  <2>1. NextSession \in Nat \ {0} /\ NextFakeSession \in Nat \ {0}
    BY SessionRange, FakeBeyond, CallsAssumption DEF TypeInv, TypeOK
  <2>2. CASE Send(a)
    BY <2>1, <2>2 DEF Send, Transmit, syncVars, Unsent
  <2>3. CASE NotReachable(a)
    BY <2>1, <2>3 DEF NotReachable, syncVars, Unsent
  <2> QED  BY <2>2, <2>3
<1>2. Entry(asyncAnswers, k) = {}
  <2>1. SUFFICES ASSUME NEW c \in asyncAnswers, key[c] = k PROVE FALSE
    BY DEF Entry
  <2>2. c \in Calls /\ a \in Calls /\ c # a
    BY <1>1, <2>1 DEF HandlerExclusive, Held, InTable, TypeInv, TypeOK, Calls
  <2>3. key'[a] = k /\ key'[c] = k /\ k # 0
    BY <1>1, <2>1, <2>2 DEF TypeInv, TypeOK
  <2> QED  BY <2>2, <2>3 DEF Fresh
<1>3. overwritten' = overwritten
  BY <1>1, <1>2 DEF StoreAnswer
<1>4. \A t \in Threads : pc'[t] = "callback" => pc[t] = "callback" /\ job'[t] = job[t]
  BY <1>1 DEF TypeInv, TypeOK
<1> QED  BY <1>1, <1>3, <1>4, PairedAfter

LEMMA CallbackPaired ==
  ASSUME TypeInv, Paired, NEW t \in Threads, Callback(t)
  PROVE  Paired'
<1>1. PICK c \in Calls, o \in Outcomes :
        /\ c = job[t].call /\ o = job[t].outcome /\ pc[t] = "callback"
  BY DEF Callback, TypeInv, Control, Jobs, Calls
<1>2. /\ outcome' = [outcome EXCEPT ![c] = Append(@, o)]
      /\ job' = [job EXCEPT ![t] = NoJob] /\ pc' = [pc EXCEPT ![t] = AfterMessage(t)]
      /\ UNCHANGED <<syncAnswer, overwritten>>
  BY <1>1 DEF Callback, syncVars, tableVars
<1>3. o.reply.call = c
  BY <1>1 DEF Paired
<1>4. outcome'[c] = Append(outcome[c], o) /\ \A x \in Calls \ {c} : outcome'[x] = outcome[x]
  BY <1>2 DEF TypeInv, TypeOK
<1>5. \A u \in Threads : pc'[u] = "callback" => pc[u] = "callback" /\ job'[u] = job[u]
  BY <1>2, AfterMessageUnsent DEF TypeInv, TypeOK
<1> QED  BY <1>2, <1>3, <1>4, <1>5, PairedAfter

\* The response made for an entry is its own.
LEMMA FlushPaired ==
  ASSUME TypeInv, HandlerExclusive, ContractInv, Fresh, Paired, NEW t \in Threads, FlushStep(t)
  PROVE  Paired'
<1>1. CASE FlushToMainLoop(t)
  <2>1. PICK c \in First(batch[t]) : StoreTimeout(c)
    BY <1>1 DEF FlushToMainLoop
  <2>2. c \in batch[t] /\ c \in AsyncCalls /\ c \in Calls
    BY <2>1 DEF First, TypeInv, TypeOK, Calls
  <2>3. key[c] # 0 /\ ~InTable(c)
    BY <2>2 DEF Held, ContractInv, Keys, HandlerExclusive
  <2>4. Entry(asyncTimeouts, key[c]) = {}
    BY <2>2, <2>3 DEF Entry, Fresh, InTable, TypeInv, TypeOK, Calls
  <2>5. /\ pc' = [pc EXCEPT ![t] = "push"]
        /\ UNCHANGED <<job, outcome, syncAnswer>>
    BY <1>1 DEF FlushToMainLoop, syncVars
  <2>6. UNCHANGED overwritten
    BY <2>1, <2>4 DEF StoreTimeout
  <2>7. \A u \in Threads : pc'[u] = "callback" => pc[u] = "callback" /\ job'[u] = job[u]
    BY <2>5 DEF TypeInv, TypeOK
  <2> QED  BY <2>5, <2>6, <2>7, PairedAfter
<1>2. CASE FlushDirectly(t)
  <2>1. PICK c \in First(batch[t]) : TakeHandler(t, c, "REMOTE_ERROR", TimeoutResponse(c))
    BY <1>2 DEF FlushDirectly
  <2>2. job'[t].call = c /\ job'[t].outcome.reply = TimeoutResponse(c)
    BY <2>1 DEF TakeHandler, TypeInv, TypeOK
  <2>3. job'[t].outcome.reply.call = job'[t].call
    BY <2>2 DEF TimeoutResponse
  <2>4. \A u \in Threads \ {t} :
          job'[u] = job[u] /\ (pc'[u] = "callback" => pc[u] = "callback")
    BY <2>1 DEF TakeHandler, TypeInv, TypeOK
  <2>5. UNCHANGED <<outcome, syncAnswer, overwritten>>
    BY <1>2, <2>1 DEF FlushDirectly, TakeHandler, tableVars
  <2> QED  BY <2>3, <2>4, <2>5, PairedAfter
<1> QED  BY <1>1, <1>2 DEF FlushStep

LEMMA BlockedPaired ==
  ASSUME TypeInv, Paired, NEW s \in SyncCalls,
         BlockDisconnected(s) \/ SendAndBlock(s) \/ EndWait(s)
  PROVE  Paired'
<1>1. UNCHANGED <<pc, job, overwritten>> /\ s \in Calls
  BY DEF BlockDisconnected, SendAndBlock, EndWait, tableVars, Calls
<1>2. ASSUME NEW m, Return(s, m), StatusOf(m) = "REMOTE_ERROR" \/ m.call = s PROVE Paired'
  <2> DEFINE o == [status |-> StatusOf(m), reply |-> m]
  <2>1. /\ outcome'[s] = Append(outcome[s], o)
        /\ \A x \in Calls \ {s} : outcome'[x] = outcome[x]
    BY <1>1, <1>2 DEF Return, TypeInv, TypeOK
  <2>2. o.status = "REMOTE_ERROR" \/ o.reply.call = s
    BY <1>2
  <2>3. \A u \in SyncCalls : syncAnswer'[u] \in {NoMsg, syncAnswer[u]}
    BY <1>2 DEF Return, TypeInv, TypeOK
  <2> QED  BY <1>1, <2>1, <2>2, <2>3, PairedAfter
<1>3. StatusOf(NoMsg) = "REMOTE_ERROR"
  BY DEF StatusOf, NoMsg
<1>4. CASE Return(s, NoMsg)
  BY <1>2, <1>3, <1>4
<1>5. CASE Return(s, syncAnswer[s])
  BY <1>2, <1>3, <1>5 DEF Paired
<1>6. CASE UNCHANGED <<syncAnswer, outcome>>
  BY <1>1, <1>6, PairedAfter
<1> QED  BY <1>4, <1>5, <1>6 DEF BlockDisconnected, SendAndBlock, EndWait

\* The session ids wrap around once and for all.
LEMMA WrappedForGood ==
  ASSUME TypeInv, ContractInv, [Next]_vars
  PROVE  Wrapped => Wrapped'
<1>1. /\ sent \in Nat /\ sent' \in {sent, sent + 1} /\ MaxSession \in Nat
      /\ faked \in Nat /\ faked' \in {faked, faked + 1}
  BY KeySteps, CallsAssumption DEF IsSent, IsFaked, TypeInv, TypeOK
<1> QED  BY <1>1 DEF Wrapped

LEMMA NextPaired ==
  ASSUME TypeInv, HandlerExclusive, ContractInv, SessionsFresh, SessionsFresh', SessionsPaired,
         [Next]_vars
  PROVE  SessionsPaired'
<1>1. SUFFICES ASSUME ~Wrapped, ~Wrapped', Fresh, Fresh', Paired PROVE Paired'
  BY WrappedForGood DEF SessionsFresh, SessionsPaired
<1>2. CASE QuietStepKind
  BY <1>1, <1>2, PairedAfter DEF QuietStepKind
<1>3. CASE BusyStep
  BY <1>1, <1>3, StorePaired, BlockedPaired, HandlePaired, CallbackPaired, FlushPaired
     DEF BusyStep
<1> QED  BY <1>2, <1>3, StepKinds

LEMMA InitPaired == Init => SessionsPaired
BY DEF Init, SessionsPaired, Paired, NoMsg, Threads, Calls

SessionsInv == SessionsFresh /\ SessionsPaired

\* Until the session ids wrap around, every call has one of its own and every answer on
\* its way to a caller is to that caller's request.
THEOREM SessionsKept == Spec => [](ContractInv /\ SessionsInv)
<1>1. Init => ContractInv /\ SessionsInv
  BY InitContract, InitFresh, InitPaired DEF SessionsInv
<1>2. TypeInv /\ HandlerExclusive /\ ContractInv /\ SessionsInv /\ [Next]_vars
        => (ContractInv /\ SessionsInv)'
  BY NextContract, NextFresh, NextPaired DEF SessionsInv
<1> QED  BY <1>1, <1>2, TypeCorrect, HandlersExclusive, PTL DEF Spec

\* A call succeeds with the answer to its own request, as long as the session ids have
\* not wrapped around: handleProxyReceive pairs them by session id alone.
THEOREM AnswersAreOwn == Spec => []OwnAnswer
<1>1. SessionsInv => OwnAnswer
  <2>1. SUFFICES ASSUME Paired, NEW c \in Calls, NEW i \in DOMAIN outcome[c],
                        outcome[c][i].status = "SUCCESS"
                 PROVE  outcome[c][i].reply.call = c
    BY DEF SessionsInv, SessionsPaired, OwnAnswer
  <2> QED  BY <2>1 DEF Paired
<1> QED  BY <1>1, SessionsKept, PTL

\* A pending entry is replaced only after the session ids wrapped around; a fake session
\* never collides with a real one.
THEOREM NothingReplaced == Spec => []NoEntryReplaced
<1>1. SessionsInv => NoEntryReplaced
  BY DEF SessionsInv, SessionsPaired, Paired, NoEntryReplaced
<1> QED  BY <1>1, SessionsKept, PTL

-----------------------------------------------------------------------------
(* Where the messages come from.                                           *)

Carried == ({msg[t] : t \in Threads} \cup QueuedMessages \cup net) \cap Messages

\* m is made in this step: an answer, an error message or the response to a time-out.
IsMade(m) ==
  \/ m.call \in requests /\ m.kind \in AnswerKinds
  \/ \E a \in AsyncCalls : NotReachable(a) /\ m = [call |-> a, kind |-> "unreachable"]
  \/ \E t \in Threads, c \in AsyncCalls :
       FlushToMainLoop(t) /\ c \in batch[t] /\ m = TimeoutResponse(c)

LEMMA CarriedOn ==
  ASSUME TypeInv,
         \A t \in Threads : \/ msg'[t] \in {msg[t], NoMsg}
                            \/ msg'[t] \in Messages => msg'[t] \in Carried \/ IsMade(msg'[t]),
         \/ queue' = queue
         \/ queue # <<>> /\ queue' = Tail(queue)
         \/ \E e : queue' = Append(queue, e) /\ (e \in Messages => e \in Carried),
         \A m \in net' : m \in net \/ IsMade(m)
  PROVE  \A m \in Carried' : m \in Carried \/ IsMade(m)
<1>1. \A t \in Threads : msg'[t] \in Messages => msg'[t] \in Carried \/ IsMade(msg'[t])
  <2>1. NoMsg \notin Messages
    BY CallsAssumption DEF NoMsg, Messages
  <2> QED  BY <2>1 DEF Carried
<1>2. \A i \in DOMAIN queue' : queue'[i] \in Messages => queue'[i] \in Carried
  <2>1. queue \in Seq(Messages \cup Notices)
    BY DEF TypeInv, TypeOK
  <2>2. \A i \in DOMAIN queue : queue[i] \in Messages => queue[i] \in Carried
    BY DEF Carried, QueuedMessages
  <2>3. CASE queue' = queue
    BY <2>2, <2>3
  <2>4. CASE queue # <<>> /\ queue' = Tail(queue)
    <3>1. \A i \in DOMAIN queue' : i + 1 \in DOMAIN queue /\ queue'[i] = queue[i + 1]
      BY <2>1, <2>4
    <3> QED  BY <2>2, <3>1
  <2>5. ASSUME NEW e, queue' = Append(queue, e), e \in Messages => e \in Carried
        PROVE  \A i \in DOMAIN queue' : queue'[i] \in Messages => queue'[i] \in Carried
    <3>1. \A i \in DOMAIN queue' : (i \in DOMAIN queue /\ queue'[i] = queue[i]) \/ queue'[i] = e
      BY <2>1, <2>5
    <3> QED  BY <2>2, <2>5, <3>1
  <2> QED  BY <2>3, <2>4, <2>5
<1>3. \A m \in net' : m \in Messages => m \in Carried \/ IsMade(m)
  BY DEF Carried
<1>4. ASSUME NEW m \in Carried' PROVE m \in Carried \/ IsMade(m)
  <2>1. /\ m \in Messages
        /\ \/ \E t \in Threads : m = msg'[t]
           \/ \E i \in DOMAIN queue' : m = queue'[i]
           \/ m \in net'
    BY <1>4 DEF Carried, QueuedMessages
  <2> QED  BY <1>1, <1>2, <1>3, <2>1
<1> QED  BY <1>4

LEMMA CarriedFrom ==
  ASSUME TypeInv, [Next]_vars
  PROVE  \A m \in Carried' : m \in Carried \/ IsMade(m)
<1> USE CallsAssumption
<1>1. ASSUME UNCHANGED <<queue, net>>, \A t \in Threads : msg'[t] \in {msg[t], NoMsg}
      PROVE  \A m \in Carried' : m \in Carried \/ IsMade(m)
  BY <1>1, CarriedOn
<1>2. ASSUME NEW a \in AsyncCalls, NotReachable(a)
      PROVE  \A m \in Carried' : m \in Carried \/ IsMade(m)
  <2>1. /\ msg' = [msg EXCEPT ![a] = [call |-> a, kind |-> "unreachable"]]
        /\ UNCHANGED <<queue, net>>
    BY <1>2 DEF NotReachable
  <2>2. IsMade([call |-> a, kind |-> "unreachable"])
    BY <1>2 DEF IsMade
  <2>3. \A t \in Threads : msg'[t] = msg[t] \/ IsMade(msg'[t])
    BY <2>1, <2>2 DEF TypeInv, TypeOK
  <2> QED  BY <2>1, <2>3, CarriedOn
<1>3. ASSUME NEW a \in AsyncCalls, CallerStep(a) \/ NotifyCleanup(a), ~NotReachable(a)
      PROVE  \A m \in Carried' : m \in Carried \/ IsMade(m)
  BY <1>1, <1>3 DEF CallerStep, CallUnavailable, CallAvailable, SendDisconnected, SendRefused,
                    Send, NotifyCleanup
<1>4. ASSUME NEW s \in SyncCalls, BlockedStep(s)
      PROVE  \A m \in Carried' : m \in Carried \/ IsMade(m)
  BY <1>1, <1>4 DEF BlockedStep, Check, BlockDisconnected, SendAndBlock, EndWait
<1>5. ASSUME NEW d \in Dispatchers, Deliver(d)
      PROVE  \A m \in Carried' : m \in Carried \/ IsMade(m)
  <2>1. PICK m \in net : net' = net \ {m} /\ msg' = [msg EXCEPT ![d] = m] /\ queue' = queue
    BY <1>5 DEF Deliver
  <2>2. m \in Carried
    BY DEF Carried, TypeInv, TypeOK
  <2>3. \A t \in Threads : msg'[t] = msg[t] \/ msg'[t] \in Carried
    BY <2>1, <2>2 DEF TypeInv, TypeOK
  <2> QED  BY <2>1, <2>3, CarriedOn
<1>6. ASSUME NEW d \in Dispatchers, PushNotice(d)
      PROVE  \A m \in Carried' : m \in Carried \/ IsMade(m)
  <2>1. /\ pc[d] = "announce" /\ queue' = Append(queue, notice[d]) /\ UNCHANGED <<msg, net>>
    BY <1>6 DEF PushNotice
  <2>2. notice[d] \notin Messages
    BY <2>1 DEF TypeInv, Control, Notices, Messages, Threads
  <2> QED  BY <2>1, <2>2, CarriedOn
<1>7. CASE LoopStep
  <2>1. queue # <<>> /\ queue' = Tail(queue) /\ net' = net
        /\ (msg' = msg \/ (Head(queue) \in Messages /\ msg' = [msg EXCEPT ![Loop] = Head(queue)]))
    BY <1>7 DEF LoopStep, PopMessage, PopNotice
  <2>2. Head(queue) \in Messages => Head(queue) \in Carried
    <3>1. queue \in Seq(Messages \cup Notices)
      BY DEF TypeInv, TypeOK
    <3>2. 1 \in DOMAIN queue /\ Head(queue) = queue[1]
      BY <2>1, <3>1
    <3> QED  BY <3>2 DEF Carried, QueuedMessages
  <2>3. \A t \in Threads : msg'[t] = msg[t] \/ msg'[t] \in Carried
    BY <2>1, <2>2 DEF TypeInv, TypeOK
  <2> QED  BY <2>1, <2>3, CarriedOn
<1>8. ASSUME NEW t \in Threads, PushMessage(t)
      PROVE  \A m \in Carried' : m \in Carried \/ IsMade(m)
  <2>1. /\ queue' = Append(queue, msg[t]) /\ msg' = [msg EXCEPT ![t] = NoMsg] /\ net' = net
    BY <1>8 DEF PushMessage
  <2>2. msg[t] \in Messages => msg[t] \in Carried
    BY DEF Carried
  <2>3. \A u \in Threads : msg'[u] \in {msg[u], NoMsg}
    BY <2>1 DEF TypeInv, TypeOK
  <2> QED  BY <2>1, <2>2, <2>3, CarriedOn
<1>9. ASSUME NEW t \in Threads, Receive(t) \/ Handle(t) \/ Callback(t)
      PROVE  \A m \in Carried' : m \in Carried \/ IsMade(m)
  <2>1. UNCHANGED <<queue, net>> /\ (msg' = msg \/ msg' = [msg EXCEPT ![t] = NoMsg])
    BY <1>9 DEF Receive, Handle, Callback
  <2> QED  BY <1>1, <2>1 DEF TypeInv, TypeOK
<1>10. ASSUME NEW t \in Threads, FlushToMainLoop(t)
      PROVE  \A m \in Carried' : m \in Carried \/ IsMade(m)
  <2>1. PICK c \in First(batch[t]) : msg' = [msg EXCEPT ![t] = TimeoutResponse(c)]
    BY <1>10 DEF FlushToMainLoop
  <2>2. c \in batch[t] /\ c \in AsyncCalls /\ UNCHANGED <<queue, net>>
    BY <1>10, <2>1 DEF FlushToMainLoop, First, TypeInv, TypeOK
  <2>3. IsMade(TimeoutResponse(c))
    BY <1>10, <2>2 DEF IsMade
  <2>4. \A u \in Threads : msg'[u] = msg[u] \/ IsMade(msg'[u])
    BY <2>1, <2>3 DEF TypeInv, TypeOK
  <2> QED  BY <2>2, <2>4, CarriedOn
<1>11. ASSUME NEW t \in Threads, CancelStep(t) \/ FlushDirectly(t)
      PROVE  \A m \in Carried' : m \in Carried \/ IsMade(m)
  BY <1>1, <1>11 DEF CancelStep, WakeBlocked, CollectCancelled, CancelDone, InformProxies,
                     FlushDirectly
<1>12. ASSUME NEW c \in Calls, Answer(c)
      PROVE  \A m \in Carried' : m \in Carried \/ IsMade(m)
  <2>1. PICK kind \in AnswerKinds : net' = net \cup {[call |-> c, kind |-> kind]}
    BY <1>12 DEF Answer
  <2>2. IsMade([call |-> c, kind |-> kind])
    BY <1>12 DEF IsMade, Answer
  <2>3. UNCHANGED <<msg, queue>>
    BY <1>12 DEF Answer
  <2> QED  BY <2>1, <2>2, <2>3, CarriedOn
<1>13. ASSUME CleanupStep \/ (Environment /\ ~\E c \in Calls : Answer(c)) \/ UNCHANGED vars
      PROVE  \A m \in Carried' : m \in Carried \/ IsMade(m)
  BY <1>1, <1>13 DEF CleanupStep, CleanupTimeout, UpdateTimeout, WaitForTimeout, Environment,
                     ServiceChange, ConnectionEvent, Expire, vars
<1> QED  BY <1>2, <1>3, <1>4, <1>5, <1>6, <1>7, <1>8, <1>9, <1>10, <1>11, <1>12, <1>13
         DEF Next, MessageStep, FlushStep

-----------------------------------------------------------------------------
(* No answer for a blocked call is queued behind the main loop that waits for it. *)

\* A message is queued by the thread that is at it.
LEMMA QueuedFrom ==
  ASSUME TypeInv, [Next]_vars
  PROVE  \A m \in QueuedMessages' :
           m \in QueuedMessages \/ \E t \in Threads : pc[t] = "push" /\ m = msg[t]
<1>1. queue \in Seq(Messages \cup Notices)
  BY DEF TypeInv, TypeOK
<1>2. \/ queue' = queue
      \/ queue # <<>> /\ queue' = Tail(queue)
      \/ \E e \in Notices : queue' = Append(queue, e)
      \/ \E t \in Threads : pc[t] = "push" /\ queue' = Append(queue, msg[t])
  <2>1. ASSUME NEW a \in AsyncCalls, CallerStep(a) \/ NotifyCleanup(a) PROVE queue' = queue
    BY <2>1 DEF CallerStep, CallUnavailable, CallAvailable, NotReachable, SendDisconnected,
                SendRefused, Send, NotifyCleanup
  <2>2. ASSUME NEW s \in SyncCalls, BlockedStep(s) PROVE queue' = queue
    BY <2>2 DEF BlockedStep, Check, BlockDisconnected, SendAndBlock, EndWait
  <2>3. ASSUME NEW d \in Dispatchers, Deliver(d) PROVE queue' = queue
    BY <2>3 DEF Deliver
  <2>4. ASSUME NEW d \in Dispatchers, PushNotice(d)
        PROVE  notice[d] \in Notices /\ queue' = Append(queue, notice[d])
    BY <2>4, CallsAssumption DEF PushNotice, TypeInv, Control, Threads
  <2>5. ASSUME NEW t \in Threads, PushMessage(t)
        PROVE  pc[t] = "push" /\ queue' = Append(queue, msg[t])
    BY <2>5 DEF PushMessage
  <2>6. ASSUME NEW t \in Threads,
               Receive(t) \/ Handle(t) \/ Callback(t) \/ CancelStep(t) \/ FlushStep(t)
        PROVE  queue' = queue
    BY <2>6 DEF Receive, Handle, Callback, CancelStep, WakeBlocked, CollectCancelled, CancelDone,
                InformProxies, FlushStep, FlushToMainLoop, FlushDirectly
  <2>7. CASE LoopStep
    BY <2>7 DEF LoopStep, PopMessage, PopNotice
  <2>8. ASSUME CleanupStep \/ Environment \/ UNCHANGED vars PROVE queue' = queue
    BY <2>8 DEF CleanupStep, CleanupTimeout, UpdateTimeout, WaitForTimeout, Environment,
                ServiceChange, ConnectionEvent, Answer, Expire, vars
  <2> QED  BY <2>1, <2>2, <2>3, <2>4, <2>5, <2>6, <2>7, <2>8 DEF Next, MessageStep
<1>3. SUFFICES ASSUME NEW i \in DOMAIN queue', queue'[i] \in Messages
               PROVE  \/ \E j \in DOMAIN queue : queue'[i] = queue[j]
                      \/ \E t \in Threads : pc[t] = "push" /\ queue'[i] = msg[t]
  BY DEF QueuedMessages
<1>4. CASE queue # <<>> /\ queue' = Tail(queue)
  <2>1. i + 1 \in DOMAIN queue /\ queue'[i] = queue[i + 1]
    BY <1>1, <1>3, <1>4
  <2> QED  BY <2>1
<1>5. ASSUME NEW e, queue' = Append(queue, e)
      PROVE  (i \in DOMAIN queue /\ queue'[i] = queue[i]) \/ queue'[i] = e
  BY <1>1, <1>3, <1>5
<1>6. \A e \in Notices : e \notin Messages
  BY DEF Notices, Messages
<1> QED  BY <1>2, <1>3, <1>4, <1>5, <1>6

\* A thread is about to queue a message that is not for a blocked call, or the response
\* to a time-out.
LEMMA PushFrom ==
  ASSUME TypeInv, [Next]_vars, NEW t \in Threads, pc'[t] = "push"
  PROVE  \/ pc[t] = "push" /\ msg'[t] = msg[t]
         \/ pc[t] = "receive" /\ msg'[t] = msg[t] /\ ~IsSendAndBlockAnswer(msg[t])
         \/ msg'[t].call \in AsyncCalls
<1> USE CallsAssumption DEF TypeInv, TypeOK
<1>1. ASSUME NEW a \in AsyncCalls, CallerStep(a) \/ NotifyCleanup(a)
      PROVE  pc[t] = "push" /\ msg'[t] = msg[t]
  BY <1>1 DEF CallerStep, CallUnavailable, CallAvailable, NotReachable, SendDisconnected,
              SendRefused, Send, NotifyCleanup
<1>2. ASSUME NEW s \in SyncCalls, BlockedStep(s) PROVE pc[t] = "push" /\ msg'[t] = msg[t]
  BY <1>2 DEF BlockedStep, Check, BlockDisconnected, SendAndBlock, EndWait
<1>3. ASSUME (\E d \in Dispatchers : Deliver(d) \/ PushNotice(d)) \/ LoopStep
      PROVE  pc[t] = "push" /\ msg'[t] = msg[t]
  BY <1>3 DEF Deliver, PushNotice, LoopStep, PopMessage, PopNotice
<1>4. \A u \in Threads : AfterMessage(u) # "push"
  BY DEF AfterMessage
<1>5. ASSUME NEW u \in Threads, Receive(u)
      PROVE  \/ pc[t] = "push" /\ msg'[t] = msg[t]
             \/ pc[t] = "receive" /\ msg'[t] = msg[t] /\ ~IsSendAndBlockAnswer(msg[t])
  BY <1>5 DEF Receive
<1>6. ASSUME NEW u \in Threads, PushMessage(u) \/ Callback(u)
      PROVE  pc[t] = "push" /\ msg'[t] = msg[t]
  BY <1>4, <1>6 DEF PushMessage, Callback
<1>7. ASSUME NEW u \in Threads, Handle(u) PROVE pc[t] = "push" /\ msg'[t] = msg[t]
  <2>1. \E next : pc' = [pc EXCEPT ![u] = next] /\ next # "push"
    BY <1>4, <1>7 DEF Handle, Dispatch, AnswerBlocked, TakeAnswer, TakeTimeout, TakeHandler,
                      DropMessage
  <2>2. msg' = [msg EXCEPT ![u] = NoMsg]
    BY <1>7 DEF Handle
  <2> QED  BY <2>1, <2>2
<1>8. ASSUME NEW u \in Threads, CancelStep(u) \/ FlushDirectly(u)
      PROVE  pc[t] = "push" /\ msg'[t] = msg[t]
  BY <1>8 DEF CancelStep, WakeBlocked, CollectCancelled, CancelDone, InformProxies,
              FlushDirectly, TakeHandler
<1>9. ASSUME NEW u \in Threads, FlushToMainLoop(u)
      PROVE  (pc[t] = "push" /\ msg'[t] = msg[t]) \/ msg'[t].call \in AsyncCalls
  BY <1>9 DEF FlushToMainLoop, First, TimeoutResponse
<1>10. ASSUME CleanupStep \/ Environment \/ UNCHANGED vars
       PROVE  pc[t] = "push" /\ msg'[t] = msg[t]
  BY <1>10 DEF CleanupStep, CleanupTimeout, UpdateTimeout, WaitForTimeout, Environment,
               ServiceChange, ConnectionEvent, Answer, Expire, vars
<1> QED  BY <1>1, <1>2, <1>3, <1>5, <1>6, <1>7, <1>8, <1>9, <1>10
         DEF Next, MessageStep, FlushStep

Late == {"waiting", "done"}

\* A blocked call only goes forward, and is requested as it starts to wait or gives up.
LEMMA SyncOnward ==
  ASSUME TypeInv, [Next]_vars, NEW s \in SyncCalls
  PROVE  /\ sync[s] \in Late => sync'[s] \in Late
         /\ sync[s] = "done" => sync'[s] = "done"
         /\ s \in requests' => s \in requests \/ sync'[s] \in Late
<1> USE CallsAssumption DEF TypeInv, TypeOK, Late
<1>1. ASSUME NEW a \in AsyncCalls, CallerStep(a) \/ NotifyCleanup(a)
      PROVE  sync'[s] = sync[s] /\ (s \in requests' => s \in requests)
  BY <1>1 DEF CallerStep, CallUnavailable, CallAvailable, NotReachable, SendDisconnected,
              SendRefused, Send, Transmit, NotifyCleanup, syncVars, callVars
<1>2. ASSUME NEW o \in SyncCalls, Check(o) \/ BlockDisconnected(o) \/ EndWait(o)
      PROVE  /\ sync[s] \in Late => sync'[s] \in Late
             /\ sync[s] = "done" => sync'[s] = "done"
             /\ requests' = requests
  BY <1>2 DEF Check, BlockDisconnected, EndWait, Return, callVars
<1>3. ASSUME NEW o \in SyncCalls, SendAndBlock(o)
      PROVE  /\ sync[s] \in Late => sync'[s] \in Late
             /\ sync[s] = "done" => sync'[s] = "done"
             /\ s \in requests' => s \in requests \/ sync'[s] \in Late
  <2>1. PICK next \in Late : sync' = [sync EXCEPT ![o] = next] /\ sync[o] = "checked"
    BY <1>3 DEF SendAndBlock, Return
  <2>2. requests' = requests \cup {o}
    BY <1>3 DEF SendAndBlock, Transmit
  <2> QED  BY <2>1, <2>2
<1>4. ASSUME \/ \E d \in Dispatchers : Deliver(d) \/ PushNotice(d)
             \/ \E t \in Threads : MessageStep(t) \/ CancelStep(t) \/ FlushStep(t)
             \/ LoopStep
      PROVE  sync' = sync /\ requests' = requests
  BY <1>4 DEF Deliver, PushNotice, MessageStep, Receive, PushMessage, Handle, Callback,
              CancelStep, WakeBlocked, CollectCancelled, CancelDone, InformProxies, FlushStep,
              FlushToMainLoop, FlushDirectly, LoopStep, PopMessage, PopNotice, syncVars, callVars
<1>5. ASSUME CleanupStep \/ Environment \/ UNCHANGED vars
      PROVE  sync' = sync /\ (s \in requests' => s \in requests)
  BY <1>5 DEF CleanupStep, CleanupTimeout, UpdateTimeout, WaitForTimeout, Environment,
              ServiceChange, ConnectionEvent, Answer, Expire, vars, syncVars, callVars
<1> QED  BY <1>1, <1>2, <1>3, <1>4, <1>5 DEF Next, BlockedStep

\* A message for a blocking call exists once the call was sent; while the call waits the
\* message is in nobody's way.
Bypass ==
  /\ \A s \in SyncCalls : s \in requests => sync[s] \in Late
  /\ \A m \in Carried : m.call \in SyncCalls => sync[m.call] \in Late
  /\ \A m \in QueuedMessages : m.call \in SyncCalls => sync[m.call] = "done"
  /\ \A t \in Threads : pc[t] = "push" /\ msg[t].call \in SyncCalls => sync[msg[t].call] = "done"

LEMMA NextBypass ==
  ASSUME TypeInv, ContractInv, Bypass, [Next]_vars
  PROVE  Bypass'
<1> USE CallsAssumption
<1>1. \A s \in SyncCalls : s \in requests' => sync'[s] \in Late
  BY SyncOnward DEF Bypass
<1>2. ASSUME NEW m \in Carried', m.call \in SyncCalls PROVE sync'[m.call] \in Late
  <2>1. m \in Carried \/ m.call \in requests
    BY <1>2, CarriedFrom DEF IsMade, TimeoutResponse
  <2> QED  BY <1>2, <2>1, SyncOnward DEF Bypass
<1>3. ASSUME NEW m \in QueuedMessages', m.call \in SyncCalls PROVE sync'[m.call] = "done"
  BY <1>3, QueuedFrom, SyncOnward DEF Bypass
<1>4. ASSUME NEW t \in Threads, pc'[t] = "push", NEW s \in SyncCalls, msg'[t].call = s
      PROVE  sync'[s] = "done"
  <2>1. s \notin AsyncCalls /\ s \in Calls
    BY DEF Calls
  <2>2. CASE pc[t] = "push" /\ msg'[t] = msg[t]
    BY <1>4, <2>2, SyncOnward DEF Bypass
  <2>3. CASE pc[t] = "receive" /\ msg'[t] = msg[t] /\ ~IsSendAndBlockAnswer(msg[t])
    <3>1. msg[t] \in Carried /\ msg[t].call = s
      BY <1>4, <2>3 DEF Carried, TypeInv, Control
    <3>2. sync[s] \in Late
      BY <3>1 DEF Bypass
    <3>3. sync[s] # "waiting"
      <4>1. SUFFICES ASSUME sync[s] = "waiting" PROVE FALSE
        OBVIOUS
      <4>2. Session(msg[t]) = key[s]
        BY <3>1, <4>1 DEF Session, ContractInv, Keys
      <4>3. s \in Waiting(Session(msg[t]))
        BY <4>1, <4>2 DEF Waiting
      <4> QED  BY <2>3, <4>3 DEF IsSendAndBlockAnswer
    <3> QED  BY <3>2, <3>3, SyncOnward DEF Late
  <2> QED  BY <1>4, <2>1, <2>2, <2>3, PushFrom
<1> QED  BY <1>1, <1>2, <1>3, <1>4 DEF Bypass

LEMMA InitBypass == Init => Bypass
BY CallsAssumption DEF Init, Bypass, Carried, QueuedMessages, NoMsg, Calls, Messages, Threads

\* "avoid blocking the mainloop when a synchronous call in a callback was done"
\* (Connection.cpp:43): the answer of a blocked call is never in the queue behind it,
\* whatever the session ids do.
THEOREM MainLoopBypassed == Spec => []NoAnswerBehindMainLoop
<1>1. Init => Bypass
  BY InitBypass
<1>2. TypeInv /\ ContractInv /\ Bypass /\ [Next]_vars => Bypass'
  BY NextBypass
<1>3. Bypass => NoAnswerBehindMainLoop
  BY DEF Bypass, NoAnswerBehindMainLoop
<1>4. Spec => []ContractInv
  BY SessionsKept, PTL
<1> QED  BY <1>1, <1>2, <1>3, <1>4, TypeCorrect, PTL DEF Spec


-----------------------------------------------------------------------------
(* A call fails only for a reason of its own.                              *)

\* The service of c has become unavailable, or the time of c passed and c has no entry in
\* asyncAnswers_ any more.
Blamed(c) ==
  \/ ServiceOf[c] \in fell
  \/ c \in expired /\ c \notin asyncAnswers /\ (c \in AsyncCalls => pc[c] \notin Unsent)

\* What the steps may do to the parts of Blamed.
OnlyForward ==
  /\ fell \subseteq fell'
  /\ \A c \in expired : c \in expired' \/ c \in asyncAnswers
  /\ \A c \in asyncAnswers' : c \in asyncAnswers \/ pc[c] \in Unsent
  /\ \A a \in AsyncCalls : pc'[a] \in Unsent => pc[a] \in Unsent

LEMMA Forward ==
  ASSUME TypeInv, [Next]_vars
  PROVE  OnlyForward
<1> USE CallsAssumption DEF TypeInv, TypeOK, OnlyForward
<1>1. ASSUME NEW a \in AsyncCalls, CallerStep(a) \/ NotifyCleanup(a)
      PROVE  OnlyForward
  <2>1. UNCHANGED <<fell, expired>>
    BY <1>1 DEF CallerStep, CallUnavailable, CallAvailable, NotReachable, SendDisconnected,
                SendRefused, Send, NotifyCleanup, timerVars, envVars
  <2>2. \/ asyncAnswers' = asyncAnswers
        \/ asyncAnswers' \subseteq asyncAnswers \cup {a} /\ pc[a] \in Unsent
    BY <1>1 DEF CallerStep, CallUnavailable, CallAvailable, NotReachable, SendDisconnected,
                SendRefused, Send, NotifyCleanup, StoreAnswer, tableVars, Unsent
  <2>3. /\ \A o \in AsyncCalls \ {a} : pc'[o] = pc[o]
        /\ pc'[a] \in Unsent => pc[a] \in Unsent
    BY <1>1 DEF CallerStep, CallUnavailable, CallAvailable, NotReachable, SendDisconnected,
                SendRefused, Send, NotifyCleanup, Unsent, Threads
  <2> QED  BY <2>1, <2>2, <2>3
<1>2. ASSUME NEW s \in SyncCalls, BlockedStep(s) PROVE OnlyForward
  BY <1>2 DEF BlockedStep, Check, BlockDisconnected, SendAndBlock, EndWait, tableVars, timerVars,
              envVars
<1>3. ASSUME UNCHANGED <<fell, expired>>, asyncAnswers' \subseteq asyncAnswers,
             NEW t \in Threads, NEW next, pc' = [pc EXCEPT ![t] = next],
             t \in AsyncCalls => next \notin Unsent
      PROVE  OnlyForward
  BY <1>3 DEF Threads
<1>4. ASSUME NEW d \in Dispatchers, Deliver(d) \/ PushNotice(d) PROVE OnlyForward
  BY <1>3, <1>4 DEF Deliver, PushNotice, tableVars, timerVars, envVars, Threads
<1>5. CASE LoopStep
  BY <1>3, <1>5 DEF LoopStep, PopMessage, PopNotice, tableVars, timerVars, envVars, Threads
<1>6. ASSUME NEW t \in Threads, Receive(t) \/ PushMessage(t) \/ Callback(t) PROVE OnlyForward
  BY <1>3, <1>6, AfterMessageUnsent
     DEF Receive, PushMessage, Callback, tableVars, timerVars, envVars, Unsent
<1>7. ASSUME NEW t \in Threads, Handle(t) PROVE OnlyForward
  <2>1. /\ asyncAnswers' \subseteq asyncAnswers
        /\ \E next \in {"callback", AfterMessage(t)} : pc' = [pc EXCEPT ![t] = next]
    BY <1>7 DEF Handle, Dispatch, AnswerBlocked, TakeAnswer, TakeTimeout, TakeHandler, DropMessage
  <2>2. UNCHANGED <<fell, expired>>
    BY <1>7 DEF Handle, timerVars, envVars
  <2> QED  BY <1>3, <2>1, <2>2, AfterMessageUnsent DEF Unsent
<1>8. ASSUME NEW t \in Threads, CancelStep(t) \/ FlushStep(t) PROVE OnlyForward
  <2>1. t \notin AsyncCalls
    BY <1>8 DEF CancelStep, WakeBlocked, CollectCancelled, CancelDone, InformProxies, FlushStep,
                FlushToMainLoop, FlushDirectly, Control
  <2>2. UNCHANGED <<fell, expired>> /\ asyncAnswers' \subseteq asyncAnswers
    BY <1>8 DEF CancelStep, WakeBlocked, CollectCancelled, CancelDone, InformProxies, FlushStep,
                FlushToMainLoop, FlushDirectly, tableVars, timerVars, envVars
  <2>3. \E next : pc' = [pc EXCEPT ![t] = next]
    BY <1>8 DEF CancelStep, WakeBlocked, CollectCancelled, CancelDone, InformProxies, FlushStep,
                FlushToMainLoop, FlushDirectly, TakeHandler
  <2> QED  BY <1>3, <2>1, <2>2, <2>3
<1>9. CASE CleanupStep
  <2>1. fell' = fell /\ asyncAnswers' \subseteq asyncAnswers
        /\ \A c \in expired : c \in expired' \/ c \in asyncAnswers
    BY <1>9 DEF CleanupStep, CleanupTimeout, UpdateTimeout, WaitForTimeout, tableVars, timerVars,
                envVars
  <2>2. \E next : pc' = [pc EXCEPT ![Cleaner] = next]
    BY <1>9 DEF CleanupStep, CleanupTimeout, UpdateTimeout, WaitForTimeout
  <2> QED  BY <2>1, <2>2 DEF Threads
<1>10. ASSUME NEW d \in Dispatchers, NEW s \in Services, ServiceChange(d, s) PROVE OnlyForward
  BY <1>10 DEF ServiceChange, tableVars, timerVars, Threads
<1>11. ASSUME ConnectionEvent \/ (\E c \in Calls : Answer(c) \/ Expire(c)) \/ UNCHANGED vars
       PROVE  OnlyForward
  BY <1>11 DEF ConnectionEvent, Answer, Expire, vars, tableVars, timerVars, envVars
<1> HIDE DEF TypeInv, TypeOK, OnlyForward
<1> QED  BY <1>1, <1>2, <1>4, <1>5, <1>6, <1>7, <1>8, <1>9, <1>10, <1>11
         DEF Next, MessageStep, Environment

LEMMA BlamedOnward ==
  ASSUME TypeInv, [Next]_vars, NEW c \in Calls, Blamed(c)
  PROVE  Blamed(c)'
<1>1. OnlyForward
  BY Forward
<1>2. asyncAnswers' \subseteq AsyncCalls
  BY NextType DEF TypeInv, TypeOK
<1> QED  BY <1>1, <1>2 DEF Blamed, OnlyForward

\* A service that is not available, or of which a thread or the queue says so, has
\* become unavailable.
Fallen ==
  /\ \A s \in Services : ~available[s] => s \in fell
  /\ \A t \in Threads : pc[t] \in {"announce", "wake", "collect"} /\ ~notice[t].up =>
       notice[t].service \in fell
  /\ \A i \in DOMAIN queue :
       queue[i] \in Notices /\ ~queue[i].up => queue[i].service \in fell
  /\ \A t \in Threads : pc[t] \in {"wake", "collect"} => ~notice[t].up

LEMMA FallenQueue ==
  ASSUME TypeInv, Fallen, fell \subseteq fell',
         \/ queue' = queue
         \/ queue # <<>> /\ queue' = Tail(queue)
         \/ \E e : /\ queue' = Append(queue, e)
                   /\ e \in Notices /\ ~e.up => e.service \in fell'
  PROVE  \A i \in DOMAIN queue' :
           queue'[i] \in Notices /\ ~queue'[i].up => queue'[i].service \in fell'
<1>1. queue \in Seq(Messages \cup Notices)
  BY DEF TypeInv, TypeOK
<1>2. \A i \in DOMAIN queue :
        queue[i] \in Notices /\ ~queue[i].up => queue[i].service \in fell'
  BY DEF Fallen
<1>3. CASE queue # <<>> /\ queue' = Tail(queue)
  <2>1. \A i \in DOMAIN queue' : i + 1 \in DOMAIN queue /\ queue'[i] = queue[i + 1]
    BY <1>1, <1>3
  <2> QED  BY <1>2, <2>1
<1>4. ASSUME NEW e, queue' = Append(queue, e), e \in Notices /\ ~e.up => e.service \in fell'
      PROVE  \A i \in DOMAIN queue' :
               queue'[i] \in Notices /\ ~queue'[i].up => queue'[i].service \in fell'
  <2>1. \A i \in DOMAIN queue' : (i \in DOMAIN queue /\ queue'[i] = queue[i]) \/ queue'[i] = e
    BY <1>1, <1>4
  <2> QED  BY <1>2, <1>4, <2>1
<1> QED  BY <1>2, <1>3, <1>4

LEMMA FallenKept ==
  ASSUME TypeInv, Fallen, UNCHANGED <<available, fell, notice>>,
         \A t \in Threads : /\ pc'[t] = "announce" => pc[t] = "announce"
                            /\ pc'[t] \in {"wake", "collect"} => pc[t] \in {"wake", "collect"},
         \/ queue' = queue
         \/ \E m \in Messages : queue' = Append(queue, m)
  PROVE  Fallen'
<1>1. \A m \in Messages : m \notin Notices
  BY DEF Messages, Notices
<1>2. \A i \in DOMAIN queue' :
        queue'[i] \in Notices /\ ~queue'[i].up => queue'[i].service \in fell'
  BY <1>1, FallenQueue
<1> QED  BY <1>2 DEF Fallen

LEMMA NextFallen ==
  ASSUME TypeInv, Fallen, [Next]_vars
  PROVE  Fallen'
<1> USE CallsAssumption
<1>1. ASSUME NEW a \in AsyncCalls, CallerStep(a) \/ NotifyCleanup(a) PROVE Fallen'
  <2>1. /\ UNCHANGED <<available, fell, notice, queue>>
        /\ \E next \in {"deferred", "send", "done", "notify", "receive"} :
             pc' = [pc EXCEPT ![a] = next]
    BY <1>1 DEF CallerStep, CallUnavailable, CallAvailable, NotReachable, SendDisconnected,
                SendRefused, Send, NotifyCleanup, envVars
  <2> QED  BY <2>1, FallenKept DEF TypeInv, TypeOK
<1>2. ASSUME NEW s \in SyncCalls, BlockedStep(s) PROVE Fallen'
  BY <1>2, FallenKept DEF BlockedStep, Check, BlockDisconnected, SendAndBlock, EndWait, envVars
<1>3. ASSUME NEW t \in Threads, UNCHANGED <<available, fell, notice>>,
             NEW next, next \notin {"announce", "wake", "collect"}, pc' = [pc EXCEPT ![t] = next],
             queue' = queue \/ \E m \in Messages : queue' = Append(queue, m)
      PROVE  Fallen'
  BY <1>3, FallenKept DEF TypeInv, TypeOK
<1>4. ASSUME NEW d \in Dispatchers, Deliver(d) PROVE Fallen'
  BY <1>3, <1>4 DEF Deliver, envVars, Threads
<1>5. \A t \in Threads : AfterMessage(t) \notin {"announce", "wake", "collect"}
  BY DEF AfterMessage
<1>6. ASSUME NEW t \in Threads, Receive(t) \/ PushMessage(t) \/ Callback(t) PROVE Fallen'
  BY <1>3, <1>5, <1>6 DEF Receive, PushMessage, Callback, envVars, TypeInv, Control
<1>7. ASSUME NEW t \in Threads, Handle(t) PROVE Fallen'
  <2>1. /\ UNCHANGED <<available, fell, notice, queue>>
        /\ \E next \in {"callback", AfterMessage(t)} : pc' = [pc EXCEPT ![t] = next]
    BY <1>7 DEF Handle, Dispatch, AnswerBlocked, TakeAnswer, TakeTimeout, TakeHandler, DropMessage,
                envVars
  <2> QED  BY <1>3, <1>5, <2>1
<1>8. ASSUME NEW t \in Threads, CollectCancelled(t) \/ CancelDone(t) \/ FlushStep(t) PROVE Fallen'
  <2>1. /\ UNCHANGED <<available, fell, notice, queue>>
        /\ \E next \in {"flush", "inform", "push", "callback"} : pc' = [pc EXCEPT ![t] = next]
    BY <1>8 DEF CollectCancelled, CancelDone, FlushStep, FlushToMainLoop, FlushDirectly, TakeHandler,
                envVars
  <2> QED  BY <1>3, <2>1
<1>9. ASSUME NEW t \in Threads, WakeBlocked(t) PROVE Fallen'
  BY <1>9, FallenKept DEF WakeBlocked, envVars, TypeInv, TypeOK
<1>11. ASSUME NEW t \in Threads, InformProxies(t) PROVE Fallen'
  <2>1. /\ UNCHANGED <<available, fell, queue>>
        /\ notice' = [notice EXCEPT ![t] = NoNotice] /\ pc' = [pc EXCEPT ![t] = "idle"]
    BY <1>11 DEF InformProxies, envVars
  <2> QED  BY <2>1 DEF Fallen, TypeInv, TypeOK
<1>12. CASE CleanupStep
  <2>1. /\ UNCHANGED <<available, fell, notice, queue>> /\ Cleaner \in Threads
        /\ \E next \in {"flush", "armed", "waiting"} : pc' = [pc EXCEPT ![Cleaner] = next]
    BY <1>12 DEF CleanupStep, CleanupTimeout, UpdateTimeout, WaitForTimeout, envVars, Threads
  <2> QED  BY <1>3, <2>1
<1>13. CASE PopMessage
  <2>1. /\ UNCHANGED <<available, fell, notice>> /\ Loop \in Threads
        /\ queue # <<>> /\ queue' = Tail(queue) /\ pc' = [pc EXCEPT ![Loop] = "handle"]
    BY <1>13 DEF PopMessage, envVars, Threads
  <2>2. \A i \in DOMAIN queue' :
          queue'[i] \in Notices /\ ~queue'[i].up => queue'[i].service \in fell'
    BY <2>1, FallenQueue
  <2> QED  BY <2>1, <2>2 DEF Fallen, TypeInv, TypeOK
<1>14. CASE PopNotice
  <2>1. /\ UNCHANGED <<available, fell>> /\ Loop \in Threads
        /\ queue # <<>> /\ queue' = Tail(queue) /\ Head(queue) \in Notices
        /\ notice' = [notice EXCEPT ![Loop] = Head(queue)]
        /\ pc' = [pc EXCEPT ![Loop] = IF Head(queue).up THEN "inform" ELSE "wake"]
    BY <1>14 DEF PopNotice, envVars, Threads
  <2>2. \A i \in DOMAIN queue' :
          queue'[i] \in Notices /\ ~queue'[i].up => queue'[i].service \in fell'
    BY <2>1, FallenQueue
  <2>3. ~Head(queue).up => Head(queue).service \in fell
    <3>1. queue \in Seq(Messages \cup Notices)
      BY DEF TypeInv, TypeOK
    <3>2. 1 \in DOMAIN queue /\ Head(queue) = queue[1]
      BY <2>1, <3>1
    <3> QED  BY <2>1, <3>2 DEF Fallen
  <2> QED  BY <2>1, <2>2, <2>3 DEF Fallen, TypeInv, TypeOK
<1>15. ASSUME NEW d \in Dispatchers, PushNotice(d) PROVE Fallen'
  <2>1. /\ UNCHANGED <<available, fell>> /\ d \in Threads
        /\ queue' = Append(queue, notice[d]) /\ pc[d] = "announce"
        /\ notice' = [notice EXCEPT ![d] = NoNotice] /\ pc' = [pc EXCEPT ![d] = "idle"]
    BY <1>15 DEF PushNotice, envVars, Threads
  <2>2. \A i \in DOMAIN queue' :
          queue'[i] \in Notices /\ ~queue'[i].up => queue'[i].service \in fell'
    <3>1. notice[d] \in Notices /\ ~notice[d].up => notice[d].service \in fell'
      BY <2>1 DEF Fallen
    <3> QED  BY <2>1, <3>1, FallenQueue
  <2> QED  BY <2>1, <2>2 DEF Fallen, TypeInv, TypeOK
<1>16. ASSUME NEW d \in Dispatchers, NEW s \in Services, ServiceChange(d, s) PROVE Fallen'
  <2>1. /\ available' = [available EXCEPT ![s] = ~@] /\ queue' = queue /\ d \in Threads
        /\ fell' = (IF available[s] THEN fell \cup {s} ELSE fell)
        /\ notice' = [notice EXCEPT ![d] = [service |-> s, up |-> ~available[s]]]
    BY <1>16 DEF ServiceChange, Threads
  <2>2. /\ \A t \in Threads \ {d} : pc'[t] = pc[t] /\ notice'[t] = notice[t]
        /\ pc'[d] \in {"wake", "collect"} => available[s]
        /\ notice'[d] = [service |-> s, up |-> ~available[s]]
    BY <1>16, <2>1 DEF ServiceChange, TypeInv, TypeOK
  <2>3. \A o \in Services : ~available'[o] => o \in fell'
    BY <2>1 DEF Fallen, TypeInv, TypeOK
  <2>4. \A t \in Threads : pc'[t] \in {"announce", "wake", "collect"} /\ ~notice'[t].up =>
          notice'[t].service \in fell'
    BY <2>1, <2>2 DEF Fallen
  <2>5. \A t \in Threads : pc'[t] \in {"wake", "collect"} => ~notice'[t].up
    <3>1. pc'[d] \in {"wake", "collect"} => ~notice'[d].up
      <4>1. SUFFICES ASSUME available[s] PROVE ~notice'[d].up
        BY <2>2
      <4>2. notice'[d].up = ~available[s]
        BY <2>2
      <4> QED  BY <4>1, <4>2
    <3> QED  BY <2>2, <3>1 DEF Fallen
  <2>6. fell \subseteq fell'
    BY <2>1
  <2> QED  BY <2>1, <2>3, <2>4, <2>5, <2>6 DEF Fallen
<1>17. ASSUME ConnectionEvent \/ (\E c \in Calls : Answer(c) \/ Expire(c)) \/ UNCHANGED vars
       PROVE  Fallen'
  <2>1. UNCHANGED <<available, fell, notice, queue, pc>>
    BY <1>17 DEF ConnectionEvent, Answer, Expire, vars, envVars
  <2> QED  BY <2>1, FallenKept
<1> QED  BY <1>1, <1>2, <1>4, <1>6, <1>7, <1>8, <1>9, <1>11, <1>12, <1>13, <1>14, <1>15, <1>16,
            <1>17 DEF Next, MessageStep, CancelStep, LoopStep, Environment

LEMMA InitFallen == Init => Fallen
<1> SUFFICES ASSUME Init PROVE Fallen
  OBVIOUS
<1>1. /\ fell = {s \in Services : ~available[s]} /\ queue = <<>>
      /\ \A t \in Threads : pc[t] \in {"idle", "armed"}
  BY DEF Init
<1> QED  BY <1>1 DEF Fallen

\* Only a call with a reason is taken out of asyncAnswers_ without its answer, and only
\* such a call has a response to a time-out made for it.
Blame ==
  /\ \A t \in Threads : \A c \in batch[t] : Blamed(c)
  /\ \A c \in asyncTimeouts : Blamed(c)
  /\ \A m \in Carried : m.kind = "timeout" => Blamed(m.call)
  /\ \A s \in SyncCalls, c \in Calls : syncAnswer[s] = TimeoutResponse(c) => Blamed(c)
  /\ \A a \in AsyncCalls : a \in expired \cup armed => pc[a] \notin Unsent

\* A thread takes the entries of a service that is down, or those whose time passed.
LEMMA BatchFrom ==
  ASSUME TypeInv, [Next]_vars, NEW t \in Threads, NEW c \in batch'[t]
  PROVE  \/ c \in batch[t]
         \/ CollectCancelled(t) /\ c \in Cancelled(t)
         \/ CleanupTimeout /\ c \in asyncAnswers /\ c \in expired' /\ c \notin asyncAnswers'
<1> USE DEF TypeInv, TypeOK
<1>1. ASSUME NEW a \in AsyncCalls, CallerStep(a) \/ NotifyCleanup(a) PROVE batch' = batch
  BY <1>1 DEF CallerStep, CallUnavailable, CallAvailable, NotReachable, SendDisconnected,
              SendRefused, Send, NotifyCleanup
<1>2. ASSUME NEW s \in SyncCalls, BlockedStep(s) PROVE batch' = batch
  BY <1>2 DEF BlockedStep, Check, BlockDisconnected, SendAndBlock, EndWait
<1>3. ASSUME \/ \E d \in Dispatchers : Deliver(d) \/ PushNotice(d)
             \/ \E u \in Threads : MessageStep(u)
             \/ LoopStep
      PROVE  batch' = batch
  BY <1>3 DEF Deliver, PushNotice, MessageStep, Receive, PushMessage, Handle, Callback, LoopStep,
              PopMessage, PopNotice
<1>4. ASSUME NEW u \in Threads, WakeBlocked(u) \/ CancelDone(u) \/ InformProxies(u)
      PROVE  batch' = batch
  BY <1>4 DEF WakeBlocked, CancelDone, InformProxies
<1>5. ASSUME NEW u \in Threads, CollectCancelled(u)
      PROVE  c \in batch[t] \/ (CollectCancelled(t) /\ c \in Cancelled(t))
  <2>1. batch' = [batch EXCEPT ![u] = Cancelled(u)]
    BY <1>5 DEF CollectCancelled
  <2> QED  BY <1>5, <2>1
<1>6. ASSUME NEW u \in Threads, FlushStep(u) PROVE c \in batch[t]
  <2>1. \E taken : batch' = [batch EXCEPT ![u] = @ \ {taken}]
    BY <1>6 DEF FlushStep, FlushToMainLoop, FlushDirectly
  <2> QED  BY <2>1
<1>7. ASSUME CleanupTimeout
      PROVE  \/ c \in batch[t]
             \/ CleanupTimeout /\ c \in asyncAnswers /\ c \in expired' /\ c \notin asyncAnswers'
  <2>1. PICK late \in SUBSET ((asyncAnswers \cap expired) \cap warning) :
          LET prolonged == ((asyncAnswers \cap expired) \cap warning) \ late
              taken == (asyncAnswers \cap expired) \ prolonged
          IN  /\ batch' = [batch EXCEPT ![Cleaner] = taken]
              /\ asyncAnswers' = asyncAnswers \ taken
              /\ expired' = expired \ prolonged
    BY <1>7 DEF CleanupTimeout
  <2> QED  BY <1>7, <2>1
<1>8. ASSUME UpdateTimeout \/ WaitForTimeout \/ Environment \/ UNCHANGED vars
      PROVE  batch' = batch
  BY <1>8 DEF UpdateTimeout, WaitForTimeout, Environment, ServiceChange, ConnectionEvent, Answer,
              Expire, vars
<1> HIDE DEF TypeInv, TypeOK
<1> QED  BY <1>1, <1>2, <1>3, <1>4, <1>5, <1>6, <1>7, <1>8 DEF Next, CancelStep, CleanupStep

\* An entry gets into asyncTimeouts_ from the thread that took it, an answer to a blocked
\* call from the message that a thread handles, and only an entry's time can pass.
EntriesOnly ==
  /\ \A c \in asyncTimeouts' : c \in asyncTimeouts \/ \E t \in Threads : c \in batch[t]
  /\ \A s \in SyncCalls :
       syncAnswer'[s] \in {syncAnswer[s], NoMsg} \/ syncAnswer'[s] \in Carried
  /\ \A a \in AsyncCalls :
       a \in expired' \cup armed' => a \in expired \cup armed \cup asyncAnswers

LEMMA TimesFrom ==
  ASSUME TypeInv, [Next]_vars
  PROVE  EntriesOnly
<1> USE CallsAssumption DEF TypeInv, TypeOK, EntriesOnly
<1>1. ASSUME NEW a \in AsyncCalls, CallerStep(a) \/ NotifyCleanup(a) PROVE EntriesOnly
  <2>1. UNCHANGED <<asyncTimeouts, syncAnswer, expired, armed>>
    BY <1>1 DEF CallerStep, CallUnavailable, CallAvailable, NotReachable, SendDisconnected,
                SendRefused, Send, NotifyCleanup, syncVars, tableVars, timerVars
  <2> QED  BY <2>1
<1>2. ASSUME NEW s \in SyncCalls, BlockedStep(s) PROVE EntriesOnly
  <2>1. UNCHANGED <<asyncTimeouts, expired, armed>>
    BY <1>2 DEF BlockedStep, Check, BlockDisconnected, SendAndBlock, EndWait, tableVars, timerVars
  <2>2. syncAnswer' = syncAnswer \/ syncAnswer' = [syncAnswer EXCEPT ![s] = NoMsg]
    BY <1>2 DEF BlockedStep, Check, BlockDisconnected, SendAndBlock, EndWait, Return
  <2> QED  BY <2>1, <2>2
<1>3. ASSUME \/ \E d \in Dispatchers : Deliver(d) \/ PushNotice(d)
             \/ \E t \in Threads : Receive(t) \/ PushMessage(t) \/ Callback(t)
             \/ LoopStep
      PROVE  EntriesOnly
  <2>1. UNCHANGED <<asyncTimeouts, syncAnswer, expired, armed>>
    BY <1>3 DEF Deliver, PushNotice, Receive, PushMessage, Callback, LoopStep, PopMessage, PopNotice,
                syncVars, tableVars, timerVars
  <2> QED  BY <2>1
<1>4. ASSUME NEW t \in Threads, Handle(t) PROVE EntriesOnly
  <2>1. UNCHANGED <<expired, armed>> /\ asyncTimeouts' \subseteq asyncTimeouts /\ pc[t] = "handle"
    BY <1>4 DEF Handle, Dispatch, AnswerBlocked, TakeAnswer, TakeTimeout, DropMessage, timerVars
  <2>2. syncAnswer' = syncAnswer \/ \E s \in SyncCalls : syncAnswer' = [syncAnswer EXCEPT ![s] = msg[t]]
    BY <1>4 DEF Handle, Dispatch, AnswerBlocked, TakeAnswer, TakeTimeout, TakeHandler, DropMessage,
                Waiting
  <2>3. msg[t] \in Carried
    BY <2>1 DEF Carried, Control
  <2> QED  BY <2>1, <2>2, <2>3
<1>5. ASSUME NEW t \in Threads, CancelStep(t) \/ FlushDirectly(t) PROVE EntriesOnly
  <2>1. UNCHANGED <<asyncTimeouts, syncAnswer, expired, armed>>
    BY <1>5 DEF CancelStep, WakeBlocked, CollectCancelled, CancelDone, InformProxies, FlushDirectly,
                TakeHandler, syncVars, tableVars, timerVars
  <2> QED  BY <2>1
<1>6. ASSUME NEW t \in Threads, FlushToMainLoop(t) PROVE EntriesOnly
  <2>1. UNCHANGED <<syncAnswer, expired, armed>>
    BY <1>6 DEF FlushToMainLoop, syncVars, timerVars
  <2>2. \A c \in asyncTimeouts' : c \in asyncTimeouts \/ c \in batch[t]
    BY <1>6 DEF FlushToMainLoop, StoreTimeout, First
  <2> QED  BY <2>1, <2>2
<1>7. CASE CleanupStep
  <2>1. UNCHANGED <<asyncTimeouts, syncAnswer>>
    BY <1>7 DEF CleanupStep, CleanupTimeout, UpdateTimeout, WaitForTimeout, syncVars, tableVars
  <2>2. expired' \subseteq expired /\ armed' \subseteq armed \cup asyncAnswers
    BY <1>7 DEF CleanupStep, CleanupTimeout, UpdateTimeout, WaitForTimeout, timerVars
  <2> QED  BY <2>1, <2>2
<1>8. ASSUME NEW c \in Calls, Expire(c) PROVE EntriesOnly
  <2>1. UNCHANGED <<asyncTimeouts, syncAnswer, armed>>
    BY <1>8 DEF Expire, syncVars, tableVars
  <2>2. \A a \in AsyncCalls : a \in expired' => a \in expired \cup armed \cup asyncAnswers
    BY <1>8 DEF Expire
  <2> QED  BY <2>1, <2>2
<1>9. ASSUME \/ ConnectionEvent \/ (\E c \in Calls : Answer(c)) \/ UNCHANGED vars
             \/ \E d \in Dispatchers, s \in Services : ServiceChange(d, s)
      PROVE  EntriesOnly
  <2>1. UNCHANGED <<asyncTimeouts, syncAnswer, expired, armed>>
    BY <1>9 DEF ConnectionEvent, Answer, ServiceChange, vars, syncVars, tableVars, timerVars
  <2> QED  BY <2>1
<1> HIDE DEF TypeInv, TypeOK, EntriesOnly
<1>10. EntriesOnly
  BY <1>1, <1>2, <1>3, <1>4, <1>5, <1>6, <1>7, <1>8, <1>9
     DEF Next, MessageStep, FlushStep, Environment
<1> QED  BY <1>10

LEMMA NextBlame ==
  ASSUME TypeInv, HandlerExclusive, Fallen, Blame, [Next]_vars
  PROVE  Blame'
<1> USE CallsAssumption
<1>1. TypeInv'
  BY NextType
<1>2. ASSUME NEW t \in Threads, NEW c \in batch'[t] PROVE Blamed(c)'
  <2>1. c \in Calls /\ c \in AsyncCalls
    BY <1>1, <1>2 DEF TypeInv, TypeOK, Calls
  <2>2. CASE c \in batch[t]
    BY <2>1, <2>2, BlamedOnward DEF Blame
  <2>3. CASE CollectCancelled(t) /\ c \in Cancelled(t)
    <3>1. pc[t] = "collect" /\ ServiceOf[c] = notice[t].service /\ fell' = fell
      BY <2>3 DEF CollectCancelled, Cancelled, envVars
    <3>2. ServiceOf[c] \in fell'
      BY <3>1 DEF Fallen
    <3> QED  BY <3>2 DEF Blamed
  <2>4. CASE CleanupTimeout /\ c \in asyncAnswers /\ c \in expired' /\ c \notin asyncAnswers'
    <3>1. pc[c] \notin Unsent /\ c \in Threads
      BY <2>1, <2>4 DEF HandlerExclusive, Held, InTable, Threads
    <3>2. pc'[c] \notin Unsent
      BY <2>1, <3>1, Forward DEF OnlyForward
    <3> QED  BY <2>4, <3>2 DEF Blamed
  <2> QED  BY <1>2, <2>2, <2>3, <2>4, BatchFrom
<1>3. ASSUME NEW c \in asyncTimeouts' PROVE Blamed(c)'
  <2>1. c \in Calls
    BY <1>1, <1>3 DEF TypeInv, TypeOK, Calls
  <2> QED  BY <1>3, <2>1, TimesFrom, BlamedOnward DEF Blame, EntriesOnly
<1>4. ASSUME NEW m \in Carried', m.kind = "timeout" PROVE Blamed(m.call)'
  <2>1. m.call \in Calls
    BY <1>4 DEF Carried, Messages
  <2>2. CASE m \in Carried
    BY <1>4, <2>1, <2>2, BlamedOnward DEF Blame
  <2>3. CASE IsMade(m)
    <3>1. PICK t \in Threads, c \in AsyncCalls : c \in batch[t] /\ m = TimeoutResponse(c)
      BY <1>4, <2>3 DEF IsMade
    <3>2. Blamed(m.call)
      BY <3>1 DEF TimeoutResponse, Blame
    <3> QED  BY <2>1, <3>2, BlamedOnward
  <2> QED  BY <1>4, <2>2, <2>3, CarriedFrom
<1>5. ASSUME NEW s \in SyncCalls, NEW c \in Calls, syncAnswer'[s] = TimeoutResponse(c)
      PROVE  Blamed(c)'
  <2>1. TimeoutResponse(c) # NoMsg /\ TimeoutResponse(c).kind = "timeout"
        /\ TimeoutResponse(c).call = c
    BY DEF TimeoutResponse, NoMsg
  <2>2. syncAnswer[s] = TimeoutResponse(c) \/ TimeoutResponse(c) \in Carried
    BY <1>5, <2>1, TimesFrom DEF EntriesOnly
  <2>3. Blamed(c)
    BY <2>1, <2>2 DEF Blame
  <2> QED  BY <2>3, BlamedOnward
<1>6. ASSUME NEW a \in AsyncCalls, a \in expired' \cup armed' PROVE pc'[a] \notin Unsent
  <2>1. pc[a] \notin Unsent
    BY <1>6, TimesFrom DEF EntriesOnly, Blame, HandlerExclusive, Held, InTable
  <2> QED  BY <2>1, Forward DEF OnlyForward
<1> QED  BY <1>2, <1>3, <1>4, <1>5, <1>6 DEF Blame

LEMMA InitBlame == Init => Blame
<1> SUFFICES ASSUME Init PROVE Blame
  OBVIOUS
<1>1. /\ \A t \in Threads : batch[t] = {} /\ msg[t] = NoMsg
      /\ asyncTimeouts = {} /\ expired = {} /\ armed = {} /\ net = {} /\ queue = <<>>
      /\ \A s \in SyncCalls : syncAnswer[s] = NoMsg
  BY DEF Init
<1>2. NoMsg \notin Messages /\ \A c \in Calls : TimeoutResponse(c) # NoMsg
  BY CallsAssumption DEF NoMsg, Messages, TimeoutResponse
<1>3. Carried = {}
  BY <1>1, <1>2 DEF Carried, QueuedMessages
<1> QED  BY <1>1, <1>2, <1>3 DEF Blame

\* A failure that a caller was told, or is about to be, has its reason.
Reason(c, o) ==
  \/ o.reply = [call |-> c, kind |-> "error"]
  \/ Blamed(c)
  \/ c \in SyncCalls /\ key[c] = 0 /\ sync[c] = "done"

Reasons ==
  /\ \A t \in Threads :
       pc[t] = "callback" /\ job[t].outcome.status = "REMOTE_ERROR"
         => \A c \in Calls : c = job[t].call => Reason(c, job[t].outcome)
  /\ \A c \in Calls : \A i \in DOMAIN outcome[c] :
       outcome[c][i].status = "REMOTE_ERROR" => Reason(c, outcome[c][i])

ReasonAfter(c, o) ==
  \/ o.reply = [call |-> c, kind |-> "error"]
  \/ ServiceOf[c] \in fell'
  \/ c \in expired' /\ c \notin asyncAnswers' /\ (c \in AsyncCalls => pc'[c] \notin Unsent)
  \/ c \in SyncCalls /\ key'[c] = 0 /\ sync'[c] = "done"

\* A call that returned has its session id for good.
LEMMA KeySettled ==
  ASSUME TypeInv, [Next]_vars, NEW s \in SyncCalls, sync[s] = "done"
  PROVE  key'[s] = key[s]
<1> USE CallsAssumption DEF TypeInv, TypeOK
<1>1. ASSUME NEW a \in AsyncCalls, CallerStep(a) \/ NotifyCleanup(a) PROVE key'[s] = key[s]
  <2>1. a # s
    OBVIOUS
  <2>2. key' = key \/ \E k : key' = [key EXCEPT ![a] = k]
    BY <1>1 DEF CallerStep, CallUnavailable, CallAvailable, NotReachable, SendDisconnected,
                SendRefused, Send, Transmit, NotifyCleanup, callVars
  <2> QED  BY <2>1, <2>2 DEF Calls
<1>2. ASSUME NEW o \in SyncCalls, BlockedStep(o) PROVE key'[s] = key[s]
  <2>1. key' = key \/ (o # s /\ \E k : key' = [key EXCEPT ![o] = k])
    BY <1>2 DEF BlockedStep, Check, BlockDisconnected, SendAndBlock, Transmit, EndWait, callVars
  <2> QED  BY <2>1 DEF Calls
<1>3. ASSUME \/ \E d \in Dispatchers : Deliver(d) \/ PushNotice(d)
             \/ \E t \in Threads : MessageStep(t) \/ CancelStep(t) \/ FlushStep(t)
             \/ LoopStep
      PROVE  key' = key
  BY <1>3 DEF Deliver, PushNotice, MessageStep, Receive, PushMessage, Handle, Callback,
              CancelStep, WakeBlocked, CollectCancelled, CancelDone, InformProxies, FlushStep,
              FlushToMainLoop, FlushDirectly, LoopStep, PopMessage, PopNotice, callVars
<1>4. ASSUME CleanupStep \/ Environment \/ UNCHANGED vars PROVE key' = key
  BY <1>4 DEF CleanupStep, CleanupTimeout, UpdateTimeout, WaitForTimeout, Environment,
              ServiceChange, ConnectionEvent, Answer, Expire, vars, callVars
<1> QED  BY <1>1, <1>2, <1>3, <1>4 DEF Next

LEMMA ReasonOnward ==
  ASSUME TypeInv, [Next]_vars, NEW c \in Calls, NEW o, Reason(c, o)
  PROVE  ReasonAfter(c, o)
<1>1. CASE Blamed(c)
  BY <1>1, BlamedOnward DEF Blamed, ReasonAfter
<1>2. CASE c \in SyncCalls /\ key[c] = 0 /\ sync[c] = "done"
  BY <1>2, KeySettled, SyncOnward DEF ReasonAfter
<1> QED  BY <1>1, <1>2 DEF Reason, ReasonAfter

LEMMA ReasonsAfter ==
  ASSUME TypeInv, Reasons, [Next]_vars,
         \A t \in Threads : pc'[t] = "callback" =>
           \/ pc[t] = "callback" /\ job'[t] = job[t]
           \/ job'[t].outcome.status # "REMOTE_ERROR"
           \/ ReasonAfter(job'[t].call, job'[t].outcome),
         \A c \in Calls : \/ outcome'[c] = outcome[c]
                          \/ \E o : /\ outcome'[c] = Append(outcome[c], o)
                                    /\ o.status = "REMOTE_ERROR" => ReasonAfter(c, o)
  PROVE  Reasons'
<1>1. ASSUME NEW t \in Threads, pc'[t] = "callback", job'[t].outcome.status = "REMOTE_ERROR",
             NEW c \in Calls, c = job'[t].call
      PROVE  ReasonAfter(c, job'[t].outcome)
  BY <1>1, ReasonOnward DEF Reasons
<1>2. ASSUME NEW c \in Calls, NEW i \in DOMAIN outcome'[c], outcome'[c][i].status = "REMOTE_ERROR"
      PROVE  ReasonAfter(c, outcome'[c][i])
  <2>1. CASE outcome'[c] = outcome[c]
    BY <1>2, <2>1, ReasonOnward DEF Reasons
  <2>2. ASSUME NEW o, outcome'[c] = Append(outcome[c], o),
               o.status = "REMOTE_ERROR" => ReasonAfter(c, o)
        PROVE  ReasonAfter(c, outcome'[c][i])
    <3>1. outcome[c] \in Seq(Outcomes)
      BY DEF TypeInv, TypeOK
    <3>2. (i \in DOMAIN outcome[c] /\ outcome'[c][i] = outcome[c][i]) \/ outcome'[c][i] = o
      BY <1>2, <2>2, <3>1
    <3> QED  BY <1>2, <2>2, <3>2, ReasonOnward DEF Reasons
  <2> QED  BY <2>1, <2>2
<1> QED  BY <1>1, <1>2 DEF Reasons, Reason, ReasonAfter, Blamed

\* An answer fails its own call with the service's error or with the response to a
\* time-out, which was made for a call to blame.
LEMMA AnswerReason ==
  ASSUME TypeInv, Blame, NEW m \in Messages, StatusOf(m) = "REMOTE_ERROR",
         m \in Carried \/ \E s \in SyncCalls : syncAnswer[s] = m
  PROVE  Reason(m.call, [status |-> "REMOTE_ERROR", reply |-> m])
<1>1. m.call \in Calls /\ m.kind \in {"error", "timeout"} /\ m = [call |-> m.call, kind |-> m.kind]
  BY DEF Messages, Kinds, StatusOf
<1>2. CASE m.kind = "error"
  BY <1>1, <1>2 DEF Reason
<1>3. CASE m.kind = "timeout"
  BY <1>1, <1>3 DEF Blame, Reason, TimeoutResponse
<1> QED  BY <1>1, <1>2, <1>3

LEMMA HandleReasons ==
  ASSUME TypeInv, ContractInv, Fresh, Blame, Reasons, [Next]_vars, NEW t \in Threads, Handle(t)
  PROVE  Reasons'
<1> DEFINE m == msg[t]
           k == SessionId(m)
<1>1. /\ m \in Messages /\ m \in Carried /\ Dispatch(t, m, k) /\ UNCHANGED outcome
  BY DEF Handle, TypeInv, Control, Carried
<1>2. ASSUME pc' = [pc EXCEPT ![t] = AfterMessage(t)], UNCHANGED job PROVE Reasons'
  <2>1. \A u \in Threads : pc'[u] = "callback" => pc[u] = "callback" /\ job'[u] = job[u]
    BY <1>2, AfterMessageUnsent DEF TypeInv, TypeOK
  <2> QED  BY <1>1, <2>1, ReasonsAfter
<1>3. ASSUME NEW c \in Calls, NEW status, TakeHandler(t, c, status, m),
             status = "REMOTE_ERROR" => Reason(c, [status |-> status, reply |-> m])
      PROVE  Reasons'
  <2>1. job'[t].call = c /\ job'[t].outcome = [status |-> status, reply |-> m]
    BY <1>3 DEF TakeHandler, TypeInv, TypeOK
  <2>2. job'[t].outcome.status # "REMOTE_ERROR" \/ ReasonAfter(job'[t].call, job'[t].outcome)
    BY <1>3, <2>1, ReasonOnward
  <2>3. \A u \in Threads \ {t} :
          job'[u] = job[u] /\ (pc'[u] = "callback" => pc[u] = "callback")
    BY <1>3 DEF TakeHandler, TypeInv, TypeOK
  <2> QED  BY <1>1, <2>2, <2>3, ReasonsAfter
<1>4. CASE TakeAnswer(t, m, k)
  <2>1. PICK c \in Entry(asyncAnswers, k) : TakeHandler(t, c, StatusOf(m), m)
    BY <1>4 DEF TakeAnswer
  <2>2. c \in Calls /\ m.call = c
    <3>1. c \in Calls /\ key[c] # 0 /\ key[c] = k
      BY <2>1 DEF Entry, ContractInv, Keys, Held, InTable, TypeInv, TypeOK, Calls
    <3> QED  BY <1>1, <3>1, FindsItsOwn
  <2>3. StatusOf(m) = "REMOTE_ERROR" => Reason(c, [status |-> StatusOf(m), reply |-> m])
    BY <1>1, <2>2, AnswerReason
  <2> QED  BY <1>3, <2>1, <2>2, <2>3
<1>5. CASE TakeTimeout(t, m, k)
  <2>1. PICK c \in Entry(asyncTimeouts, k) : TakeHandler(t, c, "REMOTE_ERROR", m)
    BY <1>5 DEF TakeTimeout
  <2>2. c \in Calls /\ Blamed(c)
    BY <2>1 DEF Entry, Blame, TypeInv, TypeOK, Calls
  <2> QED  BY <1>3, <2>1, <2>2 DEF Reason
<1> QED  BY <1>1, <1>2, <1>4, <1>5 DEF Dispatch, AnswerBlocked, DropMessage

LEMMA FlushReasons ==
  ASSUME TypeInv, Blame, Reasons, [Next]_vars, NEW t \in Threads, FlushStep(t)
  PROVE  Reasons'
<1>1. CASE FlushToMainLoop(t)
  <2>1. pc' = [pc EXCEPT ![t] = "push"] /\ UNCHANGED <<job, outcome>>
    BY <1>1 DEF FlushToMainLoop
  <2>2. \A u \in Threads : pc'[u] = "callback" => pc[u] = "callback" /\ job'[u] = job[u]
    BY <2>1 DEF TypeInv, TypeOK
  <2> QED  BY <2>1, <2>2, ReasonsAfter
<1>2. CASE FlushDirectly(t)
  <2>1. PICK c \in First(batch[t]) : TakeHandler(t, c, "REMOTE_ERROR", TimeoutResponse(c))
    BY <1>2 DEF FlushDirectly
  <2>2. c \in batch[t] /\ c \in Calls
    BY <2>1 DEF First, TypeInv, TypeOK, Calls
  <2>3. job'[t].call = c
    BY <2>1 DEF TakeHandler, TypeInv, TypeOK
  <2>4. ReasonAfter(job'[t].call, job'[t].outcome)
    <3>1. Reason(c, job'[t].outcome)
      BY <2>2 DEF Blame, Reason
    <3> QED  BY <2>2, <2>3, <3>1, ReasonOnward
  <2>5. \A u \in Threads \ {t} :
          job'[u] = job[u] /\ (pc'[u] = "callback" => pc[u] = "callback")
    BY <2>1 DEF TakeHandler, TypeInv, TypeOK
  <2>6. UNCHANGED outcome
    BY <1>2 DEF FlushDirectly
  <2> QED  BY <2>4, <2>5, <2>6, ReasonsAfter
<1> QED  BY <1>1, <1>2 DEF FlushStep

LEMMA CallbackReasons ==
  ASSUME TypeInv, Reasons, [Next]_vars, NEW t \in Threads, Callback(t)
  PROVE  Reasons'
<1>1. PICK c \in Calls, o \in Outcomes :
        /\ c = job[t].call /\ o = job[t].outcome /\ pc[t] = "callback"
  BY DEF Callback, TypeInv, Control, Jobs, Calls
<1>2. /\ outcome' = [outcome EXCEPT ![c] = Append(@, o)]
      /\ job' = [job EXCEPT ![t] = NoJob] /\ pc' = [pc EXCEPT ![t] = AfterMessage(t)]
  BY <1>1 DEF Callback
<1>3. o.status = "REMOTE_ERROR" => ReasonAfter(c, o)
  BY <1>1, ReasonOnward DEF Reasons
<1>4. outcome'[c] = Append(outcome[c], o) /\ \A x \in Calls \ {c} : outcome'[x] = outcome[x]
  BY <1>2 DEF TypeInv, TypeOK
<1>5. \A u \in Threads : pc'[u] = "callback" => pc[u] = "callback" /\ job'[u] = job[u]
  BY <1>2, AfterMessageUnsent DEF TypeInv, TypeOK
<1> QED  BY <1>3, <1>4, <1>5, ReasonsAfter

\* A blocked call gives up because it was not sent, its service is down or its time ran
\* out: another call never waits for its session id.
LEMMA BlockedReasons ==
  ASSUME TypeInv, ContractInv, Fresh', Paired, Fallen, Blame, Reasons, [Next]_vars,
         NEW s \in SyncCalls, BlockDisconnected(s) \/ SendAndBlock(s) \/ EndWait(s)
  PROVE  Reasons'
<1>1. UNCHANGED <<pc, job>> /\ s \in Calls /\ s \notin AsyncCalls
  BY CallsAssumption DEF BlockDisconnected, SendAndBlock, EndWait, Calls
<1>2. CASE UNCHANGED outcome
  BY <1>1, <1>2, ReasonsAfter
<1>3. ASSUME NEW m, Return(s, m),
             StatusOf(m) = "REMOTE_ERROR" =>
               ReasonAfter(s, [status |-> StatusOf(m), reply |-> m])
      PROVE  Reasons'
  <2>1. /\ outcome'[s] = Append(outcome[s], [status |-> StatusOf(m), reply |-> m])
        /\ \A x \in Calls \ {s} : outcome'[x] = outcome[x]
    BY <1>1, <1>3 DEF Return, TypeInv, TypeOK
  <2> QED  BY <1>1, <1>3, <2>1, ReasonsAfter
<1>4. CASE BlockDisconnected(s)
  <2>1. key'[s] = 0 /\ Return(s, NoMsg)
    BY <1>4 DEF BlockDisconnected, ContractInv, Keys, callVars
  <2>2. sync'[s] = "done"
    BY <2>1 DEF Return, TypeInv, TypeOK
  <2> QED  BY <1>3, <2>1, <2>2 DEF ReasonAfter
<1>5. ASSUME ServiceOf[s] \in fell, NEW o PROVE ReasonAfter(s, o)
  <2>1. Reason(s, o)
    BY <1>5 DEF Reason, Blamed
  <2> QED  BY <1>1, <2>1, ReasonOnward
<1>6. ~available[ServiceOf[s]] => ServiceOf[s] \in fell
  BY <1>1, CallsAssumption DEF Fallen
<1>7. CASE SendAndBlock(s)
  <2>1. SUFFICES ASSUME Return(s, NoMsg), Waiting(NextSession) # {} \/ ~available[ServiceOf[s]]
                 PROVE  Reasons'
    BY <1>2, <1>7 DEF SendAndBlock
  <2>2. Waiting(NextSession) = {}
    <3>1. SUFFICES ASSUME NEW u \in Waiting(NextSession) PROVE FALSE
      OBVIOUS
    <3>2. /\ key' = [key EXCEPT ![s] = NextSession] /\ sync[s] = "checked"
          /\ u \in SyncCalls /\ sync[u] = "waiting" /\ key[u] = NextSession
      BY <1>7, <3>1 DEF SendAndBlock, Transmit, Waiting
    <3>3. u \in Calls /\ u # s /\ key[u] # 0
      BY <3>2 DEF Calls, ContractInv, Keys
    <3>4. key'[u] = key'[s] /\ key'[u] # 0
      BY <1>1, <3>2, <3>3 DEF TypeInv, TypeOK
    <3> QED  BY <1>1, <3>3, <3>4 DEF Fresh
  <2> QED  BY <1>3, <1>5, <1>6, <2>1, <2>2
<1>8. CASE EndWait(s)
  <2>1. SUFFICES ASSUME Return(s, syncAnswer[s]), WaitOver(s) PROVE Reasons'
    BY <1>2, <1>8 DEF EndWait
  <2>2. CASE syncAnswer[s] # NoMsg
    <3>1. PICK m \in Messages : m = syncAnswer[s]
      BY <2>2 DEF TypeInv, TypeOK
    <3>2. m.call = s
      BY <2>2, <3>1 DEF Paired
    <3>3. StatusOf(m) = "REMOTE_ERROR" => ReasonAfter(s, [status |-> StatusOf(m), reply |-> m])
      BY <1>1, <3>1, <3>2, AnswerReason, ReasonOnward
    <3> QED  BY <1>3, <2>1, <3>1, <3>3
  <2>3. ASSUME s \in expired, NEW o PROVE ReasonAfter(s, o)
    <3>1. Reason(s, o)
      BY <1>1, <2>3 DEF Reason, Blamed, TypeInv, TypeOK
    <3> QED  BY <1>1, <3>1, ReasonOnward
  <2>4. CASE syncAnswer[s] = NoMsg
    BY <1>3, <1>5, <1>6, <2>1, <2>3, <2>4 DEF WaitOver
  <2> QED  BY <2>2, <2>4
<1> QED  BY <1>4, <1>7, <1>8

SessionsReasons == ~Wrapped => Reasons

LEMMA NextReasons ==
  ASSUME TypeInv, ContractInv, SessionsInv, SessionsInv', Fallen, Blame, SessionsReasons,
         [Next]_vars
  PROVE  SessionsReasons'
<1>1. SUFFICES ASSUME Fresh, Fresh', Paired, Reasons PROVE Reasons'
  BY WrappedForGood DEF SessionsInv, SessionsFresh, SessionsPaired, SessionsReasons
<1>2. CASE QuietStepKind
  BY <1>1, <1>2, ReasonsAfter DEF QuietStepKind
<1>3. ASSUME NEW a \in AsyncCalls, Send(a) \/ NotReachable(a) PROVE Reasons'
  <2>1. /\ UNCHANGED <<job, outcome>>
        /\ \E next \in {"notify", "receive"} : pc' = [pc EXCEPT ![a] = next]
    BY <1>3 DEF Send, NotReachable
  <2>2. \A t \in Threads : pc'[t] = "callback" => pc[t] = "callback" /\ job'[t] = job[t]
    BY <2>1 DEF TypeInv, TypeOK
  <2> QED  BY <1>1, <2>1, <2>2, ReasonsAfter
<1>4. CASE BusyStep
  BY <1>1, <1>3, <1>4, BlockedReasons, HandleReasons, CallbackReasons, FlushReasons DEF BusyStep
<1> QED  BY <1>2, <1>4, StepKinds

LEMMA InitReasons == Init => Reasons
BY DEF Init, Reasons, Threads, Calls

\* As long as the session ids have not wrapped around, a call fails only because the
\* service answered it with an error, its time ran out, its service has been unavailable
\* or it could not be sent: the cleanup and the cancellation take only the entries they
\* have a reason for.
THEOREM FailuresHaveCauses == Spec => []CauseOfFailure
<1>1. Init => Fallen /\ Blame /\ SessionsReasons
  BY InitFallen, InitBlame, InitReasons DEF SessionsReasons
<1>2. TypeInv /\ HandlerExclusive /\ Fallen /\ Blame /\ [Next]_vars => Fallen' /\ Blame'
  BY NextFallen, NextBlame
<1>3. TypeInv /\ ContractInv /\ SessionsInv /\ SessionsInv' /\ Fallen /\ Blame
        /\ SessionsReasons /\ [Next]_vars => SessionsReasons'
  BY NextReasons
<1>4. SessionsReasons => CauseOfFailure
  <2>1. SUFFICES ASSUME Reasons, NEW c \in Calls, NEW i \in DOMAIN outcome[c],
                        outcome[c][i].status = "REMOTE_ERROR"
                 PROVE  \/ outcome[c][i].reply = [call |-> c, kind |-> "error"]
                        \/ c \in expired
                        \/ ServiceOf[c] \in fell
                        \/ c \in SyncCalls /\ key[c] = 0
    BY DEF SessionsReasons, CauseOfFailure
  <2>2. Reason(c, outcome[c][i])
    BY <2>1 DEF Reasons
  <2> QED  BY <2>2 DEF Reason, Blamed
<1>5. Spec => [](ContractInv /\ SessionsInv)
  BY SessionsKept
<1> QED  BY <1>1, <1>2, <1>3, <1>4, <1>5, TypeCorrect, HandlersExclusive, PTL DEF Spec

-----------------------------------------------------------------------------
(* The handler of a call that was sent is kept.                            *)

\* Only a thread that flushes them has taken entries, and only a thread that receives,
\* queues or handles a message has one.
HandsFull ==
  /\ \A t \in Threads : batch[t] # {} =>
       pc[t] \in {"flush", "push", "callback"} /\ (t = Cleaner \/ notice[t] # NoNotice)
  /\ \A t \in Threads : msg[t] # NoMsg => pc[t] \in {"receive", "push", "handle"}

LEMMA HandsAfter ==
  ASSUME TypeInv, HandsFull, NEW t \in Threads,
         \A u \in Threads \ {t} :
           pc'[u] = pc[u] /\ batch'[u] = batch[u] /\ msg'[u] = msg[u] /\ notice'[u] = notice[u],
         batch'[t] # {} =>
           pc'[t] \in {"flush", "push", "callback"} /\ (t = Cleaner \/ notice'[t] # NoNotice),
         msg'[t] # NoMsg => pc'[t] \in {"receive", "push", "handle"}
  PROVE  HandsFull'
BY DEF HandsFull

LEMMA NextHands ==
  ASSUME TypeInv, HandsFull, [Next]_vars
  PROVE  HandsFull'
<1> USE CallsAssumption DEF TypeInv, TypeOK, Threads
<1>1. ASSUME NEW a \in AsyncCalls, CallerStep(a) \/ NotifyCleanup(a) PROVE HandsFull'
  <2>1. /\ UNCHANGED <<batch, notice>> /\ pc[a] \in {"idle", "deferred", "send", "notify"}
        /\ \/ \E next : pc' = [pc EXCEPT ![a] = next] /\ UNCHANGED msg
           \/ pc' = [pc EXCEPT ![a] = "receive"] /\ \E m : msg' = [msg EXCEPT ![a] = m]
    BY <1>1 DEF CallerStep, CallUnavailable, CallAvailable, NotReachable, SendDisconnected,
                SendRefused, Send, NotifyCleanup
  <2>2. a \in Threads /\ batch'[a] = {} /\ msg[a] = NoMsg
    BY <2>1 DEF HandsFull
  <2>3. msg'[a] # NoMsg => pc'[a] = "receive"
    BY <2>1, <2>2
  <2>4. \A u \in Threads \ {a} : pc'[u] = pc[u] /\ msg'[u] = msg[u]
    BY <2>1
  <2> QED  BY <2>1, <2>2, <2>3, <2>4, HandsAfter
<1>2. ASSUME NEW s \in SyncCalls, BlockedStep(s) PROVE HandsFull'
  <2>1. UNCHANGED <<pc, batch, msg, notice>>
    BY <1>2 DEF BlockedStep, Check, BlockDisconnected, SendAndBlock, EndWait
  <2> QED  BY <2>1 DEF HandsFull
<1>3. ASSUME NEW d \in Dispatchers, Deliver(d) \/ PushNotice(d) PROVE HandsFull'
  <2>1. /\ batch' = batch /\ pc[d] \in {"idle", "announce"}
        /\ \/ UNCHANGED notice /\ pc' = [pc EXCEPT ![d] = "receive"]
              /\ \E m : msg' = [msg EXCEPT ![d] = m]
           \/ UNCHANGED msg /\ pc' = [pc EXCEPT ![d] = "idle"]
              /\ notice' = [notice EXCEPT ![d] = NoNotice]
    BY <1>3 DEF Deliver, PushNotice
  <2>2. batch[d] = {}
    BY <2>1 DEF HandsFull
  <2>3. CASE UNCHANGED notice /\ pc' = [pc EXCEPT ![d] = "receive"]
             /\ \E m : msg' = [msg EXCEPT ![d] = m]
    <3>1. d \in Threads /\ pc'[d] = "receive" /\ batch'[d] = {}
      BY <2>1, <2>2, <2>3
    <3>2. \A u \in Threads \ {d} : pc'[u] = pc[u] /\ msg'[u] = msg[u]
      BY <2>3
    <3> QED  BY <2>1, <2>3, <3>1, <3>2, HandsAfter
  <2>4. CASE UNCHANGED msg /\ pc' = [pc EXCEPT ![d] = "idle"]
             /\ notice' = [notice EXCEPT ![d] = NoNotice]
    BY <2>1, <2>2, <2>4, HandsAfter DEF HandsFull
  <2> QED  BY <2>1, <2>3, <2>4
<1>4. CASE LoopStep
  <2>1. /\ batch' = batch /\ pc[Loop] = "idle"
        /\ \/ UNCHANGED notice /\ pc' = [pc EXCEPT ![Loop] = "handle"]
              /\ \E m : msg' = [msg EXCEPT ![Loop] = m]
           \/ UNCHANGED msg /\ \E next : pc' = [pc EXCEPT ![Loop] = next]
              /\ \E n : notice' = [notice EXCEPT ![Loop] = n]
    BY <1>4 DEF LoopStep, PopMessage, PopNotice
  <2>2. batch[Loop] = {}
    BY <2>1 DEF HandsFull
  <2>3. CASE UNCHANGED notice /\ pc' = [pc EXCEPT ![Loop] = "handle"]
             /\ \E m : msg' = [msg EXCEPT ![Loop] = m]
    <3>1. Loop \in Threads /\ pc'[Loop] = "handle" /\ batch'[Loop] = {}
      BY <2>1, <2>2, <2>3
    <3>2. \A u \in Threads \ {Loop} : pc'[u] = pc[u] /\ msg'[u] = msg[u]
      BY <2>3
    <3> QED  BY <2>1, <2>3, <3>1, <3>2, HandsAfter
  <2>4. CASE UNCHANGED msg /\ (\E next : pc' = [pc EXCEPT ![Loop] = next])
             /\ \E n : notice' = [notice EXCEPT ![Loop] = n]
    BY <2>1, <2>2, <2>4, HandsAfter DEF HandsFull
  <2> QED  BY <2>1, <2>3, <2>4
<1>5. ASSUME NEW t \in Threads, t = Cleaner \/ notice[t] # NoNotice PROVE AfterMessage(t) = "flush"
  BY <1>5, AfterMessageType DEF Control
<1>6. ASSUME NEW t \in Threads, Receive(t) PROVE HandsFull'
  <2>1. UNCHANGED <<batch, notice, msg>> /\ pc[t] = "receive"
        /\ \E next \in {"push", "handle"} : pc' = [pc EXCEPT ![t] = next]
    BY <1>6 DEF Receive
  <2> QED  BY <2>1, HandsAfter DEF HandsFull
<1>7. ASSUME NEW t \in Threads, PushMessage(t) PROVE HandsFull'
  <2>1. UNCHANGED <<batch, notice>> /\ msg' = [msg EXCEPT ![t] = NoMsg]
        /\ pc' = [pc EXCEPT ![t] = AfterMessage(t)]
    BY <1>7 DEF PushMessage
  <2> QED  BY <1>5, <2>1, HandsAfter DEF HandsFull
<1>8. ASSUME NEW t \in Threads, Callback(t) PROVE HandsFull'
  <2>1. UNCHANGED <<batch, notice, msg>> /\ pc[t] = "callback"
        /\ pc' = [pc EXCEPT ![t] = AfterMessage(t)]
    BY <1>8 DEF Callback
  <2> QED  BY <1>5, <2>1, HandsAfter DEF HandsFull
<1>9. ASSUME NEW t \in Threads, Handle(t) PROVE HandsFull'
  <2>1. UNCHANGED <<batch, notice>> /\ msg' = [msg EXCEPT ![t] = NoMsg] /\ pc[t] = "handle"
        /\ \E next : pc' = [pc EXCEPT ![t] = next]
    BY <1>9 DEF Handle, Dispatch, AnswerBlocked, TakeAnswer, TakeTimeout, TakeHandler, DropMessage
  <2> QED  BY <2>1, HandsAfter DEF HandsFull
<1>10. ASSUME NEW t \in Threads, CancelStep(t) PROVE HandsFull'
  <2>1. CASE WakeBlocked(t)
    <3>1. UNCHANGED <<batch, notice, msg>> /\ pc[t] = "wake" /\ pc' = [pc EXCEPT ![t] = "collect"]
      BY <2>1 DEF WakeBlocked
    <3> QED  BY <3>1, HandsAfter DEF HandsFull
  <2>2. CASE CollectCancelled(t)
    <3>1. /\ UNCHANGED <<notice, msg>> /\ pc[t] = "collect" /\ pc' = [pc EXCEPT ![t] = "flush"]
          /\ batch' = [batch EXCEPT ![t] = Cancelled(t)]
      BY <2>2 DEF CollectCancelled
    <3>2. t = Cleaner \/ notice[t] # NoNotice
      <4>1. t # Cleaner => notice[t] \in Notices
        BY <3>1 DEF Control
      <4>2. NoNotice \notin Notices
        BY DEF NoNotice, Notices
      <4> QED  BY <4>1, <4>2
    <3> QED  BY <3>1, <3>2, HandsAfter DEF HandsFull
  <2>3. CASE CancelDone(t)
    <3>1. UNCHANGED <<batch, notice, msg>> /\ batch[t] = {} /\ pc[t] = "flush"
          /\ pc' = [pc EXCEPT ![t] = "inform"]
      BY <2>3 DEF CancelDone
    <3> QED  BY <3>1, HandsAfter DEF HandsFull
  <2>4. CASE InformProxies(t)
    <3>1. /\ UNCHANGED <<batch, msg>> /\ pc[t] = "inform"
          /\ notice' = [notice EXCEPT ![t] = NoNotice] /\ pc' = [pc EXCEPT ![t] = "idle"]
      BY <2>4 DEF InformProxies
    <3> QED  BY <3>1, HandsAfter DEF HandsFull
  <2> QED  BY <1>10, <2>1, <2>2, <2>3, <2>4 DEF CancelStep
<1>11. ASSUME NEW t \in Threads, FlushStep(t) PROVE HandsFull'
  <2>1. UNCHANGED notice /\ \E c \in batch[t] : batch' = [batch EXCEPT ![t] = @ \ {c}]
    BY <1>11 DEF FlushStep, FlushToMainLoop, FlushDirectly, First
  <2>2. \/ pc' = [pc EXCEPT ![t] = "push"] /\ \E m : msg' = [msg EXCEPT ![t] = m]
        \/ pc' = [pc EXCEPT ![t] = "callback"] /\ msg' = msg /\ pc[t] = "flush"
    BY <1>11 DEF FlushStep, FlushToMainLoop, FlushDirectly, TakeHandler
  <2>3. t = Cleaner \/ notice'[t] # NoNotice
    BY <2>1 DEF HandsFull
  <2>4. \A u \in Threads \ {t} : batch'[u] = batch[u] /\ notice'[u] = notice[u]
    BY <2>1
  <2>5. CASE pc' = [pc EXCEPT ![t] = "push"] /\ \E m : msg' = [msg EXCEPT ![t] = m]
    <3>1. pc'[t] = "push" /\ \A u \in Threads \ {t} : pc'[u] = pc[u] /\ msg'[u] = msg[u]
      BY <2>5
    <3> QED  BY <2>3, <2>4, <3>1, HandsAfter
  <2>6. CASE pc' = [pc EXCEPT ![t] = "callback"] /\ msg' = msg /\ pc[t] = "flush"
    BY <2>3, <2>4, <2>6, HandsAfter DEF HandsFull
  <2> QED  BY <2>2, <2>5, <2>6
<1>12. CASE CleanupStep
  <2>1. /\ UNCHANGED <<notice, msg>> /\ pc[Cleaner] \in {"waiting", "flush", "armed"}
        /\ \/ \E taken : batch' = [batch EXCEPT ![Cleaner] = taken]
                         /\ pc' = [pc EXCEPT ![Cleaner] = "flush"]
           \/ batch' = batch /\ batch[Cleaner] = {}
              /\ \E next : pc' = [pc EXCEPT ![Cleaner] = next]
    BY <1>12 DEF CleanupStep, CleanupTimeout, UpdateTimeout, WaitForTimeout, HandsFull
  <2>2. msg'[Cleaner] = NoMsg
    BY <2>1 DEF HandsFull
  <2>3. CASE \E taken : batch' = [batch EXCEPT ![Cleaner] = taken]
                        /\ pc' = [pc EXCEPT ![Cleaner] = "flush"]
    BY <2>1, <2>2, <2>3, HandsAfter
  <2>4. CASE batch' = batch /\ batch[Cleaner] = {}
             /\ \E next : pc' = [pc EXCEPT ![Cleaner] = next]
    BY <2>1, <2>2, <2>4, HandsAfter
  <2> QED  BY <2>1, <2>3, <2>4
<1>13. ASSUME NEW d \in Dispatchers, NEW s \in Services, ServiceChange(d, s) PROVE HandsFull'
  <2>1. /\ UNCHANGED <<batch, msg>> /\ pc[d] = "idle"
        /\ \E next : pc' = [pc EXCEPT ![d] = next]
        /\ \E n : notice' = [notice EXCEPT ![d] = n]
    BY <1>13 DEF ServiceChange
  <2> QED  BY <2>1, HandsAfter DEF HandsFull
<1>14. ASSUME ConnectionEvent \/ (\E c \in Calls : Answer(c) \/ Expire(c)) \/ UNCHANGED vars
       PROVE  HandsFull'
  <2>1. UNCHANGED <<pc, batch, msg, notice>>
    BY <1>14 DEF ConnectionEvent, Answer, Expire, vars
  <2> QED  BY <2>1 DEF HandsFull
<1> HIDE DEF TypeInv, TypeOK
<1> QED  BY <1>1, <1>2, <1>3, <1>4, <1>6, <1>7, <1>8, <1>9, <1>10, <1>11, <1>12, <1>13, <1>14
         DEF Next, MessageStep, Environment

\* A message that a thread has or that is queued.
OnItsWay(m) == m \in QueuedMessages \cup {msg[t] : t \in Threads}

\* It stays on its way until a thread handles it.
LEMMA WayOn ==
  ASSUME TypeInv, HandsFull, [Next]_vars, NEW m \in Messages, OnItsWay(m)
  PROVE  OnItsWay(m)' \/ \E t \in Threads : Handle(t) /\ msg[t] = m
<1> USE CallsAssumption DEF TypeInv, TypeOK, Threads
<1>1. ASSUME \A t \in Threads : msg[t] = m => msg'[t] = m, queue' = queue PROVE OnItsWay(m)'
  BY <1>1 DEF OnItsWay, QueuedMessages
<1>2. NoMsg \notin Messages
  BY DEF NoMsg, Messages
<1>3. ASSUME NEW a \in AsyncCalls, CallerStep(a) \/ NotifyCleanup(a) PROVE OnItsWay(m)'
  <2>1. queue' = queue /\ (msg' = msg \/ (pc[a] = "deferred" /\ \E n : msg' = [msg EXCEPT ![a] = n]))
    BY <1>3 DEF CallerStep, CallUnavailable, CallAvailable, NotReachable, SendDisconnected,
                SendRefused, Send, NotifyCleanup
  <2> QED  BY <1>1, <1>2, <2>1 DEF HandsFull
<1>4. ASSUME NEW s \in SyncCalls, BlockedStep(s) PROVE OnItsWay(m)'
  <2>1. UNCHANGED <<queue, msg>>
    BY <1>4 DEF BlockedStep, Check, BlockDisconnected, SendAndBlock, EndWait
  <2> QED  BY <1>1, <2>1
<1>5. ASSUME NEW d \in Dispatchers, Deliver(d) PROVE OnItsWay(m)'
  <2>1. queue' = queue /\ pc[d] = "idle" /\ \E n : msg' = [msg EXCEPT ![d] = n]
    BY <1>5 DEF Deliver
  <2> QED  BY <1>1, <1>2, <2>1 DEF HandsFull
<1>6. ASSUME NEW e, queue' = Append(queue, e), \A t \in Threads : msg[t] = m => msg'[t] = m \/ e = m
      PROVE  OnItsWay(m)'
  <2>1. \A i \in DOMAIN queue : i \in DOMAIN queue' /\ queue'[i] = queue[i]
    BY <1>6
  <2>2. Len(queue) + 1 \in DOMAIN queue' /\ queue'[Len(queue) + 1] = e
    BY <1>6
  <2>3. e = m => OnItsWay(m)'
    BY <2>2 DEF OnItsWay, QueuedMessages
  <2>4. (\E i \in DOMAIN queue : queue[i] = m) => OnItsWay(m)'
    BY <2>1 DEF OnItsWay, QueuedMessages
  <2>5. (\E t \in Threads : msg'[t] = m) => OnItsWay(m)'
    BY DEF OnItsWay
  <2>6. (\E i \in DOMAIN queue : queue[i] = m) \/ \E t \in Threads : msg[t] = m
    BY DEF OnItsWay, QueuedMessages
  <2> QED  BY <1>6, <2>3, <2>4, <2>5, <2>6
<1>7. ASSUME NEW d \in Dispatchers, PushNotice(d) PROVE OnItsWay(m)'
  <2>1. msg' = msg /\ queue' = Append(queue, notice[d])
    BY <1>7 DEF PushNotice
  <2> QED  BY <1>6, <2>1
<1>8. ASSUME NEW t \in Threads, PushMessage(t) PROVE OnItsWay(m)'
  <2>1. queue' = Append(queue, msg[t]) /\ msg' = [msg EXCEPT ![t] = NoMsg]
    BY <1>8 DEF PushMessage
  <2> QED  BY <1>6, <2>1
<1>9. ASSUME NEW t \in Threads, Receive(t) \/ Callback(t) \/ CancelStep(t) \/ FlushDirectly(t)
      PROVE  OnItsWay(m)'
  <2>1. UNCHANGED <<queue, msg>>
    BY <1>9 DEF Receive, Callback, CancelStep, WakeBlocked, CollectCancelled, CancelDone,
                InformProxies, FlushDirectly
  <2> QED  BY <1>1, <2>1
<1>10. ASSUME NEW t \in Threads, FlushToMainLoop(t) PROVE OnItsWay(m)'
  <2>1. queue' = queue /\ pc[t] = "flush" /\ \E n : msg' = [msg EXCEPT ![t] = n]
    BY <1>10 DEF FlushToMainLoop
  <2> QED  BY <1>1, <1>2, <2>1 DEF HandsFull
<1>11. ASSUME NEW t \in Threads, Handle(t)
       PROVE  OnItsWay(m)' \/ \E u \in Threads : Handle(u) /\ msg[u] = m
  <2>1. queue' = queue /\ msg' = [msg EXCEPT ![t] = NoMsg]
    BY <1>11 DEF Handle
  <2> QED  BY <1>1, <1>11, <2>1
<1>12. ASSUME LoopStep PROVE OnItsWay(m)'
  <2>1. /\ pc[Loop] = "idle" /\ queue # <<>> /\ queue' = Tail(queue)
        /\ \/ msg' = [msg EXCEPT ![Loop] = Head(queue)]
           \/ msg' = msg /\ Head(queue) \in Notices
    BY <1>12 DEF LoopStep, PopMessage, PopNotice
  <2>2. msg[Loop] = NoMsg /\ m \notin Notices
    BY <2>1 DEF HandsFull, Messages, Notices
  <2>3. \A t \in Threads : msg[t] = m => msg'[t] = m
    BY <1>2, <2>1, <2>2
  <2>4. ASSUME NEW i \in DOMAIN queue, queue[i] = m PROVE OnItsWay(m)'
    <3>1. CASE i = 1
      <4>1. Head(queue) = m
        BY <2>1, <2>4, <3>1
      <4>2. Loop \in Threads /\ msg'[Loop] = m
        BY <2>1, <2>2, <4>1
      <4> QED  BY <4>2 DEF OnItsWay
    <3>2. CASE i # 1
      <4>1. i - 1 \in DOMAIN queue' /\ queue'[i - 1] = m
        BY <2>1, <2>4, <3>2
      <4> QED  BY <4>1 DEF OnItsWay, QueuedMessages
    <3> QED  BY <3>1, <3>2
  <2> QED  BY <2>3, <2>4 DEF OnItsWay, QueuedMessages
<1>13. ASSUME CleanupStep \/ Environment \/ UNCHANGED vars PROVE OnItsWay(m)'
  <2>1. UNCHANGED <<queue, msg>>
    BY <1>13 DEF CleanupStep, CleanupTimeout, UpdateTimeout, WaitForTimeout, Environment,
                 ServiceChange, ConnectionEvent, Answer, Expire, vars
  <2> QED  BY <1>1, <2>1
<1> HIDE DEF TypeInv, TypeOK
<1> QED  BY <1>3, <1>4, <1>5, <1>7, <1>8, <1>9, <1>10, <1>11, <1>12, <1>13
         DEF Next, MessageStep, FlushStep

\* Where the handler of a call is until it is called.
Lodged(a) ==
  \/ a \in asyncAnswers
  \/ \E t \in Threads : a \in batch[t] \/ Holds(t, a)
  \/ a \in asyncTimeouts /\ OnItsWay(TimeoutResponse(a))

\* A step takes a handler to one of these places, or calls it.
LEMMA TakenHeld ==
  ASSUME TypeInv, NEW t \in Threads, NEW a \in AsyncCalls, NEW status, NEW m,
         TakeHandler(t, a, status, m)
  PROVE  Holds(t, a)'
<1>1. pc'[t] = "callback" /\ job'[t].call = a
  BY DEF TakeHandler, TypeInv, TypeOK
<1> QED  BY <1>1 DEF Holds

LEMMA EntryOn ==
  ASSUME TypeInv, overwritten' = {}, [Next]_vars, NEW a \in asyncAnswers
  PROVE  Lodged(a)'
<1> USE CallsAssumption
<1>1. ASSUME a \in asyncAnswers' PROVE Lodged(a)'
  BY <1>1 DEF Lodged
<1>2. a \in AsyncCalls
  BY DEF TypeInv, TypeOK
<1>3. ASSUME NEW c \in AsyncCalls, CallerStep(c) \/ NotifyCleanup(c) PROVE a \in asyncAnswers'
  BY <1>3 DEF CallerStep, CallUnavailable, CallAvailable, NotReachable, SendDisconnected,
              SendRefused, Send, NotifyCleanup, StoreAnswer, tableVars
<1>4. ASSUME NEW s \in SyncCalls, BlockedStep(s) PROVE a \in asyncAnswers'
  BY <1>4 DEF BlockedStep, Check, BlockDisconnected, SendAndBlock, EndWait, tableVars
<1>5. ASSUME \/ \E d \in Dispatchers : Deliver(d) \/ PushNotice(d)
             \/ \E t \in Threads : Receive(t) \/ PushMessage(t) \/ Callback(t)
             \/ LoopStep
      PROVE  a \in asyncAnswers'
  BY <1>5 DEF Deliver, PushNotice, Receive, PushMessage, Callback, LoopStep, PopMessage, PopNotice,
              tableVars
<1>6. ASSUME NEW t \in Threads, Handle(t) PROVE Lodged(a)'
  <2>1. CASE \E c \in asyncAnswers : /\ asyncAnswers' = asyncAnswers \ {c}
                                    /\ \E status, m : TakeHandler(t, c, status, m)
    <3>1. a \in asyncAnswers' \/ Holds(t, a)'
      BY <1>2, <2>1, TakenHeld
    <3> QED  BY <3>1 DEF Lodged
  <2>2. CASE UNCHANGED asyncAnswers
    BY <1>1, <2>2
  <2> QED  BY <1>6, <2>1, <2>2
           DEF Handle, Dispatch, AnswerBlocked, TakeAnswer, TakeTimeout, DropMessage, Entry
<1>7. ASSUME NEW t \in Threads, WakeBlocked(t) \/ CancelDone(t) \/ InformProxies(t) \/ FlushStep(t)
      PROVE  a \in asyncAnswers'
  BY <1>7 DEF WakeBlocked, CancelDone, InformProxies, FlushStep, FlushToMainLoop, FlushDirectly,
              tableVars
<1>8. ASSUME NEW t \in Threads, CollectCancelled(t) PROVE Lodged(a)'
  <2>1. a \in asyncAnswers' \/ a \in batch'[t]
    BY <1>8 DEF CollectCancelled, TypeInv, TypeOK
  <2> QED  BY <2>1 DEF Lodged
<1>9. ASSUME CleanupTimeout PROVE Lodged(a)'
  <2>1. Cleaner \in Threads /\ (a \in asyncAnswers' \/ a \in batch'[Cleaner])
    <3>1. PICK taken : /\ batch' = [batch EXCEPT ![Cleaner] = taken]
                       /\ asyncAnswers' = asyncAnswers \ taken
      BY <1>9 DEF CleanupTimeout
    <3> QED  BY <3>1 DEF TypeInv, TypeOK, Threads
  <2> QED  BY <2>1 DEF Lodged
<1>10. ASSUME UpdateTimeout \/ WaitForTimeout \/ Environment \/ UNCHANGED vars
       PROVE  a \in asyncAnswers'
  BY <1>10 DEF UpdateTimeout, WaitForTimeout, Environment, ServiceChange, ConnectionEvent, Answer,
               Expire, vars, tableVars
<1> QED  BY <1>1, <1>3, <1>4, <1>5, <1>6, <1>7, <1>8, <1>9, <1>10
         DEF Next, MessageStep, CancelStep, CleanupStep

LEMMA BatchOn ==
  ASSUME TypeInv, HandsFull, [Next]_vars, NEW t \in Threads, NEW a \in batch[t]
  PROVE  Lodged(a)'
<1> USE CallsAssumption
<1>1. ASSUME a \in batch'[t] PROVE Lodged(a)'
  BY <1>1 DEF Lodged
<1>2. a \in AsyncCalls
  BY DEF TypeInv, TypeOK
<1>3. ASSUME NEW c \in AsyncCalls, CallerStep(c) \/ NotifyCleanup(c) PROVE batch' = batch
  BY <1>3 DEF CallerStep, CallUnavailable, CallAvailable, NotReachable, SendDisconnected,
              SendRefused, Send, NotifyCleanup
<1>4. ASSUME NEW s \in SyncCalls, BlockedStep(s) PROVE batch' = batch
  BY <1>4 DEF BlockedStep, Check, BlockDisconnected, SendAndBlock, EndWait
<1>5. ASSUME \/ \E d \in Dispatchers : Deliver(d) \/ PushNotice(d)
             \/ \E u \in Threads : MessageStep(u)
             \/ LoopStep
      PROVE  batch' = batch
  BY <1>5 DEF Deliver, PushNotice, MessageStep, Receive, PushMessage, Handle, Callback, LoopStep,
              PopMessage, PopNotice
<1>6. ASSUME NEW u \in Threads, CancelStep(u) PROVE a \in batch'[t]
  <2>1. CASE CollectCancelled(u)
    <3>1. pc[u] = "collect" /\ batch' = [batch EXCEPT ![u] = Cancelled(u)]
      BY <2>1 DEF CollectCancelled
    <3> QED  BY <3>1 DEF HandsFull, TypeInv, TypeOK
  <2>2. CASE WakeBlocked(u) \/ CancelDone(u) \/ InformProxies(u)
    BY <2>2 DEF WakeBlocked, CancelDone, InformProxies
  <2> QED  BY <1>6, <2>1, <2>2 DEF CancelStep
<1>7. CASE CleanupStep
  <2>1. \/ UNCHANGED batch
        \/ /\ pc[Cleaner] = "waiting"
           /\ \E taken : batch' = [batch EXCEPT ![Cleaner] = taken]
    BY <1>7 DEF CleanupStep, CleanupTimeout, UpdateTimeout, WaitForTimeout
  <2>2. a \in batch'[t]
    BY <2>1 DEF HandsFull, TypeInv, TypeOK
  <2> QED  BY <1>1, <2>2
<1>8. ASSUME NEW u \in Threads, FlushToMainLoop(u) PROVE Lodged(a)'
  <2>1. PICK c \in AsyncCalls : /\ batch' = [batch EXCEPT ![u] = @ \ {c}]
                               /\ StoreTimeout(c)
                               /\ msg' = [msg EXCEPT ![u] = TimeoutResponse(c)]
    BY <1>8 DEF FlushToMainLoop, First, TypeInv, TypeOK
  <2>2. CASE a # c
    <3>1. a \in batch'[t]
      BY <2>1, <2>2 DEF TypeInv, TypeOK
    <3> QED  BY <1>1, <3>1
  <2>3. CASE a = c
    <3>1. a \in asyncTimeouts' /\ msg'[u] = TimeoutResponse(a)
      BY <2>1, <2>3 DEF StoreTimeout, TypeInv, TypeOK
    <3> QED  BY <3>1 DEF Lodged, OnItsWay
  <2> QED  BY <2>2, <2>3
<1>9. ASSUME NEW u \in Threads, FlushDirectly(u) PROVE Lodged(a)'
  <2>1. PICK c \in AsyncCalls : /\ batch' = [batch EXCEPT ![u] = @ \ {c}]
                               /\ TakeHandler(u, c, "REMOTE_ERROR", TimeoutResponse(c))
    BY <1>9 DEF FlushDirectly, First, TypeInv, TypeOK
  <2>2. CASE a # c
    <3>1. a \in batch'[t]
      BY <2>1, <2>2 DEF TypeInv, TypeOK
    <3> QED  BY <1>1, <3>1
  <2>3. CASE a = c
    BY <2>1, <2>3, TakenHeld DEF Lodged
  <2> QED  BY <2>2, <2>3
<1>10. ASSUME Environment \/ UNCHANGED vars PROVE batch' = batch
  BY <1>10 DEF Environment, ServiceChange, ConnectionEvent, Answer, Expire, vars
<1> QED  BY <1>1, <1>3, <1>4, <1>5, <1>6, <1>7, <1>8, <1>9, <1>10 DEF Next, FlushStep

LEMMA HoldsOn ==
  ASSUME TypeInv, [Next]_vars, NEW t \in Threads, NEW a \in AsyncCalls, Holds(t, a)
  PROVE  Holds(t, a)' \/ outcome'[a] # <<>>
<1> USE CallsAssumption
<1>1. ASSUME pc'[t] = pc[t], job'[t] = job[t] PROVE Holds(t, a)'
  BY <1>1 DEF Holds
<1>2. pc[t] = "callback" /\ job[t].call = a
  BY DEF Holds
<1>3. ASSUME NEW c \in AsyncCalls, CallerStep(c) \/ NotifyCleanup(c) PROVE Holds(t, a)'
  <2>1. job' = job /\ pc[c] # "callback" /\ \E next : pc' = [pc EXCEPT ![c] = next]
    BY <1>3 DEF CallerStep, CallUnavailable, CallAvailable, NotReachable, SendDisconnected,
                SendRefused, Send, NotifyCleanup
  <2> QED  BY <1>1, <1>2, <2>1 DEF TypeInv, TypeOK
<1>4. ASSUME NEW s \in SyncCalls, BlockedStep(s) PROVE Holds(t, a)'
  <2>1. UNCHANGED <<pc, job>>
    BY <1>4 DEF BlockedStep, Check, BlockDisconnected, SendAndBlock, EndWait
  <2> QED  BY <1>1, <2>1
<1>5. ASSUME \/ \E d \in Dispatchers : Deliver(d) \/ PushNotice(d)
             \/ \E u \in Threads : Receive(u) \/ PushMessage(u) \/ CancelStep(u)
             \/ LoopStep \/ CleanupStep
      PROVE  Holds(t, a)'
  <2>1. job' = job /\ \E u : pc[u] # "callback" /\ \E next : pc' = [pc EXCEPT ![u] = next]
    BY <1>5 DEF Deliver, PushNotice, Receive, PushMessage, CancelStep, WakeBlocked,
                CollectCancelled, CancelDone, InformProxies, LoopStep, PopMessage, PopNotice,
                CleanupStep, CleanupTimeout, UpdateTimeout, WaitForTimeout
  <2> QED  BY <1>1, <1>2, <2>1 DEF TypeInv, TypeOK
<1>6. ASSUME NEW u \in Threads, Handle(u) \/ FlushStep(u) PROVE Holds(t, a)'
  <2>1. pc[u] # "callback" /\ \E next : pc' = [pc EXCEPT ![u] = next]
    BY <1>6 DEF Handle, Dispatch, AnswerBlocked, TakeAnswer, TakeTimeout, TakeHandler, DropMessage,
                FlushStep, FlushToMainLoop, FlushDirectly
  <2>2. job' = job \/ \E j : job' = [job EXCEPT ![u] = j]
    BY <1>6 DEF Handle, Dispatch, AnswerBlocked, TakeAnswer, TakeTimeout, TakeHandler, DropMessage,
                FlushStep, FlushToMainLoop, FlushDirectly
  <2> QED  BY <1>1, <1>2, <2>1, <2>2 DEF TypeInv, TypeOK
<1>7. ASSUME NEW u \in Threads, Callback(u) PROVE Holds(t, a)' \/ outcome'[a] # <<>>
  <2>1. /\ outcome' = [outcome EXCEPT ![job[u].call] = Append(@, job[u].outcome)]
        /\ job' = [job EXCEPT ![u] = NoJob] /\ pc' = [pc EXCEPT ![u] = AfterMessage(u)]
    BY <1>7 DEF Callback
  <2>2. CASE u = t
    <3>1. outcome[a] \in Seq(Outcomes) /\ outcome'[a] = Append(outcome[a], job[t].outcome)
      BY <1>2, <2>1, <2>2 DEF TypeInv, TypeOK, Calls
    <3> QED  BY <3>1
  <2>3. CASE u # t
    BY <1>1, <2>1, <2>3 DEF TypeInv, TypeOK
  <2> QED  BY <2>2, <2>3
<1>8. ASSUME NEW d \in Dispatchers, NEW s \in Services, ServiceChange(d, s) PROVE Holds(t, a)'
  <2>1. job' = job /\ pc[d] # "callback" /\ \E next : pc' = [pc EXCEPT ![d] = next]
    BY <1>8 DEF ServiceChange
  <2> QED  BY <1>1, <1>2, <2>1 DEF TypeInv, TypeOK
<1>9. ASSUME ConnectionEvent \/ (\E c \in Calls : Answer(c) \/ Expire(c)) \/ UNCHANGED vars
      PROVE  Holds(t, a)'
  <2>1. UNCHANGED <<pc, job>>
    BY <1>9 DEF ConnectionEvent, Answer, Expire, vars
  <2> QED  BY <1>1, <2>1
<1> QED  BY <1>3, <1>4, <1>5, <1>6, <1>7, <1>8, <1>9 DEF Next, MessageStep, Environment

\* The response to a time-out finds the entry it was made for.
LEMMA TimeoutFound ==
  ASSUME TypeInv, HandlerExclusive, ContractInv, Fresh, NEW a \in asyncTimeouts, ~Fake(a),
         NEW t \in Threads, Handle(t), msg[t] = TimeoutResponse(a)
  PROVE  Holds(t, a)'
<1> DEFINE m == msg[t]
           k == SessionId(m)
<1>1. a \in AsyncCalls /\ a \in Calls /\ a \notin asyncAnswers
  BY DEF HandlerExclusive, TypeInv, TypeOK, Calls
<1>2. k = key[a] /\ key[a] # 0
  <2>1. m.call = a /\ m.kind = "timeout"
    BY DEF TimeoutResponse
  <2>2. key[a] # 0
    BY <1>1 DEF ContractInv, Keys, Held, InTable
  <2>3. Session(m) = key[a]
    BY <2>1 DEF Session
  <2> QED  BY <2>1, <2>2, <2>3 DEF SessionId, HasFakeSession
<1>3. \A c \in Calls : key[c] = k => c = a
  BY <1>1, <1>2 DEF Fresh
<1>4. Waiting(k) = {}
  <2>1. \A s \in SyncCalls : s \in Calls /\ s # a
    BY <1>1, CallsAssumption DEF Calls
  <2> QED  BY <1>3, <2>1 DEF Waiting
<1>5. Entry(asyncAnswers, k) = {}
  BY <1>1, <1>3 DEF Entry, TypeInv, TypeOK, Calls
<1>6. Entry(asyncTimeouts, k) = {a}
  BY <1>1, <1>2, <1>3 DEF Entry, TypeInv, TypeOK, Calls
<1>7. Dispatch(t, m, k)
  BY DEF Handle
<1>8. TakeTimeout(t, m, k)
  BY <1>4, <1>5, <1>6, <1>7 DEF Dispatch
<1> QED  BY <1>1, <1>6, <1>8, TakenHeld DEF TakeTimeout

\* An entry stays in asyncTimeouts_ until a thread takes it.
LEMMA TimeoutKept ==
  ASSUME TypeInv, overwritten' = {}, [Next]_vars, NEW a \in asyncTimeouts
  PROVE  a \in asyncTimeouts' \/ Lodged(a)'
<1> USE CallsAssumption
<1>1. a \in AsyncCalls
  BY DEF TypeInv, TypeOK
<1>2. ASSUME NEW c \in AsyncCalls, CallerStep(c) \/ NotifyCleanup(c)
      PROVE  asyncTimeouts' = asyncTimeouts
  BY <1>2 DEF CallerStep, CallUnavailable, CallAvailable, NotReachable, SendDisconnected,
              SendRefused, Send, NotifyCleanup, tableVars
<1>3. ASSUME NEW s \in SyncCalls, BlockedStep(s) PROVE asyncTimeouts' = asyncTimeouts
  BY <1>3 DEF BlockedStep, Check, BlockDisconnected, SendAndBlock, EndWait, tableVars
<1>4. ASSUME \/ \E d \in Dispatchers : Deliver(d) \/ PushNotice(d)
             \/ \E t \in Threads : Receive(t) \/ PushMessage(t) \/ Callback(t)
             \/ LoopStep
      PROVE  asyncTimeouts' = asyncTimeouts
  BY <1>4 DEF Deliver, PushNotice, Receive, PushMessage, Callback, LoopStep, PopMessage, PopNotice,
              tableVars
<1>5. ASSUME NEW t \in Threads, Handle(t) PROVE a \in asyncTimeouts' \/ Lodged(a)'
  <2>1. CASE \E c \in asyncTimeouts : /\ asyncTimeouts' = asyncTimeouts \ {c}
                                     /\ \E status, m : TakeHandler(t, c, status, m)
    <3>1. a \in asyncTimeouts' \/ Holds(t, a)'
      BY <1>1, <2>1, TakenHeld
    <3> QED  BY <3>1 DEF Lodged
  <2>2. CASE UNCHANGED asyncTimeouts
    BY <2>2
  <2> QED  BY <1>5, <2>1, <2>2
           DEF Handle, Dispatch, AnswerBlocked, TakeAnswer, TakeTimeout, DropMessage, Entry
<1>6. ASSUME NEW t \in Threads, CancelStep(t) \/ FlushDirectly(t)
      PROVE  asyncTimeouts' = asyncTimeouts
  BY <1>6 DEF CancelStep, WakeBlocked, CollectCancelled, CancelDone, InformProxies, FlushDirectly,
              tableVars
<1>7. ASSUME NEW t \in Threads, FlushToMainLoop(t) PROVE a \in asyncTimeouts'
  BY <1>7 DEF FlushToMainLoop, StoreTimeout
<1>8. ASSUME CleanupStep \/ Environment \/ UNCHANGED vars PROVE asyncTimeouts' = asyncTimeouts
  BY <1>8 DEF CleanupStep, CleanupTimeout, UpdateTimeout, WaitForTimeout, Environment,
              ServiceChange, ConnectionEvent, Answer, Expire, vars, tableVars
<1> QED  BY <1>2, <1>3, <1>4, <1>5, <1>6, <1>7, <1>8 DEF Next, MessageStep, FlushStep

LEMMA LodgedOn ==
  ASSUME TypeInv, HandlerExclusive, ContractInv, Fresh, overwritten' = {}, HandsFull, [Next]_vars,
         NEW a \in AsyncCalls, Lodged(a), ~Fake(a)
  PROVE  Lodged(a)' \/ outcome'[a] # <<>>
<1>1. CASE a \in asyncAnswers
  BY <1>1, EntryOn
<1>2. ASSUME NEW t \in Threads, a \in batch[t] PROVE Lodged(a)'
  BY <1>2, BatchOn
<1>3. ASSUME NEW t \in Threads, Holds(t, a) PROVE Lodged(a)' \/ outcome'[a] # <<>>
  <2>1. Holds(t, a)' \/ outcome'[a] # <<>>
    BY <1>3, HoldsOn
  <2> QED  BY <2>1 DEF Lodged
<1>4. CASE a \in asyncTimeouts /\ OnItsWay(TimeoutResponse(a))
  <2>1. PICK m \in Messages : m = TimeoutResponse(a)
    BY TimeoutResponseType
  <2>2. CASE OnItsWay(m)'
    <3>1. OnItsWay(TimeoutResponse(a))'
      BY <2>1, <2>2 DEF TimeoutResponse
    <3> QED  BY <1>4, <3>1, TimeoutKept DEF Lodged
  <2>3. ASSUME NEW t \in Threads, Handle(t), msg[t] = m PROVE Lodged(a)'
    BY <1>4, <2>1, <2>3, TimeoutFound DEF Lodged
  <2> QED  BY <1>4, <2>1, <2>2, <2>3, WayOn
<1> QED  BY <1>1, <1>2, <1>3, <1>4 DEF Lodged

\* The handler of every call that was sent and told nothing is in one of the places.
Kept ==
  \A a \in AsyncCalls :
    pc[a] \notin Unsent /\ ~Fake(a) /\ outcome[a] = <<>> /\ a \notin refused => Lodged(a)

SessionsKeep == ~Wrapped => Kept

\* A call that is sent in this step has its entry, was refused or has a fake session.
LEMMA SentLodged ==
  ASSUME TypeInv, [Next]_vars, NEW a \in AsyncCalls, pc[a] \in Unsent, pc'[a] \notin Unsent
  PROVE  a \in asyncAnswers' \/ a \in refused' \/ Fake(a)'
<1> USE CallsAssumption DEF TypeInv, TypeOK, Threads
<1>1. CASE CallerStep(a) \/ NotifyCleanup(a)
  <2>1. CASE Send(a)
    BY <2>1 DEF Send, StoreAnswer
  <2>2. CASE SendRefused(a) \/ SendDisconnected(a)
    BY <2>2 DEF SendRefused, SendDisconnected
  <2>3. CASE NotReachable(a)
    <3>1. key'[a] = NextFakeSession
      BY <2>3 DEF NotReachable, Calls, TypeInv, TypeOK
    <3> QED  BY <3>1, FakeBeyond DEF Fake
  <2>4. CASE CallUnavailable(a) \/ CallAvailable(a) \/ NotifyCleanup(a)
    BY <2>4 DEF CallUnavailable, CallAvailable, NotifyCleanup, Unsent
  <2> QED  BY <1>1, <2>1, <2>2, <2>3, <2>4 DEF CallerStep
<1>2. ASSUME NEW c \in AsyncCalls, CallerStep(c) \/ NotifyCleanup(c), c # a PROVE FALSE
  BY <1>2 DEF CallerStep, CallUnavailable, CallAvailable, NotReachable, SendDisconnected,
              SendRefused, Send, NotifyCleanup
<1>3. ASSUME NEW s \in SyncCalls, BlockedStep(s) PROVE FALSE
  BY <1>3 DEF BlockedStep, Check, BlockDisconnected, SendAndBlock, EndWait
<1>4. ASSUME \/ \E d \in Dispatchers : Deliver(d) \/ PushNotice(d)
             \/ LoopStep \/ CleanupStep
      PROVE  FALSE
  BY <1>4 DEF Deliver, PushNotice, LoopStep, PopMessage, PopNotice, CleanupStep, CleanupTimeout,
              UpdateTimeout, WaitForTimeout
<1>5. ASSUME NEW t \in Threads, MessageStep(t) \/ CancelStep(t) \/ FlushStep(t) PROVE FALSE
  <2>1. pc[t] \notin Unsent \/ t \notin AsyncCalls
    BY <1>5 DEF MessageStep, Receive, PushMessage, Handle, Callback, CancelStep, WakeBlocked,
                CollectCancelled, CancelDone, InformProxies, FlushStep, FlushToMainLoop,
                FlushDirectly, Unsent
  <2>2. \E next : pc' = [pc EXCEPT ![t] = next]
    BY <1>5 DEF MessageStep, Receive, PushMessage, Handle, Dispatch, AnswerBlocked, TakeAnswer,
                TakeTimeout, TakeHandler, DropMessage, Callback, CancelStep, WakeBlocked,
                CollectCancelled, CancelDone, InformProxies, FlushStep, FlushToMainLoop,
                FlushDirectly
  <2> QED  BY <2>1, <2>2
<1>6. ASSUME Environment \/ UNCHANGED vars PROVE FALSE
  BY <1>6 DEF Environment, ServiceChange, ConnectionEvent, Answer, Expire, vars
<1> HIDE DEF TypeInv, TypeOK
<1> QED  BY <1>1, <1>2, <1>3, <1>4, <1>5, <1>6 DEF Next

\* What was refused or told stays so, and a fake session stays one.
LEMMA SettledOn ==
  ASSUME TypeInv, ContractInv, [Next]_vars, NEW a \in AsyncCalls
  PROVE  /\ a \in refused => a \in refused'
         /\ outcome[a] # <<>> => outcome'[a] # <<>>
         /\ Fake(a) => Fake(a)'
<1> USE CallsAssumption
<1>1. refused \subseteq refused'
  <2>1. ASSUME NEW c \in AsyncCalls, CallerStep(c) \/ NotifyCleanup(c) PROVE refused \subseteq refused'
    BY <2>1 DEF CallerStep, CallUnavailable, CallAvailable, NotReachable, SendDisconnected,
                SendRefused, Send, NotifyCleanup
  <2>2. ASSUME NEW s \in SyncCalls, BlockedStep(s) PROVE refused' = refused
    BY <2>2 DEF BlockedStep, Check, BlockDisconnected, SendAndBlock, EndWait
  <2>3. ASSUME \/ \E d \in Dispatchers : Deliver(d) \/ PushNotice(d)
               \/ \E t \in Threads : MessageStep(t) \/ CancelStep(t) \/ FlushStep(t)
               \/ LoopStep
        PROVE  refused' = refused
    BY <2>3 DEF Deliver, PushNotice, MessageStep, Receive, PushMessage, Handle, Callback,
                CancelStep, WakeBlocked, CollectCancelled, CancelDone, InformProxies, FlushStep,
                FlushToMainLoop, FlushDirectly, LoopStep, PopMessage, PopNotice
  <2>4. ASSUME CleanupStep \/ Environment \/ UNCHANGED vars PROVE refused' = refused
    BY <2>4 DEF CleanupStep, CleanupTimeout, UpdateTimeout, WaitForTimeout, Environment,
                ServiceChange, ConnectionEvent, Answer, Expire, vars
  <2> QED  BY <2>1, <2>2, <2>3, <2>4 DEF Next
<1>2. Fake(a) => Fake(a)'
  <2>1. a \in Calls /\ key[a] \in Nat /\ MaxSession \in Nat
    BY DEF TypeInv, TypeOK, Calls
  <2>2. Fake(a) => key'[a] = key[a]
    BY <2>1, KeySteps DEF IsSent, IsFaked, Fake, TypeInv, TypeOK
  <2> QED  BY <2>2 DEF Fake
<1>3. outcome[a] # <<>> => outcome'[a] # <<>>
  <2>1. outcome'[a] = outcome[a] \/ \E o : outcome'[a] = Append(outcome[a], o)
    <3>1. CASE QuietStepKind
      BY <3>1 DEF QuietStepKind
    <3>2. ASSUME NEW t \in Threads, Callback(t)
          PROVE  outcome'[a] = outcome[a] \/ \E o : outcome'[a] = Append(outcome[a], o)
      BY <3>2 DEF Callback, TypeInv, TypeOK, Calls
    <3>3. ASSUME NEW s \in SyncCalls, BlockDisconnected(s) \/ SendAndBlock(s) \/ EndWait(s)
          PROVE  outcome'[a] = outcome[a]
      BY <3>3 DEF BlockDisconnected, SendAndBlock, EndWait, Return, TypeInv, TypeOK, Calls
    <3>4. ASSUME \/ \E c \in AsyncCalls : Send(c) \/ NotReachable(c)
                 \/ \E t \in Threads : Handle(t) \/ FlushStep(t)
          PROVE  outcome' = outcome
      BY <3>4 DEF Send, NotReachable, Handle, FlushStep, FlushToMainLoop, FlushDirectly
    <3> QED  BY <3>1, <3>2, <3>3, <3>4, StepKinds DEF BusyStep
  <2>2. outcome[a] \in Seq(Outcomes)
    BY DEF TypeInv, TypeOK, Calls
  <2>3. \A o : Append(outcome[a], o) # <<>>
    BY <2>2
  <2> QED  BY <2>1, <2>3
<1> QED  BY <1>1, <1>2, <1>3

LEMMA NextKept ==
  ASSUME TypeInv, HandlerExclusive, ContractInv, SessionsInv, SessionsInv', HandsFull,
         SessionsKeep, [Next]_vars
  PROVE  SessionsKeep'
<1>1. SUFFICES ASSUME Fresh, Paired', Kept PROVE Kept'
  BY WrappedForGood DEF SessionsInv, SessionsFresh, SessionsPaired, SessionsKeep
<1>2. overwritten' = {}
  BY <1>1 DEF Paired
<1>3. SUFFICES ASSUME NEW a \in AsyncCalls, pc'[a] \notin Unsent, ~Fake(a)', outcome'[a] = <<>>,
                      a \notin refused'
               PROVE  Lodged(a)'
  BY DEF Kept
<1>4. ~Fake(a) /\ outcome[a] = <<>> /\ a \notin refused
  BY <1>3, SettledOn
<1>5. CASE pc[a] \in Unsent
  <2>1. a \in asyncAnswers'
    BY <1>3, <1>5, SentLodged
  <2> QED  BY <2>1 DEF Lodged
<1>6. CASE pc[a] \notin Unsent
  <2>1. Lodged(a)
    BY <1>1, <1>4, <1>6 DEF Kept
  <2> QED  BY <1>1, <1>2, <1>3, <1>4, <2>1, LodgedOn
<1> QED  BY <1>5, <1>6

LEMMA InitKept == Init => HandsFull /\ Kept
BY CallsAssumption DEF Init, HandsFull, Kept, Unsent, Threads

\* As long as the session ids have not wrapped around, the handler of a call that was sent
\* is never lost: until it is called it is in asyncAnswers_, in the hands of a thread, or in
\* asyncTimeouts_ with the response that fetches it on its way.
THEOREM HandlersKept == Spec => []HandlerKept
<1>1. Init => HandsFull /\ SessionsKeep
  BY InitKept DEF SessionsKeep
<1>2. TypeInv /\ HandsFull /\ [Next]_vars => HandsFull'
  BY NextHands
<1>3. TypeInv /\ HandlerExclusive /\ ContractInv /\ SessionsInv /\ SessionsInv' /\ HandsFull
        /\ SessionsKeep /\ [Next]_vars => SessionsKeep'
  BY NextKept
<1>4. TypeInv /\ SessionsKeep => HandlerKept
  <2>1. SUFFICES ASSUME TypeInv, Kept, NEW a \in AsyncCalls, pc[a] = "done", ~Fake(a),
                        outcome[a] = <<>>, a \notin refused
                 PROVE  \/ a \in asyncAnswers
                        \/ \E t \in Threads : a \in batch[t] \/ (job[t] # NoJob /\ job[t].call = a)
                        \/ /\ a \in asyncTimeouts
                           /\ TimeoutResponse(a) \in QueuedMessages \cup {msg[t] : t \in Threads}
    BY DEF SessionsKeep, HandlerKept
  <2>2. Lodged(a)
    BY <2>1 DEF Kept, Unsent
  <2>3. ASSUME NEW t \in Threads, Holds(t, a) PROVE job[t] # NoJob /\ job[t].call = a
    <3>1. NoJob.call # a
      BY CallsAssumption DEF NoJob, Calls
    <3> QED  BY <2>3, <3>1 DEF Holds
  <2> QED  BY <2>2, <2>3 DEF Lodged, OnItsWay
<1>5. Spec => [](ContractInv /\ SessionsInv)
  BY SessionsKept
<1> QED  BY <1>1, <1>2, <1>3, <1>4, <1>5, TypeCorrect, HandlersExclusive, PTL DEF Spec
=============================================================================
