----------------------- MODULE ProxyAvailabilityProofs -----------------------
(***************************************************************************)
(* Proofs about ProxyAvailability, for any sets of requests, waiters and   *)
(* listeners and any number of changes.                                    *)
(***************************************************************************)
EXTENDS ProxyAvailability, TLAPS

\* What the phases of the time-out thread leave in its local variables
Phases ==
  /\ handler \notin {"examining", "calling"} => left = {} /\ Handled = {} /\ todo = {}
  /\ handler = "examining" => left # {} /\ left \cap Handled = {} /\ todo = Handled
  /\ handler = "calling" => left = {}
  /\ handler # "calling" => current = Nobody

\* A callback is still to come for a call on its way to the list, for an entry
\* without an answer and for what the time-out thread is about to call.
ToldLater ==
  \A r \in Requests :
    /\ caller[r] \notin {"notifying", "deferred"} => r \notin timeouts /\ told[r] = <<>>
    /\ (r \in timeouts /\ callbacks[r] = "none") \/ r \in todo => told[r] = <<>>

\* The inductive invariant of the deferred calls, and the variables it reads
DeferInv == Phases /\ ToldLater /\ Attended /\ CalledBackOnce
deferState == <<caller, timeouts, told, thread, handler, left, callbacks, todo, current>>

-----------------------------------------------------------------------------
(* Types *)

LEMMA InitTypes == ProxyAssumption /\ Init => TypeOK
<1> SUFFICES ASSUME ProxyAssumption, Init PROVE TypeOK
  OBVIOUS
<1> USE DEF ProxyAssumption, Init
<1>1. /\ told \in [Requests -> Seq(Answers \cup {"none"})]
      /\ reports \in Seq(BOOLEAN)
  OBVIOUS
<1>2. changes \in 0 .. MaxChanges /\ drops \in 0 .. MaxDrops
  OBVIOUS
<1>3. /\ status \in Statuses
      /\ callbacks \in [Requests -> Answers \cup {"none"}]
      /\ heard \in [Listeners -> Statuses]
  BY DEF Statuses, StatusOf
<1>4. /\ caller \in [Requests -> {"new"}]
      /\ waiter \in [Waiters -> {"new"}]
      /\ listener \in [Listeners -> {"new"}]
  OBVIOUS
<1> QED BY <1>1, <1>2, <1>3, <1>4 DEF TypeOK

LEMMA CreatorTypes == ASSUME ProxyAssumption, TypeOK, Creator, FollowReached
                      PROVE  TypeOK'
<1> USE DEF ProxyAssumption, TypeOK, FollowReached, Statuses, Answers,
            Creator, eventVars, deferVars, threadVars, passVars
<1>1. CASE Register
  <2>1. Append(reports, service) \in Seq(BOOLEAN)
    OBVIOUS
  <2>2. reports' \in Seq(BOOLEAN)
    BY <1>1, <2>1 DEF Register
  <2> QED BY <1>1, <2>2 DEF Register
<1>2. CASE Query \/ AssignStatus
  BY <1>2 DEF Query, AssignStatus
<1> QED BY <1>1, <1>2

LEMMA ReporterTypes == ASSUME ProxyAssumption, TypeOK, Reporter, FollowReached
                       PROVE  TypeOK'
<1> USE DEF ProxyAssumption, TypeOK, FollowReached, Statuses, Answers,
            deferVars, threadVars, passVars
<1>1. CASE ReportStatus
  <2>1. Tail(reports) \in Seq(BOOLEAN) /\ Head(reports) \in BOOLEAN
    BY <1>1 DEF ReportStatus
  <2>2. StatusOf(Head(reports)) \in Statuses
    BY DEF StatusOf
  <2>3. status' \in Statuses /\ reporter' \in {"idle", "signalling"}
    BY <1>1, <2>2 DEF ReportStatus
  <2> QED BY <1>1, <2>1, <2>3 DEF Reporter, ReportStatus
<1>2. CASE SignalTimeoutThread
  BY <1>2 DEF Reporter, SignalTimeoutThread, WakeTimeoutThread
<1>3. CASE TellListeners
  BY <1>3 DEF Reporter, TellListeners
<1>4. CASE WakeWaiter
  BY <1>4 DEF Reporter, WakeWaiter, Blocked
<1> QED BY <1>1, <1>2, <1>3, <1>4 DEF Reporter

LEMMA WaiterTypes == ASSUME ProxyAssumption, TypeOK, NEW w \in Waiters, Waiter(w),
                            FollowReached
                     PROVE  TypeOK'
<1> USE DEF ProxyAssumption, TypeOK, FollowReached, Statuses, Answers, Waiter,
            eventVars, deferVars, threadVars, passVars, envVars
<1>1. CASE WaitUntilConnected(w)
  BY <1>1 DEF WaitUntilConnected
<1>2. CASE CheckStatus(w)
  <2>1. PICK s \in {"returned", "blocked"} : waiter' = [waiter EXCEPT ![w] = s]
    BY <1>2 DEF CheckStatus
  <2> QED BY <1>2, <2>1 DEF CheckStatus
<1> QED BY <1>1, <1>2

LEMMA ListenerTypes == ASSUME ProxyAssumption, TypeOK, NEW l \in Listeners, Listener(l),
                              FollowReached
                       PROVE  TypeOK'
<1> USE DEF ProxyAssumption, TypeOK, FollowReached, Statuses, Answers,
            Listener, deferVars, threadVars, passVars, envVars
<1>1. CASE Subscribe(l)
  BY <1>1 DEF Subscribe
<1>2. CASE AddListener(l)
  BY <1>2 DEF AddListener, Enlist
<1>3. CASE Unsubscribe(l)
  BY <1>3 DEF Unsubscribe
<1> QED BY <1>1, <1>2, <1>3

LEMMA EnvironmentTypes == ASSUME ProxyAssumption, TypeOK, Environment, FollowReached
                          PROVE  TypeOK'
<1> USE DEF ProxyAssumption, TypeOK, FollowReached, Statuses, Answers,
            Environment, eventVars, threadVars, passVars
<1>1. CASE \E r \in Requests : Expire(r)
  BY <1>1 DEF Expire
<1>2. CASE ServiceChange
  <2>1. (~service) \in BOOLEAN
    OBVIOUS
  <2>2. Append(reports, ~service) \in Seq(BOOLEAN)
    BY <2>1
  <2> QED BY <1>2, <2>1, <2>2 DEF ServiceChange
<1>3. CASE ConnectionChange
  BY <1>3 DEF ConnectionChange
<1> QED BY <1>1, <1>2, <1>3

LEMMA CallerTypes == ASSUME ProxyAssumption, TypeOK, NEW r \in Requests, Caller(r),
                            FollowReached
                     PROVE  TypeOK'
<1> USE DEF ProxyAssumption, TypeOK, FollowReached, Statuses, Answers, Caller,
            eventVars, passVars, envVars
<1>1. CASE CallUnavailable(r)
  BY <1>1 DEF CallUnavailable
<1>2. CASE IsAvailableAsync(r)
  <2>1. CASE timeouts # {} /\ AddTimeout(r) /\ UNCHANGED <<thread, handler>>
    BY <1>2, <2>1 DEF IsAvailableAsync, AddTimeout
  <2>2. CASE timeouts = {} /\ ~Joinable /\ AddTimeout(r) /\ StartThread
    BY <1>2, <2>2 DEF IsAvailableAsync, AddTimeout, StartThread
  <2>3. CASE /\ timeouts = {} /\ Joinable
             /\ caller' = [caller EXCEPT ![r] = "joining"]
             /\ UNCHANGED <<timeouts, thread, handler>>
    BY <1>2, <2>3 DEF IsAvailableAsync
  <2> QED BY <1>2, <2>1, <2>2, <2>3 DEF IsAvailableAsync
<1>3. CASE JoinThread(r)
  BY <1>3 DEF JoinThread
<1>6. CASE JoinTwice(r)
  <2>1. PICK s \in {"joined", "failed"} : caller' = [caller EXCEPT ![r] = s]
    BY <1>6 DEF JoinTwice
  <2> QED BY <1>6, <2>1 DEF JoinTwice
<1>4. CASE RestartThread(r)
  BY <1>4 DEF RestartThread, AddTimeout, StartThread
<1>5. CASE NotifyTimeoutThread(r)
  BY <1>5 DEF NotifyTimeoutThread, WakeTimeoutThread
<1> QED BY <1>1, <1>2, <1>3, <1>4, <1>5, <1>6

\* An examined entry gets an answer or none.
LEMMA VerdictType == ASSUME NEW r PROVE Verdict(r) \in Answers \cup {"none"}
BY DEF Verdict, Answers

LEMMA TimeoutThreadTypes == ASSUME ProxyAssumption, TypeOK, TimeoutThread, FollowReached
                            PROVE  TypeOK'
<1> USE DEF ProxyAssumption, TypeOK, FollowReached, Statuses,
            TimeoutThread, eventVars, envVars
<1>0. ASSUME NEW b \in BOOLEAN, Examining(b), UNCHANGED <<timeouts, told, thread, callbacks, todo, current>>
      PROVE  TypeOK'
  BY <1>0 DEF Examining
<1>1. CASE BeginThread
  <2>1. CASE IsAvailable
    BY <1>1, <2>1, <1>0 DEF BeginThread
  <2>2. CASE ~IsAvailable
    BY <1>1, <2>2 DEF BeginThread
  <2> QED BY <2>1, <2>2
<1>6. CASE WaitFor
  BY <1>6 DEF WaitFor
<1>7. CASE EndWait
  BY <1>7, <1>0 DEF EndWait
<1>2. CASE \E r \in Requests : Examine(r)
  <2>1. PICK r \in Requests : Examine(r)
    BY <1>2
  <2>2. callbacks' \in [Requests -> Answers \cup {"none"}]
    BY <2>1, VerdictType DEF Examine
  <2>4. todo' \subseteq Requests /\ handler' \in {"examining", "calling"}
    BY <2>1 DEF Examine
  <2> QED BY <2>1, <2>2, <2>4 DEF Examine
<1>3. CASE \E r \in Requests : BeginCallback(r)
  <2>1. PICK r \in Requests : BeginCallback(r)
    BY <1>3
  <2>2. callbacks[r] \in Answers \cup {"none"} /\ told[r] \in Seq(Answers \cup {"none"})
    BY <2>1
  <2>4. Append(told[r], callbacks[r]) \in Seq(Answers \cup {"none"})
    BY <2>2
  <2> QED BY <2>1, <2>4 DEF BeginCallback
<1>4. CASE EndCallback
  BY <1>4 DEF EndCallback
<1>5. CASE CancelThread
  <2>1. callbacks' \in [Requests -> Answers \cup {"none"}]
    BY <1>5 DEF CancelThread
  <2>2. timeouts' \subseteq Requests
    BY <1>5 DEF CancelThread, Remaining
  <2>3. /\ thread' \in {"none", "running", "ended", "joined", "terminated"}
        /\ handler' \in {"off", "looping"}
        /\ UNCHANGED <<told, armed, left, todo, current>>
    BY <1>5 DEF CancelThread
  <2>6. timed' \in BOOLEAN
    BY <1>5 DEF CancelThread
  <2>4. reached' \subseteq Requests
    BY <2>2
  <2>5. UNCHANGED <<status, creation, reporter, eventVars, waiter, caller, expired, envVars>>
    OBVIOUS
  <2> QED
    BY <2>1, <2>2, <2>3, <2>4, <2>5, <2>6
<1> QED BY <1>1, <1>2, <1>3, <1>4, <1>5, <1>6, <1>7

LEMMA StepTypes == ASSUME ProxyAssumption, TypeOK, [Next]_vars PROVE TypeOK'
<1>1. CASE UNCHANGED vars
  BY <1>1 DEF TypeOK, vars, eventVars, deferVars, threadVars,
              passVars, envVars
<1>2. CASE Next
  <2>1. CASE Creator
    BY <1>2, <2>1, CreatorTypes DEF Next
  <2>2. CASE Reporter
    BY <1>2, <2>2, ReporterTypes DEF Next
  <2>3. CASE TimeoutThread
    BY <1>2, <2>3, TimeoutThreadTypes DEF Next
  <2>4. CASE Environment
    BY <1>2, <2>4, EnvironmentTypes DEF Next
  <2>5. CASE \E w \in Waiters : Waiter(w)
    BY <1>2, <2>5, WaiterTypes DEF Next
  <2>6. CASE \E l \in Listeners : Listener(l)
    BY <1>2, <2>6, ListenerTypes DEF Next
  <2>7. CASE \E r \in Requests : Caller(r)
    BY <1>2, <2>7, CallerTypes DEF Next
  <2> QED BY <1>2, <2>1, <2>2, <2>3, <2>4, <2>5, <2>6, <2>7 DEF Next, Step
<1> QED BY <1>1, <1>2

\* The type invariant of the proxy's availability (Proxy.cpp), for any number of
\* callers, waiters and listeners.
THEOREM TypesOK == Spec => []TypeOK
<1>1. Init => TypeOK
  BY ProxyAssumption, InitTypes
<1>2. TypeOK /\ [Next]_vars => TypeOK'
  BY ProxyAssumption, StepTypes
<1> QED BY <1>1, <1>2, PTL DEF Spec

-----------------------------------------------------------------------------
(* Deferred calls *)

LEMMA InitDefer == ProxyAssumption /\ Init => DeferInv
BY DEF ProxyAssumption, Init, DeferInv, Phases, ToldLater, Attended, CalledBackOnce, Handled

\* Steps that leave the deferred calls and the time-out thread alone
LEMMA QuietStep == ASSUME DeferInv, UNCHANGED deferState PROVE DeferInv'
BY DEF DeferInv, Phases, ToldLater, Attended, CalledBackOnce, Handled, deferState

\* Waking the time-out thread only moves it out of its wait.
LEMMA WakeStep ==
  ASSUME TypeOK, DeferInv, WakeTimeoutThread,
         UNCHANGED <<timeouts, told, thread, left, callbacks, todo, current>>,
         UNCHANGED caller \/ \E r \in Requests : /\ caller[r] = "notifying"
                                                 /\ caller' = [caller EXCEPT ![r] = "deferred"]
  PROVE  DeferInv'
<1>1. Phases'
  BY DEF DeferInv, Phases, WakeTimeoutThread, Handled
<1>2. ToldLater'
  BY DEF DeferInv, ToldLater, TypeOK
<1>3. Attended'
  BY DEF DeferInv, Attended, WakeTimeoutThread, Handled
<1>4. CalledBackOnce'
  BY DEF DeferInv, CalledBackOnce
<1> QED BY <1>1, <1>2, <1>3, <1>4 DEF DeferInv

LEMMA ReporterDefer == ASSUME TypeOK, DeferInv, Reporter PROVE DeferInv'
<1>1. CASE SignalTimeoutThread
  BY <1>1, WakeStep DEF Reporter, SignalTimeoutThread, deferVars, passVars
<1>2. CASE ReportStatus \/ TellListeners \/ WakeWaiter
  BY <1>2, QuietStep DEF Reporter, ReportStatus, TellListeners, WakeWaiter,
                         deferVars, passVars, deferState
<1> QED BY <1>1, <1>2 DEF Reporter

\* A call enters the list, and a thread starts if there was none to serve it.
LEMMA EnterStep ==
  ASSUME TypeOK, DeferInv, thread # "terminated", TimeoutsMutexFree,
         NEW r \in Requests, caller[r] \notin {"notifying", "deferred"},
         AddTimeout(r), UNCHANGED <<told, passVars>>,
         \/ timeouts # {} /\ UNCHANGED <<thread, handler>>
         \/ StartThread
  PROVE  DeferInv'
<1> USE DEF AddTimeout, StartThread, passVars, TypeOK, TimeoutsMutexFree
<1>1. Phases'
  BY DEF DeferInv, Phases, Attended, Handled, Joinable
<1>2. ToldLater'
  BY DEF DeferInv, ToldLater
<1>3. Attended'
  BY DEF DeferInv, Attended, Handled, Joinable
<1>4. CalledBackOnce'
  BY DEF DeferInv, CalledBackOnce
<1> QED BY <1>1, <1>2, <1>3, <1>4 DEF DeferInv

LEMMA CallerDefer ==
  ASSUME TypeOK, DeferInv, thread # "terminated", NEW r \in Requests, Caller(r)
  PROVE  DeferInv'
<1> USE DEF Caller, passVars
<1>1. CASE IsAvailableAsync(r) \/ RestartThread(r)
  <2>1. CASE AddTimeout(r)
    <3>1. /\ TimeoutsMutexFree
          /\ caller[r] \notin {"notifying", "deferred"}
          /\ (timeouts # {} /\ UNCHANGED <<thread, handler>>) \/ StartThread
      BY <1>1, <2>1 DEF IsAvailableAsync, RestartThread, AddTimeout, TypeOK
    <3> QED BY <2>1, <3>1, EnterStep
  <2>2. CASE /\ caller[r] = "entering"
             /\ caller' = [caller EXCEPT ![r] = "joining"]
             /\ UNCHANGED <<timeouts, thread, handler>>
    BY <1>1, <2>2 DEF TypeOK, DeferInv, Phases, ToldLater, Attended, CalledBackOnce, Handled
  <2> QED BY <1>1, <2>1, <2>2 DEF IsAvailableAsync, RestartThread
<1>2. CASE NotifyTimeoutThread(r)
  BY <1>2, WakeStep DEF NotifyTimeoutThread
<1>3. CASE CallUnavailable(r) \/ JoinThread(r) \/ JoinTwice(r)
  <2>1. /\ caller[r] \in {"new", "joining"}
        /\ \E s \in {"entering", "joined", "failed"} : caller' = [caller EXCEPT ![r] = s]
        /\ UNCHANGED <<timeouts, told, handler, left, callbacks, todo, current>>
        /\ UNCHANGED thread \/ (thread = "ended" /\ thread' = "joined")
    BY <1>3 DEF CallUnavailable, JoinThread, JoinTwice
  <2> QED BY <2>1 DEF TypeOK, DeferInv, Phases, ToldLater, Attended, CalledBackOnce, Handled
<1> QED BY <1>1, <1>2, <1>3

\* A pass begins: nothing is left of the one before.
LEMMA ExamineStep ==
  ASSUME TypeOK, DeferInv, thread # "terminated", NEW b, Examining(b),
         handler \in {"started", "notified", "waiting"},
         UNCHANGED <<timeouts, told, thread, caller, callbacks, todo, current>>
  PROVE  DeferInv'
BY DEF Examining, TypeOK, DeferInv, Phases, ToldLater, Attended, CalledBackOnce, Handled

LEMMA TimeoutThreadDefer ==
  ASSUME ProxyAssumption, TypeOK, DeferInv, thread # "terminated", TimeoutThread
  PROVE  DeferInv'
<1> USE DEF TimeoutThread
<1>1. CASE BeginThread \/ WaitFor \/ EndWait
  <2>1. CASE \E b \in BOOLEAN : Examining(b)
    <3>1. PICK b \in BOOLEAN : Examining(b)
      BY <2>1
    <3>2. /\ handler \in {"started", "notified", "waiting"}
          /\ UNCHANGED <<timeouts, told, thread, callbacks, todo, current>>
      BY <1>1, <3>1 DEF BeginThread, WaitFor, EndWait, Examining
    <3> QED BY <3>1, <3>2, ExamineStep
  <2>2. CASE handler \in {"started", "looping"} /\ handler' \in {"looping", "waiting"}
             /\ UNCHANGED <<timeouts, told, thread, left, callbacks, todo, current>>
    BY <1>1, <2>2 DEF DeferInv, Phases, ToldLater, Attended, CalledBackOnce, Handled
  <2> QED BY <1>1, <2>1, <2>2 DEF BeginThread, WaitFor, EndWait
<1>2. CASE \E r \in Requests : Examine(r)
  <2>1. PICK r \in Requests : Examine(r)
    BY <1>2
  <2>2. /\ callbacks' = [callbacks EXCEPT ![r] = Verdict(r)]
        /\ Handled' = IF Verdict(r) = "none" THEN Handled ELSE Handled \cup {r}
        /\ todo' = Handled'
        /\ left' \cap Handled' = {}
    BY <2>1 DEF Examine, TypeOK, DeferInv, Phases, Handled
  <2>3. Phases'
    BY <2>1, <2>2 DEF Examine, DeferInv, Phases
  <2>4. ToldLater'
    BY <2>1, <2>2 DEF Examine, TypeOK, DeferInv, ToldLater, Attended, Phases, Handled
  <2>5. Attended'
    BY <2>1, <2>2 DEF Examine, DeferInv, Attended, Phases
  <2>6. CalledBackOnce'
    BY <2>1 DEF Examine, DeferInv, CalledBackOnce
  <2> QED BY <2>3, <2>4, <2>5, <2>6 DEF DeferInv
<1>3. CASE \E r \in Requests : BeginCallback(r)
  <2>1. PICK r \in Requests : BeginCallback(r)
    BY <1>3
  <2>2. told[r] = <<>> /\ told' = [told EXCEPT ![r] = Append(<<>>, callbacks[r])]
    BY <2>1 DEF BeginCallback, DeferInv, ToldLater
  <2>3. Phases'
    BY <2>1 DEF BeginCallback, DeferInv, Phases, Handled
  <2>4. ToldLater'
    BY <2>1, <2>2 DEF BeginCallback, TypeOK, DeferInv, ToldLater, Attended, Handled
  <2>5. Attended'
    BY <2>1 DEF BeginCallback, DeferInv, Attended, Handled
  <2>6. CalledBackOnce'
    BY <2>2 DEF TypeOK, DeferInv, CalledBackOnce
  <2> QED BY <2>3, <2>4, <2>5, <2>6 DEF DeferInv
<1>4. CASE EndCallback
  BY <1>4 DEF EndCallback, DeferInv, Phases, ToldLater, Attended, CalledBackOnce, Handled
<1>5. CASE CancelThread
  <2>1. Handled' = {} /\ callbacks' = [r \in Requests |-> "none"]
    BY <1>5 DEF CancelThread, Handled
  <2>2. Phases'
    BY <1>5, <2>1 DEF CancelThread, DeferInv, Phases
  <2>3. ToldLater'
    BY <1>5, <2>1 DEF CancelThread, Remaining, Handled, TypeOK, DeferInv, ToldLater
  <2>4. Attended'
    BY <1>5, <2>1 DEF CancelThread, Finishes, Remaining, DeferInv, Attended, Phases
  <2>5. CalledBackOnce'
    BY <1>5 DEF CancelThread, DeferInv, CalledBackOnce
  <2> QED BY <2>2, <2>3, <2>4, <2>5 DEF DeferInv
<1> QED BY <1>1, <1>2, <1>3, <1>4, <1>5

LEMMA StepDefer == ASSUME ProxyAssumption, TypeOK, DeferInv, [Next]_vars PROVE DeferInv'
<1>1. CASE UNCHANGED vars
  BY <1>1, QuietStep DEF vars, deferVars, threadVars, passVars, deferState
<1>2. CASE Next
  <2>1. CASE \/ Creator \/ Environment \/ (\E w \in Waiters : Waiter(w))
             \/ \E l \in Listeners : Listener(l)
    BY <2>1, QuietStep DEF Creator, Environment, Waiter, Listener, Expire, ServiceChange,
         ConnectionChange, deferVars, threadVars, passVars, deferState
  <2>2. CASE Reporter
    BY <2>2, ReporterDefer
  <2>3. CASE TimeoutThread
    BY <1>2, <2>3, TimeoutThreadDefer DEF Next
  <2>4. CASE \E r \in Requests : Caller(r)
    BY <1>2, <2>4, CallerDefer DEF Next
  <2> QED BY <1>2, <2>1, <2>2, <2>3, <2>4 DEF Next, Step
<1> QED BY <1>1, <1>2

\* No callback of a deferred call runs twice, and a thread that ends leaves no
\* entry behind (Proxy.cpp:178-195, 351-382).
THEOREM DeferredCalls == Spec => [](CalledBackOnce /\ Attended)
<1>1. Init => DeferInv
  BY ProxyAssumption, InitDefer
<1>2. TypeOK /\ DeferInv /\ [Next]_vars => DeferInv'
  BY ProxyAssumption, StepDefer
<1>3. DeferInv => CalledBackOnce /\ Attended
  BY DEF DeferInv
<1> QED BY <1>1, <1>2, <1>3, TypesOK, PTL DEF Spec

\* While calls wait to be called back a thread looks after them, so a call is
\* never left to a thread that has ended (Proxy.cpp:351-382).
THEOREM AlwaysAttended == Spec => []Attended
BY DeferredCalls, PTL

-----------------------------------------------------------------------------
(* What deferred calls are told *)

Justified(r, answer) ==
  (answer = "AVAILABLE" /\ r \in reached) \/ (answer = "NOT_AVAILABLE" /\ r \in expired)

\* Entries count as reached while the proxy is available, and what is about to
\* be told was found with cause.
CauseInv ==
  /\ \A r \in Requests : \A i \in DOMAIN told[r] : Justified(r, told[r][i])
  /\ IsAvailable => timeouts \subseteq reached
  /\ \A r \in Handled : Justified(r, callbacks[r])

\* A cause once given stays.
LEMMA KeepCause ==
  ASSUME CauseInv, FollowReached, expired \subseteq expired', UNCHANGED <<told, callbacks>>
  PROVE  CauseInv'
BY DEF CauseInv, FollowReached, Justified, Handled

LEMMA TimeoutThreadCause ==
  ASSUME TypeOK, DeferInv, CauseInv, thread # "terminated", TimeoutThread, FollowReached
  PROVE  CauseInv'
<1> USE DEF TimeoutThread
<1>0. /\ reached \subseteq reached' /\ expired' = expired
      /\ IsAvailable' => timeouts' \subseteq reached'
  BY DEF FollowReached
<1>1. CASE \E r \in Requests : Examine(r)
  <2>1. PICK r \in Requests : Examine(r)
    BY <1>1
  <2>2. r \in timeouts
    BY <2>1 DEF Examine, DeferInv, Attended
  <2>3. Verdict(r) # "none" => Justified(r, Verdict(r))
    BY <2>2 DEF Verdict, Justified, CauseInv
  <2>4. /\ callbacks' = [callbacks EXCEPT ![r] = Verdict(r)]
        /\ told' = told
    BY <2>1 DEF Examine
  <2>5. \A q \in Handled' : Justified(q, callbacks'[q])
    <3> SUFFICES ASSUME NEW q \in Handled' PROVE Justified(q, callbacks'[q])
      OBVIOUS
    <3>1. CASE q = r
      BY <2>3, <2>4, <3>1 DEF TypeOK, Handled
    <3>2. CASE q # r
      BY <2>4, <3>2 DEF TypeOK, Handled, CauseInv
    <3> QED BY <3>1, <3>2
  <2> QED BY <1>0, <2>4, <2>5 DEF CauseInv, Justified
<1>2. CASE \E r \in Requests : BeginCallback(r)
  <2>1. PICK r \in Requests : BeginCallback(r)
    BY <1>2
  <2>2. Justified(r, callbacks[r]) /\ told[r] = <<>>
    BY <2>1 DEF BeginCallback, DeferInv, Phases, Attended, ToldLater, CauseInv
  <2>3. told'[r] = <<callbacks[r]>> /\ \A q \in Requests \ {r} : told'[q] = told[q]
    BY <2>1, <2>2 DEF BeginCallback, TypeOK
  <2>4. \A q \in Requests : \A i \in DOMAIN told'[q] : Justified(q, told'[q][i])
    BY <2>2, <2>3 DEF CauseInv
  <2>5. callbacks' = callbacks
    BY <2>1 DEF BeginCallback
  <2> QED BY <1>0, <2>4, <2>5 DEF CauseInv, Justified, Handled
<1>3. CASE CancelThread
  <2>1. Handled' = {} /\ told' = told
    BY <1>3 DEF CancelThread, Handled
  <2> QED BY <1>0, <2>1 DEF CauseInv, Justified
<1>4. CASE BeginThread \/ WaitFor \/ EndWait \/ EndCallback
  BY <1>0, <1>4, KeepCause DEF BeginThread, WaitFor, EndWait, EndCallback
<1> QED BY <1>1, <1>2, <1>3, <1>4

LEMMA StepCause == ASSUME TypeOK, DeferInv, CauseInv, [Next]_vars PROVE CauseInv'
<1> USE DEF eventVars, deferVars, threadVars, passVars, envVars
<1>1. CASE UNCHANGED vars
  BY <1>1 DEF vars, CauseInv, Justified, Handled, IsAvailable
<1>2. CASE Next
  <2>1. CASE TimeoutThread
    BY <1>2, <2>1, TimeoutThreadCause DEF Next
  <2>2. CASE ~TimeoutThread
    <3>1. UNCHANGED <<told, callbacks>> /\ expired \subseteq expired'
      BY <1>2, <2>2 DEF Next, Step, Creator, Reporter, Environment, Waiter, Listener,
           Caller, Expire, ServiceChange, ConnectionChange
    <3> QED BY <1>2, <3>1, KeepCause DEF Next
  <2> QED BY <2>1, <2>2
<1> QED BY <1>1, <1>2

\* A deferred call is told AVAILABLE only if the proxy was available while it was
\* pending, NOT_AVAILABLE only after its time-out (Proxy.cpp:99-126, 150-157).
THEOREM AnswersJustified == Spec => []CauseOfAnswer
<1>1. Init => CauseInv
  BY DEF Init, CauseInv, Handled
<1>2. TypeOK /\ DeferInv /\ CauseInv /\ [Next]_vars => CauseInv'
  BY StepCause
<1>3. Init => DeferInv
  BY ProxyAssumption, InitDefer
<1>4. TypeOK /\ DeferInv /\ [Next]_vars => DeferInv'
  BY ProxyAssumption, StepDefer
<1>5. CauseInv => CauseOfAnswer
  BY DEF CauseInv, CauseOfAnswer, Justified
<1> QED BY <1>1, <1>2, <1>3, <1>4, <1>5, TypesOK, PTL DEF Spec

-----------------------------------------------------------------------------
(* What the listeners have heard *)

\* No listener comes before the proxy is created, nobody has heard anything of
\* an unknown status, and a listener that was added is in the list.
ListenersInv ==
  /\ creation # "done" => \A l \in Listeners : listener[l] = "new"
  /\ status = "UNKNOWN" => \A l \in Listeners : heard[l] = "UNKNOWN"
  /\ \A l \in subscribed : listener[l] = "added" =>
       l \in listening /\ (ListenersMutexFree => heard[l] = status)

LEMMA ReporterListeners ==
  ASSUME TypeOK, ListenersInv, Reporter PROVE ListenersInv'
<1> USE DEF Reporter, TypeOK, ListenersInv, ListenersMutexFree
<1>1. CASE ReportStatus
  BY <1>1 DEF ReportStatus, StatusOf
<1>2. CASE SignalTimeoutThread
  BY <1>2 DEF SignalTimeoutThread
<1>3. CASE TellListeners
  <2>1. \A l \in subscribed : listener[l] = "added" => heard'[l] = status
    BY <1>3 DEF TellListeners
  <2>2. status = "UNKNOWN" => \A l \in Listeners : heard'[l] = "UNKNOWN"
    BY <1>3 DEF TellListeners
  <2> QED BY <1>3, <2>1, <2>2 DEF TellListeners
<1>4. CASE WakeWaiter
  BY <1>4 DEF WakeWaiter
<1> QED BY <1>1, <1>2, <1>3, <1>4

LEMMA ListenerListeners ==
  ASSUME TypeOK, ListenersInv, NEW l \in Listeners, Listener(l) PROVE ListenersInv'
<1> USE DEF Listener, TypeOK, ListenersInv, ListenersMutexFree
<1>1. CASE Subscribe(l)
  BY <1>1 DEF Subscribe
<1>2. CASE AddListener(l)
  BY <1>2 DEF AddListener, Enlist
<1>3. CASE Unsubscribe(l)
  BY <1>3 DEF Unsubscribe
<1> QED BY <1>1, <1>2, <1>3

LEMMA StepListeners == ASSUME TypeOK, ListenersInv, [Next]_vars PROVE ListenersInv'
<1> USE DEF eventVars
<1>1. CASE UNCHANGED <<status, creation, reporter, eventVars>>
  BY <1>1 DEF ListenersInv, ListenersMutexFree
<1>2. CASE Creator
  BY <1>2 DEF Creator, Register, Query, AssignStatus, ListenersInv, ListenersMutexFree,
              TypeOK
<1>3. CASE Reporter
  BY <1>3, ReporterListeners
<1>4. CASE \E l \in Listeners : Listener(l)
  BY <1>4, ListenerListeners
<1> QED BY <1>1, <1>2, <1>3, <1>4 DEF Next, Step, TimeoutThread, Environment, Waiter,
             Caller, vars

\* While no change is being handled, every listener that was added has heard of
\* the present status last (Proxy.cpp:199-215, 226-247).
THEOREM ListenersHear == Spec => []ListenersUpToDate
<1>1. Init => ListenersInv
  BY DEF Init, ListenersInv
<1>2. TypeOK /\ ListenersInv /\ [Next]_vars => ListenersInv'
  BY StepListeners
<1>3. ListenersInv => ListenersUpToDate
  BY DEF ListenersInv, ListenersUpToDate
<1> QED BY <1>1, <1>2, <1>3, TypesOK, PTL DEF Spec
=============================================================================
