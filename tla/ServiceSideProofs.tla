------------------------- MODULE ServiceSideProofs -------------------------
(***************************************************************************)
(* The service side of a connection, for any number of application         *)
(* threads, stubs, requests and repliers: it uses the main-loop queue as   *)
(* MainLoopQueue says, sends one answer at most for a request, and loses   *)
(* no stub to a registration that came too late.                           *)
(***************************************************************************)
EXTENDS ServiceSide, FiniteSetTheorems, TLAPS

-----------------------------------------------------------------------------
(* The queue, of its own, for any pushing threads and any entries: PopQueue *)
(* keeps its type because FrontKept says that it is not empty, and FdCounts *)
(* because the popping thread has read the eventfd before.                  *)

QueueInv == QueueTypeOK /\ FdCounts /\ FrontKept

LEMMA QueueInvInit == QueueInit => QueueInv
<1> SUFFICES ASSUME QueueInit PROVE QueueInv
  OBVIOUS
<1>1. QueueTypeOK /\ FrontKept
  BY DEF QueueInit, QueueTypeOK, FrontKept, LoopPlaces
<1>2. Cardinality(writing) = 0
  BY FS_EmptySet DEF QueueInit
<1>3. FdCounts
  BY <1>2 DEF QueueInit, FdCounts
<1> QED  BY <1>1, <1>3 DEF QueueInv

\* A thread joins and leaves the set of those between push and write.
LEMMA WritingCount ==
  ASSUME writing \subseteq Pushers
  PROVE  /\ Cardinality(writing) \in Nat
         /\ \A t \in Pushers \ writing : Cardinality(writing \cup {t}) = Cardinality(writing) + 1
         /\ \A t \in writing : Cardinality(writing \ {t}) = Cardinality(writing) - 1
<1>1. IsFiniteSet(writing)
  BY FS_Subset, PushersAssumption
<1> QED  BY <1>1, FS_CardinalityType, FS_AddElement, FS_RemoveElement

LEMMA QueueInvPush ==
  ASSUME QueueInv, NEW t \in Pushers, NEW entry \in Entries, PushQueue(t, entry)
  PROVE  QueueInv'
<1> USE DEF QueueInv, PushQueue
<1>1. QueueTypeOK'
  BY DEF QueueTypeOK
<1>2. Len(queue') = Len(queue) + 1
  BY DEF QueueTypeOK
<1>3. FdCounts'
  <2>1. Cardinality(writing') = Cardinality(writing) + 1 /\ Cardinality(writing) \in Nat
    BY WritingCount DEF QueueTypeOK
  <2> QED  BY <1>2, <2>1 DEF QueueTypeOK, FdCounts
<1>4. FrontKept'
  BY DEF QueueTypeOK, FrontKept
<1> QED  BY <1>1, <1>3, <1>4

LEMMA QueueInvWrite ==
  ASSUME QueueInv, NEW t \in Pushers, WriteEventFd(t)
  PROVE  QueueInv'
<1> USE DEF QueueInv, WriteEventFd
<1>1. QueueTypeOK'
  BY DEF QueueTypeOK
<1>2. FdCounts'
  <2>1. Cardinality(writing') = Cardinality(writing) - 1 /\ Cardinality(writing) \in Nat
    BY WritingCount DEF QueueTypeOK
  <2> QED  BY <2>1 DEF QueueTypeOK, FdCounts
<1>3. FrontKept'
  BY DEF FrontKept
<1> QED  BY <1>1, <1>2, <1>3

\* The steps of the main loop leave writing alone.
LEMMA QueueInvLoop ==
  ASSUME QueueInv, WakeUp \/ Prepare \/ FrontQueue \/ ReadEventFd \/ PopQueue \/ EndDispatch
  PROVE  QueueInv'
<1>1. QueueTypeOK /\ FdCounts /\ FrontKept /\ Cardinality(writing) \in Nat
  BY WritingCount DEF QueueInv, QueueTypeOK
<1>2. CASE WakeUp \/ Prepare \/ EndDispatch
  BY <1>1, <1>2 DEF WakeUp, Prepare, EndDispatch, QueueInv, QueueTypeOK, FdCounts, FrontKept, LoopPlaces
<1>3. CASE FrontQueue
  BY <1>1, <1>3 DEF FrontQueue, QueueInv, QueueTypeOK, FdCounts, FrontKept, LoopPlaces
<1>4. CASE ReadEventFd
  BY <1>1, <1>4 DEF ReadEventFd, QueueInv, QueueTypeOK, FdCounts, FrontKept, LoopPlaces
<1>5. CASE PopQueue
  <2>1. queue # <<>> /\ loop = "popping"
    BY <1>1, <1>5 DEF PopQueue, FrontKept
  <2>2. queue' \in Seq(Entries) /\ Len(queue') = Len(queue) - 1
    BY <1>1, <1>5, <2>1 DEF PopQueue, QueueTypeOK
  <2> QED  BY <1>1, <1>5, <2>1, <2>2 DEF PopQueue, QueueInv, QueueTypeOK, FdCounts, FrontKept, LoopPlaces
<1> QED  BY <1>2, <1>3, <1>4, <1>5

LEMMA QueueInvStep ==
  ASSUME QueueInv, [QueueNext]_queueVars
  PROVE  QueueInv'
<1>1. CASE UNCHANGED queueVars
  BY <1>1 DEF queueVars, QueueInv, QueueTypeOK, FdCounts, FrontKept
<1>2. CASE QueueNext
  BY <1>2, QueueInvPush, QueueInvWrite, QueueInvLoop DEF QueueNext
<1> QED  BY <1>1, <1>2

\* The type invariant of Watch's queue, its eventfd and the main loop.
THEOREM QueueTypeCorrect == QueueSpec => []QueueTypeOK
<1>1. QueueInv => QueueTypeOK
  BY DEF QueueInv
<1> QED  BY <1>1, QueueInvInit, QueueInvStep, PTL DEF QueueSpec

\* Whatever threads push (Watch::pushQueue, popQueue), the eventfd counts the
\* entries that are queued, but for those still to be announced or being popped.
THEOREM EventFdCounts == QueueSpec => []FdCounts
<1>1. QueueInv => FdCounts
  BY DEF QueueInv
<1> QED  BY <1>1, QueueInvInit, QueueInvStep, PTL DEF QueueSpec

\* DispatchSource::dispatch processes the entry that popQueue removes.
THEOREM FrontProcessed == QueueSpec => []FrontKept
<1>1. QueueInv => FrontKept
  BY DEF QueueInv
<1> QED  BY <1>1, QueueInvInit, QueueInvStep, PTL DEF QueueSpec

-----------------------------------------------------------------------------
(* The queue of the service side.                                          *)

LEMMA QueueStep == [Next]_vars => [QueueNext]_queueVars
<1> SUFFICES ASSUME [Next]_vars PROVE [QueueNext]_queueVars
  OBVIOUS
<1>1. CASE UNCHANGED vars
  BY <1>1 DEF vars
<1>2. CASE \E r \in Requests, k \in Kinds : ReceiveQueued(r, k)
  BY <1>2, ServiceAssumption DEF ReceiveQueued, QueueNext
<1>3. CASE QueueTimeout
  BY <1>3, ServiceAssumption DEF QueueTimeout, QueueNext
<1>4. CASE EndPush \/ RunLoop \/ ProcessEntry \/ EndProcess
  BY <1>4 DEF EndPush, RunLoop, ProcessEntry, EndProcess, QueueNext
<1>5. CASE UNCHANGED queueVars
  BY <1>5
<1> QED
  BY <1>1, <1>2, <1>3, <1>4, <1>5 DEF Next, ReceiveDirectly, Handle, Reply, Begin, GoOn

\* What dispatcher thread, cleanup thread and main loop do with Watch's queue
\* (Connection::receive and cleanup, DispatchSource) is what MainLoopQueue allows.
THEOREM UsesQueue == Spec => QueueSpec
<1>1. Init => QueueInit
  BY DEF Init
<1> QED  BY <1>1, QueueStep, PTL DEF Spec, QueueSpec

\* So the eventfd counts the entries of the queue in every service process.
THEOREM ServiceFdCounts == Spec => []FdCounts
BY UsesQueue, EventFdCounts, PTL
-----------------------------------------------------------------------------
(* Stubs and their adapters.                                               *)

RegistryTypes ==
  /\ services \in Adapters \cup {Nothing}
  /\ pc \in [Threads -> Places]
  /\ held \in [Threads -> Adapters \cup {Nothing}]
  /\ dying \in [Threads -> Adapters \cup {Nothing}]
  /\ stage \in [Adapters -> Stages]

(* Whom a local variable refers to has no destructor running, nor has the  *)
(* registered adapter.                                                     *)
HeldLives ==
  /\ services # Nothing => stage[services] = "alive"
  /\ \A t \in Threads : held[t] # Nothing => stage[held[t]] \in {"promised", "alive"}

(* A registration under way has its adapter for itself. *)
RegistrationOwns ==
  \A t \in Threads :
    /\ pc[t] = "connecting" =>
         /\ held[t] # Nothing /\ stage[held[t]] = "promised"
         /\ \A u \in Threads \ {t} : held[u] # held[t]
    /\ pc[t] = "inserting" => held[t] # Nothing /\ stage[held[t]] = "alive"

(* One destructor per adapter. *)
DestructorOwns ==
  \A t \in Threads : pc[t] = "unregistering" =>
    /\ dying[t] # Nothing /\ stage[dying[t]] = "dying"
    /\ \A u \in Threads \ {t} : pc[u] = "unregistering" => dying[u] # dying[t]

(* While a stub is registered no new adapter appears. *)
RivalsKnown ==
  services # Nothing =>
    \A a \in Adapters \ {services} : stage[a] \in {"promised", "alive", "dying"} => a \in rivals

RegistryInv == RegistryTypes /\ HeldLives /\ RegistrationOwns /\ DestructorOwns /\ RivalsKnown

LEMMA RegistryInvInit == Init => RegistryInv
BY RegistryAssumption DEF Init, RegistryInit, RegistryInv, RegistryTypes, HeldLives,
   RegistrationOwns, DestructorOwns, RivalsKnown, Places, Stages

\* A thread goes on without touching the adapters' lives, and holds the
\* registered adapter at most.
LEMMA RegistryInvMove ==
  ASSUME RegistryInv, NEW t \in Threads, NEW to \in Places,
         to \notin {"connecting", "inserting", "unregistering"},
         Goes(t, to),
         UNCHANGED held \/ Holds(t, services),
         UNCHANGED <<services, rivals>> \/ services' = Nothing,
         UNCHANGED <<dying, stage>>
  PROVE  RegistryInv'
<1> USE DEF RegistryInv, Goes, Holds
<1>1. RegistryTypes'
  BY DEF RegistryTypes
<1>2. HeldLives'
  BY DEF RegistryTypes, HeldLives
<1>3. RegistrationOwns'
  BY RegistryAssumption DEF RegistryTypes, HeldLives, RegistrationOwns
<1>4. DestructorOwns'
  BY DEF RegistryTypes, DestructorOwns
<1>5. RivalsKnown'
  BY DEF RivalsKnown
<1> QED  BY <1>1, <1>2, <1>3, <1>4, <1>5

LEMMA RegistryInvRegister ==
  ASSUME RegistryInv, NEW t \in Threads, RegisterStub(t)
  PROVE  RegistryInv'
<1> DEFINE a == Fresh
<1>1. a \in Adapters /\ stage[a] = "unused"
  BY DEF RegisterStub, Unused, Fresh
<1>2. /\ services = Nothing /\ services' = Nothing
      /\ pc' = [pc EXCEPT ![t] = "connecting"] /\ held' = [held EXCEPT ![t] = a]
      /\ stage' = [stage EXCEPT ![a] = "promised"] /\ dying' = dying
  BY DEF RegisterStub, Goes, Holds
<1> HIDE DEF a
<1>3. RegistryTypes'
  BY <1>1, <1>2 DEF RegistryInv, RegistryTypes, Places, Stages
<1>4. HeldLives'
  BY <1>1, <1>2 DEF RegistryInv, RegistryTypes, HeldLives
<1>5. RegistrationOwns'
  BY <1>1, <1>2, RegistryAssumption DEF RegistryInv, RegistryTypes, HeldLives, RegistrationOwns
<1>6. DestructorOwns'
  BY <1>1, <1>2 DEF RegistryInv, RegistryTypes, DestructorOwns
<1>7. RivalsKnown'
  BY <1>2 DEF RivalsKnown
<1> QED  BY <1>3, <1>4, <1>5, <1>6, <1>7 DEF RegistryInv

LEMMA RegistryInvCreate ==
  ASSUME RegistryInv, NEW t \in Threads, CreateAdapter(t)
  PROVE  RegistryInv'
<1>1. /\ pc[t] = "connecting" /\ pc' = [pc EXCEPT ![t] = "inserting"]
      /\ stage' = [stage EXCEPT ![held[t]] = "alive"]
      /\ UNCHANGED <<services, held, dying, rivals>>
  BY DEF CreateAdapter, Goes, historyVars
<1>2. held[t] \in Adapters /\ stage[held[t]] = "promised"
  BY <1>1 DEF RegistryInv, RegistryTypes, RegistrationOwns
<1>3. RegistryTypes'
  BY <1>1, <1>2 DEF RegistryInv, RegistryTypes, Places, Stages
<1>4. HeldLives'
  BY <1>1, <1>2 DEF RegistryInv, RegistryTypes, HeldLives
<1>5. RegistrationOwns'
  BY <1>1, <1>2 DEF RegistryInv, RegistryTypes, RegistrationOwns
<1>6. DestructorOwns'
  BY <1>1, <1>2 DEF RegistryInv, RegistryTypes, DestructorOwns
<1>7. RivalsKnown'
  BY <1>1, <1>2 DEF RegistryInv, RegistryTypes, RivalsKnown
<1> QED  BY <1>3, <1>4, <1>5, <1>6, <1>7 DEF RegistryInv

LEMMA RegistryInvInsert ==
  ASSUME RegistryInv, NEW t \in Threads, InsertAdapter(t)
  PROVE  RegistryInv'
<1>1. /\ pc[t] = "inserting" /\ pc' = [pc EXCEPT ![t] = "returning"]
      /\ services = Nothing /\ services' = held[t]
      /\ rivals' = {a \in Adapters \ {held[t]} : stage[a] \in {"promised", "alive", "dying"}}
      /\ UNCHANGED <<held, stage, dying>>
  BY DEF InsertAdapter, Goes
<1>2. held[t] \in Adapters /\ stage[held[t]] = "alive"
  BY <1>1 DEF RegistryInv, RegistryTypes, RegistrationOwns
<1>3. RegistryTypes'
  BY <1>1, <1>2 DEF RegistryInv, RegistryTypes, Places
<1>4. HeldLives'
  BY <1>1, <1>2 DEF RegistryInv, RegistryTypes, HeldLives
<1>5. RegistrationOwns'
  BY <1>1, <1>2 DEF RegistryInv, RegistryTypes, RegistrationOwns
<1>6. DestructorOwns'
  BY <1>1 DEF RegistryInv, RegistryTypes, DestructorOwns
<1>7. RivalsKnown'
  BY <1>1 DEF RivalsKnown
<1> QED  BY <1>3, <1>4, <1>5, <1>6, <1>7 DEF RegistryInv

LEMMA RegistryInvDestroy ==
  ASSUME RegistryInv, NEW t \in Threads, DestroyAdapter(t)
  PROVE  RegistryInv'
<1>1. PICK to \in {"decrementing", "idle"} : pc' = [pc EXCEPT ![t] = to]
  BY DEF DestroyAdapter, EraseService, Goes
<1>2. /\ pc[t] = "unregistering" /\ services' = Nothing
      /\ \/ held' = held
         \/ services # Nothing /\ held' = [held EXCEPT ![t] = services]
      /\ stage' = [stage EXCEPT ![dying[t]] = "dead"]
      /\ dying' = [dying EXCEPT ![t] = Nothing]
  BY DEF DestroyAdapter, EraseService, Holds
<1>3. dying[t] \in Adapters /\ stage[dying[t]] = "dying"
  BY <1>2 DEF RegistryInv, RegistryTypes, DestructorOwns
<1>4. RegistryTypes'
  BY <1>1, <1>2, <1>3 DEF RegistryInv, RegistryTypes, Places, Stages
<1>5. HeldLives'
  BY <1>1, <1>2, <1>3 DEF RegistryInv, RegistryTypes, HeldLives
<1>6. RegistrationOwns'
  BY <1>1, <1>2, <1>3 DEF RegistryInv, RegistryTypes, HeldLives, RegistrationOwns
<1>7. DestructorOwns'
  BY <1>1, <1>2, <1>3 DEF RegistryInv, RegistryTypes, DestructorOwns
<1>8. RivalsKnown'
  BY <1>2 DEF RivalsKnown
<1> QED  BY <1>4, <1>5, <1>6, <1>7, <1>8 DEF RegistryInv

LEMMA RegistryInvDrop ==
  ASSUME RegistryInv, NEW t \in Threads, DropAdapter(t)
  PROVE  RegistryInv'
<1> DEFINE a == held[t]
<1>1. /\ pc[t] = "returning" /\ held' = [held EXCEPT ![t] = Nothing]
      /\ UNCHANGED <<services, rivals>>
  BY DEF DropAdapter, Holds, historyVars
<1>2. CASE /\ a # Nothing /\ services # a /\ \A u \in Threads \ {t} : held[u] # a
           /\ stage' = [stage EXCEPT ![a] = "dying"] /\ dying' = [dying EXCEPT ![t] = a]
           /\ pc' = [pc EXCEPT ![t] = "unregistering"]
  <2>1. a \in Adapters /\ stage[a] \in {"promised", "alive"}
    BY <1>2 DEF RegistryInv, RegistryTypes, HeldLives
  <2> HIDE DEF a
  <2>2. RegistryTypes'
    BY <1>1, <1>2, <2>1 DEF RegistryInv, RegistryTypes, Places, Stages
  <2>3. HeldLives'
    BY <1>1, <1>2, <2>1 DEF RegistryInv, RegistryTypes, HeldLives
  <2>4. RegistrationOwns'
    BY <1>1, <1>2, <2>1 DEF RegistryInv, RegistryTypes, RegistrationOwns
  <2>5. DestructorOwns'
    BY <1>1, <1>2, <2>1 DEF RegistryInv, RegistryTypes, DestructorOwns
  <2>6. RivalsKnown'
    BY <1>1, <1>2, <2>1 DEF RegistryInv, RegistryTypes, RivalsKnown
  <2> QED  BY <2>2, <2>3, <2>4, <2>5, <2>6 DEF RegistryInv
<1>3. CASE pc' = [pc EXCEPT ![t] = "idle"] /\ UNCHANGED <<stage, dying>>
  BY <1>1, <1>3 DEF RegistryInv, RegistryTypes, HeldLives, RegistrationOwns, DestructorOwns,
     RivalsKnown, Places
<1> QED  BY <1>2, <1>3 DEF DropAdapter, LastReference, Goes

\* What a thread that only moves may do.
LEMMA RegistryInvGoOn ==
  ASSUME RegistryInv, NEW t \in Threads, GoOn(t) \/ Begin(t)
  PROVE  RegistryInv'
<1>1. CASE RegisterStub(t) \/ CreateAdapter(t) \/ InsertAdapter(t) \/ DestroyAdapter(t) \/ DropAdapter(t)
  BY <1>1, RegistryInvRegister, RegistryInvCreate, RegistryInvInsert, RegistryInvDestroy,
     RegistryInvDrop
<1>2. CASE UnregisterStub(t)
  <2>1. Goes(t, "decrementing") /\ Holds(t, services) /\ services' = Nothing
        /\ UNCHANGED <<dying, stage>>
    BY <1>2 DEF UnregisterStub, EraseService
  <2> QED  BY <2>1, RegistryInvMove DEF Places
<1>3. CASE RefuseAdapter(t) \/ BuildProxy(t) \/ DestroyProxy(t) \/ DecrementConnection(t) \/ Disconnect(t)
  <2>1. PICK to \in {"returning", "proxied", "decrementing", "joining"} : Goes(t, to)
    BY <1>3 DEF RefuseAdapter, BuildProxy, DestroyProxy, DecrementConnection, Disconnect
  <2>2. UNCHANGED <<services, held, dying, stage, rivals>>
    BY <1>3 DEF RefuseAdapter, BuildProxy, DestroyProxy, DecrementConnection, Disconnect, historyVars
  <2> QED  BY <2>1, <2>2, RegistryInvMove DEF Places
<1> QED  BY <1>1, <1>2, <1>3 DEF GoOn, Begin

\* Handling a message moves the handling thread, which may take hold of the
\* registered adapter.
LEMMA RegistryInvReceives ==
  ASSUME RegistryInv, NEW h \in Threads, NEW r, Receives(h, r)
  PROVE  RegistryInv'
<1>1. Goes(h, "received") /\ UNCHANGED <<services, held, dying, stage, rivals>>
  BY DEF Receives, historyVars
<1> QED  BY <1>1, RegistryInvMove DEF Places

LEMMA RegistryInvHandle ==
  ASSUME RegistryInv, NEW h \in Threads, Handle(h)
  PROVE  RegistryInv'
<1>1. PICK to \in {"found", "idle", "returning", "inStub", "building"} : Goes(h, to)
  BY DEF Handle, HandleMessage, RefuseMessage, CallStub, StubReturns
<1>2. /\ UNCHANGED held \/ Holds(h, services)
      /\ UNCHANGED <<services, rivals, dying, stage>>
  BY DEF Handle, HandleMessage, RefuseMessage, CallStub, StubReturns, historyVars
<1> QED  BY <1>1, <1>2, RegistryInvMove DEF Places

LEMMA RegistryInvStep ==
  ASSUME RegistryInv, [Next]_vars
  PROVE  RegistryInv'
<1>1. CASE UNCHANGED registryVars
  BY <1>1 DEF registryVars, RegistryInv, RegistryTypes, HeldLives, RegistrationOwns,
     DestructorOwns, RivalsKnown
<1>2. CASE \E t \in Threads : GoOn(t) \/ Begin(t)
  BY <1>2, RegistryInvGoOn
<1>3. CASE \E h \in Threads : Handle(h)
  BY <1>3, RegistryInvHandle
<1>4. ASSUME Next PROVE RegistryInv'
  <2>1. Loop \in Threads /\ Dispatcher \in Threads /\ Handlers \subseteq Threads
        /\ Apps \subseteq Threads
    BY ServiceAssumption DEF Threads
  <2>2. CASE \E r \in Requests, k \in Kinds : ReceiveQueued(r, k) \/ ReceiveDirectly(r, k)
    BY <2>1, <2>2, <1>1, RegistryInvReceives DEF ReceiveQueued, ReceiveDirectly
  <2>3. CASE QueueTimeout \/ EndPush \/ RunLoop \/ EndProcess \/ \E k \in Repliers : Reply(k)
    BY <2>3, <1>1 DEF QueueTimeout, EndPush, RunLoop, EndProcess, Reply
  <2>4. CASE ProcessEntry
    BY <2>1, <2>4, <1>1, RegistryInvReceives DEF ProcessEntry
  <2>5. CASE \E h \in Handlers : Handle(h)
    BY <2>5, <2>1, <1>3
  <2>6. CASE (\E t \in Apps : Begin(t)) \/ \E t \in Threads : GoOn(t)
    BY <2>6, <2>1, <1>2
  <2> QED  BY <1>4, <2>2, <2>3, <2>4, <2>5, <2>6 DEF Next
<1> QED  BY <1>1, <1>4 DEF vars

LEMMA RegistryInvHolds == Spec => []RegistryInv
BY RegistryInvInit, RegistryInvStep, PTL DEF Spec

\* Factory::registerStub decides in two critical sections and ~StubAdapter
\* unregisters whatever has its address: still only adapters that were there
\* before a stub was registered can take it away.
THEOREM StubsKept == Spec => StubKept
<1>1. ASSUME RegistryInv
      PROVE  [ \A t \in Threads :
                 /\ pc[t] = "unregistering" /\ pc'[t] # "unregistering"
                 /\ services # Nothing /\ services' = Nothing
                 => dying[t] \in rivals ]_registryVars
  <2> SUFFICES ASSUME NEW t \in Threads, pc[t] = "unregistering", services # Nothing
               PROVE  dying[t] \in rivals
    OBVIOUS
  <2>1. dying[t] \in Adapters /\ stage[dying[t]] = "dying"
    BY <1>1 DEF RegistryInv, RegistryTypes, DestructorOwns
  <2>2. dying[t] # services
    BY <1>1, <2>1 DEF RegistryInv, HeldLives
  <2> QED  BY <1>1, <2>1, <2>2 DEF RegistryInv, RivalsKnown
<1> QED  BY <1>1, RegistryInvHolds, PTL DEF StubKept

-----------------------------------------------------------------------------
(* The connection.                                                         *)

Users == At("inserting") + At("proxied") + At("decrementing")
Registered == IF services # Nothing THEN 1 ELSE 0
Uses(p) == IF p \in {"inserting", "proxied", "decrementing"} THEN 1 ELSE 0

CountTypes ==
  /\ connection \in Nat /\ created \in Nat /\ connection <= created
  /\ active \in Nat /\ refused \in Nat
  /\ of \in [Adapters -> Nat]

UsersCounted == active = refused + Users + Registered

(* Who waits for the connection's threads keeps connectionMutex_; there    *)
(* are no users then.                                                      *)
JoiningOwns ==
  /\ \A t \in Threads : pc[t] = "joining" <=> owner = t
  /\ owner # Nothing => active = 0

ConnectionUsed ==
  /\ connection = 0 => active = 0
  /\ services # Nothing => of[services] = connection
  /\ \A t \in Threads : pc[t] = "inserting" => of[held[t]] = connection

CountInv == CountTypes /\ UsersCounted /\ JoiningOwns /\ ConnectionUsed

LEMMA AtGoes ==
  ASSUME RegistryTypes, NEW p
  PROVE  /\ At(p) \in Nat
         /\ \A t \in Threads : pc[t] = p => At(p) >= 1
         /\ \A t \in Threads, to \in Places :
              Goes(t, to) =>
                At(p)' = At(p) + (IF to = p THEN 1 ELSE 0) - (IF pc[t] = p THEN 1 ELSE 0)
<1> DEFINE S == {t \in Threads : pc[t] = p}
<1>1. IsFiniteSet(S) /\ S \subseteq Threads
  BY FS_Subset, RegistryAssumption
<1>2. Cardinality(S) \in Nat
  BY <1>1, FS_CardinalityType
<1>3. \A t \in S : Cardinality(S) >= 1
  BY <1>1, <1>2, FS_EmptySet
<1>4. ASSUME NEW t \in Threads, NEW to \in Places, Goes(t, to)
      PROVE  At(p)' = At(p) + (IF to = p THEN 1 ELSE 0) - (IF pc[t] = p THEN 1 ELSE 0)
  <2> DEFINE T == {u \in Threads : pc'[u] = p}
  <2>1. At(p) = Cardinality(S) /\ At(p)' = Cardinality(T)
    BY DEF At
  <2>2. T = IF to = p THEN S \cup {t} ELSE S \ {t}
    BY <1>4 DEF Goes, RegistryTypes
  <2>3. t \in S <=> pc[t] = p
    OBVIOUS
  <2> HIDE DEF S, T
  <2>4. CASE to = p /\ pc[t] # p
    <3>1. Cardinality(T) = Cardinality(S) + 1
      BY <1>1, <2>2, <2>3, <2>4, FS_AddElement
    <3> QED  BY <1>2, <2>1, <2>4, <3>1
  <2>5. CASE to # p /\ pc[t] = p
    <3>1. Cardinality(T) = Cardinality(S) - 1
      BY <1>1, <2>2, <2>3, <2>5, FS_RemoveElement
    <3> QED  BY <1>2, <2>1, <2>5, <3>1
  <2>6. CASE to = p <=> pc[t] = p
    <3>1. T = S
      BY <2>2, <2>3, <2>6
    <3> QED  BY <1>2, <2>1, <2>6, <3>1
  <2> QED  BY <2>4, <2>5, <2>6
<1> QED  BY <1>2, <1>3, <1>4 DEF At

LEMMA UsersGo ==
  ASSUME RegistryTypes
  PROVE  /\ Users \in Nat
         /\ \A t \in Threads : Uses(pc[t]) <= Users
         /\ \A t \in Threads, to \in Places :
              Goes(t, to) => Users' = Users + Uses(to) - Uses(pc[t])
<1>1. /\ At("inserting") \in Nat /\ At("proxied") \in Nat /\ At("decrementing") \in Nat
      /\ \A t \in Threads : /\ pc[t] = "inserting" => At("inserting") >= 1
                            /\ pc[t] = "proxied" => At("proxied") >= 1
                            /\ pc[t] = "decrementing" => At("decrementing") >= 1
  BY AtGoes
<1>2. ASSUME NEW t \in Threads, NEW to \in Places, Goes(t, to)
      PROVE  Users' = Users + Uses(to) - Uses(pc[t])
  <2>1. At("inserting")' = At("inserting") + (IF to = "inserting" THEN 1 ELSE 0)
                                           - (IF pc[t] = "inserting" THEN 1 ELSE 0)
    BY <1>2, AtGoes
  <2>2. At("proxied")' = At("proxied") + (IF to = "proxied" THEN 1 ELSE 0)
                                       - (IF pc[t] = "proxied" THEN 1 ELSE 0)
    BY <1>2, AtGoes
  <2>3. At("decrementing")' = At("decrementing") + (IF to = "decrementing" THEN 1 ELSE 0)
                                                 - (IF pc[t] = "decrementing" THEN 1 ELSE 0)
    BY <1>2, AtGoes
  <2> QED  BY <1>1, <2>1, <2>2, <2>3 DEF Users, Uses
<1> QED  BY <1>1, <1>2 DEF Users, Uses

\* Without users nothing refers to the connection.
LEMMA Unused0 ==
  ASSUME RegistryInv, CountInv, active = 0
  PROVE  services = Nothing /\ \A t \in Threads : pc[t] # "inserting"
<1>1. RegistryTypes /\ Users \in Nat /\ Registered \in Nat /\ refused \in Nat
  BY UsersGo DEF RegistryInv, CountInv, CountTypes, Registered
<1>2. Users = 0 /\ Registered = 0
  BY <1>1 DEF CountInv, UsersCounted
<1>3. \A t \in Threads : Uses(pc[t]) <= 0
  BY <1>1, <1>2, UsersGo
<1> QED  BY <1>2, <1>3 DEF Registered, Uses

LEMMA CountInvInit == Init => CountInv
<1> SUFFICES ASSUME Init PROVE CountInv
  OBVIOUS
<1> USE DEF Init, RegistryInit
<1>1. \A p \in {"inserting", "proxied", "decrementing"} : At(p) = 0
  BY FS_EmptySet DEF At
<1>2. Users = 0 /\ Registered = 0
  BY <1>1 DEF Users, Registered
<1>3. CountTypes /\ UsersCounted
  BY <1>2 DEF CountTypes, UsersCounted
<1>4. JoiningOwns /\ ConnectionUsed
  BY RegistryAssumption DEF JoiningOwns, ConnectionUsed
<1> QED  BY <1>3, <1>4 DEF CountInv

\* Steps that neither take nor give back the connection.
LEMMA CountInvMove ==
  ASSUME RegistryInv, CountInv, NEW t \in Threads, NEW to \in Places, Goes(t, to),
         Uses(to) = 0, Uses(pc[t]) = 0, to # "joining", pc[t] # "joining",
         UNCHANGED held \/ (\E a : Holds(t, a)),
         UNCHANGED <<services, connectionVars, of, refused>>
  PROVE  CountInv'
<1> USE DEF CountInv, connectionVars
<1>1. pc' = [pc EXCEPT ![t] = to] /\ pc \in [Threads -> Places] /\ RegistryTypes
  BY DEF Goes, RegistryInv, RegistryTypes
<1>2. Users' = Users
  BY <1>1, UsersGo
<1>3. CountTypes' /\ UsersCounted'
  BY <1>2 DEF CountTypes, UsersCounted, Registered
<1>4. JoiningOwns'
  BY <1>1 DEF JoiningOwns
<1>5. \A u \in Threads : pc'[u] = "inserting" => pc[u] = "inserting" /\ held'[u] = held[u]
  BY <1>1 DEF Holds, RegistryTypes, Uses
<1>6. ConnectionUsed'
  BY <1>5 DEF ConnectionUsed
<1> QED  BY <1>3, <1>4, <1>6

\* Factory::getConnection: a registration or a proxy becomes a user.
LEMMA CountInvGet ==
  ASSUME RegistryInv, CountInv, NEW t \in Threads, CreateAdapter(t) \/ BuildProxy(t)
  PROVE  CountInv'
<1> USE DEF CountInv
<1>1. /\ owner = Nothing /\ owner' = owner /\ active' = active + 1
      /\ \/ connection = 0 /\ connection' = created + 1 /\ created' = created + 1
         \/ connection # 0 /\ connection' = connection /\ created' = created
      /\ UNCHANGED <<services, refused, held>>
  BY DEF CreateAdapter, BuildProxy, GetConnection, historyVars
<1>2. PICK to \in {"inserting", "proxied"} :
        /\ Goes(t, to) /\ pc' = [pc EXCEPT ![t] = to]
        /\ \/ to = "inserting" /\ pc[t] = "connecting" /\ of' = [of EXCEPT ![held[t]] = connection']
           \/ to = "proxied" /\ pc[t] = "building" /\ of' = of
  BY DEF CreateAdapter, BuildProxy, Goes
<1>3. RegistryTypes /\ pc \in [Threads -> Places] /\ to \in Places
  BY DEF RegistryInv, RegistryTypes, Places
<1>4. Users' = Users + 1 /\ Users \in Nat
  BY <1>2, <1>3, UsersGo DEF Uses
<1>5. CountTypes'
  BY <1>1, <1>2 DEF CountTypes
<1>6. UsersCounted'
  BY <1>1, <1>4 DEF CountTypes, UsersCounted, Registered
<1>7. JoiningOwns'
  BY <1>1, <1>2, <1>3 DEF JoiningOwns
<1>8. connection # 0 \/ (services = Nothing /\ \A u \in Threads : pc[u] # "inserting")
  BY Unused0 DEF ConnectionUsed
<1>9. ConnectionUsed'
  <2>1. connection' # 0
    BY <1>1 DEF CountTypes
  <2>2. services # Nothing => services \in Adapters /\ of'[services] = of[services]
    BY <1>2, <1>3 DEF RegistryInv, RegistryTypes, HeldLives, RegistrationOwns, CountTypes
  <2>3. ASSUME NEW u \in Threads, pc'[u] = "inserting" PROVE of'[held'[u]] = connection'
    <3>1. CASE u = t
      <4>1. to = "inserting" /\ held[t] \in Adapters
        BY <1>2, <1>3, <2>3, <3>1 DEF RegistryInv, RegistryTypes, RegistrationOwns
      <4> QED  BY <1>1, <1>2, <3>1, <4>1 DEF CountTypes
    <3>2. CASE u # t
      <4>1. pc[u] = "inserting" /\ of[held[u]] = connection
        BY <1>2, <1>3, <2>3, <3>2 DEF ConnectionUsed
      <4>2. held[u] \in Adapters /\ stage[held[u]] = "alive"
        BY <4>1 DEF RegistryInv, RegistryTypes, RegistrationOwns
      <4>3. of'[held[u]] = of[held[u]]
        BY <1>2, <4>2 DEF RegistryInv, RegistryTypes, RegistrationOwns, CountTypes
      <4> QED  BY <1>1, <1>8, <4>1, <4>3
    <3> QED  BY <3>1, <3>2
  <2> QED  BY <1>1, <1>8, <2>1, <2>2, <2>3 DEF ConnectionUsed
<1> QED  BY <1>5, <1>6, <1>7, <1>9

\* A registration ends: its user becomes that of the registered stub, or is
\* never given back.
LEMMA CountInvRegistered ==
  ASSUME RegistryInv, CountInv, NEW t \in Threads, InsertAdapter(t) \/ RefuseAdapter(t)
  PROVE  CountInv'
<1> USE DEF CountInv
<1>1. PICK to \in {"returning"} : Goes(t, to) /\ pc' = [pc EXCEPT ![t] = to]
  BY DEF InsertAdapter, RefuseAdapter, Goes
<1>2. /\ pc[t] = "inserting" /\ UNCHANGED <<connection, created, active, owner, of, held>>
      /\ \/ services = Nothing /\ services' = held[t] /\ refused' = refused
         \/ refused' = refused + 1 /\ UNCHANGED services
  BY DEF InsertAdapter, RefuseAdapter, connectionVars
<1>3. RegistryTypes /\ pc \in [Threads -> Places] /\ to \in Places /\ held[t] # Nothing
  BY <1>2 DEF RegistryInv, RegistryTypes, RegistrationOwns, Places
<1>4. Users' = Users - 1 /\ Users \in Nat
  BY <1>1, <1>2, <1>3, UsersGo DEF Uses
<1>5. CountTypes'
  BY <1>2 DEF CountTypes
<1>6. UsersCounted'
  <2>1. active = refused + Users + Registered /\ refused \in Nat /\ active \in Nat
    BY DEF UsersCounted, CountTypes
  <2>2. CASE services = Nothing /\ services' = held[t] /\ refused' = refused
    <3>1. Registered = 0 /\ Registered' = 1
      BY <1>3, <2>2 DEF Registered
    <3> QED  BY <1>2, <1>4, <2>1, <2>2, <3>1 DEF UsersCounted
  <2>3. CASE refused' = refused + 1 /\ UNCHANGED services
    <3>1. Registered' = Registered /\ Registered \in Nat
      BY <2>3 DEF Registered
    <3> QED  BY <1>2, <1>4, <2>1, <2>3, <3>1 DEF UsersCounted
  <2> QED  BY <1>2, <2>2, <2>3
<1>7. JoiningOwns'
  BY <1>1, <1>2, <1>3 DEF JoiningOwns
<1>8. \A u \in Threads : pc'[u] = "inserting" => pc[u] = "inserting" /\ held'[u] = held[u]
  BY <1>1, <1>2, <1>3 DEF RegistryTypes
<1>9. ConnectionUsed'
  BY <1>2, <1>8 DEF ConnectionUsed
<1> QED  BY <1>5, <1>6, <1>7, <1>9

\* A stub is unregistered: its user is about to be given back.
LEMMA CountInvUnregister ==
  ASSUME RegistryInv, CountInv, NEW t \in Threads, UnregisterStub(t) \/ DestroyAdapter(t)
  PROVE  CountInv'
<1> USE DEF CountInv
<1>1. PICK to \in {"decrementing", "idle"} :
        /\ Goes(t, to) /\ pc' = [pc EXCEPT ![t] = to]
        /\ to = "decrementing" <=> services # Nothing
  BY DEF UnregisterStub, DestroyAdapter, EraseService, Goes
<1>2. /\ pc[t] \in {"idle", "unregistering"} /\ services' = Nothing
      /\ held' = held \/ \E a : held' = [held EXCEPT ![t] = a]
      /\ \/ of' = of
         \/ pc[t] = "unregistering" /\ of' = [of EXCEPT ![dying[t]] = 0]
      /\ UNCHANGED <<connection, created, active, owner, refused>>
  BY DEF UnregisterStub, DestroyAdapter, EraseService, Holds, connectionVars
<1>3. RegistryTypes /\ pc \in [Threads -> Places] /\ to \in Places
  BY DEF RegistryInv, RegistryTypes, Places
<1>4. Users' = Users + Registered /\ Users \in Nat
  BY <1>1, <1>2, <1>3, UsersGo DEF Uses, Registered
<1>5. CountTypes'
  BY <1>2 DEF CountTypes
<1>6. UsersCounted'
  BY <1>2, <1>4 DEF CountTypes, UsersCounted, Registered
<1>7. JoiningOwns'
  BY <1>1, <1>2, <1>3 DEF JoiningOwns
<1>8. ASSUME NEW u \in Threads, pc'[u] = "inserting" PROVE of'[held'[u]] = connection'
  <2>1. pc[u] = "inserting" /\ held'[u] = held[u] /\ of[held[u]] = connection
    BY <1>1, <1>2, <1>3, <1>8 DEF RegistryTypes, ConnectionUsed
  <2>2. held[u] \in Adapters /\ stage[held[u]] = "alive"
    BY <2>1 DEF RegistryInv, RegistryTypes, RegistrationOwns
  <2>3. of'[held[u]] = of[held[u]]
    BY <1>2, <2>2 DEF RegistryInv, RegistryTypes, DestructorOwns, CountTypes
  <2> QED  BY <1>2, <2>1, <2>3
<1>9. ConnectionUsed'
  BY <1>2, <1>8 DEF ConnectionUsed
<1> QED  BY <1>5, <1>6, <1>7, <1>9

\* Factory::decrementConnection, and what the last user waits for.
LEMMA CountInvRelease ==
  ASSUME RegistryInv, CountInv, NEW t \in Threads,
         DestroyProxy(t) \/ DecrementConnection(t) \/ Disconnect(t)
  PROVE  CountInv'
<1> USE DEF CountInv
<1>1. RegistryTypes /\ pc \in [Threads -> Places] /\ Users \in Nat /\ Registered \in Nat
      /\ active \in Nat /\ refused \in Nat
  BY UsersGo DEF RegistryInv, RegistryTypes, CountTypes, Registered
<1>2. CASE DestroyProxy(t)
  <2>1. pc[t] = "proxied" /\ Goes(t, "decrementing") /\ pc' = [pc EXCEPT ![t] = "decrementing"]
        /\ UNCHANGED <<services, connection, created, active, owner, refused, of, held>>
    BY <1>2 DEF DestroyProxy, Goes, connectionVars, historyVars
  <2>2. Users' = Users
    BY <1>1, <2>1, UsersGo DEF Uses, Places
  <2> QED  BY <1>1, <2>1, <2>2 DEF CountTypes, UsersCounted, Registered, JoiningOwns, ConnectionUsed
<1>3. CASE DecrementConnection(t)
  <2>1. PICK to \in {"joining", "returning"} :
          /\ Goes(t, to) /\ pc' = [pc EXCEPT ![t] = to]
          /\ to = "joining" => active = 1 /\ owner' = t
          /\ to = "returning" => owner' = owner
    BY <1>3 DEF DecrementConnection, Goes
  <2>2. /\ pc[t] = "decrementing" /\ owner = Nothing /\ active' = active - 1
        /\ UNCHANGED <<services, connection, created, refused, of, held>>
    BY <1>3 DEF DecrementConnection, historyVars
  <2>3. Users' = Users - 1 /\ Users >= 1
    BY <1>1, <2>1, <2>2, UsersGo DEF Uses, Places
  <2>4. active >= 1
    BY <1>1, <2>3 DEF UsersCounted
  <2>5. CountTypes' /\ UsersCounted'
    BY <1>1, <2>2, <2>3, <2>4 DEF CountTypes, UsersCounted, Registered
  <2>6. JoiningOwns'
    BY <1>1, <2>1, <2>2, RegistryAssumption DEF JoiningOwns
  <2>7. ConnectionUsed'
    BY <1>1, <2>1, <2>2, <2>4 DEF ConnectionUsed
  <2> QED  BY <2>5, <2>6, <2>7
<1>4. CASE Disconnect(t)
  <2>1. /\ pc[t] = "joining" /\ Goes(t, "returning") /\ pc' = [pc EXCEPT ![t] = "returning"]
        /\ connection' = 0 /\ owner' = Nothing
        /\ UNCHANGED <<services, created, active, refused, of, held>>
    BY <1>4 DEF Disconnect, Goes, historyVars
  <2>2. owner = t /\ active = 0 /\ services = Nothing /\ \A u \in Threads : pc[u] # "inserting"
    BY <2>1, Unused0, RegistryAssumption DEF JoiningOwns
  <2>3. Users' = Users
    BY <1>1, <2>1, UsersGo DEF Uses, Places
  <2>4. CountTypes' /\ UsersCounted'
    BY <1>1, <2>1, <2>3 DEF CountTypes, UsersCounted, Registered
  <2>5. JoiningOwns'
    BY <1>1, <2>1, <2>2, RegistryAssumption DEF JoiningOwns
  <2>6. ConnectionUsed'
    BY <1>1, <2>1, <2>2 DEF ConnectionUsed
  <2> QED  BY <2>4, <2>5, <2>6
<1> QED  BY <1>2, <1>3, <1>4

LEMMA CountInvThread ==
  ASSUME RegistryInv, CountInv, NEW t \in Threads, Begin(t) \/ GoOn(t)
  PROVE  CountInv'
<1>1. CASE CreateAdapter(t) \/ BuildProxy(t) \/ InsertAdapter(t) \/ RefuseAdapter(t) \/ UnregisterStub(t)
           \/ DestroyAdapter(t) \/ DestroyProxy(t) \/ DecrementConnection(t) \/ Disconnect(t)
  BY <1>1, CountInvGet, CountInvRegistered, CountInvUnregister, CountInvRelease
<1>2. CASE RegisterStub(t) \/ DropAdapter(t)
  <2>1. PICK to \in {"connecting", "unregistering", "idle"} : Goes(t, to)
    BY <1>2 DEF RegisterStub, DropAdapter
  <2>2. /\ pc[t] \in {"idle", "returning"} /\ \E a : Holds(t, a)
        /\ UNCHANGED <<services, connectionVars, of, refused>>
    BY <1>2 DEF RegisterStub, DropAdapter, historyVars
  <2> QED  BY <2>1, <2>2, CountInvMove DEF Uses, Places
<1> QED  BY <1>1, <1>2 DEF Begin, GoOn

LEMMA CountInvHandle ==
  ASSUME RegistryInv, CountInv, NEW h \in Threads, (\E r : Receives(h, r)) \/ Handle(h)
  PROVE  CountInv'
<1>1. PICK to \in {"received", "found", "idle", "returning", "inStub", "building"} : Goes(h, to)
  BY DEF Receives, Handle, HandleMessage, RefuseMessage, CallStub, StubReturns
<1>2. pc[h] \in {"idle", "received", "found", "inStub"}
  BY DEF Receives, Handle, HandleMessage, RefuseMessage, CallStub, StubReturns
<1>3. UNCHANGED held \/ \E a : Holds(h, a)
  BY DEF Receives, Handle, HandleMessage, RefuseMessage, CallStub, StubReturns
<1>4. UNCHANGED <<services, connectionVars, of, refused>>
  BY DEF Receives, Handle, HandleMessage, RefuseMessage, CallStub, StubReturns, historyVars
<1> QED  BY <1>1, <1>2, <1>3, <1>4, CountInvMove DEF Uses, Places

LEMMA CountInvStep ==
  ASSUME RegistryInv, CountInv, [Next]_vars
  PROVE  CountInv'
<1>1. CASE UNCHANGED registryVars
  <2>1. Users' = Users
    BY <1>1 DEF registryVars, Users, At
  <2> QED  BY <1>1, <2>1 DEF registryVars, CountInv, CountTypes, UsersCounted, Registered,
           JoiningOwns, ConnectionUsed
<1>2. ASSUME Next PROVE CountInv'
  <2>1. Loop \in Threads /\ Dispatcher \in Threads /\ Handlers \subseteq Threads
        /\ Apps \subseteq Threads
    BY ServiceAssumption DEF Threads
  <2>2. CASE \E r \in Requests, k \in Kinds : ReceiveQueued(r, k) \/ ReceiveDirectly(r, k)
    BY <2>1, <2>2, <1>1, CountInvHandle DEF ReceiveQueued, ReceiveDirectly
  <2>3. CASE QueueTimeout \/ EndPush \/ RunLoop \/ EndProcess \/ \E k \in Repliers : Reply(k)
    BY <2>3, <1>1 DEF QueueTimeout, EndPush, RunLoop, EndProcess, Reply
  <2>4. CASE ProcessEntry
    BY <2>1, <2>4, <1>1, CountInvHandle DEF ProcessEntry
  <2>5. CASE \E h \in Handlers : Handle(h)
    BY <2>5, <2>1, CountInvHandle
  <2>6. CASE (\E t \in Apps : Begin(t)) \/ \E t \in Threads : GoOn(t)
    BY <2>6, <2>1, CountInvThread
  <2> QED  BY <1>2, <2>2, <2>3, <2>4, <2>5, <2>6 DEF Next
<1> QED  BY <1>1, <1>2 DEF vars

\* However getConnection and decrementConnection follow each other in whatever
\* threads, activeConnections_ counts who uses the connection, and the
\* connection is not given up while a stub is registered on it.
THEOREM ConnectionsCounted == Spec => []ConnectionCounted
<1>1. RegistryInv /\ CountInv => ConnectionCounted
  <2> SUFFICES ASSUME RegistryInv, CountInv PROVE ConnectionCounted
    OBVIOUS
  <2>1. At("inserting") \in Nat /\ At("proxied") \in Nat /\ At("decrementing") \in Nat
    BY AtGoes DEF RegistryInv
  <2> QED  BY <2>1 DEF CountInv, CountTypes, UsersCounted, ConnectionUsed, Users, Registered,
           ConnectionCounted
<1> QED  BY <1>1, RegistryInvInit, RegistryInvStep, CountInvInit, CountInvStep, PTL DEF Spec

-----------------------------------------------------------------------------
(* Requests and replies.                                                   *)

DispatchTypes ==
  /\ pc \in [Threads -> Places]
  /\ place \in [Requests -> RequestPlaces]
  /\ work \in [Handlers -> Requests \cup {Nothing}]
  /\ pending \in [Requests -> {"none", "request", "response"}]
  /\ answers \in [Requests -> Seq(Errors \cup Repliers)]
  /\ job \in [Repliers -> Requests \cup {Nothing}]
  /\ told \in [Repliers -> {"nothing", "preparing", "true", "false"}]

(* A request is queued once ... *)
QueuedOnce ==
  \A i \in 1..Len(queue) : queue[i] # TimedOut =>
    /\ queue[i] \in Requests /\ place[queue[i]] = "queued"
    /\ \A j \in 1..Len(queue) : queue[j] = queue[i] => j = i

(* ... and handled by one thread. *)
Handling(h) == pc[h] \in {"received", "found"}

HandledOnce ==
  \A h \in Handlers : Handling(h) =>
    /\ work[h] \in Requests /\ place[work[h]] = "handled"
    /\ \A g \in Handlers \ {h} : Handling(g) => work[g] # work[h]

(* What is pending has no answer yet, nor has what no stub has been given. *)
PendingUnanswered ==
  \A r \in Requests :
    /\ place[r] \in {"new", "queued", "handled", "dropped"} =>
         pending[r] = "none" /\ answers[r] = <<>>
    /\ pending[r] # "none" => answers[r] = <<>>
    /\ Len(answers[r]) <= 1

Answered(k) == \E r \in Requests : \E i \in 1..Len(answers[r]) : answers[r][i] = k

RepliersTold ==
  \A k \in Repliers :
    /\ told[k] = "preparing" => job[k] \in Requests
    /\ told[k] = "true" <=> Answered(k)

DispatchInv == DispatchTypes /\ QueuedOnce /\ HandledOnce /\ PendingUnanswered /\ RepliersTold

LEMMA DispatchInvInit == Init => DispatchInv
<1> SUFFICES ASSUME Init PROVE DispatchInv
  OBVIOUS
<1> USE DEF Init, RegistryInit, RequestInit, QueueInit
<1>1. DispatchTypes
  BY DEF DispatchTypes, Places, RequestPlaces
<1>2. QueuedOnce /\ HandledOnce
  BY DEF QueuedOnce, HandledOnce, Handling, Threads
<1>3. PendingUnanswered /\ RepliersTold
  BY DEF PendingUnanswered, RepliersTold, Answered
<1> QED  BY <1>1, <1>2, <1>3 DEF DispatchInv

\* Threads that do not handle a message leave the requests alone.
LEMMA DispatchInvElsewhere ==
  ASSUME DispatchInv, NEW t \in Threads, NEW p \in Places \ {"received", "found"},
         Goes(t, p) \/ UNCHANGED pc, UNCHANGED <<requestVars, queue>>
  PROVE  DispatchInv'
<1> USE DEF DispatchInv, Goes, requestVars
<1>1. DispatchTypes'
  BY DEF DispatchTypes
<1>2. QueuedOnce' /\ PendingUnanswered' /\ RepliersTold'
  BY DEF QueuedOnce, PendingUnanswered, RepliersTold, Answered
<1>3. HandledOnce'
  BY DEF DispatchTypes, HandledOnce, Handling, Threads
<1> QED  BY <1>1, <1>2, <1>3

\* A request that nobody else handles or has queued begins to be handled.
LEMMA DispatchInvReceives ==
  ASSUME DispatchInv, NEW h \in Handlers, NEW r \in Requests, Receives(h, r),
         place[r] \in {"new", "queued"},
         UNCHANGED <<pending, answers, job, told>>,
         QueuedOnce'
  PROVE  DispatchInv'
<1>1. /\ pc' = [pc EXCEPT ![h] = "received"] /\ work' = [work EXCEPT ![h] = r]
      /\ place' = [place EXCEPT ![r] = "handled"]
  BY DEF Receives, Goes, Becomes
<1> USE DEF DispatchInv
<1>2. DispatchTypes'
  BY <1>1 DEF DispatchTypes, Places, RequestPlaces, Threads
<1>3. HandledOnce'
  BY <1>1 DEF DispatchTypes, HandledOnce, Handling, Threads
<1>4. PendingUnanswered'
  BY <1>1 DEF DispatchTypes, PendingUnanswered
<1>5. RepliersTold'
  BY DEF RepliersTold, Answered
<1> QED  BY <1>2, <1>3, <1>4, <1>5

LEMMA DispatchInvQueue ==
  ASSUME DispatchInv, QueueInv,
         NEW r \in Requests, NEW k \in Kinds, ReceiveQueued(r, k) \/ ReceiveDirectly(r, k)
  PROVE  DispatchInv'
<1> USE DEF DispatchInv
<1>1. place[r] = "new" /\ UNCHANGED <<pending, answers, job, told>>
  BY DEF ReceiveQueued, ReceiveDirectly, Arrives
<1>2. CASE ReceiveQueued(r, k)
  <2>1. /\ queue' = Append(queue, r) /\ place' = [place EXCEPT ![r] = "queued"]
        /\ UNCHANGED <<pc, work>>
    BY <1>2 DEF ReceiveQueued, PushQueue, Becomes, registryVars
  <2>2. queue \in Seq(Entries) /\ r \in Entries
    BY ServiceAssumption DEF QueueInv, QueueTypeOK
  <2>3. DispatchTypes'
    BY <1>1, <2>1 DEF DispatchTypes, RequestPlaces
  <2>4. QueuedOnce'
    <3>1. \A i \in 1..Len(queue) : queue'[i] = queue[i] /\ queue[i] # r
      BY <1>1, <2>1, <2>2, ServiceAssumption DEF QueuedOnce
    <3>2. Len(queue') = Len(queue) + 1 /\ queue'[Len(queue) + 1] = r /\ Len(queue) \in Nat
      BY <2>1, <2>2
    <3>3. place'[r] = "queued"
          /\ \A i \in 1..Len(queue) : queue[i] # TimedOut => place'[queue[i]] = "queued"
      BY <2>1, <3>1 DEF QueuedOnce, DispatchTypes
    <3>4. \A i \in 1..Len(queue') : i \in 1..Len(queue) \/ i = Len(queue) + 1
      BY <3>2
    <3> QED  BY <3>1, <3>2, <3>3, <3>4 DEF QueuedOnce
  <2>5. HandledOnce' /\ PendingUnanswered' /\ RepliersTold'
    BY <1>1, <2>1 DEF DispatchTypes, HandledOnce, Handling, PendingUnanswered, RepliersTold, Answered
  <2> QED  BY <2>3, <2>4, <2>5
<1>3. CASE ReceiveDirectly(r, k)
  <2>1. Receives(Dispatcher, r) /\ UNCHANGED queue /\ place' = [place EXCEPT ![r] = "handled"]
    BY <1>3 DEF ReceiveDirectly, Receives, queueVars, Becomes
  <2>2. QueuedOnce'
    BY <1>1, <2>1 DEF QueuedOnce, DispatchTypes
  <2> QED  BY <1>1, <2>1, <2>2, DispatchInvReceives, ServiceAssumption
<1> QED  BY <1>2, <1>3

LEMMA DispatchInvProcess ==
  ASSUME DispatchInv, QueueInv, ProcessEntry
  PROVE  DispatchInv'
<1> USE DEF DispatchInv
<1>1. queue \in Seq(Entries) /\ queue # <<>> /\ front = queue[1] /\ queue' = Tail(queue)
  BY DEF ProcessEntry, PopQueue, QueueInv, QueueTypeOK, FrontKept
<1>2. Len(queue') = Len(queue) - 1 /\ Len(queue) \in Nat \ {0}
      /\ \A i \in 1..Len(queue') : queue'[i] = queue[i + 1] /\ i + 1 \in 1..Len(queue)
  BY <1>1
<1>3. ASSUME NEW i \in 1..Len(queue'), queue'[i] # TimedOut
      PROVE  /\ place[queue'[i]] = "queued" /\ queue'[i] \in Requests
             /\ \A j \in 1..Len(queue') : queue'[j] = queue'[i] => j = i
  <2>1. i + 1 \in 1..Len(queue) /\ queue[i + 1] = queue'[i]
    BY <1>2
  <2>2. \A j \in 1..Len(queue') :
          queue'[j] = queue'[i] => j + 1 \in 1..Len(queue) /\ queue[j + 1] = queue[i + 1]
    BY <1>2, <2>1
  <2>3. queue[i + 1] \in Requests /\ place[queue[i + 1]] = "queued"
        /\ \A j \in 1..Len(queue) : queue[j] = queue[i + 1] => j = i + 1
    BY <2>1, <1>3 DEF QueuedOnce
  <2>4. \A j \in 1..Len(queue') : queue'[j] = queue'[i] => j + 1 = i + 1
    BY <2>2, <2>3
  <2> QED  BY <1>2, <1>3, <2>1, <2>3, <2>4
<1>4. CASE UNCHANGED <<registryVars, requestVars>>
  <2>1. QueuedOnce'
    BY <1>3, <1>4 DEF requestVars, QueuedOnce
  <2> QED  BY <1>4, <2>1 DEF registryVars, requestVars, DispatchTypes, HandledOnce, Handling,
           PendingUnanswered, RepliersTold, Answered
<1>5. CASE /\ front # TimedOut /\ Receives(Loop, front)
           /\ UNCHANGED <<kind, via, stub, pending, answers, job, told>>
  <2>1. front \in Requests /\ place[front] = "queued" /\ Loop \in Handlers
        /\ \A i \in 1..Len(queue') : queue'[i] # front
    BY <1>1, <1>2, <1>5, ServiceAssumption DEF QueuedOnce
  <2>2. place' = [place EXCEPT ![front] = "handled"]
    BY <1>5 DEF Receives, Becomes
  <2>3. \A i \in 1..Len(queue') : queue'[i] # TimedOut => place'[queue'[i]] = "queued"
    BY <1>3, <2>1, <2>2 DEF DispatchTypes
  <2>4. QueuedOnce'
    BY <1>3, <2>3 DEF QueuedOnce
  <2> QED  BY <1>5, <2>1, <2>4, DispatchInvReceives
<1> QED  BY <1>4, <1>5 DEF ProcessEntry

-----------------------------------------------------------------------------

\* StubManager::handleMessage finds an adapter or drops the message.
LEMMA DispatchInvHandle ==
  ASSUME DispatchInv, NEW h \in Handlers, HandleMessage(h), UNCHANGED queue
  PROVE  DispatchInv'
<1> DEFINE r == work[h]
<1> USE DEF DispatchInv
<1>1. /\ r \in Requests /\ place[r] = "handled"
      /\ \A g \in Handlers \ {h} : Handling(g) => work[g] # r
  BY DEF HandleMessage, HandledOnce, Handling
<1>2. UNCHANGED <<work, pending, answers, job, told>>
      /\ \/ pc' = [pc EXCEPT ![h] = "found"] /\ UNCHANGED place
         \/ pc' = [pc EXCEPT ![h] = "idle"] /\ place' = [place EXCEPT ![r] = "dropped"]
  BY DEF HandleMessage, Goes, Becomes
<1> HIDE DEF r
<1>3. DispatchTypes'
  BY <1>1, <1>2 DEF DispatchTypes, Places, RequestPlaces
<1>4. QueuedOnce'
  BY <1>1, <1>2 DEF DispatchTypes, QueuedOnce
<1>5. HandledOnce'
  BY <1>1, <1>2 DEF r, DispatchTypes, HandledOnce, Handling, Threads
<1>6. PendingUnanswered' /\ RepliersTold'
  BY <1>1, <1>2 DEF DispatchTypes, PendingUnanswered, RepliersTold, Answered
<1> QED  BY <1>3, <1>4, <1>5, <1>6

\* An answer is added to those of one request, or not sent at all.
LEMMA SentAnswers ==
  ASSUME DispatchInv, NEW r \in Requests, answers[r] = <<>>,
         NEW a \in Errors \cup Repliers, Sent(r, a)
  PROVE  /\ answers' \in [Requests -> Seq(Errors \cup Repliers)]
         /\ \A q \in Requests \ {r} : answers'[q] = answers[q]
         /\ Len(answers'[r]) <= 1
         /\ \A k \in Repliers : Answered(k)' <=> (Answered(k) \/ (Connected(r) /\ k = a))
<1>1. /\ answers' \in [Requests -> Seq(Errors \cup Repliers)]
      /\ \A q \in Requests \ {r} : answers'[q] = answers[q]
      /\ answers'[r] = IF Connected(r) THEN <<a>> ELSE <<>>
  BY DEF DispatchInv, DispatchTypes, Sent
<1>2. Len(answers'[r]) <= 1
  BY <1>1
<1>3. ASSUME NEW k \in Repliers
      PROVE  (\E i \in 1..Len(answers'[r]) : answers'[r][i] = k) <=> (Connected(r) /\ k = a)
  <2>1. CASE Connected(r)
    <3>1. Len(answers'[r]) = 1 /\ answers'[r][1] = a
      BY <1>1, <2>1
    <3> QED  BY <2>1, <3>1
  <2>2. CASE ~Connected(r)
    BY <1>1, <2>2
  <2> QED  BY <2>1, <2>2
<1>4. ASSUME NEW k \in Repliers
      PROVE  Answered(k) <=> \E q \in Requests \ {r} : \E i \in 1..Len(answers[q]) : answers[q][i] = k
  <2>1. ~ \E i \in 1..Len(answers[r]) : answers[r][i] = k
    OBVIOUS
  <2> QED  BY <2>1, Zenon DEF Answered
<1>5. ASSUME NEW k \in Repliers
      PROVE  Answered(k)' <=> \/ \E i \in 1..Len(answers'[r]) : answers'[r][i] = k
                              \/ \E q \in Requests \ {r} : \E i \in 1..Len(answers[q]) : answers[q][i] = k
  BY <1>1, Zenon DEF Answered
<1> QED  BY <1>1, <1>2, <1>3, <1>4, <1>5

LEMMA DispatchInvRefuse ==
  ASSUME DispatchInv, NEW h \in Handlers, RefuseMessage(h), UNCHANGED queue
  PROVE  DispatchInv'
<1> DEFINE r == work[h]
<1> USE DEF DispatchInv
<1>1. /\ r \in Requests /\ place[r] = "handled"
      /\ \A g \in Handlers \ {h} : Handling(g) => work[g] # r
  BY DEF RefuseMessage, HandledOnce, Handling
<1>2. /\ pc' = [pc EXCEPT ![h] = "returning"] /\ place' = [place EXCEPT ![r] = "refused"]
      /\ Sent(r, ErrorOf[kind[r]]) /\ ErrorOf[kind[r]] \in Errors
      /\ UNCHANGED <<work, pending, job, told>>
  BY DEF RefuseMessage, Goes, Becomes, ErrorOf, Errors
<1> HIDE DEF r
<1>3. pending[r] = "none" /\ answers[r] = <<>>
  BY <1>1 DEF PendingUnanswered
<1>4. PICK e \in Errors : Sent(r, e)
  BY <1>2
<1>5. /\ answers' \in [Requests -> Seq(Errors \cup Repliers)]
      /\ \A q \in Requests \ {r} : answers'[q] = answers[q]
      /\ Len(answers'[r]) <= 1
      /\ \A k \in Repliers : Answered(k)' <=> Answered(k)
  BY <1>1, <1>3, <1>4, SentAnswers, DispatchAssumption
<1>6. DispatchTypes'
  BY <1>1, <1>2, <1>5 DEF DispatchTypes, Places, RequestPlaces
<1>7. QueuedOnce'
  BY <1>1, <1>2 DEF DispatchTypes, QueuedOnce
<1>8. HandledOnce'
  BY <1>1, <1>2 DEF r, DispatchTypes, HandledOnce, Handling, Threads
<1>9. PendingUnanswered'
  <2>1. place'[r] = "refused" /\ pending'[r] = "none"
        /\ \A q \in Requests \ {r} : place'[q] = place[q] /\ pending'[q] = pending[q]
    BY <1>1, <1>2, <1>3 DEF DispatchTypes
  <2> QED  BY <1>5, <2>1 DEF PendingUnanswered
<1>10. RepliersTold'
  BY <1>2, <1>5 DEF RepliersTold
<1> QED  BY <1>6, <1>7, <1>8, <1>9, <1>10

LEMMA DispatchInvCall ==
  ASSUME DispatchInv, NEW h \in Handlers, CallStub(h), UNCHANGED queue
  PROVE  DispatchInv'
<1> DEFINE r == work[h]
<1> USE DEF DispatchInv
<1>1. /\ r \in Requests /\ place[r] = "handled"
      /\ \A g \in Handlers \ {h} : Handling(g) => work[g] # r
  BY DEF CallStub, HandledOnce, Handling
<1>2. /\ pc' = [pc EXCEPT ![h] = "inStub"] /\ place' = [place EXCEPT ![r] = "called"]
      /\ pending' = [pending EXCEPT ![r] = "request"]
      /\ UNCHANGED <<work, answers, job, told>>
  BY DEF CallStub, Goes, Becomes
<1> HIDE DEF r
<1>3. DispatchTypes'
  BY <1>1, <1>2 DEF DispatchTypes, Places, RequestPlaces
<1>4. QueuedOnce'
  BY <1>1, <1>2 DEF DispatchTypes, QueuedOnce
<1>5. HandledOnce'
  BY <1>1, <1>2 DEF r, DispatchTypes, HandledOnce, Handling, Threads
<1>6. PendingUnanswered' /\ RepliersTold'
  BY <1>1, <1>2 DEF DispatchTypes, PendingUnanswered, RepliersTold, Answered
<1> QED  BY <1>3, <1>4, <1>5, <1>6

LEMMA DispatchInvCreateReply ==
  ASSUME DispatchInv, NEW k \in Repliers, NEW r \in Requests, CreateReply(k, r),
         UNCHANGED <<pc, queue>>
  PROVE  DispatchInv'
<1> USE DEF DispatchInv
<1>1. /\ told[k] = "nothing" /\ job' = [job EXCEPT ![k] = r] /\ place[r] = "called"
      /\ \/ /\ pending[r] # "none" /\ pending' = [pending EXCEPT ![r] = "response"]
            /\ told' = [told EXCEPT ![k] = "preparing"]
         \/ told' = [told EXCEPT ![k] = "false"] /\ UNCHANGED pending
      /\ UNCHANGED <<place, work, answers>>
  BY DEF CreateReply
<1>2. DispatchTypes'
  <2>1. /\ job' \in [Repliers -> Requests \cup {Nothing}]
        /\ pending' \in [Requests -> {"none", "request", "response"}]
        /\ told' \in [Repliers -> {"nothing", "preparing", "true", "false"}]
    BY <1>1 DEF DispatchTypes
  <2> QED  BY <1>1, <2>1 DEF DispatchTypes
<1>5. QueuedOnce' /\ HandledOnce'
  BY <1>1 DEF QueuedOnce, HandledOnce, Handling
<1>3. PendingUnanswered'
  BY <1>1 DEF DispatchTypes, PendingUnanswered
<1>4. RepliersTold'
  BY <1>1 DEF DispatchTypes, RepliersTold, Answered
<1> QED  BY <1>2, <1>3, <1>4, <1>5

LEMMA DispatchInvSendReply ==
  ASSUME DispatchInv, NEW k \in Repliers, SendReply(k), UNCHANGED <<pc, queue>>
  PROVE  DispatchInv'
<1> DEFINE r == job[k]
<1> USE DEF DispatchInv
<1>1. /\ told[k] = "preparing" /\ r \in Requests
      /\ pending' = [pending EXCEPT ![r] = "none"] /\ UNCHANGED <<place, work, job>>
  BY DEF SendReply, Forgotten, RepliersTold
<1>3. CASE told' = [told EXCEPT ![k] = "false"] /\ UNCHANGED answers
  BY <1>1, <1>3 DEF DispatchTypes, QueuedOnce, HandledOnce, Handling, PendingUnanswered,
     RepliersTold, Answered
<1>4. CASE /\ pending[r] # "none" /\ Sent(r, k)
           /\ told' = [told EXCEPT ![k] = IF Connected(r) THEN "true" ELSE "false"]
  <2>1. answers[r] = <<>>
    BY <1>1, <1>4 DEF PendingUnanswered
  <2>2. /\ answers' \in [Requests -> Seq(Errors \cup Repliers)]
        /\ \A q \in Requests \ {r} : answers'[q] = answers[q]
        /\ Len(answers'[r]) <= 1
        /\ \A j \in Repliers : Answered(j)' <=> (Answered(j) \/ (Connected(r) /\ j = k))
    BY <1>1, <1>4, <2>1, SentAnswers
  <2> HIDE DEF r
  <2>3. DispatchTypes' /\ QueuedOnce' /\ HandledOnce'
    <3>1. DispatchTypes'
      BY <1>1, <1>4, <2>2 DEF DispatchTypes
    <3>2. QueuedOnce' /\ HandledOnce'
      BY <1>1 DEF QueuedOnce, HandledOnce, Handling
    <3> QED  BY <3>1, <3>2
  <2>4. PendingUnanswered'
    <3>1. place[r] \notin {"new", "queued", "handled", "dropped"}
      BY <1>1, <1>4 DEF PendingUnanswered
    <3>2. pending'[r] = "none" /\ \A q \in Requests \ {r} : pending'[q] = pending[q]
      BY <1>1 DEF DispatchTypes
    <3> QED  BY <1>1, <2>2, <3>1, <3>2 DEF PendingUnanswered
  <2>5. RepliersTold'
    <3>1. /\ told'[k] = "true" <=> Connected(r)
          /\ told'[k] # "preparing"
          /\ \A j \in Repliers \ {k} : told'[j] = told[j]
      BY <1>4 DEF DispatchTypes
    <3>2. ~Answered(k)
      BY <1>1 DEF RepliersTold
    <3> QED  BY <1>1, <2>2, <3>1, <3>2 DEF RepliersTold
  <2> QED  BY <2>3, <2>4, <2>5
<1> QED  BY <1>3, <1>4 DEF SendReply

LEMMA DispatchInvStep ==
  ASSUME DispatchInv, QueueInv, [Next]_vars
  PROVE  DispatchInv'
<1>1. Handlers \subseteq Threads /\ Apps \subseteq Threads
  BY DEF Threads
<1>2. CASE UNCHANGED vars
  BY <1>2, ServiceAssumption, <1>1 DEF vars, registryVars, queueVars, requestVars, DispatchInv,
     DispatchTypes, QueuedOnce, HandledOnce, Handling, PendingUnanswered, RepliersTold, Answered
<1>3. CASE \E r \in Requests, k \in Kinds : ReceiveQueued(r, k) \/ ReceiveDirectly(r, k)
  BY <1>3, DispatchInvQueue
<1>4. CASE QueueTimeout
  <2>1. queue' = Append(queue, TimedOut) /\ queue \in Seq(Entries) /\ UNCHANGED <<pc, requestVars>>
    BY <1>4 DEF QueueTimeout, PushQueue, QueueInv, QueueTypeOK, registryVars
  <2>2. /\ Len(queue) \in Nat /\ Len(queue') = Len(queue) + 1
        /\ queue'[Len(queue) + 1] = TimedOut
        /\ \A i \in 1..Len(queue) : queue'[i] = queue[i]
    BY <2>1, ServiceAssumption
  <2>3. \A i \in 1..Len(queue') : queue'[i] # TimedOut => i \in 1..Len(queue)
    BY <2>2
  <2>4. QueuedOnce'
    BY <2>1, <2>2, <2>3 DEF DispatchInv, QueuedOnce, requestVars
  <2> QED  BY <2>1, <2>4 DEF requestVars, DispatchInv, DispatchTypes, HandledOnce, Handling,
           PendingUnanswered, RepliersTold, Answered
<1>5. CASE EndPush \/ RunLoop \/ EndProcess
  <2>1. UNCHANGED <<pc, requestVars, queue>>
    BY <1>5 DEF EndPush, RunLoop, EndProcess, WriteEventFd, WakeUp, Prepare, FrontQueue, ReadEventFd,
       EndDispatch, registryVars
  <2> QED  BY <2>1 DEF requestVars, DispatchInv, DispatchTypes, QueuedOnce, HandledOnce, Handling,
           PendingUnanswered, RepliersTold, Answered
<1>6. CASE ProcessEntry
  BY <1>6, DispatchInvProcess
<1>7. CASE \E h \in Handlers : Handle(h)
  <2> SUFFICES ASSUME NEW h \in Handlers, Handle(h) PROVE DispatchInv'
    BY <1>7
  <2>1. UNCHANGED queue
    BY DEF Handle, queueVars
  <2>2. CASE StubReturns(h)
    <3>1. PICK p \in {"returning", "building"} : Goes(h, p)
      BY <2>2 DEF StubReturns
    <3> QED  BY <1>1, <2>1, <2>2, <3>1, DispatchInvElsewhere DEF StubReturns, Places
  <2> QED  BY <2>1, <2>2, DispatchInvHandle, DispatchInvRefuse, DispatchInvCall DEF Handle
<1>8. CASE \E k \in Repliers : Reply(k)
  BY <1>8, DispatchInvCreateReply, DispatchInvSendReply DEF Reply, registryVars, queueVars
<1>9. CASE (\E t \in Apps : Begin(t)) \/ \E t \in Threads : GoOn(t)
  <2>1. PICK t \in Threads : Begin(t) \/ GoOn(t)
    BY <1>1, <1>9
  <2>2. PICK p \in Places \ {"received", "found"} : Goes(t, p)
    BY <2>1 DEF Begin, GoOn, RegisterStub, UnregisterStub, EraseService, CreateAdapter,
       InsertAdapter, RefuseAdapter, DestroyAdapter, BuildProxy, DestroyProxy,
       DecrementConnection, DropAdapter, Disconnect, Places
  <2>3. UNCHANGED <<requestVars, queue>>
    BY <2>1 DEF Begin, GoOn, queueVars
  <2> QED  BY <2>2, <2>3, DispatchInvElsewhere
<1> QED  BY <1>2, <1>3, <1>4, <1>5, <1>6, <1>7, <1>8, <1>9 DEF Next

\* MethodWithReplyStubDispatcher: of all the replies made to a request, by
\* whatever threads and in however many steps, one at most is sent, and only
\* the caller whose reply that was is told TRUE.
THEOREM RepliesOnce == Spec => []RepliedOnce
<1>1. Spec => []QueueInv
  BY UsesQueue, QueueInvInit, QueueInvStep, PTL DEF QueueSpec
<1>2. DispatchInv => RepliedOnce
  BY DEF DispatchInv, PendingUnanswered, RepliersTold, Answered, RepliedOnce
<1> QED  BY <1>1, <1>2, DispatchInvInit, DispatchInvStep, PTL DEF Spec

-----------------------------------------------------------------------------
(* The types of the rest.                                                  *)

OtherTypes ==
  /\ owner \in Threads \cup {Nothing}
  /\ of \in [Adapters -> 0..created]
  /\ rivals \subseteq Adapters
  /\ kind \in [Requests -> AllKinds]
  /\ via \in [Requests -> 0..created]
  /\ stub \in [Requests -> Adapters \cup {Nothing}]
  /\ mainLoop \in BOOLEAN /\ timedOut \in BOOLEAN

LEMMA OtherTypesInit == Init => OtherTypes
<1> SUFFICES ASSUME Init PROVE OtherTypes
  OBVIOUS
<1>1. (CHOOSE k \in Kinds : TRUE) \in AllKinds
  BY DispatchAssumption
<1>2. kind \in [Requests -> AllKinds]
  BY <1>1 DEF Init, RequestInit
<1>3. of \in [Adapters -> 0..created] /\ via \in [Requests -> 0..created]
  <2>1. created = 0 /\ 0 \in 0..0
    BY DEF Init, RegistryInit
  <2> QED  BY <2>1 DEF Init, RegistryInit, RequestInit
<1> QED  BY <1>2, <1>3 DEF Init, RegistryInit, RequestInit, OtherTypes

LEMMA OtherTypesThread ==
  ASSUME RegistryInv, CountInv, OtherTypes, NEW t \in Threads, Begin(t) \/ GoOn(t)
  PROVE  OtherTypes'
<1> USE DEF OtherTypes
<1>1. UNCHANGED <<kind, via, stub, mainLoop, timedOut>>
  BY DEF Begin, GoOn, requestVars
<1>2. CASE CreateAdapter(t) \/ BuildProxy(t)
  <2>1. /\ owner' = owner /\ rivals' = rivals
        /\ connection' \in 0..created' /\ created' \in Nat /\ created <= created'
        /\ of' = of \/ of' = [of EXCEPT ![held[t]] = connection']
    BY <1>2 DEF CreateAdapter, BuildProxy, GetConnection, historyVars, CountInv, CountTypes
  <2>2. created \in Nat
    BY DEF CountInv, CountTypes
  <2>3. of' \in [Adapters -> 0..created']
    BY <2>1, <2>2
  <2>4. via' \in [Requests -> 0..created']
    BY <1>1, <2>1, <2>2
  <2> QED  BY <1>1, <2>1, <2>3, <2>4
<1>3. CASE RegisterStub(t) \/ InsertAdapter(t) \/ RefuseAdapter(t) \/ UnregisterStub(t) \/ DestroyProxy(t)
           \/ DecrementConnection(t) \/ Disconnect(t) \/ DropAdapter(t)
  <2>1. UNCHANGED <<of, created>>
    BY <1>3 DEF RegisterStub, InsertAdapter, RefuseAdapter, UnregisterStub, DestroyProxy,
       DecrementConnection, Disconnect, DropAdapter, connectionVars
  <2>2. owner' \in Threads \cup {Nothing} /\ rivals' \subseteq Adapters
    BY <1>3 DEF RegisterStub, InsertAdapter, RefuseAdapter, UnregisterStub, EraseService,
       DestroyProxy, DecrementConnection, Disconnect, DropAdapter, connectionVars, historyVars
  <2> QED  BY <1>1, <2>1, <2>2
<1>4. CASE DestroyAdapter(t)
  <2>1. /\ of' = [of EXCEPT ![dying[t]] = 0] /\ UNCHANGED <<owner, created>>
        /\ rivals' \subseteq Adapters
    BY <1>4 DEF DestroyAdapter, EraseService, connectionVars
  <2>2. of' \in [Adapters -> 0..created]
    <3>1. 0 \in 0..created
      BY DEF CountInv, CountTypes
    <3> QED  BY <2>1, <3>1
  <2> QED  BY <1>1, <2>1, <2>2
<1> QED  BY <1>2, <1>3, <1>4 DEF Begin, GoOn

LEMMA OtherTypesStep ==
  ASSUME RegistryInv, CountInv, OtherTypes, [Next]_vars
  PROVE  OtherTypes'
<1> USE DEF OtherTypes
<1>1. CASE UNCHANGED vars
  BY <1>1 DEF vars, registryVars, requestVars
<1>2. CASE \E t \in Threads : Begin(t) \/ GoOn(t)
  BY <1>2, OtherTypesThread
<1>3. ASSUME UNCHANGED <<services, connectionVars, of, rivals>>,
             UNCHANGED <<kind, via>> \/ \E r \in Requests, k \in Kinds : Arrives(r, k),
             UNCHANGED stub \/ \E r \in Requests : stub' = [stub EXCEPT ![r] = services],
             mainLoop' = mainLoop, timedOut' \in {timedOut, TRUE}
      PROVE  OtherTypes'
  <2>1. kind' \in [Requests -> AllKinds]
    BY <1>3, DispatchAssumption DEF Arrives
  <2>2. via' \in [Requests -> 0..created]
    BY <1>3 DEF Arrives, CountInv, CountTypes
  <2>3. stub' \in [Requests -> Adapters \cup {Nothing}]
    BY <1>3 DEF RegistryInv, RegistryTypes
  <2> QED  BY <1>3, <2>1, <2>2, <2>3 DEF connectionVars
<1>4. CASE \E r \in Requests, k \in Kinds : ReceiveQueued(r, k) \/ ReceiveDirectly(r, k)
  <2>1. \E r \in Requests, k \in Kinds : Arrives(r, k)
    BY <1>4 DEF ReceiveQueued, ReceiveDirectly
  <2>2. UNCHANGED <<stub, mainLoop, timedOut>>
    BY <1>4 DEF ReceiveQueued, ReceiveDirectly, Arrives
  <2>3. UNCHANGED <<services, connectionVars, of, rivals>>
    BY <1>4 DEF ReceiveQueued, ReceiveDirectly, Receives, registryVars, connectionVars, historyVars
  <2> QED  BY <1>3, <2>1, <2>2, <2>3
<1>5. CASE QueueTimeout \/ EndPush \/ RunLoop \/ ProcessEntry \/ EndProcess
  BY <1>3, <1>5 DEF QueueTimeout, EndPush, RunLoop, ProcessEntry, EndProcess, Receives,
     registryVars, requestVars, historyVars
<1>6. CASE \E h \in Handlers : Handle(h)
  <2> SUFFICES ASSUME NEW h \in Handlers, Handle(h) PROVE OtherTypes'
    BY <1>6
  <2>1. CASE HandleMessage(h)
    <3>1. UNCHANGED stub \/ stub' = [stub EXCEPT ![work[h]] = services]
      BY <2>1 DEF HandleMessage
    <3>2. services \in Adapters \cup {Nothing}
      BY DEF RegistryInv, RegistryTypes
    <3>3. stub' \in [Requests -> Adapters \cup {Nothing}]
      BY <3>1, <3>2
    <3> QED  BY <2>1, <3>3 DEF Handle, HandleMessage, connectionVars, historyVars
  <2>2. CASE RefuseMessage(h) \/ CallStub(h) \/ StubReturns(h)
    BY <1>3, <2>2 DEF Handle, RefuseMessage, CallStub, StubReturns, requestVars, historyVars
  <2> QED  BY <2>1, <2>2 DEF Handle
<1>7. CASE \E k \in Repliers : Reply(k)
  BY <1>3, <1>7 DEF Reply, CreateReply, SendReply, registryVars
<1>8. Apps \subseteq Threads
  BY DEF Threads
<1> QED  BY <1>1, <1>2, <1>4, <1>5, <1>6, <1>7, <1>8 DEF Next

\* The types of the variables, of Factory's tables (the registered stub, the
\* connections created) and of the requests and replies of a stub.
THEOREM TypesOK == Spec => []TypeOK
<1>1. Spec => [](QueueInv /\ RegistryInv /\ CountInv /\ DispatchInv)
  <2>1. Spec => []QueueInv
    BY UsesQueue, QueueInvInit, QueueInvStep, PTL DEF QueueSpec
  <2> QED  BY <2>1, RegistryInvInit, RegistryInvStep, CountInvInit, CountInvStep,
           DispatchInvInit, DispatchInvStep, PTL DEF Spec
<1>2. Spec => []OtherTypes
  BY <1>1, OtherTypesInit, OtherTypesStep, PTL DEF Spec
<1>3. QueueInv /\ RegistryInv /\ CountInv /\ DispatchInv /\ OtherTypes => TypeOK
  BY DEF QueueInv, RegistryInv, RegistryTypes, CountInv, CountTypes, DispatchInv, DispatchTypes,
     OtherTypes, TypeOK, RegistryTypeOK, RequestTypeOK
<1> QED  BY <1>1, <1>2, <1>3, PTL
=============================================================================
