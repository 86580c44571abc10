----------------------------- MODULE ServiceSide -----------------------------
(***************************************************************************)
(* The service side of a connection: the stubs of one address, the         *)
(* requests for them and, when the connection has one, the main loop that  *)
(* handles them.                                                           *)
(*                                                                         *)
(* With a main loop the dispatcher thread queues what it receives, and the *)
(* cleanup thread the responses it makes up for calls that timed out (they *)
(* mean nothing here, but take their turn in the queue); without one the   *)
(* dispatcher thread handles requests itself.                              *)
(***************************************************************************)
EXTENDS StubDispatch, MainLoopQueue

CONSTANTS
  Loop,     \* the thread that runs the main loop
  Cleaner,  \* the cleanup thread
  TimedOut  \* what it queues, once

ASSUME ServiceAssumption ==
  /\ Handlers = {Loop, Dispatcher} /\ Pushers = {Dispatcher, Cleaner}
  /\ Entries = Requests \cup {TimedOut} /\ TimedOut \notin Requests

VARIABLES
  mainLoop,  \* a main loop is attached to the connection
  timedOut   \* the cleanup thread has queued its response

vars == <<registryVars, requestVars, queueVars, mainLoop, timedOut>>

TypeOK ==
  /\ RegistryTypeOK /\ RequestTypeOK /\ QueueTypeOK
  /\ mainLoop \in BOOLEAN /\ timedOut \in BOOLEAN

Init ==
  /\ RegistryInit /\ RequestInit /\ QueueInit
  /\ front = TimedOut
  /\ mainLoop \in BOOLEAN /\ timedOut = FALSE

-----------------------------------------------------------------------------

(* Connection::receive *)
ReceiveQueued(r, k) ==
  /\ mainLoop
  /\ Arrives(r, k)
  /\ PushQueue(Dispatcher, r)
  /\ Becomes(r, "queued")
  /\ UNCHANGED <<registryVars, work, mainLoop, timedOut>>

ReceiveDirectly(r, k) ==
  /\ ~mainLoop
  /\ Arrives(r, k)
  /\ Receives(Dispatcher, r)
  /\ UNCHANGED <<queueVars, mainLoop, timedOut>>

(* Connection::cleanup queues a response in main-loop mode. *)
QueueTimeout ==
  /\ mainLoop /\ connection # 0 /\ ~timedOut
  /\ timedOut' = TRUE
  /\ PushQueue(Cleaner, TimedOut)
  /\ UNCHANGED <<registryVars, requestVars, mainLoop>>

EndPush ==
  /\ \E t \in Pushers : WriteEventFd(t)
  /\ UNCHANGED <<registryVars, requestVars, mainLoop, timedOut>>

RunLoop ==
  /\ WakeUp \/ Prepare \/ FrontQueue \/ ReadEventFd
  /\ UNCHANGED <<registryVars, requestVars, mainLoop, timedOut>>

(* Watch::popQueue and the call of process. *)
ProcessEntry ==
  /\ PopQueue
  /\ IF front = TimedOut
       THEN UNCHANGED <<registryVars, requestVars>>
       ELSE Receives(Loop, front) /\ UNCHANGED <<kind, via, stub, pending, answers, job, told>>
  /\ UNCHANGED <<mainLoop, timedOut>>

EndProcess ==
  /\ EndDispatch
  /\ pc[Loop] = "idle"
  /\ UNCHANGED <<registryVars, requestVars, mainLoop, timedOut>>

Handle(h) ==
  /\ HandleMessage(h) \/ RefuseMessage(h) \/ CallStub(h) \/ StubReturns(h)
  /\ UNCHANGED <<queueVars, mainLoop, timedOut>>

Reply(k) ==
  /\ (\E r \in Requests : CreateReply(k, r)) \/ SendReply(k)
  /\ UNCHANGED <<registryVars, queueVars, mainLoop, timedOut>>

(* What an application thread may begin with the factory ... *)
Begin(t) ==
  /\ RegisterStub(t) \/ UnregisterStub(t)
  /\ UNCHANGED <<requestVars, queueVars, mainLoop, timedOut>>

(* ... and how any thread goes on; doDisconnect joins the cleanup thread   *)
(* and the dispatcher thread when they have written the eventfd.           *)
GoOn(t) ==
  /\ \/ CreateAdapter(t) \/ InsertAdapter(t) \/ RefuseAdapter(t)
     \/ DestroyAdapter(t) \/ BuildProxy(t) \/ DestroyProxy(t)
     \/ DecrementConnection(t) \/ DropAdapter(t)
     \/ Disconnect(t) /\ writing = {}
  /\ UNCHANGED <<requestVars, queueVars, mainLoop, timedOut>>

Next ==
  \/ \E r \in Requests, k \in Kinds : ReceiveQueued(r, k) \/ ReceiveDirectly(r, k)
  \/ QueueTimeout \/ EndPush \/ RunLoop \/ ProcessEntry \/ EndProcess
  \/ \E h \in Handlers : Handle(h)
  \/ \E k \in Repliers : Reply(k)
  \/ \E t \in Apps : Begin(t)
  \/ \E t \in Threads : GoOn(t)

Spec == Init /\ [][Next]_vars

(* The threads run; what clients send and the application asks for, and    *)
(* whether it replies, is theirs to decide.                                *)
FairSpec ==
  /\ Spec
  /\ WF_vars(EndPush) /\ WF_vars(RunLoop) /\ WF_vars(ProcessEntry) /\ WF_vars(EndProcess)
  /\ \A h \in Handlers : WF_vars(Handle(h))
  /\ \A t \in Threads : WF_vars(GoOn(t))

-----------------------------------------------------------------------------

(* A request that was queued or is being handled does not stay so: it      *)
(* reaches its stub, is refused, or finds none (a push that is not written *)
(* to the eventfd, or a thread that never comes back, would keep it).      *)
RequestsSettled ==
  \A r \in Requests :
    place[r] \in {"queued", "handled"} ~> place[r] \in {"dropped", "refused", "called"}

(* With a main loop, unregisterStub comes back whatever the stub's methods *)
(* do (decrementConnection keeps connectionMutex_ while it joins the       *)
(* connection's threads, none of which runs a method then).  Without one   *)
(* it need not: the dispatcher thread may wait for that mutex.             *)
UnregisterReturns ==
  \A t \in Apps :
    mainLoop /\ pc[t] \in {"decrementing", "joining"} ~> pc[t] = "idle"
=============================================================================
