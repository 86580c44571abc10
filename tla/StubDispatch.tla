---------------------------- MODULE StubDispatch ----------------------------
(***************************************************************************)
(* Requests that reach a stub and the replies to them: StubManager finds   *)
(* the adapter, StubAdapterHelper the dispatcher of the method, and        *)
(* MethodWithReplyStubDispatcher keeps the request in pending_ until one   *)
(* of the stub's replies, from whatever thread, has been sent.             *)
(*                                                                         *)
(* A reply is made in two critical sections: the first replaces the        *)
(* request in pending_ by an empty response, the second fills the response *)
(* in, sends it and erases it.  pending_ belongs to the adapter: a stub    *)
(* that replies once its adapter is gone is not modelled.                  *)
(***************************************************************************)
EXTENDS StubRegistry, Sequences

CONSTANTS
  Requests,      \* messages from clients
  Kinds,         \* what arrives: a subset of AllKinds
  FactoryUsers,  \* requests whose method may use a proxy of its own
  Repliers       \* threads that reply, each once

AllKinds == {"call", "noReturn", "malformed", "unknown"}

VARIABLES
  place,    \* where each request is
  kind,     \* its kind, once it has arrived
  via,      \* the connection it came through
  work,     \* the request each handling thread is busy with
  stub,     \* the adapter that a request was given to
  pending,  \* pending_ of the method's dispatcher
  answers,  \* what was sent for each request: error codes and repliers
  job,      \* the request each replier replies to
  told      \* what sendReplyMessage returned to it

requestVars == <<place, kind, via, work, stub, pending, answers, job, told>>

RequestPlaces == {"new", "queued", "handled", "dropped", "refused", "called"}
Errors == {"E_UNKNOWN_METHOD", "E_WRONG_MESSAGE_TYPE", "E_MALFORMED_MESSAGE"}

ASSUME DispatchAssumption ==
  Kinds \subseteq AllKinds /\ Kinds # {} /\ Repliers \cap Errors = {}

RequestTypeOK ==
  /\ place \in [Requests -> RequestPlaces]
  /\ kind \in [Requests -> AllKinds]
  /\ via \in [Requests -> 0..created]
  /\ work \in [Handlers -> Requests \cup {Nothing}]
  /\ stub \in [Requests -> Adapters \cup {Nothing}]
  /\ pending \in [Requests -> {"none", "request", "response"}]
  /\ answers \in [Requests -> Seq(Errors \cup Repliers)]
  /\ job \in [Repliers -> Requests \cup {Nothing}]
  /\ told \in [Repliers -> {"nothing", "preparing", "true", "false"}]

RequestInit ==
  /\ place = [r \in Requests |-> "new"]
  /\ kind = [r \in Requests |-> CHOOSE k \in Kinds : TRUE]
  /\ via = [r \in Requests |-> 0]
  /\ work = [h \in Handlers |-> Nothing]
  /\ stub = [r \in Requests |-> Nothing]
  /\ pending = [r \in Requests |-> "none"]
  /\ answers = [r \in Requests |-> <<>>]
  /\ job = [k \in Repliers |-> Nothing]
  /\ told = [k \in Repliers |-> "nothing"]

Becomes(r, p) == place' = [place EXCEPT ![r] = p]

-----------------------------------------------------------------------------

(* A client's message reaches Connection::receive while the stub is        *)
(* offered; the dispatcher thread is not inside another handler.           *)
Arrives(r, k) ==
  /\ place[r] = "new"
  /\ services # Nothing /\ pc[Dispatcher] = "idle"
  /\ kind' = [kind EXCEPT ![r] = k]
  /\ via' = [via EXCEPT ![r] = connection]
  /\ UNCHANGED <<stub, pending, answers, job, told>>

(* handleStubReceive is called with the message. *)
Receives(h, r) ==
  /\ pc[h] = "idle"
  /\ Goes(h, "received")
  /\ work' = [work EXCEPT ![h] = r]
  /\ Becomes(r, "handled")
  /\ UNCHANGED <<services, connectionVars, held, dying, stage, of, historyVars>>

(* StubManager::handleMessage of the connection the message came through   *)
(* looks for the adapter, and keeps it while it handles the message; a     *)
(* message for which there is none any more gets no answer.                *)
HandleMessage(h) ==
  LET r == work[h] IN
  /\ pc[h] = "received"
  /\ IF services # Nothing /\ of[services] = via[r]
       THEN /\ Holds(h, services) /\ Goes(h, "found")
            /\ stub' = [stub EXCEPT ![r] = services]
            /\ UNCHANGED place
       ELSE Goes(h, "idle") /\ Becomes(r, "dropped") /\ UNCHANGED <<held, stub>>
  /\ UNCHANGED <<services, connectionVars, dying, stage, of, historyVars,
                 kind, via, work, pending, answers, job, told>>

(* Connection::sendMessage sends nothing once the connection is gone. *)
Connected(r) == connection # 0 /\ of[stub[r]] = connection

Sent(r, answer) ==
  answers' = IF Connected(r) THEN [answers EXCEPT ![r] = Append(@, answer)] ELSE answers

(* The error responses of findDispatcherAndHandle and dispatchMessage; of  *)
(* malformed messages and those for methods that are not implemented only  *)
(* a request that wants a response gets one.                               *)
ErrorOf == [noReturn |-> "E_WRONG_MESSAGE_TYPE", malformed |-> "E_MALFORMED_MESSAGE",
            unknown |-> "E_UNKNOWN_METHOD"]

RefuseMessage(h) ==
  LET r == work[h] IN
  /\ pc[h] = "found"
  /\ kind[r] \in DOMAIN ErrorOf
  /\ Sent(r, ErrorOf[kind[r]])
  /\ Becomes(r, "refused") /\ Goes(h, "returning")
  /\ UNCHANGED <<services, connectionVars, held, dying, stage, of, historyVars,
                 kind, via, work, stub, pending, job, told>>

(* MethodWithReplyStubDispatcher remembers the request and calls the stub. *)
CallStub(h) ==
  LET r == work[h] IN
  /\ pc[h] = "found"
  /\ kind[r] = "call"
  /\ pending' = [pending EXCEPT ![r] = "request"]
  /\ Becomes(r, "called") /\ Goes(h, "inStub")
  /\ UNCHANGED <<services, connectionVars, held, dying, stage, of, historyVars,
                 kind, via, work, stub, answers, job, told>>

(* The application's method returns, or creates a proxy first. *)
StubReturns(h) ==
  /\ pc[h] = "inStub"
  /\ \/ Goes(h, "returning")
     \/ work[h] \in FactoryUsers /\ Goes(h, "building")
  /\ UNCHANGED <<services, connectionVars, held, dying, stage, of, historyVars, requestVars>>

-----------------------------------------------------------------------------

(* sendReplyMessage, the first critical section. *)
CreateReply(k, r) ==
  /\ told[k] = "nothing"
  /\ stub[r] # Nothing /\ stage[stub[r]] = "alive"
  /\ place[r] = "called"
  /\ job' = [job EXCEPT ![k] = r]
  /\ IF pending[r] # "none"
       THEN /\ pending' = [pending EXCEPT ![r] = "response"]
            /\ told' = [told EXCEPT ![k] = "preparing"]
       ELSE told' = [told EXCEPT ![k] = "false"] /\ UNCHANGED pending
  /\ UNCHANGED <<place, kind, via, work, stub, answers>>

\* A faulty variant, for the runs' mutants: the entry stays in pending_.
Kept(r) == pending

(* sendReplyMessageHelper, the second one, with a serialization that may   *)
(* fail: whatever happens, the entry is gone.                              *)
Forgotten(r) == [pending EXCEPT ![r] = "none"]

SendReply(k) ==
  LET r == job[k] IN
  /\ told[k] = "preparing"
  /\ stage[stub[r]] = "alive"
  /\ \/ /\ pending[r] = "none"
        /\ told' = [told EXCEPT ![k] = "false"]
        /\ UNCHANGED answers
     \/ /\ pending[r] # "none"
        /\ Sent(r, k)
        /\ told' = [told EXCEPT ![k] = IF Connected(r) THEN "true" ELSE "false"]
     \/ /\ pending[r] # "none"
        /\ told' = [told EXCEPT ![k] = "false"]
        /\ UNCHANGED answers
  /\ pending' = Forgotten(r)
  /\ UNCHANGED <<place, kind, via, work, stub, job>>

-----------------------------------------------------------------------------

(* However many threads reply to a request at once, one answer at most is  *)
(* sent, and whoever is told TRUE has sent it (sendReplyMessage gives up   *)
(* the mutex between the two look-ups of pending_).                        *)
RepliedOnce ==
  /\ \A r \in Requests : Len(answers[r]) <= 1
  /\ \A k \in Repliers :
       told[k] = "true" <=> \E r \in Requests : \E i \in 1..Len(answers[r]) : answers[r][i] = k
=============================================================================
