---------------------------- MODULE StubRegistry ----------------------------
(***************************************************************************)
(* The stubs of one address and the connection they share: Factory with    *)
(* its registered services and connections, StubManager, the destructor of *)
(* StubAdapter, and the count by which a Connection lives.                 *)
(*                                                                         *)
(* services is the entry of Factory::services_ for the address; the entry  *)
(* of StubManager::registeredStubAdapters_ and the offer at vsomeip change *)
(* with it inside servicesMutex_.  An adapter lives as long as that entry  *)
(* or a local variable of some thread refers to it (held), and its         *)
(* destructor unregisters whatever stub its address has by then.           *)
(* connectionMutex_ is recursive and held while the last release of a      *)
(* connection joins its threads (owner).                                   *)
(***************************************************************************)
EXTENDS Naturals, FiniteSets

CONSTANTS
  Apps,        \* threads of the application that register and unregister
  Handlers,    \* the threads that handle messages
  Dispatcher,  \* the connection's dispatchThread_, one of Handlers
  Adapters,    \* the stub adapters that can be created
  Nothing      \* no adapter, no thread

Threads == Apps \cup Handlers

ASSUME RegistryAssumption == IsFiniteSet(Threads) /\ Nothing \notin Adapters \cup Threads

VARIABLES
  services,    \* Factory::services_: the registered adapter
  connection,  \* Factory::connections_: the number of the connection, or 0
  created,     \* how many connections have been created
  active,      \* Connection::activeConnections_
  owner,       \* the thread that keeps Factory::connectionMutex_
  pc,          \* where each thread is
  held,        \* the adapter that a local variable of the thread refers to
  dying,       \* the adapter whose destructor the thread runs
  stage,       \* life of each adapter
  of,          \* the connection of each adapter
  refused,     \* history: counts kept by registrations that failed
  rivals       \* history: the adapters alive or on their way when the stub was registered

registryVars == <<services, connection, created, active, owner, pc, held, dying,
                  stage, of, refused, rivals>>
connectionVars == <<connection, created, active, owner>>
historyVars == <<refused, rivals>>

Places == {"idle", "connecting", "inserting", "unregistering", "decrementing", "joining",
           "returning", "received", "found", "inStub",
           "building", "proxied"}
Stages == {"unused", "promised", "alive", "dying", "dead"}

RegistryTypeOK ==
  /\ services \in Adapters \cup {Nothing}
  /\ connection \in 0..created /\ created \in Nat /\ active \in Nat
  /\ owner \in Threads \cup {Nothing}
  /\ pc \in [Threads -> Places]
  /\ held \in [Threads -> Adapters \cup {Nothing}]
  /\ dying \in [Threads -> Adapters \cup {Nothing}]
  /\ stage \in [Adapters -> Stages]
  /\ of \in [Adapters -> 0..created]
  /\ refused \in Nat
  /\ rivals \subseteq Adapters

RegistryInit ==
  /\ services = Nothing
  /\ connection = 0 /\ created = 0 /\ active = 0
  /\ owner = Nothing
  /\ pc = [t \in Threads |-> "idle"]
  /\ held = [t \in Threads |-> Nothing]
  /\ dying = [t \in Threads |-> Nothing]
  /\ stage = [a \in Adapters |-> "unused"]
  /\ of = [a \in Adapters |-> 0]
  /\ refused = 0
  /\ rivals = {}

Unused == {a \in Adapters : stage[a] = "unused"}
Fresh == CHOOSE a \in Unused : TRUE

Goes(t, place) == pc' = [pc EXCEPT ![t] = place]
Holds(t, a) == held' = [held EXCEPT ![t] = a]

-----------------------------------------------------------------------------

\* A faulty variant, for the runs' mutants: isRegisteredService is not asked.
RegisterUnchecked(t) ==
  /\ pc[t] = "idle"
  /\ Unused # {}
  /\ Goes(t, "connecting") /\ Holds(t, Fresh)
  /\ stage' = [stage EXCEPT ![Fresh] = "promised"]
  /\ UNCHANGED <<services, connectionVars, dying, of, historyVars>>

\* A faulty variant: only the creation of a connection counts its user.
GetConnectionUncounted ==
  /\ owner = Nothing
  /\ connection' = IF connection = 0 THEN created + 1 ELSE connection
  /\ created' = IF connection = 0 THEN created + 1 ELSE created
  /\ active' = IF connection = 0 THEN active + 1 ELSE active
  /\ UNCHANGED owner

\* A faulty variant: unregisterStub does not give the connection back.
EraseServiceOnly(t) ==
  /\ services # Nothing
  /\ Holds(t, services)
  /\ services' = Nothing
  /\ rivals' = {}
  /\ Goes(t, "returning")

(* Factory::registerStub: the first critical section, isRegisteredService. *)
(* A call that finds a stub returns FALSE and changes nothing.             *)
RegisterStub(t) ==
  /\ pc[t] = "idle"
  /\ Unused # {}
  /\ services = Nothing
  /\ Goes(t, "connecting") /\ Holds(t, Fresh)
  /\ stage' = [stage EXCEPT ![Fresh] = "promised"]
  /\ UNCHANGED <<services, connectionVars, dying, of, historyVars>>

(* Factory::getConnection creates the connection if there is none, and     *)
(* counts its user.                                                        *)
GetConnection ==
  /\ owner = Nothing
  /\ connection' = IF connection = 0 THEN created + 1 ELSE connection
  /\ created' = IF connection = 0 THEN created + 1 ELSE created
  /\ active' = active + 1
  /\ UNCHANGED owner

(* registerStub: the adapter is created with its connection. *)
CreateAdapter(t) ==
  /\ pc[t] = "connecting"
  /\ GetConnection
  /\ stage' = [stage EXCEPT ![held[t]] = "alive"]
  /\ of' = [of EXCEPT ![held[t]] = connection']
  /\ Goes(t, "inserting")
  /\ UNCHANGED <<services, held, dying, historyVars>>

(* registerStubAdapter: the second critical section; the stub is offered.  *)
(* registerStub has a reference of its own until it returns.               *)
InsertAdapter(t) ==
  /\ pc[t] = "inserting"
  /\ services = Nothing
  /\ services' = held[t]
  /\ rivals' = {a \in Adapters \ {held[t]} : stage[a] \in {"promised", "alive", "dying"}}
  /\ Goes(t, "returning")
  /\ UNCHANGED <<connectionVars, held, dying, stage, of, refused>>

(* registerStubAdapter: another stub was registered since.  registerStub   *)
(* returns FALSE; nobody gives the count of the connection back.           *)
RefuseAdapter(t) ==
  /\ pc[t] = "inserting"
  /\ services # Nothing
  /\ refused' = refused + 1
  /\ Goes(t, "returning")
  /\ UNCHANGED <<services, connectionVars, held, dying, stage, of, rivals>>

(* Factory::unregisterStub under servicesMutex_: the stub manager forgets  *)
(* the adapter, the service is no longer offered, the entry is erased.     *)
EraseService(t) ==
  /\ services # Nothing
  /\ Holds(t, services)
  /\ services' = Nothing
  /\ rivals' = {}
  /\ Goes(t, "decrementing")

UnregisterStub(t) ==
  /\ pc[t] = "idle"
  /\ EraseService(t)
  /\ UNCHANGED <<connectionVars, dying, stage, of, refused>>

(* ~StubAdapter calls unregisterStub for its address. *)
DestroyAdapter(t) ==
  /\ pc[t] = "unregistering"
  /\ \/ EraseService(t)
     \/ services = Nothing /\ Goes(t, "idle") /\ UNCHANGED <<services, held, rivals>>
  /\ stage' = [stage EXCEPT ![dying[t]] = "dead"]
  /\ of' = [of EXCEPT ![dying[t]] = 0]
  /\ dying' = [dying EXCEPT ![t] = Nothing]
  /\ UNCHANGED <<connectionVars, refused>>

(* Factory::decrementConnection with Connection::decrementConnection: the  *)
(* last user disconnects, and keeps connectionMutex_ meanwhile.            *)
DecrementConnection(t) ==
  /\ pc[t] = "decrementing"
  /\ owner = Nothing
  /\ active' = active - 1
  /\ IF active = 1
       THEN owner' = t /\ Goes(t, "joining")
       ELSE UNCHANGED owner /\ Goes(t, "returning")
  /\ UNCHANGED <<services, connection, created, held, dying, stage, of, historyVars>>

\* A faulty variant, for the runs' mutants: the main loop is waited for too.
JoinedAll(t) == \A h \in Handlers \ {t} : pc[h] = "idle"

(* A thread that disconnects waits for the dispatcher thread, except for   *)
(* itself.                                                                 *)
Joined(t) == t = Dispatcher \/ pc[Dispatcher] = "idle"

(* Connection::disconnect: doDisconnect has joined the dispatcher thread,  *)
(* or detached it when it is the caller; the factory forgets the connection.*)
Disconnect(t) ==
  /\ pc[t] = "joining"
  /\ Joined(t)
  /\ connection' = 0
  /\ owner' = Nothing
  /\ Goes(t, "returning")
  /\ UNCHANGED <<services, created, active, held, dying, stage, of, historyVars>>

(* A local shared_ptr goes out of scope; the last reference destroys. *)
LastReference(t) == services # held[t] /\ \A u \in Threads \ {t} : held[u] # held[t]

DropAdapter(t) ==
  /\ pc[t] = "returning"
  /\ Holds(t, Nothing)
  /\ IF held[t] # Nothing /\ LastReference(t)
       THEN /\ stage' = [stage EXCEPT ![held[t]] = "dying"]
            /\ dying' = [dying EXCEPT ![t] = held[t]]
            /\ Goes(t, "unregistering")
       ELSE Goes(t, "idle") /\ UNCHANGED <<stage, dying>>
  /\ UNCHANGED <<services, connectionVars, of, historyVars>>

(* A method of the stub calls Factory::createProxy ... *)
BuildProxy(t) ==
  /\ pc[t] = "building"
  /\ GetConnection
  /\ Goes(t, "proxied")
  /\ UNCHANGED <<services, held, dying, stage, of, historyVars>>

(* ... and lets go of the proxy again: ~Proxy gives back the connection. *)
DestroyProxy(t) ==
  /\ pc[t] = "proxied"
  /\ Goes(t, "decrementing")
  /\ UNCHANGED <<services, connectionVars, held, dying, stage, of, historyVars>>

-----------------------------------------------------------------------------

At(place) == Cardinality({t \in Threads : pc[t] = place})

(* The connection lives exactly as long as it is used (getConnection and   *)
(* decrementConnection are far apart, in different threads): a registered  *)
(* stub, a proxy and a registration or release under way count one each,   *)
(* and so does, for ever, a registration that was refused.                 *)
ConnectionCounted ==
  /\ active = refused + At("inserting") + At("proxied") + At("decrementing")
                + (IF services # Nothing THEN 1 ELSE 0)
  /\ services # Nothing => of[services] = connection
  /\ connection = 0 => active = 0

(* A stub is unregistered by the application, or by the destructor of an   *)
(* adapter that was already there or being registered when it was          *)
(* registered: never by a registration that came too late (registerStub    *)
(* decides in two critical sections, ~StubAdapter knows only the address). *)
StubKept ==
  [][ \A t \in Threads :
        /\ pc[t] = "unregistering" /\ pc'[t] # "unregistering"
        /\ services # Nothing /\ services' = Nothing
        => dying[t] \in rivals ]_registryVars
=============================================================================
