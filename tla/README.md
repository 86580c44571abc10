# CommonAPI SOME/IP runtime: a verification project

TLA+ models of the CommonAPI SOME/IP runtime (`src/`), the library between generated CommonAPI proxies and stubs and the vsomeip stack. Paths below are relative to the repository; `Connection.cpp` and the like are under `src/CommonAPI/SomeIP/`, headers under `include/CommonAPI/SomeIP/`.

## 1. The system

```
 application threads            main loop thread             vsomeip dispatcher threads
   |  callMethod*, isAvailable*   |  DispatchSource::dispatch   |  receive, onAvailabilityChange,
   v                              v                             v  onConnectionEvent, status handlers
 ProxyHelper -> Proxy -> Connection <------- Watch queue <----- Connection -> StubManager -> StubAdapter
                 |          ^   ^                                                |
   time-out thread          |   cleanup thread                                   StubAdapterHelper
                         Factory (counts, creates, releases)
```

| component | state it keeps | operations | interacts with | what makes it correct |
|---|---|---|---|---|
| Connection: method calls (`Connection.cpp`, `ProxyHelper.hpp`, `ProxyAsyncCallbackHandler.hpp`) | `asyncAnswers_`, `asyncTimeouts_`, `errorResponses_`, `sendAndBlockAnswers_`, `lastSessionId_`, the fake session counter | `sendMessageWithReplyAsync`, `sendMessageWithReplyAndBlock`, `proxyPushMessageToMainLoop`, `receive`, `handleProxyReceive`, `cancelAsyncAnswers`, `cleanup` | vsomeip callbacks, watch queue, proxies | a handler is called exactly once, with the answer to its own request or for a reason; blocked calls return |
| Main-loop queue and supervisor (`Watch.cpp`, `DispatchSource.cpp`) | `queue_`, eventfd counter, `lastProcessing_` | `pushQueue`, `popQueue`, `dispatch`, `supervise` | connection, application main loop | FIFO, nothing lost, no busy or missed wake-up |
| Proxy availability (`Proxy.cpp`) | `availabilityStatus_`, `timeouts_`, the time-out thread, status listeners | `init`, `onServiceInstanceStatus`, `isAvailable*`, `availabilityTimeoutThreadHandler` | connection's availability handlers, application callbacks | status follows the service, each deferred callback runs once |
| Availability handlers, service and event requests (`Connection.cpp:785-1124`) | `availabilityHandlers_`, `availabilityCalled_`, `requestedServices_`, `requestedEvents_`, `registeredEvents_` | register/unregister, request/release | proxies, vsomeip | vsomeip's registrations agree with the counts |
| Events and subscriptions (`Connection.cpp:650-783, 1166-1207`, `SubscriptionStatusWrapper.cpp`, `ProxyBase.cpp`, `Event.hpp`) | `eventHandlers_`, `subscriptions_`, `subscriptionStates_`, pending handler queues | add/removeEventHandler, subscribe, status handler, `processErrQueueEntry` | proxies' events, vsomeip, queue | each subscription is told its status once, none after it is gone |
| Lifecycle (`Factory.cpp`, `StubManager.cpp`, `StubAdapter.cpp`, `Connection.cpp:400-506`) | `connections_`, `services_`, `activeConnections_`, `registeredStubAdapters_` | get/increment/decrement/releaseConnection, (un)registerStub, connect, doDisconnect | all | a connection lives while it is used and its threads end; one adapter per address |
| Stub dispatch (`StubAdapterHelper.hpp`) | `pending_`, `currentCall_` | `dispatchMessage`, `sendReplyMessage` | stubs' threads, connection | at most one reply per request |
| Managed instances, attributes, address translation, configuration, messages | small maps, wrappers | | | not the program's hard part |
| Serialization (`InputStream`, `OutputStream`, `StringEncoder`) | stream position, error flag, length fields | read/write per type | generated code | what is written is read back; lengths stay within the message |

Hard behaviours: four kinds of threads share a connection (application threads, vsomeip dispatchers, the cleanup thread, the main loop), callbacks run without locks, responses race with time-outs and with loss of availability, blocking calls may be made inside main-loop callbacks, session ids wrap, threads replace and join one another. `PROJECT.json` lists every hazard at its line.

## 2. Modules and plan

| # | modules | about | abstract specification | proofs |
|---|---|---|---|---|
| 1 | `ConnectionCalls` | method calls of a connection | `CallContract` | `ConnectionCallsProofs`, `CallOutcomesProofs` |
| 2 | `ProxyAvailability` | status of a proxy, deferred callbacks, time-out thread, status listeners | - | `ProxyAvailabilityProofs` |
| 3 | `MainLoopQueue` | Watch, DispatchSource and the semaphore eventfd | - | with 8 |
| 4 | `Registrations` | availability handlers, requests of the service and of an event, reports | - | with 5 |
| 5 | `Subscriptions` (extends 4) | event handlers, subscription status, values | - | `SubscriptionsProofs`, `DeliveriesProofs` |
| 6 | `StubRegistry` | Factory, StubManager, StubAdapter, life of a connection | - | with 8 |
| 7 | `StubDispatch` (extends 6) | requests at a stub and the replies to them | - | with 8 |
| 8 | `ServiceSide` (composes 3 and 7) | a service process: threads, main loop, stubs | `MainLoopQueue`, as what it uses | `ServiceSideProofs` |
| 9 | `BitStreams`, `StringEncoder`, `BasicValues`, `Containers`, `Streams`, `MessageTransfer` | serialization, as operators, and a message on its way | the value that was meant | `StreamsProofs`, `MessageTransferProofs` |

`MCConnectionCalls`, `MCSubscriptions`, `MCServiceSide` and `MCMessageTransfer` give constants that a `.cfg` cannot write. Open in the plan: a composition of calls and subscriptions over one queue.

## 3. Modules

### ConnectionCalls

The four kinds of threads of a client-side connection. A thread is one of: an asynchronous caller (each makes one call), a vsomeip dispatcher, the main loop, the cleanup thread; a synchronous caller is represented by the state `sync` of its call. One action is one critical section of `sendReceiveMutex_`, or a step between two critical sections that others can observe; `pc` says where a thread is.

| model | code |
|---|---|
| `asyncAnswers`, `asyncTimeouts` | the maps of that name. Kept as sets of calls; `key[c]` is the session id of the entry, so two entries never have the same key and storing one replaces the other (`StoreAnswer`, `StoreTimeout`) |
| `errorResponses` | `errorResponses_`: calls whose error message is known by a fake session |
| `sync`, `syncAnswer`, `woken` | `sendAndBlockAnswers_` and `sendAndBlockCondition_` |
| `batch[t]` | the local map `asyncAnswersToProcess` of the cleanup thread or of a cancellation |
| `job[t]` | the handler moved out of a map (`itsHandler`), about to be called without lock |
| `armed`, `expired`, `warning`, `notified` | wait time of `cleanup`, time points that have passed, `warnThreshold`, `cleanupCondition_` |
| `queue` | the queue of the watch (of responses and availability changes) |
| `available`, `proxyAvailable` | vsomeip's `is_available`; the status of the service's proxies, changed by their availability handlers |

The operations: `callMethodAsync` is `CallUnavailable`, `CallAvailable`, then `Send`, `SendRefused`, `SendDisconnected` or `NotReachable`; `sendMessageWithReplyAndBlock` is `Check`, `SendAndBlock`/`BlockDisconnected`, `EndWait`; `receive` is `Receive`, `PushMessage`; `handleProxyReceive` is `Handle`, `Callback`; `onAvailabilityChange` is `ServiceChange`, `PushNotice`; `handleAvailabilityChange` with `cancelAsyncAnswers` is `WakeBlocked`, `CollectCancelled`, `FlushToMainLoop`/`FlushDirectly`, `CancelDone`, `InformProxies`; `cleanup` is `CleanupTimeout`, the same two flush actions, `UpdateTimeout`, `WaitForTimeout`.

Abstractions. Payloads are gone; a response is the call it answers and its kind. Time is `Expire`: a time point may pass at any moment after the entry exists. Session ids are `1..MaxSession` and wrap to 1; fake sessions lie above them, as `fakeSessionId << 16` does, and their counter has the same width and wraps too (`sent` and `faked` count what was given out; `Wrapped` is true once one of them has). The proxy's deferral (`isAvailableAsync`) is reduced to its two outcomes; `NotReachable` may come when the proxy has become available meanwhile, because the decision and the callback are separate in `Proxy.cpp`. Not in this module: notifications and requests that pass through `receive`, which share no state with calls; `queueSubscriptionStatusHandler` in `onAvailabilityChange`; disconnecting; exceptions of application callbacks; a failing `application::send` (it returns nothing; only the repeated session id is looked at).

### CallContract

What callers are promised: each call is concluded at most once, by a status or by the refusal of the send; `NOT_AVAILABLE` only if it was not sent, `SUCCESS` only if it was. `ConnectionCalls` implements it under the mapping `stage`/`sentOut` (`Promise`).

### ProxyAvailability

One proxy: `init`, the reports of its availability (`onServiceInstanceStatus`), its status event, `isAvailableBlocking`, `isAvailableAsync` and the time-out thread. Threads: the one that delivers reports (`Reporter`), the one that creates the proxy (`Creator`), a thread per deferred call (`Caller`), per blocked call (`Waiter`) and per status listener (`Listener`), and the time-out thread (`TimeoutThread`). What a thread's steps never change is stated once, in the definition of the thread.

| model | code |
|---|---|
| `status`, `reporter` | `availabilityStatus_`; where `onServiceInstanceStatus` is: `listenersMutex_` is held in "signalling" and "telling" |
| `listening`, `subscribed` | `listeners_`; the subscriptions kept by the CommonAPI core's event class |
| `caller[r]` | a call of `isAvailableAsync`: "joining" and "joined" lie between the unlock and the second lock of `timeoutsMutex_` |
| `timeouts`, `expired` | `timeouts_` and the entries whose time point has passed |
| `thread` | the `std::thread` object: none, running, ended (joinable), joined; "terminated" when it was destroyed while joinable |
| `handler`, `timed`, `armed`, `left`, `callbacks`, `todo`, `current` | where `availabilityTimeoutThreadHandler` is and its local variables; `availabilityTimeoutThreadMutex_` is free while it has not started, waits, or runs a callback (`ThreadMutexFree`), `timeoutsMutex_` is held while it examines the entries one by one |
| `creation`, `service`, `known`, `reports` | the progress of `init`; vsomeip's view of the service, `availabilityCalled_`, and the changes on their way |

Abstractions. The order of the list is left open; the earliest of a set of deadlines has passed as soon as one of them has (`armed`, `expired`). Callbacks are steps that begin and end; the remaining time they are passed is left out. A call made from inside a callback is a `Caller` step while the time-out thread is in the callback: the list is not empty then, so the branch for the thread's own id is never reached. `isAvailableAsync` is called as `ProxyHelper.hpp` does, after the proxy was seen unavailable. Two callers that join the same `std::thread` are undefined behaviour: `JoinTwice` lets the second return or throw. `Init` is either a proxy about to be created or one whose earlier deferred calls are over, whose thread has ended and was not joined. A spurious wake-up is a pass like the one after a notification and is left out.

### MainLoopQueue

The queue between the producers and the main loop. An entry is queued (`PushQueue`) and the eventfd written (`WriteEventFd`) in two steps, `writing` being the threads in between; the main loop sleeps on the eventfd (`WakeUp`, `Prepare`), takes the front (`FrontQueue`), reads the eventfd once (`ReadEventFd`; `EFD_SEMAPHORE`), pops (`PopQueue`) and processes (`EndDispatch`). `queue` is `queue_`, `front` the local variable of `DispatchSource::dispatch`. The main loop itself (poll and the call of prepare, check and dispatch) belongs to the application and is modelled from how `DispatchSource` and `Watch` expect it to be used. The supervisor thread only writes log messages and is left out. `ConnectionCalls` and `Subscriptions` keep a simpler queue, one step to push and one to pop: `FdCounts` and `FrontKept` are what justifies that.

### StubRegistry, StubDispatch, ServiceSide

| model | code |
|---|---|
| `services`, `connection`, `created` | the entry of `Factory::services_` for the address (the entry of `StubManager::registeredStubAdapters_` and the offer change with it, under `servicesMutex_`); the entry of `connections_`, as the number of the connection |
| `active`, `owner` | `activeConnections_`; who keeps `connectionMutex_` over a step |
| `stage`, `held`, `dying` | the life of an adapter (its `shared_ptr` references: the registry and local variables of threads) and whose destructor is running |
| `pending` | `pending_` of the method's dispatcher: nothing, the request, or the empty response that the first critical section of a reply puts in its place |
| `place`, `work`, `stub` | where a request is, who handles it, which adapter it was given to |
| `answers`, `told` | what was sent for a request, and what `sendReplyMessage` returned |
| `refused`, `rivals` | history: counts kept by refused registrations, and who was alive when a stub was registered |

Operations: `Factory::registerStub` is `RegisterStub`, `CreateAdapter` (with `getConnection`), then `InsertAdapter` or `RefuseAdapter`, and `DropAdapter`, for its own reference to the adapter; `unregisterStub` is `UnregisterStub`, `DropAdapter`, `DestroyAdapter` (the destructor calls `unregisterStub` again), `DecrementConnection` and `Disconnect` (`doDisconnect` with its joins). A stub method may create and destroy a proxy (`BuildProxy`, `DestroyProxy`). `handleMessage` is `HandleMessage`, `RefuseMessage`, `CallStub`, `StubReturns`; a reply is `CreateReply`, `SendReply`. `ServiceSide` lets the dispatcher thread queue requests or handle them itself, adds the responses that the cleanup thread queues, and the main loop.

Abstractions. One address, one connection id. An entry of a connection that has ended is handled as if no adapter were found (the code drops it with the Watch). A replaced dispatcher thread and its successor are one thread of the model. A reply sent when its adapter is gone is left out: the lambda that replies keeps a pointer to the dispatcher, not the adapter. Managed services, attributes, methods without reply and the direct use of `sendErrorReplyMessage` (which names a helper that does not exist, `StubAdapterHelper.hpp:611` against `:684`) are left out.

What modelling showed, beside the properties. A registration that is refused keeps its count of the connection for ever (`refused`), and its destructor unregisters the stub of the winner, as the destructor of an adapter that the main loop keeps alive unregisters a stub registered anew (`rivals`): `StubKept` says that nothing else takes a stub away. Without a main loop `unregisterStub` may wait for ever: `decrementConnection` keeps `connectionMutex_` while it joins the dispatcher thread, whose stub method may be about to create or destroy a proxy; `UnregisterReturns` is stated for a connection with a main loop.

### Registrations, Subscriptions

All proxies of one service instance, each with a thread of its own, one event, a main loop, and the dispatcher thread of vsomeip.

| model | code |
|---|---|
| `handlers`, `services`, `events`, `called` | `availabilityHandlers_`, `requestedServices_`, `requestedEvents_`, `availabilityCalled_` |
| `handlerAt`, `serviceAt`, `eventAt`, `statusHandlerAt`, `subscribedAt` | what vsomeip has of us |
| `receiverAt` | the message handler of the service: `requestService` registers it (`Connection.cpp:969-971`), `releaseService` does not unregister it; values pass only while it is there |
| `eventHandlers`, `grouped` | `eventHandlers_` and `subscriptions_` of the event |
| `wrapped`, `allHandlers`, `pendingHandlers` | the `SubscriptionStatusWrapper` and its members |
| `fresh`, `active` | `Event::listeners_` (those that wait for an initial value) and the subscriptions of the CommonAPI core's event |
| `batch`, `left`, `current`, `subscribers` | the local copies made under a mutex and used without it |
| `statuses`, `initials`, `heard`, `losses` | history: what each subscription was told |
| `crossed` | history: a call of vsomeip came after the critical section that decided it, and undid what another proxy had done |

Each operation of `Connection` whose call of vsomeip lies outside of its critical section is two actions (`CountEvent`, `RequestEvent`; `AddHandler`, `RegisterHandler`; `CountService`, `RequestService`; `UncountEvent`, `ReleaseEvent`; `RemoveHandler`, `UnregisterHandler`); `releaseService` asks inside and is one. Subscribing is `AddListener`, `AddEventHandler`, `Listen`, `InsertHandler`, `Subscribe`; unsubscribing `RemoveListener` or `Close`, `RemoveEventHandler`. `onAvailabilityChange` is `BeginReport`, `QueueReport`; `handleAvailabilityChange` `HandleReport`; the status handler `StatusHandler`, `PushStatus`; `processErrQueueEntry` `CallErrorListener`, `EndErrorListener`; a notification `PushValue`, `TakeValue`, then `TakeSubscribers` and `Notify` for each handler, `EndValue`.

Abstractions. One event in one group; one listener operation at a time per proxy; the error code of a status is left out (the status of one subscription also drains the handlers of a later one, `Connection.cpp:757`). `Close` may come even while a handler of the proxy is being called, earlier than the weak reference that the handler locks allows. vsomeip answers a subscription to an available service with a status and, if the event was requested, an initial value, and subscribes again when the service comes back.

### BitStreams, StringEncoder, BasicValues, Containers, Streams, MessageTransfer

`BitStreams` has the operations of the two stream classes on bits, raw bytes, positions and length fields; a stream is a record of its bits, error flag and open fields. `BasicValues` and `Containers` have `writeValue` and `readValue` for every type with its deployment, one operator per overload; the parts of a container go through `Write` and `Read`, parameters of `Containers` that `Streams` defines, recursively, as the overloads themselves (that keeps the recursion out of the modules with proofs; the runs use `Streams`). `StringEncoder` has the conversions between UTF-8 and UTF-16 on bytes, with what they do of sequences that are broken off or malformed (not: what `utf8To16` finds in memory behind a text whose last sequence is broken off). `MessageTransfer` sends a message of such arguments, whole or cut off at any byte, to a receiver that may know an older type. The host is assumed little-endian; floats are their bits.

The arguments of the run have values of every overload, and some that the streams are not made for. `_writeBitValue` chooses the first byte of a value that has fewer bits than its type from the end of the type, `_readBitValue` fills the type from its first byte (`OutputStream.hpp:496`, `InputStream.hpp:588`); `Misplaced` says which values do not come back: on a little-endian stream those that are at least a byte narrower than their type, and every `bool` (a 32-bit number of 8 bits; `OutputStream.cpp:52`); on a big-endian one all that are narrower than a type of several bytes. `RoundTrip` lets the value of these be lost, and nothing else: they are read without an error and what comes behind them is what was sent. `_readBitValue` also counts the bytes of a field from the one in which it starts (`InputStream.hpp:557-559`): a field that starts inside the last byte of a body that was cut off there is read on behind its end, and so may be what follows it, for aligning the stream there takes 1 from a `remaining_` (a `size_t`) of 0 (`StaysInBody`, phase "stray"; `in.stray` is "crossed" when such a field was the first, "overrun" when a read began behind the end, "endless" when a loop would not end).

Modelling showed more that the code does not carry, none of it an argument of the run: `errorOccurred_` of a nested struct, variant or `Version` may be overwritten by the next read; UTF-16 encoding stops at a NUL (`CHANGES:118`) and a code point whose low 16 bits are a surrogate, like U+1D834, is lost; a fixed-length string that is too long is not written and sets no error, and a shorter one comes back with its padding; an enumeration without deployment is written as one byte and read at the width of its base type; the padding of a fixed-length union is skipped by the reader and not written by the sender.

## 4. Runs

All runs set `CHECK_DEADLOCK FALSE`: a process that has made its calls, got its answers and dropped its proxies stops.

| run | bounds | shows |
|---|---|---|
| `calls_blocking` | main loop; 1 asynchronous call with a warn threshold, 1 blocking call from a callback; 2 services; 2 dispatchers; results and errors; 1 change; fairness | no handler is lost, doubled or failed without a cause; implements `CallContract`; the answer of the blocked call never waits behind the main loop; the main loop always comes back; the asynchronous call is always answered |
| `calls_direct` | no main loop; 2 asynchronous calls, one with a warn threshold, 1 blocking; 2 session ids for 3 requests, so they wrap; 1 change | a handler is in one place only, called at most once and with its own answer, by dispatcher and cleanup thread; until the ids wrap no entry is replaced, by a fake session neither |
| `calls_unavailable_told` | main loop; 2 asynchronous calls to 2 services; no changes; fairness | **violated**: see findings |
| `proxy_availability` | 2 deferred calls, 1 status listener, 2 changes of the service, 1 loss of the connection | each deferred call is answered once and with cause; no entry without a thread; listeners hear each status in order |
| `proxy_liveness` | 2 deferred calls, 1 blocked call, 1 change; fairness | deferred calls are answered; a blocked caller returns when the proxy stays available |
| `proxy_full_wait` | 2 deferred calls, 1 change | **violated**: see findings |
| `proxy_thread_destroyed` | 2 deferred calls, 1 change | **violated**: see findings |
| `streams` | 28 arguments, messages of 1 or 2, both byte orders, cut off anywhere | what can be sent is read without an error, and as it was meant but for the values of section 3 that are misplaced; bits behind the body are used only by a field that starts inside the last byte of a body that was cut off; of a message cut off nothing is reported as read that was not sent |
| `streams_bool` | 2 arguments (a `bool` that is true, one that is false), as above | **violated**: see findings |
| `subscriptions` | 2 proxies, 2 listeners in all, 1 change or value; symmetric in the proxies | registrations agree with what the proxies want; each subscription hears its status and an initial value as often as it should; nothing is left behind but the message handler of the service |
| `subscriptions_callback` | as above, proxy p1 is used inside error listeners; fairness | **violated**: see findings |
| `service_side` | 2 application threads, 2 adapters, 1 request that is good or unknown, 2 repliers, with and without main loop; fairness | the eventfd counts the entries; the connection lives while used; a stub is lost only to a rival; one answer per request; every request is settled; unregistering returns |

Why the bounds are enough. The races are between one entry and the threads that may take it (a dispatcher or the main loop, the cleanup thread, a cancellation): one call and one of each thread exercises every pair and triple. A change of another service shows that the wrong entry is never taken, a second asynchronous call (`calls_direct`) that the entries of a batch do not disturb each other; two session ids with three requests reach the collision of old and new entries; one change of availability or connection in a run, starting from every initial availability, covers loss before, during and after each step of a call. `MaxChanges` and the number of calls are the only bounds on counters. Two dispatchers are used where responses and availability changes must overlap.

For the proxy, two deferred calls are what it takes for one to enter the list while the other is examined, answered or removed, for two callers to join the same old thread, and for the second to find the thread that the first started; two changes make the status come and go while a call is pending. `proxy_liveness` has one blocked caller: with two, `notify_one` wakes only one of them (`SomeWaiterReturns` claims no more), a limit of the code listed under hazards.

Two proxies make every first and last of a count, and one of them may be at any step while the other is at any other; two listeners are two of one proxy or one of each. Two application threads and two adapters give a registration that loses, and a stub registered anew while its predecessor dies; the theorems of section 6 cover more of both. In `streams` two arguments are needed for alignment, open length fields and error flags to carry over from one to the next.

Fairness. Each thread that can go on does so (weak fairness per thread, `Fairness` or `FairSpec`): nothing in the code lets one thread keep another from a mutex for ever, the main loop is run by the application, and clocks advance. Nothing is assumed of services, of vsomeip changing state, or of calls being made. In `ProxyAvailability` also: callbacks return, and the callers, who take finitely many steps each, share one condition. In `ServiceSide` registering, unregistering and replying are up to the application and are not fair. In `Subscriptions` an operation that was begun goes on, and the main loop and the dispatcher do.

Properties that mention `Wrapped` claim nothing once session ids have wrapped: from then on the code pairs answers by a reused id, and `asyncAnswers_[itsSession] =` may replace an unanswered entry. `AtMostOnce` and `HandlerExclusive` hold regardless. `KnowsWhenQuiet` and `EveryoneHears` claim nothing once a call of vsomeip that came too late has undone another proxy's (`crossed`), or the service has come back while the event was released so: that the code allows this is said in the hazards, at `Connection.cpp:887`, `:1121`, `:1076` and `Proxy.cpp:307`.

## 5. Findings

- *An unavailable call may never be told.* `CHANGES` (v3.1.12.6) promises that "all async method calls done while the proxy is not available are called with CAPI::CallStatus::NOT_AVAILABLE". Its entry has a fake session that only `errorResponses_` links to the error message. If the cleanup thread takes the expired entry (`Connection.cpp:304-305`) just before the main loop handles the error message, the message is dropped and its link erased (`:75`, `:160`); the cleanup thread then stores the entry in `asyncTimeouts_` (`:333`) and queues a response with session id 0 that nothing maps back. The handler stays there for ever. It needs the main loop to be more than `ASYNC_MESSAGE_REPLY_TIMEOUT_MS` late.
- *An unavailable call may be told REMOTE_ERROR.* While the error message waits in the queue, a cancellation (the service came and went) or the cleanup thread moves the entry to `asyncTimeouts_`, whose handlers are always called with `REMOTE_ERROR` (`:155`).
- *A deferred call may wait for its whole time-out.* `CHANGES` (v3.1.12.17) reports as fixed that a call on an unavailable proxy waited "the complete specified timeout ... if the proxy got available in the meantime". The time-out thread runs callbacks without `availabilityTimeoutThreadMutex_` and afterwards goes back to `wait_for` without looking at the status (`Proxy.cpp:178-195`, `71-88`): a call added during the callback, after the change was reported or together with it, sleeps until its time-out.
- *A thread may be destroyed while joinable.* `isAvailableAsync` joins the old time-out thread outside `timeoutsMutex_` and does not look at the list again (`Proxy.cpp:364-377`). With two callers, one may replace the thread the other has just started, which is `std::terminate`; `CHANGES` (v3.1.11.1) lists "Fixed exception on thread destruction".
- *An error listener may not use the proxy.* `processErrQueueEntry` calls the application's error listener with `eventHandlerMutex_` locked (`Connection.cpp:1169-1175`). A listener that subscribes, unsubscribes or drops the last reference of a subscribed proxy locks it again in the same thread; one that only creates a proxy may wait for a dispatcher that holds `availabilityMutex_` and waits for `eventHandlerMutex_` (`:178-184`). `Connection.cpp:102` says of event handlers "We must not hold the lock when calling the handlers!", and `CHANGES:179` (v3.1.10) lists "Unlock before handler call to avoid deadlock" for error listeners.
- *A `bool` does not arrive on a little-endian stream.* `writeValue(bool)` has 8 bits of a 32-bit number written (`OutputStream.cpp:52`), and on a little-endian stream `_writeBitValue` takes its last byte (`OutputStream.hpp:496-499`), which is 0: true is read as false. On a big-endian stream it is the first byte, and arrives. `CHANGES:43` (v3.2.3) lists "Implemented correct sending/receiving of boolean values." (`streams_bool`).

The second of these has no run of its own: `calls_unavailable_told` checks the stronger half of the promise.

## 6. Proofs

`ConnectionCallsProofs` proves, for every set of calls, dispatchers and services, every `MaxSession`, with and without a main loop, from `CallsAssumption` alone (the sets of calls and threads are disjoint, constants have their types, the markers for no call and no service are none of them):

- `TypesOK`: `Spec => []TypeOK`. `TypeOK` is not inductive: that a thread queues a message, or calls a handler, is typed only because its `pc` says that it holds one. `TypeInv` adds `Control`, which relates `pc` to `msg`, `job` and `notice` and lists the points each kind of thread reaches.
- `HandlersExclusive` and `CalledAtMostOnce`: `Spec => []HandlerExclusive` and `Spec => []AtMostOnce`. `AtMostOnce` alone is not inductive, since a second copy of a handler somewhere would break it later; `HandlerExclusive` says that a handler is in at most one of the two maps, one thread's batch, or the hands of one thread, and that nobody was told anything meanwhile. Steps fall into three kinds, each a lemma: they move no handler (`QuietStep`), take entries out of `asyncAnswers` (`CollectStep`) or put one into a thread's hands (`TakeStep`); calling a handler and starting a call are proved apart.
- `ImplementsContract`: `Spec => Promise`, every behaviour of the connection is one of `CallContract`. The step simulation needs `TypeInv`, `HandlerExclusive` and `ContractInv`, whose three parts are
  - `Keys`: a call has no session id until it is sent or given up; one with a handler somewhere has one and was not refused; a blocked call waits for a real one;
  - `ErrorMessages`: an error message, in a thread's hands or in the queue, belongs to a call with a fake session, and no blocked call is given one. Without it a response for an unsent call could conclude a sent one, since `handleProxyReceive` pairs them by number only (`AnswersMatch`);
  - `JobsTrue`: what a thread is about to tell a caller is true of its call.

  Most steps are stutters (`QuietContract`: no call is concluded, keyed or refused); the caller's steps go through `LeaveUnsent`, the blocked calls' through `BlockedMoves` and `ReturnContract`, the reply handlers' through `CallbackContract`, and each ends in one of `MakeStep`, `TransmitStep`, `RefuseStep`, `ConcludeStep`.

`CallOutcomesProofs` (extends it) proves the other invariants of `ConnectionCalls`. All but one of them say "until the session ids have wrapped around", because the code pairs by session id alone:

- `SessionsKept`: `SessionsFresh`, no two calls have the same session id - requests count up to `MaxSession`, fake sessions beyond it - and `SessionsPaired`, every answer that a thread or a blocked call has got is to its own request, and no entry was replaced. `AnswersAreOwn` (`OwnAnswer`) and `NothingReplaced` (`NoEntryReplaced`) follow at once. The steps that take a handler, conclude a call or store something (`BusyStep`) have a lemma each; the rest is `QuietStepKind`.
- `MainLoopBypassed`: `NoAnswerBehindMainLoop`, also when session ids wrap around, from `Bypass`: a message for a blocking call exists only once the call waits or is over, and one that is queued or about to be is for a call that is over. `CarriedFrom`, `QueuedFrom` and `PushFrom` say where messages come from.
- `FailuresHaveCauses`: `CauseOfFailure`. `Blamed` is what may fail a call - its service has been down, or its time has passed and it has left `asyncAnswers_` - and lasts (`BlamedOnward`); `Blame` says that only such calls are in a batch or in `asyncTimeouts_` or have a time-out response made for them; `Fallen` that whoever reports or cancels a service speaks of one that was down; `Reasons` that every failure told, or about to be, has its reason. That a blocked call gives up because "another waits for its session id" is impossible follows from `SessionsFresh`.
- `HandlersKept`: `HandlerKept`, from `Kept`: a handler is `Lodged` in `asyncAnswers_`, in a batch, in a thread's hands, or in `asyncTimeouts_` with its response on its way, and a step takes it from one of these places to another (`EntryOn`, `BatchOn`, `HoldsOn`, `TimeoutKept`) or calls it. `HandsFull` keeps a thread from overwriting the entries or the message it has, `WayOn` keeps the response until it is handled, and `TimeoutFound` says that it then finds its entry and no other: no blocked call and no newer entry has that session id.

`ProxyAvailabilityProofs` proves, for every set of callers, waiters and listeners and any number of changes, from `ProxyAssumption` alone:

- `TypesOK`: `TypeOK` is inductive as it stands.
- `DeferredCalls`: `CalledBackOnce` and `Attended`, for any number of concurrent callers. The inductive invariant adds `Phases` (what the time-out thread's local variables hold in each phase: nothing is left over from the pass before) and `ToldLater` (an entry without an answer, and a callback still to be called, has been told nothing). That a caller which replaces a running thread ends the process is part of the model, so the theorem says that nothing else goes wrong.
- `AnswersJustified`: `CauseOfAnswer`, from `CauseInv`: while the proxy is available every entry counts as having seen it available, and an answer found but not yet told already has its cause.
- `ListenersHear`: `ListenersUpToDate`, from `ListenersInv`: no listener exists before `init` is over (its assignment of the status takes no `listenersMutex_`), and nobody has heard anything while the status is unknown.

`ServiceSideProofs`, for any finite sets of application threads, any adapters, requests, repliers and entries, from the assumptions of the four modules:

- `EventFdCounts` and `FrontProcessed`: of `MainLoopQueue` on its own, `QueueSpec => []FdCounts` and `[]FrontKept`, from `QueueInv` (both with the types: that the queue is not empty between `FrontQueue` and `PopQueue` is what keeps `Tail` and `Head` meaningful).
- `UsesQueue`: every behaviour of `ServiceSide` is one of `MainLoopQueue!QueueSpec`; `ServiceFdCounts` follows from it.
- `StubsKept`: `StubKept`, an action property, from `RegistryInv`: `HeldLives` (an adapter in a local variable lives), `RegistrationOwns` and `DestructorOwns` (a thread that registers or destroys has the adapter for itself, and that adapter is the one its count is for), `RivalsKnown` (every destructor that can still unregister the present stub belongs to an adapter in `rivals`).
- `ConnectionsCounted`: `ConnectionCounted`, from `CountInv`: `UsersCounted` says exactly what `activeConnections_` is, the threads between the increment and the decrement, the registered stub, and the counts of refused registrations; `JoiningOwns` and `ConnectionUsed` say that whoever joins keeps the mutex and that a connection in use exists.
- `RepliesOnce`: `RepliedOnce`, from `DispatchInv`: a request is queued once (`QueuedOnce`), handled by one thread (`HandledOnce`), kept in `pending_` only unanswered (`PendingUnanswered`), and whoever is preparing or was told TRUE is accounted for (`RepliersTold`).
- `TypesOK`.

`SubscriptionsProofs`, for any finite set of proxies, any number of listeners and changes:

- `ServiceStaysRequested`: `ServiceRequested`, from `ServiceInv`: `requestedServices_` is the number of proxies between `requestService` and `releaseService`, and at most one of them is about to ask vsomeip.
- `ListenersStayRegistered`: `RegisteredWhileListening`, from `SubscriptionInv`. The property is about proxies that are not busy; the invariant follows one through its operations: `HandlerWhileListening` (exactly where a proxy is in `eventHandlers_`), `GroupWhileHandlers` (group, status handler and wrapper come with the first and go with the last), `ListenersKnown` (from which step on each listener is known where). The step that may do harm is `RemoveEventHandler` of the last proxy (`SubscriptionInvRemove`).
- `OnlyReceiverStays`: `OnlyReceiverLeft` (the message handler of the service is what stays at vsomeip), from these and `HandlerInv` and `EventInv`: `availabilityHandlers_` is a range of places, `requestedEvents_` counts the events and once more those that listen, and whenever vsomeip has a handler or an event of ours, some proxy is still to take it back. That holds although releases may cross other proxies' requests (`crossed`).

`DeliveriesProofs` (extends it) proves what the proxies and their subscriptions are told, for any finite set of proxies, any number of listeners and changes, from `ProxiesAssumption`, `ChangesAssumption` and `ListenersAssumption`. Nothing that is on its way from vsomeip through the dispatcher, the queue and the main loop is lost or told twice.

- `TypesHold`: `TypeOK`, from `TypeInv` and the invariants above (`BaseInv`): the statuses that `PushStatus` takes out of its batch, and the report that `QueueReport` takes out of `calls`, are there only because of where the dispatcher is (`DispatcherInv`).
- `InitialValueOnce`: `InitialOnce`. A subscription goes through `NotHeld`, `Held`, inserted and requested, one stage per step of its proxy (`SameStages`, `NextStage`, `NewStage`, `LastStage`); `InitialInv` says at which of them it may wait in `listeners_`, and that one which is about to be told (`Taken`) waits there no more.
- `StatusOncePerLoss`: `NoSpuriousStatus`. `StatusInv` bounds `Due`, the number of times a subscription is pending, in the batch of the status handler, in the queue, or was told, by one for its insertion and one for each loss of its service, and from below by one. The lemmas on `Times` say what the code's queues do to such a number, `TimesSetToSeq` for the map that is walked in the order of its pointers.
- `SubscribersToldStatus`: `EveryoneTold`, from `AnswerInv`: while the service is available, a status call of vsomeip is on its way for whoever is pending, and behind every loss that is still to be reported (`Followed`).
- `ProxiesKnow`: `KnowsWhenQuiet`, from `WantedInv` (what is counted is registered at vsomeip, or about to be) and `KnowledgeInv` (the last report on its way says what vsomeip knows; when there is none every proxy knows it, but one in `init` that has still to ask, `Asked`).
- `SubscribersHear`: `EveryoneHears`, from `WaitsInv` (only a value takes a subscription out of `listeners_`) and `ComingInv` (for a subscription that waits while the service is available, a value is at vsomeip, in the queue, or in the hands of the main loop, `Coming`). The proof attempt showed that the property needed more than two proxies could show: with three, the service may come back after a late release of the event, and vsomeip then has no initial value to give. `ChangeService` counts that as `crossed`.

`StreamsProofs` proves, about the operators of `BitStreams` and `StringEncoder` that `Write` and `Read` are built from, facts that hold for every value, size, bit position, byte order and encoding. Where TLC tries some texts and some values, these leave out nothing:

- `TextRestored`: `Utf16To8(Utf8To16(s, enc), enc) = s` for every text of code points that the encoder takes (`Characters`). It goes from one code point in UTF-8 and in UTF-16 (`Utf8Found`, and the same for UTF-16), wherever it stands, to texts of any length: both conversions are recursive functions over positions, and TLA+ takes such a definition as a choice, so that the function exists has to be proved first (`Recursion`). The induction theorems of the library take an operator, which the provers cannot instantiate; `SetInduction`, `Upwards` and `Downwards` take a set instead, and the induction runs over the positions at which code points begin (`at` of `Spells`).
- `TextCarried`: `Decode(Bom(enc) \o Encode(s, enc) \o Termination(enc), enc) = s`: `InputStream`, which looks for the last pair of zero bytes at any byte, finds the termination and not a pair across two units before it.
- `WholeCarried`: a value written with all its bits at any bit position is read again, and the reader ends where the writer ended; `OrderedTwice` says that the byte order is undone. Section 3 says what becomes of values written with fewer bits than their type has.
- `LengthFieldClosed`: a length field opened at a byte and closed behind any content holds the number of the content's whole bytes, in front of the unchanged content, and the marks of the outer fields are as before.
- `ReadsStayInBody` and `BytesCounted`: `remaining_` is the number of bytes from the one in which the stream stands to the end of the body (`Counted`); it stays so, and no bit behind the body is used, wherever the value to be read ends within as many bytes as the guard of `_readBitValue` asks for (`Fits`). It does at every byte (`AlignedFits`); a value of a few bits that crosses into one more byte is the case that is left out.

`MessageTransferProofs` (extends `StreamsProofs`) proves the three invariants of `MessageTransfer`, for messages of any number of arguments, any values and any place at which the body may be cut off: `ValuesRoundTrip` (`RoundTrip`), `ValuesStayInBody` (`StaysInBody`) and `ValuesNotInvented` (`NothingInvented`). The run allows for values that are misplaced and fields that end inside a byte; these arguments have neither, and the theorems say more: every argument is what was meant (`AllMeant`), the stream never goes astray, and no guarded argument is made up (`GuardedAsMeant`). The arguments (`Understood`) are values of any depth, made of

- values that hold no others (`Flat`: integers, floats, ranged and enumerated values, versions, strings, byte buffers and byte arrays), with the whole-byte widths that the two streams agree on;
- arrays and maps of such values, with or without a length field (`IsArray`, `IsMap`; the keys of a map are distinct, as in the map that is sent);
- structs, of which the receiver may know only the first fields if there is a length field (`IsStruct`);
- variants with a length field, of which the receiver may not know the type in question (`IsVariant`).

The types of the receiver are made in the same way (`Types`), and the entries of its arrays and maps are of types of which nothing can be read without an error or a byte being used (`EatingType`); otherwise `readValue` of a map or an array without a bound may go round for ever, which `StaysInBody` counts as straying. Of `Write` and `Read` nothing is assumed but that they are the overloads of `Containers` (`Unfolded`), the recursion that `Streams` closes. Of the arguments of the run `streams`, these hypotheses leave out the polymorphic struct, the `bool`, and those with numbers of fewer bits than their type.

- The argument has laws. The sender refuses it (`Refuses`) or appends a chunk of whole bytes, whatever came before (`Puts`); a receiver with the chunk ahead of it reads what is meant for it and ends behind it (`Gets`); one that has only a part of it ahead sets the error flag or, if the type is not a guarded one, may read something else (`Misses`); an error that was there before stays (`Persists`); no receiver leaves the body, whatever is in it (`Stays`).
- Values that hold no others: each overload is a lemma (`FlatSettled`, `FlatPersists`, `FlatStays`), built from numbers (`NumberPut`, `NumberRead`), raw bytes, and `StreamsProofs` for texts.
- Values that hold others: if the parts are `Sound` (these laws hold of them), so is the whole: `ArraySound`, `MapSound`, `StructSound`, `VariantSound`. The loops over the parts are followed by induction over the number of parts that are left; what is skipped behind the fields or the alternative that the receiver does not know is what the length field leaves. `ValuesSound` and `TypesStay` then go by induction over the depth of the values and of the types.
- The message: `TransferInv`. The bits written are the chunks one after the other (`Layout`); a receiver of the whole body stands between two chunks and has read what was meant up to there (`InStep`); one of a part of it is in step, or has read something wrong first where the type is not guarded (`Astray`). `TransferInductive` proves it inductive from the laws alone.
- `NothingInvented` needs one assumption more (`AllTell`): no argument may look right when it is cut off. A `Version` with minor 0, an integer equal to the invalid value of its deployment, and a struct or a variant, whose readers do not look at the error of the part before, may: of a struct of a `uint32_t` 0 and a `uint8_t` 0, two bytes are enough to be taken for it. The proof attempt found this: behind such an argument a guarded one may be read from the wrong place. So the theorem leaves out messages with structs or variants, and TLC checks those of the run.

Model-checked only. Liveness, which needs fairness: `Answered`, `Unblocked`, `EventuallyAnswered`, `SomeWaiterReturns`, `RequestsSettled`, `UnregisterReturns`. Of `MessageTransfer`: `bool` (of which the run shows that nothing but its value is lost, and `streams_bool` that its value is), integers of fewer bits than their type, polymorphic structs, variants without a length field, and `NothingInvented` of messages with structs or variants.

## 7. Not modelled

`components` in `PROJECT.json` gives the reason for each part. Without a module: configuration (input read once), attributes (method calls and events under another name), managed instances (a set updated in one callback), address translation (two maps filled before use), messages and client identifiers (wrappers), build files.

Of the modelled parts. Connection: calls without reply (no state kept), exceptions of application callbacks, the registration of services' events and of subscription handlers by stubs. Queue: the supervisor, whose effect is a log message. Proxy: the destructor (the time-out thread holds a reference to the proxy, so it never runs beside it); a listener that unsubscribes while it is being told invalidates the iterator of the loop that tells it (`Proxy.cpp:244`), undefined behaviour that is listed as a hazard only. Subscriptions: several events or groups, a connection without main loop. Stubs: managed services, attribute dispatchers, a reply after the stub is gone.
