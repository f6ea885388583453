# A TLA+ verification of the Orion Context Broker

The repository is the Orion Context Broker, an NGSI9/NGSI10 publish/subscribe
broker in C++ that keeps its data in MongoDB. This directory holds TLA+ models
of it, from the sockets to the database operations, the TLC runs that check them, and
proofs checked by TLAPS. `PROJECT.json` lists components, runs, theorems,
hazards and findings, and maps each definition to the lines it models.

Paths below are relative to `src/src/lib` unless they say otherwise.

## 1. Inventory

### 1.1 Components

| Component | State | Operations | Interacts with |
|---|---|---|---|
| Connection pool (`mongoBackend/mongoConnectionPool.cpp`) | a vector of slots (connection, free), `connectionSem`, `connectionPoolSem` | start-up, get, release | every database operation of every thread |
| Request semaphore (`common/sem.cpp`) | `reqSem`, the policy | take, give | every entry point of mongoBackend |
| Curl contexts and HTTP client (`common/sem.cpp`, `rest/httpRequestSend.cpp`) | map host -> (handle, mutex), `contexts_mutex` | get, send, release | sender threads of notifications, forwarding |
| Context subscriptions (`mongoBackend/mongo*ContextSubscription.cpp`, `mongoSubscribeContext.cpp`, `mongoUnsubscribeContext.cpp`) | the collection csubs | subscribe, update, unsubscribe | interval threads, entity updates |
| Interval threads and notifier (`ngsiNotify/`, `mongoBackend/mongoOntimeintervalOperations.cpp`) | `threadsMap`, one detached thread and its params per ONTIMEINTERVAL condition | create, notify, destroy, recover | csubs, request semaphore, sender threads |
| Entity updates (`mongoBackend/MongoCommonUpdate.cpp`, `mongoUpdateContext.cpp`, `mongoNotifyContext.cpp`) | the collection entities | append, update, delete, notify | subscriptions, registrations |
| Registrations, discovery, availability subscriptions (`mongoBackend/MongoCommonRegister.cpp`, `mongo*Availability*.cpp`) | registrations, associations, casubs | register, discover, subscribe, update, unsubscribe | notifier, forwarding |
| Queries (`mongoBackend/mongoQueryContext.cpp`, `mongoQueryTypes.cpp`, `MongoGlobal.cpp`) | none | query, discover types | entities, registrations |
| Forwarding (`serviceRoutines/postUpdateContext.cpp`, `postQueryContext.cpp`) | per request | split by provider, forward, merge | context providers, over HTTP |
| HTTP front end (`rest/rest.cpp`, `rest/RestService.cpp`) | a `ConnectionInfo` per connection | callbacks for header, payload, end | microhttpd, service routines |
| Convenience operations and API v2 (`serviceRoutines*/`, `convenience/`) | none | translate to a standard request | the standard service routines |
| Parsers, NGSI types, rendering (`jsonParse`, `xmlParse`, `parse`, `ngsi*`, `orionTypes`) | none | parse, check, render | service routines |
| Statistics, log, command line (`common/statistics.cpp`, `logMsg`, `parseArgs`) | counters, log level | increment, reset, print | all |
| Start-up (`src/src/app/contextBroker`) | - | options, `orionInit`, `mongoInit`, recovery, `restInit` | all |
| CoAP proxy (`src/src/app/proxyCoap`) | - | a program of its own | the broker, over HTTP |

### 1.2 How they interact

microhttpd gives each connection a thread (`MHD_USE_THREAD_PER_CONNECTION`).
Such a *request thread* parses the payload, and its service routine calls one
entry point of mongoBackend, which takes the request semaphore, gets a
connection from the pool for each database operation, and gives the semaphore
back. Subscriptions with an ONTIMEINTERVAL condition have a detached *interval
thread*, which takes the semaphore for each of its database operations
separately. A notification is sent by a detached *sender thread* of its own,
which competes for the curl handle of its destination. Nothing but MongoDB
survives the process; at start-up the interval threads are made again from
csubs.

### 1.3 What is hard

- **Interleavings**: a pool whose two scans are guarded by two semaphores; a
  `threadsMap` and a map of curl handles shared by all threads; interval
  threads that read, decide and write in separate critical sections.
- **Failures in the middle**: every database operation may throw after earlier
  ones took effect; `pthread_create`, `malloc` and `mongoConnect` may fail.
- **Crash and recovery**: threads and documents are changed one after the other.
- **Liveness**: every early return must give back a semaphore.
- **Stale data**: a document read with one query and written with another,
  values read under the semaphore and used after it was given back.
- **Long sequences**: metadata IDs, a list of attribute names and a location
  kept beside the attributes they describe.

Each is listed with its line under `hazards` in `PROJECT.json`, with the
properties that would catch it or the reason why none does yet.

### 1.4 What makes each component correct

- *Pool*: a connection has one user; the semaphore and the free flags agree; a
  waiter is served.
- *Curl contexts*: a handle has one user; requests to a host are serial; a call
  returns.
- *Subscriptions and interval threads*: what runs is what is stored, also after
  a crash; a cancelled subscription's threads end; counters are exact and never
  go back; throttling holds; a subscription sees its service path only.
- *Entity updates*: names and location match the attributes; an answer is true;
  a refused request changes nothing; exactly the changes are notified; an
  update writes the entity it was sent to.
- *Registrations*: a registration that was refused is not there; availability
  subscribers hear of each registration; the semaphore is given back; a
  registration keeps its link to the configuration manager.
- *Parsers and rendering*: a request means the same in both formats and in any
  order of its fields, nothing of it is lost, and what one broker writes another
  can read.
- *Forwarding and queries*: each attribute of an update is in the answer, and is
  written once if it is reported as written, with the exceptions of section 6.3; a query answers what is there,
  locally and at the providers that answer.
- *Service routines*: what is written at a URL is read at that URL; a URL is
  about what it names and about nothing else; the versions of the API agree.
- *HTTP front end*: nothing is served after an error; a routine gets the whole
  payload of its own request; a request ends; ids tell requests apart.

## 2. The modules

| Module | Models | State and actions |
|---|---|---|
| `ConnectionPool` | `mongoConnectionPool.cpp` and its callers | One step per semaphore operation and per slot tested, taken or freed. `held` is the caller's variable `connection`, `cursor` an open cursor that still points to a connection after its release, `ReleaseNothing` the release of a NULL after an invalid OID. Slots may have failed to connect (`mongoConnect`). The refinement mapping to `PoolContract` is at its end. |
| `PoolContract` | the promise of the pool | Wait, be granted a connection nobody owns, give it back. |
| `ConnectionPoolProofs` | | The proofs of section 5.1. |
| `ReqSem` | `reqSem` of `sem.cpp` | The four policies; taking, giving, and returning without giving. Extended by `Subscriptions`, `EntityUpdate` and `Registrations`. |
| `ReqSemProofs` | | The semaphore is a lock: lemmas for the three proof modules that need it (section 5.3). |
| `Subscriptions` | subscribe, update, unsubscribe, the notification of ONCHANGE subscriptions, interval threads, recovery | `csubs` outlives `Crash`; `threadsMap`, the threads (`tpc`, `params`, `cancelled`) and the request threads (`wpc`, `local`) do not. One step per database or thread operation. A subscription in `Malformed` has a reference that `parseUrl` refuses. `sent`, `path`, `removed` and the like are history variables. |
| `SubscriptionsProofs` | | The proofs of section 5.4. |
| `CurlContexts` | `get_curl_context`, `release_curl_context`, `httpRequestSend` | One step per mutex operation; the failure paths of the allocations are actions of their own. |
| `CurlContextsProofs` | | The proofs of section 5.2. |
| `EntityUpdate` | `mongoUpdateContext`, `mongoNotifyContext`, `processContextElement` | `entities` maps (type, service path) of one entity id to its document. `cer` holds the variables of one round of the loop; one step per attribute, so that an early return leaves what the code leaves. |
| `EntityUpdateProofs` | | The proofs of section 5.5. |
| `RegistryQuery` | `registrationsQuery` and the matching functions of `MongoGlobal.cpp` | Operators: which context registrations a discovery, a query or an update finds. Used by `Registrations`, `ContextData` and `Services`. |
| `Registrations` | `mongoRegisterContext`, `mongoNotifyContextAvailability`, `mongoDiscoverContextAvailability`, the availability subscriptions, `postRegisterContext` | registrations, associations, casubs, and the registrations that the configuration manager has; one step per database operation, each of which may fail. Extends `ReqSem`. |
| `RegistrationsProofs` | | The proofs of section 5.6. |
| `ParseData` | the parse engines of `xmlParse` and `jsonParse` | What a parse makes (`pd`), and how an engine looks the nodes of a document up in a parse vector. |
| `JsonParse`, `XmlParse` | the parsers of the requests | Each handler by its effect, each parse vector, and the pointers that are reset. Laid out file by file, in the order of the sources. |
| `NgsiCheck` | the `check()` methods | Which parsed requests are accepted. |
| `Documents`, `Codec` | a client | A request of every kind in both formats, edited (an odd value, a node deleted, repeated or moved), parsed by both parsers. |
| `Tags`, `Render` | `common/tag.cpp` and the `render()` methods | Messages as sequences of tokens, commas included, and a reader of them. |
| `Messages` | two brokers | `Codec` composed with `Render`: what was accepted is forwarded, or answered, and read by another broker. |
| `ContextData` | `mongoUpdateContext`, `mongoQueryContext`, `entitiesQuery`, `searchContextProviders` | Operators on a collection of entities and one of registrations. The parameter `faults` of the updates is the set of what goes wrong on the way: a query, update, insert or removal that the database fails, a search for subscriptions that fails, the location of an attribute that is refused. |
| `Forwarding` | `postUpdateContext`, `postQueryContext`, `updateForward`, `queryForward` | One step per database lookup and per forward; a request or its answer may be lost; registrations change in between; `FaultsOf` says which faults the local part of an update may meet. |
| `ForwardingProofs` | | The proofs of section 5.8. |
| `Routes` | the service vectors of `contextBroker.cpp`, the search of `restService` | The tables, and the first row that matches. |
| `Services` | `serviceRoutines/`, `serviceRoutinesV2/`, `convenience/` | One operator per routine: it answers, or fills in an update or a query of which `Perform` makes the answer. Composes `Routes`, `ContextData` and `RegistryQuery`. |
| `FrontEnd` | `main` and `rest/rest.cpp`, `restReply.cpp`, `RestService.cpp`, `statistics.cpp`, `transactionIdSet` | The broker as a process (`main`, `parent`, `pidfile`, `ready`) and its connections (`conn`), one step per callback, or per step of one where threads meet. |
| `FrontEndProofs` | | The proofs of section 5.7. |
| `MCSubscriptions`, `MCEntityUpdate`, `MCRegistrations`, `MCMessages`, `MCForwarding`, `MCServices`, `MCFrontEnd` | | Requests and other constants for TLC. |

`Subscriptions` and `EntityUpdate` meet at `addTriggeredSubscriptions` and
`processSubscriptions`: `EntityUpdate` says which attributes they are called
for, `Subscriptions` (operation `entityUpdate`) what becomes of the
subscriptions that match. Which subscription matches which entity is decided by
a query in the database, and is a nondeterministic choice.

The other modules meet the same way. `EntityUpdate` and `ContextData` describe
the same update, the first step by step under concurrency and failure, the
second as a function, with context providers; both have the failures of the
database. `Services` calls `ContextData` in place of the standard operations, one
request at a time and without failures; `FrontEnd` knows a
service routine only as something that is called; `Codec` shows what it is
called with.

Data are abstracted to what the properties tell apart. A notification is the
start of its sender thread; connections, handles and threads are names; an
attribute has a value, a type, an ID, metadata and a location kind. Two
conversions matter and are modelled by what they do: `dbDotEncode` (constant
`Encoded`, with a dotted name among the names) and the textual comparison of
names and of service paths (constants `Prefixes` and `Includes`).

## 3. The runs

| Run | Checks | Result | Distinct states |
|---|---|---|---|
| `pool` | `HeldByOne`, `ImplementsContract` (refinement), `WaiterServed` (liveness) | hold | 429 033 |
| `subs` | `ThreadsMatchDocs`, `CountMatchesSent`, `BookkeepingMonotone`, `EntityUpdatesThrottled` | hold | 1 184 312 |
| `subs_faults` | `LiveThreadsMapped`, `RequestsFinish`, `CancelledThreadsEnd` | hold | 351 623 |
| `curl` | `HandleExclusive`, `HostSerial`, `SendsFinish` (liveness) | hold | 215 101 |
| `entity` | `AttrNamesMatch`, `LocationOfAnAttribute`, `OkMeansDone`, `RefusedChangesNothing`, `NotifiedAreChanged` | hold | 179 736 |
| `entity_path` | `WritesOwnPath` | violated | |
| `registrations` | `SemGivenBack`, `RefusedRegistersNothing`, `InterestedAreNotified`, `LinkKept` | hold | 1 577 370 |
| `messages` | `SameRequest`, `NothingLost`, `OrderFree`, `UnderstoodByAnother`, `AnswersWellFormed` | hold | 16 742 |
| `forwarding` | `OkIsWritten`, `NothingForgotten`, `LocalKept`, `ValuesWereTrue`, `ProvidersAsked` | hold | 389 503 |
| `services` | `ReadYourWrite`, `OnlyTheAddressed`, `RefusedChangesNothing`, `VersionsAgree` | hold | 15 933 |
| `frontend` | `NotServedAfterError`, `PayloadOfItsRequest`, `TransactionsDiffer`, `EveryRequestEnds` (liveness) | hold | 398 733 |
| `frontend_pidfile` | `PidFileKept` | violated | |

A run is started with `tlc -workers 2 -config <file>.cfg <module>`; module and
file are in `PROJECT.json`. Each property of a passing run has a mutant there: a
plausible bug in a mapped definition that makes TLC report it.

What the runs of registrations, messages, forwarding, services and front end
show:

- `registrations`: while two requests are served and any database operation may
  fail, a refused registration is not found afterwards, each subscriber of a
  registration is notified, and an update keeps the id that the configuration
  manager gave, unless two updates of one registration overlap.
- `messages`: of every request in both formats, with one odd value, a missing, a
  repeated or a moved field: where both parsers accept, they make the same data
  (`SameRequest`), with every text of the document in it (`NothingLost`),
  whatever the order (`OrderFree`). A forwarded request is accepted by another
  broker and means the same (`UnderstoodByAnother`); every answer is legal,
  except one in JSON that says a quotation mark in its details
  (`AnswersWellFormed`). The exceptions that each property makes are the
  deviations of section 6.
- `forwarding`: two clients update and query, three providers (one with a broken
  URL; a limit of two forwards), lost requests and answers, registrations that
  come and go between two lookups. An update of the first client may meet a
  fault in the local database. `OkIsWritten` and `NothingForgotten` then except
  what section 6.3 says of such updates, and nothing else: with either exception
  removed TLC reports the property.
- `services`: sequences of requests at every URL of the convenience operations,
  of both versions and of API v2. A service routine that took the wrong
  component of its URL, or left one out, would break one of the properties.
- `frontend`: start-up with each way in which it stops, then three requests on
  two connections, stopped at any moment.

The modules state more than the runs list: a type invariant each (`TypeOK`), and
`NeverEmptyHanded`, `SemMatchesSlots`, `MapAccessExclusive`, `EntriesStay`,
`ServedByItsVerb`, `RegisteredIsDiscovered`, `ReadyBeforeServing`,
`PayloadsFreed`, `NothingCountedTwice`, and `CountMatchesSent` of
`Registrations`. They hold on the same instances: add a name to the
configuration to check it. Of these, the type invariants of the pool and of the
curl contexts, `NeverEmptyHanded`, `SemMatchesSlots`, `MapAccessExclusive` and
`EntriesStay` are proved (section 5), which says more than a run. So are, under
the conditions that make them true, `NoNullDereference` of the pool and
`WritersExclusive` of `Registrations`.

### 3.1 What the violated properties show

Each states what a document, a comment or a log message of the repository says;
`findings` in `PROJECT.json` quotes the line.

- `entity_path`: the query of an update matches the service path with a regular
  expression that is not anchored. An update for `/` may be written to the
  entity in `/a`.
- `frontend_pidfile`: `main` registers `exitFunc` before it forks, so that the
  parent also removes the PID file when it exits. If the broker has written it
  by then, a running broker has no PID file, and what watches it by that file
  (doc/manuals/admin/watchdog.md) takes it for dead.

More properties that the code does not have are stated in the modules, without a
run: see the first part of section 6.

### 3.2 Bounds, and why they are enough

- *Pool*: three threads and two slots, so that there is contention for slots, a
  waiter on `connectionSem`, and two holders at once; two operations each, so
  that a slot is used again after a release. Any slot
  may fail to connect. `ImplementsContract` speaks of the pools whose slots are
  all connected: one with a NULL slot does hand out NULL.
- *Subscriptions*: two request threads, one subscription, three interval threads
  (two of one document and one still running after its cancellation), three
  requests, one crash, two seconds. Subscribing, updating and unsubscribing once
  each is the longest life of a subscription in which all handlers meet the same
  threads; two subscriptions share only `threadsMap` and the semaphore, which
  `MapAccessExclusive` is about. `subs` has no database failures, because
  `ThreadsMatchDocs` does not hold with them (section 6); `subs_faults` has
  them, and a second subscription whose reference is malformed, with the
  properties that survive, and two
  requests, for liveness. In `subs` the references are well formed: the
  notifications of a malformed one are counted and not sent (section 6.2).
- *Curl contexts*: three senders and two hosts, so that two wait for one handle
  while a third makes another; two calls each, so that a handle is used again.
- *Entity updates*: two clients and three requests out of 40: creation, a
  change, and a third that meets what the first two left (delete one of two IDs,
  update a location, merge metadata). Attribute vectors have at most two
  attributes: one that is accepted before one that is refused. Only one service
  path, except in `entity_path`, which checks what two do. Names are equal,
  prefixes of each other, or dotted. IDs and dots are not combined (section 6).
- *Registrations*: two request threads, three requests out of those of
  `MCRegistrations`, two registrations, one availability subscription: register,
  subscribe and update once each in any order. Each kind of database operation
  may fail. Two updates of one registration do not overlap (`SharedUpdates`),
  because `LinkKept` does not hold then (section 6).
- *Messages*: one edit of each document. Two edits take hours, and would have to
  hit two handlers that share state, of which a request has few; repeating,
  deleting and moving a node already reach the pointers that a handler leaves
  behind. Texts are one forbidden, one odd and one plain value per place;
  details of a status also one with quotation marks.
- *Forwarding*: two clients, so that one sees what the other changes; two
  requests in all; entities with two attributes, so that one is local and one
  remote, or both belong to different providers; the limit is one less than the
  providers. One fault in one update: the faults of two elements or two updates
  do not meet, and the second fault of an element is not reached. Only the first
  client has it, so that the other shows what it leaves behind.
- *Services*: two entities, two registrations and two subscriptions, with three
  types (one is absent) and an attribute with and without ID: enough for a
  request to hit the wrong one. Requests are unbounded in number.
- *Front end*: two connections, so that threads meet; three requests, so that
  one connection has a request after another; buffers of 2 and 3 bytes, with
  bodies of 2, 3 and 4; a running number that overflows at 2.
- Deadlock is checked in the pool run. In the others the clients have a bounded
  number of requests and the system may stop.
- Symmetry is used for threads in runs without liveness.

### 3.3 Fairness

- *Pool* (`WaiterServed`): weak fairness of each thread's steps once it has
  started an operation: the scheduler runs every thread, and the driver's
  timeout ends a wait for the database. No thread is obliged to start one.
  Waiters of a POSIX semaphore have no order, so nothing stronger is assumed; a
  waiter is served because each thread has a bounded number of operations.
- *Subscriptions*: weak fairness of request threads and of interval threads.
  Clients need not send, the clock need not advance, the process may or may not
  crash and be started again.
- *Curl contexts* (`SendsFinish`): strong fairness of the steps that take a
  mutex (a mutex that is free again and again is obtained), weak fairness of
  `curl_easy_perform` only when there is a timeout. With `-httpTimeout 0` one
  silent host blocks its senders for ever, and the property does not hold.

- *Front end* (`EveryRequestEnds`): weak fairness of the thread of each
  connection, which includes that a client sends the rest of a body it has begun
  to send. Nothing is assumed of start-up or of clients that have not begun. A
  body in chunks is excepted.
- *Forwarding*, *registrations*, *messages* and *services* have safety
  properties only. That a forward returns is `SendsFinish` of the curl contexts.

## 4. Plan

1. *Done*: the modules of section 2 and the proofs of section 5.
2. Proofs that are left: `OkIsWritten` and `ProvidersAsked` of `Forwarding`
   (section 5.9 says what they need); `ReadyBeforeServing`, `PayloadsFreed` and
   `NothingCountedTwice` of `FrontEnd` and `CountMatchesSent` of
   `Registrations`, which no run lists; the type invariants of these modules. No
   module has a RECURSIVE operator.
3. Models that are left: the waiting-time statistics, dates, locations of
   queries, and the CoAP proxy (section 6).

## 5. What is proved

Run `tlapm <module>.tla`. The theorems hold for every value of the constants
that satisfies the named assumptions of the modules, which TLC evaluates in the
runs: sizes are numbers, a value that stands for "none" is not one of the others,
and the requests are well formed (`PoolAssumption`, `CurlAssumption`,
`NobodyAssumption`, `PolicyAssumption`, `SubscriptionsAssumption`,
`EntityUpdateAssumption`, `RegistrationsAssumption`, `SizeAssumption`,
`LimitAssumption`, `NodesAssumption`, `StoresAssumption`, and
`RequestsAssumption` of `EntityUpdate`, `FrontEnd`, `Registrations` and
`Forwarding`). The vectors of a request are sequences because the parsers push
to `std::vector`s; a registration that is stored names its provider because
`ContextRegistration::check` calls `ProvidingApplication::check`, which refuses
an empty one. A theorem that needs more, because the code does not have the
property otherwise, states it as its ASSUME; the sections below say what goes
wrong without it.

| Theorem | States | Needs |
|---|---|---|
| `PoolTyped`, `PoolHeldByOne`, `PoolSemMatchesSlots`, `PoolNeverEmptyHanded`, `PoolNoNullDereference`, `PoolImplementsContract` | the pool hands each connection to one thread, a counted wait finds a free slot, and the pool implements `PoolContract` | - |
| `CurlTyped`, `CurlHandleExclusive`, `CurlHostSerial`, `CurlEntriesStay` | a handle has one user, requests to a host are serial | - |
| `SubsLiveThreadsMapped` | a thread that notifies can be found and cancelled | - |
| `SubsMapAccessExclusive`, `SubsBookkeepingMonotone`, `SubsEntityUpdatesThrottled` | one request in `threadsMap`; counters never go back; throttling of ONCHANGE | policy "all" or "write" |
| `SubsThreadsMatchDocs` | what runs is what is stored, also after a crash | and no failure of the database or of `pthread_create` |
| `SubsCountMatchesSent` | `count` is exact, for every reference that can be parsed | `CountAssumptions` |
| `EntityRefusedChangesNothing` | a refused request changes nothing | policy "all" or "write" |
| `EntityLocationOfAnAttribute` | the location is that of an attribute | and `Includes = {}` |
| `EntityAttrNamesMatch` | `attrNames` is the names of the attributes | and `PlainIds` |
| `EntityNotifiedAreChanged` | exactly the changes are notified | policy "all" or "write", `Includes = {}`, `UniqueMetadata` |
| `EntityOkMeansDone` | Ok means the entity is as wanted | and `TypedMetadata` |
| `RegRefusedRegistersNothing` | a refused registration is not there | - |
| `RegSemGivenBack`, `RegWritersExclusive` | the semaphore is given back, and excludes writers | `ScopedTake` |
| `RegLinkKept` | a registration keeps its link | no overlapping updates, no failure in between |
| `RegInterestedAreNotified` | every subscriber of a registration is notified of it | policy "all" or "write", `ScopedTake` |
| `FrontEndNotServedAfterError`, `FrontEndPayloadOfItsRequest`, `FrontEndTransactionsDiffer` | no service after an error; the right payload; ids differ | - |
| `ForwardingLocalKept`, `ForwardingValuesWereTrue` | what a query finds here is in its answer; every value of the answer was true while it was served | - |
| `ForwardingNothingForgotten` | the answer to an UPDATE or APPEND leaves out none of its attributes, except the ones behind a fault or beyond the limit | `PlainUpdates` |

### 5.1 `ConnectionPoolProofs`

For any number of threads, any pool size, connected or not.

`HeldByOne` is not inductive: that a slot about to be taken is not held must
follow from something. The invariant `IndInv` adds: `connectionPoolSem` is a
lock (`PoolLock`: one thread at most is between its wait and its post, and then
it is 0); a slot's connection is its own or NULL (`SlotConnection`); the slot a
scan stopped at is still free, or still the one of the connection given back
(`ScanResult`, which needs the lock, as test and write are separate steps); and
a held connection is in a slot that is not free (`HeldIsBusy`). One step per
action; `GetTake` and `ReleaseFree` carry the argument. That connections are
distinct is where NULL must be excepted: all unconnected slots compare equal.

`CountInv` is about what the two semaphores promise each other. The value of
`connectionSem` plus the threads whose slot is still or already free (between
its wait and the take, and between the free and its post) is the number of free
slots (`SemMatchesSlots`), an equation between cardinalities
that every wait, take, free and post must keep; the slots that a scan has passed
are busy (`ScannedAreBusy`), and a release has not passed the slot of what it
gives back (`ReleaseAhead`). From these, `CountsLeaveSlot`: a thread that passed
`connectionSem` still has a free slot in front of it, so that the scan does not
come to the end of the vector with nothing in hand (`NeverEmptyHanded`,
`GotOne`), and no NULL is dereferenced (`NoNullDereference`). With a slot that failed to connect this is not so: the properties are
about pools whose slots are all connected, and about nothing else of them.

`PoolImplementsContract`: the owner of a connection in the contract is the
thread whose variable holds it, chosen, which is why `HeldByOne` is used
(`OwnerOfHeld`). Then `GetCall` is the contract's wait, `GetTake` its grant,
`ReleaseFree` its release, and every other step a stutter (`NextContract`).

### 5.2 `CurlContextsProofs`

`CurlTyped`, `CurlHandleExclusive`, `CurlHostSerial` and `CurlEntriesStay` (an
action property), for any number of senders, hosts and handles, with failing
allocations.

`IndInv` says: `contexts_mutex` is a lock at the labels that touch the map
(`MapLock`); past the lock of its handle a sender owns its mutex
(`HandleLock`); the handle a sender uses is the one whose mutex it has, or one
that nobody else can reach because its mutex could not be made (`OwnHandle`);
and the handle is the one of its host in the map, while a sender without a mutex
keeps `contexts_mutex` and finds no entry for its host (`HandleOfHost`). The last
is why requests to one host stay serial even on the failure path: the defect
that leaves the map locked also keeps everybody else out.

### 5.3 `ReqSemProofs`

`SemLock`: `reqSem` is 0 or 1, it is 0 exactly while a thread has it, and one
thread has it at most. `SemExclusive` is the part of it that survives a give
without a take or a return without a give. Each of take and give keeps them, and
changes nothing for the other threads, under all four policies. The modules
below add which labels are inside.

### 5.4 `SubscriptionsProofs`

- `ThreadsInv` gives `LiveThreadsMapped`, with no condition: a thread is entered
  in the map in the step that makes it, and leaves it in the step that cancels
  it.
- `DocsInv`, for the properties of the documents, is `Shape`, `Fresh` (the id of
  a subscription that is being made is nobody else's) and `Books` (what an
  update, an unsubscribe or an entity update read is still in the document when
  it writes, several steps later). `Books` holds because all of them are in the
  section of the semaphore, so the policy must make writers wait. Interval
  threads write too, without staying in the section: that what they write only
  grows is what `BookkeepingMonotone` takes from them.
- `CountsInv`, for `ThreadsMatchDocs`: for each subscription the threads in
  `threadsMap` are as many as the ONTIMEINTERVAL conditions of its document, and
  midway through an update, as many as the part of the vector that is done. The
  process may die between any two steps; recovery counts the conditions anew. A
  write that fails after threads were made leaves the two apart (section 6),
  hence the assumption on failures.
- `CountMatchesSent` is double-entry bookkeeping (`Balanced`): `count`, plus one
  if a request has sent and not yet written (`Owes`), is `sent` plus the interval
  threads that have written and not yet sent (`Pending`). `CountAssumptions`
  are: the policy "all", as under "write" an interval thread may read while an
  update writes; no failures; and one ONCHANGE condition at most in a request,
  because the code counts one initial notification however many go out.
  The subscriptions in `Malformed` are not among those the property speaks of:
  their count goes up and nothing is sent.

### 5.5 `EntityUpdateProofs`

- `Base`: one thread is in the section; what it read is what is stored
  (`cer.read` is the document at `cer.key` until the write), and its cursor has
  the documents as they are. `RefusedChangesNothing` follows. Under "read" and
  "none" another update may write in between.
- `DocsInv`: of each document, the location is that of one of its attributes and
  `attrNames` is their names (`DocInv`); of the round, what is to be set, unset
  and pushed makes such a document again (`RoundInv`). The first needs
  `Includes = {}`, no service path inside another: the query of an update is not
  anchored, and its result may be a document of another path, for which the
  round was not worked out. The second needs `PlainIds`, no name with dots and an
  ID, as `howManyAttrs` compares plain with encoded names.
- `AnswersInv`: what is looked for in the subscriptions is the names of what is
  to be written, and what is to be written differs from what was read
  (`TriggerInv`); an attribute that is not to be done any more is as wanted in
  the result, or was reported missing (`DoneOne`); at the end, the same of the
  document that was stored (`Covers`, `AnswerTrue`). `UniqueMetadata`: two
  metadata of one type in an attribute would be compared with each other in any
  order. `TypedMetadata`: metadata without type are not compared (section 6.3),
  so an answer may say Ok for a change of one that was not written.

### 5.6 `RegistrationsProofs`

- `RefusedInv` follows the code of the answer through the handler: before the
  upsert nothing has been written or notified, after it nothing fails.
- `SemInv` adds the labels of the section to `SemLock`. `ScopedTake` excludes the
  combination of section 6.2: a discovery with a scope under a policy that lets
  it past the semaphore, which it gives nevertheless.
- `LinkKept`: one thread at a time works on a registration (`OneWriter`,
  `WorksOn`); a registration that the configuration manager knows has its
  `fwdRegId`, or the request that replaced the document still has it and is on
  its way to write it back (`LinkInv`). It
  needs that two updates of one registration do not overlap, and that the
  operations of the link do not fail: the rest of section 6.3.

- `InterestedAreNotified` (`InterestInv`): up to the write, the map `triggered`
  has every live subscription that asks for one of the context registrations
  `addTriggeredSubscriptions` has been called with (`Gathers`); after it, every
  such subscription has been notified or is still to be (`Tells`). The query in
  the database and the filter of `processAvailabilitySubscription` must agree,
  which are the lemmas on `RegistryQuery`: a subscription that the first finds
  for a registration gets an answer from the second that is not empty. Between
  the two no other request may write a subscription or the registration, which
  is where the policy and `SemInv` come in.

### 5.7 `FrontEndProofs`

- `ConnInv`, of each connection: how far a request has come tells which checks
  it has passed and where its payload is. `static_buffer` belongs to one thread,
  so that a step of another connection cannot change it (`Others`); a process
  that exits takes all with it.
- `TransInv`: no request comes before start-up is complete (`NotYetLive`,
  `LiveLast`), so nothing is reset under a request; `transSem` is a lock
  (`TransLock`); and the ids given so far are in the past, and different
  (`IdsInv`). The number wraps at `MaxInt`;
  lemma `SameNumber` says that between two equal running numbers lie `MaxInt`
  requests, which is the exception the property makes.

### 5.8 `ForwardingProofs`

Here the steps compute with vectors: one step of `Forwarding` may go through a
whole request, the registrations that match it and the entities of a database.
Each loop is a `FoldLeft`, and what it keeps is shown by induction over the
rounds. The library's induction theorems take an operator, which the provers
cannot instantiate; its theorem `WFMin`, that a set of numbers has a least
element, takes a set. Lemma `LoopInduction` draws from it that a set of numbers
that contains 0 and the successor of each of its members, up to n, contains n;
and `Loop` names the bodies of the loops, so that one lemma says of all of them
that the fold is a function of the number of rounds. A lemma about a loop then
says which rounds are good, and that the next one is.

- `ForwardingInv`: each database is a collection of entities, and for each
  request: while registrations are looked up, what was found at first is in the
  answer so far (`LookupOK`); while providers are asked, it is in one of the
  answers that wait to be put together (`ForwardOK`); at the end it is in the
  answer (`DoneOK`). All along every value that is in one of them was a value of
  that attribute of that entity, at a node, since the request came (`AllKnown`,
  against the history variable `seen`). The first part gives `LocalKept`, the
  second `ValuesWereTrue`. What it takes are lemmas on each routine on the way:
  `entitiesQuery` finds only what is there, `addContextProviders` changes no
  attribute that has a value, the empty elements that are pruned have none, and
  the merge of the answers (`QueryContextResponseVector::populate`) loses none
  and puts none to another entity.
- `ReportsInv`: every attribute of an update is in the answer so far, or in a
  request to a provider that has not been answered, or not for the attributes
  (`AllReported`, `Open`). `NothingForgotten` is what is left of it when no
  request is open but those the property excepts. The lemmas follow an attribute
  through `mongoUpdateContext`, the separation of found and not found
  attributes, the split by provider, a provider's answer and `merge`.
  `PlainUpdates` are the updates that `mongoUpdateContext` goes through to the
  end when nothing fails. Without it, an element with a pattern is answered as
  not implemented and without its attributes; one with an empty value is refused
  with its first such attribute only; and an APPEND that mixes attributes with
  and without ID stops in the middle. In order that the second request of an
  APPEND does not meet an ID either, `ReportsInv` keeps the local database
  without IDs. DELETE is not among the operations the property speaks of: it
  stops at the first attribute that is not there.

  The faults are arbitrary: the theorem holds for every `FaultsOf`. An element
  whose query fails, and the attributes behind one whose location is refused or
  whose subscriptions cannot be looked up, are not in the answer (`Skipped`, an
  exception of the property). The proof shows that nothing else goes missing: a
  failed update or insert still answers with all its attributes, the attribute
  that stops the loop is itself in the answer (`Entered`), and an attribute that
  a fault does not hide is `Wanted` in each later step (`SpeaksOfAll`, `Tells`).

### 5.9 Only model-checked

- Liveness (`WaiterServed`, `RequestsFinish`, `CancelledThreadsEnd`,
  `SendsFinish`, `EveryRequestEnds`) is out of the prover's reach.
- What the parsers, the `check` and the `render` methods make of every document
  (`SameRequest`, `NothingLost`, `OrderFree`, `UnderstoodByAnother`,
  `AnswersWellFormed`): documents are trees, and a proof would be an induction
  over trees of unbounded depth, through a table of handlers for each format.
- What the service routines make of every URL (`ReadYourWrite`,
  `OnlyTheAddressed`, `VersionsAgree` and `RefusedChangesNothing` of
  `Services`): the properties compare the whole effect of two routines.
- `OkIsWritten`: that an attribute is written in one place only is not true for
  all constants: an update that names an attribute twice, with two values,
  writes both. The run has the requests for which it holds.
- `ProvidersAsked`: it speaks of the provider that is found among all
  registrations by four lookups, and needs a history of the whole request.
- The invariants of section 4 that no run lists.

## 6. What the models leave out, and known deviations

### 6.1 Not modelled

- *Log and command line* (`logMsg`, `parseArgs`): formatting and output of lines
  and a table-driven parser of options, shared with other programs. The broker
  reads nothing back from them; `FrontEnd` has the outcome of the parser.
- *CoAP proxy*: a program of its own, without state, that translates one message
  at a time.
- *Characters*: regular expressions, `parse8601`, the syntax of URLs, service
  paths and tenants, and the encoding of texts are constants or flags; what the
  code does with their outcome is modelled.
- *Locations*: the geographic part of queries is made by the database. In
  `EntityUpdate` an attribute has a kind of location and the rules are modelled;
  in `ContextData` that they refuse an attribute is a fault.
- *Failures that are left out*: `MHD_create_response_from_data` that returns NULL
  (`restReply.cpp:75`: the request is never answered); a failing lookup of
  registrations in an update or query, which finds none; failures of the
  database of a context provider, whose answer may be lost instead; failures
  under the service routines of `Services`.
- *Waiting times and dates*: statistics of semaphores and `modDate`.
- The old socket client of `httpRequestSend.cpp`, which is not compiled.

### 6.2 Properties the code does not have

Each is stated in its module and can be checked with the constants given.

- `ExchangeExclusive` (`ConnectionPool`, `LargeResults` TRUE): `entitiesQuery`
  and four other functions give the connection back before they iterate the
  cursor (`MongoGlobal.cpp:1182`). The second batch of a large result is fetched
  over a connection that another thread has been handed.
- `ThrottlingRespected` (`Subscriptions`): an interval thread decides on a
  `lastNotification` that it read two critical sections before it notifies
  (`onTimeIntervalThread.cpp:72`).
- `RequestsFinish` (`Subscriptions`, with an unsubscribe request with an empty
  id): `mongoUnsubscribeContext.cpp:55` returns without giving the semaphore
  back, and no later request is answered.
- `NoDanglingUse` (`Subscriptions`): `destroyOntimeIntervalThreads` deletes the
  params of a thread that cannot be cancelled at that moment, and joins a
  detached thread, which does not wait (`Notifier.cpp:272`).
- `CountIsSent` (`Subscriptions`, `Malformed` = `SubIds`): nothing looks at the
  reference of a subscription until a notification is sent.
  `sendNotifyContextRequest` then returns without sending and without an error
  (`Notifier.cpp:105`), and `count`, "the number of notifications sent" in
  doc/manuals/admin/database_model.md:237, goes up all the same.
- `OnlyItsServicePath` (`Subscriptions`): an update of a subscription rewrites
  its document without `servicePath` (`mongoUpdateContextSubscription.cpp:127`).
- `WritersExclusive` (`Registrations`, `Policy` "write"): a discovery with an
  association scope gives back a semaphore it did not take
  (`mongoDiscoverContextAvailability.cpp:435`).

### 6.3 Deviations the properties are stated around

Subscriptions, entity updates and connections:

- A throttling of one second is never enforced: `MongoCommonUpdate.cpp:1030`
  compares with 1 where a missing field is -1.
- Two ONCHANGE conditions in one subscribe request send two initial
  notifications and count one (`mongoSubscribeContext.cpp:132`).
- A notification to a reference that `parseUrl` refuses is counted and not sent;
  the same goes for notifications of availability (`Notifier.cpp:175`), of which
  `Registrations` calls sent what is handed to the notifier.
- When a write to csubs fails after interval threads were started or destroyed,
  threads and document disagree until the next restart.
- Under the policy "none", request threads use `threadsMap` without any lock
  (`Notifier.cpp:238`).
- A notification may still be sent after its subscription was removed: the
  interval thread is past its last check.
- After a failing `malloc` or `pthread_mutex_init`, `get_curl_context` returns
  with `contexts_mutex` locked (`sem.cpp:323`); `SendsFinish` excepts this.
- A change of untyped metadata alone is not notified and not written: metadata
  is stored with type "" at creation and without type by an update, and the two
  do not compare equal (`mergeAttrInfo`). The model has both forms
  (`MergedMetadata`); the requests use typed metadata.
- One attribute with and one without ID can enter one entity through a single
  APPEND, as `legalIdUsage` looks at what is stored. Its textual comparison also
  refuses an ID for an attribute whose name begins the name of another one.
- `howManyAttrs` compares the plain name with the encoded one: deleting one of
  two IDs of a dotted name takes the name out of `attrNames`.
- An APPEND of a location attribute without the location metadata changes the
  value and leaves the coordinates. An UPDATE with the value that is stored
  already writes nothing, and leaves them too: `OkMeansDone` speaks of the
  location only where the request changed the document.
- An entity is created but the request answered with an error when
  `addTriggeredSubscriptions` fails afterwards.
- With two brokers on one database, or under the policies "read" and "none",
  `attrNames` may lose its agreement with the attributes, as the comment at
  `MongoCommonUpdate.cpp:1437` says.

Registrations:

- Two updates of one registration that overlap may lose the id that the
  configuration manager gave; a registration that was refused is still passed on
  to it, and its answers in JSON are never understood.
- Associations that were inserted before a failure stay, and their names are
  taken: a repetition of the request is refused (`MongoCommonRegister.cpp:524`).
- A notification of availability names all entities of the registration
  (comment at `MongoGlobal.cpp:2155`). Untyped association entities and untyped
  availability subscriptions never match; a pattern subscription ignores its
  attributes; the spelling "1" of isPattern does not trigger one.
- `registrationsQuery` does not test the cursor for NULL.

Parsers and messages (the exceptions of `SameRequest`, `NothingLost`,
`OrderFree` and `UnderstoodByAnother`):

- The two formats do not accept the same documents: a wrong isPattern passes in
  JSON registrations and availability subscriptions; a second entityIdList and a
  missing one in a registration are refused in XML only; forbidden characters in
  unnamed items of JSON vectors pass; an empty attributeExpression is refused in
  JSON only.
- The error strings of JSON handlers are discarded; subscribe and unsubscribe
  requests ignore errors noted while parsing; a subscription without reference,
  and a circle with `inverted` and no centre, are accepted.
- A scope value before its scope type is not recognised as a location in JSON;
  an update of a subscription compares FIWARE_LOCATION twice; the restriction of
  an update of an availability subscription is never checked.
- Compound values in answers are read in JSON and refused in XML, so that a
  query forwarded in XML fails for a compound attribute. `attributeFormat=object`
  leaks into forwarded JSON updates, which the provider refuses. Associations
  are not readable in JSON registrations. Empty compound items lose their type.
- `StatusCode::render` puts a backslash before each quotation mark of the details
  (`StatusCode.cpp:93`), and `valueTag` then makes `\&quot;` of the two, which is
  no escape sequence of JSON: an answer with the text of a database exception may
  be illegal. `AnswersWellFormed` excepts it, in JSON. Backslashes and control
  characters in texts, which no render method escapes, are not among the texts
  of the run.
- An XML contextValue whose attribute type is not "vector" leaves
  `compoundValueRoot` NULL (`xmlParse.cpp:190`), which `compoundValueEnd` then
  dereferences (`compoundValue.cpp:145`). The model notes it (`dead`); no answer
  is expected of such a request.
- Some render methods would write illegal JSON in cases that their callers do
  not meet: `ContextRegistrationVector` closes its array with a brace when no
  comma follows, `ContextAttributeResponseVector` and `NotifyCondition` put no
  commas between their items. `Answers` and `Sayable` (`Messages`) range over
  what the broker does say.

Forwarding and queries:

- One forward that fails makes the whole answer an error although the local part
  was written. Attributes of providers beyond `cprForwardLimit` are missing from
  the answer without notice. Only one provider is asked for an attribute.
- When an update has to be forwarded in part, what the local half found is
  answered with 200 (`postUpdateContext.cpp:342` and 591) whatever became of it:
  after a refused location, a failed search for subscriptions or a failed write
  nothing of the element was written. `OkIsWritten` excepts these elements
  (`Whitewashed`).
- Attributes behind one at which the loop over an element returned
  (`MongoCommonUpdate.cpp:1300`, 1384, 1431), and all attributes of an element
  whose query failed (1916), are missing from the answer; when something else is
  forwarded the element, with its error, is missing as well. `NothingForgotten`
  excepts them (`Skipped`).
- A compound value is not forwarded: `postUpdateContext.cpp:538` copies the plain
  value and the type, and the provider gets an empty value.
- A DELETE whose attribute a provider has is forwarded as UPDATE
  (`postUpdateContext.cpp:603`), and what was found before it is answered as done
  though the entity was not written.
- `attributeLookup` needs the type of the request and ignores the ID: an untyped
  update of a typed entity is forwarded without its value; attributes with the
  same name are all forwarded with the first value.
- A query of a whole entity is narrowed to one attribute when its provider also
  has a registration of an attribute. A pattern query that finds something
  locally for one entity asks no provider for the others. All forwards of a
  query use the format that most providers have.

Service routines:

- `GET .../type/T/id/E` takes the id for a regular expression that is not
  anchored (`QueryContextRequest.cpp:177`); that of a typed value instance looks
  for the type of the parameter (`getAttributeValueInstanceWithTypeAndId.cpp:110`).
- Only the first of several elements is reported, although several are possible
  (`UpdateContextElementResponse.cpp:131` says only one is); an error without
  elements becomes 404 in PUT and POST of an entity.
- `exist=entity::type` is ignored by updates and by `GET /v1/contextTypes`, and
  by version 1 of subscriptions to availability; the log requests of version 1
  are never found; "V1" in capitals is routed but taken for version 0.
- The header Allow leaves out PUT and POST for some paths. An entity type named
  "attributes" is ambiguous in typed URLs. `postNotifyContext` always answers
  200. `mongoEntityTypes` drops names when a null comes first
  (`mongoQueryTypes.cpp:182`). A path of more than ten components is read past
  the array.

Front end:

- A broker that is started by init does not fork (`contextBroker.cpp:1050`), and
  keeps its PID file.
- A bad service path and a bad tenant are answered with HTTP 200, and a payload
  error is answered twice; the library drops the second response.
- A body in chunks has no Content-Length and is never acknowledged: its client
  waits until it gives up.
- `transactionIdSet` adds a microsecond where its comment says a millisecond
  (`common/globals.cpp:63` and 78); the id shows milliseconds, and repeats after
  an overflow.
- The interval threads of the database start before the time limit, libcurl and
  Rush are set up: the first notifications may bypass Rush.
- Increments and resets of the statistics may be lost.
