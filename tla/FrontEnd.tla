------------------------------ MODULE FrontEnd ------------------------------
(***************************************************************************)
(* The broker as a process: main of app/contextBroker/contextBroker.cpp,   *)
(* which starts the parts one after the other, and the HTTP front end      *)
(* (lib/rest/rest.cpp, RestService.cpp, restReply.cpp), whose callbacks    *)
(* the HTTP library calls on one thread per connection. The library and    *)
(* the clients are external: the library hands a body over in pieces that  *)
(* grow until they are acknowledged, sends the first response that is      *)
(* queued, and after an early response makes no more calls.                *)
(*                                                                         *)
(* A request is [verb, log, url, path, type, accept, params, v2, length,   *)
(* size, body, parses, tenant, treat]: url, path, params and tenant say     *)
(* whether the URL, Fiware-Servicepath, the parameters and the tenant are  *)
(* accepted, and parses whether the body is; type is                       *)
(* the Content-Type and accept the formats of Accept; length is the        *)
(* Content-Length (0 if there is none, as in a body sent in chunks), size  *)
(* and body are the bytes that are sent and what they say; treat is the    *)
(* service routine.                                                        *)
(***************************************************************************)
EXTENDS Integers, Sequences, FiniteSets

CONSTANTS
  Connections,          \* connections, each with the thread of the library
  OptionSets,           \* command lines, and whether init started the process
  Requests,             \* requests of the clients
  MaxRequests,          \* bound: requests of all connections
  MaxInt,               \* the largest running number of a transaction
  STATIC_BUFFER_SIZE,   \* bytes for payloads that need no memory of their own
  PAYLOAD_MAX_SIZE,     \* bytes of the largest payload
  acceptTextXml         \* text/xml is accepted (iotAgent only)

ASSUME SizeAssumption ==
  /\ STATIC_BUFFER_SIZE \in Nat /\ PAYLOAD_MAX_SIZE \in Nat /\ MaxInt \in Nat \ {0}
  /\ 0 < STATIC_BUFFER_SIZE /\ STATIC_BUFFER_SIZE < PAYLOAD_MAX_SIZE

\* The library reads as many bytes of a body as Content-Length says.
ASSUME RequestsAssumption ==
  \A r \in Requests : /\ r.size \in Nat /\ r.length \in {0, r.size}
                      /\ r.size = 0 => r.body = "none"

VARIABLES
  options,      \* the command line
  main,         \* where the process that becomes the broker is
  parent,       \* the process that forked it: "none", "exiting" or "gone"
  pidfile,      \* the PID file exists
  ready,        \* the parts that are initialized
  conn,         \* the connections, see NoConnection
  static_buffer,\* the buffer of each thread
  heap,         \* payloads in memory of their own: <<connection, number>>
  transSem, transaction, logStartTime,  \* of transactionIdSet
  noOf          \* the counters of the statistics

vars == <<options, main, parent, pidfile, ready, conn, static_buffer, heap, transSem, transaction,
          logStartTime, noOf>>

process == <<options, main, parent, pidfile, ready>>
transactions == <<transSem, transaction, logStartTime>>
network == <<conn, static_buffer, heap, noOf>>

-----------------------------------------------------------------------------
(* Start-up and end                                                         *)

\* The order of main.
Order == <<"paParse", "daemonize", "pidFile", "orionInit", "mongoInit", "contextBrokerInit",
           "httpRequestInit", "curl_global_init", "rushParse", "restInit", "restStart",
           "completed">>

NoRequest == [verb |-> "none", length |-> 0, size |-> 0, body |-> "none"]
NoPayload == [place |-> "none", body |-> "none"]
NoResponse == [status |-> "none", served |-> FALSE]

\* A connection: where its thread is, how many requests it has had, the request
\* with the bytes of its body that have arrived, the ConnectionInfo (payload,
\* answer, transaction id), the response that was queued, and what a counter
\* had when it was read; nth counts the ids, for the properties.
NoConnection ==
  [pc |-> "closed", number |-> 0, req |-> NoRequest, arrived |-> 0, payload |-> NoPayload,
   answer |-> "none", id |-> <<0, 0>>, nth |-> 0, response |-> NoResponse, count |-> 0]

Memory == [conn |-> [c \in Connections |-> NoConnection],
           static_buffer |-> [c \in Connections |-> "none"],
           noOf |-> [k \in {r.treat : r \in Requests} |-> -1]]

\* exit() in the broker: exitFunc removes the PID file; the memory is gone.
Exit == /\ main' = "exited"
        /\ pidfile' = FALSE
        /\ ready' = {}
        /\ conn' = Memory.conn /\ static_buffer' = Memory.static_buffer /\ heap' = {}
        /\ transSem' = 0 /\ transaction' = 0 /\ logStartTime' = 0
        /\ noOf' = Memory.noOf

\* One step of main, after which a part is initialized.
Step(step, part) ==
  /\ main = step
  /\ main' = Order[1 + CHOOSE i \in DOMAIN Order : Order[i] = step]
  /\ ready' = ready \cup {part}

\* The checks on the command line.
paParse ==
  /\ IF options.usable /\ ~(options.ipv4 /\ options.ipv6) /\ (options.https => options.keys)
       THEN Step("paParse", "options") /\ UNCHANGED <<pidfile, transactions, network>>
       ELSE main = "paParse" /\ Exit
  /\ UNCHANGED <<options, parent>>

\* Not in the foreground, and no child of init already: the process forks and
\* its parent exits, in which exitFunc is registered as in the broker. The
\* fork, or what follows it, may fail.
Forks == ~options.fg /\ ~options.daemon

daemonize ==
  /\ \/ Step("daemonize", "session") /\ UNCHANGED <<pidfile, transactions, network>>
     \/ main = "daemonize" /\ Forks /\ Exit
  /\ \/ Forks /\ parent' = "exiting"
     \/ UNCHANGED parent /\ (Forks => main' = "exited")
  /\ UNCHANGED options

\* exitFunc in the parent.
exitFunc ==
  /\ parent = "exiting"
  /\ parent' = "gone"
  /\ pidfile' = FALSE
  /\ UNCHANGED <<options, main, ready>> /\ UNCHANGED <<transactions, network>>

\* An error is logged, no more.
pidFile ==
  /\ \/ Step("pidFile", "pid") /\ pidfile' = TRUE
     \/ Step("pidFile", "no pid") /\ UNCHANGED pidfile
  /\ UNCHANGED <<options, parent>> /\ UNCHANGED <<transactions, network>>

orionInit ==
  /\ Step("orionInit", "semaphores")
  /\ transSem' = 1
  /\ UNCHANGED <<options, parent, pidfile, transaction, logStartTime>>
  /\ UNCHANGED network

mongoInit ==
  /\ \/ Step("mongoInit", "mongo") /\ UNCHANGED <<pidfile, transactions, network>>
     \/ main = "mongoInit" /\ Exit
  /\ UNCHANGED <<options, parent>>

\* The notifier and the threads of the subscriptions in the database.
contextBrokerInit ==
  /\ Step("contextBrokerInit", "notifier")
  /\ UNCHANGED <<options, parent, pidfile>> /\ UNCHANGED <<transactions, network>>

\* The time limit of what the broker sends, and libcurl.
httpRequestInit ==
  /\ Step("httpRequestInit", "timeout")
  /\ UNCHANGED <<options, parent, pidfile>> /\ UNCHANGED <<transactions, network>>
curl_global_init ==
  /\ Step("curl_global_init", "curl")
  /\ UNCHANGED <<options, parent, pidfile>> /\ UNCHANGED <<transactions, network>>

rushParse ==
  /\ IF options.rush = "bad" THEN main = "rushParse" /\ Exit
     ELSE Step("rushParse", "relayer") /\ UNCHANGED <<pidfile, transactions, network>>
  /\ UNCHANGED <<options, parent>>

\* loadFile of the key and the certificate, then the globals of the library
\* rest, with rushHost and rushPort.
restInit ==
  /\ IF options.https /\ ~options.readable THEN main = "restInit" /\ Exit
     ELSE Step("restInit", "rest") /\ UNCHANGED <<pidfile, transactions, network>>
  /\ UNCHANGED <<options, parent>>

\* A daemon of the library for each version of IP that is wanted; one that
\* starts is enough.
restStart ==
  LET wanted == IF options.ipv4 THEN {"ipv4"}
                ELSE IF options.ipv6 THEN {"ipv6"} ELSE {"ipv4", "ipv6"}
  IN  /\ \E started \in SUBSET wanted :
           IF started = {} THEN main = "restStart" /\ Exit
           ELSE Step("restStart", "listening") /\ UNCHANGED <<pidfile, transactions, network>>
      /\ UNCHANGED <<options, parent>>

\* SIGINT and SIGTERM.
sigHandler ==
  /\ main # "exited"
  /\ Exit
  /\ UNCHANGED <<options, parent>>

-----------------------------------------------------------------------------
(* The headers of a request                                                 *)

Live == "listening" \in ready
At(c, pc) == Live /\ conn[c].pc = pc

\* The library keeps the first response; the others are dropped.
MHD_queue_response(r, status, served) ==
  IF r = NoResponse THEN [status |-> status, served |-> served] ELSE r
restReply(ci, status) == [ci EXCEPT !.response = MHD_queue_response(@, status, FALSE)]

\* The status code of an answer, or "Ok".
contentTypeCheck(r) ==
  CASE r.length = 0 -> "Ok"
    [] r.length # 0 /\ acceptTextXml /\ r.type = "text/xml" -> "Ok"
    [] r.length # 0 /\ ~(acceptTextXml /\ r.type = "text/xml") /\
       (r.type \notin {"application/xml", "application/json"} \/
        (r.v2 /\ r.type # "application/json")) -> "UnsupportedMediaType"
    [] OTHER -> "Ok"

wantedOutputSupported(r) ==
  CASE r.accept = {} -> "NOFORMAT"
    [] Cardinality(r.accept) = 1 -> CHOOSE f \in r.accept : TRUE
    [] OTHER -> IF r.v2 THEN "JSON" ELSE "XML"
outFormatCheck(r) == IF wantedOutputSupported(r) = "NOFORMAT" THEN "NotAcceptable" ELSE "Ok"
uriArgumentGet(r) == IF r.params THEN "Ok" ELSE "BadRequest"

\* What the headers are refused with is kept, for the third call.
Refuse(ci, status) == [restReply(ci, status) EXCEPT !.answer = status]

\* Mutant: the service path is not checked.
Call1AnyPath(ci) ==
  LET r == ci.req
      status == IF contentTypeCheck(r) # "Ok" THEN contentTypeCheck(r)
                ELSE IF outFormatCheck(r) # "Ok" THEN outFormatCheck(r) ELSE uriArgumentGet(r)
  IN  CASE ~r.url -> Refuse(ci, "BadRequest")
        [] r.url /\ status # "Ok" -> Refuse(ci, status)
        [] OTHER -> ci

\* The first call of connectionTreat. A bad service path is answered with the
\* status of a success; the checks after it go on and answer again.
Call1(ci) ==
  LET r == ci.req
      pathChecked == IF r.path THEN ci ELSE Refuse(ci, "Ok")
      status == IF contentTypeCheck(r) # "Ok" THEN contentTypeCheck(r)
                ELSE IF outFormatCheck(r) # "Ok" THEN outFormatCheck(r) ELSE uriArgumentGet(r)
  IN  CASE ~r.url -> Refuse(ci, "BadRequest")
        [] r.url /\ status # "Ok" -> Refuse(pathChecked, status)
        [] OTHER -> pathChecked

-----------------------------------------------------------------------------
(* The callbacks                                                            *)

RequestsBegun == LET N[S \in SUBSET Connections] ==
                       IF S = {} THEN 0
                       ELSE LET c == CHOOSE x \in S : TRUE IN conn[c].number + N[S \ {c}]
                 IN  N[Connections]

\* A client sends the headers of a request, the first one or another one.
SendHeaders(c) ==
  /\ At(c, "closed")
  /\ RequestsBegun < MaxRequests
  /\ \E r \in Requests :
       conn' = [conn EXCEPT ![c] = [NoConnection EXCEPT !.pc = "transSemTake", !.req = r,
                                                        !.number = conn[c].number + 1]]
  /\ UNCHANGED <<static_buffer, heap, noOf>> /\ UNCHANGED <<process, transactions>>

\* transactionIdSet, called from connectionTreat by LM_TRANSACTION_START.
transSemTake(c) ==
  /\ At(c, "transSemTake")
  /\ transSem > 0
  /\ transSem' = transSem - 1
  /\ conn' = [conn EXCEPT ![c].pc = "transactionIdSet"]
  /\ UNCHANGED <<static_buffer, heap, noOf, transaction, logStartTime>> /\ UNCHANGED process

\* Mutant: the running number stays at the largest one.
transactionIdSetSaturated(c) ==
  /\ At(c, "transactionIdSet")
  /\ transaction' = IF transaction = MaxInt THEN MaxInt ELSE transaction + 1
  /\ conn' = [conn EXCEPT ![c].pc = "transSemGive"]
  /\ UNCHANGED <<static_buffer, heap, noOf, transSem, logStartTime>> /\ UNCHANGED process

\* The running number overflows to a negative one. The start time has
\* microseconds, the id only its milliseconds.
transactionIdSet(c) ==
  /\ At(c, "transactionIdSet")
  /\ IF transaction = MaxInt
       THEN transaction' = 1 /\ logStartTime' = logStartTime + 1
       ELSE transaction' = transaction + 1 /\ UNCHANGED logStartTime
  /\ conn' = [conn EXCEPT ![c].pc = "transSemGive"]
  /\ UNCHANGED <<static_buffer, heap, noOf, transSem>> /\ UNCHANGED process
transSemGive(c) ==
  /\ At(c, "transSemGive")
  /\ transSem' = transSem + 1
  /\ conn' = [conn EXCEPT ![c].pc = "headers", ![c].id = <<logStartTime \div 1000, transaction>>,
                          ![c].nth = logStartTime * MaxInt + transaction]
  /\ UNCHANGED <<static_buffer, heap, noOf, transaction, logStartTime>> /\ UNCHANGED process

\* The library makes the other calls only if no response is queued.
Headers(c) ==
  /\ At(c, "headers")
  /\ LET ci == Call1(conn[c])
     IN  conn' = [conn EXCEPT ![c] =
                    [ci EXCEPT !.pc = IF ci.response # NoResponse THEN "answered"
                                      ELSE IF ci.req.size = 0 THEN "call3" ELSE "body"]]
  /\ UNCHANGED <<static_buffer, heap, noOf>> /\ UNCHANGED <<process, transactions>>

\* Mutant: the buffer is the same one for all threads.
BufferShared(c, body) == [t \in Connections |-> body]

Buffer(c, body) == [static_buffer EXCEPT ![c] = body]

\* Mutant: a payload that is too large is not acknowledged.
DataUnacknowledged(c) ==
  /\ At(c, "body")
  /\ LET ci == conn[c]
         r == ci.req
     IN  \E n \in ci.arrived + 1 .. r.size :
           CASE n # r.length \/ n > PAYLOAD_MAX_SIZE ->
                  /\ conn' = [conn EXCEPT ![c].arrived = n]
                  /\ UNCHANGED <<static_buffer, heap>>
             [] n = r.length /\ n <= PAYLOAD_MAX_SIZE /\ n > STATIC_BUFFER_SIZE ->
                  /\ conn' = [conn EXCEPT ![c].arrived = n, ![c].pc = "call3",
                                          ![c].payload = [place |-> "heap", body |-> r.body]]
                  /\ heap' = heap \cup {<<c, ci.number>>}
                  /\ UNCHANGED static_buffer
             [] OTHER ->
                  /\ conn' = [conn EXCEPT ![c].arrived = n, ![c].pc = "call3",
                                          ![c].payload = [place |-> "static", body |-> "none"]]
                  /\ static_buffer' = Buffer(c, r.body)
                  /\ UNCHANGED heap
  /\ UNCHANGED noOf /\ UNCHANGED <<process, transactions>>

\* More of the body arrives, and the second call is made with all that has. It
\* is taken when it is all there; otherwise the library calls again.
Data(c) ==
  /\ At(c, "body")
  /\ LET ci == conn[c]
         r == ci.req
     IN  \E n \in ci.arrived + 1 .. r.size :
           CASE n # r.length ->
                  /\ conn' = [conn EXCEPT ![c].arrived = n]
                  /\ UNCHANGED <<static_buffer, heap>>
             [] n = r.length /\ n > PAYLOAD_MAX_SIZE ->
                  /\ conn' = [conn EXCEPT ![c].arrived = n, ![c].answer = "RequestEntityTooLarge",
                                          ![c].pc = "call3"]
                  /\ UNCHANGED <<static_buffer, heap>>
             [] n = r.length /\ n <= PAYLOAD_MAX_SIZE /\ n > STATIC_BUFFER_SIZE ->
                  /\ conn' = [conn EXCEPT ![c].arrived = n, ![c].pc = "call3",
                                          ![c].payload = [place |-> "heap", body |-> r.body]]
                  /\ heap' = heap \cup {<<c, ci.number>>}
                  /\ UNCHANGED static_buffer
             [] OTHER ->
                  /\ conn' = [conn EXCEPT ![c].arrived = n, ![c].pc = "call3",
                                          ![c].payload = [place |-> "static", body |-> "none"]]
                  /\ static_buffer' = Buffer(c, r.body)
                  /\ UNCHANGED heap
  /\ UNCHANGED noOf /\ UNCHANGED <<process, transactions>>

\* The third call answers an error or calls serveFunction.
Call3(c) ==
  LET ci == conn[c]
      lengthRequired == ci.req.verb \in {"POST", "PUT"} /\ ci.req.length = 0 /\ ~ci.req.log
  IN  /\ At(c, "call3")
      /\ conn' = [conn EXCEPT ![c] =
                     CASE lengthRequired -> [restReply(ci, "LengthRequired") EXCEPT !.pc = "answered"]
                       [] ~lengthRequired /\ ci.answer # "none" ->
                            [restReply(ci, ci.answer) EXCEPT !.pc = "answered"]
                       [] OTHER -> [ci EXCEPT !.pc = "restService"]]
      /\ UNCHANGED <<static_buffer, heap, noOf>> /\ UNCHANGED <<process, transactions>>

\* What the parser is given.
PayloadOf(c) == CASE conn[c].payload.place = "static" -> static_buffer[c]
                  [] conn[c].payload.place = "heap" -> conn[c].payload.body
                  [] OTHER -> "none"

\* restService: a payload that does not parse is answered, by payloadParse and
\* again by restService, and is not counted.
restService(c) ==
  /\ At(c, "restService")
  /\ conn' = [conn EXCEPT ![c] =
                 IF conn[c].req.parses THEN [@ EXCEPT !.pc = "count"]
                 ELSE [restReply(restReply(@, "BadRequest"), "BadRequest") EXCEPT !.pc = "answered"]]
  /\ UNCHANGED <<static_buffer, heap, noOf>> /\ UNCHANGED <<process, transactions>>

\* statisticsUpdate, without a lock: ++ reads a counter and writes it later.
StatisticsRead(c) ==
  /\ At(c, "count")
  /\ conn' = [conn EXCEPT ![c].count = noOf[conn[c].req.treat], ![c].pc = "counted"]
  /\ UNCHANGED <<static_buffer, heap, noOf>> /\ UNCHANGED <<process, transactions>>

StatisticsWrite(c) ==
  /\ At(c, "counted")
  /\ noOf' = [noOf EXCEPT ![conn[c].req.treat] = conn[c].count + 1]
  /\ conn' = [conn EXCEPT ![c].pc = "treat"]
  /\ UNCHANGED <<static_buffer, heap>> /\ UNCHANGED <<process, transactions>>

\* DELETE resets the counters to -1, so that the next request of a kind makes
\* its counter 0.
statisticsTreat(req) ==
  IF req.treat = "statistics" /\ req.verb = "DELETE" THEN [k \in DOMAIN noOf |-> -1] ELSE noOf

\* tenantCheck, whose error has the status of a success; otherwise the service
\* routine and its response.
Treat(c) ==
  /\ At(c, "treat")
  /\ noOf' = IF conn[c].req.tenant THEN statisticsTreat(conn[c].req) ELSE noOf
  /\ conn' = [conn EXCEPT ![c].pc = "answered",
                          ![c].response = MHD_queue_response(@, "Ok", conn[c].req.tenant)]
  /\ UNCHANGED <<static_buffer, heap>> /\ UNCHANGED <<process, transactions>>

\* The payload is freed if it has memory of its own.
requestCompleted(c) ==
  heap \ IF conn[c].payload.place = "heap" THEN {<<c, conn[c].number>>} ELSE {}

Completed(c) ==
  /\ conn' = [conn EXCEPT ![c] = [NoConnection EXCEPT !.number = conn[c].number]]
  /\ heap' = requestCompleted(c)
  /\ UNCHANGED <<static_buffer, noOf>> /\ UNCHANGED <<process, transactions>>
\* The response was sent.
Sent(c) == At(c, "answered") /\ Completed(c)
\* The client gives up, while the library waits for it.
Close(c) == At(c, "body") /\ Completed(c)

-----------------------------------------------------------------------------

Init ==
  /\ options \in OptionSets
  /\ main = "paParse" /\ parent = "none" /\ pidfile = FALSE
  /\ ready = {}
  /\ conn = Memory.conn
  /\ static_buffer = Memory.static_buffer
  /\ heap = {}
  /\ transSem = 0 /\ transaction = 0 /\ logStartTime = 0
  /\ noOf = Memory.noOf

Main == \/ paParse \/ daemonize \/ pidFile \/ orionInit \/ mongoInit \/ contextBrokerInit
        \/ httpRequestInit \/ curl_global_init \/ rushParse \/ restInit \/ restStart
        \/ sigHandler

\* What the thread of a connection does with a request.
Thread(c) == \/ transSemTake(c) \/ transactionIdSet(c) \/ transSemGive(c)
             \/ Headers(c) \/ Data(c) \/ Call3(c) \/ restService(c)
             \/ StatisticsRead(c) \/ StatisticsWrite(c) \/ Treat(c) \/ Sent(c)

Next == \/ Main
        \/ exitFunc
        \/ \E c \in Connections : SendHeaders(c) \/ Thread(c) \/ Close(c)

Spec == Init /\ [][Next]_vars

\* Threads run, and a client sends the rest of a body it has begun to send.
FairSpec == Spec /\ \A c \in Connections : WF_vars(Thread(c))

-----------------------------------------------------------------------------
(* Properties                                                               *)

Statuses == {"none", "Ok", "BadRequest", "UnsupportedMediaType", "NotAcceptable",
             "LengthRequired", "RequestEntityTooLarge"}

\* The variables are of the kinds of their declarations; the semaphore of the
\* transactions is 0 exactly while one thread makes its id.
TypeOK ==
  /\ options \in OptionSets
  /\ main \in {Order[i] : i \in DOMAIN Order} \cup {"exited"}
  /\ parent \in {"none", "exiting", "gone"}
  /\ transaction \in 0..MaxInt
  /\ \A c \in Connections : /\ conn[c].arrived \in 0..conn[c].req.size
                           /\ conn[c].response.status \in Statuses
  /\ Live => transSem + Cardinality({c \in Connections :
                                      conn[c].pc \in {"transactionIdSet", "transSemGive"}}) = 1

Busy == {c \in Connections : conn[c].pc # "closed"}

\* No request is handled before everything that serving it needs was
\* initialized (main): the semaphores, the connections to the database, the
\* notifier, the timeouts, libcurl, and the globals of the library rest.
ReadyBeforeServing ==
  (Live /\ Busy # {}) =>
    {"semaphores", "mongo", "notifier", "timeout", "curl", "relayer", "rest"} \subseteq ready

HeadersAccepted(r) ==
  r.url /\ r.path /\ r.params /\ contentTypeCheck(r) = "Ok" /\ outFormatCheck(r) = "Ok"

\* A request that has any error in its URL, its headers, its parameters or its
\* payload gets an error and never reaches a service routine, although
\* connectionTreat goes on after some of the errors and may answer twice.
NotServedAfterError ==
  \A c \in Connections :
    conn[c].response.served => /\ HeadersAccepted(conn[c].req)
                               /\ conn[c].req.parses /\ conn[c].req.tenant
                               /\ conn[c].req.size <= PAYLOAD_MAX_SIZE

\* What the parser gets is the whole body of the request that the connection
\* is serving: not a part of it, not that of the request before it on the
\* connection, and not that of another thread (static_buffer).
PayloadOfItsRequest ==
  \A c \in Connections :
    (Live /\ conn[c].pc \in {"restService", "count", "counted", "treat"}) =>
      PayloadOf(c) = conn[c].req.body

\* The payloads that have memory of their own are those of the requests in
\* progress: each is freed when its request ends, however it ends.
PayloadsFreed ==
  heap = {<<c, conn[c].number>> : c \in {x \in Connections : conn[x].payload.place = "heap"}}

HasId == {"headers", "body", "call3", "restService", "count", "counted", "treat", "answered"}

\* Requests that are handled at the same time have different transaction ids,
\* also when the running number has overflowed, unless MaxInt or more other
\* requests begin while one is handled (transactionIdSet).
TransactionsDiffer ==
  \A c, d \in Connections :
    (/\ c # d /\ conn[c].pc \in HasId /\ conn[d].pc \in HasId
     /\ conn[c].nth - conn[d].nth \in 0..MaxInt-1) => conn[c].id # conn[d].id

\* Increments of the counters can be lost, and a reset with them, but none is
\* made up: a counter that starts at -1 is always below the number of requests.
NothingCountedTwice == \A k \in DOMAIN noOf : noOf[k] < RequestsBegun \/ noOf[k] = -1

\* Every request whose Content-Length is that of its body is answered, or the
\* client gives up, or the broker ends.
EveryRequestEnds ==
  \A c \in Connections :
    (conn[c].pc = "transSemTake" /\ conn[c].req.length = conn[c].req.size) ~>
      (conn[c].pc = "closed" \/ main = "exited")

\* While the broker runs, the PID file that it wrote is there ("Specifies the
\* file to store the PID of the broker process", doc/manuals/admin/cli.md).
PidFileKept == "pid" \in ready => pidfile
=============================================================================
