--------------------------- MODULE FrontEndProofs ---------------------------
(* Proofs about FrontEnd, for any number of connections, any requests and   *)
(* command lines, and any sizes of the buffers.                             *)
EXTENDS FrontEnd, TLAPS

Fields == {"pc", "number", "req", "arrived", "payload", "answer", "id", "nth", "response", "count"}

Shape ==
  /\ DOMAIN conn = Connections /\ DOMAIN static_buffer = Connections
  /\ \A c \in Connections : DOMAIN conn[c] = Fields

-----------------------------------------------------------------------------
(* One connection: how far its request has come tells what has been checked *)
(* and where the payload is.                                                *)

Served == {"restService", "count", "counted", "treat"}

PayloadIn(ci, buffer) == CASE ci.payload.place = "static" -> buffer
                           [] ci.payload.place = "heap" -> ci.payload.body
                           [] OTHER -> "none"

ConnInv(ci, buffer) ==
  /\ ci.pc # "closed" => ci.req \in Requests
  /\ ci.pc # "answered" => ci.response = NoResponse
  /\ ci.pc \notin Served \union {"call3", "answered"}
       => ci.answer = "none" /\ ci.payload = NoPayload /\ ci.arrived \in Nat
  /\ ci.pc \in Served \union {"body", "call3"} => HeadersAccepted(ci.req)
  /\ ci.pc = "call3" /\ ci.answer = "none"
       => ci.req.size <= PAYLOAD_MAX_SIZE /\ PayloadIn(ci, buffer) = ci.req.body
  /\ ci.pc \in Served => ci.req.size <= PAYLOAD_MAX_SIZE /\ PayloadIn(ci, buffer) = ci.req.body
  /\ ci.pc \in {"count", "counted", "treat"} => ci.req.parses
  /\ ci.response.served => /\ HeadersAccepted(ci.req) /\ ci.req.parses /\ ci.req.tenant
                           /\ ci.req.size <= PAYLOAD_MAX_SIZE

ConnsInv == \A c \in Connections : ConnInv(conn[c], static_buffer[c])

\* The other connections are as they were.
Others(c) ==
  \A d \in Connections \ {c} : conn'[d] = conn[d] /\ static_buffer'[d] = static_buffer[d]

-----------------------------------------------------------------------------
LEMMA ClosedInv ==
  ASSUME NEW ci, NEW buffer, ci.pc \in {"closed", "transSemTake"}, ci.answer = "none",
         ci.payload = NoPayload, ci.response = NoResponse, ci.arrived \in Nat,
         ci.pc # "closed" => ci.req \in Requests
  PROVE  ConnInv(ci, buffer)
  <1>1. ~ci.response.served
    BY DEF NoResponse
  <1> QED BY <1>1 DEF ConnInv, Served

LEMMA InitShape == ASSUME conn = Memory.conn, static_buffer = Memory.static_buffer
                   PROVE  Shape /\ ConnsInv
  <1>1. /\ DOMAIN conn = Connections /\ DOMAIN static_buffer = Connections
        /\ \A c \in Connections : conn[c] = NoConnection
    BY DEF Memory
  <1>2. Shape
    BY <1>1 DEF Shape, Fields, NoConnection
  <1>3. ASSUME NEW c \in Connections PROVE ConnInv(conn[c], static_buffer[c])
    BY <1>1, ClosedInv DEF NoConnection
  <1> QED BY <1>2, <1>3 DEF ConnsInv

\* The steps of main leave the connections alone, or the process exits.
LEMMA MainEffect ==
  ASSUME Main \/ exitFunc \/ UNCHANGED vars
  PROVE  \/ UNCHANGED network
         \/ Exit
  BY DEF Main, exitFunc, vars, network, paParse, daemonize, pidFile, orionInit, mongoInit,
         contextBrokerInit, httpRequestInit, curl_global_init, rushParse, restInit, restStart,
         sigHandler

\* A step of a thread that only goes on, from one place to another.
LEMMA GoOn ==
  ASSUME NEW ci, NEW buffer, ConnInv(ci, buffer), DOMAIN ci = Fields, NEW next,
         NEW new, DOMAIN new = Fields, new.pc = next,
         new.req = ci.req, new.payload = ci.payload, new.answer = ci.answer,
         new.response = ci.response, new.arrived = ci.arrived,
         <<ci.pc, next>> \in {<<"transSemTake", "transactionIdSet">>,
           <<"transactionIdSet", "transSemGive">>, <<"transSemGive", "headers">>,
           <<"count", "counted">>, <<"counted", "treat">>}
  PROVE  ConnInv(new, buffer)
  BY DEF ConnInv, Served, PayloadIn

\* new is ci with an error as its response.
Replied(ci, new) ==
  /\ DOMAIN new = Fields /\ \A f \in Fields \ {"response", "answer"} : new[f] = ci[f]
  /\ new.response # NoResponse /\ ~new.response.served

\* restReply queues a response if none is, and a second one is dropped.
LEMMA ReplyOnce ==
  ASSUME NEW ci, DOMAIN ci = Fields, ci.response = NoResponse,
         NEW status, status # "none"
  PROVE  Replied(ci, restReply(ci, status))
  <1> DEFINE one == restReply(ci, status)
  <1>1. one = [ci EXCEPT !.response = [status |-> status, served |-> FALSE]]
    BY DEF restReply, MHD_queue_response
  <1>2. /\ DOMAIN one = Fields /\ one.response = [status |-> status, served |-> FALSE]
        /\ \A f \in Fields \ {"response"} : one[f] = ci[f]
    BY <1>1 DEF Fields
  <1>3. one.response # NoResponse /\ ~one.response.served
    BY <1>2 DEF NoResponse
  <1> QED BY <1>2, <1>3 DEF Replied

LEMMA ReplyTwice ==
  ASSUME NEW ci, NEW new, Replied(ci, new), NEW status
  PROVE  Replied(ci, restReply(new, status))
  <1>1. restReply(new, status) = [new EXCEPT !.response = new.response]
    BY DEF restReply, MHD_queue_response, Replied
  <1> QED BY <1>1 DEF Replied, Fields

LEMMA RefuseReplies ==
  ASSUME NEW ci, DOMAIN ci = Fields, NEW new, NEW status, status # "none",
         (new = ci /\ ci.response = NoResponse) \/ Replied(ci, new)
  PROVE  Replied(ci, Refuse(new, status))
  <1> DEFINE one == restReply(new, status)
  <1>1. Replied(ci, one)
    BY ReplyOnce, ReplyTwice
  <1> HIDE DEF one
  <1>2. Refuse(new, status) = [one EXCEPT !.answer = status]
    BY DEF Refuse, one
  <1> QED BY <1>1, <1>2 DEF Replied, Fields

\* An error is answered.
LEMMA ErrorStep ==
  ASSUME NEW ci, NEW buffer, ConnInv(ci, buffer), NEW replied, Replied(ci, replied)
  PROVE  LET new == [replied EXCEPT !.pc = "answered"]
         IN  DOMAIN new = Fields /\ (ci.pc # "closed" => ConnInv(new, buffer))
  <1> DEFINE new == [replied EXCEPT !.pc = "answered"]
  <1>1. /\ DOMAIN new = Fields /\ new.pc = "answered" /\ new.req = ci.req
        /\ new.response = replied.response /\ ~replied.response.served
    BY DEF Fields, Replied
  <1> HIDE DEF new
  <1>2. ASSUME ci.pc # "closed" PROVE ConnInv(new, buffer)
    BY <1>1, <1>2 DEF ConnInv, Served
  <1> QED BY <1>1, <1>2 DEF new

\* The first call goes on only with headers that are accepted.
LEMMA Call1Accepts ==
  ASSUME NEW ci, DOMAIN ci = Fields, ci.response = NoResponse
  PROVE  Replied(ci, Call1(ci)) \/ (Call1(ci) = ci /\ HeadersAccepted(ci.req))
  <1> DEFINE r == ci.req
             status == IF contentTypeCheck(r) # "Ok" THEN contentTypeCheck(r)
                       ELSE IF outFormatCheck(r) # "Ok" THEN outFormatCheck(r) ELSE uriArgumentGet(r)
  <1>1. /\ contentTypeCheck(r) # "none" /\ outFormatCheck(r) # "none"
        /\ uriArgumentGet(r) # "none" /\ (uriArgumentGet(r) = "Ok" => r.params)
    BY DEF contentTypeCheck, outFormatCheck, uriArgumentGet
  <1>2. CASE ~r.url
    <2>1. Call1(ci) = Refuse(ci, "BadRequest")
      BY <1>2 DEF Call1
    <2> QED BY <2>1, RefuseReplies
  <1>3. CASE r.url /\ status # "Ok" /\ r.path
    <2>1. Call1(ci) = Refuse(ci, status)
      BY <1>3 DEF Call1
    <2>2. status # "none"
      BY <1>1
    <2> HIDE DEF status
    <2> QED BY <2>1, <2>2, RefuseReplies
  <1>4. CASE r.url /\ status # "Ok" /\ ~r.path
    <2>1. Call1(ci) = Refuse(Refuse(ci, "Ok"), status) /\ status # "none"
      BY <1>1, <1>4 DEF Call1
    <2> HIDE DEF status
    <2>2. Replied(ci, Refuse(ci, "Ok"))
      BY RefuseReplies
    <2> QED BY <2>1, <2>2, RefuseReplies
  <1>5. CASE r.url /\ status = "Ok" /\ ~r.path
    <2>1. Call1(ci) = Refuse(ci, "Ok")
      BY <1>5 DEF Call1
    <2> QED BY <2>1, RefuseReplies
  <1>6. CASE r.url /\ status = "Ok" /\ r.path
    <2>1. Call1(ci) = ci
      BY <1>6 DEF Call1
    <2>2. HeadersAccepted(r)
      BY <1>1, <1>6 DEF HeadersAccepted
    <2> QED BY <2>1, <2>2
  <1> QED BY <1>2, <1>3, <1>4, <1>5, <1>6

LEMMA HeadersStep ==
  ASSUME NEW ci, NEW buffer, DOMAIN ci = Fields, ConnInv(ci, buffer), ci.pc = "headers"
  PROVE  LET next == IF Call1(ci).response # NoResponse THEN "answered"
                     ELSE IF Call1(ci).req.size = 0 THEN "call3" ELSE "body"
             new == [Call1(ci) EXCEPT !.pc = next]
         IN  DOMAIN new = Fields /\ ConnInv(new, buffer)
  <1> DEFINE next == IF Call1(ci).response # NoResponse THEN "answered"
                     ELSE IF Call1(ci).req.size = 0 THEN "call3" ELSE "body"
             new == [Call1(ci) EXCEPT !.pc = next]
  <1>1. /\ ci.response = NoResponse /\ ci.req \in Requests
        /\ ci.answer = "none" /\ ci.payload = NoPayload /\ ci.arrived \in Nat
    BY DEF ConnInv, Served
  <1>2. CASE Replied(ci, Call1(ci))
    <2>1. next = "answered"
      BY <1>2 DEF Replied
    <2> QED BY <1>2, <2>1, ErrorStep
  <1>3. CASE Call1(ci) = ci /\ HeadersAccepted(ci.req)
    <2>1. /\ DOMAIN new = Fields /\ new.pc = next /\ new.response = NoResponse
          /\ new.req = ci.req /\ new.answer = "none" /\ new.payload = NoPayload
          /\ new.arrived = ci.arrived
      BY <1>1, <1>3 DEF Fields
    <2>2. \/ next = "call3" /\ ci.req.size = 0 /\ ci.req.body = "none"
          \/ next = "body"
      BY <1>1, <1>3, RequestsAssumption
    <2> HIDE DEF new, next
    <2>3. PayloadIn(new, buffer) = "none" /\ ~NoResponse.served
      BY <2>1 DEF PayloadIn, NoPayload, NoResponse
    <2>4. ConnInv(new, buffer)
      BY <1>1, <1>3, <2>1, <2>2, <2>3, SizeAssumption DEF ConnInv, Served
    <2> QED BY <2>1, <2>4 DEF new, next
  <1> QED BY <1>1, <1>2, <1>3, Call1Accepts

\* The library hands over more of the body. What is taken is all of it.
LEMMA DataForms ==
  ASSUME Shape, NEW c \in Connections, ConnInv(conn[c], static_buffer[c]), Data(c)
  PROVE  LET r == conn[c].req IN
         \E n \in conn[c].arrived + 1 .. r.size :
          \/ /\ conn' = [conn EXCEPT ![c].arrived = n]
             /\ UNCHANGED static_buffer
          \/ /\ conn' = [conn EXCEPT ![c].arrived = n, ![c].answer = "RequestEntityTooLarge",
                                     ![c].pc = "call3"]
             /\ UNCHANGED static_buffer
          \/ /\ n = r.length /\ n <= PAYLOAD_MAX_SIZE
             /\ conn' = [conn EXCEPT ![c].arrived = n, ![c].pc = "call3",
                                     ![c].payload = [place |-> "heap", body |-> r.body]]
             /\ UNCHANGED static_buffer
          \/ /\ n = r.length /\ n <= PAYLOAD_MAX_SIZE
             /\ conn' = [conn EXCEPT ![c].arrived = n, ![c].pc = "call3",
                                     ![c].payload = [place |-> "static", body |-> "none"]]
             /\ static_buffer' = [static_buffer EXCEPT ![c] = r.body]
  <1> DEFINE ci == conn[c]
             r == conn[c].req
  <1>1. ci.arrived \in Nat /\ r.size \in Nat
    BY RequestsAssumption DEF Data, At, ConnInv, Served
  <1>2. PICK n \in ci.arrived + 1 .. r.size :
          CASE n # r.length ->
                /\ conn' = [conn EXCEPT ![c].arrived = n]
                /\ UNCHANGED <<static_buffer, heap>>
           [] n = r.length /\ n > PAYLOAD_MAX_SIZE ->
                /\ conn' = [conn EXCEPT ![c].arrived = n, ![c].answer = "RequestEntityTooLarge",
                                        ![c].pc = "call3"]
                /\ UNCHANGED <<static_buffer, heap>>
           [] n = r.length /\ n <= PAYLOAD_MAX_SIZE /\ n > STATIC_BUFFER_SIZE ->
                /\ conn' = [conn EXCEPT ![c].arrived = n, ![c].pc = "call3",
                                        ![c].payload = [place |-> "heap", body |-> r.body]]
                /\ heap' = heap \cup {<<c, ci.number>>}
                /\ UNCHANGED static_buffer
           [] OTHER ->
                /\ conn' = [conn EXCEPT ![c].arrived = n, ![c].pc = "call3",
                                        ![c].payload = [place |-> "static", body |-> "none"]]
                /\ static_buffer' = Buffer(c, r.body)
                /\ UNCHANGED heap
    BY DEF Data
  <1>3. n \in Int /\ PAYLOAD_MAX_SIZE \in Nat /\ STATIC_BUFFER_SIZE \in Nat
    BY <1>1, SizeAssumption
  <1>4. CASE n # r.length
    BY <1>2, <1>4
  <1>5. CASE n = r.length /\ n > PAYLOAD_MAX_SIZE
    BY <1>2, <1>5
  <1>6. CASE n = r.length /\ n <= PAYLOAD_MAX_SIZE /\ n > STATIC_BUFFER_SIZE
    BY <1>2, <1>3, <1>6
  <1>7. CASE n = r.length /\ n <= PAYLOAD_MAX_SIZE /\ n <= STATIC_BUFFER_SIZE
    BY <1>2, <1>3, <1>7 DEF Buffer
  <1>8. \/ n # r.length \/ n > PAYLOAD_MAX_SIZE
        \/ n <= PAYLOAD_MAX_SIZE /\ (n > STATIC_BUFFER_SIZE \/ n <= STATIC_BUFFER_SIZE)
    BY <1>3
  <1> QED BY <1>8, <1>4, <1>5, <1>6, <1>7

LEMMA DataStep ==
  ASSUME Shape, NEW c \in Connections, ConnInv(conn[c], static_buffer[c]), Data(c)
  PROVE  Shape' /\ Others(c) /\ ConnInv(conn'[c], static_buffer'[c])
  <1> DEFINE ci == conn[c]
             r == conn[c].req
  <1>1. /\ ci.pc = "body" /\ r \in Requests /\ ci.response = NoResponse /\ ci.answer = "none"
        /\ ci.payload = NoPayload /\ ci.arrived \in Nat /\ HeadersAccepted(r)
    BY DEF Data, At, ConnInv, Served
  <1>2. r.size \in Nat /\ r.length \in {0, r.size}
    BY <1>1, RequestsAssumption
  <1>3. PICK n \in ci.arrived + 1 .. r.size :
          \/ /\ conn' = [conn EXCEPT ![c].arrived = n]
             /\ UNCHANGED static_buffer
          \/ /\ conn' = [conn EXCEPT ![c].arrived = n, ![c].answer = "RequestEntityTooLarge",
                                     ![c].pc = "call3"]
             /\ UNCHANGED static_buffer
          \/ /\ n = r.length /\ n <= PAYLOAD_MAX_SIZE
             /\ conn' = [conn EXCEPT ![c].arrived = n, ![c].pc = "call3",
                                     ![c].payload = [place |-> "heap", body |-> r.body]]
             /\ UNCHANGED static_buffer
          \/ /\ n = r.length /\ n <= PAYLOAD_MAX_SIZE
             /\ conn' = [conn EXCEPT ![c].arrived = n, ![c].pc = "call3",
                                     ![c].payload = [place |-> "static", body |-> "none"]]
             /\ static_buffer' = [static_buffer EXCEPT ![c] = r.body]
    BY DataForms
  <1>4. n \in Nat /\ n > 0
    BY <1>1, <1>2
  <1>a. ASSUME NEW new, conn' = [conn EXCEPT ![c] = new], DOMAIN new = Fields
        PROVE  /\ DOMAIN conn' = Connections /\ \A d \in Connections : DOMAIN conn'[d] = Fields
               /\ \A d \in Connections \ {c} : conn'[d] = conn[d]
               /\ conn'[c] = new
    BY <1>a DEF Shape
  <1>5. CASE conn' = [conn EXCEPT ![c].arrived = n] /\ UNCHANGED static_buffer
    <2> DEFINE new == [ci EXCEPT !.arrived = n]
    <2>1. /\ DOMAIN new = Fields /\ new.pc = "body" /\ new.req = r /\ new.arrived = n
          /\ new.answer = "none" /\ new.payload = NoPayload /\ new.response = NoResponse
      BY <1>1 DEF Shape, Fields
    <2>2. conn' = [conn EXCEPT ![c] = new]
      BY <1>5 DEF Shape, Fields
    <2> HIDE DEF new
    <2>3. ConnInv(new, static_buffer[c])
      BY <1>1, <1>4, <2>1 DEF ConnInv, Served, NoResponse
    <2> QED BY <1>a, <1>5, <2>1, <2>2, <2>3 DEF Shape, Others
  <1>6. CASE /\ conn' = [conn EXCEPT ![c].arrived = n, ![c].answer = "RequestEntityTooLarge",
                                     ![c].pc = "call3"]
             /\ UNCHANGED static_buffer
    <2> DEFINE new == [ci EXCEPT !.arrived = n, !.answer = "RequestEntityTooLarge",
                                 !.pc = "call3"]
    <2>1. /\ DOMAIN new = Fields /\ new.pc = "call3" /\ new.req = r
          /\ new.answer = "RequestEntityTooLarge" /\ new.response = NoResponse
      BY <1>1 DEF Shape, Fields
    <2>2. conn' = [conn EXCEPT ![c] = new]
      BY <1>6 DEF Shape, Fields
    <2> HIDE DEF new
    <2>3. ConnInv(new, static_buffer[c])
      BY <1>1, <1>4, <2>1 DEF ConnInv, Served, NoResponse
    <2> QED BY <1>a, <1>6, <2>1, <2>2, <2>3 DEF Shape, Others
  <1>7. CASE /\ n = r.length /\ n <= PAYLOAD_MAX_SIZE
             /\ conn' = [conn EXCEPT ![c].arrived = n, ![c].pc = "call3",
                                     ![c].payload = [place |-> "heap", body |-> r.body]]
             /\ UNCHANGED static_buffer
    <2> DEFINE new == [ci EXCEPT !.arrived = n, !.pc = "call3",
                                 !.payload = [place |-> "heap", body |-> r.body]]
    <2>1. /\ DOMAIN new = Fields /\ new.pc = "call3" /\ new.req = r
          /\ new.payload = [place |-> "heap", body |-> r.body] /\ new.response = NoResponse
      BY <1>1 DEF Shape, Fields
    <2>2. conn' = [conn EXCEPT ![c] = new]
      BY <1>7 DEF Shape, Fields
    <2> HIDE DEF new
    <2>3. PayloadIn(new, static_buffer[c]) = r.body
      BY <2>1 DEF PayloadIn
    <2>4. ConnInv(new, static_buffer[c])
      BY <1>1, <1>2, <1>4, <1>7, <2>1, <2>3 DEF ConnInv, Served, NoResponse
    <2> QED BY <1>a, <1>7, <2>1, <2>2, <2>4 DEF Shape, Others
  <1>8. CASE /\ n = r.length /\ n <= PAYLOAD_MAX_SIZE
             /\ conn' = [conn EXCEPT ![c].arrived = n, ![c].pc = "call3",
                                     ![c].payload = [place |-> "static", body |-> "none"]]
             /\ static_buffer' = [static_buffer EXCEPT ![c] = r.body]
    <2> DEFINE new == [ci EXCEPT !.arrived = n, !.pc = "call3",
                                 !.payload = [place |-> "static", body |-> "none"]]
    <2>1. /\ DOMAIN new = Fields /\ new.pc = "call3" /\ new.req = r
          /\ new.payload = [place |-> "static", body |-> "none"] /\ new.response = NoResponse
      BY <1>1 DEF Shape, Fields
    <2>2. conn' = [conn EXCEPT ![c] = new]
      BY <1>8 DEF Shape, Fields
    <2> HIDE DEF new
    <2>3. PayloadIn(new, r.body) = r.body
      BY <2>1 DEF PayloadIn
    <2>4. ConnInv(new, r.body)
      BY <1>1, <1>2, <1>4, <1>8, <2>1, <2>3 DEF ConnInv, Served, NoResponse
    <2>5. static_buffer'[c] = r.body
      BY <1>8 DEF Shape
    <2> QED BY <1>a, <1>8, <2>1, <2>2, <2>4, <2>5 DEF Shape, Others
  <1> QED BY <1>3, <1>5, <1>6, <1>7, <1>8

LEMMA ThreadSteps ==
  ASSUME Shape, ConnsInv, NEW c \in Connections, SendHeaders(c) \/ Thread(c) \/ Close(c)
  PROVE  Shape' /\ Others(c) /\ ConnInv(conn'[c], static_buffer'[c])
  <1> DEFINE ci == conn[c]
             Goal == Shape' /\ Others(c) /\ ConnInv(conn'[c], static_buffer'[c])
  <1>0. ConnInv(conn[c], static_buffer[c])
    BY DEF ConnsInv
  <1>a. ASSUME NEW new, conn' = [conn EXCEPT ![c] = new], DOMAIN new = Fields,
               ConnInv(new, static_buffer[c]), UNCHANGED static_buffer
        PROVE  Goal
    BY <1>a DEF Shape, Others
  <1>1. CASE SendHeaders(c)
    <2>1. PICK r \in Requests :
            conn' = [conn EXCEPT ![c] = [NoConnection EXCEPT !.pc = "transSemTake", !.req = r,
                                                             !.number = conn[c].number + 1]]
      BY <1>1 DEF SendHeaders
    <2> DEFINE new == [NoConnection EXCEPT !.pc = "transSemTake", !.req = r,
                                           !.number = conn[c].number + 1]
    <2>2. /\ DOMAIN new = Fields /\ new.pc = "transSemTake" /\ new.req = r
          /\ new.answer = "none" /\ new.payload = NoPayload /\ new.response = NoResponse
          /\ new.arrived \in Nat
      BY DEF NoConnection, Fields
    <2>3. UNCHANGED static_buffer
      BY <1>1 DEF SendHeaders
    <2> HIDE DEF new
    <2>4. ConnInv(new, static_buffer[c])
      BY <2>2, ClosedInv
    <2> QED BY <1>a, <2>1, <2>2, <2>3, <2>4 DEF new
  <1>2. CASE transSemTake(c)
    <2> DEFINE new == [conn[c] EXCEPT !.pc = "transactionIdSet"]
    <2>1. conn' = [conn EXCEPT ![c] = new] /\ UNCHANGED static_buffer /\ ci.pc = "transSemTake"
      BY <1>2 DEF transSemTake, At, Shape, Fields
    <2>2. /\ DOMAIN new = Fields /\ new.pc = "transactionIdSet" /\ new.req = ci.req
          /\ new.payload = ci.payload /\ new.answer = ci.answer /\ new.response = ci.response
          /\ new.arrived = ci.arrived
      BY DEF Shape, Fields
    <2> HIDE DEF new
    <2>3. ConnInv(new, static_buffer[c])
      BY <1>0, <2>1, <2>2, GoOn DEF Shape
    <2> QED BY <1>a, <2>1, <2>2, <2>3
  <1>3. CASE transactionIdSet(c)
    <2> DEFINE new == [conn[c] EXCEPT !.pc = "transSemGive"]
    <2>1. conn' = [conn EXCEPT ![c] = new] /\ UNCHANGED static_buffer /\ ci.pc = "transactionIdSet"
      BY <1>3 DEF transactionIdSet, At, Shape, Fields
    <2>2. /\ DOMAIN new = Fields /\ new.pc = "transSemGive" /\ new.req = ci.req
          /\ new.payload = ci.payload /\ new.answer = ci.answer /\ new.response = ci.response
          /\ new.arrived = ci.arrived
      BY DEF Shape, Fields
    <2> HIDE DEF new
    <2>3. ConnInv(new, static_buffer[c])
      BY <1>0, <2>1, <2>2, GoOn DEF Shape
    <2> QED BY <1>a, <2>1, <2>2, <2>3
  <1>4. CASE transSemGive(c)
    <2>1. PICK id, nth : conn' = [conn EXCEPT ![c].pc = "headers", ![c].id = id, ![c].nth = nth]
      BY <1>4 DEF transSemGive
    <2> DEFINE new == [conn[c] EXCEPT !.pc = "headers", !.id = id, !.nth = nth]
    <2>2. UNCHANGED static_buffer /\ ci.pc = "transSemGive"
      BY <1>4 DEF transSemGive, At
    <2>3. conn' = [conn EXCEPT ![c] = new]
      BY <2>1 DEF Shape, Fields
    <2>4. /\ DOMAIN new = Fields /\ new.pc = "headers" /\ new.req = ci.req
          /\ new.payload = ci.payload /\ new.answer = ci.answer /\ new.response = ci.response
          /\ new.arrived = ci.arrived
      BY DEF Shape, Fields
    <2> HIDE DEF new
    <2>5. ConnInv(new, static_buffer[c])
      BY <1>0, <2>2, <2>4, GoOn DEF Shape
    <2> QED BY <1>a, <2>2, <2>3, <2>4, <2>5
  <1>5. CASE StatisticsRead(c)
    <2> DEFINE new == [conn[c] EXCEPT !.count = noOf[conn[c].req.treat], !.pc = "counted"]
    <2>1. conn' = [conn EXCEPT ![c] = new] /\ UNCHANGED static_buffer /\ ci.pc = "count"
      BY <1>5 DEF StatisticsRead, At, Shape, Fields
    <2>2. /\ DOMAIN new = Fields /\ new.pc = "counted" /\ new.req = ci.req
          /\ new.payload = ci.payload /\ new.answer = ci.answer /\ new.response = ci.response
          /\ new.arrived = ci.arrived
      BY DEF Shape, Fields
    <2> HIDE DEF new
    <2>3. ConnInv(new, static_buffer[c])
      BY <1>0, <2>1, <2>2, GoOn DEF Shape
    <2> QED BY <1>a, <2>1, <2>2, <2>3
  <1>6. CASE StatisticsWrite(c)
    <2> DEFINE new == [conn[c] EXCEPT !.pc = "treat"]
    <2>1. conn' = [conn EXCEPT ![c] = new] /\ UNCHANGED static_buffer /\ ci.pc = "counted"
      BY <1>6 DEF StatisticsWrite, At, Shape, Fields
    <2>2. /\ DOMAIN new = Fields /\ new.pc = "treat" /\ new.req = ci.req
          /\ new.payload = ci.payload /\ new.answer = ci.answer /\ new.response = ci.response
          /\ new.arrived = ci.arrived
      BY DEF Shape, Fields
    <2> HIDE DEF new
    <2>3. ConnInv(new, static_buffer[c])
      BY <1>0, <2>1, <2>2, GoOn DEF Shape
    <2> QED BY <1>a, <2>1, <2>2, <2>3
  <1>7. CASE Headers(c)
    <2> DEFINE next == IF Call1(ci).response # NoResponse THEN "answered"
                       ELSE IF Call1(ci).req.size = 0 THEN "call3" ELSE "body"
               new == [Call1(ci) EXCEPT !.pc = next]
    <2>1. conn' = [conn EXCEPT ![c] = new] /\ UNCHANGED static_buffer /\ ci.pc = "headers"
      BY <1>7 DEF Headers, At
    <2>2. DOMAIN new = Fields /\ ConnInv(new, static_buffer[c])
      BY <1>0, <2>1, HeadersStep DEF Shape
    <2> HIDE DEF new
    <2> QED BY <1>a, <2>1, <2>2
  <1>8. CASE Data(c)
    BY <1>0, <1>8, DataStep
  <1>9. CASE Call3(c)
    <2> DEFINE lengthRequired == /\ ci.req.verb \in {"POST", "PUT"} /\ ci.req.length = 0
                                 /\ ~ci.req.log
               status == IF lengthRequired THEN "LengthRequired" ELSE ci.answer
    <2>1. UNCHANGED static_buffer /\ ci.pc = "call3" /\ ci.response = NoResponse
      BY <1>0, <1>9 DEF Call3, At, ConnInv
    <2>2. CASE status # "none"
      <3> DEFINE new == [restReply(ci, status) EXCEPT !.pc = "answered"]
      <3>1. conn' = [conn EXCEPT ![c] = new]
        BY <1>9, <2>2 DEF Call3
      <3> HIDE DEF status
      <3>2. Replied(ci, restReply(ci, status))
        BY <2>1, <2>2, ReplyOnce DEF Shape
      <3>3. DOMAIN new = Fields /\ ConnInv(new, static_buffer[c])
        BY <1>0, <2>1, <3>2, ErrorStep
      <3> HIDE DEF new
      <3> QED BY <1>a, <2>1, <3>1, <3>3
    <2>3. CASE status = "none"
      <3> DEFINE new == [ci EXCEPT !.pc = "restService"]
      <3>1. conn' = [conn EXCEPT ![c] = new] /\ ci.answer = "none"
        BY <1>9, <2>3 DEF Call3
      <3>2. /\ DOMAIN new = Fields /\ new.pc = "restService" /\ new.req = ci.req
            /\ new.payload = ci.payload /\ new.answer = ci.answer /\ new.response = ci.response
            /\ new.arrived = ci.arrived
        BY DEF Shape, Fields
      <3> HIDE DEF new
      <3>3. ConnInv(new, static_buffer[c])
        BY <1>0, <2>1, <3>1, <3>2 DEF ConnInv, Served, PayloadIn
      <3> QED BY <1>a, <2>1, <3>1, <3>2, <3>3
    <2> QED BY <2>2, <2>3
  <1>10. CASE restService(c)
    <2>1. UNCHANGED static_buffer /\ ci.pc = "restService"
      BY <1>10 DEF restService, At
    <2>2. CASE ci.req.parses
      <3> DEFINE new == [ci EXCEPT !.pc = "count"]
      <3>1. conn' = [conn EXCEPT ![c] = new]
        BY <1>10, <2>2 DEF restService
      <3>2. /\ DOMAIN new = Fields /\ new.pc = "count" /\ new.req = ci.req
            /\ new.payload = ci.payload /\ new.answer = ci.answer /\ new.response = ci.response
            /\ new.arrived = ci.arrived
        BY DEF Shape, Fields
      <3> HIDE DEF new
      <3>3. ConnInv(new, static_buffer[c])
        BY <1>0, <2>1, <2>2, <3>2 DEF ConnInv, Served, PayloadIn
      <3> QED BY <1>a, <2>1, <3>1, <3>2, <3>3
    <2>3. CASE ~ci.req.parses
      <3> DEFINE new == [restReply(restReply(ci, "BadRequest"), "BadRequest")
                           EXCEPT !.pc = "answered"]
      <3>1. conn' = [conn EXCEPT ![c] = new]
        BY <1>10, <2>3 DEF restService
      <3>2. DOMAIN new = Fields /\ ConnInv(new, static_buffer[c])
        <4>1. ci.response = NoResponse
          BY <1>0, <2>1 DEF ConnInv
        <4>2. Replied(ci, restReply(ci, "BadRequest"))
          BY <4>1, ReplyOnce DEF Shape
        <4>3. Replied(ci, restReply(restReply(ci, "BadRequest"), "BadRequest"))
          BY <4>2, ReplyTwice
        <4> QED BY <1>0, <2>1, <4>3, ErrorStep
      <3> HIDE DEF new
      <3> QED BY <1>a, <2>1, <3>1, <3>2
    <2> QED BY <2>2, <2>3
  <1>11. CASE Treat(c)
    <2> DEFINE new == [ci EXCEPT !.pc = "answered",
                                 !.response = MHD_queue_response(@, "Ok", ci.req.tenant)]
    <2>1. conn' = [conn EXCEPT ![c] = new] /\ UNCHANGED static_buffer /\ ci.pc = "treat"
      BY <1>11 DEF Treat, At, Shape, Fields
    <2>2. /\ DOMAIN new = Fields /\ new.pc = "answered" /\ new.req = ci.req
          /\ new.response = MHD_queue_response(ci.response, "Ok", ci.req.tenant)
      BY DEF Shape, Fields
    <2> HIDE DEF new
    <2>3. ci.response = NoResponse
      BY <1>0, <2>1 DEF ConnInv
    <2>4. new.response.served = ci.req.tenant
      BY <2>2, <2>3 DEF MHD_queue_response
    <2>5. ConnInv(new, static_buffer[c])
      BY <1>0, <2>1, <2>2, <2>4 DEF ConnInv, Served
    <2> QED BY <1>a, <2>1, <2>2, <2>5
  <1>12. CASE Sent(c) \/ Close(c)
    <2> DEFINE new == [NoConnection EXCEPT !.number = conn[c].number]
    <2>1. conn' = [conn EXCEPT ![c] = new] /\ UNCHANGED static_buffer
      BY <1>12 DEF Sent, Close, Completed
    <2>2. /\ DOMAIN new = Fields /\ new.pc = "closed"
          /\ new.answer = "none" /\ new.payload = NoPayload /\ new.response = NoResponse
          /\ new.arrived \in Nat
      BY DEF NoConnection, Fields
    <2> HIDE DEF new
    <2>3. ConnInv(new, static_buffer[c])
      BY <2>2, ClosedInv
    <2> QED BY <1>a, <2>1, <2>2, <2>3
  <1> QED BY <1>1, <1>2, <1>3, <1>4, <1>5, <1>6, <1>7, <1>8, <1>9, <1>10, <1>11, <1>12 DEF Thread

-----------------------------------------------------------------------------
(* Requests and their payloads                                              *)

LEMMA NextConns ==
  ASSUME Shape, ConnsInv, [Next]_vars
  PROVE  (Shape /\ ConnsInv)'
  <1>1. CASE Main \/ exitFunc \/ UNCHANGED vars
    <2>1. CASE UNCHANGED network
      BY <2>1 DEF network, Shape, ConnsInv
    <2>2. CASE Exit
      <3>1. conn' = Memory.conn /\ static_buffer' = Memory.static_buffer
        BY <2>2 DEF Exit
      <3>2. /\ DOMAIN conn' = Connections /\ DOMAIN static_buffer' = Connections
            /\ \A c \in Connections : conn'[c] = NoConnection
        BY <3>1 DEF Memory
      <3>3. DOMAIN NoConnection = Fields
        BY DEF NoConnection, Fields
      <3>4. \A c \in Connections : ConnInv(NoConnection, static_buffer'[c])
        BY ClosedInv DEF NoConnection
      <3> QED BY <3>2, <3>3, <3>4 DEF Shape, ConnsInv
    <2> QED BY <1>1, <2>1, <2>2, MainEffect
  <1>2. ASSUME NEW c \in Connections, SendHeaders(c) \/ Thread(c) \/ Close(c)
        PROVE  (Shape /\ ConnsInv)'
    <2>1. Shape' /\ Others(c) /\ ConnInv(conn'[c], static_buffer'[c])
      BY <1>2, ThreadSteps
    <2>2. ASSUME NEW d \in Connections PROVE ConnInv(conn'[d], static_buffer'[d])
      <3>1. CASE d = c
        BY <2>1, <3>1
      <3>2. CASE d # c
        BY <2>1, <3>2 DEF Others, ConnsInv
      <3> QED BY <3>1, <3>2
    <2> QED BY <2>1, <2>2 DEF ConnsInv
  <1> QED BY <1>1, <1>2 DEF Next

LEMMA SpecConns == Spec => [](Shape /\ ConnsInv)
  <1>1. Init => Shape /\ ConnsInv
    BY InitShape DEF Init
  <1> QED BY <1>1, NextConns, PTL DEF Spec

\* A request with any error in its URL, its headers, its parameters or its
\* payload never reaches a service routine, although connectionTreat goes on
\* after some of the errors and may answer twice.
THEOREM FrontEndNotServedAfterError == Spec => []NotServedAfterError
  <1>1. ConnsInv => NotServedAfterError
    BY DEF ConnsInv, ConnInv, NotServedAfterError
  <1> QED BY <1>1, SpecConns, PTL

\* The parser gets the whole body of the request that the connection serves,
\* whether it is in memory of its own or in the static_buffer of the thread.
THEOREM FrontEndPayloadOfItsRequest == Spec => []PayloadOfItsRequest
  <1>1. ConnsInv => PayloadOfItsRequest
    BY DEF ConnsInv, ConnInv, PayloadOfItsRequest, PayloadOf, PayloadIn, Served
  <1> QED BY <1>1, SpecConns, PTL

-----------------------------------------------------------------------------
(* The ids of the transactions                                              *)

InSection == {"transactionIdSet", "transSemGive"}

\* The ids that transactionIdSet has made, in the order in which it made them.
Made == logStartTime * MaxInt + transaction

\* The library makes no call before it was started, which is the last step.
NotYetLive == ~Live => \A c \in Connections : conn[c].pc = "closed"
LiveLast == Live => main = "completed"

\* One thread at a time makes an id.
TransLock ==
  /\ transSem \in {0, 1}
  /\ \A c, d \in Connections : conn[c].pc \in InSection /\ conn[d].pc \in InSection => c = d
  /\ transSem = 1 => \A c \in Connections : conn[c].pc \notin InSection

\* The ids are in the past, and different; while a thread is about to take the
\* last one, the others have earlier ones.
IdsInv ==
  /\ transaction \in 0..MaxInt /\ logStartTime \in Nat
  /\ \A c \in Connections : conn[c].pc \in HasId =>
       /\ conn[c].nth \in Nat /\ conn[c].nth <= Made
       /\ \E s \in Nat, t \in 1..MaxInt : /\ conn[c].id[2] = t
                                          /\ conn[c].nth = s * MaxInt + t
  /\ \A c \in Connections : conn[c].pc = "transSemGive" =>
       /\ transaction > 0
       /\ \A d \in Connections : conn[d].pc \in HasId => conn[d].nth < Made
  /\ \A c, d \in Connections :
       c # d /\ conn[c].pc \in HasId /\ conn[d].pc \in HasId => conn[c].nth # conn[d].nth

\* Between two ids with the same running number there are MaxInt others.
LEMMA SameNumber ==
  ASSUME NEW s \in Nat, NEW u \in Nat, NEW t \in 1..MaxInt,
         (s * MaxInt + t) - (u * MaxInt + t) \in 0..MaxInt-1
  PROVE  s * MaxInt + t = u * MaxInt + t
  <1>1. MaxInt \in Nat /\ MaxInt > 0
    BY SizeAssumption
  <1>2. s * MaxInt \in Nat /\ u * MaxInt \in Nat
    BY <1>1
  <1>3. CASE s = u
    BY <1>2, <1>3
  <1>4. CASE s < u
    <2>1. s + 1 <= u
      BY <1>4
    <2>2. (s + 1) * MaxInt <= u * MaxInt
      BY <1>1, <2>1
    <2>3. (s + 1) * MaxInt = s * MaxInt + MaxInt
      BY <1>1
    <2> QED BY <1>1, <1>2, <2>2, <2>3
  <1>5. CASE s > u
    <2>1. u + 1 <= s
      BY <1>5
    <2>2. (u + 1) * MaxInt <= s * MaxInt
      BY <1>1, <2>1
    <2>3. (u + 1) * MaxInt = u * MaxInt + MaxInt
      BY <1>1
    <2> QED BY <1>1, <1>2, <2>2, <2>3
  <1> QED BY <1>3, <1>4, <1>5

LEMMA IdsDiffer == IdsInv => TransactionsDiffer
  <1> SUFFICES ASSUME IdsInv, NEW c \in Connections, NEW d \in Connections,
                      c # d, conn[c].pc \in HasId, conn[d].pc \in HasId,
                      conn[c].nth - conn[d].nth \in 0..MaxInt-1, conn[c].id = conn[d].id
               PROVE  FALSE
    BY DEF TransactionsDiffer
  <1>1. PICK s \in Nat, t \in 1..MaxInt : /\ conn[c].id[2] = t
                                         /\ conn[c].nth = s * MaxInt + t
    BY DEF IdsInv
  <1>2. PICK u \in Nat, v \in 1..MaxInt : /\ conn[d].id[2] = v
                                         /\ conn[d].nth = u * MaxInt + v
    BY DEF IdsInv
  <1>3. t = v
    BY <1>1, <1>2
  <1>4. conn[c].nth = conn[d].nth
    BY <1>1, <1>2, <1>3, SameNumber
  <1> QED BY <1>4 DEF IdsInv

\* A thread that has an id and goes on with its request.
MovesOn(c) ==
  /\ conn[c].pc \in HasId /\ conn'[c].pc \in HasId
  /\ conn'[c].id = conn[c].id /\ conn'[c].nth = conn[c].nth
  /\ UNCHANGED <<process, transactions>>

LEMMA MovesOnSteps ==
  ASSUME Shape, ConnsInv, NEW c \in Connections,
         \/ Headers(c) \/ Data(c) \/ Call3(c) \/ restService(c) \/ StatisticsRead(c)
         \/ StatisticsWrite(c) \/ Treat(c)
  PROVE  MovesOn(c)
  <1> DEFINE ci == conn[c]
  <1> USE DEF Shape, Fields, HasId
  <1>0. ConnInv(ci, static_buffer[c])
    BY DEF ConnsInv
  <1>1. CASE Headers(c)
    <2>1. PICK next \in {"answered", "call3", "body"} :
            conn' = [conn EXCEPT ![c] = [Call1(ci) EXCEPT !.pc = next]]
      BY <1>1 DEF Headers
    <2>2. ci.pc = "headers" /\ UNCHANGED <<process, transactions>>
      BY <1>1 DEF Headers, At
    <2>3. ci.response = NoResponse
      BY <1>0, <2>2 DEF ConnInv
    <2>4. Replied(ci, Call1(ci)) \/ Call1(ci) = ci
      BY <2>3, Call1Accepts
    <2>5. DOMAIN Call1(ci) = Fields /\ Call1(ci).id = ci.id /\ Call1(ci).nth = ci.nth
      BY <2>4 DEF Replied
    <2>6. conn'[c] = [Call1(ci) EXCEPT !.pc = next]
      BY <2>1
    <2> QED BY <2>2, <2>5, <2>6 DEF MovesOn
  <1>2. CASE Data(c)
    <2>1. ci.pc = "body" /\ UNCHANGED <<process, transactions>>
      BY <1>2 DEF Data, At
    <2> DEFINE in == [place |-> "heap", body |-> ci.req.body]
               st == [place |-> "static", body |-> "none"]
    <2>2. PICK n :
            \/ conn' = [conn EXCEPT ![c].arrived = n]
            \/ conn' = [conn EXCEPT ![c].arrived = n, ![c].answer = "RequestEntityTooLarge",
                                     ![c].pc = "call3"]
            \/ conn' = [conn EXCEPT ![c].arrived = n, ![c].pc = "call3", ![c].payload = in]
            \/ conn' = [conn EXCEPT ![c].arrived = n, ![c].pc = "call3", ![c].payload = st]
      BY <1>0, <1>2, DataForms
    <2> HIDE DEF in, st
    <2>3. CASE conn' = [conn EXCEPT ![c].arrived = n]
      BY <2>1, <2>3 DEF MovesOn
    <2>4. CASE conn' = [conn EXCEPT ![c].arrived = n, ![c].answer = "RequestEntityTooLarge",
                                     ![c].pc = "call3"]
      BY <2>1, <2>4 DEF MovesOn
    <2>5. CASE conn' = [conn EXCEPT ![c].arrived = n, ![c].pc = "call3", ![c].payload = in]
      BY <2>1, <2>5 DEF MovesOn
    <2>6. CASE conn' = [conn EXCEPT ![c].arrived = n, ![c].pc = "call3", ![c].payload = st]
      BY <2>1, <2>6 DEF MovesOn
    <2> QED BY <2>2, <2>3, <2>4, <2>5, <2>6
  <1>3. CASE Call3(c)
    <2>1. ci.pc = "call3" /\ UNCHANGED <<process, transactions>>
      BY <1>3 DEF Call3, At
    <2>2. \/ conn'[c] = [ci EXCEPT !.pc = "restService"]
          \/ \E status : conn'[c] = [restReply(ci, status) EXCEPT !.pc = "answered"]
      BY <1>3 DEF Call3
    <2> QED BY <2>1, <2>2 DEF MovesOn, restReply
  <1>4. CASE restService(c)
    <2>1. ci.pc = "restService" /\ UNCHANGED <<process, transactions>>
      BY <1>4 DEF restService, At
    <2>2. \/ conn'[c] = [ci EXCEPT !.pc = "count"]
          \/ conn'[c] = [restReply(restReply(ci, "BadRequest"), "BadRequest")
                           EXCEPT !.pc = "answered"]
      BY <1>4 DEF restService
    <2> QED BY <2>1, <2>2 DEF MovesOn, restReply
  <1>5. CASE StatisticsRead(c)
    BY <1>5 DEF StatisticsRead, MovesOn, At
  <1>6. CASE StatisticsWrite(c)
    BY <1>6 DEF StatisticsWrite, MovesOn, At
  <1>7. CASE Treat(c)
    <2>1. ci.pc = "treat" /\ UNCHANGED <<process, transactions>>
      BY <1>7 DEF Treat, At
    <2>2. PICK response : conn' = [conn EXCEPT ![c].pc = "answered", ![c].response = response]
      BY <1>7 DEF Treat
    <2> QED BY <2>1, <2>2 DEF MovesOn
  <1> QED BY <1>1, <1>2, <1>3, <1>4, <1>5, <1>6, <1>7

TransInv == NotYetLive /\ LiveLast /\ TransLock /\ IdsInv

LEMMA ThreadTrans ==
  ASSUME Shape, ConnsInv, TransInv, NEW c \in Connections,
         SendHeaders(c) \/ Thread(c) \/ Close(c)
  PROVE  TransInv'
  <1>0. Others(c)
    BY ThreadSteps, SMTT(40)
  <1>1. conn[c].pc # "closed" \/ SendHeaders(c)
    BY ZenonT(60) DEF Thread, transSemTake, transactionIdSet, transSemGive, Headers, Data, Call3, restService,
       StatisticsRead, StatisticsWrite, Treat, Sent, Close, At
  <1>2. Live /\ UNCHANGED <<main, ready>>
    BY DEF Thread, SendHeaders, transSemTake, transactionIdSet, transSemGive, Headers, Data, Call3,
       restService, StatisticsRead, StatisticsWrite, Treat, Sent, Close, Completed, At, process
  <1>3. (NotYetLive /\ LiveLast)'
    BY <1>2 DEF TransInv, NotYetLive, LiveLast, Live
  <1> USE DEF InSection, HasId
  <1>4. CASE SendHeaders(c) \/ Sent(c) \/ Close(c)
    <2>1. conn[c].pc \notin InSection /\ UNCHANGED transactions
      BY <1>4 DEF SendHeaders, Sent, Close, Completed, At
    <2>2. conn'[c].pc \in {"closed", "transSemTake"}
      BY <1>4 DEF SendHeaders, Sent, Close, Completed, NoConnection, Shape
    <2>3. TransLock'
      BY <1>0, <2>1, <2>2 DEF TransInv, TransLock, Others, transactions
    <2>4. IdsInv'
      BY <1>0, <2>1, <2>2 DEF TransInv, IdsInv, Others, transactions, Made
    <2> QED BY <1>3, <2>3, <2>4 DEF TransInv
  <1>5. CASE transSemTake(c)
    <2>1. /\ conn[c].pc = "transSemTake" /\ conn'[c].pc = "transactionIdSet"
          /\ transSem > 0 /\ transSem' = transSem - 1
          /\ UNCHANGED <<transaction, logStartTime>>
      BY <1>5 DEF transSemTake, At, Shape, Fields
    <2>2. TransLock'
      BY <1>0, <2>1 DEF TransInv, TransLock, Others
    <2>3. IdsInv'
      BY <1>0, <2>1 DEF TransInv, IdsInv, Others, Made
    <2> QED BY <1>3, <2>2, <2>3 DEF TransInv
  <1>6. CASE transactionIdSet(c)
    <2>1. /\ conn[c].pc = "transactionIdSet" /\ conn'[c].pc = "transSemGive"
          /\ UNCHANGED transSem
      BY <1>6 DEF transactionIdSet, At, Shape, Fields
    <2>2. TransLock'
      BY <1>0, <2>1 DEF TransInv, TransLock, Others
    <2>3. /\ transaction' \in 1..MaxInt /\ logStartTime' \in Nat
          /\ Made' = Made + 1 /\ Made \in Nat
      <3>1. /\ MaxInt \in Nat /\ MaxInt > 0 /\ transaction \in 0..MaxInt
            /\ logStartTime \in Nat
        BY SizeAssumption DEF TransInv, IdsInv
      <3>2. CASE transaction = MaxInt
        <4>1. transaction' = 1 /\ logStartTime' = logStartTime + 1
          BY <1>6, <3>2 DEF transactionIdSet
        <4>2. (logStartTime + 1) * MaxInt = logStartTime * MaxInt + MaxInt
          BY <3>1
        <4>3. logStartTime * MaxInt \in Nat
          BY <3>1
        <4> QED BY <3>1, <3>2, <4>1, <4>2, <4>3 DEF Made
      <3>3. CASE transaction # MaxInt
        <4>1. transaction' = transaction + 1 /\ logStartTime' = logStartTime
          BY <1>6, <3>3 DEF transactionIdSet
        <4>2. logStartTime * MaxInt \in Nat
          BY <3>1
        <4> QED BY <3>1, <3>3, <4>1, <4>2 DEF Made
      <3> QED BY <3>2, <3>3
    <2>4. \A d \in Connections : conn'[d].pc \in HasId => /\ d # c /\ conn'[d] = conn[d]
      BY <1>0, <2>1 DEF Others
    <2>5. IdsInv'
      BY <2>1, <2>3, <2>4 DEF TransInv, IdsInv
    <2> QED BY <1>3, <2>2, <2>5 DEF TransInv
  <1>7. CASE transSemGive(c)
    <2>1. PICK id, nth : /\ conn' = [conn EXCEPT ![c].pc = "headers", ![c].id = id, ![c].nth = nth]
                         /\ id = <<logStartTime \div 1000, transaction>>
                         /\ nth = logStartTime * MaxInt + transaction
      BY <1>7 DEF transSemGive
    <2>2. /\ conn[c].pc = "transSemGive" /\ transSem' = transSem + 1
          /\ UNCHANGED <<transaction, logStartTime>>
      BY <1>7 DEF transSemGive, At
    <2>3. conn'[c].pc = "headers" /\ conn'[c].id = id /\ conn'[c].nth = Made
      BY <2>1 DEF Shape, Fields, Made
    <2>4. TransLock'
      BY <1>0, <2>2, <2>3 DEF TransInv, TransLock, Others
    <2>5. /\ transaction \in 1..MaxInt /\ logStartTime \in Nat /\ Made \in Nat /\ Made' = Made
      <3>1. /\ MaxInt \in Nat /\ transaction \in 0..MaxInt /\ logStartTime \in Nat
            /\ transaction > 0
        BY <2>2, SizeAssumption DEF TransInv, IdsInv
      <3>2. logStartTime * MaxInt \in Nat
        BY <3>1
      <3> QED BY <2>2, <3>1, <3>2 DEF Made
    <2>6. /\ conn'[c].nth \in Nat /\ conn'[c].nth <= Made'
          /\ \E s \in Nat, t \in 1..MaxInt : /\ conn'[c].id[2] = t
                                             /\ conn'[c].nth = s * MaxInt + t
      <3>1. id[2] = transaction
        <4>1. \A a, b : <<a, b>>[2] = b
          OBVIOUS
        <4> QED BY <2>1, <4>1
      <3>2. conn'[c].nth = logStartTime * MaxInt + transaction
        BY <2>3 DEF Made
      <3> QED BY <2>3, <2>5, <3>1, <3>2
    <2>7. \A d \in Connections \ {c} : conn'[d] = conn[d] /\ conn[d].pc # "transSemGive"
      BY <1>0, <2>2 DEF Others, TransInv, TransLock
    <2>8. \A d \in Connections \ {c} : conn[d].pc \in HasId => conn[d].nth < Made
      BY <2>2 DEF TransInv, IdsInv
    <2>9. IdsInv'
      BY <2>2, <2>3, <2>5, <2>6, <2>7, <2>8 DEF TransInv, IdsInv
    <2> QED BY <1>3, <2>4, <2>9 DEF TransInv
  <1>8. CASE \/ Headers(c) \/ Data(c) \/ Call3(c) \/ restService(c) \/ StatisticsRead(c)
             \/ StatisticsWrite(c) \/ Treat(c)
    <2>1. MovesOn(c)
      BY <1>8, MovesOnSteps
    <2>2. TransLock'
      BY <1>0, <2>1 DEF TransInv, TransLock, MovesOn, Others, transactions
    <2>3. /\ \A d \in Connections : /\ conn'[d].pc \in HasId <=> conn[d].pc \in HasId
                                    /\ conn'[d].pc = "transSemGive" <=> conn[d].pc = "transSemGive"
                                    /\ conn'[d].id = conn[d].id /\ conn'[d].nth = conn[d].nth
          /\ UNCHANGED <<transaction, logStartTime>>
      BY <1>0, <2>1 DEF MovesOn, Others, transactions
    <2>4. IdsInv'
      BY <2>3 DEF TransInv, IdsInv, Made
    <2> QED BY <1>3, <2>2, <2>4 DEF TransInv
  <1> QED BY <1>3, <1>4, <1>5, <1>6, <1>7, <1>8 DEF TransInv, Thread

LEMMA MainTrans ==
  ASSUME TransInv, Main \/ exitFunc \/ UNCHANGED vars
  PROVE  TransInv'
  <1>1. CASE Exit
    <2>1. /\ ~Live' /\ \A c \in Connections : conn'[c].pc = "closed"
          /\ transSem' = 0 /\ transaction' = 0 /\ logStartTime' = 0
      BY <1>1 DEF Exit, Memory, NoConnection, Live
    <2> QED BY <2>1, SizeAssumption DEF TransInv, NotYetLive, LiveLast, TransLock, IdsInv,
                                        InSection, HasId
  <1>2. CASE exitFunc \/ UNCHANGED vars
    <2>1. UNCHANGED <<conn, transactions, main, ready>>
      BY <1>2 DEF exitFunc, vars, network, transactions
    <2> QED BY <2>1 DEF TransInv, NotYetLive, LiveLast, TransLock, IdsInv, Made, Live, transactions
  <1>3. CASE Main /\ ~Exit
    <2>1. UNCHANGED network /\ main # "completed" /\ UNCHANGED <<transaction, logStartTime>>
      BY <1>3 DEF Main, Step, paParse, daemonize, pidFile, orionInit, mongoInit, contextBrokerInit,
                  httpRequestInit, curl_global_init, rushParse, restInit, restStart, sigHandler,
                  transactions
    <2>2. \A c \in Connections : conn[c].pc = "closed"
      BY <2>1 DEF TransInv, LiveLast, NotYetLive
    <2>3. transSem' \in {0, 1}
      BY <1>3 DEF Main, paParse, daemonize, pidFile, orionInit, mongoInit, contextBrokerInit,
                  httpRequestInit, curl_global_init, rushParse, restInit, restStart, sigHandler,
                  transactions, TransInv, TransLock
    <2>4. (TransLock /\ IdsInv /\ NotYetLive)'
      BY <2>1, <2>2, <2>3 DEF TransInv, TransLock, IdsInv, NotYetLive, network, InSection, HasId
    <2>5. LiveLast'
      <3>1. CASE restStart
        <4>1. (CHOOSE i \in DOMAIN Order : Order[i] = "restStart") = 11
          BY DEF Order
        <4>2. Step("restStart", "listening")
          BY <1>3, <3>1 DEF restStart
        <4>3. main' = Order[1 + CHOOSE i \in DOMAIN Order : Order[i] = "restStart"]
          BY <4>2 DEF Step
        <4>4. main' = Order[1 + 11]
          BY <4>1, <4>3, Zenon
        <4> QED BY <4>4 DEF Order, LiveLast
      <3>2. CASE ~restStart
        <4>1. ~Live
          BY <2>1 DEF TransInv, LiveLast
        <4>2. \/ Step("paParse", "options") \/ Step("daemonize", "session")
              \/ Step("pidFile", "pid") \/ Step("pidFile", "no pid")
              \/ Step("orionInit", "semaphores") \/ Step("mongoInit", "mongo")
              \/ Step("contextBrokerInit", "notifier") \/ Step("httpRequestInit", "timeout")
              \/ Step("curl_global_init", "curl") \/ Step("rushParse", "relayer")
              \/ Step("restInit", "rest")
          BY <1>3, <3>2, Zenon DEF Main, paParse, daemonize, pidFile, orionInit, mongoInit,
              contextBrokerInit, httpRequestInit, curl_global_init, rushParse, restInit, sigHandler
        <4>3. \E part \in {"options", "session", "pid", "no pid", "semaphores", "mongo", "notifier",
                           "timeout", "curl", "relayer", "rest"} : ready' = ready \cup {part}
          BY <4>2, Zenon DEF Step
        <4>4. ~Live'
          BY <4>1, <4>3 DEF Live
        <4> QED BY <4>4 DEF LiveLast
      <3> QED BY <3>1, <3>2
    <2> QED BY <2>4, <2>5 DEF TransInv
  <1> QED BY <1>1, <1>2, <1>3

\* Requests that are handled at the same time have different transaction ids,
\* also after the running number has overflowed, unless MaxInt or more others
\* begin while one is handled.
THEOREM FrontEndTransactionsDiffer == Spec => []TransactionsDiffer
  <1>1. Init => TransInv
    <2> SUFFICES ASSUME Init PROVE TransInv
      OBVIOUS
    <2>1. /\ ~Live /\ \A c \in Connections : conn[c].pc = "closed"
          /\ transSem = 0 /\ transaction = 0 /\ logStartTime = 0
      BY DEF Init, Memory, NoConnection, Live
    <2> QED BY <2>1, SizeAssumption DEF TransInv, NotYetLive, LiveLast, TransLock, IdsInv,
                                        InSection, HasId
  <1>2. Shape /\ ConnsInv /\ TransInv /\ [Next]_vars => TransInv'
    BY MainTrans, ThreadTrans DEF Next
  <1>3. TransInv => TransactionsDiffer
    BY IdsDiffer DEF TransInv
  <1> QED BY <1>1, <1>2, <1>3, SpecConns, PTL DEF Spec
=============================================================================
