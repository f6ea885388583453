------------------------------ MODULE Forwarding ------------------------------
(***************************************************************************)
(* The broker as a proxy of context providers: postUpdateContext and       *)
(* postQueryContext. What the local database lacks and a provider is       *)
(* registered for is asked of the provider, one provider after the other,  *)
(* and the answers are merged into one.                                    *)
(*                                                                         *)
(* A provider is taken to be a broker with entities of its own and no      *)
(* registrations, whose own updates meet no faults. A forwarded message may be lost on the way out or on the *)
(* way back, or come back unreadable: in each case httpRequestSend or the  *)
(* parser fails and the broker cannot tell them apart.                     *)
(*                                                                         *)
(* A job is the request that a client is waiting for. Its fields written,  *)
(* held and seen are history: what the update put where, what the query    *)
(* read locally, and all that was true while the query was being served;   *)
(* so are its faults, what went wrong in the broker's own update.          *)
(***************************************************************************)
EXTENDS ContextData

CONSTANTS
  Clients,
  Providers,          \* providing applications, without the broker itself
  Unreachable,        \* those whose URL parseUrl refuses
  Updates, Queries,   \* the requests that each client makes
  CompoundValues,     \* the values that are not strings
  FaultsOf(_, _),     \* the sets of faults that a client's update may meet here
  RegistrationSets,   \* the contents that the registrations may have
  InitialStores,      \* the entities of the broker and of each provider
  cprForwardLimit,    \* how many providers a request may be forwarded to
  MaxRequests         \* bound: requests that are made

ASSUME LimitAssumption == cprForwardLimit \in Nat /\ MaxRequests \in Nat

Self == "broker"
Nodes == Providers \cup {Self}

ASSUME NodesAssumption == Self \notin Providers /\ DOMAIN InitialStores = Nodes

\* The entities of a node.
IsCollection(store) ==
  /\ IsSeq(store)
  /\ \A i \in DOMAIN store :
       /\ store[i] = [id |-> store[i].id, type |-> store[i].type, attrs |-> store[i].attrs]
       /\ IsFiniteSet(DOMAIN store[i].attrs)

\* A registration names its provider: ContextRegistration::check refuses one
\* that does not.
ASSUME RegistrationsAssumption ==
  /\ Nothing \notin Providers
  /\ \A docs \in RegistrationSets :
       /\ IsSeq(docs)
       /\ \A d \in DOMAIN docs :
            /\ IsSeq(docs[d].crs)
            /\ \A n \in DOMAIN docs[d].crs :
                 LET cr == docs[d].crs[n]
                 IN  IsSeq(cr.entities) /\ IsSeq(cr.attrs) /\ cr.app \in Providers

\* The parts of a request are vectors.
ASSUME RequestsAssumption ==
  \A c \in Clients :
    /\ \A req \in Updates[c] :
         /\ req.kind = "update" /\ IsSeq(req.elements)
         /\ \A i \in DOMAIN req.elements : IsSeq(req.elements[i].attributes)
    /\ \A req \in Queries[c] : req.kind = "query" /\ IsSeq(req.enV) /\ IsSeq(req.attrL)

ASSUME StoresAssumption == \A n \in Nodes : IsCollection(InitialStores[n])

VARIABLES
  stores,   \* the entities of each node
  regs,     \* the registrations of the broker
  job,      \* the request of each client
  made      \* how many requests were made

vars == <<stores, regs, job, made>>

-----------------------------------------------------------------------------
(* Answers                                                                  *)

Codes == {"Ok", "ContextElementNotFound", "InvalidParameter", "NotImplemented"}

\* Mutant: the element of the entity, whatever its code.
PushAtAnyCode(cerV, en, a, at, code) ==
  LET old == {i \in DOMAIN cerV : cerV[i].id = en.id /\ cerV[i].type = en.type}
      first == CHOOSE i \in old : \A j \in old : i <= j
  IN  IF old = {} THEN Append(cerV, ContextElementResponse(en, <<a>>, code))
      ELSE [cerV EXCEPT ![first].attributes = Append(@, a)]

\* The attribute goes to the element of the entity that has the code `at`, or
\* to a new one, which is given the code of the answer.
Push(cerV, en, a, at, code) ==
  LET old == {i \in DOMAIN cerV :
                cerV[i].id = en.id /\ cerV[i].type = en.type /\ cerV[i].code = at}
      first == CHOOSE i \in old : \A j \in old : i <= j
  IN  IF old = {} THEN Append(cerV, ContextElementResponse(en, <<a>>, code))
      ELSE [cerV EXCEPT ![first].attributes = Append(@, a)]

notFoundPush(cerV, en, a, code) == Push(cerV, en, a, "ContextElementNotFound", code)
foundPush(cerV, en, a) == Push(cerV, en, a, "Ok", "Ok")

\* Mutant: an answer without elements leaves no trace.
mergeQuietly(response, upcrs) ==
  [response EXCEPT
     !.cerV = FoldLeft(LAMBDA v, cer :
                FoldLeft(LAMBDA w, a : IF cer.code = "Ok" THEN foundPush(w, cer, a)
                                       ELSE notFoundPush(w, cer, a, cer.code),
                         v, cer.attributes), @, upcrs.cerV)]

MergeAttribute(cerV, cer, a) ==
  IF cer.code = "Ok" THEN foundPush(cerV, cer, a) ELSE notFoundPush(cerV, cer, a, cer.code)
MergeElement(cerV, cer) == FoldLeft(LAMBDA v, a : MergeAttribute(v, cer, a), cerV, cer.attributes)

\* An answer without elements is an error, which stays the error of the whole.
merge(response, upcrs) ==
  [code |-> IF upcrs.cerV = <<>> /\ response.code = "Ok" THEN upcrs.code ELSE response.code,
   cerV |-> FoldLeft(MergeElement, response.cerV, upcrs.cerV)]

\* Mutant: one provider that fails spoils the answer.
populateStrictly(responseV) ==
  [code |-> IF responseV = <<>> \/ \E i \in DOMAIN responseV : responseV[i].code # "Ok"
              THEN "ContextElementNotFound" ELSE "Ok",
   cerV |-> IF \E i \in DOMAIN responseV : responseV[i].code # "Ok" THEN <<>>
            ELSE FlattenSeq([i \in DOMAIN responseV |-> responseV[i].cerV])]

\* Mutant: elements are put together by the id of their entities alone.
populateById(responseV) ==
  LET all == FlattenSeq([i \in DOMAIN responseV |-> responseV[i].cerV])
      Add(v, cer) ==
        LET at == {i \in DOMAIN v : v[i].id = cer.id}
        IN  IF at = {} THEN Append(v, cer)
            ELSE [v EXCEPT ![CHOOSE i \in at : \A j \in at : i <= j].attributes =
                              @ \o cer.attributes]
  IN  [code |-> IF responseV = <<>> THEN "ContextElementNotFound" ELSE "Ok",
       cerV |-> FoldLeft(Add, <<>>, all)]

\* The elements of one answer. Those with an error are left out; an answer
\* without elements and without error is an element for no entity, with the code
\* 404.
ElementsOf(r) ==
  IF r.cerV = <<>> /\ r.code = "Ok"
    THEN <<ContextElementResponse([id |-> Nothing, type |-> AnyType], <<>>, "ContextElementNotFound")>>
    ELSE Those(r.cerV, LAMBDA cer : cer.code = "Ok")

\* An element goes to the one of the same entity, or to the end.
AddElement(v, cer) ==
  LET at == {i \in DOMAIN v : v[i].id = cer.id /\ v[i].type = cer.type}
  IN  IF at = {} \/ cer.code # "Ok" THEN Append(v, cer)
      ELSE [v EXCEPT ![ElementOf(v, cer)].attributes = @ \o cer.attributes]
AddResponse(v, r) == FoldLeft(AddElement, v, ElementsOf(r))

\* The answers to a query, put together by entity. One answer without elements,
\* or none, is an answer without elements.
Gathered(responseV) == FoldLeft(AddResponse, <<>>, responseV)

populate(responseV) ==
  LET nothing == responseV = <<>> \/ (Len(responseV) = 1 /\ responseV[1].cerV = <<>>)
  IN  [code |-> IF nothing THEN "ContextElementNotFound" ELSE "Ok",
       cerV |-> IF nothing THEN <<>> ELSE Gathered(responseV)]

-----------------------------------------------------------------------------
(* Which provider is asked for what                                         *)

\* The value that the request has for the attribute: found by the name of the
\* attribute and the entity as the answer has it, with its type. Only values
\* that are strings are copied.
attributeLookup(elements, en, name) ==
  LET found == {ia \in UNION {{<<i, k>> : k \in DOMAIN elements[i].attributes} :
                                i \in DOMAIN elements} :
                  /\ elements[ia[1]].id = en.id /\ elements[ia[1]].type = en.type
                  /\ elements[ia[1]].attributes[ia[2]].name = name}
      first == CHOOSE x \in found : \A y \in found : x[1] < y[1] \/ (x[1] = y[1] /\ x[2] <= y[2])
      value == elements[first[1]].attributes[first[2]].value
  IN  IF found = {} \/ value \in CompoundValues THEN Nothing ELSE value

\* One request to each provider, in it one element for each entity.
AddToRequest(requestV, app, en, a) ==
  LET of == {i \in DOMAIN requestV : requestV[i].contextProvider = app}
      element == [id |-> en.id, type |-> en.type, isPattern |-> "false", attributes |-> <<a>>]
      Added(ceV) ==
        LET at == {i \in DOMAIN ceV : ceV[i].id = en.id /\ ceV[i].type = en.type}
        IN  IF at = {} THEN Append(ceV, element)
            ELSE [ceV EXCEPT ![CHOOSE i \in at : TRUE].attributes = Append(@, a)]
  IN  IF of = {} THEN Append(requestV, [contextProvider |-> app, elements |-> <<element>>])
      ELSE [requestV EXCEPT ![CHOOSE i \in of : TRUE].elements = Added(@)]

updateForwardsPending(cerV) ==
  \E i \in DOMAIN cerV : \E k \in DOMAIN cerV[i].attributes : cerV[i].attributes[k].pa # Nothing

\* The answer of the database, split into what is answered at once and the
\* requests to providers. A request to a provider is always an UPDATE.
UpdateAttribute(elements, s, cer, a) ==
  LET full == [a EXCEPT !.value = attributeLookup(elements, cer, a.name), !.pa = Nothing]
  IN  CASE ~a.found -> [s EXCEPT !.cerV = notFoundPush(@, cer, full, "ContextElementNotFound")]
        [] a.found /\ a.pa = Nothing -> [s EXCEPT !.cerV = foundPush(@, cer, full)]
        [] OTHER -> [s EXCEPT !.requestV = AddToRequest(@, a.pa, cer, full)]
UpdateElement(elements, s, cer) ==
  FoldLeft(LAMBDA t, a : UpdateAttribute(elements, t, cer, a), s, cer.attributes)

SplitUpdate(elements, cerV) ==
  FoldLeft(LAMBDA s, cer : UpdateElement(elements, s, cer), [cerV |-> <<>>, requestV |-> <<>>], cerV)

queryForwardsPending(cerV) == updateForwardsPending(cerV) \/ \E i \in DOMAIN cerV : cerV[i].apps # <<>>

\* requestV.lookup: the first request to the provider whose first entity is
\* the entity.
lookup(requestV, app, en) ==
  {i \in DOMAIN requestV :
     /\ requestV[i].contextProvider = app
     /\ requestV[i].enV[1].id = en.id /\ en.type \in {AnyType, requestV[i].enV[1].type}}

push_back_if_absent(list, x) == IF Contains(list, x) THEN list ELSE Append(list, x)

\* Mutant: the requests are found by the provider alone.
AskForAnyEntity(requestV, en, a) ==
  LET of == {i \in DOMAIN requestV : requestV[i].contextProvider = a.pa}
      first == CHOOSE i \in of : \A j \in of : i <= j
  IN  IF of = {}
        THEN Append(requestV, [contextProvider |-> a.pa, enV |-> <<en>>, attrL |-> <<a.name>>])
        ELSE [requestV EXCEPT ![first].attrL = push_back_if_absent(@, a.name)]

\* An attribute that the provider has is added to the request for its entity.
AskFor(requestV, en, a) ==
  LET of == lookup(requestV, a.pa, en)
      first == CHOOSE i \in of : \A j \in of : i <= j
  IN  IF of = {}
        THEN Append(requestV, [contextProvider |-> a.pa, enV |-> <<en>>, attrL |-> <<a.name>>])
        ELSE [requestV EXCEPT ![first].attrL = push_back_if_absent(@, a.name),
                              ![first].enV = push_back_if_absent(@, en)]

\* A request to each provider of the whole entity, then those of attributes.
EntityIdOf(cer) == [id |-> cer.id, type |-> cer.type, isPattern |-> "false"]
QueryAttribute(s, cer, a) ==
  CASE a.pa = Nothing /\ ~a.found -> s
    [] a.pa = Nothing /\ a.found ->
         LET cs == WithElement(s.cerV, cer)
         IN  [s EXCEPT !.cerV = [cs EXCEPT ![ElementOf(cs, cer)].attributes = Append(@, a)]]
    [] OTHER -> [s EXCEPT !.requestV = AskFor(@, EntityIdOf(cer), a)]
QueryElement(attrL, s, cer) ==
  LET whole == [i \in DOMAIN cer.apps |->
                  [contextProvider |-> cer.apps[i], enV |-> <<EntityIdOf(cer)>>, attrL |-> attrL]]
  IN  FoldLeft(LAMBDA t, a : QueryAttribute(t, cer, a), [s EXCEPT !.requestV = @ \o whole],
               cer.attributes)

SplitQuery(attrL, cerV) ==
  FoldLeft(LAMBDA s, cer : QueryElement(attrL, s, cer), [cerV |-> <<>>, requestV |-> <<>>], cerV)

-----------------------------------------------------------------------------
(* What a provider does                                                     *)

Failed == [code |-> "ContextElementNotFound", cerV |-> <<>>]

\* A single element with 404 makes 404 the code of the answer.
Fixed(r) == IF Len(r.cerV) = 1 /\ r.cerV[1].code = "ContextElementNotFound"
              THEN [r EXCEPT !.code = "ContextElementNotFound"] ELSE r

ProviderUpdate(store, elements) ==
  LET u == mongoUpdateContext(store, <<>>, elements, "UPDATE", FALSE, {})
  IN  [store |-> u.store,
       answer |-> Fixed(UpdateContextResponse("Ok", foundAndNotFoundAttributeSeparation(u.cerV)))]

ProviderQuery(store, enV, attrL) ==
  LET cerV == mongoQueryContext(store, <<>>, enV, attrL, Nothing)
  IN  IF cerV = <<>> THEN Failed ELSE Fixed([code |-> "Ok", cerV |-> cerV])

-----------------------------------------------------------------------------
(* Jobs                                                                     *)

NoRequest == [kind |-> "none"]
Idle == [pc |-> "idle", req |-> NoRequest, cerV |-> <<>>, code |-> "Ok", requestV |-> <<>>,
         responseV |-> <<>>, ix |-> 0, written |-> {}, held |-> {}, seen |-> {}, kept |-> {},
         steady |-> TRUE, faults |-> {}]

\* History: <<node, id, type, name, value>> for every value in a store.
FactsOf(node, store) ==
  UNION {{<<node, e.id, e.type, k[1], e.attrs[k]>> : k \in DOMAIN e.attrs} : e \in Range(store)}
Facts(st) == UNION {FactsOf(n, st[n]) : n \in Nodes}

\* History: what the elements asked of the node and its entities have now.
Effect(node, store, elements) ==
  {f \in FactsOf(node, store) :
     \E i \in DOMAIN elements :
       /\ elements[i].id = f[2] /\ elements[i].type \in {AnyType, f[3]}
       /\ \E k \in DOMAIN elements[i].attributes :
            elements[i].attributes[k].name = f[4] /\ elements[i].attributes[k].value = f[5]}

\* Client c's job becomes j; the others, and j, see what the stores hold.
Becomes(c, j, st) ==
  LET Watching(x) == IF x.pc \in {"idle", "done"} THEN x
                     ELSE [x EXCEPT !.seen = @ \cup Facts(st), !.kept = @ \intersect Facts(st)]
  IN  [k \in Clients |-> IF k = c THEN Watching(j) ELSE Watching(job[k])]

Pending(c) == job[c].pc = "forward" /\ job[c].ix < Len(job[c].requestV) /\ job[c].ix < cprForwardLimit

\* mongoUpdateContext holds the request semaphore from beginning to end.
postUpdateContext(c, req, faults) ==
  LET u == mongoUpdateContext(stores[Self], regs, req.elements, req.action, FALSE, faults)
      cerV == foundAndNotFoundAttributeSeparation(u.cerV)
      split == SplitUpdate(req.elements, cerV)
      new == [Idle EXCEPT !.req = req, !.faults = faults,
                          !.written = Effect(Self, u.store, req.elements)]
  IN  /\ job[c].pc = "idle" /\ made < MaxRequests
      /\ made' = made + 1
      /\ stores' = [stores EXCEPT ![Self] = u.store]
      /\ job' = Becomes(c, IF updateForwardsPending(cerV)
                             THEN [new EXCEPT !.pc = "forward", !.cerV = split.cerV,
                                              !.requestV = split.requestV]
                             ELSE [new EXCEPT !.pc = "done",
                                              !.cerV = UpdateContextResponse("Ok", cerV).cerV,
                                              !.code = UpdateContextResponse("Ok", cerV).code],
                        stores')
      /\ UNCHANGED regs

\* The first part of mongoQueryContext, under the request semaphore.
postQueryContext(c, req) ==
  LET cerV == entitiesQuery(stores[Self], req.enV, req.attrL, Nothing)
      Held(cer) == {<<Self, cer.id, cer.type, a.name, a.value>> :
                      a \in {x \in Range(cer.attributes) : x.found}}
  IN  /\ job[c].pc = "idle" /\ made < MaxRequests
      /\ made' = made + 1
      /\ job' = Becomes(c, [Idle EXCEPT !.pc = "lookup", !.ix = 1, !.req = req, !.cerV = cerV,
                                        !.held = UNION {Held(cer) : cer \in Range(cerV)},
                                        !.kept = Facts(stores)], stores)
      /\ UNCHANGED <<stores, regs>>

\* One of the lookups in the registrations, without the semaphore.
LookUp(c) ==
  LET j == job[c]
      cerV == Lookup(j.ix, j.cerV, regs, j.req.enV, j.req.attrL)
      pruned == pruneContextElements(cerV)
      split == SplitQuery(j.req.attrL, pruned)
      local == IF split.cerV = <<>> THEN <<>> ELSE <<[code |-> "Ok", cerV |-> split.cerV]>>
  IN  /\ j.pc = "lookup"
      /\ job' = Becomes(c,
           CASE j.ix + 1 \in Lookups -> [j EXCEPT !.cerV = cerV, !.ix = @ + 1]
             [] j.ix + 1 \notin Lookups /\ queryForwardsPending(pruned) ->
                  [j EXCEPT !.pc = "forward", !.ix = 0, !.cerV = <<>>, !.requestV = split.requestV,
                            !.responseV = local]
             [] OTHER -> [j EXCEPT !.pc = "done", !.cerV = pruned,
                                   !.code = IF pruned = <<>> THEN Failed.code ELSE "Ok"], stores)
      /\ UNCHANGED <<stores, regs, made>>

\* outcome: "answered", "unanswered" (done, but the answer is lost or cannot
\* be read) or "lost".
updateForward(c, outcome) ==
  LET j == job[c]
      request == j.requestV[j.ix + 1]
      p == request.contextProvider
      done == ProviderUpdate(stores[p], request.elements)
      st == IF outcome = "lost" THEN stores ELSE [stores EXCEPT ![p] = done.store]
      merged == merge([code |-> j.code, cerV |-> j.cerV],
                      IF outcome = "answered" THEN done.answer ELSE Failed)
  IN  /\ Pending(c) /\ j.req.kind = "update"
      /\ p \in Unreachable => outcome = "lost"
      /\ stores' = st
      /\ job' = Becomes(c, [j EXCEPT !.ix = @ + 1, !.code = merged.code, !.cerV = merged.cerV,
                                     !.written = IF outcome = "lost" THEN @
                                                 ELSE @ \cup Effect(p, st[p], request.elements)],
                        st)
      /\ UNCHANGED <<regs, made>>

queryForward(c, outcome) ==
  LET j == job[c]
      request == j.requestV[j.ix + 1]
      p == request.contextProvider
      answer == IF outcome = "answered" THEN ProviderQuery(stores[p], request.enV, request.attrL)
                ELSE Failed
  IN  /\ Pending(c) /\ j.req.kind = "query"
      /\ p \in Unreachable => outcome # "answered"
      /\ job' = Becomes(c, [j EXCEPT !.ix = @ + 1, !.responseV = Append(@, answer),
                                     !.steady = @ /\ outcome = "answered"], stores)
      /\ UNCHANGED <<stores, regs, made>>

\* All providers that may be asked were asked.
Answered(c) ==
  LET j == job[c]
      answer == IF j.req.kind = "update" THEN UpdateContextResponse(j.code, j.cerV)
                ELSE populate(j.responseV)
  IN  /\ j.pc = "forward" /\ ~Pending(c)
      /\ job' = Becomes(c, [j EXCEPT !.pc = "done", !.code = answer.code, !.cerV = answer.cerV],
                        stores)
      /\ UNCHANGED <<stores, regs, made>>

\* The client has the answer.
Leave(c) ==
  /\ job[c].pc = "done"
  /\ job' = [job EXCEPT ![c] = Idle]
  /\ UNCHANGED <<stores, regs, made>>

\* Registrations are made, changed and expire.
Reregister(new) ==
  /\ regs # new
  /\ regs' = new
  /\ job' = [c \in Clients |-> [job[c] EXCEPT !.steady = (job[c].pc = "idle")]]
  /\ UNCHANGED <<stores, made>>

Outcomes == {"answered", "unanswered", "lost"}

Init == /\ stores = InitialStores
        /\ regs \in RegistrationSets
        /\ job = [c \in Clients |-> Idle]
        /\ made = 0

Serve(c) ==
  \/ LookUp(c)
  \/ \E outcome \in Outcomes : updateForward(c, outcome)
  \/ \E outcome \in Outcomes : queryForward(c, outcome)
  \/ Answered(c)

Next ==
  \/ \E c \in Clients : \/ \E req \in Updates[c] : \E faults \in FaultsOf(c, req) :
                             postUpdateContext(c, req, faults)
                        \/ \E req \in Queries[c] : postQueryContext(c, req)
                        \/ Serve(c)
                        \/ Leave(c)
  \/ \E new \in RegistrationSets : Reregister(new)

Spec == Init /\ [][Next]_vars

-----------------------------------------------------------------------------
(* Properties                                                               *)

DoneUpdate(c) == job[c].pc = "done" /\ job[c].req.kind = "update" /\ job[c].req.action # "DELETE"
DoneQuery(c) == job[c].pc = "done" /\ job[c].req.kind = "query"

\* Everything has its type; an answer has elements or is an error.
TypeOK ==
  /\ made \in 0..MaxRequests /\ DOMAIN stores = Nodes /\ regs \in RegistrationSets /\ DOMAIN job = Clients
  /\ \A c \in Clients :
       /\ job[c].pc \in {"idle", "lookup", "forward", "done"}
       /\ job[c].code \in Codes
       /\ job[c].pc = "done" => (job[c].cerV = <<>>) = (job[c].code # "Ok")

\* The local update of the entity was refused or failed, yet its attributes
\* are reported with 200: foundAndNotFoundAttributeSeparation and foundPush
\* give that code to what was found in an UPDATE of which some attribute was
\* not found, or something is forwarded.
Whitewashed(j, en) ==
  /\ j.req.action = "UPDATE"
  /\ \E f \in j.faults : f[1] \in {"refuse", "trigger", "update"} /\ f[2] = en.id /\ f[3] = en.type
  /\ \/ j.requestV # <<>>
     \/ \E i \in DOMAIN j.cerV : /\ j.cerV[i].id = en.id /\ j.cerV[i].type = en.type
                                /\ j.cerV[i].code = "ContextElementNotFound"

\* An attribute that the answer to an UPDATE or an APPEND reports with 200 was
\* written with the value of the request, and in one place: in the local
\* database or by the one provider that it was forwarded to
\* (postUpdateContext). Excepted are the entities whose local update was
\* refused or failed in an UPDATE that was not all local.
OkIsWritten ==
  \A c \in Clients : DoneUpdate(c) =>
    \A i \in DOMAIN job[c].cerV :
      LET cer == job[c].cerV[i]
      IN  cer.code = "Ok" /\ ~Whitewashed(job[c], cer) =>
            \A k \in DOMAIN cer.attributes :
              Cardinality({f \in job[c].written : /\ f[2] = cer.id /\ f[3] = cer.type
                                                  /\ f[4] = cer.attributes[k].name}) = 1

\* What processContextElement does not come to: the attributes of an element
\* whose query fails, and those behind one that is refused or whose
\* subscriptions are not found.
Skipped(id, attributes, k, faults) ==
  \E f \in faults :
    /\ f[2] = id
    /\ \/ f[1] = "query"
       \/ f[1] \in {"refuse", "trigger"} /\ \E n \in 1..(k - 1) : attributes[n].name = f[4]

\* Every attribute of an UPDATE or an APPEND is in the answer, as found or as
\* not found, unless the answer is an error as a whole, processContextElement
\* did not come to the attribute, its provider was beyond cprForwardLimit, or
\* it was forwarded without its value. (A DELETE ends at the first attribute
\* that is not there.)
NothingForgotten ==
  \A c \in Clients : DoneUpdate(c) /\ job[c].code = "Ok" =>
    LET j == job[c]
        Named(elements, id, name) ==
          \E i \in DOMAIN elements :
            /\ elements[i].id = id
            /\ \E k \in DOMAIN elements[i].attributes : elements[i].attributes[k].name = name
        Unsaid(id, name) ==
          \E n \in DOMAIN j.requestV :
            /\ Named(j.requestV[n].elements, id, name)
            /\ \/ n > cprForwardLimit
               \/ \E i \in DOMAIN j.requestV[n].elements :
                    \E k \in DOMAIN j.requestV[n].elements[i].attributes :
                      j.requestV[n].elements[i].attributes[k].value = Nothing
    IN  \A i \in DOMAIN j.req.elements : \A k \in DOMAIN j.req.elements[i].attributes :
          LET id == j.req.elements[i].id
              name == j.req.elements[i].attributes[k].name
          IN  \/ Named(j.cerV, id, name) \/ Unsaid(id, name)
              \/ Skipped(id, j.req.elements[i].attributes, k, j.faults)

InAnswer(c, f) ==
  \E i \in DOMAIN job[c].cerV :
    LET cer == job[c].cerV[i]
    IN  /\ cer.code = "Ok" /\ cer.id = f[2] /\ cer.type = f[3]
        /\ \E k \in DOMAIN cer.attributes :
             cer.attributes[k].name = f[4] /\ cer.attributes[k].value = f[5]

\* What a query finds in the local database is in its answer, whatever becomes
\* of the registrations and of the providers that are asked for the rest.
LocalKept == \A c \in Clients : DoneQuery(c) => \A f \in job[c].held : InAnswer(c, f)

\* A value in the answer to a query was the value of that attribute of that
\* entity, at the broker or at a provider, at some time while it was served.
ValuesWereTrue ==
  \A c \in Clients : DoneQuery(c) =>
    \A i \in DOMAIN job[c].cerV : \A k \in DOMAIN job[c].cerV[i].attributes :
      LET cer == job[c].cerV[i]
          a == cer.attributes[k]
      IN  \E f \in job[c].seen : <<f[2], f[3], f[4], f[5]>> = <<cer.id, cer.type, a.name, a.value>>

\* The providers that are registered for the attribute of the entity.
OwnersOf(id, type, name) ==
  {p \in Providers :
     \E d \in DOMAIN regs : \E n \in DOMAIN regs[d].crs :
       LET cr == regs[d].crs[n]
       IN  /\ cr.app = p
           /\ \E i \in DOMAIN cr.entities : cr.entities[i].id = id /\ cr.entities[i].type = type
           /\ cr.attrs = <<>> \/ Contains(cr.attrs, name)}

\* What a query asks for by the id and the type of its entity, the local
\* database does not have and one provider is registered for is in the answer,
\* if the provider had it all the time, the registrations stayed, every forward
\* was answered and none was beyond the limit.
ProvidersAsked ==
  \A c \in Clients : DoneQuery(c) /\ job[c].steady /\ Len(job[c].requestV) <= cprForwardLimit =>
    \A f \in job[c].kept :
      LET j == job[c]
      IN  /\ OwnersOf(f[2], f[3], f[4]) = {f[1]}
          /\ Contains(j.req.enV, [id |-> f[2], type |-> f[3], isPattern |-> "false"])
          /\ includedAttribute(f[4], j.req.attrL)
          /\ ~\E g \in j.held : <<g[2], g[3], g[4]>> = <<f[2], f[3], f[4]>>
          => InAnswer(c, f)

=============================================================================
