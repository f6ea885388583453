---------------------------- MODULE Registrations ----------------------------
(***************************************************************************)
(* The registry of context providers (NGSI9): registerContext,             *)
(* notifyContextAvailability, discoverContextAvailability, and the         *)
(* subscriptions to the availability of context. One database operation    *)
(* per step; a handler runs under the request semaphore.                   *)
(*                                                                         *)
(* When the broker is started with a configuration manager (fwdPort # 0),  *)
(* postRegisterContext passes every registration on to it and keeps the    *)
(* identifier that the manager gave it. Those steps are outside the        *)
(* semaphore, or take it once more.                                        *)
(***************************************************************************)
EXTENDS RegistryQuery, ReqSem, Integers, Functions

CONSTANTS
  RegIds,         \* bound: registrations ever made, 1 to some n in order of _id
  SubIds,         \* bound: availability subscriptions ever made
  MalformedId,    \* an identifier that OID() does not accept
  Requests,       \* the requests of the clients
  DefaultDuration,\* DEFAULT_DURATION
  MaxClock,       \* bound: last value of the clock
  MaxRequests,    \* bound: requests of all clients
  Forward,        \* TRUE: fwdPort # 0
  SharedUpdates,  \* TRUE: several clients may update one registration at a time
  Faults          \* which of "association", "query", "write", "count", "link" fail

ASSUME RegistrationsAssumption ==
  /\ IsFiniteSet(RegIds) /\ RegIds = 1..Cardinality(RegIds)
  /\ MalformedId \notin RegIds \union SubIds
  /\ RegIds \intersect SubIds = {}
  /\ MaxClock \in Nat /\ MaxRequests \in Nat
  /\ Forward \in BOOLEAN /\ SharedUpdates \in BOOLEAN
  /\ Faults \subseteq {"association", "query", "write", "count", "link"}

NoId == 0
Absent == -1
NoReg == [exists |-> FALSE, crs |-> <<>>, expiration |-> Absent, path |-> <<>>, fwdRegId |-> NoId]
NoSub == [exists |-> FALSE, enV |-> <<>>, attrL |-> <<>>, expiration |-> Absent,
          count |-> 0, lastNotification |-> Absent]

VARIABLES
  clock,
  registrations,  \* the collection: RegIds -> document
  casubs,         \* the collection: SubIds -> document
  associations,   \* the collection: name -> document
  pc, req,        \* where each request thread is, and its request
  job,            \* its local variables
  confman,        \* the configuration manager: identifiers it gave -> registration
  sent,           \* notifications handed to the Notifier for each subscription
  uncounted,      \* those whose mongoUpdateCasubNewNotification failed
  linked,         \* registrations whose fwdRegId has been stored
  requests        \* requests the clients have left

data == <<clock, registrations, casubs, associations, confman, sent, uncounted, linked>>
vars == <<data, semVars, pc, req, job, requests>>

NoRequest == [op |-> "none"]

\* cr, md: the loops of processRegisterContext. todo: the map subsToNotify.
NoJob ==
  [id |-> NoId, cr |-> 1, md |-> 1, triggered |-> {}, todo |-> {}, sub |-> NoId,
   read |-> NoSub, found |-> <<>>, crrV |-> <<>>, fwdRegId |-> NoId, code |-> "None",
   wrote |-> FALSE, notified |-> {}, failed |-> FALSE, from |-> Absent]

Goto(w, label) == pc' = [pc EXCEPT ![w] = label]
SetJob(w, value) == job' = [job EXCEPT ![w] = value]
Answer(w, value) == SetJob(w, value) /\ Goto(w, "answer")
Fail(w, code) == Answer(w, [job[w] EXCEPT !.code = code, !.failed = TRUE])

Init ==
  /\ clock = 0
  /\ registrations = [r \in RegIds |-> NoReg]
  /\ casubs = [s \in SubIds |-> NoSub]
  /\ associations = <<>>
  /\ semInit
  /\ pc = [w \in Workers |-> "idle"]
  /\ req = [w \in Workers |-> NoRequest]
  /\ job = [w \in Workers |-> NoJob]
  /\ confman = <<>>
  /\ sent = [s \in SubIds |-> 0]
  /\ uncounted = [s \in SubIds |-> 0]
  /\ linked = {}
  /\ requests = MaxRequests

\* The documents of the collection in the order of their _id.
Documents == Those(registrations, LAMBDA doc : doc.exists)

Free(ids, docs) == {i \in ids : ~docs[i].exists /\ \A w \in Workers : job[w].id # i}

-----------------------------------------------------------------------------
(* A request comes in, and takes the semaphore                              *)

IsRegister(r) == r.op \in {"register", "notifyAvailability"}
IsNewRegistration(r) == r.op = "notifyAvailability" \/ (r.op = "register" /\ r.id = NoId)
Registering(w, id) == req[w].op = "register" /\ req[w].id = id

\* Durations are numbers, and what the parsers build are vectors.
ASSUME RequestsAssumption ==
  /\ DefaultDuration \in Nat
  /\ \A r \in Requests :
       IsRegister(r) =>
         /\ r.duration \in Nat \union {Absent}
         /\ IsSeq(r.crs)
         /\ \A i \in DOMAIN r.crs : IsSeq(r.crs[i].entities) /\ IsSeq(r.crs[i].attrs)
  /\ \A r \in Requests :
       r.op \in {"subscribe", "updateSubscription"} =>
         r.duration \in Nat \union {Absent} /\ IsSeq(r.attrL)

\* Bound: identifiers that are left for the requests under way and one more.
Room(ids, docs, users) == Cardinality(users) < Cardinality({i \in ids : ~docs[i].exists})

\* A client knows the identifier of a registration once it has been answered.
CanUpdate(id) ==
  id \in RegIds =>
    /\ registrations[id].exists
    /\ \A w \in Workers : job[w].id = id => req[w].op = "register" /\ req[w].id = id
    /\ SharedUpdates \/ ~\E w \in Workers : Registering(w, id)

ReceiveRequest(w) ==
  /\ pc[w] = "idle" /\ requests > 0
  /\ \E r \in Requests :
       /\ r.op = "register" /\ r.id # NoId => CanUpdate(r.id)
       /\ IsNewRegistration(r) => Room(RegIds, registrations, {v \in Workers : IsNewRegistration(req[v])})
       /\ r.op = "subscribe" => Room(SubIds, casubs, {v \in Workers : req[v].op = "subscribe"})
       /\ req' = [req EXCEPT ![w] = r]
       /\ Goto(w, IF Forward /\ r.op = "register" /\ r.id # NoId THEN "getFwd" ELSE "take")
  /\ requests' = requests - 1
  /\ UNCHANGED <<data, semVars, job>>

\* Only a discovery is a read. oid.init() gives a new registration and a new
\* subscription their identifiers, at once.
TakeSem(w) ==
  /\ pc[w] = "take"
  /\ reqSemTake(w, IF req[w].op = "discover" THEN "read" ELSE "write")
  /\ \/ /\ IsNewRegistration(req[w])
        /\ \E r \in Free(RegIds, registrations) :
             SetJob(w, [job[w] EXCEPT !.id = r, !.from = clock])
        /\ Goto(w, "associations")
     \/ /\ req[w].op = "subscribe"
        /\ \E s \in Free(SubIds, casubs) : SetJob(w, [job[w] EXCEPT !.id = s])
        /\ Goto(w, "insert")
     \/ /\ req[w].op = "discover"
        /\ Goto(w, IF req[w].scope = "none" THEN "discover" ELSE "discoverAssociations")
        /\ UNCHANGED job
     \/ /\ req[w].op = "register" /\ req[w].id # NoId
        /\ Goto(w, "findRegistration") /\ UNCHANGED job
     \/ /\ req[w].op \in {"updateSubscription", "unsubscribe"}
        /\ Goto(w, "findSubscription") /\ UNCHANGED job
  /\ UNCHANGED <<data, req, requests>>

-----------------------------------------------------------------------------
(* mongoRegisterContext and processRegisterContext                          *)

\* A malformed identifier is answered like an unknown one.
Registered(id, path) ==
  id \in RegIds /\ registrations[id].exists /\ registrations[id].path = path

FindRegistration(w) ==
  /\ pc[w] = "findRegistration"
  /\ LET id == req[w].id IN
     \/ "query" \in Faults /\ Fail(w, "ReceiverInternalError")
     \/ ~Registered(id, req[w].path) /\ Fail(w, "ContextElementNotFound")
     \/ /\ Registered(id, req[w].path)
        /\ SetJob(w, [job[w] EXCEPT !.id = id, !.from = clock])
        /\ Goto(w, "associations")
  /\ UNCHANGED <<data, semVars, req, requests>>

Cr(w) == req[w].crs[job[w].cr]

\* The database has one association of a name.
processAssociations(w) ==
  /\ pc[w] = "associations"
  /\ \/ /\ job[w].md > Len(Cr(w).mdV)
        /\ Goto(w, "trigger")
        /\ UNCHANGED <<associations, job>>
     \/ /\ job[w].md <= Len(Cr(w).mdV)
        /\ LET md == Cr(w).mdV[job[w].md] IN
           \/ /\ md.name \in DOMAIN associations \/ "association" \in Faults
              /\ Fail(w, "ReceiverInternalError")
              /\ UNCHANGED associations
           \/ /\ md.name \notin DOMAIN associations
              /\ associations' = (md.name :> md) @@ associations
              /\ SetJob(w, [job[w] EXCEPT !.md = @ + 1])
              /\ UNCHANGED pc
  /\ UNCHANGED <<clock, registrations, casubs, confman, sent, uncounted, linked, semVars, req, requests>>

\* The part of the query for subscriptions to entities: {id, type, "false"} is
\* compared as a whole, so an entity without type is never equal.
NoPatternMatch(cr, sub) ==
  /\ \E i \in DOMAIN cr.entities, j \in DOMAIN sub.enV :
       /\ cr.entities[i].isPattern = "false" /\ sub.enV[j].isPattern = "false"
       /\ cr.entities[i].id = sub.enV[j].id
       /\ cr.entities[i].type = sub.enV[j].type /\ sub.enV[j].type # AnyType
  /\ sub.attrL = <<>> \/ Range(cr.attrs) \intersect Range(sub.attrL) # {}

\* The part for subscriptions with patterns, a function that runs in the database.
PatternMatch(cr, sub) ==
  \E i \in DOMAIN cr.entities, j \in DOMAIN sub.enV :
    /\ cr.entities[i].isPattern = "false" /\ sub.enV[j].isPattern = "true"
    /\ Like(sub.enV[j].id, cr.entities[i].id)
    /\ cr.entities[i].type = sub.enV[j].type /\ sub.enV[j].type # AnyType

\* Mutant: only subscriptions to all attributes are triggered.
addTriggeredSubscriptionsAllAttrs(cr) ==
  {s \in SubIds : /\ casubs[s].exists /\ casubs[s].expiration > clock
                  /\ casubs[s].attrL = <<>>
                  /\ NoPatternMatch(cr, casubs[s]) \/ PatternMatch(cr, casubs[s])}

addTriggeredSubscriptions(cr) ==
  {s \in SubIds : /\ casubs[s].exists /\ casubs[s].expiration > clock
                  /\ NoPatternMatch(cr, casubs[s]) \/ PatternMatch(cr, casubs[s])}

\* Associations that were inserted before a failure stay.
TriggerQuery(w) ==
  /\ pc[w] = "trigger"
  /\ \/ "query" \in Faults /\ Fail(w, "ReceiverInternalError")
     \/ /\ LET new == {s \in addTriggeredSubscriptions(Cr(w)) :
                         ~\E t \in job[w].triggered : t.sub = s}
           IN  SetJob(w, [job[w] EXCEPT !.triggered = @ \union
                            {[sub |-> s, attrL |-> casubs[s].attrL] : s \in new},
                          !.cr = @ + 1, !.md = 1])
        /\ Goto(w, IF job[w].cr = Len(req[w].crs) THEN "upsert" ELSE "associations")
  /\ UNCHANGED <<data, semVars, req, requests>>

\* Mutant: the subscriptions are notified whether the write succeeded or not.
processRegisterContextIgnoresFailure(w) ==
  /\ pc[w] = "upsert"
  /\ \E ok \in BOOLEAN :
       /\ registrations' = [registrations EXCEPT ![job[w].id] =
            IF ok THEN [exists |-> TRUE, crs |-> req[w].crs, path |-> req[w].path,
                        fwdRegId |-> NoId, expiration |-> job[w].from + DefaultDuration]
                  ELSE @]
       /\ SetJob(w, [job[w] EXCEPT !.todo = job[w].triggered, !.wrote = ok,
                                   !.code = IF ok THEN "Ok" ELSE "ReceiverInternalError"])
  /\ Goto(w, "notify")
  /\ UNCHANGED <<clock, casubs, associations, confman, sent, uncounted, linked, semVars, req, requests>>

\* The new document replaces the old one, with its fwdRegId. The expiration was
\* computed when the handler began.
processRegisterContext(w) ==
  /\ pc[w] = "upsert"
  /\ \/ /\ "write" \in Faults
        /\ Fail(w, "ReceiverInternalError")
        /\ UNCHANGED registrations
     \/ /\ registrations' = [registrations EXCEPT ![job[w].id] =
             [exists |-> TRUE, crs |-> req[w].crs, path |-> req[w].path, fwdRegId |-> NoId,
              expiration |-> job[w].from + (IF req[w].duration = Absent THEN DefaultDuration
                                            ELSE req[w].duration)]]
        /\ SetJob(w, [job[w] EXCEPT !.todo = job[w].triggered, !.wrote = TRUE, !.code = "Ok"])
        /\ Goto(w, "notify")
  /\ UNCHANGED <<clock, casubs, associations, confman, sent, uncounted, linked, semVars, req, requests>>

-----------------------------------------------------------------------------
(* processSubscriptions and processAvailabilitySubscription                 *)

\* triggerEntitiesV, all the entities of the registration; or the entities of
\* the subscription.
NotifyEntities(w) ==
  IF IsRegister(req[w])
    THEN FlattenSeq([i \in DOMAIN req[w].crs |-> req[w].crs[i].entities])
    ELSE req[w].enV

\* The query, and the notification if it found something: it is handed to the
\* Notifier, which drops it when the reference of the subscription is no URL,
\* and nobody learns of that. A failure is only logged. The service path of a subscription is not kept: every path is looked at.
processAvailabilitySubscription(w) ==
  /\ pc[w] = "notify" /\ job[w].todo # {}
  /\ \E t \in job[w].todo :
       LET crrV == registrationsQuery(Documents, NotifyEntities(w), t.attrL, <<>>, clock, 0, 0).crrV
           rest == [job[w] EXCEPT !.todo = @ \ {t}]
       IN  \/ /\ "query" \in Faults
              /\ SetJob(w, [rest EXCEPT !.failed = TRUE])
              /\ UNCHANGED <<pc, sent>>
           \/ /\ crrV = <<>>
              /\ SetJob(w, rest)
              /\ UNCHANGED <<pc, sent>>
           \/ /\ crrV # <<>>
              /\ sent' = [sent EXCEPT ![t.sub] = @ + 1]
              /\ SetJob(w, [rest EXCEPT !.sub = t.sub, !.crrV = crrV,
                                        !.notified = @ \union {t.sub}])
              /\ Goto(w, "count")
  /\ UNCHANGED <<clock, registrations, casubs, associations, confman, uncounted, linked, semVars, req, requests>>

mongoUpdateCasubNewNotification(w) ==
  /\ pc[w] = "count"
  /\ \/ /\ casubs' = [casubs EXCEPT ![job[w].sub] =
             IF @.exists THEN [@ EXCEPT !.count = @ + 1, !.lastNotification = clock] ELSE @]
        /\ UNCHANGED uncounted
     \/ /\ "count" \in Faults
        /\ uncounted' = [uncounted EXCEPT ![job[w].sub] = @ + 1]
        /\ UNCHANGED casubs
  /\ Goto(w, "notify")
  /\ SetJob(w, [job[w] EXCEPT !.sub = NoId])
  /\ UNCHANGED <<clock, registrations, associations, confman, sent, linked, semVars, req, requests>>

NotifyDone(w) ==
  /\ pc[w] = "notify" /\ job[w].todo = {}
  /\ Goto(w, "answer")
  /\ UNCHANGED <<data, semVars, req, job, requests>>

-----------------------------------------------------------------------------
(* Availability subscriptions                                               *)

NotifyItself(w, s) == [job[w] EXCEPT !.todo = {[sub |-> s, attrL |-> req[w].attrL]}, !.code = "Ok"]

mongoSubscribeContextAvailability(w) ==
  /\ pc[w] = "insert"
  /\ \/ "write" \in Faults /\ Fail(w, "ReceiverInternalError") /\ UNCHANGED casubs
     \/ /\ casubs' = [casubs EXCEPT ![job[w].id] =
             [NoSub EXCEPT !.exists = TRUE, !.enV = req[w].enV, !.attrL = req[w].attrL,
                           !.expiration = clock + (IF req[w].duration = Absent
                                                   THEN DefaultDuration ELSE req[w].duration)]]
        /\ SetJob(w, NotifyItself(w, job[w].id))
        /\ Goto(w, "notify")
  /\ UNCHANGED <<clock, registrations, associations, confman, sent, uncounted, linked, semVars, req, requests>>

Subscribed(id) == id \in SubIds /\ casubs[id].exists

FindSubscription(w) ==
  /\ pc[w] = "findSubscription"
  /\ LET id == req[w].id IN
     \/ "query" \in Faults /\ Fail(w, "ReceiverInternalError")
     \/ ~Subscribed(id) /\ Fail(w, "ContextElementNotFound")
     \/ /\ Subscribed(id)
        /\ SetJob(w, [job[w] EXCEPT !.read = casubs[id]])
        /\ Goto(w, IF req[w].op = "unsubscribe" THEN "remove" ELSE "replace")
  /\ UNCHANGED <<data, semVars, req, requests>>

\* The new document is made of the request and of what was read.
mongoUpdateContextAvailabilitySubscription(w) ==
  /\ pc[w] = "replace"
  /\ \/ "write" \in Faults /\ Fail(w, "ReceiverInternalError") /\ UNCHANGED casubs
     \/ /\ casubs' = [casubs EXCEPT ![req[w].id] =
             IF @.exists
               THEN [job[w].read EXCEPT !.enV = req[w].enV, !.attrL = req[w].attrL,
                       !.expiration = IF req[w].duration = Absent THEN @
                                      ELSE clock + req[w].duration]
               ELSE @]
        /\ SetJob(w, NotifyItself(w, req[w].id))
        /\ Goto(w, "notify")
  /\ UNCHANGED <<clock, registrations, associations, confman, sent, uncounted, linked, semVars, req, requests>>

mongoUnsubscribeContextAvailability(w) ==
  /\ pc[w] = "remove"
  /\ \/ "write" \in Faults /\ Fail(w, "ReceiverInternalError") /\ UNCHANGED <<casubs, sent, uncounted>>
     \/ /\ casubs' = [casubs EXCEPT ![req[w].id] = NoSub]
        /\ sent' = [sent EXCEPT ![req[w].id] = 0]
        /\ uncounted' = [uncounted EXCEPT ![req[w].id] = 0]
        /\ Answer(w, [job[w] EXCEPT !.code = "Ok"])
  /\ UNCHANGED <<clock, registrations, associations, confman, linked, semVars, req, requests>>

-----------------------------------------------------------------------------
(* mongoDiscoverContextAvailability                                         *)

conventionalDiscoverContextAvailability(w) ==
  /\ pc[w] = "discover"
  /\ \/ "query" \in Faults /\ Fail(w, "ReceiverInternalError")
     \/ LET crrV == registrationsQuery(Documents, req[w].enV, req[w].attrL, req[w].servicePathV,
                                       clock, req[w].offset, req[w].limit).crrV
        IN  Answer(w, [job[w] EXCEPT !.crrV = crrV,
                         !.code = IF crrV = <<>> THEN "ContextElementNotFound" ELSE "Ok"])
  /\ UNCHANGED <<data, semVars, req, requests>>

\* With SOURCES the request names targets, and the other way round. Entities are
\* compared as a whole, with their type.
AssociationMatches(a, r) ==
  LET End(pair) == IF r.scope = "SOURCES" THEN pair.target ELSE pair.source
      attrs == {End(a.attrs[i]) : i \in DOMAIN a.attrs}
  IN  /\ \E i \in DOMAIN r.enV :
           /\ r.enV[i].type # AnyType
           /\ End(a).id = r.enV[i].id /\ End(a).type = r.enV[i].type
      /\ r.attrL # <<>> => attrs \intersect Range(r.attrL) # {}

associationsQuery(r) ==
  LET names == SetToSortSeq({n \in DOMAIN associations : AssociationMatches(associations[n], r)}, <)
  IN  Page([i \in DOMAIN names |-> associations[names[i]]], r.offset, r.limit)

StartAssociations(w) ==
  /\ pc[w] = "discoverAssociations"
  /\ \/ req[w].scope = "ALL" /\ Fail(w, "NotImplemented")
     \/ req[w].scope # "ALL" /\ "query" \in Faults /\ Fail(w, "ReceiverInternalError")
     \/ /\ req[w].scope # "ALL"
        /\ SetJob(w, [job[w] EXCEPT !.found = associationsQuery(req[w])])
        /\ Goto(w, "discoverAssociated")
  /\ UNCHANGED <<data, semVars, req, requests>>

\* One registrationsQuery for each association, for the entity at the other end.
associationsDiscoverContextAvailability(w) ==
  /\ pc[w] = "discoverAssociated"
  /\ \/ /\ job[w].found = <<>>
        /\ Answer(w, [job[w] EXCEPT !.code = IF job[w].crrV = <<>> THEN "ContextElementNotFound" ELSE "Ok"])
     \/ /\ job[w].found # <<>> /\ "query" \in Faults /\ Fail(w, "ReceiverInternalError")
     \/ /\ job[w].found # <<>>
        /\ LET a == Head(job[w].found)
               Other(pair) == IF req[w].scope = "SOURCES" THEN pair.source ELSE pair.target
               en == [id |-> Other(a).id, type |-> Other(a).type, isPattern |-> ""]
               attrL == [i \in DOMAIN a.attrs |-> Other(a.attrs[i])]
               crrV == registrationsQuery(Documents, <<en>>, attrL, req[w].servicePathV, clock, 0, 0).crrV
           IN  SetJob(w, [job[w] EXCEPT !.found = Tail(@), !.crrV = @ \o crrV])
        /\ UNCHANGED pc
  /\ UNCHANGED <<data, semVars, req, requests>>

-----------------------------------------------------------------------------
(* The answer                                                               *)

\* reqSemGive with its default argument 'taken = true'.
reqSemGiveDefault(w) ==
  /\ reqSem' = reqSem + 1
  /\ reqSemTaken' = [reqSemTaken EXCEPT ![w] = FALSE]

Forwarded(w) == Forward /\ req[w].op = "register"

\* Mutant: a request that found nothing returns without giving the semaphore.
GiveSemEarlyReturn(w) ==
  /\ pc[w] = "answer"
  /\ IF job[w].code = "ContextElementNotFound" THEN ReturnWithoutGive(w) ELSE reqSemGive(w)
  /\ req' = [req EXCEPT ![w] = NoRequest] /\ SetJob(w, NoJob) /\ Goto(w, "idle")
  /\ UNCHANGED <<data, requests>>

GiveSem(w) ==
  /\ pc[w] = "answer"
  /\ IF req[w].op = "discover" /\ req[w].scope # "none" THEN reqSemGiveDefault(w) ELSE reqSemGive(w)
  /\ IF Forwarded(w)
       THEN /\ Goto(w, IF req[w].id = NoId THEN "forwardNew" ELSE "setFwd")
            /\ UNCHANGED <<req, job>>
       ELSE req' = [req EXCEPT ![w] = NoRequest] /\ SetJob(w, NoJob) /\ Goto(w, "idle")
  /\ UNCHANGED <<data, requests>>

-----------------------------------------------------------------------------
(* registerContextForward                                                   *)

\* mongoGetFwdRegId, under the semaphore for itself. An identifier that is
\* malformed or unknown gives "".
mongoGetFwdRegId(w) ==
  /\ pc[w] = "getFwd" /\ WithReqSem("read")
  /\ \/ SetJob(w, [job[w] EXCEPT !.fwdRegId =
                     IF req[w].id = MalformedId THEN NoId ELSE registrations[req[w].id].fwdRegId])
     \/ "link" \in Faults /\ UNCHANGED job
  /\ Goto(w, "take")
  /\ UNCHANGED <<data, req, requests>>

\* What the configuration manager (external) does with a registration: an
\* identifier it knows is updated, without one it makes a new registration.
Received(w, fwdRegId) ==
  confman' = IF fwdRegId = NoId THEN Append(confman, job[w].id) ELSE confman

\* A new registration is passed on whether or not the broker accepted it. The
\* answer may be lost or unreadable.
ForwardNew(w) ==
  /\ pc[w] = "forwardNew"
  /\ \/ /\ Received(w, NoId)
        /\ SetJob(w, [job[w] EXCEPT !.fwdRegId = Len(confman) + 1])
        /\ Goto(w, "setFwd")
     \/ /\ confman' = confman \/ Received(w, NoId)
        /\ Goto(w, "done") /\ UNCHANGED job
  /\ UNCHANGED <<clock, registrations, casubs, associations, sent, uncounted, linked, semVars, req, requests>>

\* rcrP->registrationId: not set when the database failed.
AnsweredId(w) ==
  CASE job[w].code = "Ok" -> job[w].id
    [] job[w].code = "ContextElementNotFound" -> req[w].id
    [] OTHER -> NoId

\* Mutant: the identifier is written only by the first registration.
mongoSetFwdRegIdNewOnly(w) ==
  /\ pc[w] = "setFwd" /\ WithReqSem("write")
  /\ IF req[w].id = NoId /\ AnsweredId(w) # NoId
       THEN /\ registrations' = [registrations EXCEPT ![AnsweredId(w)].fwdRegId = job[w].fwdRegId]
            /\ linked' = linked \union {AnsweredId(w)}
       ELSE UNCHANGED <<registrations, linked>>
  /\ Goto(w, IF req[w].id = NoId THEN "done" ELSE "forwardUpdate")
  /\ UNCHANGED <<clock, casubs, associations, confman, sent, uncounted, req, job, requests>>

mongoSetFwdRegId(w) ==
  /\ pc[w] = "setFwd" /\ WithReqSem("write")
  /\ LET r == AnsweredId(w)
         stored == r \in RegIds /\ registrations[r].exists
     IN
     \/ /\ stored
        /\ registrations' = [registrations EXCEPT ![r].fwdRegId = job[w].fwdRegId]
        /\ linked' = IF job[w].fwdRegId = NoId THEN linked ELSE linked \union {r}
     \/ /\ ~stored \/ "link" \in Faults
        /\ UNCHANGED <<registrations, linked>>
  /\ Goto(w, IF req[w].id = NoId THEN "done" ELSE "forwardUpdate")
  /\ UNCHANGED <<clock, casubs, associations, confman, sent, uncounted, req, job, requests>>

ForwardUpdate(w) ==
  /\ pc[w] = "forwardUpdate"
  /\ confman' = confman \/ Received(w, job[w].fwdRegId)
  /\ Goto(w, "done")
  /\ UNCHANGED <<clock, registrations, casubs, associations, sent, uncounted, linked, semVars, req, job, requests>>

ForwardDone(w) ==
  /\ pc[w] = "done"
  /\ req' = [req EXCEPT ![w] = NoRequest] /\ SetJob(w, NoJob) /\ Goto(w, "idle")
  /\ UNCHANGED <<data, semVars, requests>>

Tick ==
  /\ clock < MaxClock
  /\ clock' = clock + 1
  /\ UNCHANGED <<registrations, casubs, associations, confman, sent, uncounted, linked, semVars, pc, req, job, requests>>

-----------------------------------------------------------------------------
Step(w) ==
  \/ TakeSem(w)
  \/ FindRegistration(w)
  \/ processAssociations(w)
  \/ TriggerQuery(w)
  \/ processRegisterContext(w)
  \/ processAvailabilitySubscription(w)
  \/ mongoUpdateCasubNewNotification(w)
  \/ NotifyDone(w)
  \/ mongoSubscribeContextAvailability(w)
  \/ FindSubscription(w)
  \/ mongoUpdateContextAvailabilitySubscription(w)
  \/ mongoUnsubscribeContextAvailability(w)
  \/ conventionalDiscoverContextAvailability(w)
  \/ StartAssociations(w)
  \/ associationsDiscoverContextAvailability(w)
  \/ GiveSem(w)
  \/ mongoGetFwdRegId(w)
  \/ ForwardNew(w)
  \/ mongoSetFwdRegId(w)
  \/ ForwardUpdate(w)
  \/ ForwardDone(w)

Next == Tick \/ \E w \in Workers : ReceiveRequest(w) \/ Step(w)

Spec == Init /\ [][Next]_vars

-----------------------------------------------------------------------------
(* Properties                                                               *)

WriteSection == {"associations", "trigger", "upsert", "notify", "count", "insert",
                 "findRegistration", "findSubscription", "replace", "remove"}

PC == WriteSection \union {"idle", "take", "discover", "discoverAssociations",
       "discoverAssociated", "answer", "getFwd", "forwardNew", "setFwd", "forwardUpdate", "done"}

(* Types of the variables.                                                  *)
TypeOK ==
  /\ clock \in 0..MaxClock /\ requests \in 0..MaxRequests
  /\ \A r \in RegIds : /\ registrations[r].exists \in BOOLEAN
                       /\ registrations[r].fwdRegId \in 0..Len(confman)
  /\ \A s \in SubIds : casubs[s].exists \in BOOLEAN /\ casubs[s].count \in Nat
  /\ reqSem \in 0..1 /\ reqSemTaken \in [Workers -> BOOLEAN]
  /\ pc \in [Workers -> PC]
  /\ \A w \in Workers : job[w].id \in RegIds \union SubIds \union {NoId}
  /\ linked \subseteq RegIds

(* Every path through the handlers gives the semaphore back, once, and only *)
(* if it took it.                                                           *)
SemGivenBack == reqSem + Cardinality({w \in Workers : reqSemTaken[w]}) = 1

(* Under the policies "all" and "write" no two requests that write          *)
(* (reqSemTake with SemWriteOp) are between taking and giving the semaphore *)
(* at one time.                                                             *)
WritersExclusive ==
  Policy \in {"all", "write"} =>
    \A v, w \in Workers : pc[v] \in WriteSection /\ pc[w] \in WriteSection => v = w

(* The counter of an availability subscription                              *)
(* (mongoUpdateCasubNewNotification) tells how many notifications the       *)
(* Notifier was given, but for those whose update failed, although updates of the         *)
(* subscription write back the counter they read.                           *)
CountMatchesSent ==
  \A s \in SubIds : casubs[s].exists =>
    casubs[s].count + uncounted[s] +
      Cardinality({w \in Workers : pc[w] = "count" /\ job[w].sub = s}) = sent[s]

(* A registration that processRegisterContext refuses has written no        *)
(* registration and notified nobody (its associations may have stayed).     *)
RefusedRegistersNothing ==
  \A w \in Workers :
    IsRegister(req[w]) /\ job[w].code \notin {"None", "Ok"} =>
      ~job[w].wrote /\ job[w].notified = {}

\* What a subscription asks for: an entity of a type, by id or by pattern, and
\* one of the attributes, or any.
Interested(sub, cr) ==
  /\ \E i \in DOMAIN cr.entities, j \in DOMAIN sub.enV :
       /\ cr.entities[i].isPattern = "false"
       /\ sub.enV[j].type = cr.entities[i].type /\ sub.enV[j].type # AnyType
       /\ \/ sub.enV[j].isPattern = "true" /\ Like(sub.enV[j].id, cr.entities[i].id)
          \/ sub.enV[j].isPattern = "false" /\ sub.enV[j].id = cr.entities[i].id
  /\ sub.attrL = <<>> \/ Range(sub.attrL) \intersect Range(cr.attrs) # {}

(* When a registration is answered with success and no query failed, every  *)
(* live subscription to what it registers has been notified, that is, the   *)
(* Notifier was given its notification: the two queries of                  *)
(* addTriggeredSubscriptions and the one of processAvailabilitySubscription *)
(* agree.                                                                   *)
InterestedAreNotified ==
  \A w \in Workers :
    pc[w] = "answer" /\ IsRegister(req[w]) /\ job[w].code = "Ok" /\ ~job[w].failed =>
      \A s \in SubIds :
        /\ casubs[s].exists /\ casubs[s].expiration > clock
        /\ registrations[job[w].id].expiration > clock
        /\ \E i \in DOMAIN req[w].crs : Interested(casubs[s], req[w].crs[i])
        => s \in job[w].notified

(* A registration known to the configuration manager keeps its fwdRegId:    *)
(* registerContextForward takes it over from the document that an update    *)
(* replaces.                                                                *)
LinkKept ==
  \A r \in linked :
    \/ registrations[r].fwdRegId # NoId
    \/ \E w \in Workers : Registering(w, r) /\ pc[w] \in {"notify", "count", "answer", "setFwd"}
=============================================================================
