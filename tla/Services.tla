------------------------------ MODULE Services ------------------------------
(***************************************************************************)
(* The service routines (lib/serviceRoutines, lib/serviceRoutinesV2): what *)
(* each URL of the broker does, as an operator from the state and the      *)
(* request to the new state and the answer. Most are convenience           *)
(* operations, which take an entity, an attribute or a subscription from   *)
(* the URL, fill in a standard request and give back a part of its answer. *)
(*                                                                         *)
(* A request is [verb, path, type, exist, paths, tenant, payload]: type is *)
(* the parameter entity::type; exist is "empty" for !exist=entity::type,   *)
(* "notEmpty" for exist=entity::type; paths is the number of its service   *)
(* paths, 0 for one that servicePathCheck refuses. A payload is of the     *)
(* message that the path expects, or of the kind "bad"; that of a request  *)
(* without one says in which order a set of the database is listed.        *)
(* Requests are served one at a time and no database operation fails: the  *)
(* modules of the operations have both.                                    *)
(*                                                                         *)
(* db: entities and regs are as in ContextData; subs and avail map the ids *)
(* of subscriptions to what they hold; trace is the set of trace levels    *)
(* that are on; alive is false after /exit.                                *)
(***************************************************************************)
EXTENDS ContextData, Routes

CONSTANTS
  Families,          \* a name |-> [ngsi9, requests, initial]: what is asked of a broker
                     \* that is started with or without the option -ngsi9
  SubscriptionIds,   \* the ids that subscriptions are given, in this order
  MaxEntities,       \* bound: entities in the database
  MaxRegistrations,  \* bound: registrations in the database
  BadWords,          \* words that tenantCheck and logTraceTreat refuse
  harakiri           \* the option -harakiri

VARIABLES family, db, exchange

vars == <<family, db, exchange>>

\* A routine answers, or it fills in a request for postUpdateContext or for
\* postQueryContext and makes its answer from the answer to that (fill says how).
Reply(state, code, body) == [call |-> "none", db |-> state, code |-> code, body |-> body]
Refuse(state, code) == Reply(state, code, <<>>)
UpdatingAll(action, elements, fill) ==
  [call |-> "postUpdateContext", action |-> action, elements |-> elements, fill |-> fill]
Updating(action, ce, fill) == UpdatingAll(action, <<ce>>, fill)
\* part: the attribute, or the ID of one, that the answer is about
QueryingPart(query, part, fill) ==
  [call |-> "postQueryContext", query |-> query, part |-> part, fill |-> fill]
Querying(query, fill) == QueryingPart(query, Nothing, fill)

\* compV[n] of the routines
compV(ci, n) == ci.path[n + 1]

-----------------------------------------------------------------------------
(* Requests that are filled in                                              *)

\* From an UpdateContextElementRequest (PUT).
fillUpdate(ucer, id, type) ==
  [id |-> id, type |-> type, isPattern |-> "false", attributes |-> ucer.attributes]
\* From an AppendContextElementRequest (POST).
fillAppend(acer, id, type) ==
  [id |-> id, type |-> type, isPattern |-> "false", attributes |-> acer.attributes]
\* From the URL (DELETE).
fillDelete(id, type, name, metaID) ==
  [id |-> id, type |-> type, isPattern |-> "false",
   attributes |-> IF name = Nothing THEN <<>> ELSE <<Attribute(name, metaID, Nothing, FALSE)>>]

\* Mutant: the ID of the URL is not added.
fillAttributeOnly(upcar, id, type, name, metaID) ==
  [id |-> id, type |-> type, isPattern |-> "false",
   attributes |-> <<Attribute(name, upcar.id, upcar.value, FALSE)>>]

\* From an UpdateContextAttributeRequest. An ID in the payload wins over that
\* of the URL.
fillAttribute(upcar, id, type, name, metaID) ==
  [id |-> id, type |-> type, isPattern |-> "false",
   attributes |-> <<Attribute(name, IF upcar.id = Nothing THEN metaID ELSE upcar.id, upcar.value,
                              FALSE)>>]

Named(name) == IF name = Nothing THEN <<>> ELSE <<name>>

\* With three arguments: the id is taken for a regular expression.
fillPattern(id, type, name) ==
  [enV |-> <<[id |-> id, type |-> type, isPattern |-> "true"]>>, attrL |-> Named(name),
   filter |-> Nothing]
fillQuery(id, type, isPattern, typeInfo, name) ==
  [enV |-> <<[id |-> id, type |-> type, isPattern |-> isPattern]>>, attrL |-> Named(name),
   filter |-> typeInfo]

fillRegister(rpr, id, type, name) ==
  [crs |-> <<[entities |-> <<[id |-> id, type |-> type]>>, attrs |-> Named(name), app |-> rpr.app]>>,
   expiration |-> 1, path |-> <<>>]

\* The three ways to fill in a discovery.
fillDiscover(id, type) ==
  [enV |-> <<[id |-> id, type |-> type, isPattern |-> "false"]>>, attrL |-> <<>>]
fillDiscoverAttribute(id, type, name) ==
  [enV |-> <<[id |-> id, type |-> type, isPattern |-> "false"]>>, attrL |-> Named(name)]
fillDiscoverEntity(en, attrL) == [enV |-> <<en>>, attrL |-> attrL]

-----------------------------------------------------------------------------
(* The standard operations                                                  *)

OnePath(ci) == ci.paths = 1

\* The end of postUpdateContext, after mongoUpdateContext.
Updated(state, u) ==
  LET Answer(r) == [state |-> [state EXCEPT !.entities = u.store], code |-> r.code, cerV |-> r.cerV]
  IN  Answer(UpdateContextResponse("Ok", foundAndNotFoundAttributeSeparation(u.cerV)))

\* Mutant: the service paths are looked at when the entities are written.
UpdateAllAnyPath(state, ci, action, elements) ==
  LET Late(s) == IF OnePath(ci) THEN s ELSE [s EXCEPT !.code = "BadRequest", !.cerV = <<>>]
  IN  Late(Updated(state, mongoUpdateContext(state.entities, state.regs, elements, action,
                                             ci.exist = "empty", {})))

\* [state, code, cerV], cerV being what the response object is left with. No
\* request of a family that updates or queries registers a context provider,
\* so that nothing is forwarded.
UpdateAll(state, ci, action, elements) ==
  IF ~OnePath(ci) THEN [state |-> state, code |-> "BadRequest", cerV |-> <<>>]
  ELSE Updated(state, mongoUpdateContext(state.entities, state.regs, elements, action,
                                         ci.exist = "empty", {}))

Query(state, q) ==
  LET Of(cerV) == [code |-> IF cerV = <<>> THEN "ContextElementNotFound" ELSE "Ok", cerV |-> cerV]
  IN  Of(mongoQueryContext(state.entities, state.regs, q.enV, q.attrL, q.filter))

postUpdateContext(state, ci) ==
  UpdatingAll(ci.payload.action, ci.payload.elements, "UpdateContextResponse")
postQueryContext(state, ci) == Querying(ci.payload.query, "QueryContextResponse")

\* Appends what the notification has; the answer is 200 in any case.
postNotifyContext(state, ci) ==
  LET Notified(store, ce) == processContextElement(store, state.regs, ce, "APPEND", FALSE, {}).store
  IN  Reply([state EXCEPT !.entities = FoldLeft(Notified, @, ci.payload.elements)], "Ok", <<>>)

\* New registrations; Registrations has the update of one.
RegisterContext(state, ci, registration) ==
  IF ~OnePath(ci) THEN Refuse(state, "BadRequest")
  ELSE Reply([state EXCEPT !.regs = Append(@, registration)], "Ok", <<>>)
postRegisterContext(state, ci) == RegisterContext(state, ci, ci.payload.registration)
DiscoverContext(state, q) ==
  LET Of(crrV) == Reply(state, IF crrV = <<>> THEN "ContextElementNotFound" ELSE "Ok", crrV)
  IN  Of(Registrations(state.regs, q.enV, q.attrL))
postDiscoverContextAvailability(state, ci) == DiscoverContext(state, ci.payload.query)

\* Subscriptions to context (in subs) and to availability (in avail): the ids
\* are those of new documents, of whichever collection.
NewId(state) == SubscriptionIds[state.given + 1]
Created(map, id, content) == [k \in DOMAIN map \cup {id} |-> IF k = id THEN content ELSE map[k]]
Subscription(ci, filter) == [filter |-> filter, content |-> ci.payload.content]

SubscribeContext(state, ci, filter) ==
  IF ci.paths > 1 THEN Refuse(state, "BadRequest")
  ELSE Reply([state EXCEPT !.subs = Created(@, NewId(state), Subscription(ci, filter)),
                           !.given = @ + 1], "Ok", <<NewId(state)>>)
postSubscribeContext(state, ci) == SubscribeContext(state, ci, ci.payload.filter)
postSubscribeContextConvOp(state, ci) ==
  SubscribeContext(state, ci, IF ci.exist = Nothing THEN ci.payload.filter ELSE ci.exist)

SubscribeAvailability(state, ci, filter) ==
  Reply([state EXCEPT !.avail = Created(@, NewId(state), Subscription(ci, filter)),
                      !.given = @ + 1], "Ok", <<NewId(state)>>)
postSubscribeContextAvailability(state, ci) == SubscribeAvailability(state, ci, ci.payload.filter)
postSubscribeContextAvailabilityConvOp(state, ci) ==
  SubscribeAvailability(state, ci, IF ci.exist = Nothing THEN ci.payload.filter ELSE ci.exist)

Unsubscribe(state, id) ==
  IF id \notin DOMAIN state.subs THEN Refuse(state, "ContextElementNotFound")
  ELSE Reply([state EXCEPT !.subs = [k \in DOMAIN @ \ {id} |-> @[k]]], "Ok", <<>>)
postUnsubscribeContext(state, ci) == Unsubscribe(state, ci.payload.subscriptionId)
deleteSubscriptionConvOp(state, ci) == Unsubscribe(state, compV(ci, 2))

UnsubscribeAvailability(state, id) ==
  IF id \notin DOMAIN state.avail THEN Refuse(state, "ContextElementNotFound")
  ELSE Reply([state EXCEPT !.avail = [k \in DOMAIN @ \ {id} |-> @[k]]], "Ok", <<>>)
postUnsubscribeContextAvailability(state, ci) ==
  UnsubscribeAvailability(state, ci.payload.subscriptionId)

postUpdateContextSubscription(state, ci) ==
  LET id == ci.payload.subscriptionId
  IN  IF id \notin DOMAIN state.subs THEN Refuse(state, "ContextElementNotFound")
      ELSE Reply([state EXCEPT !.subs[id].content = ci.payload.content], "Ok", <<id>>)
postUpdateContextAvailabilitySubscription(state, ci) ==
  LET id == ci.payload.subscriptionId
  IN  IF id \notin DOMAIN state.avail THEN Refuse(state, "ContextElementNotFound")
      ELSE Reply([state EXCEPT !.avail[id].content = ci.payload.content], "Ok", <<id>>)

postNotifyContextAvailability(state, ci) ==
  RegisterContext(state, ci, ci.payload.registration)

\* The id is taken from the URL only to be compared.
putSubscriptionConvOp(state, ci) ==
  IF compV(ci, 2) # ci.payload.subscriptionId THEN Refuse(state, "BadRequest")
  ELSE postUpdateContextSubscription(state, ci)

\* Mutant: the components are counted as in version 0.
OfRegistryV0(ci, n) == compV(ci, n)

\* Where the routines of the registry look in the URL.
OfRegistry(ci, n) == IF ci.path[1] = "v1" THEN compV(ci, n + 1) ELSE compV(ci, n)

putAvailabilitySubscriptionConvOp(state, ci) ==
  IF OfRegistry(ci, 2) # ci.payload.subscriptionId THEN Refuse(state, "BadRequest")
  ELSE postUpdateContextAvailabilitySubscription(state, ci)
deleteAvailabilitySubscriptionConvOp(state, ci) ==
  UnsubscribeAvailability(state, OfRegistry(ci, 2))

-----------------------------------------------------------------------------
(* Answers of the convenience operations                                    *)

\* Of several elements, the first one counts.
StatusCode_fill(s) ==
  CASE s.code # "Ok" -> s.code
    [] s.code = "Ok" /\ s.cerV # <<>> -> s.cerV[1].code
    [] OTHER -> "ReceiverInternalError"

\* An error without elements becomes 404.
UpdateContextElementResponse_fill(s) ==
  CASE s.cerV = <<>> -> "ContextElementNotFound"
    [] s.cerV # <<>> /\ s.code = "Ok" -> s.cerV[1].code
    [] OTHER -> s.code
AppendContextElementResponse_fill(s) ==
  CASE s.cerV = <<>> -> "ContextElementNotFound"
    [] s.cerV # <<>> /\ s.code = "Ok" -> s.cerV[1].code
    [] OTHER -> s.code

First(cerV) == IF cerV = <<>> THEN <<>> ELSE <<cerV[1]>>
ContextElementResponse_fill(state, q) == Reply(state, q.code, First(q.cerV))

\* The attributes of the first element; with an ID, those that have it.
ContextAttributeResponse_fill(state, q, metaID) ==
  LET cer == q.cerV[1]
      chosen == IF metaID = Nothing THEN cer.attributes
                ELSE SelectSeq(cer.attributes, LAMBDA a : a.id = metaID)
  IN  CASE q.cerV = <<>> -> Refuse(state, "ContextElementNotFound")
        [] q.cerV # <<>> /\ metaID # Nothing /\ chosen = <<>> -> Refuse(state, "ContextElementNotFound")
        [] OTHER -> Reply(state, "Ok", <<[cer EXCEPT !.attributes = chosen]>>)

Entity_fill(state, q) ==
  IF q.code = "Ok" /\ Len(q.cerV) > 1 THEN Refuse(state, "Conflict")
  ELSE Reply(state, q.code, First(q.cerV))
Attribute_fill(state, q, name) ==
  LET named == SelectSeq(q.cerV[1].attributes, LAMBDA a : a.name = name)
  IN  CASE q.code # "Ok" -> Refuse(state, q.code)
        [] q.code = "Ok" /\ Len(q.cerV) > 1 -> Refuse(state, "Conflict")
        [] OTHER -> IF named = <<>> THEN Refuse(state, "ContextElementNotFound")
                    ELSE Reply(state, "Ok", <<[q.cerV[1] EXCEPT !.attributes = <<named[1]>>]>>)

\* The end of a routine, when its request was served.
UpdateAnswer(s, fill) ==
  CASE fill = "StatusCode" -> Reply(s.state, StatusCode_fill(s), <<>>)
    [] fill = "UpdateContextElementResponse" ->
         Reply(s.state, UpdateContextElementResponse_fill(s), First(s.cerV))
    [] fill = "AppendContextElementResponse" ->
         Reply(s.state, AppendContextElementResponse_fill(s), First(s.cerV))
    [] OTHER -> Reply(s.state, s.code, s.cerV)

QueryAnswer(state, q, fill, part) ==
  CASE fill = "ContextElementResponse" -> ContextElementResponse_fill(state, q)
    [] fill = "ContextAttributeResponse" -> ContextAttributeResponse_fill(state, q, part)
    [] fill = "FirstElement" ->
         Reply(state, IF q.cerV = <<>> THEN q.code ELSE q.cerV[1].code, First(q.cerV))
    [] fill = "Entities" -> Reply(state, "Ok", q.cerV)   \* nothing found is no error
    [] fill = "Entity" -> Entity_fill(state, q)
    [] fill = "Attribute" -> Attribute_fill(state, q, part)
    [] OTHER -> Reply(state, q.code, q.cerV)

-----------------------------------------------------------------------------
(* Entities by id                                                           *)

getIndividualContextEntity(state, ci) ==
  Querying(fillQuery(compV(ci, 2), ci.type, "false", ci.exist, Nothing), "ContextElementResponse")

putIndividualContextEntity(state, ci) ==
  Updating("UPDATE", fillUpdate(ci.payload, compV(ci, 2), ci.type), "UpdateContextElementResponse")

\* The entity may be named in the URL, in the payload, or in both.
postIndividualContextEntity(state, ci) ==
  LET inUrl == IF Len(ci.path) \in {3, 4} THEN compV(ci, 2) ELSE Nothing
      One(a, b) == IF a = Nothing THEN b ELSE a
      Differ(a, b) == Nothing \notin {a, b} /\ a # b
      id == One(ci.payload.id, inUrl)
  IN  IF \/ Differ(ci.payload.id, inUrl)
         \/ Differ(ci.payload.type, ci.type)
         \/ ci.payload.isPattern = "true"
         \/ id = Nothing
        THEN Refuse(state, "BadRequest")
        ELSE Updating("APPEND", fillAppend(ci.payload, id, One(ci.payload.type, ci.type)),
                      "AppendContextElementResponse")

deleteIndividualContextEntity(state, ci) ==
  Updating("DELETE", fillDelete(compV(ci, 2), ci.type, Nothing, Nothing), "StatusCode")

getIndividualContextEntityAttribute(state, ci) ==
  Querying(fillQuery(compV(ci, 2), ci.type, "false", ci.exist, compV(ci, 4)), "FirstElement")

putIndividualContextEntityAttribute(state, ci) ==
  Updating("UPDATE", fillAttribute(ci.payload, compV(ci, 2), ci.type, compV(ci, 4), Nothing),
           "StatusCode")
postIndividualContextEntityAttribute(state, ci) ==
  Updating("APPEND", fillAttribute(ci.payload, compV(ci, 2), ci.type, compV(ci, 4), Nothing),
           "StatusCode")
deleteIndividualContextEntityAttribute(state, ci) ==
  Updating("DELETE", fillDelete(compV(ci, 2), ci.type, compV(ci, 4), Nothing), "StatusCode")

getAttributeValueInstance(state, ci) ==
  QueryingPart(fillQuery(compV(ci, 2), ci.type, "false", ci.exist, compV(ci, 4)),
               compV(ci, 5), "ContextAttributeResponse")

OtherID(ci, metaID) == ci.payload.id \notin {Nothing, metaID}

putAttributeValueInstance(state, ci) ==
  IF OtherID(ci, compV(ci, 5)) THEN Refuse(state, "BadRequest")
  ELSE Updating("UPDATE", fillAttribute(ci.payload, compV(ci, 2), ci.type, compV(ci, 4),
                                        compV(ci, 5)),
                "StatusCode")
deleteAttributeValueInstance(state, ci) ==
  Updating("DELETE", fillDelete(compV(ci, 2), ci.type, compV(ci, 4), compV(ci, 5)), "StatusCode")

-----------------------------------------------------------------------------
(* Entities by type and id                                                  *)

\* The parameters contradict the type in the path.
OtherType(ci, type) == ci.type \notin {Nothing, type}
TypeRefused(ci, type) == ci.exist = "empty" \/ OtherType(ci, type)

getAllEntitiesWithTypeAndId(state, ci) ==
  IF TypeRefused(ci, compV(ci, 3)) THEN Refuse(state, "BadRequest")
  ELSE Querying(fillPattern(compV(ci, 5), compV(ci, 3), Nothing), "ContextElementResponse")

putAllEntitiesWithTypeAndId(state, ci) ==
  IF TypeRefused(ci, compV(ci, 3)) THEN Refuse(state, "BadRequest")
  ELSE Updating("UPDATE", fillUpdate(ci.payload, compV(ci, 5), compV(ci, 3)),
                "UpdateContextElementResponse")

\* The payload must not name an entity.
postAllEntitiesWithTypeAndId(state, ci) ==
  IF \/ <<ci.payload.id, ci.payload.type, ci.payload.isPattern>> # <<Nothing, Nothing, Nothing>>
     \/ TypeRefused(ci, compV(ci, 3))
    THEN Refuse(state, "BadRequest")
    ELSE Updating("APPEND", fillAppend(ci.payload, compV(ci, 5), compV(ci, 3)),
                  "AppendContextElementResponse")

\* Mutant: the type of the URL is left out.
deleteAllEntitiesWithId(state, ci) ==
  IF TypeRefused(ci, compV(ci, 3)) THEN Refuse(state, "BadRequest")
  ELSE Updating("DELETE", fillDelete(compV(ci, 5), Nothing, Nothing, Nothing), "StatusCode")

deleteAllEntitiesWithTypeAndId(state, ci) ==
  IF TypeRefused(ci, compV(ci, 3)) THEN Refuse(state, "BadRequest")
  ELSE Updating("DELETE", fillDelete(compV(ci, 5), compV(ci, 3), Nothing, Nothing), "StatusCode")

getIndividualContextEntityAttributeWithTypeAndId(state, ci) ==
  IF TypeRefused(ci, compV(ci, 3)) THEN Refuse(state, "BadRequest")
  ELSE Querying(fillPattern(compV(ci, 5), compV(ci, 3), compV(ci, 7)), "ContextAttributeResponse")
putIndividualContextEntityAttributeWithTypeAndId(state, ci) ==
  IF TypeRefused(ci, compV(ci, 3)) THEN Refuse(state, "BadRequest")
  ELSE Updating("UPDATE", fillAttribute(ci.payload, compV(ci, 5), compV(ci, 3), compV(ci, 7),
                                        Nothing),
                "StatusCode")
postIndividualContextEntityAttributeWithTypeAndId(state, ci) ==
  IF TypeRefused(ci, compV(ci, 3)) THEN Refuse(state, "BadRequest")
  ELSE Updating("APPEND", fillAttribute(ci.payload, compV(ci, 5), compV(ci, 3), compV(ci, 7),
                                        Nothing),
                "StatusCode")
deleteIndividualContextEntityAttributeWithTypeAndId(state, ci) ==
  IF TypeRefused(ci, compV(ci, 3)) THEN Refuse(state, "BadRequest")
  ELSE Updating("DELETE", fillDelete(compV(ci, 5), compV(ci, 3), compV(ci, 7), Nothing),
                "StatusCode")

\* The query has the type of the parameter, not that of the path.
getAttributeValueInstanceWithTypeAndId(state, ci) ==
  IF TypeRefused(ci, compV(ci, 3)) THEN Refuse(state, "BadRequest")
  ELSE QueryingPart(fillQuery(compV(ci, 5), ci.type, "false", ci.exist, compV(ci, 7)),
                    compV(ci, 8), "ContextAttributeResponse")
putAttributeValueInstanceWithTypeAndId(state, ci) ==
  IF OtherType(ci, compV(ci, 3)) \/ OtherID(ci, compV(ci, 8)) THEN Refuse(state, "BadRequest")
  ELSE Updating("UPDATE", fillAttribute(ci.payload, compV(ci, 5), compV(ci, 3), compV(ci, 7),
                                        compV(ci, 8)),
                "StatusCode")
postAttributeValueInstanceWithTypeAndId(state, ci) ==
  IF OtherType(ci, compV(ci, 3)) \/ OtherID(ci, compV(ci, 8)) THEN Refuse(state, "BadRequest")
  ELSE Updating("APPEND", fillAttribute(ci.payload, compV(ci, 5), compV(ci, 3), compV(ci, 7),
                                        compV(ci, 8)),
                "StatusCode")
deleteAttributeValueInstanceWithTypeAndId(state, ci) ==
  IF OtherType(ci, compV(ci, 3)) THEN Refuse(state, "BadRequest")
  ELSE Updating("DELETE", fillDelete(compV(ci, 5), compV(ci, 3), compV(ci, 7), compV(ci, 8)),
                "StatusCode")
-----------------------------------------------------------------------------
(* Entities by type, all entities, types                                    *)

getAllContextEntities(state, ci) ==
  Querying(fillQuery(".*", ci.type, "true", ci.exist, Nothing), "QueryContextResponse")

getNgsi10ContextEntityTypes(state, ci) ==
  IF TypeRefused(ci, compV(ci, 2)) THEN Refuse(state, "BadRequest")
  ELSE Querying(fillPattern(".*", compV(ci, 2), Nothing), "QueryContextResponse")
getNgsi10ContextEntityTypesAttribute(state, ci) ==
  IF TypeRefused(ci, compV(ci, 2)) THEN Refuse(state, "BadRequest")
  ELSE Querying(fillPattern(".*", compV(ci, 2), compV(ci, 4)), "QueryContextResponse")

\* The types with the names of their attributes. An entity without attributes
\* puts a null into the set of names; when the null is listed first, the others
\* are not looked at.
mongoEntityTypes(store, nullFirst) ==
  LET Of(t) == {e \in Range(store) : e.type = t}
      Hidden(t) == nullFirst /\ \E e \in Of(t) : Names(e) = {}
  IN  {[type |-> t, names |-> IF Hidden(t) THEN {} ELSE UNION {Names(e) : e \in Of(t)}] :
         t \in {e.type : e \in Range(store)}}
mongoAttributesForEntityType(store, type) ==
  UNION {Names(e) : e \in {x \in Range(store) : x.type = type}}

Found(state, set) ==
  IF set = {} THEN Refuse(state, "ContextElementNotFound") ELSE Reply(state, "Ok", SetToSeq(set))
getEntityTypes(state, ci) == Found(state, mongoEntityTypes(state.entities, ci.payload.nullFirst))
getAttributesForEntityType(state, ci) ==
  Found(state, mongoAttributesForEntityType(state.entities, compV(ci, 2)))

-----------------------------------------------------------------------------
(* API version 2                                                            *)

entryPointsTreat(state, ci) == Reply(state, "Ok", <<>>)

getEntities(state, ci) ==
  Querying(fillQuery(".*", Nothing, "true", Nothing, Nothing), "Entities")

getEntity(state, ci) ==
  Querying(fillQuery(compV(ci, 2), Nothing, "false", Nothing, Nothing), "Entity")
getEntityAttribute(state, ci) ==
  QueryingPart(fillQuery(compV(ci, 2), Nothing, "false", Nothing, Nothing),
               compV(ci, 4), "Attribute")

-----------------------------------------------------------------------------
(* The registry                                                             *)

getContextEntitiesByEntityId(state, ci) ==
  DiscoverContext(state, fillDiscoverEntity([id |-> OfRegistry(ci, 2), type |-> Nothing,
                                             isPattern |-> Nothing], <<>>))
getContextEntityAttributes(state, ci) ==
  DiscoverContext(state, fillDiscoverEntity([id |-> OfRegistry(ci, 2), type |-> Nothing,
                                             isPattern |-> Nothing], <<>>))
getEntityByIdAttributeByName(state, ci) ==
  DiscoverContext(state, fillDiscoverEntity([id |-> OfRegistry(ci, 2), type |-> Nothing,
                                             isPattern |-> Nothing], <<OfRegistry(ci, 4)>>))
getContextEntityTypes(state, ci) ==
  DiscoverContext(state, fillDiscoverEntity([id |-> ".*", type |-> OfRegistry(ci, 2),
                                             isPattern |-> "true"], <<>>))
getContextEntityTypeAttribute(state, ci) ==
  DiscoverContext(state, fillDiscoverEntity([id |-> ".*", type |-> OfRegistry(ci, 2),
                                             isPattern |-> "true"], <<OfRegistry(ci, 4)>>))
getContextEntitiesByEntityIdAndType(state, ci) ==
  IF TypeRefused(ci, compV(ci, 4)) THEN Refuse(state, "BadRequest")
  ELSE DiscoverContext(state, fillDiscover(compV(ci, 6), compV(ci, 4)))
getEntityByIdAttributeByNameWithTypeAndId(state, ci) ==
  IF TypeRefused(ci, compV(ci, 4)) THEN Refuse(state, "BadRequest")
  ELSE DiscoverContext(state, fillDiscoverAttribute(compV(ci, 6), compV(ci, 4), compV(ci, 8)))

postContextEntitiesByEntityId(state, ci) ==
  RegisterContext(state, ci, fillRegister(ci.payload, OfRegistry(ci, 2), Nothing, Nothing))
postContextEntityAttributes(state, ci) ==
  RegisterContext(state, ci, fillRegister(ci.payload, OfRegistry(ci, 2), Nothing, Nothing))
postEntityByIdAttributeByName(state, ci) ==
  RegisterContext(state, ci, fillRegister(ci.payload, OfRegistry(ci, 2), Nothing, OfRegistry(ci, 4)))
\* A type is registered as an entity with an empty id.
postContextEntityTypes(state, ci) ==
  RegisterContext(state, ci, fillRegister(ci.payload, Nothing, OfRegistry(ci, 2), Nothing))

postContextEntityTypeAttribute(state, ci) ==
  RegisterContext(state, ci, fillRegister(ci.payload, Nothing, OfRegistry(ci, 2), OfRegistry(ci, 4)))
postContextEntitiesByEntityIdAndType(state, ci) ==
  IF TypeRefused(ci, compV(ci, 4)) THEN Refuse(state, "BadRequest")
  ELSE RegisterContext(state, ci, fillRegister(ci.payload, compV(ci, 6), compV(ci, 4), Nothing))
postEntityByIdAttributeByNameWithTypeAndId(state, ci) ==
  IF TypeRefused(ci, compV(ci, 4)) THEN Refuse(state, "BadRequest")
  ELSE RegisterContext(state, ci, fillRegister(ci.payload, compV(ci, 6), compV(ci, 4), compV(ci, 8)))

-----------------------------------------------------------------------------
(* The broker itself                                                        *)

\* The paths of version 1 have more components than the routine counts.
logTraceTreat(state, ci) ==
  LET n == Len(ci.path)
  IN  CASE n = 2 /\ ci.verb = "DELETE" -> Reply([state EXCEPT !.trace = {}], "Ok", <<>>)
        [] n = 3 /\ ci.verb = "DELETE" ->
             Reply(IF compV(ci, 2) \in BadWords THEN state
                   ELSE [state EXCEPT !.trace = @ \ {compV(ci, 2)}], "Ok", <<>>)
        [] n = 2 /\ ci.verb = "GET" -> Reply(state, "Ok", SetToSeq(state.trace))
        [] n = 3 /\ ci.verb = "PUT" ->
             Reply(IF compV(ci, 2) \in BadWords THEN state
                   ELSE [state EXCEPT !.trace = {compV(ci, 2)}], "Ok", <<>>)
        [] OTHER -> Refuse(state, "BadRequest")

\* Module FrontEnd has the counters.
statisticsTreat(state, ci) == Reply(state, "Ok", <<>>)
versionTreat(state, ci) == Reply(state, "Ok", <<>>)

PasswordGiven(ci) == harakiri /\ Len(ci.path) > 1 /\ compV(ci, 1) = "harakiri"
exitTreat(state, ci) == IF PasswordGiven(ci) THEN Reply([state EXCEPT !.alive = FALSE], "Ok", <<>>)
                        ELSE Refuse(state, "BadRequest")
leakTreat(state, ci) == IF PasswordGiven(ci) THEN Reply(state, "Ok", <<>>)
                        ELSE Refuse(state, "BadRequest")

badVerbAllFour(state, ci) == Reply(state, "BadVerb", <<"POST", "GET", "PUT", "DELETE">>)
badVerbGetOnly(state, ci) == Reply(state, "BadVerb", <<"GET">>)
badVerbGetPostOnly(state, ci) == Reply(state, "BadVerb", <<"POST", "GET">>)
badVerbGetPostDeleteOnly(state, ci) == Reply(state, "BadVerb", <<"GET", "POST", "DELETE">>)
badVerbGetPutDeleteOnly(state, ci) == Reply(state, "BadVerb", <<"GET", "PUT", "DELETE">>)
badVerbGetDeleteOnly(state, ci) == Reply(state, "BadVerb", <<"GET", "DELETE">>)
badVerbPutDeleteOnly(state, ci) == Reply(state, "BadVerb", <<"PUT", "DELETE">>)
badVerbPostOnly(state, ci) == Reply(state, "BadVerb", <<"POST">>)
badRequest(state, ci) == Refuse(state, "BadRequest")
badNgsi9Request(state, ci) == Refuse(state, "BadRequest")
badNgsi10Request(state, ci) == Refuse(state, "BadRequest")

-----------------------------------------------------------------------------
(* restService                                                              *)

\* The member treat of a row: a routine by its name.
treat(name, state, ci) ==
  CASE name = "entryPointsTreat" -> entryPointsTreat(state, ci)
    [] name = "badVerbAllFour" -> badVerbAllFour(state, ci)
    [] name = "getEntities" -> getEntities(state, ci)
    [] name = "badVerbGetOnly" -> badVerbGetOnly(state, ci)
    [] name = "getEntity" -> getEntity(state, ci)
    [] name = "getEntityAttribute" -> getEntityAttribute(state, ci)
    [] name = "badVerbPostOnly" -> badVerbPostOnly(state, ci)
    [] name = "postRegisterContext" -> postRegisterContext(state, ci)
    [] name = "postDiscoverContextAvailability" -> postDiscoverContextAvailability(state, ci)
    [] name = "postSubscribeContextAvailability" -> postSubscribeContextAvailability(state, ci)
    [] name = "postUnsubscribeContextAvailability" -> postUnsubscribeContextAvailability(state, ci)
    [] name = "postUpdateContextAvailabilitySubscription" -> postUpdateContextAvailabilitySubscription(state, ci)
    [] name = "postNotifyContextAvailability" -> postNotifyContextAvailability(state, ci)
    [] name = "postUpdateContext" -> postUpdateContext(state, ci)
    [] name = "postQueryContext" -> postQueryContext(state, ci)
    [] name = "postSubscribeContext" -> postSubscribeContext(state, ci)
    [] name = "postUpdateContextSubscription" -> postUpdateContextSubscription(state, ci)
    [] name = "postUnsubscribeContext" -> postUnsubscribeContext(state, ci)
    [] name = "postNotifyContext" -> postNotifyContext(state, ci)
    [] name = "badVerbGetPostOnly" -> badVerbGetPostOnly(state, ci)
    [] name = "getContextEntitiesByEntityId" -> getContextEntitiesByEntityId(state, ci)
    [] name = "postContextEntitiesByEntityId" -> postContextEntitiesByEntityId(state, ci)
    [] name = "getContextEntityAttributes" -> getContextEntityAttributes(state, ci)
    [] name = "postContextEntityAttributes" -> postContextEntityAttributes(state, ci)
    [] name = "getEntityByIdAttributeByName" -> getEntityByIdAttributeByName(state, ci)
    [] name = "postEntityByIdAttributeByName" -> postEntityByIdAttributeByName(state, ci)
    [] name = "getContextEntityTypes" -> getContextEntityTypes(state, ci)
    [] name = "postContextEntityTypes" -> postContextEntityTypes(state, ci)
    [] name = "getContextEntityTypeAttribute" -> getContextEntityTypeAttribute(state, ci)
    [] name = "postContextEntityTypeAttribute" -> postContextEntityTypeAttribute(state, ci)
    [] name = "putAvailabilitySubscriptionConvOp" -> putAvailabilitySubscriptionConvOp(state, ci)
    [] name = "deleteAvailabilitySubscriptionConvOp" -> deleteAvailabilitySubscriptionConvOp(state, ci)
    [] name = "badVerbPutDeleteOnly" -> badVerbPutDeleteOnly(state, ci)
    [] name = "postSubscribeContextAvailabilityConvOp" -> postSubscribeContextAvailabilityConvOp(state, ci)
    [] name = "getIndividualContextEntity" -> getIndividualContextEntity(state, ci)
    [] name = "putIndividualContextEntity" -> putIndividualContextEntity(state, ci)
    [] name = "postIndividualContextEntity" -> postIndividualContextEntity(state, ci)
    [] name = "deleteIndividualContextEntity" -> deleteIndividualContextEntity(state, ci)
    [] name = "getIndividualContextEntityAttribute" -> getIndividualContextEntityAttribute(state, ci)
    [] name = "putIndividualContextEntityAttribute" -> putIndividualContextEntityAttribute(state, ci)
    [] name = "postIndividualContextEntityAttribute" -> postIndividualContextEntityAttribute(state, ci)
    [] name = "deleteIndividualContextEntityAttribute" -> deleteIndividualContextEntityAttribute(state, ci)
    [] name = "badVerbGetPostDeleteOnly" -> badVerbGetPostDeleteOnly(state, ci)
    [] name = "getAttributeValueInstance" -> getAttributeValueInstance(state, ci)
    [] name = "putAttributeValueInstance" -> putAttributeValueInstance(state, ci)
    [] name = "deleteAttributeValueInstance" -> deleteAttributeValueInstance(state, ci)
    [] name = "badVerbGetPutDeleteOnly" -> badVerbGetPutDeleteOnly(state, ci)
    [] name = "getNgsi10ContextEntityTypes" -> getNgsi10ContextEntityTypes(state, ci)
    [] name = "getNgsi10ContextEntityTypesAttribute" -> getNgsi10ContextEntityTypesAttribute(state, ci)
    [] name = "postSubscribeContextConvOp" -> postSubscribeContextConvOp(state, ci)
    [] name = "putSubscriptionConvOp" -> putSubscriptionConvOp(state, ci)
    [] name = "deleteSubscriptionConvOp" -> deleteSubscriptionConvOp(state, ci)
    [] name = "getEntityTypes" -> getEntityTypes(state, ci)
    [] name = "getAttributesForEntityType" -> getAttributesForEntityType(state, ci)
    [] name = "getAllContextEntities" -> getAllContextEntities(state, ci)
    [] name = "getAllEntitiesWithTypeAndId" -> getAllEntitiesWithTypeAndId(state, ci)
    [] name = "postAllEntitiesWithTypeAndId" -> postAllEntitiesWithTypeAndId(state, ci)
    [] name = "putAllEntitiesWithTypeAndId" -> putAllEntitiesWithTypeAndId(state, ci)
    [] name = "deleteAllEntitiesWithTypeAndId" -> deleteAllEntitiesWithTypeAndId(state, ci)
    [] name = "getIndividualContextEntityAttributeWithTypeAndId" -> getIndividualContextEntityAttributeWithTypeAndId(state, ci)
    [] name = "postIndividualContextEntityAttributeWithTypeAndId" -> postIndividualContextEntityAttributeWithTypeAndId(state, ci)
    [] name = "putIndividualContextEntityAttributeWithTypeAndId" -> putIndividualContextEntityAttributeWithTypeAndId(state, ci)
    [] name = "deleteIndividualContextEntityAttributeWithTypeAndId" -> deleteIndividualContextEntityAttributeWithTypeAndId(state, ci)
    [] name = "getAttributeValueInstanceWithTypeAndId" -> getAttributeValueInstanceWithTypeAndId(state, ci)
    [] name = "postAttributeValueInstanceWithTypeAndId" -> postAttributeValueInstanceWithTypeAndId(state, ci)
    [] name = "putAttributeValueInstanceWithTypeAndId" -> putAttributeValueInstanceWithTypeAndId(state, ci)
    [] name = "deleteAttributeValueInstanceWithTypeAndId" -> deleteAttributeValueInstanceWithTypeAndId(state, ci)
    [] name = "getContextEntitiesByEntityIdAndType" -> getContextEntitiesByEntityIdAndType(state, ci)
    [] name = "postContextEntitiesByEntityIdAndType" -> postContextEntitiesByEntityIdAndType(state, ci)
    [] name = "getEntityByIdAttributeByNameWithTypeAndId" -> getEntityByIdAttributeByNameWithTypeAndId(state, ci)
    [] name = "postEntityByIdAttributeByNameWithTypeAndId" -> postEntityByIdAttributeByNameWithTypeAndId(state, ci)
    [] name = "logTraceTreat" -> logTraceTreat(state, ci)
    [] name = "statisticsTreat" -> statisticsTreat(state, ci)
    [] name = "badVerbGetDeleteOnly" -> badVerbGetDeleteOnly(state, ci)
    [] name = "versionTreat" -> versionTreat(state, ci)
    [] name = "exitTreat" -> exitTreat(state, ci)
    [] name = "leakTreat" -> leakTreat(state, ci)
    [] name = "badNgsi9Request" -> badNgsi9Request(state, ci)
    [] name = "badNgsi10Request" -> badNgsi10Request(state, ci)
    [] name = "badRequest" -> badRequest(state, ci)
    [] OTHER -> Refuse(state, "BadRequest")

\* The request that the routine has filled in, and its answer.
Perform(state, ci, c) ==
  CASE c.call = "postUpdateContext" ->
         UpdateAnswer(UpdateAll(state, ci, c.action, c.elements), c.fill)
    [] c.call = "postQueryContext" -> QueryAnswer(state, Query(state, c.query), c.fill, c.part)
    [] OTHER -> c

serviceV(f) == IF Families[f].ngsi9 THEN restServiceNgsi9 ELSE restServiceV

\* The rows of the requests that are made, and of the same with other verbs and
\* in the other version: a table, so that each is looked up once.
V1(path) == CASE path = <<>> -> path
              [] path # <<>> /\ path[1] = "ngsi9" -> <<"v1", "registry">> \o Tail(path)
              [] path # <<>> /\ path[1] = "ngsi10" -> <<"v1">> \o Tail(path)
              [] OTHER -> path
Asked(f) == {<<verb, path>> : verb \in {"GET", "POST", "PUT", "DELETE"},
                              path \in UNION {{ci.path, V1(ci.path)} : ci \in Families[f].requests}}
rows == [f \in DOMAIN Families |-> [a \in Asked(f) |-> RowOf(serviceV(f), a[1], a[2])]]

payloadParse(ci) == IF ci.payload.kind = "bad" THEN "error" ELSE "OK"

\* The tenant is looked at after the payload; the filters of the parameters are
\* with the routines that are given them.
tenantCheck(ci) == IF ci.tenant \in BadWords THEN "bad tenant" ELSE "OK"

restService(f, state, ci) ==
  LET Serve(row) ==
        IF \/ ci.path = <<>>
           \/ row = Unrecognized
           \/ row.verb # "*" /\ payloadParse(ci) # "OK"
           \/ tenantCheck(ci) # "OK"
          THEN Refuse(state, "BadRequest")
          ELSE Perform(state, ci, treat(row.treat, state, ci))
  IN  Serve(rows[f][<<ci.verb, ci.path>>])

-----------------------------------------------------------------------------

NoExchange == [ci |-> Nothing, code |-> "None", body |-> <<>>]

Init == /\ family \in DOMAIN Families
        /\ db = Families[family].initial
        /\ exchange = NoExchange

\* One request, from its URL to its answer.
Request(ci) ==
  /\ db.alive
  /\ ci.payload.kind = "subscribe" => db.given < Len(SubscriptionIds)
  /\ \E r \in {restService(family, db, ci)} :
       /\ Len(r.db.entities) <= MaxEntities
       /\ Len(r.db.regs) <= MaxRegistrations
       /\ db' = r.db
       /\ exchange' = [ci |-> ci, code |-> r.code, body |-> r.body]
  /\ UNCHANGED family

Next == \E ci \in Families[family].requests : Request(ci)

Spec == Init /\ [][Next]_vars

-----------------------------------------------------------------------------
(* Properties                                                               *)

IsReply(x) == x.code \in {"None", "Ok", "BadRequest", "BadVerb", "ContextElementNotFound",
                          "InvalidParameter", "Conflict", "ReceiverInternalError"}

\* The state is of the kinds of the header; no two entities have the same id
\* and type, and an id that was given belongs to at most one subscription.
TypeOK ==
  /\ family \in DOMAIN Families
  /\ IsReply(exchange)
  /\ \A i, j \in DOMAIN db.entities :
       <<db.entities[i].id, db.entities[i].type>> = <<db.entities[j].id, db.entities[j].type>> =>
         i = j
  /\ db.given \in 0..Len(SubscriptionIds)
  /\ DOMAIN db.subs \cap DOMAIN db.avail = {}
  /\ DOMAIN db.subs \cup DOMAIN db.avail \subseteq {SubscriptionIds[i] : i \in 1..db.given}

Answered(code) == exchange.code = code

\* The answer 405 goes only to verbs for which the path has no row: the rows
\* that answer it are for any verb, and restService takes the first match.
ServedByItsVerb ==
  Answered("BadVerb") =>
    ~\E i \in DOMAIN serviceV(family) :
       /\ serviceV(family)[i].verb = exchange.ci.verb
       /\ MatchesPath(serviceV(family)[i], exchange.ci.path)

\* The words of a path that come after another word.
After(path, word) == {path[i] : i \in {j \in DOMAIN path : j > 1 /\ path[j - 1] = word}}

Get(ci) == [ci EXCEPT !.verb = "GET", !.payload = [kind |-> "none", nullFirst |-> FALSE]]
Typed9(ci) == After(ci.path, "type") # {} /\ Len(ci.path) = 9

\* What a PUT or a POST of an entity or of an attribute says it has written is
\* what a GET of the same URL, with the same parameters, then answers: the
\* routines of the four verbs take the entity, the attribute and its ID from
\* the same components. Not so for the value instances of a typed entity
\* (Typed9), whose GET looks for the type of the parameter.
ReadYourWrite ==
  LET ci == exchange.ci
      reported == IF ci.payload.kind = "attribute"
                    THEN {<<w, ci.payload.value>> : w \in After(ci.path, "attributes")}
                    ELSE {<<a.name, a.value>> :
                            a \in {x \in Range(ci.payload.attributes) :
                                    \E y \in Range(exchange.body[1].attributes) :
                                      y.name = x.name /\ y.found}}
      Read == restService(family, db, Get(ci))
  IN  (Answered("Ok") /\ ci.payload.kind \in {"element", "attribute"} /\ ~Typed9(ci)) =>
        \A w \in reported :
          \E cer \in Range(Read.body) :
            \E a \in Range(cer.attributes) : <<a.name, a.value>> = w

\* An entity that a request is about, by its URL, its parameters or its payload.
Addresses(ci, e) ==
  CASE ci.payload.kind \in {"update", "notify"} ->
         \E x \in Range(ci.payload.elements) : x.id = e.id /\ x.type \in {Nothing, e.type}
    [] OTHER ->
         LET named == IF ci.payload.kind = "element" THEN ci.payload
                      ELSE [id |-> Nothing, type |-> Nothing]
         IN  /\ e.id \in After(ci.path, "contextEntities") \cup After(ci.path, "id") \cup {named.id}
             /\ After(ci.path, "type") \subseteq {e.type}
             /\ {ci.type, named.type} \subseteq {Nothing, e.type}
             /\ ci.exist = "empty" => e.type = Nothing

\* A request changes no entity but those it is about, and a request about one
\* attribute changes no other attribute: whatever the routine fills in leaves
\* nothing of the URL out, so that an update does not spread to entities of
\* another type or to all attributes.
OnlyTheAddressed ==
  [][LET ci == exchange'.ci
         old == Range(db.entities)
         new == Range(db'.entities)
     IN  /\ \A e \in (old \ new) \cup (new \ old) : Addresses(ci, e)
         /\ \A e \in old, n \in new :
              (e.id = n.id /\ e.type = n.type /\ After(ci.path, "attributes") # {}) =>
                \A k \in DOMAIN e.attrs \cup DOMAIN n.attrs :
                  \/ k[1] \in After(ci.path, "attributes")
                  \/ k \in DOMAIN e.attrs \cap DOMAIN n.attrs /\ e.attrs[k] = n.attrs[k]]_vars

\* A convenience operation about at most one entity of the database that is
\* answered with an error has changed nothing: the parameters and the payload
\* are checked before the standard operation is called, and that one refuses
\* before it writes. (About several entities, the error is that of the first.)
RefusedChangesNothing ==
  [][(/\ exchange'.code # "Ok"
       /\ exchange'.ci.payload.kind \notin {"update", "notify"}
       /\ Cardinality({e \in Range(db.entities) : Addresses(exchange'.ci, e)}) <= 1) =>
     UNCHANGED db]_vars

\* What was registered at a URL of the registry is discovered at that URL,
\* in both versions, which count the components differently.
RegisteredIsDiscovered ==
  (Answered("Ok") /\ exchange.ci.payload.kind = "provider") =>
    \E crr \in Range(restService(family, db, Get(exchange.ci)).body) :
      crr.app = exchange.ci.payload.app

\* The URL of version 1 does what that of version 0 does. The exception is the
\* filter exist=entity::type of a subscription to availability.
VersionsAgree ==
  [][LET ci == exchange'.ci
         Same(v1) == <<db', exchange'.code>> = <<v1.db, v1.code>>
     IN  (ci.exist = Nothing \/ ~Contains(ci.path, "contextAvailabilitySubscriptions")) =>
           Same(restService(family, db, [ci EXCEPT !.path = V1(@)]))]_vars
=============================================================================
