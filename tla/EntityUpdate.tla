---------------------------- MODULE EntityUpdate ----------------------------
(***************************************************************************)
(* The update of entities: mongoUpdateContext (and mongoNotifyContext,     *)
(* whose action is always "append") and processContextElement of           *)
(* lib/mongoBackend/MongoCommonUpdate.cpp, for the entities of one id in   *)
(* one tenant. The collection 'entities' is keyed by type and service      *)
(* path; a document keeps its attributes by name and metadata ID, a list   *)
(* of their names, and the location.                                       *)
(*                                                                         *)
(* A handler runs under the request semaphore, one database operation per  *)
(* step: it reads the documents, works out the update from what it read,   *)
(* writes, and notifies. The attributes of one context element have        *)
(* different name and ID (the database rejects an update with two values   *)
(* for one field). Dates, and context providers, are left out.             *)
(***************************************************************************)
EXTENDS Naturals, Sequences, FiniteSets, Functions, ReqSem

CONSTANTS
  Names,         \* attribute names
  Encoded,       \* dbDotEncode: Names -> names as they are stored
  Prefixes,      \* <<name, stored name>>: the first is a proper prefix of the second
  Ids,           \* values of the metadata "ID"
  Coordinates,   \* the values that string2coords can read
  Compounds,     \* the values that are compound
  EntityTypes,   \* types of entities, "" for none
  Paths,         \* service paths
  Includes,      \* <<p, q>>: the text of path p occurs in path q, p # q
  Requests,      \* the requests of the clients (see NoRequest)
  MaxRequests,   \* bound: requests of all clients
  DbFaults       \* TRUE: database operations may fail

NoId == ""
NoValue == ""
Key(name, id) == <<Encoded[name], id>>

\* A ContextAttribute and a ContextElement, as the checks of a request let them
\* through.
Attribute ==
  [name : Names, id : Ids \union {NoId}, type : STRING, value : STRING,
   md : SUBSET [type : STRING, value : STRING], location : STRING]
ContextElement == [type : EntityTypes, isPattern : BOOLEAN, attributes : Seq(Attribute)]

\* dbDotEncode leaves no dot: what it changes is not the encoding of anything.
ASSUME EntityUpdateAssumption ==
  /\ IsInjective(Encoded) /\ DOMAIN Encoded = Names /\ "" \notin Names
  /\ \A m, n \in Names : Encoded[n] # n => Encoded[m] # n
  /\ NoId \notin Ids /\ NoValue \notin Coordinates \union Compounds
  /\ Coordinates \intersect Compounds = {}
  /\ MaxRequests \in Nat /\ DbFaults \in BOOLEAN

ASSUME RequestsAssumption ==
  \A r \in Requests :
    /\ r \in [action : {"update", "append", "delete"}, path : Paths \union {""},
              notExist : BOOLEAN, elements : Seq(ContextElement)]
    /\ r.elements # <<>> => r.path \in Paths
    /\ \A i \in DOMAIN r.elements :
         LET attributes == r.elements[i].attributes IN
         \A j, k \in DOMAIN attributes :
           attributes[j].name = attributes[k].name /\ attributes[j].id = attributes[k].id
             => j = k

\* The document keys (_id.type, _id.servicePath).
EntityKeys == EntityTypes \X Paths

NoLocation == [attrName |-> "", coords |-> NoValue]
NoEntity == [exists |-> FALSE, attrs |-> <<>>, attrNames |-> {}, location |-> NoLocation]

VARIABLES
  entities,   \* the collection
  pc,         \* where each request thread is
  req,        \* the request: what is left of its context elements
  cursor,     \* the documents read and still to process
  cer,        \* the entity in process and its ContextElementResponse
  requests    \* requests the clients have left

vars == <<entities, semVars, pc, req, cursor, cer, requests>>

\* notExist: the URI parameter !exist=entity::type
NoRequest == [action |-> "none", path |-> "", notExist |-> FALSE, elements |-> <<>>]
NoCursor == <<>>

\* The variables of one round of processContextElement's loop.
NoCer ==
  [key |-> <<"", "">>,
   read |-> NoEntity,      \* the document before this round
   todo |-> <<>>,          \* attributes still to process
   toSet |-> <<>>, toUnset |-> {}, toPush |-> {}, deleted |-> {},
   location |-> NoLocation, entityModified |-> FALSE,
   missing |-> FALSE,      \* an attribute with found = false
   trigger |-> {},         \* attributes that addTriggeredSubscriptions was called for
   notified |-> {},        \* those whose subscriptions were notified
   status |-> "None"]

Goto(w, label) == pc' = [pc EXCEPT ![w] = label]
SetCer(w, value) == cer' = [cer EXCEPT ![w] = value]
Element(w) == Head(req[w].elements)

\* The response of this round is complete.
Respond(w, value) == SetCer(w, value) /\ Goto(w, "respond")

Init ==
  /\ entities = [k \in EntityKeys |-> NoEntity]
  /\ semInit
  /\ pc = [w \in Workers |-> "idle"]
  /\ req = [w \in Workers |-> NoRequest]
  /\ cursor = [w \in Workers |-> NoCursor]
  /\ cer = [w \in Workers |-> NoCer]
  /\ requests = MaxRequests

-----------------------------------------------------------------------------
(* mongoUpdateContext and mongoNotifyContext                                *)

ReceiveRequest(w) ==
  /\ pc[w] = "idle" /\ requests > 0
  /\ \E r \in Requests : req' = [req EXCEPT ![w] = r]
  /\ requests' = requests - 1
  /\ Goto(w, "take")
  /\ UNCHANGED <<entities, semVars, cursor, cer>>

TakeSem(w) ==
  /\ pc[w] = "take"
  /\ reqSemTake(w, "write")
  /\ Goto(w, "element")
  /\ UNCHANGED <<entities, req, cursor, cer, requests>>

\* (A request with several service paths comes here at once: see MCEntityUpdate.)
AllDone(w) ==
  /\ pc[w] = "element" /\ req[w].elements = <<>>
  /\ reqSemGive(w)
  /\ req' = [req EXCEPT ![w] = NoRequest]
  /\ Goto(w, "idle")
  /\ UNCHANGED <<entities, cursor, cer, requests>>

-----------------------------------------------------------------------------
(* processContextElement: what is not accepted, and the query               *)

Refused(w) ==
  \/ Element(w).isPattern
  \/ /\ req[w].action \in {"update", "append"}
     /\ \E i \in DOMAIN Element(w).attributes :
          Element(w).attributes[i].value = NoValue

\* buildGeneralErrorResponse and the next context element.
NextElement(w) ==
  /\ req' = [req EXCEPT ![w].elements = Tail(@)]
  /\ Goto(w, "element")

RefuseElement(w) ==
  /\ pc[w] = "element" /\ req[w].elements # <<>> /\ Refused(w)
  /\ NextElement(w)
  /\ UNCHANGED <<entities, semVars, cursor, cer, requests>>

Queried(w, k) ==
  /\ entities[k].exists
  /\ Element(w).type \in {"", k[1]}
  /\ req[w].notExist => k[1] = ""
  /\ k[2] = req[w].path

QueryEntities(w) ==
  /\ pc[w] = "element" /\ req[w].elements # <<>> /\ ~Refused(w)
  /\ \/ /\ cursor' = [cursor EXCEPT ![w] =
             [k \in {x \in EntityKeys : Queried(w, x)} |-> entities[k]]]
        /\ Goto(w, IF \E k \in EntityKeys : Queried(w, k) THEN "docs" ELSE "noDocs")
        /\ UNCHANGED req
     \/ DbFaults /\ NextElement(w) /\ UNCHANGED cursor
  /\ UNCHANGED <<entities, semVars, cer, requests>>

NextDoc(w) ==
  /\ pc[w] = "docs"
  /\ \E k \in DOMAIN cursor[w] :
       /\ cursor' = [cursor EXCEPT ![w] = Restrict(@, DOMAIN @ \ {k})]
       /\ SetCer(w, [NoCer EXCEPT !.key = k, !.read = cursor[w][k],
                                  !.location = cursor[w][k].location,
                                  !.todo = Element(w).attributes])
  /\ Goto(w, IF req[w].action = "delete" /\ Element(w).attributes = <<>>
               THEN "remove" ELSE "attributes")
  /\ UNCHANGED <<entities, semVars, req, requests>>

DocsDone(w) ==
  /\ pc[w] = "docs" /\ cursor[w] = NoCursor
  /\ NextElement(w)
  /\ UNCHANGED <<entities, semVars, cursor, cer, requests>>

RemoveEntity(w) ==
  /\ pc[w] = "remove"
  /\ \/ /\ entities' = [entities EXCEPT ![cer[w].key] = NoEntity]
        /\ Respond(w, [cer[w] EXCEPT !.status = "Ok"])
     \/ /\ DbFaults /\ UNCHANGED entities
        /\ Respond(w, [cer[w] EXCEPT !.status = "ReceiverInternalError"])
  /\ UNCHANGED <<semVars, req, cursor, requests>>

-----------------------------------------------------------------------------
(* The attributes of a document that was found                              *)

\* A metadata element without type is stored with the type "" when its
\* attribute is created, and without the field type when it is updated.
NoType == "no field"
TypeText(md) == IF md.type = NoType THEN "" ELSE md.type

\* contextAttributeCustomMetadataToBson and the rest of a new attribute.
NewAttribute(a) == [value |-> a.value, type |-> a.type, md |-> a.md]

MergedMetadata(attr, a) ==
  {[md EXCEPT !.type = IF @ = "" THEN NoType ELSE @] : md \in a.md}
    \union {md \in attr.md : ~\E new \in a.md : new.type = TypeText(md)}

\* Mutant: a metadata element that is stored already keeps its value.
MergeKeepsStored(attr, a) ==
  [value |-> a.value, type |-> IF a.type = "" THEN attr.type ELSE a.type,
   md |-> attr.md \union {md \in a.md : ~\E old \in attr.md : old.type = md.type}]

mergeAttrInfo(attr, a) ==
  [value |-> a.value, type |-> IF a.type = "" THEN attr.type ELSE a.type,
   md |-> MergedMetadata(attr, a)]

\* matchMetadata: the same type, or both without the field.
equalMetadataVectors(mdV1, mdV2) ==
  \A md1 \in mdV1, md2 \in mdV2 : md1.type = md2.type => md1.value = md2.value

ActualUpdate(attr, merged) ==
  \/ merged.value \in Compounds
  \/ attr.value # merged.value
  \/ attr.type # merged.type
  \/ Cardinality(attr.md) # Cardinality(merged.md)
  \/ ~equalMetadataVectors(attr.md, merged.md)

Has(c, a) == Key(a.name, a.id) \in DOMAIN c.read.attrs

\* f with the value v for k
With(f, k, v) == [x \in DOMAIN f \union {k} |-> IF x = k THEN v ELSE f[x]]

\* The attribute is modified: it is to be set, and its subscriptions notified.
Modify(c, a, attr) ==
  [c EXCEPT !.toSet = With(@, Key(a.name, a.id), attr), !.entityModified = TRUE,
            !.trigger = @ \union {a.name}]

updateAttribute(c, a) ==
  LET attr == c.read.attrs[Key(a.name, a.id)]
      merged == mergeAttrInfo(attr, a)
  IN IF ActualUpdate(attr, merged) THEN Modify(c, a, merged) ELSE c

\* Mutant: the subscriptions of a new attribute are not looked for.
AppendWithoutTrigger(c, a) ==
  IF Has(c, a) THEN updateAttribute(c, a)
  ELSE [Modify(c, a, NewAttribute(a)) EXCEPT !.toPush = @ \union {a.name},
                                             !.trigger = c.trigger]

appendAttribute(c, a) ==
  IF Has(c, a) THEN updateAttribute(c, a)
  ELSE [Modify(c, a, NewAttribute(a)) EXCEPT !.toPush = @ \union {a.name}]

\* The names are compared as text: an attribute whose name only begins like
\* this one is in the way of an attribute with ID.
legalIdUsage(attrs, a) ==
  IF a.id = NoId
    THEN \A k \in DOMAIN attrs : k[1] = a.name => k[2] = NoId
    ELSE \A k \in DOMAIN attrs :
           /\ k[1] = a.name => k[2] # NoId
           /\ <<a.name, k[1]>> \notin Prefixes

Located(a) == a.location # "none"

UpdateRejected(c, a) ==
  \/ Located(a) /\ a.name # c.location.attrName
  \/ a.name = c.location.attrName /\ a.value \notin Coordinates

\* An attribute that is not there does not stop the others.
UpdateOne(c, a) ==
  LET found == IF Has(c, a) THEN updateAttribute(c, a)
                 ELSE [c EXCEPT !.missing = TRUE, !.status = "InvalidParameter"]
  IN [found EXCEPT !.location.coords = IF a.name = c.location.attrName THEN a.value ELSE @]

AppendRejected(c, a) ==
  \/ ~legalIdUsage(c.read.attrs, a)
  \/ /\ Located(a)
     /\ \/ c.location.attrName \notin {"", a.name}
        \/ a.location # "WGS84"
        \/ a.value \notin Coordinates

AppendOne(c, a) ==
  [appendAttribute(c, a) EXCEPT
     !.location = IF Located(a) THEN [attrName |-> a.name, coords |-> a.value] ELSE @]

DeleteRejected(c, a) == ~Has(c, a) \/ Located(a)

\* Mutant: the location stays when its attribute is deleted.
DeleteKeepsLocation(c, a) ==
  [c EXCEPT !.toUnset = @ \union {Key(a.name, a.id)}, !.deleted = @ \union {<<a.name, a.id>>},
            !.entityModified = TRUE, !.trigger = @ \union {a.name}]

DeleteOne(c, a) ==
  [c EXCEPT !.toUnset = @ \union {Key(a.name, a.id)}, !.deleted = @ \union {<<a.name, a.id>>},
            !.entityModified = TRUE, !.trigger = @ \union {a.name},
            !.location = IF a.name = @.attrName THEN NoLocation ELSE @]

Rejected(action, c, a) ==
  CASE action = "update" -> UpdateRejected(c, a)
    [] action = "append" -> AppendRejected(c, a)
    [] action = "delete" -> DeleteRejected(c, a)

Processed(action, c, a) ==
  CASE action = "update" -> UpdateOne(c, a)
    [] action = "append" -> AppendOne(c, a)
    [] action = "delete" -> DeleteOne(c, a)

\* Mutant: after an attribute that is rejected the others are processed.
RejectAndGoOn(w) ==
  /\ pc[w] = "attributes" /\ cer[w].todo # <<>>
  /\ Rejected(req[w].action, cer[w], Head(cer[w].todo))
  /\ SetCer(w, [cer[w] EXCEPT !.todo = Tail(@), !.status = "InvalidParameter"])
  /\ UNCHANGED <<entities, semVars, pc, req, cursor, requests>>

(* processContextAttributeVector returns false: nothing of this document is *)
(* written.                                                                 *)
RejectAttribute(w) ==
  /\ pc[w] = "attributes" /\ cer[w].todo # <<>>
  /\ Rejected(req[w].action, cer[w], Head(cer[w].todo))
  /\ Respond(w, [cer[w] EXCEPT !.status = "InvalidParameter"])
  /\ UNCHANGED <<entities, semVars, req, cursor, requests>>

ProcessAttribute(w) ==
  LET a == Head(cer[w].todo)
      processed == Processed(req[w].action, [cer[w] EXCEPT !.todo = Tail(@)], a)
  IN
  /\ pc[w] = "attributes" /\ cer[w].todo # <<>>
  /\ ~Rejected(req[w].action, cer[w], a)
  /\ \/ SetCer(w, processed) /\ UNCHANGED pc
     \/ /\ DbFaults   \* in addTriggeredSubscriptions
        /\ <<processed.toSet, processed.toUnset>> # <<cer[w].toSet, cer[w].toUnset>>
        /\ Respond(w, [processed EXCEPT !.status = "ReceiverInternalError"])
  /\ UNCHANGED <<entities, semVars, req, cursor, requests>>

OkIfNone(status) == IF status = "None" THEN "Ok" ELSE status

AttributesDone(w) ==
  /\ pc[w] = "attributes" /\ cer[w].todo = <<>>
  /\ SetCer(w, [cer[w] EXCEPT !.status = OkIfNone(@)])
  /\ Goto(w, IF cer[w].entityModified THEN "write" ELSE "respond")
  /\ UNCHANGED <<entities, semVars, req, cursor, requests>>

-----------------------------------------------------------------------------
(* The write and the notifications                                          *)

howManyAttrs(attrs, name) == Cardinality({k \in DOMAIN attrs : k[1] = name})

\* Mutant: the name of a deleted attribute is pulled whatever other IDs are left.
PullAll(c) == {d[1] : d \in c.deleted}

\* The names whose every instance is deleted.
toPull(c) ==
  {name \in {d[1] : d \in c.deleted} :
     howManyAttrs(c.read.attrs, name) <= Cardinality({d \in c.deleted : d[1] = name})}

\* $set, $unset, $addToSet and $pullAll on a document
Apply(doc, c) ==
  [doc EXCEPT
     !.attrs = [k \in (DOMAIN @ \ c.toUnset) \union DOMAIN c.toSet |->
                  IF k \in DOMAIN c.toSet THEN c.toSet[k] ELSE @[k]],
     !.attrNames = (@ \union c.toPush) \ toPull(c),
     !.location = c.location]

\* The query of the update: its regular expression for the service path is not
\* anchored. The database updates one of the documents that match.
UpdateMatches(key) ==
  {k \in EntityKeys : /\ entities[k].exists
                      /\ k[1] = key[1]
                      /\ k[2] = key[2] \/ <<key[2], k[2]>> \in Includes}

WriteEntity(w) ==
  LET c == cer[w] IN
  /\ pc[w] = "write"
  /\ \/ /\ IF UpdateMatches(c.key) = {} THEN UNCHANGED entities
             ELSE \E k \in UpdateMatches(c.key) :
                    entities' = [entities EXCEPT ![k] = Apply(@, c)]
        /\ Goto(w, "notify") /\ UNCHANGED cer
     \/ /\ DbFaults /\ UNCHANGED entities
        /\ Respond(w, [c EXCEPT !.status = "ReceiverInternalError"])
  /\ UNCHANGED <<semVars, req, cursor, requests>>

(* processSubscriptions; what it does for each subscription is in module    *)
(* Subscriptions. Its failures do not show in the response.                 *)
ProcessSubscriptions(w) ==
  /\ pc[w] = "notify"
  /\ Respond(w, [cer[w] EXCEPT !.notified = cer[w].trigger, !.status = OkIfNone(@)])
  /\ UNCHANGED <<entities, semVars, req, cursor, requests>>

ResponsePushed(w) ==
  /\ pc[w] = "respond"
  /\ SetCer(w, NoCer)
  /\ Goto(w, "docs")
  /\ UNCHANGED <<entities, semVars, req, cursor, requests>>

-----------------------------------------------------------------------------
(* No document was found                                                    *)

\* The update may still be forwarded to a context provider: its attributes are
\* not found here.
NothingToUpdate(w) ==
  LET key == <<Element(w).type, req[w].path>> IN
  /\ pc[w] = "noDocs" /\ req[w].action \in {"update", "delete"}
  /\ Respond(w, [NoCer EXCEPT
       !.key = key, !.read = entities[key], !.missing = TRUE,
       !.status = IF req[w].action = "update" THEN "Ok" ELSE "ContextElementNotFound"])
  /\ UNCHANGED <<entities, semVars, req, cursor, requests>>

\* legalIdUsage of the whole vector compares name and type.
MixedIds(attributes) ==
  \E i, j \in DOMAIN attributes :
    /\ attributes[i].name = attributes[j].name /\ attributes[i].type = attributes[j].type
    /\ attributes[i].id = NoId /\ attributes[j].id # NoId

processLocation(attributes) ==
  LET located == {i \in DOMAIN attributes : Located(attributes[i])} IN
  /\ Cardinality(located) <= 1
  /\ \A i \in located :
       attributes[i].location = "WGS84" /\ attributes[i].value \in Coordinates

NewEntity(attributes) ==
  LET located == {i \in DOMAIN attributes : Located(attributes[i])}
      keyOf(i) == Key(attributes[i].name, attributes[i].id)
  IN [exists |-> TRUE,
      attrs |-> [k \in {keyOf(i) : i \in DOMAIN attributes} |->
                   NewAttribute(attributes[CHOOSE i \in DOMAIN attributes : keyOf(i) = k])],
      attrNames |-> {attributes[i].name : i \in DOMAIN attributes},
      location |-> IF located = {} THEN NoLocation
                     ELSE LET a == attributes[CHOOSE i \in located : TRUE]
                          IN [attrName |-> a.name, coords |-> a.value]]

\* The _id is unique: the insert fails when the document exists by now.
CreateEntity(w) ==
  LET key == <<Element(w).type, req[w].path>>
      attributes == Element(w).attributes
      c == [NoCer EXCEPT !.key = key, !.read = entities[key]]
      legal == ~MixedIds(attributes) /\ processLocation(attributes)
  IN
  /\ pc[w] = "noDocs" /\ req[w].action = "append"
  /\ \/ /\ legal /\ ~entities[key].exists
        /\ entities' = [entities EXCEPT ![key] = NewEntity(attributes)]
        /\ SetCer(w, [c EXCEPT !.trigger = {attributes[i].name : i \in DOMAIN attributes}])
        /\ Goto(w, "created")
     \/ /\ ~legal \/ entities[key].exists \/ DbFaults
        /\ Respond(w, [c EXCEPT !.status = "InvalidParameter"])
        /\ UNCHANGED entities
  /\ UNCHANGED <<semVars, req, cursor, requests>>

\* addTriggeredSubscriptions for each attribute of the new entity
CreateTriggers(w) ==
  /\ pc[w] = "created"
  /\ \/ Goto(w, "notify") /\ UNCHANGED cer
     \/ /\ DbFaults /\ cer[w].trigger # {}
        /\ Respond(w, [cer[w] EXCEPT !.status = "ReceiverInternalError"])
  /\ UNCHANGED <<entities, semVars, req, cursor, requests>>

-----------------------------------------------------------------------------
Step(w) ==
  \/ TakeSem(w) \/ AllDone(w)
  \/ RefuseElement(w) \/ QueryEntities(w) \/ NextDoc(w) \/ DocsDone(w) \/ RemoveEntity(w)
  \/ RejectAttribute(w) \/ ProcessAttribute(w) \/ AttributesDone(w)
  \/ WriteEntity(w) \/ ProcessSubscriptions(w) \/ ResponsePushed(w)
  \/ NothingToUpdate(w) \/ CreateEntity(w) \/ CreateTriggers(w)

Next == \E w \in Workers : ReceiveRequest(w) \/ Step(w)

Spec == Init /\ [][Next]_vars

-----------------------------------------------------------------------------
(* Properties                                                               *)

PC == {"idle", "take", "element", "docs", "noDocs", "remove", "attributes", "write",
       "notify", "respond", "created"}
Status == {"None", "Ok", "InvalidParameter", "ReceiverInternalError",
           "ContextElementNotFound"}

\* The types; the request semaphore stays binary.
TypeOK ==
  /\ \A k \in EntityKeys :
       LET doc == entities[k] IN
       /\ DOMAIN doc.attrs \subseteq Range(Encoded) \X (Ids \union {NoId})
       /\ doc.attrNames \subseteq Names
       /\ doc.location.attrName \in Names \union {""}
       /\ ~doc.exists => doc = NoEntity
  /\ SemTypeOK
  /\ pc \in [Workers -> PC]
  /\ \A w \in Workers : cer[w].status \in Status /\ DOMAIN cursor[w] \subseteq EntityKeys
  /\ requests \in 0..MaxRequests

NameOf(k) == CHOOSE name \in Names : Encoded[name] = k[1]

\* attrNames lists exactly the names of the attributes of the entity, whatever
\* instances (IDs) of them were appended and deleted.
AttrNamesMatch ==
  \A k \in EntityKeys :
    entities[k].attrNames = {NameOf(a) : a \in DOMAIN entities[k].attrs}

\* The location of an entity is that of an attribute it has, and is a position.
LocationOfAnAttribute ==
  \A k \in EntityKeys :
    LET doc == entities[k] IN
    doc.location # NoLocation =>
      /\ doc.location.coords \in Coordinates
      /\ \E a \in DOMAIN doc.attrs : NameOf(a) = doc.location.attrName

Requested(w) == {Element(w).attributes[i] : i \in DOMAIN Element(w).attributes}

\* A response says Ok only when the entity is now as the request wants it: the
\* attributes have the new value and metadata, or are gone, and the location
\* follows an UPDATE of its attribute. (Except where the UPDATE changes nothing:
\* then the location of an APPEND without location stays behind.)
OkMeansDone ==
  \A w \in Workers : pc[w] = "respond" /\ cer[w].status = "Ok" /\ ~cer[w].missing =>
    LET doc == entities[cer[w].key] IN
    IF req[w].action = "delete"
      THEN IF Requested(w) = {} THEN ~doc.exists
           ELSE \A a \in Requested(w) : Key(a.name, a.id) \notin DOMAIN doc.attrs
      ELSE \A a \in Requested(w) :
             /\ Key(a.name, a.id) \in DOMAIN doc.attrs
             /\ LET attr == doc.attrs[Key(a.name, a.id)] IN
                /\ attr.value = a.value
                /\ \A md \in a.md : \E stored \in attr.md :
                     TypeText(stored) = md.type /\ stored.value = md.value
             /\ req[w].action = "update" /\ doc.location.attrName = a.name /\ doc # cer[w].read =>
                  \E b \in Requested(w) : b.name = a.name /\ doc.location.coords = b.value

\* When a request is refused for one of its attributes, the entity is left as
\* it was read: the attributes before that one are not written either. (An
\* UPDATE of an attribute that does not exist is no refusal.)
RefusedChangesNothing ==
  \A w \in Workers :
    pc[w] = "respond" /\ cer[w].status = "InvalidParameter" /\ ~cer[w].missing =>
      entities[cer[w].key] = cer[w].read

Changed(old, new) ==
  {NameOf(k) : k \in {x \in DOMAIN old.attrs \union DOMAIN new.attrs :
                        \/ x \notin DOMAIN old.attrs \/ x \notin DOMAIN new.attrs
                        \/ old.attrs[x] # new.attrs[x]}}

\* The ONCHANGE subscriptions that are notified are those of the attributes
\* whose value, type or metadata the request changed: none is missed, and none
\* is notified without a change, compound values apart.
NotifiedAreChanged ==
  \A w \in Workers :
    pc[w] = "respond" /\ cer[w].status # "ReceiverInternalError"
      /\ (req[w].action = "delete" => Requested(w) # {}) =>
      LET changed == Changed(cer[w].read, entities[cer[w].key]) IN
      /\ changed \subseteq cer[w].notified
      /\ \A name \in cer[w].notified \ changed :
           \E a \in Requested(w) : a.name = name /\ a.value \in Compounds

\* A step of a handler writes no entity of another service path than its own.
WritesOwnPath ==
  [][\A w \in Workers :
       pc[w] = "write" /\ pc'[w] # "write" =>
         \A k \in EntityKeys : k[2] # req[w].path => entities'[k] = entities[k]]_vars
=============================================================================
