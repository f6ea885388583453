------------------------- MODULE EntityUpdateProofs -------------------------
(* Proofs about EntityUpdate, for any number of request threads, entities   *)
(* and attributes.                                                          *)
EXTENDS EntityUpdate, SequenceTheorems, ReqSemProofs

Attributes(r) == UNION {Range(r.elements[i].attributes) : i \in DOMAIN r.elements}

\* No request combines a name with dots and an ID.
PlainIds ==
  \A r \in Requests : \A a \in Attributes(r) : Encoded[a.name] # a.name => a.id = NoId

\* The metadata of an attribute have different types.
UniqueTypes(mds) ==
  /\ IsFiniteSet(mds) /\ \A md \in mds : md.type # NoType
  /\ \A md1, md2 \in mds : md1.type = md2.type => md1 = md2
UniqueMetadata == \A r \in Requests : \A a \in Attributes(r) : UniqueTypes(a.md)

\* Every metadata element has a type.
TypedMetadata == \A r \in Requests : \A a \in Attributes(r) : \A md \in a.md : md.type # ""

Distinct(attributes) ==
  \A j, k \in DOMAIN attributes :
    attributes[j].name = attributes[k].name /\ attributes[j].id = attributes[k].id => j = k

\* The attributes and the context elements of the requests.
Accepted ==
  {a \in Attribute : /\ PlainIds => (Encoded[a.name] # a.name => a.id = NoId)
                     /\ UniqueMetadata => UniqueTypes(a.md)
                     /\ TypedMetadata => \A md \in a.md : md.type # ""}
Elements == {e \in ContextElement : e.attributes \in Seq(Accepted) /\ Distinct(e.attributes)}

CerFields == {"key", "read", "todo", "toSet", "toUnset", "toPush", "deleted", "location",
              "entityModified", "missing", "trigger", "notified", "status"}
DocFields == {"exists", "attrs", "attrNames", "location"}
LocationFields == {"attrName", "coords"}

-----------------------------------------------------------------------------
(* What processing an attribute does to the variables of the round          *)

Kept(new, old) ==
  /\ DOMAIN new = CerFields /\ new.key = old.key /\ new.read = old.read
  /\ new.todo = old.todo /\ new.notified = old.notified

SameWrites(new, old) ==
  new.toSet = old.toSet /\ new.trigger = old.trigger /\ new.entityModified = old.entityModified

Modified(new, old, a, attr) ==
  /\ new.toSet = With(old.toSet, Key(a.name, a.id), attr)
  /\ new.trigger = old.trigger \union {a.name} /\ new.entityModified = TRUE

LEMMA ModifyFields ==
  ASSUME NEW c, DOMAIN c = CerFields, NEW a, NEW attr, NEW m, m = Modify(c, a, attr)
  PROVE  /\ Kept(m, c) /\ Modified(m, c, a, attr)
         /\ m.toUnset = c.toUnset /\ m.toPush = c.toPush /\ m.deleted = c.deleted
         /\ m.location = c.location /\ m.missing = c.missing /\ m.status = c.status
  <1>1. PICK f : f = With(c.toSet, Key(a.name, a.id), attr)
    OBVIOUS
  <1>2. PICK g : g = c.trigger \union {a.name}
    OBVIOUS
  <1>3. m = [c EXCEPT !.toSet = f, !.entityModified = TRUE, !.trigger = g]
    BY <1>1, <1>2 DEF Modify
  <1> QED BY <1>1, <1>2, <1>3 DEF CerFields, Kept, Modified

\* An attribute that the document has: it is set when that changes it.
UpdateForm(p, c, a) ==
  LET attr == c.read.attrs[Key(a.name, a.id)]
      merged == mergeAttrInfo(attr, a)
  IN \/ ActualUpdate(attr, merged) /\ Modified(p, c, a, merged)
     \/ ~ActualUpdate(attr, merged) /\ SameWrites(p, c)

LEMMA UpdateAttributeFields ==
  ASSUME NEW c, DOMAIN c = CerFields, NEW a, NEW u, u = updateAttribute(c, a)
  PROVE  /\ Kept(u, c) /\ UpdateForm(u, c, a)
         /\ u.toUnset = c.toUnset /\ u.toPush = c.toPush /\ u.deleted = c.deleted
         /\ u.location = c.location /\ u.missing = c.missing /\ u.status = c.status
  <1>1. PICK attr : attr = c.read.attrs[Key(a.name, a.id)]
    OBVIOUS
  <1>2. PICK merged : merged = mergeAttrInfo(attr, a)
    OBVIOUS
  <1>3. u = IF ActualUpdate(attr, merged) THEN Modify(c, a, merged) ELSE c
    BY <1>1, <1>2 DEF updateAttribute
  <1>4. CASE ActualUpdate(attr, merged)
    <2>1. u = Modify(c, a, merged)
      BY <1>3, <1>4
    <2>2. /\ Kept(u, c) /\ Modified(u, c, a, merged)
          /\ u.toUnset = c.toUnset /\ u.toPush = c.toPush /\ u.deleted = c.deleted
          /\ u.location = c.location /\ u.missing = c.missing /\ u.status = c.status
      BY <2>1, ModifyFields
    <2> QED BY <1>1, <1>2, <1>4, <2>2 DEF UpdateForm
  <1>5. CASE ~ActualUpdate(attr, merged)
    <2>1. u = c
      BY <1>3, <1>5
    <2> QED BY <1>1, <1>2, <1>5, <2>1 DEF UpdateForm, Kept, SameWrites
  <1> QED BY <1>4, <1>5

UpdateOneForm(p, c, a) ==
  /\ Kept(p, c)
  /\ p.toUnset = c.toUnset /\ p.toPush = c.toPush /\ p.deleted = c.deleted
  /\ DOMAIN p.location = LocationFields /\ p.location.attrName = c.location.attrName
  /\ p.location = [c.location EXCEPT
                     !.coords = IF a.name = c.location.attrName THEN a.value ELSE @]
  /\ \/ /\ Has(c, a) /\ UpdateForm(p, c, a)
        /\ p.missing = c.missing /\ p.status = c.status
     \/ ~Has(c, a) /\ SameWrites(p, c) /\ p.missing = TRUE /\ p.status = "InvalidParameter"

LEMMA UpdateOneFields ==
  ASSUME NEW c, DOMAIN c = CerFields, DOMAIN c.location = LocationFields, NEW a
  PROVE  UpdateOneForm(UpdateOne(c, a), c, a)
  <1>1. PICK found : found = IF Has(c, a) THEN updateAttribute(c, a)
                             ELSE [c EXCEPT !.missing = TRUE, !.status = "InvalidParameter"]
    OBVIOUS
  <1>2. /\ Kept(found, c)
        /\ found.toUnset = c.toUnset /\ found.toPush = c.toPush /\ found.deleted = c.deleted
        /\ found.location = c.location
        /\ \/ /\ Has(c, a) /\ UpdateForm(found, c, a)
              /\ found.missing = c.missing /\ found.status = c.status
           \/ /\ ~Has(c, a) /\ SameWrites(found, c)
              /\ found.missing = TRUE /\ found.status = "InvalidParameter"
    <2>1. CASE Has(c, a)
      <3>1. found = updateAttribute(c, a)
        BY <1>1, <2>1
      <3> QED BY <2>1, <3>1, UpdateAttributeFields
    <2>2. CASE ~Has(c, a)
      <3>1. found = [c EXCEPT !.missing = TRUE, !.status = "InvalidParameter"]
        BY <1>1, <2>2
      <3> QED BY <2>2, <3>1 DEF CerFields, Kept, SameWrites
    <2> QED BY <2>1, <2>2
  <1>3. PICK l : l = [c.location EXCEPT !.coords = IF a.name = c.location.attrName THEN a.value ELSE @]
    OBVIOUS
  <1>4. /\ DOMAIN l = LocationFields /\ l.attrName = c.location.attrName
    BY <1>3 DEF LocationFields
  <1>5. PICK p : p = [found EXCEPT !.location = l]
    OBVIOUS
  <1>6. UpdateOne(c, a) = p
    <2>1. found.location = c.location /\ DOMAIN found = CerFields
      BY <1>2 DEF Kept
    <2>2. UpdateOne(c, a) = [found EXCEPT !.location.coords = IF a.name = c.location.attrName THEN a.value ELSE @]
      BY <1>1 DEF UpdateOne
    <2> QED BY <1>3, <1>5, <2>1, <2>2 DEF CerFields
  <1>7. DOMAIN found = CerFields
    BY <1>2 DEF Kept
  <1>8. /\ DOMAIN p = CerFields /\ p.location = l
        /\ p.key = found.key /\ p.read = found.read /\ p.todo = found.todo /\ p.notified = found.notified
        /\ p.toSet = found.toSet /\ p.trigger = found.trigger /\ p.entityModified = found.entityModified
        /\ p.toUnset = found.toUnset /\ p.toPush = found.toPush /\ p.deleted = found.deleted
        /\ p.missing = found.missing /\ p.status = found.status
    BY <1>5, <1>7 DEF CerFields
  <1>9. Kept(p, c) /\ (UpdateForm(found, c, a) => UpdateForm(p, c, a))
        /\ (SameWrites(found, c) => SameWrites(p, c))
    BY <1>2, <1>8 DEF Kept, UpdateForm, SameWrites, Modified
  <1> QED BY <1>2, <1>3, <1>4, <1>6, <1>8, <1>9 DEF UpdateOneForm

AppendOneForm(p, c, a) ==
  /\ Kept(p, c)
  /\ p.toUnset = c.toUnset /\ p.deleted = c.deleted
  /\ p.missing = c.missing /\ p.status = c.status
  /\ p.location = IF Located(a) THEN [attrName |-> a.name, coords |-> a.value] ELSE c.location
  /\ \/ Has(c, a) /\ UpdateForm(p, c, a) /\ p.toPush = c.toPush
     \/ /\ ~Has(c, a) /\ Modified(p, c, a, NewAttribute(a))
        /\ p.toPush = c.toPush \union {a.name}

LEMMA AppendOneFields ==
  ASSUME NEW c, DOMAIN c = CerFields, NEW a
  PROVE  AppendOneForm(AppendOne(c, a), c, a)
  <1>1. PICK q : q = appendAttribute(c, a)
    OBVIOUS
  <1>2. /\ Kept(q, c)
        /\ q.toUnset = c.toUnset /\ q.deleted = c.deleted /\ q.location = c.location
        /\ q.missing = c.missing /\ q.status = c.status
        /\ \/ Has(c, a) /\ UpdateForm(q, c, a) /\ q.toPush = c.toPush
           \/ /\ ~Has(c, a) /\ Modified(q, c, a, NewAttribute(a))
              /\ q.toPush = c.toPush \union {a.name}
    <2>1. CASE Has(c, a)
      <3>1. q = updateAttribute(c, a)
        BY <1>1, <2>1 DEF appendAttribute
      <3> QED BY <2>1, <3>1, UpdateAttributeFields
    <2>2. CASE ~Has(c, a)
      <3>1. PICK n : n = NewAttribute(a)
        OBVIOUS
      <3>2. PICK m : m = Modify(c, a, n)
        OBVIOUS
      <3>3. /\ Kept(m, c) /\ Modified(m, c, a, n)
            /\ m.toUnset = c.toUnset /\ m.toPush = c.toPush /\ m.deleted = c.deleted
            /\ m.location = c.location /\ m.missing = c.missing /\ m.status = c.status
        BY <3>2, ModifyFields
      <3>4. q = [m EXCEPT !.toPush = @ \union {a.name}]
        BY <1>1, <2>2, <3>1, <3>2 DEF appendAttribute
      <3> QED BY <2>2, <3>1, <3>3, <3>4 DEF CerFields, Kept, Modified
    <2> QED BY <2>1, <2>2
  <1>3. PICK l : l = IF Located(a) THEN [attrName |-> a.name, coords |-> a.value] ELSE c.location
    OBVIOUS
  <1>4. PICK p : p = [q EXCEPT !.location = l]
    OBVIOUS
  <1>5. AppendOne(c, a) = p
    BY <1>1, <1>2, <1>3, <1>4 DEF AppendOne, Kept, CerFields
  <1>6. DOMAIN q = CerFields
    BY <1>2 DEF Kept
  <1>7. /\ DOMAIN p = CerFields /\ p.location = l
        /\ p.key = q.key /\ p.read = q.read /\ p.todo = q.todo /\ p.notified = q.notified
        /\ p.toSet = q.toSet /\ p.trigger = q.trigger /\ p.entityModified = q.entityModified
        /\ p.toUnset = q.toUnset /\ p.toPush = q.toPush /\ p.deleted = q.deleted
        /\ p.missing = q.missing /\ p.status = q.status
    BY <1>4, <1>6 DEF CerFields
  <1>8. /\ Kept(p, c) /\ (UpdateForm(q, c, a) => UpdateForm(p, c, a))
        /\ \A n : Modified(q, c, a, n) => Modified(p, c, a, n)
    BY <1>2, <1>7 DEF Kept, UpdateForm, SameWrites, Modified
  <1> QED BY <1>2, <1>3, <1>5, <1>7, <1>8 DEF AppendOneForm

DeleteOneForm(p, c, a) ==
  /\ Kept(p, c)
  /\ p.toSet = c.toSet /\ p.toPush = c.toPush /\ p.missing = c.missing /\ p.status = c.status
  /\ p.toUnset = c.toUnset \union {Key(a.name, a.id)}
  /\ p.deleted = c.deleted \union {<<a.name, a.id>>}
  /\ p.entityModified = TRUE /\ p.trigger = c.trigger \union {a.name}
  /\ p.location = IF a.name = c.location.attrName THEN NoLocation ELSE c.location

LEMMA DeleteOneFields ==
  ASSUME NEW c, DOMAIN c = CerFields, NEW a
  PROVE  DeleteOneForm(DeleteOne(c, a), c, a)
  <1>1. PICK u : u = c.toUnset \union {Key(a.name, a.id)}
    OBVIOUS
  <1>2. PICK d : d = c.deleted \union {<<a.name, a.id>>}
    OBVIOUS
  <1>3. PICK t : t = c.trigger \union {a.name}
    OBVIOUS
  <1>4. PICK l : l = IF a.name = c.location.attrName THEN NoLocation ELSE c.location
    OBVIOUS
  <1>5. DeleteOne(c, a) = [c EXCEPT !.toUnset = u, !.deleted = d, !.entityModified = TRUE,
                                    !.trigger = t, !.location = l]
    BY <1>1, <1>2, <1>3, <1>4 DEF DeleteOne, CerFields
  <1> QED BY <1>1, <1>2, <1>3, <1>4, <1>5 DEF DeleteOneForm, Kept, CerFields

\* What an attribute may do to the response, whatever the action.
ProcessedForm(action, p, c, a) ==
  /\ Kept(p, c) /\ DOMAIN p.location = LocationFields
  /\ action = "update" => UpdateOneForm(p, c, a)
  /\ action = "append" => AppendOneForm(p, c, a)
  /\ action = "delete" => DeleteOneForm(p, c, a)
  /\ \/ p.missing = c.missing /\ p.status = c.status
     \/ p.missing = TRUE /\ p.status = "InvalidParameter"

LEMMA ProcessedFields ==
  ASSUME NEW c, DOMAIN c = CerFields, DOMAIN c.location = LocationFields, NEW a,
         NEW action \in {"update", "append", "delete"}, NEW p, p = Processed(action, c, a)
  PROVE  ProcessedForm(action, p, c, a)
  <1>1. CASE action = "update"
    <2>1. p = UpdateOne(c, a)
      BY <1>1 DEF Processed
    <2>2. UpdateOneForm(p, c, a)
      BY <2>1, UpdateOneFields
    <2> QED BY <1>1, <2>2 DEF UpdateOneForm, ProcessedForm
  <1>2. CASE action = "append"
    <2>1. p = AppendOne(c, a)
      BY <1>2 DEF Processed
    <2>2. AppendOneForm(p, c, a)
      BY <2>1, AppendOneFields
    <2>3. DOMAIN [attrName |-> a.name, coords |-> a.value] = LocationFields
      BY DEF LocationFields
    <2> QED BY <1>2, <2>2, <2>3 DEF AppendOneForm, ProcessedForm
  <1>3. CASE action = "delete"
    <2>1. p = DeleteOne(c, a)
      BY <1>3 DEF Processed
    <2>2. DeleteOneForm(p, c, a)
      BY <2>1, DeleteOneFields
    <2>3. DOMAIN NoLocation = LocationFields
      BY DEF LocationFields, NoLocation
    <2> QED BY <1>3, <2>2, <2>3 DEF DeleteOneForm, ProcessedForm
  <1> QED BY <1>1, <1>2, <1>3

-----------------------------------------------------------------------------
(* The invariant                                                            *)

\* The labels between reqSemTake and reqSemGive.
Section == PC \ {"idle", "take"}

SemOf(w) ==
  /\ pc[w] \notin Section => ~reqSemTaken[w]
  /\ pc[w] \in Section => (reqSemTaken[w] <=> ~Bypassed("write"))

SemInv == SemExclusive /\ \A w \in Workers : SemOf(w)

RequestShape(label, r) ==
  /\ DOMAIN r = {"action", "path", "notExist", "elements"}
  /\ r.elements \in Seq(Elements)
  /\ r.elements # <<>> => r.path \in Paths
  /\ label # "idle" => r.action \in {"update", "append", "delete"}
  /\ label \notin {"idle", "take", "element"} => r.elements # <<>>

DocShape(doc) ==
  /\ DOMAIN doc = DocFields /\ DOMAIN doc.location = LocationFields
  /\ ~doc.exists => doc = NoEntity

CerShape(c) == DOMAIN c = CerFields /\ c.todo \in Seq(Accepted)

\* The documents that were read are still as they were read.
CursorOf(w) ==
  /\ \A k \in DOMAIN cursor[w] :
       /\ pc[w] \in Section /\ k \in EntityKeys /\ k[2] = req[w].path
       /\ entities[k].exists /\ cursor[w][k] = entities[k]
  /\ pc[w] \in {"element", "noDocs", "created"} => DOMAIN cursor[w] = {}

ReadOf(w) ==
  /\ pc[w] \in {"remove", "attributes", "write"} =>
       /\ cer[w].key \in EntityKeys /\ cer[w].key[2] = req[w].path
       /\ cer[w].read = entities[cer[w].key] /\ entities[cer[w].key].exists
       /\ cer[w].key \notin DOMAIN cursor[w]
  /\ pc[w] \in {"attributes", "write"} => DOMAIN cer[w].location = LocationFields

\* The only status InvalidParameter that a document is written with is that of
\* an attribute that was missing.
RefusedOf(w) ==
  /\ pc[w] \in {"attributes", "write", "notify", "created"} /\ cer[w].status = "InvalidParameter"
       => cer[w].missing
  /\ pc[w] = "respond" /\ cer[w].status = "InvalidParameter" /\ ~cer[w].missing
       => entities[cer[w].key] = cer[w].read

WorkerOf(w) ==
  /\ RequestShape(pc[w], req[w]) /\ CerShape(cer[w])
  /\ CursorOf(w) /\ ReadOf(w) /\ RefusedOf(w)

Domains ==
  /\ pc \in [Workers -> PC]
  /\ DOMAIN req = Workers /\ DOMAIN cursor = Workers /\ DOMAIN cer = Workers
  /\ DOMAIN entities = EntityKeys

Base ==
  /\ Domains
  /\ \A k \in EntityKeys : DocShape(entities[k])
  /\ \A w \in Workers : WorkerOf(w)

\* What a step does to the collection.
DocsForm(w) ==
  \/ UNCHANGED entities
  \/ /\ pc[w] \in Section
     /\ \E k \in EntityKeys : \E doc :
          DocShape(doc) /\ entities' = [entities EXCEPT ![k] = doc]

-----------------------------------------------------------------------------
(* The request threads                                                      *)

LEMMA SeqOfOthers ==
  ASSUME NEW S, NEW T, NEW s \in Seq(S), \A i \in DOMAIN s : s[i] \in T
  PROVE  s \in Seq(T)
  <1>1. Len(s) \in Nat /\ DOMAIN s = 1..Len(s) /\ s \in [1..Len(s) -> S]
    BY LenProperties
  <1>2. s \in [1..Len(s) -> T]
    BY <1>1
  <1> QED BY <1>1, <1>2, SeqDef

LEMMA RequestsShaped ==
  ASSUME NEW r \in Requests PROVE RequestShape("take", r)
  <1>1. /\ r \in [action : {"update", "append", "delete"}, path : Paths \union {""},
                  notExist : BOOLEAN, elements : Seq(ContextElement)]
        /\ r.elements # <<>> => r.path \in Paths
        /\ \A i \in DOMAIN r.elements : Distinct(r.elements[i].attributes)
    BY RequestsAssumption DEF Distinct
  <1>2. ASSUME NEW i \in DOMAIN r.elements PROVE r.elements[i] \in Elements
    <2>1. r.elements \in Seq(ContextElement)
      BY <1>1
    <2>2. r.elements[i] \in ContextElement
      BY <2>1
    <2>3. r.elements[i].attributes \in Seq(Attribute)
      BY <2>2 DEF ContextElement
    <2>4. \A j \in DOMAIN r.elements[i].attributes : r.elements[i].attributes[j] \in Attribute
      BY <2>3
    <2>5. ASSUME NEW j \in DOMAIN r.elements[i].attributes
          PROVE  r.elements[i].attributes[j] \in Accepted
      <3>1. r.elements[i].attributes[j] \in Attributes(r)
        BY DEF Attributes, Range
      <3> QED BY <2>4, <3>1 DEF Accepted, PlainIds, UniqueMetadata, TypedMetadata
    <2>6. r.elements[i].attributes \in Seq(Accepted)
      BY <2>3, <2>5, SeqOfOthers
    <2> QED BY <1>1, <2>2, <2>6 DEF Elements
  <1>3. r.elements \in Seq(Elements)
    BY <1>1, <1>2, SeqOfOthers
  <1> QED BY <1>1, <1>3 DEF RequestShape

\* The other request threads are left alone.
LEMMA OthersKept ==
  ASSUME Domains, NEW w \in Workers, ReceiveRequest(w) \/ Step(w)
  PROVE  /\ DOMAIN req' = Workers /\ DOMAIN cursor' = Workers /\ DOMAIN cer' = Workers
         /\ DOMAIN pc' = Workers
         /\ \A v \in Workers \ {w} :
              /\ pc'[v] = pc[v] /\ req'[v] = req[v]
              /\ cursor'[v] = cursor[v] /\ cer'[v] = cer[v]
         /\ pc' = [pc EXCEPT ![w] = pc'[w]]
  <1>1. (\E l : Goto(w, l)) \/ UNCHANGED pc
    BY Zenon DEF ReceiveRequest, Step, TakeSem, AllDone, RefuseElement, QueryEntities, NextDoc,
         DocsDone, RemoveEntity, RejectAttribute, ProcessAttribute, AttributesDone, WriteEntity,
         ProcessSubscriptions, ResponsePushed, NothingToUpdate, CreateEntity, CreateTriggers,
         Respond, NextElement
  <1>2. (\E r : req' = [req EXCEPT ![w] = r]) \/ UNCHANGED req
    <2>1. (\E r : req' = [req EXCEPT ![w] = r]) \/ NextElement(w) \/ UNCHANGED req
      BY Zenon DEF ReceiveRequest, Step, TakeSem, AllDone, RefuseElement, QueryEntities, NextDoc,
           DocsDone, RemoveEntity, RejectAttribute, ProcessAttribute, AttributesDone, WriteEntity,
           ProcessSubscriptions, ResponsePushed, NothingToUpdate, CreateEntity, CreateTriggers
    <2>2. NextElement(w) => req' = [req EXCEPT ![w] = [req[w] EXCEPT !.elements = Tail(@)]]
      BY DEF NextElement, Domains
    <2> QED BY <2>1, <2>2
  <1>3. (\E c : cursor' = [cursor EXCEPT ![w] = c]) \/ UNCHANGED cursor
    <2>1. CASE NextDoc(w)
      <3>1. PICK k \in DOMAIN cursor[w] :
              cursor' = [cursor EXCEPT ![w] = Restrict(cursor[w], DOMAIN cursor[w] \ {k})]
        BY <2>1 DEF NextDoc, Domains
      <3> QED BY <3>1
    <2>2. CASE ~NextDoc(w)
      BY <2>2, Zenon DEF ReceiveRequest, Step, TakeSem, AllDone, RefuseElement, QueryEntities,
           DocsDone, RemoveEntity, RejectAttribute, ProcessAttribute, AttributesDone, WriteEntity,
           ProcessSubscriptions, ResponsePushed, NothingToUpdate, CreateEntity, CreateTriggers
    <2> QED BY <2>1, <2>2
  <1>4. (\E c : SetCer(w, c)) \/ UNCHANGED cer
    BY Zenon DEF ReceiveRequest, Step, TakeSem, AllDone, RefuseElement, QueryEntities, NextDoc,
         DocsDone, RemoveEntity, RejectAttribute, ProcessAttribute, AttributesDone, WriteEntity,
         ProcessSubscriptions, ResponsePushed, NothingToUpdate, CreateEntity, CreateTriggers,
         Respond
  <1>5. DOMAIN pc' = Workers /\ (\A v \in Workers \ {w} : pc'[v] = pc[v]) /\ pc' = [pc EXCEPT ![w] = pc'[w]]
    BY <1>1 DEF Domains, Goto
  <1>6. DOMAIN req' = Workers /\ \A v \in Workers \ {w} : req'[v] = req[v]
    BY <1>2 DEF Domains
  <1>7. DOMAIN cursor' = Workers /\ \A v \in Workers \ {w} : cursor'[v] = cursor[v]
    BY <1>3 DEF Domains
  <1>8. DOMAIN cer' = Workers /\ \A v \in Workers \ {w} : cer'[v] = cer[v]
    BY <1>4 DEF Domains, SetCer
  <1> QED BY <1>5, <1>6, <1>7, <1>8

\* With regard to the semaphore a step takes it, gives it back, or does neither.
LEMMA SemForms ==
  ASSUME Domains, NEW w \in Workers, ReceiveRequest(w) \/ Step(w)
  PROVE  \/ pc[w] = "take" /\ reqSemTake(w, "write") /\ pc'[w] = "element"
         \/ pc[w] \in Section /\ pc'[w] = "idle" /\ reqSemGive(w)
         \/ /\ UNCHANGED semVars /\ pc'[w] \in PC
            /\ pc[w] \in Section <=> pc'[w] \in Section
  <1> USE DEF Goto, Section, PC, Domains
  <1>1. CASE TakeSem(w) \/ AllDone(w) \/ ReceiveRequest(w)
    BY <1>1 DEF TakeSem, AllDone, ReceiveRequest
  <1>2. CASE RefuseElement(w) \/ QueryEntities(w) \/ DocsDone(w)
    BY <1>2 DEF RefuseElement, QueryEntities, DocsDone, NextElement
  <1>3. CASE NextDoc(w) \/ RemoveEntity(w)
    BY <1>3 DEF NextDoc, RemoveEntity, Respond
  <1>4. CASE RejectAttribute(w) \/ AttributesDone(w)
    BY <1>4 DEF RejectAttribute, AttributesDone, Respond
  <1>5. CASE ProcessAttribute(w)
    <2>1. UNCHANGED semVars /\ pc[w] = "attributes" /\ (UNCHANGED pc \/ Goto(w, "respond"))
      BY <1>5, Zenon DEF ProcessAttribute, Respond
    <2> QED BY <2>1
  <1>6. CASE WriteEntity(w)
    <2>1. UNCHANGED semVars /\ pc[w] = "write" /\ (Goto(w, "notify") \/ Goto(w, "respond"))
      BY <1>6, Zenon DEF WriteEntity, Respond
    <2> QED BY <2>1
  <1>7. CASE CreateEntity(w)
    <2>1. UNCHANGED semVars /\ pc[w] = "noDocs" /\ (Goto(w, "created") \/ Goto(w, "respond"))
      BY <1>7, Zenon DEF CreateEntity, Respond
    <2> QED BY <2>1
  <1>8. CASE ProcessSubscriptions(w) \/ ResponsePushed(w) \/ NothingToUpdate(w) \/ CreateTriggers(w)
    BY <1>8 DEF ProcessSubscriptions, ResponsePushed, NothingToUpdate, CreateTriggers, Respond
  <1> QED BY <1>1, <1>2, <1>3, <1>4, <1>5, <1>6, <1>7, <1>8 DEF Step

LEMMA SemKeeps ==
  ASSUME Domains, SemInv, NEW w \in Workers, ReceiveRequest(w) \/ Step(w)
  PROVE  SemInv' /\ pc' \in [Workers -> PC]
  <1>1. \A v \in Workers \ {w} : pc'[v] = pc[v]
    BY OthersKept
  <1>2. pc'[w] \in PC /\ pc' = [pc EXCEPT ![w] = pc'[w]]
    BY SemForms, OthersKept DEF PC
  <1>3. pc' \in [Workers -> PC]
    BY <1>2 DEF Domains
  <1>4. CASE pc[w] = "take" /\ reqSemTake(w, "write") /\ pc'[w] = "element"
    <2>1. ~reqSemTaken[w]
      BY <1>4 DEF SemInv, SemOf, Section
    <2>2. /\ SemExclusive' /\ (reqSemTaken'[w] <=> ~Bypassed("write"))
          /\ \A v \in Workers \ {w} : reqSemTaken'[v] = reqSemTaken[v]
      BY <1>4, <2>1, SemExclusiveTake DEF SemInv
    <2>3. \A v \in Workers : SemOf(v)'
      BY <1>1, <1>4, <2>2 DEF SemInv, SemOf, Section, PC
    <2> QED BY <1>3, <2>2, <2>3 DEF SemInv
  <1>5. CASE pc[w] \in Section /\ pc'[w] = "idle" /\ reqSemGive(w)
    <2>1. /\ SemExclusive' /\ ~reqSemTaken'[w]
          /\ \A v \in Workers \ {w} : reqSemTaken'[v] = reqSemTaken[v]
      BY <1>5, SemExclusiveGive DEF SemInv
    <2>2. \A v \in Workers : SemOf(v)'
      BY <1>1, <1>5, <2>1 DEF SemInv, SemOf, Section
    <2> QED BY <1>3, <2>1, <2>2 DEF SemInv
  <1>6. CASE UNCHANGED semVars /\ (pc[w] \in Section <=> pc'[w] \in Section)
    <2>1. UNCHANGED <<reqSem, reqSemTaken>>
      BY <1>6 DEF semVars
    <2>2. \A v \in Workers : SemOf(v)'
      BY <1>1, <1>6, <2>1 DEF SemInv, SemOf
    <2> QED BY <1>3, <2>1, <2>2 DEF SemInv, SemExclusive
  <1> QED BY <1>4, <1>5, <1>6, SemForms

LEMMA Alone ==
  ASSUME SemInv, Policy \in {"all", "write"}
  PROVE  \A v, w \in Workers : pc[v] \in Section /\ pc[w] \in Section => v = w
  <1>1. ~Bypassed("write")
    BY DEF Bypassed
  <1>2. \A w \in Workers : pc[w] \in Section => reqSemTaken[w]
    BY <1>1 DEF SemInv, SemOf
  <1> QED BY <1>2 DEF SemInv, SemExclusive

-----------------------------------------------------------------------------
(* The steps of a request thread                                            *)

LEMMA NoCerShape ==
  /\ CerShape(NoCer) /\ NoCer.status = "None" /\ NoCer.read = NoEntity
  /\ DocShape(NoEntity)
  BY EmptySeq DEF CerShape, NoCer, CerFields, DocShape, NoEntity, DocFields, NoLocation, LocationFields

\* The context element in process.
LEMMA AtElement ==
  ASSUME Base, NEW w \in Workers, req[w].elements # <<>>
  PROVE  /\ Element(w) \in ContextElement /\ Element(w).attributes \in Seq(Accepted)
         /\ Distinct(Element(w).attributes)
         /\ Element(w).type \in EntityTypes /\ req[w].path \in Paths
         /\ Tail(req[w].elements) \in Seq(Elements)
  <1>1. req[w].elements \in Seq(Elements) /\ req[w].path \in Paths
    BY DEF Base, WorkerOf, RequestShape
  <1>2. Element(w) \in Elements /\ Tail(req[w].elements) \in Seq(Elements)
    BY <1>1, HeadTailProperties DEF Element
  <1> QED BY <1>1, <1>2 DEF Elements, ContextElement

LEMMA NextElementShape ==
  ASSUME Base, NEW w \in Workers, req[w].elements # <<>>, pc[w] # "idle", NextElement(w)
  PROVE  RequestShape(pc'[w], req'[w]) /\ pc'[w] = "element"
  <1>1. pc'[w] = "element" /\ req'[w] = [req[w] EXCEPT !.elements = Tail(@)]
    BY DEF NextElement, Goto, Base, Domains
  <1>2. RequestShape(pc[w], req[w])
    BY DEF Base, WorkerOf
  <1>3. /\ DOMAIN req'[w] = {"action", "path", "notExist", "elements"}
        /\ req'[w].elements = Tail(req[w].elements) /\ req'[w].action = req[w].action
        /\ req'[w].path = req[w].path
    BY <1>1, <1>2 DEF RequestShape
  <1> QED BY <1>1, <1>2, <1>3, AtElement DEF RequestShape

LEMMA ReceiveStep ==
  ASSUME Base, NEW w \in Workers, ReceiveRequest(w) \/ TakeSem(w) \/ AllDone(w)
  PROVE  WorkerOf(w)' /\ DocsForm(w)
  <1>0. WorkerOf(w) /\ UNCHANGED <<entities, cursor, cer>>
    BY DEF Base, ReceiveRequest, TakeSem, AllDone
  <1>1. CASE ReceiveRequest(w)
    <2>1. PICK r \in Requests : req'[w] = r
      BY <1>1 DEF ReceiveRequest, Base, Domains
    <2>2. pc[w] = "idle" /\ pc'[w] = "take"
      BY <1>1 DEF ReceiveRequest, Goto, Base, Domains
    <2>3. RequestShape(pc'[w], req'[w])
      BY <2>1, <2>2, RequestsShaped
    <2>4. CursorOf(w)' /\ ReadOf(w)' /\ RefusedOf(w)'
      BY <1>0, <2>2 DEF WorkerOf, CursorOf, ReadOf, RefusedOf, Section
    <2> QED BY <1>0, <2>3, <2>4 DEF WorkerOf, DocsForm
  <1>2. CASE TakeSem(w)
    <2>1. pc[w] = "take" /\ pc'[w] = "element" /\ UNCHANGED req
      BY <1>2 DEF TakeSem, Goto, Base, Domains
    <2>2. RequestShape(pc'[w], req'[w])
      BY <1>0, <2>1 DEF WorkerOf, RequestShape
    <2>3. CursorOf(w)' /\ ReadOf(w)' /\ RefusedOf(w)'
      BY <1>0, <2>1 DEF WorkerOf, CursorOf, ReadOf, RefusedOf, Section
    <2> QED BY <1>0, <2>2, <2>3 DEF WorkerOf, DocsForm
  <1>3. CASE AllDone(w)
    <2>1. pc[w] = "element" /\ pc'[w] = "idle" /\ req'[w] = NoRequest
      BY <1>3 DEF AllDone, Goto, Base, Domains
    <2>2. RequestShape("idle", NoRequest)
      BY EmptySeq DEF RequestShape, NoRequest
    <2>3. CursorOf(w)' /\ ReadOf(w)' /\ RefusedOf(w)'
      BY <1>0, <2>1 DEF WorkerOf, CursorOf, ReadOf, RefusedOf, Section
    <2> QED BY <1>0, <2>1, <2>2, <2>3 DEF WorkerOf, DocsForm
  <1> QED BY <1>1, <1>2, <1>3

LEMMA ElementStep ==
  ASSUME Base, NEW w \in Workers, RefuseElement(w) \/ QueryEntities(w) \/ DocsDone(w)
  PROVE  WorkerOf(w)' /\ DocsForm(w)
  <1>0. WorkerOf(w) /\ UNCHANGED <<entities, cer>> /\ pc[w] \in {"element", "docs"}
    BY DEF Base, RefuseElement, QueryEntities, DocsDone
  <1>1. req[w].elements # <<>>
    BY <1>0 DEF RefuseElement, QueryEntities, DocsDone, WorkerOf, RequestShape
  <1>2. CASE NextElement(w) /\ UNCHANGED cursor
    <2>1. RequestShape(pc'[w], req'[w]) /\ pc'[w] = "element"
      BY <1>0, <1>1, <1>2, NextElementShape
    <2>2. DOMAIN cursor[w] = {}
      <3>1. CASE pc[w] = "element"
        BY <1>0, <3>1 DEF WorkerOf, CursorOf
      <3>2. CASE pc[w] = "docs"
        <4>1. cursor[w] = <<>>
          BY <3>2 DEF DocsDone, RefuseElement, QueryEntities, NoCursor
        <4> QED BY <4>1
      <3> QED BY <1>0, <3>1, <3>2
    <2>3. CursorOf(w)' /\ ReadOf(w)' /\ RefusedOf(w)'
      BY <1>2, <2>1, <2>2 DEF CursorOf, ReadOf, RefusedOf
    <2> QED BY <1>0, <2>1, <2>3 DEF WorkerOf, DocsForm
  <1>3. CASE ~(NextElement(w) /\ UNCHANGED cursor)
    <2>1. PICK S : S = {x \in EntityKeys : Queried(w, x)}
      OBVIOUS
    <2>2. /\ cursor'[w] = [k \in S |-> entities[k]]
          /\ pc'[w] = IF \E k \in EntityKeys : Queried(w, k) THEN "docs" ELSE "noDocs"
          /\ UNCHANGED req
      BY <1>3, <2>1 DEF RefuseElement, QueryEntities, DocsDone, Goto, Base, Domains
    <2>4. \A k \in S : k \in EntityKeys /\ entities[k].exists /\ k[2] = req[w].path
      BY <2>1 DEF Queried
    <2>5. S # {} <=> pc'[w] = "docs"
      BY <2>1, <2>2
    <2>6. CursorOf(w)'
      BY <1>0, <2>2, <2>4, <2>5 DEF CursorOf, Section, PC
    <2>7. ReadOf(w)' /\ RefusedOf(w)'
      BY <2>2 DEF ReadOf, RefusedOf
    <2>8. RequestShape(pc'[w], req'[w])
      BY <1>0, <1>1, <2>2 DEF WorkerOf, RequestShape
    <2> QED BY <1>0, <2>6, <2>7, <2>8 DEF WorkerOf, DocsForm
  <1> QED BY <1>2, <1>3

LEMMA NextDocStep ==
  ASSUME Base, NEW w \in Workers, NextDoc(w)
  PROVE  WorkerOf(w)' /\ DocsForm(w)
  <1>0. WorkerOf(w) /\ UNCHANGED <<entities, req>> /\ pc[w] = "docs"
    BY DEF Base, NextDoc
  <1>1. req[w].elements # <<>>
    BY <1>0 DEF WorkerOf, RequestShape
  <1>2. PICK k \in DOMAIN cursor[w] :
          /\ cursor' = [cursor EXCEPT ![w] = Restrict(@, DOMAIN @ \ {k})]
          /\ SetCer(w, [NoCer EXCEPT !.key = k, !.read = cursor[w][k],
                                     !.location = cursor[w][k].location,
                                     !.todo = Element(w).attributes])
    BY DEF NextDoc
  <1>3. cer'[w] = [NoCer EXCEPT !.key = k, !.read = cursor[w][k],
                                !.location = cursor[w][k].location,
                                !.todo = Element(w).attributes]
    BY <1>2 DEF SetCer, Base, Domains
  <1>4. /\ DOMAIN cer'[w] = CerFields /\ cer'[w].key = k /\ cer'[w].read = cursor[w][k]
        /\ cer'[w].location = cursor[w][k].location /\ cer'[w].todo = Element(w).attributes
        /\ cer'[w].status = "None"
    BY <1>3 DEF NoCer, CerFields
  <1>5. cursor'[w] = [x \in DOMAIN cursor[w] \ {k} |-> cursor[w][x]]
    BY <1>2 DEF Restrict, Base, Domains
  <1>6. pc'[w] \in {"remove", "attributes"}
    BY DEF NextDoc, Goto, Base, Domains
  <1>7. /\ k \in EntityKeys /\ k[2] = req[w].path /\ entities[k].exists /\ cursor[w][k] = entities[k]
    BY <1>0 DEF WorkerOf, CursorOf
  <1>8. DocShape(entities[k])
    BY <1>7 DEF Base
  <1>9. CursorOf(w)'
    BY <1>0, <1>5, <1>6 DEF WorkerOf, CursorOf, Section, PC
  <1>10. ReadOf(w)' /\ RefusedOf(w)'
    BY <1>0, <1>4, <1>5, <1>6, <1>7, <1>8 DEF ReadOf, RefusedOf, DocShape
  <1>11. RequestShape(pc'[w], req'[w]) /\ CerShape(cer'[w])
    BY <1>0, <1>1, <1>4, <1>6, AtElement DEF WorkerOf, RequestShape, CerShape
  <1> QED BY <1>0, <1>9, <1>10, <1>11 DEF WorkerOf, DocsForm

\* The document in process is replaced; the ones still to process are others.
LEMMA OtherDocs ==
  ASSUME Base, NEW w \in Workers, NEW x \in EntityKeys, NEW doc,
         entities' = [entities EXCEPT ![x] = doc], x \notin DOMAIN cursor[w],
         UNCHANGED <<cursor, req>>, pc'[w] \in {"respond", "notify"}
  PROVE  CursorOf(w)' /\ ReadOf(w)'
  <1>1. \A k \in EntityKeys \ {x} : entities'[k] = entities[k]
    BY DEF Base, Domains
  <1>2. CursorOf(w)
    BY DEF Base, WorkerOf
  <1> QED BY <1>1, <1>2 DEF CursorOf, ReadOf, Section, PC

LEMMA RemoveStep ==
  ASSUME Base, NEW w \in Workers, RemoveEntity(w)
  PROVE  WorkerOf(w)' /\ DocsForm(w)
  <1>0. WorkerOf(w) /\ UNCHANGED <<cursor, req>> /\ pc[w] = "remove" /\ pc'[w] = "respond"
    BY DEF Base, RemoveEntity, Respond, Goto, Domains
  <1>1. /\ cer[w].key \in EntityKeys /\ cer[w].key \notin DOMAIN cursor[w]
        /\ DOMAIN cer[w] = CerFields
    BY <1>0 DEF WorkerOf, ReadOf, CerShape
  <1>2. \E status \in {"Ok", "ReceiverInternalError"} : cer'[w] = [cer[w] EXCEPT !.status = status]
    BY DEF RemoveEntity, Respond, SetCer, Base, Domains
  <1>3. CerShape(cer'[w]) /\ cer'[w].status \in {"Ok", "ReceiverInternalError"}
    BY <1>0, <1>1, <1>2 DEF WorkerOf, CerShape, CerFields
  <1>4. RequestShape(pc'[w], req'[w])
    BY <1>0 DEF WorkerOf, RequestShape
  <1>5. RefusedOf(w)'
    BY <1>0, <1>3 DEF RefusedOf
  <1>6. CASE entities' = [entities EXCEPT ![cer[w].key] = NoEntity]
    <2>1. CursorOf(w)' /\ ReadOf(w)'
      BY <1>0, <1>1, <1>6, OtherDocs
    <2>2. DocsForm(w)
      BY <1>0, <1>1, <1>6, NoCerShape DEF DocsForm, Section, PC
    <2> QED BY <1>3, <1>4, <1>5, <2>1, <2>2 DEF WorkerOf
  <1>7. CASE UNCHANGED entities
    <2>1. CursorOf(w)' /\ ReadOf(w)'
      BY <1>0, <1>7 DEF WorkerOf, CursorOf, ReadOf, Section, PC
    <2> QED BY <1>3, <1>4, <1>5, <1>7, <2>1 DEF WorkerOf, DocsForm
  <1> QED BY <1>6, <1>7 DEF RemoveEntity

\* A step that leaves the collection, the request and the cursor alone.
LEMMA SameDocs ==
  ASSUME Base, NEW w \in Workers, UNCHANGED <<entities, req, cursor>>,
         pc[w] \in Section, pc'[w] \in {"attributes", "write", "notify", "respond", "docs"},
         req[w].elements # <<>>
  PROVE  RequestShape(pc'[w], req'[w]) /\ CursorOf(w)' /\ DocsForm(w)
  <1>1. RequestShape(pc[w], req[w]) /\ CursorOf(w)
    BY DEF Base, WorkerOf
  <1>2. RequestShape(pc'[w], req'[w])
    BY <1>1 DEF RequestShape, Section
  <1>3. CursorOf(w)'
    BY <1>1 DEF CursorOf, Section, PC
  <1> QED BY <1>2, <1>3 DEF DocsForm

LEMMA RejectStep ==
  ASSUME Base, NEW w \in Workers, RejectAttribute(w) \/ AttributesDone(w)
  PROVE  WorkerOf(w)' /\ DocsForm(w)
  <1>0. /\ WorkerOf(w) /\ UNCHANGED <<entities, req, cursor>> /\ pc[w] = "attributes"
        /\ pc'[w] \in {"write", "respond"}
    BY DEF Base, RejectAttribute, AttributesDone, Respond, Goto, Domains
  <1>1. RequestShape(pc'[w], req'[w]) /\ CursorOf(w)' /\ DocsForm(w)
    BY <1>0, SameDocs DEF WorkerOf, RequestShape, Section, PC
  <1>2. PICK status : /\ cer'[w] = [cer[w] EXCEPT !.status = status]
                      /\ \/ pc'[w] = "respond" /\ status = "InvalidParameter"
                         \/ status = OkIfNone(cer[w].status)
    BY DEF RejectAttribute, AttributesDone, Respond, SetCer, Goto, Base, Domains
  <1>3. DOMAIN cer[w] = CerFields /\ cer[w].todo \in Seq(Accepted)
    BY <1>0 DEF WorkerOf, CerShape
  <1>4. /\ DOMAIN cer'[w] = CerFields /\ cer'[w].todo = cer[w].todo /\ cer'[w].key = cer[w].key
        /\ cer'[w].read = cer[w].read /\ cer'[w].location = cer[w].location
        /\ cer'[w].missing = cer[w].missing /\ cer'[w].status = status
    BY <1>2, <1>3 DEF CerFields
  <1>5. ReadOf(w)'
    BY <1>0, <1>4 DEF WorkerOf, ReadOf
  <1>6. RefusedOf(w)'
    BY <1>0, <1>2, <1>4 DEF WorkerOf, ReadOf, RefusedOf, OkIfNone
  <1> QED BY <1>1, <1>3, <1>4, <1>5, <1>6 DEF WorkerOf, CerShape

\* The next attribute, and the variables of the round without it.
WithoutIt(c, old) ==
  /\ Head(old.todo) \in Accepted
  /\ DOMAIN c = CerFields /\ DOMAIN c.location = LocationFields
  /\ c.todo = Tail(old.todo) /\ c.todo \in Seq(Accepted)
  /\ c.key = old.key /\ c.read = old.read /\ c.location = old.location
  /\ c.toSet = old.toSet /\ c.toUnset = old.toUnset /\ c.toPush = old.toPush
  /\ c.deleted = old.deleted /\ c.entityModified = old.entityModified
  /\ c.missing = old.missing /\ c.status = old.status
  /\ c.trigger = old.trigger /\ c.notified = old.notified

LEMMA AtAttribute ==
  ASSUME Base, NEW w \in Workers, pc[w] = "attributes", cer[w].todo # <<>>,
         NEW c, c = [cer[w] EXCEPT !.todo = Tail(@)]
  PROVE  WithoutIt(c, cer[w])
  <1>1. DOMAIN cer[w] = CerFields /\ cer[w].todo \in Seq(Accepted)
        /\ DOMAIN cer[w].location = LocationFields
    BY DEF Base, WorkerOf, CerShape, ReadOf
  <1>2. Head(cer[w].todo) \in Accepted /\ Tail(cer[w].todo) \in Seq(Accepted)
    BY <1>1, HeadTailProperties
  <1> QED BY <1>1, <1>2 DEF CerFields, WithoutIt

LEMMA ProcessForm ==
  ASSUME Base, NEW w \in Workers, ProcessAttribute(w), NEW c, c = [cer[w] EXCEPT !.todo = Tail(@)],
         NEW p, p = Processed(req[w].action, c, Head(cer[w].todo))
  PROVE  /\ pc[w] = "attributes" /\ cer[w].todo # <<>>
         /\ ~Rejected(req[w].action, cer[w], Head(cer[w].todo))
         /\ \/ cer'[w] = p /\ pc'[w] = "attributes"
            \/ cer'[w] = [p EXCEPT !.status = "ReceiverInternalError"] /\ pc'[w] = "respond"
         /\ UNCHANGED <<entities, semVars, req, cursor, requests>>
  <1>1. /\ pc[w] = "attributes" /\ cer[w].todo # <<>>
        /\ ~Rejected(req[w].action, cer[w], Head(cer[w].todo))
        /\ \/ SetCer(w, p) /\ UNCHANGED pc
           \/ Respond(w, [p EXCEPT !.status = "ReceiverInternalError"])
        /\ UNCHANGED <<entities, semVars, req, cursor, requests>>
    BY Zenon DEF ProcessAttribute
  <1>2. /\ SetCer(w, p) => cer'[w] = p
        /\ Respond(w, [p EXCEPT !.status = "ReceiverInternalError"]) =>
             cer'[w] = [p EXCEPT !.status = "ReceiverInternalError"] /\ pc'[w] = "respond"
    BY DEF SetCer, Respond, Goto, Base, Domains
  <1> QED BY <1>1, <1>2

LEMMA ProcessStep ==
  ASSUME Base, NEW w \in Workers, ProcessAttribute(w)
  PROVE  WorkerOf(w)' /\ DocsForm(w)
  <1>1. PICK c : c = [cer[w] EXCEPT !.todo = Tail(@)]
    OBVIOUS
  <1>2. PICK a : a = Head(cer[w].todo)
    OBVIOUS
  <1>3. PICK p : p = Processed(req[w].action, c, a)
    OBVIOUS
  <1>4. /\ pc[w] = "attributes" /\ cer[w].todo # <<>>
        /\ \/ cer'[w] = p /\ pc'[w] = "attributes"
           \/ cer'[w] = [p EXCEPT !.status = "ReceiverInternalError"] /\ pc'[w] = "respond"
        /\ UNCHANGED <<entities, req, cursor>>
    BY <1>1, <1>2, <1>3, ProcessForm, ZenonT(60)
  <1>5. /\ DOMAIN c = CerFields /\ DOMAIN c.location = LocationFields
        /\ c.todo \in Seq(Accepted) /\ c.key = cer[w].key /\ c.read = cer[w].read
        /\ c.missing = cer[w].missing /\ c.status = cer[w].status
    <2>1. WithoutIt(c, cer[w])
      BY <1>1, <1>4, AtAttribute
    <2> QED BY <2>1 DEF WithoutIt
  <1>6. WorkerOf(w) /\ req[w].action \in {"update", "append", "delete"} /\ req[w].elements # <<>>
    BY <1>4 DEF Base, WorkerOf, RequestShape
  <1>7. /\ Kept(p, c) /\ DOMAIN p.location = LocationFields
        /\ \/ p.missing = c.missing /\ p.status = c.status
           \/ p.missing = TRUE /\ p.status = "InvalidParameter"
    <2>1. ProcessedForm(req[w].action, p, c, a)
      BY <1>3, <1>5, <1>6, ProcessedFields
    <2> QED BY <2>1 DEF ProcessedForm
  <1>8. /\ DOMAIN cer'[w] = CerFields /\ cer'[w].todo = p.todo /\ cer'[w].key = p.key
        /\ cer'[w].read = p.read /\ cer'[w].location = p.location /\ cer'[w].missing = p.missing
        /\ pc'[w] = "attributes" => cer'[w].status = p.status
        /\ pc'[w] # "attributes" => cer'[w].status = "ReceiverInternalError"
    <2>1. DOMAIN p = CerFields
      BY <1>7 DEF Kept
    <2> QED BY <1>4, <2>1 DEF CerFields
  <1>9. RequestShape(pc'[w], req'[w]) /\ CursorOf(w)' /\ DocsForm(w)
    BY <1>4, <1>6, SameDocs DEF Section, PC
  <1>10. CerShape(cer'[w])
    BY <1>5, <1>7, <1>8 DEF CerShape, Kept
  <1>11. ReadOf(w)'
    BY <1>4, <1>5, <1>6, <1>7, <1>8 DEF WorkerOf, ReadOf, Kept
  <1>12. RefusedOf(w)'
    BY <1>4, <1>5, <1>6, <1>7, <1>8 DEF WorkerOf, RefusedOf
  <1> QED BY <1>9, <1>10, <1>11, <1>12 DEF WorkerOf

Applied(new, doc, c) ==
  /\ DOMAIN new = DocFields /\ new.exists = doc.exists
  /\ DOMAIN new.attrs = (DOMAIN doc.attrs \ c.toUnset) \union DOMAIN c.toSet
  /\ \A k \in DOMAIN new.attrs :
       new.attrs[k] = IF k \in DOMAIN c.toSet THEN c.toSet[k] ELSE doc.attrs[k]
  /\ new.attrNames = (doc.attrNames \union c.toPush) \ toPull(c)
  /\ new.location = c.location

LEMMA ApplyFields ==
  ASSUME NEW doc, DOMAIN doc = DocFields, NEW c
  PROVE  Applied(Apply(doc, c), doc, c)
  <1>1. PICK f : f = [k \in (DOMAIN doc.attrs \ c.toUnset) \union DOMAIN c.toSet |->
                        IF k \in DOMAIN c.toSet THEN c.toSet[k] ELSE doc.attrs[k]]
    OBVIOUS
  <1>2. PICK g : g = (doc.attrNames \union c.toPush) \ toPull(c)
    OBVIOUS
  <1>3. PICK new : new = [doc EXCEPT !.attrs = f, !.attrNames = g, !.location = c.location]
    OBVIOUS
  <1>5. Apply(doc, c) = new
    BY <1>1, <1>2, <1>3 DEF Apply, DocFields
  <1>4. /\ DOMAIN f = (DOMAIN doc.attrs \ c.toUnset) \union DOMAIN c.toSet
        /\ \A k \in DOMAIN f : f[k] = IF k \in DOMAIN c.toSet THEN c.toSet[k] ELSE doc.attrs[k]
    BY <1>1
  <1>6. Applied(new, doc, c)
    BY <1>2, <1>3, <1>4 DEF DocFields, Applied
  <1> QED BY <1>5, <1>6

LEMMA WriteStep ==
  ASSUME Base, NEW w \in Workers, WriteEntity(w)
  PROVE  WorkerOf(w)' /\ DocsForm(w)
  <1>0. /\ WorkerOf(w) /\ UNCHANGED <<cursor, req>> /\ pc[w] = "write"
        /\ pc'[w] \in {"notify", "respond"}
    <2>1. /\ UNCHANGED <<cursor, req>> /\ pc[w] = "write"
          /\ Goto(w, "notify") \/ Goto(w, "respond")
      BY Zenon DEF WriteEntity, Respond
    <2> QED BY <2>1 DEF Goto, Base, Domains
  <1>1. /\ cer[w].key \in EntityKeys /\ cer[w].key \notin DOMAIN cursor[w]
        /\ cer[w].key[2] = req[w].path
        /\ DOMAIN cer[w] = CerFields /\ DOMAIN cer[w].location = LocationFields
        /\ req[w].elements # <<>>
    BY <1>0 DEF WorkerOf, ReadOf, CerShape, RequestShape
  <1>2. \/ pc'[w] = "notify" /\ UNCHANGED cer
        \/ pc'[w] = "respond" /\ cer'[w] = [cer[w] EXCEPT !.status = "ReceiverInternalError"]
    <2>1. \/ Goto(w, "notify") /\ UNCHANGED cer
          \/ Respond(w, [cer[w] EXCEPT !.status = "ReceiverInternalError"])
      BY Zenon DEF WriteEntity
    <2> QED BY <2>1 DEF Goto, Respond, SetCer, Base, Domains
  <1>3. /\ CerShape(cer'[w])
        /\ pc'[w] = "notify" => cer'[w].status = cer[w].status /\ cer'[w].missing = cer[w].missing
        /\ pc'[w] = "respond" => cer'[w].status = "ReceiverInternalError"
    BY <1>0, <1>1, <1>2 DEF WorkerOf, CerShape, CerFields
  <1>4. RequestShape(pc'[w], req'[w])
    BY <1>0 DEF WorkerOf, RequestShape
  <1>5. RefusedOf(w)'
    BY <1>0, <1>3 DEF WorkerOf, RefusedOf
  <1>6. CASE UNCHANGED entities
    <2>1. CursorOf(w)' /\ DocsForm(w)
      BY <1>0, <1>1, <1>6, SameDocs DEF Section, PC
    <2>2. ReadOf(w)'
      BY <1>0 DEF ReadOf
    <2> QED BY <1>3, <1>4, <1>5, <2>1, <2>2 DEF WorkerOf
  <1>7. CASE \E k \in UpdateMatches(cer[w].key) : entities' = [entities EXCEPT ![k] = Apply(@, cer[w])]
    <2>1. PICK k \in UpdateMatches(cer[w].key) : entities' = [entities EXCEPT ![k] = Apply(@, cer[w])]
      BY <1>7
    <2>2. k \in EntityKeys /\ entities[k].exists /\ k[1] = cer[w].key[1]
      BY DEF UpdateMatches
    <2>3. PICK doc : doc = Apply(entities[k], cer[w])
      OBVIOUS
    <2>4. entities' = [entities EXCEPT ![k] = doc]
      BY <2>1, <2>3
    <2>5. DocShape(entities[k])
      BY <2>2 DEF Base
    <2>6. DocShape(doc)
      <3>1. DOMAIN doc = DocFields /\ doc.exists = entities[k].exists /\ doc.location = cer[w].location
        <4>1. DOMAIN entities[k] = DocFields
          BY <2>5 DEF DocShape
        <4>2. Applied(doc, entities[k], cer[w])
          BY <2>3, <4>1, ApplyFields
        <4> QED BY <4>2 DEF Applied
      <3> QED BY <1>1, <2>2, <3>1 DEF DocShape
    <2>7. k \notin DOMAIN cursor[w]
      <3>1. SUFFICES ASSUME k \in DOMAIN cursor[w] PROVE FALSE
        OBVIOUS
      <3>2. k[2] = cer[w].key[2]
        BY <1>0, <1>1, <3>1 DEF WorkerOf, CursorOf
      <3>3. k = cer[w].key
        BY <1>1, <2>2, <3>2 DEF EntityKeys
      <3> QED BY <1>1, <3>1, <3>3
    <2>8. CursorOf(w)' /\ ReadOf(w)'
      BY <1>0, <2>2, <2>4, <2>7, OtherDocs
    <2>9. DocsForm(w)
      BY <1>0, <2>2, <2>4, <2>6 DEF DocsForm, Section, PC
    <2> QED BY <1>3, <1>4, <1>5, <2>8, <2>9 DEF WorkerOf
  <1> QED BY <1>6, <1>7, Zenon DEF WriteEntity

LEMMA NotifyStep ==
  ASSUME Base, NEW w \in Workers, ProcessSubscriptions(w) \/ ResponsePushed(w) \/ CreateTriggers(w)
  PROVE  WorkerOf(w)' /\ DocsForm(w)
  <1>0. /\ WorkerOf(w) /\ UNCHANGED <<entities, req, cursor>> /\ pc[w] \in {"notify", "respond", "created"}
        /\ pc'[w] \in {"notify", "respond", "docs"}
    BY DEF Base, ProcessSubscriptions, ResponsePushed, CreateTriggers, Respond, Goto, Domains
  <1>1. RequestShape(pc'[w], req'[w]) /\ CursorOf(w)' /\ DocsForm(w)
    BY <1>0, SameDocs DEF WorkerOf, RequestShape, Section, PC
  <1>2. ReadOf(w)'
    BY <1>0 DEF ReadOf
  <1>3. DOMAIN cer[w] = CerFields /\ cer[w].todo \in Seq(Accepted)
    BY <1>0 DEF WorkerOf, CerShape
  <1>4. CASE ProcessSubscriptions(w)
    <2>1. /\ cer'[w] = [cer[w] EXCEPT !.notified = cer[w].trigger, !.status = OkIfNone(@)]
          /\ pc[w] = "notify" /\ pc'[w] = "respond"
      BY <1>4 DEF ProcessSubscriptions, Respond, SetCer, Goto, Base, Domains
    <2>2. /\ DOMAIN cer'[w] = CerFields /\ cer'[w].todo = cer[w].todo
          /\ cer'[w].missing = cer[w].missing /\ cer'[w].status = OkIfNone(cer[w].status)
      BY <1>3, <2>1 DEF CerFields
    <2>3. RefusedOf(w)'
      BY <1>0, <2>1, <2>2 DEF WorkerOf, RefusedOf, OkIfNone
    <2> QED BY <1>1, <1>2, <1>3, <2>2, <2>3 DEF WorkerOf, CerShape
  <1>5. CASE ResponsePushed(w)
    <2>1. cer'[w] = NoCer /\ pc'[w] = "docs"
      BY <1>5 DEF ResponsePushed, SetCer, Goto, Base, Domains
    <2>2. RefusedOf(w)'
      BY <2>1 DEF RefusedOf
    <2> QED BY <1>1, <1>2, <2>1, <2>2, NoCerShape DEF WorkerOf
  <1>6. CASE CreateTriggers(w)
    <2>1. /\ pc[w] = "created"
          /\ \/ pc'[w] = "notify" /\ UNCHANGED cer
             \/ pc'[w] = "respond" /\ cer'[w] = [cer[w] EXCEPT !.status = "ReceiverInternalError"]
      BY <1>6 DEF CreateTriggers, Respond, SetCer, Goto, Base, Domains
    <2>2. /\ DOMAIN cer'[w] = CerFields /\ cer'[w].todo = cer[w].todo
          /\ pc'[w] = "notify" => cer'[w].missing = cer[w].missing /\ cer'[w].status = cer[w].status
          /\ pc'[w] = "respond" => cer'[w].status = "ReceiverInternalError"
      BY <1>3, <2>1 DEF CerFields
    <2>3. RefusedOf(w)'
      BY <1>0, <2>1, <2>2 DEF WorkerOf, RefusedOf
    <2> QED BY <1>1, <1>2, <1>3, <2>2, <2>3 DEF WorkerOf, CerShape
  <1> QED BY <1>4, <1>5, <1>6

LEMMA NothingStep ==
  ASSUME Base, NEW w \in Workers, NothingToUpdate(w)
  PROVE  WorkerOf(w)' /\ DocsForm(w)
  <1>0. /\ WorkerOf(w) /\ UNCHANGED <<entities, req, cursor>> /\ pc[w] = "noDocs"
        /\ pc'[w] = "respond"
    BY DEF Base, NothingToUpdate, Respond, Goto, Domains
  <1>1. RequestShape(pc'[w], req'[w]) /\ CursorOf(w)' /\ DocsForm(w)
    BY <1>0, SameDocs DEF WorkerOf, RequestShape, Section, PC
  <1>2. PICK key, status :
          /\ cer'[w] = [NoCer EXCEPT !.key = key, !.read = entities[key], !.missing = TRUE,
                                     !.status = status]
          /\ status \in {"Ok", "ContextElementNotFound"}
    BY DEF NothingToUpdate, Respond, SetCer, Base, Domains
  <1>3. DOMAIN cer'[w] = CerFields /\ cer'[w].todo = <<>> /\ cer'[w].status = status
    BY <1>2 DEF NoCer, CerFields
  <1>4. CerShape(cer'[w]) /\ ReadOf(w)' /\ RefusedOf(w)'
    BY <1>0, <1>2, <1>3, EmptySeq DEF CerShape, ReadOf, RefusedOf
  <1> QED BY <1>1, <1>4 DEF WorkerOf

LEMMA NewEntityFields ==
  ASSUME NEW attributes
  PROVE  DocShape(NewEntity(attributes))
  <1>1. PICK located : located = {i \in DOMAIN attributes : Located(attributes[i])}
    OBVIOUS
  <1>2. PICK l : l = IF located = {} THEN NoLocation
                     ELSE [attrName |-> attributes[CHOOSE i \in located : TRUE].name,
                           coords |-> attributes[CHOOSE i \in located : TRUE].value]
    OBVIOUS
  <1>3. DOMAIN l = LocationFields
    BY <1>2 DEF NoLocation, LocationFields
  <1>4. NewEntity(attributes).location = l /\ DOMAIN NewEntity(attributes) = DocFields
        /\ NewEntity(attributes).exists = TRUE
    BY <1>1, <1>2 DEF NewEntity, DocFields
  <1> QED BY <1>3, <1>4 DEF DocShape

\* A round without a document that was read.
NewRound(c, key, doc) ==
  /\ DOMAIN c = CerFields /\ c.key = key /\ c.read = doc /\ c.todo = <<>>
  /\ c.missing = FALSE /\ c.notified = {}

\* The two outcomes of CreateEntity.
Created(w, key, doc) ==
  /\ pc[w] = "noDocs" /\ req[w].action = "append" /\ UNCHANGED <<cursor, req>>
  /\ NewRound(cer'[w], key, entities[key])
  /\ \/ /\ pc'[w] = "created" /\ ~entities[key].exists
        /\ ~MixedIds(Element(w).attributes) /\ processLocation(Element(w).attributes)
        /\ entities' = [entities EXCEPT ![key] = doc]
        /\ cer'[w].status = "None"
        /\ cer'[w].trigger = {Element(w).attributes[i].name : i \in DOMAIN Element(w).attributes}
     \/ /\ pc'[w] = "respond" /\ UNCHANGED entities
        /\ cer'[w].status = "InvalidParameter"

LEMMA CreateForm ==
  ASSUME Base, NEW w \in Workers, CreateEntity(w), NEW key, key = <<Element(w).type, req[w].path>>,
         NEW doc, doc = NewEntity(Element(w).attributes)
  PROVE  Created(w, key, doc)
  <1>1. PICK attributes : attributes = Element(w).attributes
    OBVIOUS
  <1>2. PICK read : read = entities[key]
    OBVIOUS
  <1>3. PICK c : c = [NoCer EXCEPT !.key = key, !.read = read]
    OBVIOUS
  <1>4. PICK t : t = {attributes[i].name : i \in DOMAIN attributes}
    OBVIOUS
  <1>5. /\ pc[w] = "noDocs" /\ req[w].action = "append" /\ UNCHANGED <<cursor, req>>
        /\ \/ /\ ~MixedIds(attributes) /\ processLocation(attributes) /\ ~entities[key].exists
              /\ entities' = [entities EXCEPT ![key] = doc]
              /\ SetCer(w, [c EXCEPT !.trigger = t]) /\ Goto(w, "created")
           \/ Respond(w, [c EXCEPT !.status = "InvalidParameter"]) /\ UNCHANGED entities
    BY <1>1, <1>2, <1>3, <1>4 DEF CreateEntity
  <1>6. /\ NewRound(c, key, read) /\ c.status = "None"
    BY <1>3 DEF NoCer, NewRound, CerFields
  <1>7. CASE SetCer(w, [c EXCEPT !.trigger = t]) /\ Goto(w, "created")
    <2>1. cer'[w] = [c EXCEPT !.trigger = t] /\ pc'[w] = "created"
      BY <1>7 DEF SetCer, Goto, Base, Domains
    <2>2. NewRound(cer'[w], key, read) /\ cer'[w].status = "None" /\ cer'[w].trigger = t
      BY <1>6, <2>1 DEF NewRound, CerFields
    <2>3. Goto(w, "respond") => pc'[w] = "respond"
      BY DEF Goto, Base, Domains
    <2> QED BY <1>1, <1>2, <1>4, <1>5, <2>1, <2>2, <2>3 DEF Created, Respond
  <1>8. CASE Respond(w, [c EXCEPT !.status = "InvalidParameter"]) /\ UNCHANGED entities
    <2>1. cer'[w] = [c EXCEPT !.status = "InvalidParameter"] /\ pc'[w] = "respond"
      BY <1>8 DEF Respond, SetCer, Goto, Base, Domains
    <2>2. NewRound(cer'[w], key, read) /\ cer'[w].status = "InvalidParameter"
      BY <1>6, <2>1 DEF NewRound, CerFields
    <2> QED BY <1>2, <1>5, <1>8, <2>1, <2>2 DEF Created
  <1> QED BY <1>5, <1>7, <1>8

LEMMA CreateStep ==
  ASSUME Base, NEW w \in Workers, CreateEntity(w)
  PROVE  WorkerOf(w)' /\ DocsForm(w)
  <1>1. PICK key : key = <<Element(w).type, req[w].path>>
    OBVIOUS
  <1>2. PICK doc : doc = NewEntity(Element(w).attributes)
    OBVIOUS
  <1>3. /\ pc[w] = "noDocs" /\ UNCHANGED <<cursor, req>> /\ NewRound(cer'[w], key, entities[key])
        /\ \/ /\ pc'[w] = "created" /\ cer'[w].status = "None"
              /\ entities' = [entities EXCEPT ![key] = doc]
           \/ pc'[w] = "respond" /\ UNCHANGED entities
    <2>1. Created(w, key, doc)
      BY <1>1, <1>2, CreateForm
    <2> QED BY <2>1 DEF Created
  <1>4. WorkerOf(w) /\ req[w].elements # <<>> /\ DOMAIN cursor[w] = {}
    BY <1>3 DEF Base, WorkerOf, RequestShape, CursorOf
  <1>5. key \in EntityKeys /\ key[1] = Element(w).type /\ key[2] = req[w].path
    BY <1>1, <1>4, AtElement DEF EntityKeys
  <1>6. RequestShape(pc'[w], req'[w])
    BY <1>3, <1>4 DEF WorkerOf, RequestShape
  <1>7. CursorOf(w)'
    BY <1>3, <1>4 DEF CursorOf
  <1>8. ReadOf(w)'
    BY <1>3 DEF ReadOf
  <1>9. CerShape(cer'[w])
    BY <1>3, EmptySeq DEF NewRound, CerShape
  <1>10. DocsForm(w)
    <2>1. DocShape(doc)
      BY <1>2, NewEntityFields
    <2> QED BY <1>3, <1>5, <2>1 DEF DocsForm, Section, PC
  <1>11. RefusedOf(w)'
    BY <1>3 DEF RefusedOf, NewRound
  <1> QED BY <1>6, <1>7, <1>8, <1>9, <1>10, <1>11 DEF WorkerOf

LEMMA WorkerStep ==
  ASSUME Base, NEW w \in Workers, ReceiveRequest(w) \/ Step(w)
  PROVE  WorkerOf(w)' /\ DocsForm(w)
  BY ReceiveStep, ElementStep, NextDocStep, RemoveStep, RejectStep, ProcessStep, WriteStep,
     NotifyStep, NothingStep, CreateStep DEF Step

\* What a thread does not change of the others.
LEMMA OtherWorkers ==
  ASSUME Base, SemInv, Policy \in {"all", "write"}, NEW w \in Workers, ReceiveRequest(w) \/ Step(w),
         NEW v \in Workers \ {w}
  PROVE  WorkerOf(v)'
  <1>1. pc'[v] = pc[v] /\ req'[v] = req[v] /\ cursor'[v] = cursor[v] /\ cer'[v] = cer[v]
    BY OthersKept DEF Base
  <1>2. WorkerOf(v)
    BY DEF Base
  <1>3. CASE UNCHANGED entities
    <2>1. CursorOf(v)'
      BY <1>1, <1>2, <1>3 DEF WorkerOf, CursorOf
    <2>3. ReadOf(v)'
      BY <1>1, <1>2, <1>3 DEF WorkerOf, ReadOf
    <2>4. RefusedOf(v)'
      BY <1>1, <1>2, <1>3 DEF WorkerOf, RefusedOf
    <2> QED BY <1>1, <1>2, <2>1, <2>3, <2>4 DEF WorkerOf
  <1>4. CASE pc[w] \in Section
    <2>1. pc[v] \notin Section
      BY <1>4, Alone
    <2>2. DOMAIN cursor[v] = {}
      BY <1>2, <2>1 DEF WorkerOf, CursorOf
    <2>3. pc[v] \in {"idle", "take"}
      BY <2>1 DEF Base, Domains, Section
    <2>4. CursorOf(v)' /\ ReadOf(v)' /\ RefusedOf(v)'
      BY <1>1, <2>2, <2>3 DEF CursorOf, ReadOf, RefusedOf
    <2> QED BY <1>1, <1>2, <2>4 DEF WorkerOf
  <1> QED BY <1>3, <1>4, WorkerStep DEF DocsForm

LEMMA BaseKeeps ==
  ASSUME Base, SemInv, Policy \in {"all", "write"}, NEW w \in Workers, ReceiveRequest(w) \/ Step(w)
  PROVE  Base'
  <1>1. \A v \in Workers : WorkerOf(v)'
    BY WorkerStep, OtherWorkers
  <1>2. DOMAIN req' = Workers /\ DOMAIN cursor' = Workers /\ DOMAIN cer' = Workers
    BY OthersKept DEF Base
  <1>3. pc' \in [Workers -> PC]
    BY SemKeeps DEF Base
  <1>4. DOMAIN entities' = EntityKeys /\ \A k \in EntityKeys : DocShape(entities'[k])
    <2>1. DOMAIN entities = EntityKeys /\ \A k \in EntityKeys : DocShape(entities[k])
      BY DEF Base, Domains
    <2> QED BY <2>1, WorkerStep DEF DocsForm
  <1> QED BY <1>1, <1>2, <1>3, <1>4 DEF Base, Domains

LEMMA BaseInit ==
  ASSUME Init
  PROVE  Base /\ SemInv
  <1>1. Domains
    BY DEF Init, Domains, PC
  <1>2. \A k \in EntityKeys : DocShape(entities[k])
    BY NoCerShape DEF Init
  <1>3. ASSUME NEW w \in Workers PROVE WorkerOf(w)
    <2>1. /\ pc[w] = "idle" /\ req[w] = NoRequest /\ cursor[w] = <<>> /\ cer[w] = NoCer
      BY DEF Init, NoCursor
    <2>2. RequestShape("idle", NoRequest)
      BY EmptySeq DEF RequestShape, NoRequest
    <2>3. DOMAIN cursor[w] = {}
      BY <2>1
    <2>4. CursorOf(w) /\ ReadOf(w) /\ RefusedOf(w)
      BY <2>1, <2>3 DEF CursorOf, ReadOf, RefusedOf
    <2> QED BY <2>1, <2>2, <2>4, NoCerShape DEF WorkerOf
  <1>4. SemInv
    BY DEF Init, SemInv, SemOf, Section, semInit, SemExclusive
  <1> QED BY <1>1, <1>2, <1>3, <1>4 DEF Base

LEMMA BaseStutters ==
  ASSUME Base, SemInv, UNCHANGED vars
  PROVE  Base' /\ SemInv'
  <1>1. UNCHANGED <<entities, pc, req, cursor, cer, reqSem, reqSemTaken>>
    BY DEF vars, semVars
  <1>2. \A w \in Workers : WorkerOf(w)'
    <2>2. \A w \in Workers : WorkerOf(w)
      BY DEF Base
    <2> QED BY <1>1, <2>2 DEF WorkerOf, CursorOf, ReadOf, RefusedOf
  <1> QED BY <1>1, <1>2 DEF Base, Domains, SemInv, SemOf, SemExclusive

LEMMA BaseAlways ==
  ASSUME Policy \in {"all", "write"}
  PROVE  Spec => [](Base /\ SemInv)
  <1>1. Init => Base /\ SemInv
    BY BaseInit
  <1>2. Base /\ SemInv /\ [Next]_vars => Base' /\ SemInv'
    BY BaseKeeps, SemKeeps, BaseStutters DEF Next, Base
  <1> QED BY <1>1, <1>2, PTL DEF Spec

\* A request that is refused for one of its attributes leaves the entity as it was
\* before, while every update takes the request semaphore (policies "all" and
\* "write"): processContextAttributeVector returns before anything is written, and
\* an insert that is refused leaves no document.
THEOREM EntityRefusedChangesNothing ==
  ASSUME Policy \in {"all", "write"}
  PROVE  Spec => []RefusedChangesNothing
  <1>1. Base => RefusedChangesNothing
    BY DEF Base, WorkerOf, RefusedOf, RefusedChangesNothing
  <1> QED BY <1>1, BaseAlways, PTL

-----------------------------------------------------------------------------
(* The document: its attributes, the list of their names and the location   *)

StoredKeys == {Key(a.name, a.id) : a \in Accepted}
NamesOf(keys) == {NameOf(k) : k \in keys}

LocationOf(l, keys) ==
  \/ l = NoLocation
  \/ l \in [attrName : Names, coords : Coordinates] /\ l.attrName \in NamesOf(keys)

DocInv(doc) ==
  /\ IsFiniteSet(DOMAIN doc.attrs) /\ DOMAIN doc.attrs \subseteq StoredKeys
  /\ LocationOf(doc.location, DOMAIN doc.attrs)
  /\ PlainIds => doc.attrNames = NamesOf(DOMAIN doc.attrs)

\* The keys of the document after the write.
NewKeys(c) == (DOMAIN c.read.attrs \ c.toUnset) \union DOMAIN c.toSet

\* What the round has worked out so far.
RoundInv(action, c) ==
  /\ IsFiniteSet(DOMAIN c.toSet) /\ DOMAIN c.toSet \subseteq StoredKeys
  /\ LocationOf(c.location, NewKeys(c))
  /\ action # "delete" => c.toUnset = {} /\ c.deleted = {}
  /\ action = "update" => c.toPush = {} /\ DOMAIN c.toSet \subseteq DOMAIN c.read.attrs
  /\ action = "append" => c.toPush = NamesOf(DOMAIN c.toSet \ DOMAIN c.read.attrs)
  /\ action = "delete" =>
       /\ DOMAIN c.toSet = {} /\ c.toPush = {}
       /\ IsFiniteSet(c.deleted) /\ c.deleted \subseteq {<<a.name, a.id>> : a \in Accepted}
       /\ c.toUnset = {Key(d[1], d[2]) : d \in c.deleted}
       /\ c.toUnset \subseteq DOMAIN c.read.attrs

LEMMA NameOfKey ==
  ASSUME NEW n \in Names, NEW i
  PROVE  NameOf(Key(n, i)) = n /\ Key(n, i)[1] = Encoded[n] /\ Key(n, i)[2] = i
  <1>1. Key(n, i)[1] = Encoded[n] /\ Key(n, i)[2] = i
    BY DEF Key
  <1>2. \A m \in Names : Encoded[m] = Encoded[n] => m = n
    BY EntityUpdateAssumption DEF IsInjective
  <1>3. NameOf(Key(n, i)) = CHOOSE m \in Names : Encoded[m] = Encoded[n]
    BY <1>1 DEF NameOf
  <1> QED BY <1>1, <1>2, <1>3

LEMMA AcceptedKey ==
  ASSUME NEW a \in Accepted
  PROVE  /\ a.name \in Names /\ Key(a.name, a.id) \in StoredKeys
         /\ NameOf(Key(a.name, a.id)) = a.name
         /\ a.name # ""
  <1>1. a.name \in Names
    BY DEF Accepted, Attribute
  <1> QED BY <1>1, NameOfKey, EntityUpdateAssumption DEF StoredKeys

LEMMA WithDomain ==
  ASSUME NEW f, NEW k, NEW v, IsFiniteSet(DOMAIN f)
  PROVE  DOMAIN With(f, k, v) = DOMAIN f \union {k} /\ IsFiniteSet(DOMAIN With(f, k, v))
  <1>1. DOMAIN With(f, k, v) = DOMAIN f \union {k}
    BY DEF With
  <1> QED BY <1>1, FS_AddElement

\* The keys to set after an attribute that the document has.
LEMMA UpdateKeys ==
  ASSUME NEW c, NEW a, NEW p, UpdateForm(p, c, a), IsFiniteSet(DOMAIN c.toSet)
  PROVE  /\ IsFiniteSet(DOMAIN p.toSet)
         /\ DOMAIN p.toSet \in {DOMAIN c.toSet, DOMAIN c.toSet \union {Key(a.name, a.id)}}
  <1>1. PICK merged : \/ p.toSet = With(c.toSet, Key(a.name, a.id), merged)
                      \/ p.toSet = c.toSet
    BY DEF UpdateForm, Modified, SameWrites
  <1> QED BY <1>1, WithDomain, ZenonT(60)

LEMMA UpdateRound ==
  ASSUME NEW c, NEW a \in Accepted, NEW p, RoundInv("update", c), UpdateOneForm(p, c, a),
         ~UpdateRejected(c, a)
  PROVE  RoundInv("update", p)
  <1>1. /\ IsFiniteSet(DOMAIN c.toSet) /\ DOMAIN c.toSet \subseteq DOMAIN c.read.attrs
        /\ DOMAIN c.toSet \subseteq StoredKeys
        /\ LocationOf(c.location, NewKeys(c)) /\ c.toUnset = {} /\ c.deleted = {} /\ c.toPush = {}
    BY DEF RoundInv
  <1>2. /\ p.toUnset = {} /\ p.toPush = {} /\ p.deleted = {} /\ p.read = c.read
    BY <1>1 DEF UpdateOneForm, Kept
  <1>3. /\ IsFiniteSet(DOMAIN p.toSet) /\ DOMAIN p.toSet \subseteq DOMAIN c.read.attrs
        /\ DOMAIN p.toSet \subseteq StoredKeys
    <2>1. CASE Has(c, a) /\ UpdateForm(p, c, a)
      <3>1. Key(a.name, a.id) \in DOMAIN c.read.attrs /\ Key(a.name, a.id) \in StoredKeys
        BY <2>1, AcceptedKey DEF Has
      <3>2. /\ IsFiniteSet(DOMAIN p.toSet)
            /\ DOMAIN p.toSet \in {DOMAIN c.toSet, DOMAIN c.toSet \union {Key(a.name, a.id)}}
        BY <1>1, <2>1, UpdateKeys
      <3> QED BY <1>1, <3>1, <3>2
    <2>2. CASE SameWrites(p, c)
      BY <1>1, <2>2 DEF SameWrites
    <2> QED BY <2>1, <2>2 DEF UpdateOneForm
  <1>4. NewKeys(p) = DOMAIN c.read.attrs /\ NewKeys(c) = DOMAIN c.read.attrs
    BY <1>1, <1>2, <1>3 DEF NewKeys
  <1>5. LocationOf(p.location, NewKeys(p))
    <2>1. p.location = [c.location EXCEPT !.coords = IF a.name = c.location.attrName THEN a.value ELSE @]
      BY DEF UpdateOneForm
    <2>2. a.name # "" /\ (a.name = c.location.attrName => a.value \in Coordinates)
      BY AcceptedKey DEF UpdateRejected
    <2>3. CASE c.location = NoLocation
      <3>1. a.name # c.location.attrName
        <4>1. NoLocation.attrName = ""
          BY DEF NoLocation
        <4> QED BY <2>2, <2>3, <4>1
      <3>2. p.location = [c.location EXCEPT !.coords = @]
        BY <2>1, <3>1
      <3>3. p.location = NoLocation
        BY <2>3, <3>2 DEF NoLocation
      <3> QED BY <3>3 DEF LocationOf
    <2>4. CASE /\ c.location \in [attrName : Names, coords : Coordinates]
               /\ c.location.attrName \in NamesOf(NewKeys(c))
      BY <1>4, <2>1, <2>2, <2>4 DEF LocationOf
    <2> QED BY <1>1, <2>3, <2>4 DEF LocationOf
  <1> QED BY <1>2, <1>3, <1>5 DEF RoundInv

LEMMA MoreKeys ==
  ASSUME NEW l, NEW S, NEW T, LocationOf(l, S), S \subseteq T
  PROVE  LocationOf(l, T)
  BY DEF LocationOf, NamesOf

LEMMA AppendRound ==
  ASSUME NEW c, NEW a \in Accepted, NEW p, RoundInv("append", c), AppendOneForm(p, c, a),
         ~AppendRejected(c, a)
  PROVE  RoundInv("append", p)
  <1>1. /\ IsFiniteSet(DOMAIN c.toSet) /\ DOMAIN c.toSet \subseteq StoredKeys
        /\ LocationOf(c.location, NewKeys(c)) /\ c.toUnset = {} /\ c.deleted = {}
        /\ c.toPush = NamesOf(DOMAIN c.toSet \ DOMAIN c.read.attrs)
    BY DEF RoundInv
  <1>2. PICK k : k = Key(a.name, a.id)
    OBVIOUS
  <1>3. k \in StoredKeys /\ NameOf(k) = a.name /\ a.name \in Names
    BY <1>2, AcceptedKey
  <1>4. p.toUnset = {} /\ p.deleted = {} /\ p.read = c.read
    BY <1>1 DEF AppendOneForm, Kept
  <1>5. \/ /\ k \in DOMAIN c.read.attrs /\ p.toPush = c.toPush
           /\ DOMAIN p.toSet \in {DOMAIN c.toSet, DOMAIN c.toSet \union {k}}
        \/ /\ k \notin DOMAIN c.read.attrs /\ p.toPush = c.toPush \union {a.name}
           /\ DOMAIN p.toSet = DOMAIN c.toSet \union {k}
    <2>1. CASE Has(c, a) /\ UpdateForm(p, c, a) /\ p.toPush = c.toPush
      BY <1>1, <1>2, <2>1, UpdateKeys DEF Has
    <2>2. CASE ~Has(c, a) /\ Modified(p, c, a, NewAttribute(a)) /\ p.toPush = c.toPush \union {a.name}
      <3>1. p.toSet = With(c.toSet, k, NewAttribute(a))
        BY <1>2, <2>2 DEF Modified
      <3>2. DOMAIN p.toSet = DOMAIN c.toSet \union {k}
        BY <3>1 DEF With
      <3> QED BY <1>2, <2>2, <3>2 DEF Has
    <2> QED BY <2>1, <2>2 DEF AppendOneForm
  <1>6. IsFiniteSet(DOMAIN p.toSet)
    BY <1>1, <1>5, FS_AddElement
  <1>7. p.toPush = NamesOf(DOMAIN p.toSet \ DOMAIN c.read.attrs)
    <2>1. CASE k \in DOMAIN c.read.attrs
      <3>1. DOMAIN p.toSet \ DOMAIN c.read.attrs = DOMAIN c.toSet \ DOMAIN c.read.attrs
        BY <1>5, <2>1
      <3> QED BY <1>1, <1>5, <2>1, <3>1
    <2>2. CASE k \notin DOMAIN c.read.attrs
      <3>1. DOMAIN p.toSet \ DOMAIN c.read.attrs = (DOMAIN c.toSet \ DOMAIN c.read.attrs) \union {k}
        BY <1>5, <2>2
      <3>2. NamesOf(DOMAIN p.toSet \ DOMAIN c.read.attrs) = c.toPush \union {NameOf(k)}
        BY <1>1, <3>1 DEF NamesOf
      <3> QED BY <1>3, <1>5, <2>2, <3>2
    <2> QED BY <2>1, <2>2
  <1>8. LocationOf(p.location, NewKeys(p))
    <2>1. NewKeys(c) \subseteq NewKeys(p) /\ k \in NewKeys(p)
      BY <1>1, <1>4, <1>5 DEF NewKeys
    <2>2. CASE Located(a)
      <3>1. p.location = [attrName |-> a.name, coords |-> a.value] /\ a.value \in Coordinates
        BY <2>2 DEF AppendOneForm, AppendRejected
      <3>2. a.name \in NamesOf(NewKeys(p))
        BY <1>3, <2>1 DEF NamesOf
      <3> QED BY <1>3, <3>1, <3>2 DEF LocationOf
    <2>3. CASE ~Located(a)
      BY <1>1, <2>1, <2>3, MoreKeys DEF AppendOneForm
    <2> QED BY <2>2, <2>3
  <1>9. DOMAIN p.toSet \subseteq StoredKeys
    BY <1>1, <1>3, <1>5
  <1> QED BY <1>4, <1>6, <1>7, <1>8, <1>9 DEF RoundInv

LEMMA DeleteRound ==
  ASSUME NEW c, NEW a \in Accepted, NEW p, RoundInv("delete", c), DeleteOneForm(p, c, a),
         ~DeleteRejected(c, a)
  PROVE  RoundInv("delete", p)
  <1>1. /\ DOMAIN c.toSet = {} /\ c.toPush = {} /\ LocationOf(c.location, NewKeys(c))
        /\ IsFiniteSet(DOMAIN c.toSet)
        /\ IsFiniteSet(c.deleted) /\ c.deleted \subseteq {<<b.name, b.id>> : b \in Accepted}
        /\ c.toUnset = {Key(d[1], d[2]) : d \in c.deleted} /\ c.toUnset \subseteq DOMAIN c.read.attrs
    BY DEF RoundInv
  <1>2. PICK k : k = Key(a.name, a.id)
    OBVIOUS
  <1>3. NameOf(k) = a.name /\ k \in DOMAIN c.read.attrs
    BY <1>2, AcceptedKey DEF DeleteRejected, Has
  <1>4. PICK d : d = <<a.name, a.id>>
    OBVIOUS
  <1>5. /\ p.toSet = c.toSet /\ p.toPush = c.toPush /\ p.read = c.read
        /\ p.toUnset = c.toUnset \union {k} /\ p.deleted = c.deleted \union {d}
        /\ p.location = IF a.name = c.location.attrName THEN NoLocation ELSE c.location
    BY <1>2, <1>4 DEF DeleteOneForm, Kept
  <1>6. p.toUnset = {Key(x[1], x[2]) : x \in p.deleted}
    <2>1. Key(d[1], d[2]) = k
      BY <1>2, <1>4
    <2> QED BY <1>1, <1>5, <2>1
  <1>7. IsFiniteSet(p.deleted)
    BY <1>1, <1>5, FS_AddElement
  <1>8. p.deleted \subseteq {<<b.name, b.id>> : b \in Accepted}
    BY <1>1, <1>4, <1>5
  <1>9. LocationOf(p.location, NewKeys(p))
    <2>1. CASE a.name = c.location.attrName
      BY <1>5, <2>1 DEF LocationOf
    <2>2. CASE a.name # c.location.attrName
      <3>1. \A x \in NewKeys(c) : NameOf(x) = c.location.attrName => x \in NewKeys(p)
        BY <1>3, <1>5, <2>2 DEF NewKeys
      <3> QED BY <1>1, <1>5, <2>2, <3>1 DEF LocationOf, NamesOf
    <2> QED BY <2>1, <2>2
  <1> QED BY <1>1, <1>3, <1>5, <1>6, <1>7, <1>8, <1>9 DEF RoundInv

LEMMA StoredKey ==
  ASSUME NEW k \in StoredKeys
  PROVE  /\ NameOf(k) \in Names /\ k = Key(NameOf(k), k[2]) /\ k[1] = Encoded[NameOf(k)]
         /\ PlainIds /\ Encoded[NameOf(k)] # NameOf(k) => k[2] = NoId
  <1>1. PICK a \in Accepted : k = Key(a.name, a.id)
    BY DEF StoredKeys
  <1>2. a.name \in Names /\ (PlainIds /\ Encoded[a.name] # a.name => a.id = NoId)
    BY DEF Accepted, Attribute
  <1>3. NameOf(k) = a.name /\ k[1] = Encoded[a.name] /\ k[2] = a.id
    BY <1>1, <1>2, NameOfKey
  <1> QED BY <1>1, <1>2, <1>3

LEMMA DeletedKey ==
  ASSUME NEW c, RoundInv("delete", c), NEW d \in c.deleted
  PROVE  /\ d[1] \in Names /\ d = <<d[1], d[2]>>
         /\ Key(d[1], d[2]) \in c.toUnset /\ Key(d[1], d[2]) \in DOMAIN c.read.attrs
         /\ PlainIds /\ Encoded[d[1]] # d[1] => d[2] = NoId
  <1>1. PICK a \in Accepted : d = <<a.name, a.id>>
    BY DEF RoundInv
  <1>2. a.name \in Names /\ (PlainIds /\ Encoded[a.name] # a.name => a.id = NoId)
    BY DEF Accepted, Attribute
  <1>3. Key(d[1], d[2]) \in c.toUnset /\ c.toUnset \subseteq DOMAIN c.read.attrs
    BY DEF RoundInv
  <1> QED BY <1>1, <1>2, <1>3

\* A name is pulled when no attribute with that name is left.
LEMMA PulledIffGone ==
  ASSUME NEW c, RoundInv("delete", c), DocInv(c.read), PlainIds,
         NEW n \in NamesOf(DOMAIN c.read.attrs)
  PROVE  n \in toPull(c) <=> \A k \in DOMAIN c.read.attrs : NameOf(k) = n => k \in c.toUnset
  <1>1. PICK attrs : attrs = c.read.attrs
    OBVIOUS
  <1>2. PICK K : K = {k \in DOMAIN attrs : k[1] = n}
    OBVIOUS
  <1>3. PICK D : D = {d \in c.deleted : d[1] = n}
    OBVIOUS
  <1>4. n \in toPull(c) <=> (\E d \in c.deleted : d[1] = n) /\ Cardinality(K) <= Cardinality(D)
    BY <1>1, <1>2, <1>3 DEF toPull, howManyAttrs
  <1>5. IsFiniteSet(DOMAIN attrs) /\ DOMAIN attrs \subseteq StoredKeys /\ IsFiniteSet(c.deleted)
    BY <1>1 DEF DocInv, RoundInv
  <1>6. /\ IsFiniteSet(K) /\ IsFiniteSet(D) /\ Cardinality(K) \in Nat /\ Cardinality(D) \in Nat
    BY <1>2, <1>3, <1>5, FS_Subset, FS_CardinalityType
  <1>7. /\ \A k \in DOMAIN attrs : /\ NameOf(k) \in Names /\ k[1] = Encoded[NameOf(k)]
                                   /\ k = Key(NameOf(k), k[2])
                                   /\ Encoded[NameOf(k)] # NameOf(k) => k[2] = NoId
        /\ n \in Names /\ \E k \in DOMAIN attrs : NameOf(k) = n
    BY <1>1, <1>5, StoredKey DEF NamesOf
  <1>8. \A m \in Names : Encoded[m] = Encoded[n] => m = n
    BY <1>7, EntityUpdateAssumption DEF IsInjective
  <1>9. \A d \in c.deleted : /\ d[1] \in Names /\ d = <<d[1], d[2]>>
                             /\ Key(d[1], d[2]) \in c.toUnset /\ Key(d[1], d[2]) \in DOMAIN attrs
                             /\ Encoded[d[1]] # d[1] => d[2] = NoId
    BY <1>1, DeletedKey
  <1>10. CASE Encoded[n] = n
    <2>1. D \subseteq K
      <3>1. SUFFICES ASSUME NEW d \in D PROVE d \in K
        OBVIOUS
      <3>2. Key(d[1], d[2]) = d
        BY <1>3, <1>9, <1>10 DEF Key
      <3> QED BY <1>2, <1>3, <1>9, <3>2
    <2>2. \A k \in DOMAIN attrs : k \in K <=> NameOf(k) = n
      BY <1>2, <1>7, <1>8, <1>10
    <2>3. Cardinality(K) <= Cardinality(D) <=> K = D
      <3>1. Cardinality(D) <= Cardinality(K) /\ (Cardinality(K) = Cardinality(D) => K = D)
        BY <1>6, <2>1, FS_Subset
      <3> QED BY <1>6, <3>1
    <2>4. K = D => \A k \in K : k \in c.toUnset
      <3>1. SUFFICES ASSUME K = D, NEW k \in K PROVE k \in c.toUnset
        OBVIOUS
      <3>2. k \in c.deleted /\ k[1] = n
        BY <1>3, <3>1
      <3>3. Key(k[1], k[2]) = k
        BY <1>9, <1>10, <3>2 DEF Key
      <3> QED BY <1>9, <3>2, <3>3
    <2>5. (\A k \in K : k \in c.toUnset) => K \subseteq D
      <3>1. SUFFICES ASSUME \A k \in K : k \in c.toUnset, NEW k \in K PROVE k \in D
        OBVIOUS
      <3>2. PICK d \in c.deleted : k = Key(d[1], d[2])
        BY <3>1 DEF RoundInv
      <3>3. k[1] = Encoded[d[1]] /\ k[1] = n
        BY <1>2, <3>2 DEF Key
      <3>4. d[1] = n
        BY <1>8, <1>9, <1>10, <3>3
      <3>5. k = d
        BY <1>9, <1>10, <3>2, <3>4 DEF Key
      <3> QED BY <1>3, <3>4, <3>5
    <2>6. K # {}
      BY <1>7, <2>2
    <2>7. K = D => \E d \in c.deleted : d[1] = n
      BY <1>3, <2>6
    <2> QED BY <1>1, <1>2, <1>4, <2>1, <2>2, <2>3, <2>4, <2>5, <2>7
  <1>11. CASE Encoded[n] # n
    <2>1. K = {}
      BY <1>2, <1>7, <1>11, EntityUpdateAssumption
    <2>2. Cardinality(K) <= Cardinality(D)
      <3>1. Cardinality({}) = 0
        BY FS_EmptySet
      <3> QED BY <1>6, <2>1, <3>1
    <2>3. \A k \in DOMAIN attrs : NameOf(k) = n => k = Key(n, NoId)
      BY <1>7, <1>11
    <2>4. \A d \in c.deleted : d[1] = n => Key(n, NoId) \in c.toUnset
      BY <1>9, <1>11
    <2>5. Key(n, NoId) \in c.toUnset => \E d \in c.deleted : d[1] = n
      <3>1. SUFFICES ASSUME Key(n, NoId) \in c.toUnset PROVE \E d \in c.deleted : d[1] = n
        OBVIOUS
      <3>2. PICK d \in c.deleted : Key(n, NoId) = Key(d[1], d[2])
        BY <3>1 DEF RoundInv
      <3>3. Encoded[d[1]] = Encoded[n]
        BY <3>2 DEF Key
      <3> QED BY <1>8, <1>9, <3>3
    <2> QED BY <1>1, <1>4, <1>7, <2>2, <2>3, <2>4, <2>5
  <1> QED BY <1>10, <1>11

\* The document after the write.
LEMMA WrittenDoc ==
  ASSUME NEW action \in {"update", "append", "delete"}, NEW c, RoundInv(action, c), DocInv(c.read),
         NEW doc, Applied(doc, c.read, c)
  PROVE  DocInv(doc)
  <1>1. /\ DOMAIN doc.attrs = NewKeys(c) /\ doc.location = c.location
        /\ doc.attrNames = (c.read.attrNames \union c.toPush) \ toPull(c)
    BY DEF Applied, NewKeys
  <1>2. LocationOf(c.location, NewKeys(c)) /\ IsFiniteSet(DOMAIN c.toSet) /\ DOMAIN c.toSet \subseteq StoredKeys
    BY DEF RoundInv
  <1>3. IsFiniteSet(DOMAIN c.read.attrs) /\ DOMAIN c.read.attrs \subseteq StoredKeys
        /\ (PlainIds => c.read.attrNames = NamesOf(DOMAIN c.read.attrs))
    BY DEF DocInv
  <1>4. IsFiniteSet(NewKeys(c)) /\ NewKeys(c) \subseteq StoredKeys
    <2>1. IsFiniteSet(DOMAIN c.read.attrs \ c.toUnset)
      BY <1>3, FS_Subset
    <2> QED BY <1>2, <1>3, <2>1, FS_Union DEF NewKeys
  <1>5. ASSUME PlainIds PROVE doc.attrNames = NamesOf(NewKeys(c))
    <2>1. CASE action # "delete"
      <3>1. c.toUnset = {} /\ c.deleted = {}
        BY <2>1 DEF RoundInv
      <3>2. toPull(c) = {}
        BY <3>1 DEF toPull
      <3>3. NewKeys(c) = DOMAIN c.read.attrs \union DOMAIN c.toSet
        BY <3>1 DEF NewKeys
      <3>4. c.toPush = NamesOf(DOMAIN c.toSet \ DOMAIN c.read.attrs)
        <4>1. CASE action = "append"
          BY <4>1 DEF RoundInv
        <4>2. CASE action = "update"
          <5>1. c.toPush = {} /\ DOMAIN c.toSet \ DOMAIN c.read.attrs = {}
            BY <4>2 DEF RoundInv
          <5> QED BY <5>1 DEF NamesOf
        <4> QED BY <2>1, <4>1, <4>2
      <3>5. doc.attrNames = NamesOf(DOMAIN c.read.attrs) \union NamesOf(DOMAIN c.toSet \ DOMAIN c.read.attrs)
        BY <1>1, <1>3, <1>5, <3>2, <3>4
      <3> QED BY <3>3, <3>5 DEF NamesOf
    <2>2. CASE action = "delete"
      <3>1. /\ c.toPush = {} /\ DOMAIN c.toSet = {} /\ RoundInv("delete", c)
        BY <2>2 DEF RoundInv
      <3>2. doc.attrNames = NamesOf(DOMAIN c.read.attrs) \ toPull(c)
        BY <1>1, <1>3, <1>5, <3>1
      <3>3. NewKeys(c) = DOMAIN c.read.attrs \ c.toUnset
        BY <3>1 DEF NewKeys
      <3>4. \A n \in NamesOf(DOMAIN c.read.attrs) :
              n \in toPull(c) <=> \A k \in DOMAIN c.read.attrs : NameOf(k) = n => k \in c.toUnset
        BY <1>5, <3>1, PulledIffGone
      <3> QED BY <3>2, <3>3, <3>4 DEF NamesOf
    <2> QED BY <2>1, <2>2
  <1> QED BY <1>1, <1>2, <1>4, <1>5 DEF DocInv

LEMMA NoEntityDoc == DocInv(NoEntity)
  <1>1. DOMAIN NoEntity.attrs = {} /\ NoEntity.attrNames = {} /\ NoEntity.location = NoLocation
    BY DEF NoEntity
  <1>2. NamesOf({}) = {}
    BY DEF NamesOf
  <1> QED BY <1>1, <1>2, FS_EmptySet DEF DocInv, LocationOf

LEMMA NewDoc ==
  ASSUME NEW attributes \in Seq(Accepted), processLocation(attributes),
         NEW doc, doc = NewEntity(attributes)
  PROVE  DocInv(doc) /\ DOMAIN doc.attrs = {Key(attributes[i].name, attributes[i].id) : i \in DOMAIN attributes}
  <1>1. PICK keys : keys = {Key(attributes[i].name, attributes[i].id) : i \in DOMAIN attributes}
    OBVIOUS
  <1>2. PICK located : located = {i \in DOMAIN attributes : Located(attributes[i])}
    OBVIOUS
  <1>3. PICK f : f = [k \in keys |-> NewAttribute(attributes[CHOOSE i \in DOMAIN attributes :
                                        Key(attributes[i].name, attributes[i].id) = k])]
    OBVIOUS
  <1>4. PICK a : a = attributes[CHOOSE i \in located : TRUE]
    OBVIOUS
  <1>5. PICK l : l = IF located = {} THEN NoLocation ELSE [attrName |-> a.name, coords |-> a.value]
    OBVIOUS
  <1>6. /\ DOMAIN doc.attrs = keys /\ doc.location = l
        /\ doc.attrNames = {attributes[i].name : i \in DOMAIN attributes}
    <2>1. doc = [exists |-> TRUE, attrs |-> f,
                 attrNames |-> {attributes[i].name : i \in DOMAIN attributes}, location |-> l]
      BY <1>1, <1>2, <1>3, <1>4, <1>5 DEF NewEntity
    <2> QED BY <1>3, <2>1
  <1>7. \A i \in DOMAIN attributes :
          /\ attributes[i] \in Accepted /\ attributes[i].name \in Names
          /\ Key(attributes[i].name, attributes[i].id) \in StoredKeys
          /\ NameOf(Key(attributes[i].name, attributes[i].id)) = attributes[i].name
    BY AcceptedKey, ElementOfSeq, LenProperties
  <1>8. IsFiniteSet(keys)
    <2>1. PICK g : g = [i \in DOMAIN attributes |-> Key(attributes[i].name, attributes[i].id)]
      OBVIOUS
    <2>2. g \in Surjection(DOMAIN attributes, keys)
      BY <1>1, <2>1 DEF Surjection
    <2>3. IsFiniteSet(DOMAIN attributes)
      BY LenProperties, FS_Interval
    <2> QED BY <2>2, <2>3, FS_Surjection
  <1>9. keys \subseteq StoredKeys
    BY <1>1, <1>7
  <1>10. NamesOf(keys) = {attributes[i].name : i \in DOMAIN attributes}
    BY <1>1, <1>7 DEF NamesOf
  <1>11. LocationOf(l, keys)
    <2>1. CASE located = {}
      BY <1>5, <2>1 DEF LocationOf
    <2>2. CASE located # {}
      <3>1. PICK i \in located : a = attributes[i]
        BY <1>4, <2>2
      <3>2. i \in DOMAIN attributes /\ a.value \in Coordinates
        BY <1>2, <3>1 DEF processLocation
      <3>3. a.name \in NamesOf(keys) /\ a.name \in Names
        BY <1>7, <1>10, <3>1, <3>2
      <3>4. l = [attrName |-> a.name, coords |-> a.value]
        BY <1>5, <2>2
      <3> QED BY <3>2, <3>3, <3>4 DEF LocationOf
    <2> QED BY <2>1, <2>2
  <1>12. DocInv(doc)
    BY <1>6, <1>8, <1>9, <1>10, <1>11 DEF DocInv
  <1> QED BY <1>1, <1>6, <1>12

-----------------------------------------------------------------------------
Docs == \A k \in EntityKeys : DocInv(entities[k])
Midway == {"attributes", "write"}
RoundOf(w) == pc[w] \in Midway => RoundInv(req[w].action, cer[w])

\* The steps that a round is midway after.
LEMMA MidwayAfter ==
  ASSUME Domains, NEW w \in Workers, ReceiveRequest(w) \/ Step(w), pc'[w] \in Midway
  PROVE  NextDoc(w) \/ ProcessAttribute(w) \/ AttributesDone(w)
  <1> USE DEF Goto, Midway, Domains
  <1>1. CASE TakeSem(w) \/ AllDone(w) \/ ReceiveRequest(w)
    BY <1>1 DEF TakeSem, AllDone, ReceiveRequest
  <1>2. CASE RefuseElement(w) \/ QueryEntities(w) \/ DocsDone(w)
    BY <1>2 DEF RefuseElement, QueryEntities, DocsDone, NextElement
  <1>3. CASE RemoveEntity(w) \/ RejectAttribute(w)
    BY <1>3 DEF RejectAttribute, RemoveEntity, Respond
  <1>4. CASE WriteEntity(w)
    <2>1. Goto(w, "notify") \/ Goto(w, "respond")
      BY <1>4, Zenon DEF WriteEntity, Respond
    <2> QED BY <2>1
  <1>5. CASE CreateEntity(w)
    <2>1. Goto(w, "created") \/ Goto(w, "respond")
      BY <1>5, Zenon DEF CreateEntity, Respond
    <2> QED BY <2>1
  <1>6. CASE ProcessSubscriptions(w) \/ ResponsePushed(w) \/ NothingToUpdate(w) \/ CreateTriggers(w)
    BY <1>6 DEF ProcessSubscriptions, ResponsePushed, NothingToUpdate, CreateTriggers, Respond
  <1> QED BY <1>1, <1>2, <1>3, <1>4, <1>5, <1>6 DEF Step

\* RoundInv does not depend on the attributes to do and the status.
LEMMA SameRound ==
  ASSUME NEW action, NEW c, NEW old, RoundInv(action, old), c.read = old.read,
         c.toSet = old.toSet, c.toUnset = old.toUnset, c.toPush = old.toPush,
         c.deleted = old.deleted, c.location = old.location
  PROVE  RoundInv(action, c)
  <1>1. NewKeys(c) = NewKeys(old)
    BY DEF NewKeys
  <1> QED BY <1>1 DEF RoundInv

LEMMA FirstRound ==
  ASSUME NEW action, NEW c, DocInv(c.read), c.location = c.read.location, c.toSet = <<>>,
         c.toUnset = {}, c.toPush = {}, c.deleted = {}
  PROVE  RoundInv(action, c)
  <1>1. DOMAIN c.toSet = {}
    OBVIOUS
  <1>2. NewKeys(c) = DOMAIN c.read.attrs
    BY <1>1 DEF NewKeys
  <1>3. LocationOf(c.location, NewKeys(c))
    BY <1>2 DEF DocInv
  <1>4. IsFiniteSet({}) /\ NamesOf({}) = {}
    BY FS_EmptySet DEF NamesOf
  <1>5. DOMAIN c.toSet \ DOMAIN c.read.attrs = {}
    BY <1>1
  <1> QED BY <1>1, <1>3, <1>4, <1>5 DEF RoundInv

LEMMA ProcessRound ==
  ASSUME Base, NEW w \in Workers, ProcessAttribute(w), pc'[w] = "attributes", RoundOf(w)
  PROVE  RoundInv(req[w].action, cer'[w])
  <1>1. PICK c : c = [cer[w] EXCEPT !.todo = Tail(@)]
    OBVIOUS
  <1>2. PICK a : a = Head(cer[w].todo)
    OBVIOUS
  <1>3. PICK action : action = req[w].action
    OBVIOUS
  <1>4. /\ pc[w] = "attributes" /\ cer[w].todo # <<>>
        /\ cer'[w] = Processed(action, c, a) /\ ~Rejected(action, cer[w], a)
    BY <1>1, <1>2, <1>3, ProcessForm
  <1>5. WithoutIt(c, cer[w])
    BY <1>1, <1>4, AtAttribute
  <1>6. a \in Accepted /\ DOMAIN c = CerFields /\ DOMAIN c.location = LocationFields
        /\ c.read = cer[w].read /\ c.location = cer[w].location
    BY <1>2, <1>5 DEF WithoutIt
  <1>7. action \in {"update", "append", "delete"}
    BY <1>3, <1>4 DEF Base, WorkerOf, RequestShape
  <1>8. PICK p : p = cer'[w]
    OBVIOUS
  <1>9. ProcessedForm(action, p, c, a)
    BY <1>4, <1>6, <1>7, <1>8, ProcessedFields
  <1>10. RoundInv(action, c)
    <2>1. RoundInv(action, cer[w])
      BY <1>3, <1>4 DEF RoundOf, Midway
    <2> QED BY <1>5, <2>1, SameRound DEF WithoutIt
  <1>11. CASE action = "update"
    <2>1. ~UpdateRejected(c, a)
      BY <1>4, <1>6, <1>11 DEF Rejected, UpdateRejected
    <2> QED BY <1>3, <1>6, <1>8, <1>9, <1>10, <1>11, <2>1, UpdateRound DEF ProcessedForm
  <1>12. CASE action = "append"
    <2>1. ~AppendRejected(c, a)
      BY <1>4, <1>6, <1>12 DEF Rejected, AppendRejected
    <2> QED BY <1>3, <1>6, <1>8, <1>9, <1>10, <1>12, <2>1, AppendRound DEF ProcessedForm
  <1>13. CASE action = "delete"
    <2>1. ~DeleteRejected(c, a)
      BY <1>4, <1>6, <1>13 DEF Rejected, DeleteRejected, Has
    <2> QED BY <1>3, <1>6, <1>8, <1>9, <1>10, <1>13, <2>1, DeleteRound DEF ProcessedForm
  <1> QED BY <1>7, <1>11, <1>12, <1>13

LEMMA RoundStep ==
  ASSUME Base, Docs, NEW w \in Workers, ReceiveRequest(w) \/ Step(w), RoundOf(w)
  PROVE  RoundOf(w)'
  <1>1. SUFFICES ASSUME pc'[w] \in Midway PROVE RoundInv(req'[w].action, cer'[w])
    BY DEF RoundOf
  <1>2. CASE NextDoc(w)
    <2>1. UNCHANGED req /\ WorkerOf(w) /\ pc[w] = "docs"
      BY <1>2 DEF NextDoc, Base
    <2>2. PICK k \in DOMAIN cursor[w] :
            SetCer(w, [NoCer EXCEPT !.key = k, !.read = cursor[w][k],
                                    !.location = cursor[w][k].location,
                                    !.todo = Element(w).attributes])
      BY <1>2 DEF NextDoc
    <2>3. cer'[w] = [NoCer EXCEPT !.key = k, !.read = cursor[w][k],
                                  !.location = cursor[w][k].location,
                                  !.todo = Element(w).attributes]
      BY <2>2 DEF SetCer, Base, Domains
    <2>4. PICK c : c = cer'[w]
      OBVIOUS
    <2>5. /\ c.read = cursor[w][k] /\ c.location = c.read.location /\ c.toSet = <<>>
          /\ c.toUnset = {} /\ c.toPush = {} /\ c.deleted = {}
      BY <2>3, <2>4 DEF NoCer
    <2>6. DocInv(c.read)
      BY <2>1, <2>5 DEF WorkerOf, CursorOf, Docs
    <2>7. RoundInv(req[w].action, c)
      BY <2>5, <2>6, FirstRound
    <2> QED BY <2>1, <2>4, <2>7
  <1>3. CASE ProcessAttribute(w)
    <2>1. UNCHANGED req /\ pc'[w] \in {"attributes", "respond"}
      <3>1. UNCHANGED req /\ pc[w] = "attributes" /\ (UNCHANGED pc \/ Goto(w, "respond"))
        BY <1>3, Zenon DEF ProcessAttribute, Respond
      <3> QED BY <3>1 DEF Goto, Base, Domains
    <2>2. pc'[w] = "attributes"
      BY <1>1, <2>1 DEF Midway
    <2> QED BY <1>3, <2>1, <2>2, ProcessRound
  <1>4. CASE AttributesDone(w)
    <2>1. /\ UNCHANGED req /\ pc[w] = "attributes"
          /\ cer'[w] = [cer[w] EXCEPT !.status = OkIfNone(@)]
      BY <1>4 DEF AttributesDone, SetCer, Base, Domains
    <2>2. DOMAIN cer[w] = CerFields
      BY DEF Base, WorkerOf, CerShape
    <2>3. PICK c : c = cer'[w]
      OBVIOUS
    <2>4. /\ c.read = cer[w].read /\ c.toSet = cer[w].toSet /\ c.toUnset = cer[w].toUnset
          /\ c.toPush = cer[w].toPush /\ c.deleted = cer[w].deleted /\ c.location = cer[w].location
      BY <2>1, <2>2, <2>3 DEF CerFields
    <2>5. RoundInv(req[w].action, cer[w])
      BY <2>1 DEF RoundOf, Midway
    <2> QED BY <2>1, <2>3, <2>4, <2>5, SameRound
  <1> QED BY <1>1, <1>2, <1>3, <1>4, MidwayAfter DEF Base

\* The document that a step writes.
LEMMA DocsStep ==
  ASSUME Base, Docs, Includes = {}, NEW w \in Workers, ReceiveRequest(w) \/ Step(w), RoundOf(w)
  PROVE  Docs'
  <1>0. DOMAIN entities = EntityKeys /\ \A k \in EntityKeys : DocInv(entities[k])
    BY DEF Base, Domains, Docs
  <1>1. CASE UNCHANGED entities
    BY <1>0, <1>1 DEF Docs
  <1>2. CASE RemoveEntity(w)
    <2>1. cer[w].key \in EntityKeys
      BY <1>2 DEF RemoveEntity, Base, WorkerOf, ReadOf
    <2>2. UNCHANGED entities \/ entities' = [entities EXCEPT ![cer[w].key] = NoEntity]
      BY <1>2 DEF RemoveEntity
    <2> QED BY <1>0, <2>1, <2>2, NoEntityDoc DEF Docs
  <1>3. CASE WriteEntity(w)
    <2>1. PICK c : c = cer[w]
      OBVIOUS
    <2>2. /\ c.key \in EntityKeys /\ c.read = entities[c.key] /\ DOMAIN c.read = DocFields
          /\ RoundInv(req[w].action, c) /\ req[w].action \in {"update", "append", "delete"}
      BY <1>3, <2>1 DEF WriteEntity, Base, WorkerOf, ReadOf, RoundOf, Midway, RequestShape, DocShape
    <2>3. UNCHANGED entities \/ \E k \in UpdateMatches(c.key) : entities' = [entities EXCEPT ![k] = Apply(@, c)]
      BY <1>3, <2>1, Zenon DEF WriteEntity
    <2>4. \A k \in UpdateMatches(c.key) : k = c.key
      BY <2>2 DEF UpdateMatches, EntityKeys
    <2>5. UNCHANGED entities \/ entities' = [entities EXCEPT ![c.key] = Apply(@, c)]
      BY <2>3, <2>4
    <2>6. PICK doc : doc = Apply(c.read, c)
      OBVIOUS
    <2>7. Applied(doc, c.read, c)
      BY <2>2, <2>6, ApplyFields
    <2>8. DocInv(c.read)
      BY <1>0, <2>2
    <2>9. DocInv(doc)
      BY <2>2, <2>7, <2>8, WrittenDoc
    <2>10. UNCHANGED entities \/ entities' = [entities EXCEPT ![c.key] = doc]
      BY <2>2, <2>5, <2>6
    <2> QED BY <1>0, <2>2, <2>9, <2>10 DEF Docs
  <1>4. CASE CreateEntity(w)
    <2>1. PICK key : key = <<Element(w).type, req[w].path>>
      OBVIOUS
    <2>2. PICK doc : doc = NewEntity(Element(w).attributes)
      OBVIOUS
    <2>3. Created(w, key, doc)
      BY <1>4, <2>1, <2>2, CreateForm
    <2>4. req[w].elements # <<>>
      BY <2>3 DEF Created, Base, WorkerOf, RequestShape
    <2>5. key \in EntityKeys /\ Element(w).attributes \in Seq(Accepted)
      BY <2>1, <2>4, AtElement DEF EntityKeys
    <2>6. processLocation(Element(w).attributes) => DocInv(doc)
      BY <2>2, <2>5, NewDoc
    <2> QED BY <1>0, <2>3, <2>5, <2>6 DEF Created, Docs
  <1>5. UNCHANGED entities \/ RemoveEntity(w) \/ WriteEntity(w) \/ CreateEntity(w)
    BY Zenon DEF Step, ReceiveRequest, TakeSem, AllDone, RefuseElement, QueryEntities, NextDoc,
       DocsDone, RejectAttribute, ProcessAttribute, AttributesDone,
       ProcessSubscriptions, ResponsePushed, NothingToUpdate, CreateTriggers
  <1> QED BY <1>1, <1>2, <1>3, <1>4, <1>5

DocsInv == Docs /\ \A w \in Workers : RoundOf(w)

LEMMA DocsKeep ==
  ASSUME Base, DocsInv, Includes = {}, NEW w \in Workers, ReceiveRequest(w) \/ Step(w)
  PROVE  DocsInv'
  <1>1. Docs' /\ RoundOf(w)'
    BY RoundStep, DocsStep DEF DocsInv
  <1>2. ASSUME NEW v \in Workers \ {w} PROVE RoundOf(v)'
    <2>1. pc'[v] = pc[v] /\ req'[v] = req[v] /\ cer'[v] = cer[v]
      BY OthersKept DEF Base
    <2> QED BY <2>1 DEF DocsInv, RoundOf
  <1> QED BY <1>1, <1>2 DEF DocsInv

LEMMA DocsAlways ==
  ASSUME Policy \in {"all", "write"}, Includes = {}
  PROVE  Spec => [](Base /\ SemInv /\ DocsInv)
  <1>1. Init => DocsInv
    BY NoEntityDoc DEF Init, DocsInv, Docs, RoundOf, Midway
  <1>2. Base /\ DocsInv /\ [Next]_vars => DocsInv'
    <2>1. SUFFICES ASSUME Base, DocsInv, UNCHANGED vars PROVE DocsInv'
      BY DocsKeep DEF Next
    <2>2. UNCHANGED <<entities, pc, req, cer>>
      BY <2>1 DEF vars
    <2> QED BY <2>1, <2>2 DEF DocsInv, Docs, RoundOf
  <1> QED BY <1>1, <1>2, BaseAlways, PTL DEF Spec

\* The location of an entity is that of an attribute it has, and is a position,
\* through every sequence of updates, appends and deletes, when no service path
\* occurs in another (the query of the update is not anchored) and every update
\* takes the request semaphore: processContextElement.
THEOREM EntityLocationOfAnAttribute ==
  ASSUME Policy \in {"all", "write"}, Includes = {}
  PROVE  Spec => []LocationOfAnAttribute
  <1>1. DocsInv => LocationOfAnAttribute
    BY DEF DocsInv, Docs, DocInv, LocationOf, NamesOf, LocationOfAnAttribute
  <1> QED BY <1>1, DocsAlways, PTL

\* attrNames lists exactly the names of the attributes of the entity, under the
\* same assumptions and when no request combines a name with dots and an ID:
\* howManyAttrs compares the name of the request with the names as stored, so it
\* counts no attribute whose name dbDotEncode changes.
THEOREM EntityAttrNamesMatch ==
  ASSUME Policy \in {"all", "write"}, Includes = {}, PlainIds
  PROVE  Spec => []AttrNamesMatch
  <1>1. DocsInv => AttrNamesMatch
    BY DEF DocsInv, Docs, DocInv, NamesOf, AttrNamesMatch
  <1> QED BY <1>1, DocsAlways, PTL

-----------------------------------------------------------------------------
(* The metadata of an attribute                                             *)

\* As they are stored.
StoredTypes(mds) ==
  /\ IsFiniteSet(mds)
  /\ \A md1, md2 \in mds : TypeText(md1) = TypeText(md2) => md1 = md2
  /\ TypedMetadata => \A md \in mds : md.type \notin {"", NoType}

LEMMA AcceptedMetadata ==
  ASSUME UniqueMetadata, NEW a \in Accepted
  PROVE  /\ IsFiniteSet(a.md) /\ a.md \subseteq [type : STRING, value : STRING]
         /\ \A md \in a.md : md.type # NoType /\ TypeText(md) = md.type
         /\ \A md1, md2 \in a.md : md1.type = md2.type => md1 = md2
         /\ TypedMetadata => \A md \in a.md : md.type # ""
  BY DEF Accepted, Attribute, UniqueTypes, TypeText

LEMMA NewTypes ==
  ASSUME UniqueMetadata, NEW a \in Accepted
  PROVE  StoredTypes(NewAttribute(a).md)
  <1>1. NewAttribute(a).md = a.md
    BY DEF NewAttribute
  <1> QED BY <1>1, AcceptedMetadata, ZenonT(60) DEF StoredTypes

Renamed(md) == [md EXCEPT !.type = IF @ = "" THEN NoType ELSE @]

LEMMA RenamedType ==
  ASSUME NEW md \in [type : STRING, value : STRING], md.type # NoType
  PROVE  /\ TypeText(Renamed(md)) = md.type /\ Renamed(md).value = md.value
         /\ md.type # "" => Renamed(md) = md
  <1>1. CASE md.type = ""
    <2>1. Renamed(md) = [md EXCEPT !.type = NoType]
      BY <1>1 DEF Renamed
    <2>2. Renamed(md).type = NoType /\ Renamed(md).value = md.value
      BY <2>1
    <2> QED BY <1>1, <2>2 DEF TypeText
  <1>2. CASE md.type # ""
    <2>1. Renamed(md) = md
      BY <1>2 DEF Renamed
    <2> QED BY <1>2, <2>1 DEF TypeText
  <1> QED BY <1>1, <1>2

LEMMA MergedTypes ==
  ASSUME UniqueMetadata, NEW a \in Accepted, NEW attr, StoredTypes(attr.md)
  PROVE  StoredTypes(MergedMetadata(attr, a))
  <1>1. PICK new : new = {Renamed(md) : md \in a.md}
    OBVIOUS
  <1>2. PICK old : old = {md \in attr.md : ~\E x \in a.md : x.type = TypeText(md)}
    OBVIOUS
  <1>3. MergedMetadata(attr, a) = new \union old
    BY <1>1, <1>2 DEF MergedMetadata, Renamed
  <1>4. /\ IsFiniteSet(a.md) /\ a.md \subseteq [type : STRING, value : STRING]
        /\ \A md \in a.md : md.type # NoType /\ TypeText(md) = md.type
        /\ \A md1, md2 \in a.md : md1.type = md2.type => md1 = md2
        /\ TypedMetadata => \A md \in a.md : md.type # ""
    BY AcceptedMetadata
  <1>5. \A md \in a.md : /\ TypeText(Renamed(md)) = md.type
                         /\ md.type # "" => Renamed(md) = md
    BY <1>4, RenamedType
  <1>6. IsFiniteSet(new)
    <2>1. PICK f : f = [md \in a.md |-> Renamed(md)]
      OBVIOUS
    <2>2. f \in Surjection(a.md, new)
      BY <1>1, <2>1 DEF Surjection
    <2> QED BY <1>4, <2>2, FS_Surjection
  <1>7. IsFiniteSet(new \union old)
    <2>1. IsFiniteSet(old)
      BY <1>2, FS_Subset DEF StoredTypes
    <2> QED BY <1>6, <2>1, FS_Union
  <1>8. ASSUME NEW md1 \in new \union old, NEW md2 \in new \union old, TypeText(md1) = TypeText(md2)
        PROVE  md1 = md2
    <2>1. \A x \in new : \E md \in a.md : x = Renamed(md) /\ TypeText(x) = md.type
      BY <1>1, <1>5
    <2>2. \A x \in new, y \in old : TypeText(x) # TypeText(y)
      BY <1>2, <2>1
    <2>3. CASE md1 \in new /\ md2 \in new
      <3>1. PICK x \in a.md : md1 = Renamed(x) /\ TypeText(md1) = x.type
        BY <2>1, <2>3
      <3>2. PICK y \in a.md : md2 = Renamed(y) /\ TypeText(md2) = y.type
        BY <2>1, <2>3
      <3>3. x = y
        BY <1>4, <1>8, <3>1, <3>2
      <3> QED BY <3>1, <3>2, <3>3
    <2>4. CASE md1 \in old /\ md2 \in old
      BY <1>2, <1>8, <2>4 DEF StoredTypes
    <2> QED BY <1>8, <2>2, <2>3, <2>4
  <1>9. ASSUME TypedMetadata, NEW md \in new \union old PROVE md.type \notin {"", NoType}
    BY <1>1, <1>2, <1>4, <1>5, <1>9 DEF StoredTypes
  <1> QED BY <1>3, <1>7, <1>8, <1>9 DEF StoredTypes

LEMMA MergeFields ==
  ASSUME NEW attr, NEW a, NEW m, m = mergeAttrInfo(attr, a)
  PROVE  m.value = a.value /\ m.md = MergedMetadata(attr, a)
  BY DEF mergeAttrInfo

\* What is found to be modified is really different, or compound.
LEMMA ModifiedDiffers ==
  ASSUME NEW attr, NEW a, StoredTypes(attr.md), ActualUpdate(attr, mergeAttrInfo(attr, a)),
         a.value \notin Compounds
  PROVE  mergeAttrInfo(attr, a) # attr
  <1>1. PICK m : m = mergeAttrInfo(attr, a)
    OBVIOUS
  <1>2. m.value = a.value
    BY <1>1, MergeFields
  <1>3. SUFFICES ASSUME m = attr PROVE FALSE
    BY <1>1
  <1>4. ~equalMetadataVectors(attr.md, attr.md)
    BY <1>1, <1>2, <1>3 DEF ActualUpdate
  <1>5. equalMetadataVectors(attr.md, attr.md)
    BY DEF equalMetadataVectors, StoredTypes, TypeText
  <1> QED BY <1>4, <1>5

\* The attribute is as the request wants it.
AsWanted(attr, a) ==
  /\ attr.value = a.value
  /\ \A md \in a.md : \E stored \in attr.md :
       TypeText(stored) = md.type /\ stored.value = md.value

LEMMA MergedAsWanted ==
  ASSUME UniqueMetadata, NEW a \in Accepted, NEW attr
  PROVE  AsWanted(mergeAttrInfo(attr, a), a)
  <1>1. PICK m : m = mergeAttrInfo(attr, a)
    OBVIOUS
  <1>2. m.value = a.value /\ m.md = MergedMetadata(attr, a)
    BY <1>1, MergeFields
  <1>3. ASSUME NEW md \in a.md
        PROVE  \E stored \in m.md : TypeText(stored) = md.type /\ stored.value = md.value
    <2>1. md \in [type : STRING, value : STRING] /\ md.type # NoType
      BY AcceptedMetadata
    <2>2. TypeText(Renamed(md)) = md.type /\ Renamed(md).value = md.value
      BY <2>1, RenamedType
    <2>3. Renamed(md) \in m.md
      BY <1>2 DEF MergedMetadata, Renamed
    <2> QED BY <2>2, <2>3
  <1> QED BY <1>1, <1>2, <1>3 DEF AsWanted

\* What is found not to be modified is as the request wants it: as many metadata
\* elements of different types, none with another value.
LEMMA UnmodifiedAsWanted ==
  ASSUME UniqueMetadata, TypedMetadata, NEW a \in Accepted, NEW attr, StoredTypes(attr.md),
         ~ActualUpdate(attr, mergeAttrInfo(attr, a))
  PROVE  AsWanted(attr, a)
  <1>1. PICK m : m = mergeAttrInfo(attr, a)
    OBVIOUS
  <1>2. m.value = a.value /\ m.md = MergedMetadata(attr, a)
    BY <1>1, MergeFields
  <1>3. /\ attr.value = m.value /\ Cardinality(attr.md) = Cardinality(m.md)
        /\ equalMetadataVectors(attr.md, m.md)
    BY <1>1 DEF ActualUpdate
  <1>4. /\ \A md \in a.md : md.type # "" /\ md.type # NoType /\ TypeText(md) = md.type
        /\ a.md \subseteq [type : STRING, value : STRING]
    BY AcceptedMetadata
  <1>5. \A md \in a.md : Renamed(md) = md
    BY <1>4, RenamedType
  <1>6. m.md = a.md \union {md \in attr.md : ~\E x \in a.md : x.type = TypeText(md)}
    <2>1. {Renamed(md) : md \in a.md} = a.md
      BY <1>5
    <2> QED BY <1>2, <2>1 DEF MergedMetadata, Renamed
  <1>7. \A md \in attr.md : TypeText(md) = md.type
    BY DEF StoredTypes, TypeText
  <1>8. \A md \in attr.md : \E x \in m.md : x.type = md.type
    BY <1>6, <1>7
  <1>9. PICK f : f = [md \in attr.md |-> CHOOSE x \in m.md : x.type = md.type]
    OBVIOUS
  <1>10. \A md \in attr.md : f[md] \in m.md /\ f[md].type = md.type
    BY <1>8, <1>9
  <1>11. f \in Injection(attr.md, m.md)
    <2>1. \A x, y \in attr.md : f[x] = f[y] => x = y
      <3>1. SUFFICES ASSUME NEW x \in attr.md, NEW y \in attr.md, f[x] = f[y] PROVE x = y
        OBVIOUS
      <3>2. x.type = y.type
        BY <1>10, <3>1
      <3>3. TypeText(x) = TypeText(y)
        BY <1>7, <3>2
      <3> QED BY <3>3 DEF StoredTypes
    <2>2. f \in [attr.md -> m.md]
      BY <1>9, <1>10
    <2>3. PICK S, T : S = attr.md /\ T = m.md
      OBVIOUS
    <2>4. f \in [S -> T] /\ \A x, y \in S : f[x] = f[y] => x = y
      BY <2>1, <2>2, <2>3
    <2>5. f \in Injection(S, T)
      BY <2>4 DEF Injection, IsInjective
    <2> QED BY <2>3, <2>5
  <1>12. f \in Surjection(attr.md, m.md)
    <2>1. IsFiniteSet(m.md)
      BY <1>2, MergedTypes DEF StoredTypes
    <2> QED BY <1>3, <1>11, <2>1, FS_Injection
  <1>13. ASSUME NEW md \in a.md
         PROVE  \E stored \in attr.md : TypeText(stored) = md.type /\ stored.value = md.value
    <2>1. md \in m.md
      BY <1>6
    <2>2. PICK x \in attr.md : f[x] = md
      BY <1>12, <2>1 DEF Surjection
    <2>3. x.type = md.type
      BY <1>10, <2>2
    <2>4. x.value = md.value
      BY <1>3, <2>1, <2>3 DEF equalMetadataVectors
    <2> QED BY <1>7, <2>3, <2>4
  <1> QED BY <1>2, <1>3, <1>13 DEF AsWanted

-----------------------------------------------------------------------------
(* What a round has worked out, against the attributes of the request       *)

KeyOf(a) == Key(a.name, a.id)
CompoundNames(attributes) ==
  {attributes[i].name : i \in {j \in DOMAIN attributes : attributes[j].value \in Compounds}}

\* The attribute as it will be stored.
Result(c, k) == IF k \in DOMAIN c.toSet THEN c.toSet[k] ELSE c.read.attrs[k]

TodoInv(c, attributes) ==
  /\ Distinct(c.todo)
  /\ \A i \in DOMAIN c.todo : /\ \E j \in DOMAIN attributes : c.todo[i] = attributes[j]
                              /\ KeyOf(c.todo[i]) \notin DOMAIN c.toSet

TypesInv(c) ==
  /\ \A k \in DOMAIN c.read.attrs : StoredTypes(c.read.attrs[k].md)
  /\ \A k \in DOMAIN c.toSet : StoredTypes(c.toSet[k].md)

\* The subscriptions looked for are those of what is to be written.
TriggerInv(c, attributes) ==
  /\ c.trigger = NamesOf(DOMAIN c.toSet \union c.toUnset) /\ c.notified = {}
  /\ \A k \in DOMAIN c.toSet \intersect DOMAIN c.read.attrs :
       c.toSet[k] # c.read.attrs[k] \/ NameOf(k) \in CompoundNames(attributes)
  /\ c.entityModified # TRUE => DOMAIN c.toSet = {} /\ c.toUnset = {}

Follows(l, attributes) ==
  \E j \in DOMAIN attributes : attributes[j].name = l.attrName /\ l.coords = attributes[j].value

DoneOne(action, c, a, attributes) ==
  IF action = "delete" THEN KeyOf(a) \in c.toUnset
  ELSE \/ c.missing = TRUE
       \/ /\ KeyOf(a) \in NewKeys(c) /\ AsWanted(Result(c, KeyOf(a)), a)
          /\ action = "update" /\ c.location.attrName = a.name => Follows(c.location, attributes)

AnswerInv(action, c, attributes) ==
  /\ TypesInv(c) /\ TodoInv(c, attributes) /\ TriggerInv(c, attributes)
  /\ TypedMetadata => \A j \in DOMAIN attributes : \/ \E i \in DOMAIN c.todo : c.todo[i] = attributes[j]
                                                 \/ DoneOne(action, c, attributes[j], attributes)

\* The same while attribute a is in process.
AnswerBut(action, c, a, attributes) ==
  /\ TypesInv(c) /\ TodoInv(c, attributes) /\ TriggerInv(c, attributes)
  /\ \E j \in DOMAIN attributes : a = attributes[j]
  /\ KeyOf(a) \notin DOMAIN c.toSet /\ \A i \in DOMAIN c.todo : KeyOf(c.todo[i]) # KeyOf(a)
  /\ TypedMetadata => \A j \in DOMAIN attributes : \/ \E i \in DOMAIN c.todo : c.todo[i] = attributes[j]
                                                 \/ attributes[j] = a
                                                 \/ DoneOne(action, c, attributes[j], attributes)

LEMMA TailElements ==
  ASSUME NEW S, NEW s \in Seq(S), s # <<>>
  PROVE  /\ 1 \in DOMAIN s /\ Head(s) = s[1]
         /\ \A i \in DOMAIN Tail(s) : i + 1 \in DOMAIN s /\ Tail(s)[i] = s[i + 1] /\ i + 1 # 1
         /\ \A i \in DOMAIN s : i # 1 => i - 1 \in DOMAIN Tail(s) /\ Tail(s)[i - 1] = s[i]
  <1>1. /\ Len(s) \in Nat /\ Len(s) # 0 /\ DOMAIN s = 1..Len(s) /\ Head(s) = s[1]
        /\ Len(Tail(s)) = Len(s) - 1 /\ DOMAIN Tail(s) = 1..(Len(s) - 1)
        /\ \A i \in 1..(Len(s) - 1) : Tail(s)[i] = s[i + 1]
    OBVIOUS
  <1> QED BY <1>1

LEMMA SameKey ==
  ASSUME NEW a \in Accepted, NEW b \in Accepted, KeyOf(a) = KeyOf(b)
  PROVE  a.name = b.name /\ a.id = b.id
  <1>1. a.name \in Names /\ b.name \in Names
    BY AcceptedKey
  <1>2. Encoded[a.name] = Encoded[b.name] /\ a.id = b.id
    BY DEF KeyOf, Key
  <1> QED BY <1>1, <1>2, EntityUpdateAssumption DEF IsInjective

\* The next attribute is taken from the list.
LEMMA TakeAttribute ==
  ASSUME NEW action, NEW old, NEW c, NEW attributes, AnswerInv(action, old, attributes),
         old.todo \in Seq(Accepted), old.todo # <<>>, WithoutIt(c, old)
  PROVE  AnswerBut(action, c, Head(old.todo), attributes)
  <1>1. PICK a : a = Head(old.todo)
    OBVIOUS
  <1>2. PICK s : s = old.todo
    OBVIOUS
  <1>3. /\ s \in Seq(Accepted) /\ s # <<>> /\ c.todo = Tail(s) /\ a \in Accepted /\ a = Head(s)
        /\ c.todo \in Seq(Accepted)
    BY <1>1, <1>2 DEF WithoutIt
  <1>4. /\ 1 \in DOMAIN s /\ a = s[1]
        /\ \A i \in DOMAIN c.todo : i + 1 \in DOMAIN s /\ c.todo[i] = s[i + 1] /\ i + 1 # 1
        /\ \A i \in DOMAIN s : i # 1 => i - 1 \in DOMAIN c.todo /\ c.todo[i - 1] = s[i]
    BY <1>3, TailElements
  <1>5. /\ c.read = old.read /\ c.toSet = old.toSet /\ c.toUnset = old.toUnset
        /\ c.trigger = old.trigger /\ c.notified = old.notified /\ c.missing = old.missing
        /\ c.entityModified = old.entityModified /\ c.location = old.location
    BY DEF WithoutIt
  <1>6. TypesInv(c)
    BY <1>5 DEF AnswerInv, TypesInv
  <1>7. TriggerInv(c, attributes)
    BY <1>5 DEF AnswerInv, TriggerInv
  <1>8. /\ Distinct(s)
        /\ \A i \in DOMAIN s : /\ \E j \in DOMAIN attributes : s[i] = attributes[j]
                               /\ KeyOf(s[i]) \notin DOMAIN c.toSet
    BY <1>2, <1>5 DEF AnswerInv, TodoInv
  <1>9. TodoInv(c, attributes)
    <2>1. Distinct(c.todo)
      <3>1. SUFFICES ASSUME NEW j \in DOMAIN c.todo, NEW k \in DOMAIN c.todo,
                            c.todo[j].name = c.todo[k].name, c.todo[j].id = c.todo[k].id
                     PROVE  j = k
        BY DEF Distinct
      <3>2. j + 1 = k + 1
        BY <1>4, <1>8, <3>1 DEF Distinct
      <3>3. j \in Nat /\ k \in Nat
        BY <1>3, LenProperties
      <3> QED BY <3>2, <3>3
    <2> QED BY <1>4, <1>8, <2>1 DEF TodoInv
  <1>10. ASSUME NEW i \in DOMAIN c.todo PROVE KeyOf(c.todo[i]) # KeyOf(a)
    <2>1. c.todo[i] \in Accepted
      BY <1>3
    <2>2. ~(c.todo[i].name = a.name /\ c.todo[i].id = a.id)
      BY <1>4, <1>8 DEF Distinct
    <2> QED BY <1>3, <2>1, <2>2, SameKey
  <1>11. ASSUME TypedMetadata, NEW j \in DOMAIN attributes
         PROVE  \/ \E i \in DOMAIN c.todo : c.todo[i] = attributes[j]
                \/ attributes[j] = a \/ DoneOne(action, c, attributes[j], attributes)
    <2>1. CASE \E i \in DOMAIN s : s[i] = attributes[j]
      BY <1>4, <2>1
    <2>2. CASE DoneOne(action, old, attributes[j], attributes)
      <3>1. NewKeys(c) = NewKeys(old) /\ Result(c, KeyOf(attributes[j])) = Result(old, KeyOf(attributes[j]))
        BY <1>5 DEF NewKeys, Result
      <3>2. DoneOne(action, c, attributes[j], attributes)
        BY <1>5, <2>2, <3>1 DEF DoneOne
      <3> QED BY <3>2
    <2> QED BY <1>2, <1>11, <2>1, <2>2 DEF AnswerInv
  <1> QED BY <1>1, <1>4, <1>6, <1>7, <1>8, <1>9, <1>10, <1>11 DEF AnswerBut

\* What processing attribute a adds.
Adds(action, p, c, a, attributes) ==
  /\ DOMAIN p.toSet \in {DOMAIN c.toSet, DOMAIN c.toSet \union {KeyOf(a)}}
  /\ \A k \in DOMAIN c.toSet : p.toSet[k] = c.toSet[k]
  /\ KeyOf(a) \in DOMAIN p.toSet =>
       /\ StoredTypes(p.toSet[KeyOf(a)].md)
       /\ KeyOf(a) \in DOMAIN c.read.attrs =>
            p.toSet[KeyOf(a)] # c.read.attrs[KeyOf(a)] \/ a.value \in Compounds
  /\ p.trigger = NamesOf(DOMAIN p.toSet \union p.toUnset)
  /\ c.toUnset \subseteq p.toUnset /\ (action # "delete" => p.toUnset = c.toUnset)
  /\ c.missing = TRUE => p.missing = TRUE
  /\ action = "update" =>
       /\ p.location.attrName = c.location.attrName
       /\ p.location.coords = c.location.coords \/ Follows(p.location, attributes)
  /\ p.entityModified # TRUE => DOMAIN p.toSet = {} /\ p.toUnset = {}
  /\ TypedMetadata => DoneOne(action, p, a, attributes)

LEMMA AddsAnswer ==
  ASSUME NEW action, NEW c, NEW p, NEW a \in Accepted, NEW attributes \in Seq(Accepted), Distinct(attributes),
         AnswerBut(action, c, a, attributes), Adds(action, p, c, a, attributes), Kept(p, c)
  PROVE  AnswerInv(action, p, attributes)
  <1>1. p.todo = c.todo /\ p.read = c.read /\ p.notified = c.notified
    BY DEF Kept
  <1>2. PICK k : k = KeyOf(a)
    OBVIOUS
  <1>3. /\ DOMAIN p.toSet \in {DOMAIN c.toSet, DOMAIN c.toSet \union {k}}
        /\ \A x \in DOMAIN c.toSet : p.toSet[x] = c.toSet[x]
        /\ k \in DOMAIN p.toSet =>
             /\ StoredTypes(p.toSet[k].md)
             /\ k \in DOMAIN c.read.attrs => p.toSet[k] # c.read.attrs[k] \/ a.value \in Compounds
    BY <1>2 DEF Adds
  <1>4. PICK ja \in DOMAIN attributes : a = attributes[ja]
    BY DEF AnswerBut
  <1>5. TypesInv(p)
    BY <1>1, <1>3 DEF AnswerBut, TypesInv
  <1>6. TodoInv(p, attributes)
    <2>1. \A i \in DOMAIN c.todo : KeyOf(c.todo[i]) # k /\ KeyOf(c.todo[i]) \notin DOMAIN c.toSet
      BY <1>2 DEF AnswerBut, TodoInv
    <2> QED BY <1>1, <1>3, <2>1 DEF AnswerBut, TodoInv
  <1>7. TriggerInv(p, attributes)
    <2>1. /\ p.trigger = NamesOf(DOMAIN p.toSet \union p.toUnset) /\ p.notified = {}
          /\ p.entityModified # TRUE => DOMAIN p.toSet = {} /\ p.toUnset = {}
      BY <1>1 DEF Adds, AnswerBut, TriggerInv
    <2>2. NameOf(k) = a.name
      BY <1>2, AcceptedKey DEF KeyOf
    <2>3. a.value \in Compounds => NameOf(k) \in CompoundNames(attributes)
      BY <1>4, <2>2 DEF CompoundNames
    <2>4. ASSUME NEW x \in DOMAIN p.toSet \intersect DOMAIN p.read.attrs
          PROVE  p.toSet[x] # p.read.attrs[x] \/ NameOf(x) \in CompoundNames(attributes)
      <3>1. CASE x = k
        BY <1>1, <1>3, <2>3, <3>1
      <3>2. CASE x # k
        BY <1>1, <1>3, <3>2 DEF AnswerBut, TriggerInv
      <3> QED BY <3>1, <3>2
    <2> QED BY <2>1, <2>4 DEF TriggerInv
  <1>8. ASSUME TypedMetadata, NEW j \in DOMAIN attributes
        PROVE  (\E i \in DOMAIN p.todo : p.todo[i] = attributes[j]) \/ DoneOne(action, p, attributes[j], attributes)
    <2>0. PICK b : b = attributes[j]
      OBVIOUS
    <2>1. CASE \E i \in DOMAIN c.todo : c.todo[i] = b
      BY <1>1, <2>0, <2>1
    <2>2. CASE KeyOf(b) = k
      <3>1. b.name = a.name /\ b.id = a.id
        BY <1>2, <2>0, <2>2, SameKey
      <3>2. b = a
        BY <1>4, <2>0, <3>1 DEF Distinct
      <3> QED BY <1>8, <2>0, <3>2 DEF Adds
    <2>3. CASE DoneOne(action, c, b, attributes) /\ KeyOf(b) # k
      <3>1. CASE action = "delete"
        BY <2>0, <2>3, <3>1 DEF DoneOne, Adds
      <3>2. CASE action # "delete" /\ c.missing = TRUE
        BY <2>0, <3>2 DEF DoneOne, Adds
      <3>3. CASE action # "delete" /\ c.missing # TRUE
        <4>1. /\ KeyOf(b) \in NewKeys(c) /\ AsWanted(Result(c, KeyOf(b)), b)
              /\ action = "update" /\ c.location.attrName = b.name => Follows(c.location, attributes)
          BY <2>3, <3>3 DEF DoneOne
        <4>2. p.toUnset = c.toUnset
          BY <3>3 DEF Adds
        <4>3. KeyOf(b) \in NewKeys(p) /\ Result(p, KeyOf(b)) = Result(c, KeyOf(b))
          BY <1>1, <1>3, <2>3, <4>1, <4>2 DEF NewKeys, Result
        <4>4. ASSUME action = "update", p.location.attrName = b.name PROVE Follows(p.location, attributes)
          BY <4>1, <4>4 DEF Adds, Follows
        <4> QED BY <2>0, <3>3, <4>1, <4>3, <4>4 DEF DoneOne
      <3> QED BY <3>1, <3>2, <3>3
    <2>4. CASE b = a
      BY <1>2, <2>2, <2>4
    <2> QED BY <1>8, <2>0, <2>1, <2>2, <2>3, <2>4 DEF AnswerBut
  <1> QED BY <1>5, <1>6, <1>7, <1>8 DEF AnswerInv

\* An attribute that the document has, for UPDATE and APPEND.
UpdateAdds(p, c, a) ==
  /\ DOMAIN p.toSet \in {DOMAIN c.toSet, DOMAIN c.toSet \union {KeyOf(a)}}
  /\ \A k \in DOMAIN c.toSet : p.toSet[k] = c.toSet[k]
  /\ KeyOf(a) \in DOMAIN p.toSet =>
       /\ StoredTypes(p.toSet[KeyOf(a)].md)
       /\ KeyOf(a) \in DOMAIN c.read.attrs =>
            p.toSet[KeyOf(a)] # c.read.attrs[KeyOf(a)] \/ a.value \in Compounds
  /\ p.trigger = NamesOf(DOMAIN p.toSet \union p.toUnset)
  /\ p.entityModified # TRUE => DOMAIN p.toSet = {} /\ p.toUnset = {}
  /\ TypedMetadata => AsWanted(Result(p, KeyOf(a)), a)

LEMMA UpdateFormAdds ==
  ASSUME UniqueMetadata, NEW action, NEW c, NEW p, NEW a \in Accepted, NEW attributes,
         AnswerBut(action, c, a, attributes),
         Has(c, a), UpdateForm(p, c, a), Kept(p, c), p.toUnset = c.toUnset
  PROVE  UpdateAdds(p, c, a)
  <1>1. PICK k : k = KeyOf(a)
    OBVIOUS
  <1>2. PICK attr : attr = c.read.attrs[k]
    OBVIOUS
  <1>3. PICK merged : merged = mergeAttrInfo(attr, a)
    OBVIOUS
  <1>4. /\ k \in DOMAIN c.read.attrs /\ k \notin DOMAIN c.toSet /\ StoredTypes(attr.md)
        /\ c.trigger = NamesOf(DOMAIN c.toSet \union c.toUnset)
        /\ c.entityModified # TRUE => DOMAIN c.toSet = {} /\ c.toUnset = {}
    BY <1>1, <1>2 DEF Has, KeyOf, AnswerBut, TypesInv, TriggerInv
  <1>5. NameOf(k) = a.name
    BY <1>1, AcceptedKey DEF KeyOf
  <1>6. CASE ActualUpdate(attr, merged) /\ Modified(p, c, a, merged)
    <2>1. /\ p.toSet = With(c.toSet, k, merged) /\ p.trigger = c.trigger \union {a.name}
          /\ p.entityModified = TRUE
      BY <1>1, <1>6 DEF Modified, KeyOf
    <2>2. /\ DOMAIN p.toSet = DOMAIN c.toSet \union {k} /\ p.toSet[k] = merged
          /\ \A x \in DOMAIN c.toSet : p.toSet[x] = c.toSet[x]
      BY <1>4, <2>1 DEF With
    <2>3. StoredTypes(merged.md)
      BY <1>3, <1>4, MergedTypes, MergeFields
    <2>4. merged # attr \/ a.value \in Compounds
      BY <1>3, <1>4, <1>6, ModifiedDiffers
    <2>5. p.trigger = NamesOf(DOMAIN p.toSet \union p.toUnset)
      BY <1>4, <1>5, <2>1, <2>2 DEF NamesOf
    <2>6. AsWanted(Result(p, k), a)
      BY <1>3, <2>2, MergedAsWanted DEF Result
    <2> QED BY <1>1, <1>2, <2>1, <2>2, <2>3, <2>4, <2>5, <2>6 DEF UpdateAdds
  <1>7. CASE ~ActualUpdate(attr, merged) /\ SameWrites(p, c)
    <2>1. p.toSet = c.toSet /\ p.trigger = c.trigger /\ p.entityModified = c.entityModified
      BY <1>7 DEF SameWrites
    <2>2. Result(p, k) = attr
      BY <1>2, <1>4, <2>1 DEF Result, Kept
    <2>3. TypedMetadata => AsWanted(attr, a)
      BY <1>3, <1>4, <1>7, UnmodifiedAsWanted
    <2> QED BY <1>1, <1>4, <2>1, <2>2, <2>3 DEF UpdateAdds
  <1>8. \/ ActualUpdate(attr, merged) /\ Modified(p, c, a, merged)
        \/ ~ActualUpdate(attr, merged) /\ SameWrites(p, c)
    BY <1>1, <1>2, <1>3 DEF UpdateForm, KeyOf
  <1> QED BY <1>6, <1>7, <1>8

LEMMA UpdateOneAdds ==
  ASSUME UniqueMetadata, NEW c, NEW p, NEW a \in Accepted, NEW attributes,
         AnswerBut("update", c, a, attributes), RoundInv("update", c),
         DOMAIN c.location = LocationFields, UpdateOneForm(p, c, a)
  PROVE  Adds("update", p, c, a, attributes)
  <1>1. /\ Kept(p, c) /\ p.toUnset = c.toUnset /\ c.toUnset = {}
        /\ p.location = [c.location EXCEPT !.coords = IF a.name = c.location.attrName THEN a.value ELSE @]
    BY DEF UpdateOneForm, RoundInv
  <1>2. p.location.attrName = c.location.attrName
    BY <1>1 DEF LocationFields
  <1>3. \/ a.name = c.location.attrName /\ p.location.coords = a.value
        \/ a.name # c.location.attrName /\ p.location.coords = c.location.coords
    BY <1>1 DEF LocationFields
  <1>4. a.name = c.location.attrName => Follows(p.location, attributes)
    BY <1>2, <1>3 DEF AnswerBut, Follows
  <1>5. CASE Has(c, a) /\ UpdateForm(p, c, a) /\ p.missing = c.missing
    <2>1. UpdateAdds(p, c, a)
      BY <1>1, <1>5, UpdateFormAdds
    <2>2. KeyOf(a) \in NewKeys(p)
      BY <1>1, <1>5 DEF NewKeys, Has, KeyOf, Kept
    <2>3. TypedMetadata => DoneOne("update", p, a, attributes)
      BY <1>2, <1>4, <2>1, <2>2 DEF UpdateAdds, DoneOne
    <2> QED BY <1>1, <1>2, <1>3, <1>4, <1>5, <2>1, <2>3 DEF Adds, UpdateAdds
  <1>6. CASE SameWrites(p, c) /\ p.missing = TRUE
    <2>1. /\ p.toSet = c.toSet /\ p.trigger = c.trigger /\ p.entityModified = c.entityModified
      BY <1>6 DEF SameWrites
    <2>2. DoneOne("update", p, a, attributes)
      BY <1>6 DEF DoneOne
    <2>3. /\ c.trigger = NamesOf(DOMAIN c.toSet \union c.toUnset)
          /\ c.entityModified # TRUE => DOMAIN c.toSet = {} /\ c.toUnset = {}
          /\ KeyOf(a) \notin DOMAIN c.toSet
      BY DEF AnswerBut, TriggerInv
    <2> QED BY <1>1, <1>2, <1>3, <1>4, <1>6, <2>1, <2>2, <2>3 DEF Adds
  <1> QED BY <1>5, <1>6 DEF UpdateOneForm

LEMMA AppendOneAdds ==
  ASSUME UniqueMetadata, NEW c, NEW p, NEW a \in Accepted, NEW attributes,
         AnswerBut("append", c, a, attributes), RoundInv("append", c), AppendOneForm(p, c, a)
  PROVE  Adds("append", p, c, a, attributes)
  <1>1. Kept(p, c) /\ p.toUnset = c.toUnset /\ c.toUnset = {} /\ p.missing = c.missing
    BY DEF AppendOneForm, RoundInv
  <1>2. CASE Has(c, a) /\ UpdateForm(p, c, a)
    <2>1. UpdateAdds(p, c, a)
      BY <1>1, <1>2, UpdateFormAdds
    <2>2. KeyOf(a) \in NewKeys(p)
      BY <1>1, <1>2 DEF NewKeys, Has, KeyOf, Kept
    <2>3. TypedMetadata => DoneOne("append", p, a, attributes)
      BY <2>1, <2>2 DEF UpdateAdds, DoneOne
    <2> QED BY <1>1, <2>1, <2>3 DEF Adds, UpdateAdds
  <1>3. CASE ~Has(c, a) /\ Modified(p, c, a, NewAttribute(a))
    <2>1. PICK k : k = KeyOf(a)
      OBVIOUS
    <2>2. PICK new : new = NewAttribute(a)
      OBVIOUS
    <2>3. /\ p.toSet = With(c.toSet, k, new) /\ p.trigger = c.trigger \union {a.name}
          /\ p.entityModified = TRUE /\ k \notin DOMAIN c.read.attrs
      BY <1>3, <2>1, <2>2 DEF Modified, KeyOf, Has
    <2>4. /\ k \notin DOMAIN c.toSet /\ NameOf(k) = a.name
          /\ c.trigger = NamesOf(DOMAIN c.toSet \union c.toUnset)
      BY <2>1, AcceptedKey DEF AnswerBut, TriggerInv, KeyOf
    <2>5. /\ DOMAIN p.toSet = DOMAIN c.toSet \union {k} /\ p.toSet[k] = new
          /\ \A x \in DOMAIN c.toSet : p.toSet[x] = c.toSet[x]
      BY <2>3, <2>4 DEF With
    <2>6. StoredTypes(new.md)
      BY <2>2, NewTypes
    <2>7. p.trigger = NamesOf(DOMAIN p.toSet \union p.toUnset)
      BY <1>1, <2>3, <2>4, <2>5 DEF NamesOf
    <2>8. AsWanted(new, a)
      <3>1. new.value = a.value /\ new.md = a.md
        BY <2>2 DEF NewAttribute
      <3> QED BY <3>1, AcceptedMetadata DEF AsWanted
    <2>9. KeyOf(a) \in NewKeys(p) /\ Result(p, KeyOf(a)) = new
      BY <2>1, <2>5 DEF NewKeys, Result
    <2>10. DoneOne("append", p, a, attributes)
      BY <2>8, <2>9 DEF DoneOne
    <2> QED BY <1>1, <2>1, <2>3, <2>5, <2>6, <2>7, <2>10 DEF Adds
  <1> QED BY <1>2, <1>3 DEF AppendOneForm

LEMMA DeleteOneAdds ==
  ASSUME NEW c, NEW p, NEW a \in Accepted, NEW attributes,
         AnswerBut("delete", c, a, attributes), DeleteOneForm(p, c, a)
  PROVE  Adds("delete", p, c, a, attributes)
  <1>1. PICK k : k = KeyOf(a)
    OBVIOUS
  <1>2. /\ p.toSet = c.toSet /\ p.missing = c.missing /\ p.toUnset = c.toUnset \union {k}
        /\ p.entityModified = TRUE /\ p.trigger = c.trigger \union {a.name}
    BY <1>1 DEF DeleteOneForm, KeyOf
  <1>3. /\ k \notin DOMAIN c.toSet /\ NameOf(k) = a.name
        /\ c.trigger = NamesOf(DOMAIN c.toSet \union c.toUnset)
    BY <1>1, AcceptedKey DEF AnswerBut, TriggerInv, KeyOf
  <1>4. p.trigger = NamesOf(DOMAIN p.toSet \union p.toUnset)
    BY <1>2, <1>3 DEF NamesOf
  <1>5. DoneOne("delete", p, a, attributes)
    BY <1>1, <1>2 DEF DoneOne
  <1> QED BY <1>1, <1>2, <1>3, <1>4, <1>5 DEF Adds

LEMMA ProcessAnswer ==
  ASSUME UniqueMetadata, Base, NEW w \in Workers, ProcessAttribute(w), pc'[w] = "attributes", RoundOf(w),
         AnswerInv(req[w].action, cer[w], Element(w).attributes)
  PROVE  AnswerInv(req[w].action, cer'[w], Element(w).attributes)
  <1>1. PICK c : c = [cer[w] EXCEPT !.todo = Tail(@)]
    OBVIOUS
  <1>2. PICK a : a = Head(cer[w].todo)
    OBVIOUS
  <1>3. PICK action : action = req[w].action
    OBVIOUS
  <1>4. /\ pc[w] = "attributes" /\ cer[w].todo # <<>> /\ cer'[w] = Processed(action, c, a)
    BY <1>1, <1>2, <1>3, ProcessForm
  <1>5. WithoutIt(c, cer[w])
    BY <1>1, <1>4, AtAttribute
  <1>6. a \in Accepted /\ DOMAIN c = CerFields /\ DOMAIN c.location = LocationFields
    BY <1>2, <1>5 DEF WithoutIt
  <1>7. /\ action \in {"update", "append", "delete"} /\ req[w].elements # <<>>
        /\ cer[w].todo \in Seq(Accepted)
    BY <1>3, <1>4 DEF Base, WorkerOf, RequestShape, CerShape
  <1>8. PICK p : p = cer'[w]
    OBVIOUS
  <1>9. ProcessedForm(action, p, c, a)
    BY <1>4, <1>6, <1>7, <1>8, ProcessedFields
  <1>10. RoundInv(action, c)
    <2>1. RoundInv(action, cer[w])
      BY <1>3, <1>4 DEF RoundOf, Midway
    <2> QED BY <1>5, <2>1, SameRound DEF WithoutIt
  <1>11. PICK attributes : attributes = Element(w).attributes
    OBVIOUS
  <1>12. attributes \in Seq(Accepted) /\ Distinct(attributes)
    BY <1>7, <1>11, AtElement
  <1>13. AnswerBut(action, c, a, attributes)
    BY <1>2, <1>3, <1>4, <1>5, <1>7, <1>11, TakeAttribute
  <1>14. Adds(action, p, c, a, attributes)
    <2>1. CASE action = "update"
      BY <1>6, <1>9, <1>10, <1>13, <2>1, UpdateOneAdds DEF ProcessedForm
    <2>2. CASE action = "append"
      BY <1>6, <1>9, <1>10, <1>13, <2>2, AppendOneAdds DEF ProcessedForm
    <2>3. CASE action = "delete"
      BY <1>6, <1>9, <1>13, <2>3, DeleteOneAdds DEF ProcessedForm
    <2> QED BY <1>7, <2>1, <2>2, <2>3
  <1>15. Kept(p, c)
    BY <1>9 DEF ProcessedForm
  <1>16. AnswerInv(action, p, attributes)
    BY <1>6, <1>12, <1>13, <1>14, <1>15, AddsAnswer
  <1> QED BY <1>3, <1>8, <1>11, <1>16

-----------------------------------------------------------------------------
(* The answer and the notifications, against the document                   *)

\* These are the names that were changed, compound values apart.
Covers(names, read, doc, attributes) ==
  /\ Changed(read, doc) \subseteq names
  /\ names \ Changed(read, doc) \subseteq CompoundNames(attributes)

AnswerTrue(action, doc, read, attributes) ==
  IF action = "delete"
    THEN IF attributes = <<>> THEN ~doc.exists
         ELSE \A j \in DOMAIN attributes : KeyOf(attributes[j]) \notin DOMAIN doc.attrs
    ELSE \A j \in DOMAIN attributes :
           /\ KeyOf(attributes[j]) \in DOMAIN doc.attrs
           /\ AsWanted(doc.attrs[KeyOf(attributes[j])], attributes[j])
           /\ action = "update" /\ doc.location.attrName = attributes[j].name /\ doc # read =>
                Follows(doc.location, attributes)

LEMMA CoversNothing ==
  ASSUME NEW doc, NEW attributes
  PROVE  Covers({}, doc, doc, attributes)
  BY DEF Covers, Changed

LEMMA CoversWrite ==
  ASSUME NEW action \in {"update", "append", "delete"}, NEW c, NEW doc, NEW attributes,
         TriggerInv(c, attributes), RoundInv(action, c), Applied(doc, c.read, c)
  PROVE  Covers(c.trigger, c.read, doc, attributes)
  <1>1. PICK old, new : old = c.read.attrs /\ new = doc.attrs
    OBVIOUS
  <1>2. /\ DOMAIN new = (DOMAIN old \ c.toUnset) \union DOMAIN c.toSet
        /\ \A k \in DOMAIN new : new[k] = IF k \in DOMAIN c.toSet THEN c.toSet[k] ELSE old[k]
    BY <1>1 DEF Applied
  <1>3. c.toUnset = {} \/ (DOMAIN c.toSet = {} /\ c.toUnset \subseteq DOMAIN old)
    BY <1>1 DEF RoundInv
  <1>4. PICK X : X = {x \in DOMAIN old \union DOMAIN new :
                        x \notin DOMAIN old \/ x \notin DOMAIN new \/ old[x] # new[x]}
    OBVIOUS
  <1>5. Changed(c.read, doc) = NamesOf(X)
    BY <1>1, <1>4 DEF Changed, NamesOf
  <1>6. X \subseteq DOMAIN c.toSet \union c.toUnset
    BY <1>2, <1>4
  <1>7. c.toUnset \subseteq X
    BY <1>2, <1>3, <1>4
  <1>8. \A k \in DOMAIN c.toSet : k \in X \/ NameOf(k) \in CompoundNames(attributes)
    BY <1>1, <1>2, <1>4 DEF TriggerInv
  <1>9. c.trigger = NamesOf(DOMAIN c.toSet \union c.toUnset)
    BY DEF TriggerInv
  <1>10. NamesOf(X) \subseteq c.trigger
    BY <1>6, <1>9 DEF NamesOf
  <1>11. c.trigger \ NamesOf(X) \subseteq CompoundNames(attributes)
    BY <1>7, <1>8, <1>9 DEF NamesOf
  <1> QED BY <1>5, <1>10, <1>11 DEF Covers

\* Every attribute of the request is processed.
LEMMA AllProcessed ==
  ASSUME NEW action, NEW c, NEW attributes, AnswerInv(action, c, attributes), c.todo = <<>>, TypedMetadata
  PROVE  \A j \in DOMAIN attributes : DoneOne(action, c, attributes[j], attributes)
  <1>1. DOMAIN c.todo = {}
    OBVIOUS
  <1> QED BY <1>1 DEF AnswerInv

LEMMA TrueWrite ==
  ASSUME NEW action \in {"update", "append", "delete"}, NEW c, NEW doc, NEW attributes,
         AnswerInv(action, c, attributes), c.todo = <<>>, TypedMetadata, c.missing # TRUE,
         RoundInv(action, c), Applied(doc, c.read, c), action = "delete" => attributes # <<>>
  PROVE  AnswerTrue(action, doc, c.read, attributes)
  <1>1. /\ DOMAIN doc.attrs = NewKeys(c) /\ doc.location = c.location
        /\ \A k \in DOMAIN doc.attrs : doc.attrs[k] = Result(c, k)
    BY DEF Applied, NewKeys, Result
  <1>2. CASE action = "delete"
    <2>1. DOMAIN c.toSet = {}
      BY <1>2 DEF RoundInv
    <2>2. \A j \in DOMAIN attributes : KeyOf(attributes[j]) \in c.toUnset
      BY <1>2, AllProcessed DEF DoneOne
    <2>3. \A j \in DOMAIN attributes : KeyOf(attributes[j]) \notin DOMAIN doc.attrs
      BY <1>1, <2>1, <2>2 DEF NewKeys
    <2> QED BY <1>2, <2>3 DEF AnswerTrue
  <1>3. CASE action # "delete"
    <2>1. ASSUME NEW j \in DOMAIN attributes
          PROVE  /\ KeyOf(attributes[j]) \in DOMAIN doc.attrs
                 /\ AsWanted(doc.attrs[KeyOf(attributes[j])], attributes[j])
                 /\ action = "update" /\ doc.location.attrName = attributes[j].name =>
                      Follows(doc.location, attributes)
      <3>1. DoneOne(action, c, attributes[j], attributes)
        BY AllProcessed
      <3> QED BY <1>1, <1>3, <3>1 DEF DoneOne
    <2> QED BY <1>3, <2>1 DEF AnswerTrue
  <1> QED BY <1>2, <1>3

LEMMA TrueUnmodified ==
  ASSUME NEW action \in {"update", "append", "delete"}, NEW c, NEW attributes \in Seq(Accepted),
         AnswerInv(action, c, attributes), c.todo = <<>>, TypedMetadata, c.missing # TRUE,
         c.entityModified # TRUE, action = "delete" => attributes # <<>>
  PROVE  AnswerTrue(action, c.read, c.read, attributes)
  <1>1. DOMAIN c.toSet = {} /\ c.toUnset = {}
    BY DEF AnswerInv, TriggerInv
  <1>2. CASE action = "delete"
    <2>1. 1 \in DOMAIN attributes
      BY <1>2, TailElements
    <2>2. DoneOne(action, c, attributes[1], attributes)
      BY <2>1, AllProcessed
    <2> QED BY <1>1, <1>2, <2>2 DEF DoneOne
  <1>3. CASE action # "delete"
    <2>1. NewKeys(c) = DOMAIN c.read.attrs /\ \A k \in DOMAIN c.read.attrs : Result(c, k) = c.read.attrs[k]
      BY <1>1 DEF NewKeys, Result
    <2>2. ASSUME NEW j \in DOMAIN attributes
          PROVE  /\ KeyOf(attributes[j]) \in DOMAIN c.read.attrs
                 /\ AsWanted(c.read.attrs[KeyOf(attributes[j])], attributes[j])
      <3>1. DoneOne(action, c, attributes[j], attributes)
        BY AllProcessed
      <3> QED BY <1>3, <2>1, <3>1 DEF DoneOne
    <2> QED BY <1>3, <2>2 DEF AnswerTrue
  <1> QED BY <1>2, <1>3

\* The new entity has the attributes of the request.
LEMMA NewAttrs ==
  ASSUME NEW attributes \in Seq(Accepted), Distinct(attributes), NEW doc, doc = NewEntity(attributes)
  PROVE  /\ DOMAIN doc.attrs = {KeyOf(attributes[i]) : i \in DOMAIN attributes}
         /\ \A i \in DOMAIN attributes : doc.attrs[KeyOf(attributes[i])] = NewAttribute(attributes[i])
  <1>1. PICK keys : keys = {KeyOf(attributes[i]) : i \in DOMAIN attributes}
    OBVIOUS
  <1>2. PICK f : f = [k \in keys |-> NewAttribute(attributes[CHOOSE i \in DOMAIN attributes :
                                                               KeyOf(attributes[i]) = k])]
    OBVIOUS
  <1>3. doc.attrs = f
    BY <1>1, <1>2 DEF NewEntity, KeyOf
  <1>4. ASSUME NEW i \in DOMAIN attributes
        PROVE  f[KeyOf(attributes[i])] = NewAttribute(attributes[i])
    <2>1. PICK k : k = KeyOf(attributes[i])
      OBVIOUS
    <2>2. PICK c : c = CHOOSE x \in DOMAIN attributes : KeyOf(attributes[x]) = k
      OBVIOUS
    <2>3. c \in DOMAIN attributes /\ KeyOf(attributes[c]) = KeyOf(attributes[i])
      BY <2>1, <2>2
    <2>4. attributes[c] \in Accepted /\ attributes[i] \in Accepted
      BY <2>3, ElementOfSeq, LenProperties
    <2>5. c = i
      BY <2>3, <2>4, SameKey DEF Distinct
    <2>6. f[k] = NewAttribute(attributes[c])
      BY <1>1, <1>2, <2>1, <2>2
    <2> QED BY <2>1, <2>5, <2>6
  <1> QED BY <1>1, <1>2, <1>3, <1>4

LEMMA CoversNew ==
  ASSUME NEW attributes \in Seq(Accepted), Distinct(attributes), NEW doc, doc = NewEntity(attributes)
  PROVE  Covers({attributes[i].name : i \in DOMAIN attributes}, NoEntity, doc, attributes)
  <1>1. DOMAIN doc.attrs = {KeyOf(attributes[i]) : i \in DOMAIN attributes}
    BY NewAttrs
  <1>2. DOMAIN NoEntity.attrs = {}
    BY DEF NoEntity
  <1>3. {x \in DOMAIN NoEntity.attrs \union DOMAIN doc.attrs :
           \/ x \notin DOMAIN NoEntity.attrs \/ x \notin DOMAIN doc.attrs
           \/ NoEntity.attrs[x] # doc.attrs[x]} = DOMAIN doc.attrs
    BY <1>2
  <1>4. Changed(NoEntity, doc) = {NameOf(k) : k \in DOMAIN doc.attrs}
    BY <1>3 DEF Changed
  <1>5. \A i \in DOMAIN attributes : NameOf(KeyOf(attributes[i])) = attributes[i].name
    BY AcceptedKey, ElementOfSeq, LenProperties DEF KeyOf
  <1>6. Changed(NoEntity, doc) = {attributes[i].name : i \in DOMAIN attributes}
    BY <1>1, <1>4, <1>5
  <1> QED BY <1>6 DEF Covers

LEMMA TrueNew ==
  ASSUME UniqueMetadata, NEW attributes \in Seq(Accepted), Distinct(attributes),
         NEW doc, doc = NewEntity(attributes), NEW read
  PROVE  AnswerTrue("append", doc, read, attributes)
  <1>1. ASSUME NEW j \in DOMAIN attributes
        PROVE  /\ KeyOf(attributes[j]) \in DOMAIN doc.attrs
               /\ AsWanted(doc.attrs[KeyOf(attributes[j])], attributes[j])
    <2>1. PICK a \in Accepted : a = attributes[j]
      BY ElementOfSeq, LenProperties
    <2>2. KeyOf(a) \in DOMAIN doc.attrs /\ doc.attrs[KeyOf(a)] = NewAttribute(a)
      BY <2>1, NewAttrs
    <2>3. NewAttribute(a).value = a.value /\ NewAttribute(a).md = a.md
      BY DEF NewAttribute
    <2>4. AsWanted(NewAttribute(a), a)
      BY <2>3, AcceptedMetadata DEF AsWanted
    <2> QED BY <2>1, <2>2, <2>4
  <1> QED BY <1>1 DEF AnswerTrue

-----------------------------------------------------------------------------
DocsTypes ==
  \A e \in EntityKeys : \A k \in DOMAIN entities[e].attrs : StoredTypes(entities[e].attrs[k].md)

\* A round after its attributes, with these names to notify or notified.
Outcome(c, doc, names, action, attributes) ==
  /\ Covers(names, c.read, doc, attributes)
  /\ TypedMetadata /\ c.missing # TRUE => AnswerTrue(action, doc, c.read, attributes)

AnswerOf(w) ==
  LET c == cer[w]
      doc == entities[c.key]
      action == req[w].action
      attributes == Element(w).attributes
  IN
  /\ pc[w] \in Midway => /\ AnswerInv(action, c, attributes)
                         /\ action = "delete" => attributes # <<>>
                         /\ pc[w] = "write" => c.todo = <<>>
  /\ pc[w] = "remove" => action = "delete" /\ attributes = <<>>
  /\ pc[w] \in {"notify", "created"} => Outcome(c, doc, c.trigger, action, attributes)
  /\ pc[w] = "respond" =>
       /\ c.status # "ReceiverInternalError" /\ ~(action = "delete" /\ attributes = <<>>) =>
            Covers(c.notified, c.read, doc, attributes)
       /\ TypedMetadata /\ c.status = "Ok" /\ c.missing # TRUE =>
            AnswerTrue(action, doc, c.read, attributes)

LEMMA AnswerElsewhere ==
  ASSUME NEW w \in Workers, pc[w] \in {"idle", "take", "element", "docs", "noDocs"}
  PROVE  AnswerOf(w)
  BY DEF AnswerOf, Midway

LEMMA NextDocAnswer ==
  ASSUME UniqueMetadata, Base, DocsTypes, NEW w \in Workers, NextDoc(w)
  PROVE  AnswerOf(w)'
  <1>1. /\ UNCHANGED <<entities, req>> /\ WorkerOf(w) /\ pc[w] = "docs"
        /\ pc'[w] = IF req[w].action = "delete" /\ Element(w).attributes = <<>>
                      THEN "remove" ELSE "attributes"
    BY DEF NextDoc, Goto, Base, Domains
  <1>2. PICK k \in DOMAIN cursor[w] :
          SetCer(w, [NoCer EXCEPT !.key = k, !.read = cursor[w][k],
                                  !.location = cursor[w][k].location,
                                  !.todo = Element(w).attributes])
    BY DEF NextDoc
  <1>3. PICK c : c = cer'[w]
    OBVIOUS
  <1>4. PICK attributes : attributes = Element(w).attributes
    OBVIOUS
  <1>5. c = [NoCer EXCEPT !.key = k, !.read = cursor[w][k],
                          !.location = cursor[w][k].location, !.todo = attributes]
    BY <1>2, <1>3, <1>4 DEF SetCer, Base, Domains
  <1>6. /\ c.read = cursor[w][k] /\ c.toSet = <<>> /\ c.toUnset = {} /\ c.todo = attributes
        /\ c.trigger = {} /\ c.notified = {}
    BY <1>5 DEF NoCer
  <1>7. attributes \in Seq(Accepted) /\ Distinct(attributes)
    <2>1. req[w].elements # <<>>
      BY <1>1 DEF WorkerOf, RequestShape
    <2> QED BY <1>4, <2>1, AtElement
  <1>8. DOMAIN c.toSet = {}
    BY <1>6
  <1>9. TypesInv(c)
    <2>1. k \in EntityKeys /\ c.read = entities[k]
      BY <1>1, <1>6 DEF WorkerOf, CursorOf
    <2> QED BY <1>8, <2>1 DEF TypesInv, DocsTypes
  <1>10. TodoInv(c, attributes)
    BY <1>6, <1>7, <1>8 DEF TodoInv
  <1>11. TriggerInv(c, attributes)
    BY <1>6, <1>8 DEF TriggerInv, NamesOf
  <1>12. AnswerInv(req[w].action, c, attributes)
    BY <1>6, <1>9, <1>10, <1>11 DEF AnswerInv
  <1>13. Element(w)' = Element(w)
    BY <1>1 DEF Element
  <1> QED BY <1>1, <1>3, <1>4, <1>12, <1>13 DEF AnswerOf, Midway

\* The labels and variables of the steps that answer.
LEMMA RemoveAnswer ==
  ASSUME Base, NEW w \in Workers, RemoveEntity(w), AnswerOf(w)
  PROVE  AnswerOf(w)'
  <1>1. /\ UNCHANGED req /\ pc[w] = "remove" /\ pc'[w] = "respond"
        /\ \/ entities' = [entities EXCEPT ![cer[w].key] = NoEntity] /\ cer'[w] = [cer[w] EXCEPT !.status = "Ok"]
           \/ cer'[w] = [cer[w] EXCEPT !.status = "ReceiverInternalError"]
    BY DEF RemoveEntity, Respond, SetCer, Goto, Base, Domains
  <1>2. DOMAIN cer[w] = CerFields /\ cer[w].key \in EntityKeys /\ DOMAIN entities = EntityKeys
    BY <1>1 DEF Base, Domains, WorkerOf, CerShape, ReadOf
  <1>3. cer'[w].key = cer[w].key /\ cer'[w].status \in {"Ok", "ReceiverInternalError"}
        /\ (cer'[w].status = "Ok" => entities' = [entities EXCEPT ![cer[w].key] = NoEntity])
    BY <1>1, <1>2 DEF CerFields
  <1>4. Element(w)' = Element(w)
    BY <1>1 DEF Element
  <1>5. req[w].action = "delete" /\ Element(w).attributes = <<>>
    BY <1>1 DEF AnswerOf
  <1>6. cer'[w].status = "Ok" => ~entities'[cer'[w].key].exists
    BY <1>2, <1>3 DEF NoEntity
  <1> QED BY <1>1, <1>3, <1>4, <1>5, <1>6 DEF AnswerOf, AnswerTrue, Midway

LEMMA RejectAnswer ==
  ASSUME Base, NEW w \in Workers, RejectAttribute(w), AnswerOf(w)
  PROVE  AnswerOf(w)'
  <1>1. /\ UNCHANGED <<entities, req>> /\ pc[w] = "attributes" /\ pc'[w] = "respond"
        /\ cer'[w] = [cer[w] EXCEPT !.status = "InvalidParameter"]
    BY DEF RejectAttribute, Respond, SetCer, Goto, Base, Domains
  <1>2. DOMAIN cer[w] = CerFields /\ cer[w].read = entities[cer[w].key]
    BY <1>1 DEF Base, WorkerOf, CerShape, ReadOf
  <1>3. /\ cer'[w].key = cer[w].key /\ cer'[w].read = cer[w].read
        /\ cer'[w].notified = cer[w].notified /\ cer'[w].status = "InvalidParameter"
    BY <1>1, <1>2 DEF CerFields
  <1>4. cer[w].notified = {}
    BY <1>1 DEF AnswerOf, AnswerInv, TriggerInv, Midway
  <1>5. \A attributes : Covers(cer'[w].notified, cer'[w].read, entities'[cer'[w].key], attributes)
    BY <1>1, <1>2, <1>3, <1>4, CoversNothing
  <1> QED BY <1>1, <1>3, <1>5 DEF AnswerOf, Midway

LEMMA ProcessFault ==
  ASSUME Base, NEW w \in Workers, ProcessAttribute(w), pc'[w] # "attributes"
  PROVE  cer'[w].status = "ReceiverInternalError"
  <1>1. PICK c : c = [cer[w] EXCEPT !.todo = Tail(@)]
    OBVIOUS
  <1>2. PICK a : a = Head(cer[w].todo)
    OBVIOUS
  <1>3. PICK p : p = Processed(req[w].action, c, a)
    OBVIOUS
  <1>4. /\ pc[w] = "attributes" /\ cer[w].todo # <<>>
        /\ cer'[w] = [p EXCEPT !.status = "ReceiverInternalError"]
    BY <1>1, <1>2, <1>3, ProcessForm
  <1>5. DOMAIN c = CerFields /\ DOMAIN c.location = LocationFields
    <2>1. WithoutIt(c, cer[w])
      BY <1>1, <1>4, AtAttribute
    <2> QED BY <2>1 DEF WithoutIt
  <1>6. req[w].action \in {"update", "append", "delete"}
    BY <1>4 DEF Base, WorkerOf, RequestShape
  <1>7. ProcessedForm(req[w].action, p, c, a)
    BY <1>3, <1>5, <1>6, ProcessedFields
  <1>8. DOMAIN p = CerFields
    BY <1>7 DEF ProcessedForm, Kept
  <1> QED BY <1>4, <1>8 DEF CerFields

LEMMA ProcessAnswerOf ==
  ASSUME UniqueMetadata, Base, NEW w \in Workers, ProcessAttribute(w), AnswerOf(w), RoundOf(w)
  PROVE  AnswerOf(w)'
  <1>1. /\ pc[w] = "attributes" /\ UNCHANGED <<entities, req>>
        /\ pc'[w] \in {"attributes", "respond"}
    <2>1. /\ pc[w] = "attributes" /\ UNCHANGED <<entities, req>>
          /\ UNCHANGED pc \/ Goto(w, "respond")
      BY Zenon DEF ProcessAttribute, Respond
    <2> QED BY <2>1 DEF Goto, Base, Domains
  <1>2. Element(w)' = Element(w)
    BY <1>1 DEF Element
  <1>3. CASE pc'[w] = "attributes"
    <2>1. AnswerInv(req[w].action, cer[w], Element(w).attributes)
          /\ (req[w].action = "delete" => Element(w).attributes # <<>>)
      BY <1>1 DEF AnswerOf, Midway
    <2>2. AnswerInv(req[w].action, cer'[w], Element(w).attributes)
      BY <1>3, <2>1, ProcessAnswer
    <2> QED BY <1>1, <1>2, <1>3, <2>1, <2>2 DEF AnswerOf, Midway
  <1>4. CASE pc'[w] = "respond"
    <2>1. cer'[w].status = "ReceiverInternalError"
      BY <1>4, ProcessFault
    <2> QED BY <1>4, <2>1 DEF AnswerOf, Midway
  <1> QED BY <1>1, <1>3, <1>4

\* AnswerInv does not depend on the status.
LEMMA SameAnswer ==
  ASSUME NEW action, NEW c, NEW old, NEW attributes, AnswerInv(action, old, attributes),
         c.read = old.read, c.todo = old.todo, c.toSet = old.toSet, c.toUnset = old.toUnset,
         c.location = old.location, c.entityModified = old.entityModified,
         c.missing = old.missing, c.trigger = old.trigger, c.notified = old.notified
  PROVE  AnswerInv(action, c, attributes)
  <1>1. NewKeys(c) = NewKeys(old) /\ \A k : Result(c, k) = Result(old, k)
    BY DEF NewKeys, Result
  <1>2. TypesInv(c) /\ TodoInv(c, attributes) /\ TriggerInv(c, attributes)
    BY DEF AnswerInv, TypesInv, TodoInv, TriggerInv
  <1>3. \A a : DoneOne(action, old, a, attributes) => DoneOne(action, c, a, attributes)
    BY <1>1 DEF DoneOne
  <1> QED BY <1>2, <1>3 DEF AnswerInv

LEMMA DoneAnswer ==
  ASSUME Base, NEW w \in Workers, AttributesDone(w), AnswerOf(w)
  PROVE  AnswerOf(w)'
  <1>1. /\ UNCHANGED <<entities, req>> /\ pc[w] = "attributes" /\ cer[w].todo = <<>>
        /\ cer'[w] = [cer[w] EXCEPT !.status = OkIfNone(@)]
        /\ pc'[w] = IF cer[w].entityModified THEN "write" ELSE "respond"
    BY DEF AttributesDone, SetCer, Goto, Base, Domains
  <1>2. /\ DOMAIN cer[w] = CerFields /\ cer[w].read = entities[cer[w].key]
        /\ req[w].action \in {"update", "append", "delete"} /\ req[w].elements # <<>>
    BY <1>1 DEF Base, WorkerOf, CerShape, ReadOf, RequestShape
  <1>3. PICK c : c = cer'[w]
    OBVIOUS
  <1>4. /\ c.key = cer[w].key /\ c.read = cer[w].read /\ c.todo = cer[w].todo
        /\ c.toSet = cer[w].toSet /\ c.toUnset = cer[w].toUnset /\ c.location = cer[w].location
        /\ c.entityModified = cer[w].entityModified /\ c.missing = cer[w].missing
        /\ c.trigger = cer[w].trigger /\ c.notified = cer[w].notified
    BY <1>1, <1>2, <1>3 DEF CerFields
  <1>5. PICK action, attributes : action = req[w].action /\ attributes = Element(w).attributes
    OBVIOUS
  <1>6. action = req'[w].action /\ attributes = Element(w)'.attributes
    BY <1>1, <1>5 DEF Element
  <1>7. AnswerInv(action, cer[w], attributes) /\ (action = "delete" => attributes # <<>>)
    BY <1>1, <1>5 DEF AnswerOf, Midway
  <1>8. AnswerInv(action, c, attributes)
    BY <1>4, <1>7, SameAnswer
  <1>9. CASE pc'[w] = "write"
    BY <1>1, <1>3, <1>4, <1>6, <1>7, <1>8, <1>9 DEF AnswerOf, Midway
  <1>10. CASE pc'[w] = "respond" /\ cer[w].entityModified # TRUE
    <2>1. c.read = entities'[c.key] /\ c.notified = {}
      BY <1>1, <1>2, <1>4, <1>8 DEF AnswerInv, TriggerInv
    <2>2. Covers(c.notified, c.read, entities'[c.key], attributes)
      BY <2>1, CoversNothing
    <2>3. ASSUME TypedMetadata, c.missing # TRUE
          PROVE  AnswerTrue(action, entities'[c.key], c.read, attributes)
      <3>1. attributes \in Seq(Accepted) /\ action \in {"update", "append", "delete"}
        BY <1>2, <1>5, AtElement
      <3>2. AnswerTrue(action, c.read, c.read, attributes)
        BY <1>1, <1>4, <1>7, <1>8, <1>10, <2>3, <3>1, TrueUnmodified
      <3> QED BY <2>1, <3>2
    <2> QED BY <1>3, <1>6, <1>10, <2>2, <2>3 DEF AnswerOf, Midway
  <1> QED BY <1>1, <1>9, <1>10

\* Without a service path that occurs in another the update finds the document
\* that was read.
LEMMA WrittenIs ==
  ASSUME Base, Includes = {}, NEW w \in Workers, WriteEntity(w), pc'[w] = "notify"
  PROVE  /\ UNCHANGED <<cer, req>> /\ entities'[cer[w].key] = Apply(cer[w].read, cer[w])
         /\ entities' = [entities EXCEPT ![cer[w].key] = Apply(cer[w].read, cer[w])]
  <1>1. PICK c : c = cer[w]
    OBVIOUS
  <1>2. /\ c.key \in EntityKeys /\ c.read = entities[c.key] /\ entities[c.key].exists
        /\ DOMAIN entities = EntityKeys
    BY <1>1 DEF WriteEntity, Base, Domains, WorkerOf, ReadOf
  <1>3. Goto(w, "respond") => pc'[w] = "respond"
    BY DEF Goto, Base, Domains
  <1>4. c.key \in UpdateMatches(c.key) /\ \A k \in UpdateMatches(c.key) : k = c.key
    BY <1>2 DEF UpdateMatches, EntityKeys
  <1>5. /\ UNCHANGED <<cer, req>>
        /\ \E k \in UpdateMatches(c.key) : entities' = [entities EXCEPT ![k] = Apply(@, c)]
    <2>1. UpdateMatches(c.key) # {}
      BY <1>4
    <2> QED BY <1>1, <1>3, <2>1, Zenon DEF WriteEntity, Respond
  <1>6. entities' = [entities EXCEPT ![c.key] = Apply(@, c)]
    BY <1>4, <1>5
  <1>7. PICK doc : doc = Apply(c.read, c)
    OBVIOUS
  <1>8. entities' = [entities EXCEPT ![c.key] = doc]
    BY <1>2, <1>6, <1>7
  <1> QED BY <1>1, <1>2, <1>5, <1>7, <1>8

LEMMA WriteAnswer ==
  ASSUME Base, Includes = {}, NEW w \in Workers, WriteEntity(w), AnswerOf(w), RoundOf(w)
  PROVE  AnswerOf(w)'
  <1>1. /\ UNCHANGED req /\ pc[w] = "write"
        /\ \/ pc'[w] = "notify"
           \/ pc'[w] = "respond" /\ cer'[w] = [cer[w] EXCEPT !.status = "ReceiverInternalError"]
    <2>1. /\ UNCHANGED req /\ pc[w] = "write"
          /\ \/ Goto(w, "notify")
             \/ Respond(w, [cer[w] EXCEPT !.status = "ReceiverInternalError"])
      BY Zenon DEF WriteEntity
    <2> QED BY <2>1 DEF Goto, Respond, SetCer, Base, Domains
  <1>2. DOMAIN cer[w] = CerFields
    BY DEF Base, WorkerOf, CerShape
  <1>3. CASE pc'[w] = "respond" /\ cer'[w] = [cer[w] EXCEPT !.status = "ReceiverInternalError"]
    <2>1. cer'[w].status = "ReceiverInternalError"
      BY <1>2, <1>3 DEF CerFields
    <2> QED BY <1>3, <2>1 DEF AnswerOf, Midway
  <1>4. CASE pc'[w] = "notify"
    <2>1. PICK c : c = cer[w]
      OBVIOUS
    <2>2. PICK action, attributes : action = req[w].action /\ attributes = Element(w).attributes
      OBVIOUS
    <2>3. PICK doc : doc = Apply(c.read, c)
      OBVIOUS
    <2>4. cer'[w] = c /\ req'[w].action = action /\ entities'[c.key] = doc
      BY <1>1, <1>4, <2>1, <2>2, <2>3, WrittenIs
    <2>5. Element(w)'.attributes = attributes
      BY <1>1, <2>2 DEF Element
    <2>6. /\ AnswerInv(action, c, attributes) /\ c.todo = <<>>
          /\ (action = "delete" => attributes # <<>>) /\ RoundInv(action, c)
      BY <1>1, <2>1, <2>2 DEF AnswerOf, RoundOf, Midway
    <2>7. action \in {"update", "append", "delete"} /\ DOMAIN c.read = DocFields
      BY <1>1, <2>1, <2>2 DEF Base, WorkerOf, RequestShape, ReadOf, DocShape
    <2>8. Applied(doc, c.read, c)
      BY <2>3, <2>7, ApplyFields
    <2>9. Covers(c.trigger, c.read, doc, attributes)
      BY <2>6, <2>7, <2>8, CoversWrite DEF AnswerInv
    <2>10. TypedMetadata /\ c.missing # TRUE => AnswerTrue(action, doc, c.read, attributes)
      BY <2>6, <2>7, <2>8, TrueWrite
    <2>11. Outcome(c, doc, c.trigger, action, attributes)
      BY <2>9, <2>10 DEF Outcome
    <2> QED BY <1>4, <2>4, <2>5, <2>11 DEF AnswerOf, Midway
  <1> QED BY <1>1, <1>3, <1>4

LEMMA NotifyAnswer ==
  ASSUME Base, NEW w \in Workers, ProcessSubscriptions(w), AnswerOf(w)
  PROVE  AnswerOf(w)'
  <1>1. /\ UNCHANGED <<entities, req>> /\ pc[w] = "notify" /\ pc'[w] = "respond"
        /\ cer'[w] = [cer[w] EXCEPT !.notified = cer[w].trigger, !.status = OkIfNone(@)]
    BY DEF ProcessSubscriptions, Respond, SetCer, Goto, Base, Domains
  <1>2. DOMAIN cer[w] = CerFields
    BY DEF Base, WorkerOf, CerShape
  <1>3. PICK c : c = cer'[w]
    OBVIOUS
  <1>4. /\ c.key = cer[w].key /\ c.read = cer[w].read /\ c.missing = cer[w].missing
        /\ c.notified = cer[w].trigger
    BY <1>1, <1>2, <1>3 DEF CerFields
  <1>5. PICK action, attributes : action = req[w].action /\ attributes = Element(w).attributes
    OBVIOUS
  <1>6. action = req'[w].action /\ attributes = Element(w)'.attributes
    BY <1>1, <1>5 DEF Element
  <1>7. /\ Covers(c.notified, c.read, entities'[c.key], attributes)
        /\ TypedMetadata /\ c.missing # TRUE => AnswerTrue(action, entities'[c.key], c.read, attributes)
    <2>1. Outcome(cer[w], entities[cer[w].key], cer[w].trigger, action, attributes)
      BY <1>1, <1>5 DEF AnswerOf
    <2> QED BY <1>1, <1>4, <2>1 DEF Outcome
  <1> QED BY <1>1, <1>3, <1>6, <1>7 DEF AnswerOf, Midway

LEMMA TriggersAnswer ==
  ASSUME Base, NEW w \in Workers, CreateTriggers(w), AnswerOf(w)
  PROVE  AnswerOf(w)'
  <1>1. /\ UNCHANGED <<entities, req>> /\ pc[w] = "created"
        /\ \/ pc'[w] = "notify" /\ UNCHANGED cer
           \/ pc'[w] = "respond" /\ cer'[w] = [cer[w] EXCEPT !.status = "ReceiverInternalError"]
    BY DEF CreateTriggers, Respond, SetCer, Goto, Base, Domains
  <1>2. DOMAIN cer[w] = CerFields
    BY DEF Base, WorkerOf, CerShape
  <1>3. CASE pc'[w] = "respond" /\ cer'[w] = [cer[w] EXCEPT !.status = "ReceiverInternalError"]
    <2>1. cer'[w].status = "ReceiverInternalError"
      BY <1>2, <1>3 DEF CerFields
    <2> QED BY <1>3, <2>1 DEF AnswerOf, Midway
  <1>4. CASE pc'[w] = "notify" /\ UNCHANGED cer
    <2>1. Element(w)' = Element(w)
      BY <1>1 DEF Element
    <2> QED BY <1>1, <1>4, <2>1 DEF AnswerOf, Midway
  <1> QED BY <1>1, <1>3, <1>4

LEMMA NothingAnswer ==
  ASSUME Base, NEW w \in Workers, NothingToUpdate(w)
  PROVE  AnswerOf(w)'
  <1>1. /\ UNCHANGED <<entities, req>> /\ pc'[w] = "respond"
    BY DEF Base, NothingToUpdate, Respond, Goto, Domains
  <1>2. PICK key, status, read :
          /\ SetCer(w, [NoCer EXCEPT !.key = key, !.read = read, !.missing = TRUE, !.status = status])
          /\ read = entities[key]
    BY Zenon DEF NothingToUpdate, Respond
  <1>3. PICK c : c = [NoCer EXCEPT !.key = key, !.read = read, !.missing = TRUE, !.status = status]
    OBVIOUS
  <1>4. c.key = key /\ c.read = read /\ c.missing = TRUE /\ c.notified = {}
    BY <1>3 DEF NoCer
  <1>5. cer'[w] = c
    BY <1>2, <1>3 DEF SetCer, Base, Domains
  <1>6. cer'[w].key = key /\ cer'[w].read = entities[key] /\ cer'[w].missing = TRUE /\ cer'[w].notified = {}
    BY <1>2, <1>4, <1>5
  <1>7. \A attributes : Covers(cer'[w].notified, cer'[w].read, entities'[cer'[w].key], attributes)
    BY <1>1, <1>6, CoversNothing
  <1> QED BY <1>1, <1>6, <1>7 DEF AnswerOf, Midway

LEMMA CreateAnswer ==
  ASSUME UniqueMetadata, Base, NEW w \in Workers, CreateEntity(w)
  PROVE  AnswerOf(w)'
  <1>1. PICK key : key = <<Element(w).type, req[w].path>>
    OBVIOUS
  <1>2. PICK doc : doc = NewEntity(Element(w).attributes)
    OBVIOUS
  <1>3. Created(w, key, doc)
    BY <1>1, <1>2, CreateForm
  <1>4. PICK c, attributes : c = cer'[w] /\ attributes = Element(w).attributes
    OBVIOUS
  <1>5. /\ UNCHANGED req /\ req[w].action = "append" /\ req[w].elements # <<>>
        /\ c.key = key /\ c.read = entities[key] /\ c.missing = FALSE /\ c.notified = {}
    BY <1>3, <1>4 DEF Created, NewRound, Base, WorkerOf, RequestShape
  <1>6. attributes = Element(w)'.attributes /\ req'[w].action = "append"
    BY <1>4, <1>5 DEF Element
  <1>7. /\ key \in EntityKeys /\ attributes \in Seq(Accepted) /\ Distinct(attributes)
        /\ DOMAIN entities = EntityKeys /\ DocShape(entities[key])
    BY <1>1, <1>4, <1>5, AtElement DEF EntityKeys, Base, Domains
  <1>8. CASE pc'[w] = "created"
    <2>1. /\ c.read = NoEntity /\ entities'[key] = doc
          /\ c.trigger = {attributes[i].name : i \in DOMAIN attributes}
      BY <1>3, <1>4, <1>5, <1>7, <1>8 DEF Created, DocShape
    <2>2. Covers(c.trigger, c.read, doc, attributes)
      BY <1>2, <1>4, <1>7, <2>1, CoversNew
    <2>3. AnswerTrue("append", doc, c.read, attributes)
      BY <1>2, <1>4, <1>7, TrueNew
    <2>4. Outcome(c, entities'[c.key], c.trigger, "append", attributes)
      BY <1>5, <2>1, <2>2, <2>3 DEF Outcome
    <2> QED BY <1>4, <1>6, <1>8, <2>4 DEF AnswerOf, Midway
  <1>9. CASE pc'[w] = "respond" /\ UNCHANGED entities /\ c.status = "InvalidParameter"
    <2>1. Covers(c.notified, c.read, entities'[c.key], attributes)
      BY <1>5, <1>9, CoversNothing
    <2> QED BY <1>4, <1>6, <1>9, <2>1 DEF AnswerOf, Midway
  <1> QED BY <1>3, <1>4, <1>8, <1>9 DEF Created

\* The other steps answer nothing.
LEMMA OtherAnswer ==
  ASSUME Base, NEW w \in Workers,
         \/ ReceiveRequest(w) \/ TakeSem(w) \/ AllDone(w) \/ RefuseElement(w) \/ QueryEntities(w)
         \/ DocsDone(w) \/ ResponsePushed(w)
  PROVE  AnswerOf(w)'
  <1>1. pc'[w] \in {"idle", "take", "element", "docs", "noDocs"}
    BY DEF ReceiveRequest, TakeSem, AllDone, RefuseElement, QueryEntities, DocsDone, ResponsePushed,
       NextElement, Goto, Base, Domains
  <1> QED BY <1>1 DEF AnswerOf, Midway

LEMMA AnswerStep ==
  ASSUME UniqueMetadata, Includes = {}, Base, DocsTypes, NEW w \in Workers,
         ReceiveRequest(w) \/ Step(w), RoundOf(w), AnswerOf(w)
  PROVE  AnswerOf(w)'
  BY NextDocAnswer, RemoveAnswer, RejectAnswer, ProcessAnswerOf, DoneAnswer, WriteAnswer,
     NotifyAnswer, TriggersAnswer, NothingAnswer, CreateAnswer, OtherAnswer DEF Step

Types(doc) == \A k \in DOMAIN doc.attrs : StoredTypes(doc.attrs[k].md)

LEMMA TypesStep ==
  ASSUME UniqueMetadata, Includes = {}, Base, DocsTypes, NEW w \in Workers,
         ReceiveRequest(w) \/ Step(w), AnswerOf(w)
  PROVE  DocsTypes'
  <1>1. DOMAIN entities = EntityKeys /\ \A k \in EntityKeys : Types(entities[k])
    BY DEF Base, Domains, DocsTypes, Types
  <1>2. SUFFICES \A k \in EntityKeys : Types(entities'[k])
    BY DEF DocsTypes, Types
  <1>3. CASE UNCHANGED entities
    BY <1>1, <1>3
  <1>4. CASE RemoveEntity(w)
    <2>1. Types(NoEntity)
      <3>1. DOMAIN NoEntity.attrs = {}
        BY DEF NoEntity
      <3> QED BY <3>1 DEF Types
    <2>2. UNCHANGED entities \/ entities' = [entities EXCEPT ![cer[w].key] = NoEntity]
      BY <1>4 DEF RemoveEntity
    <2> QED BY <1>1, <2>1, <2>2
  <1>5. CASE WriteEntity(w)
    <2>1. pc[w] = "write" /\ (pc'[w] = "notify" \/ UNCHANGED entities)
      <3>1. pc[w] = "write" /\ (Goto(w, "notify") \/ UNCHANGED entities)
        BY <1>5, Zenon DEF WriteEntity
      <3> QED BY <3>1 DEF Goto, Base, Domains
    <2>2. CASE pc'[w] = "notify"
      <3>1. PICK c : c = cer[w]
        OBVIOUS
      <3>2. PICK doc : doc = Apply(c.read, c)
        OBVIOUS
      <3>3. entities' = [entities EXCEPT ![c.key] = doc]
        BY <1>5, <2>2, <3>1, <3>2, WrittenIs
      <3>4. TypesInv(c) /\ DOMAIN c.read = DocFields
        BY <2>1, <3>1 DEF AnswerOf, Midway, AnswerInv, Base, WorkerOf, ReadOf, DocShape
      <3>5. Applied(doc, c.read, c)
        BY <3>2, <3>4, ApplyFields
      <3>6. Types(doc)
        BY <3>4, <3>5 DEF Applied, TypesInv, Types
      <3> QED BY <1>1, <3>3, <3>6
    <2> QED BY <1>3, <2>1, <2>2
  <1>6. CASE CreateEntity(w)
    <2>1. PICK key : key = <<Element(w).type, req[w].path>>
      OBVIOUS
    <2>2. PICK doc : doc = NewEntity(Element(w).attributes)
      OBVIOUS
    <2>3. Created(w, key, doc)
      BY <1>6, <2>1, <2>2, CreateForm
    <2>4. req[w].elements # <<>>
      BY <2>3 DEF Created, Base, WorkerOf, RequestShape
    <2>5. PICK attributes : attributes = Element(w).attributes
      OBVIOUS
    <2>6. attributes \in Seq(Accepted) /\ Distinct(attributes)
      BY <2>4, <2>5, AtElement
    <2>7. /\ DOMAIN doc.attrs = {KeyOf(attributes[i]) : i \in DOMAIN attributes}
          /\ \A i \in DOMAIN attributes : doc.attrs[KeyOf(attributes[i])] = NewAttribute(attributes[i])
      BY <2>2, <2>5, <2>6, NewAttrs
    <2>8. \A i \in DOMAIN attributes : StoredTypes(NewAttribute(attributes[i]).md)
      BY <2>6, NewTypes, ElementOfSeq, LenProperties
    <2>9. Types(doc)
      BY <2>7, <2>8 DEF Types
    <2> QED BY <1>1, <2>3, <2>9 DEF Created
  <1>7. UNCHANGED entities \/ RemoveEntity(w) \/ WriteEntity(w) \/ CreateEntity(w)
    BY Zenon DEF Step, ReceiveRequest, TakeSem, AllDone, RefuseElement, QueryEntities, NextDoc,
       DocsDone, RejectAttribute, ProcessAttribute, AttributesDone,
       ProcessSubscriptions, ResponsePushed, NothingToUpdate, CreateTriggers
  <1> QED BY <1>3, <1>4, <1>5, <1>6, <1>7

AnswersInv == DocsTypes /\ \A w \in Workers : AnswerOf(w)

LEMMA AnswersKeep ==
  ASSUME UniqueMetadata, Includes = {}, Policy \in {"all", "write"}, Base, SemInv, DocsInv, AnswersInv,
         NEW w \in Workers, ReceiveRequest(w) \/ Step(w)
  PROVE  AnswersInv'
  <1>1. DocsTypes' /\ AnswerOf(w)'
    BY AnswerStep, TypesStep DEF AnswersInv, DocsInv
  <1>2. ASSUME NEW v \in Workers \ {w} PROVE AnswerOf(v)'
    <2>1. pc'[v] = pc[v] /\ req'[v] = req[v] /\ cer'[v] = cer[v]
      BY OthersKept DEF Base
    <2>2. Element(v)' = Element(v)
      BY <2>1 DEF Element
    <2>3. CASE UNCHANGED entities
      BY <2>1, <2>2, <2>3 DEF AnswersInv, AnswerOf
    <2>4. CASE pc[w] \in Section
      <3>1. pc[v] \in {"idle", "take"}
        BY <2>4, Alone DEF Base, Domains, Section
      <3> QED BY <2>1, <3>1 DEF AnswerOf, Midway
    <2> QED BY <2>3, <2>4, WorkerStep DEF DocsForm
  <1> QED BY <1>1, <1>2 DEF AnswersInv

LEMMA AnswersAlways ==
  ASSUME UniqueMetadata, Includes = {}, Policy \in {"all", "write"}
  PROVE  Spec => [](Base /\ AnswersInv)
  <1>1. Init => AnswersInv
    <2>1. SUFFICES ASSUME Init PROVE AnswersInv
      OBVIOUS
    <2>2. DOMAIN NoEntity.attrs = {}
      BY DEF NoEntity
    <2>3. DocsTypes
      BY <2>1, <2>2 DEF Init, DocsTypes
    <2>4. \A w \in Workers : AnswerOf(w)
      BY <2>1, AnswerElsewhere DEF Init
    <2> QED BY <2>3, <2>4 DEF AnswersInv
  <1>2. Base /\ SemInv /\ DocsInv /\ AnswersInv /\ [Next]_vars => AnswersInv'
    <2>1. SUFFICES ASSUME AnswersInv, UNCHANGED vars PROVE AnswersInv'
      BY AnswersKeep DEF Next
    <2>2. UNCHANGED <<entities, pc, req, cer>>
      BY <2>1 DEF vars
    <2>3. \A w \in Workers : Element(w)' = Element(w)
      BY <2>2 DEF Element
    <2>4. \A w \in Workers : AnswerOf(w)'
      BY <2>1, <2>2, <2>3 DEF AnswersInv, AnswerOf
    <2>5. DocsTypes'
      BY <2>1, <2>2 DEF AnswersInv, DocsTypes
    <2> QED BY <2>4, <2>5 DEF AnswersInv
  <1> QED BY <1>1, <1>2, DocsAlways, PTL DEF Spec

-----------------------------------------------------------------------------
\* The attributes of the request, as a set and as a sequence.
LEMMA RequestedAre ==
  ASSUME Base, NEW w \in Workers, pc[w] = "respond"
  PROVE  /\ Element(w).attributes \in Seq(Accepted)
         /\ Requested(w) = {} <=> Element(w).attributes = <<>>
  <1>1. req[w].elements # <<>>
    BY DEF Base, WorkerOf, RequestShape
  <1>2. Element(w).attributes \in Seq(Accepted)
    BY <1>1, AtElement
  <1>3. PICK attributes : attributes = Element(w).attributes
    OBVIOUS
  <1>4. Requested(w) = {attributes[i] : i \in DOMAIN attributes}
    BY <1>3 DEF Requested
  <1>5. attributes # <<>> => attributes[1] \in Requested(w)
    <2>1. attributes # <<>> => 1 \in DOMAIN attributes
      BY <1>2, <1>3, TailElements
    <2> QED BY <1>4, <2>1
  <1>6. attributes = <<>> => Requested(w) = {}
    <2>1. attributes = <<>> => DOMAIN attributes = {}
      OBVIOUS
    <2> QED BY <1>4, <2>1
  <1> QED BY <1>2, <1>3, <1>5, <1>6

\* The ONCHANGE subscriptions that are notified are those of the attributes that
\* the request changed, none missed and none in excess (compound values apart),
\* when the metadata of an attribute have different types: updateAttribute,
\* appendAttribute, deleteAttribute and addTriggeredSubscriptions.
THEOREM EntityNotifiedAreChanged ==
  ASSUME Policy \in {"all", "write"}, Includes = {}, UniqueMetadata
  PROVE  Spec => []NotifiedAreChanged
  <1>1. ASSUME Base, AnswersInv PROVE NotifiedAreChanged
    <2>1. SUFFICES ASSUME NEW w \in Workers, pc[w] = "respond", cer[w].status # "ReceiverInternalError",
                          req[w].action = "delete" => Requested(w) # {}
                   PROVE  LET changed == Changed(cer[w].read, entities[cer[w].key]) IN
                          /\ changed \subseteq cer[w].notified
                          /\ \A name \in cer[w].notified \ changed :
                               \E a \in Requested(w) : a.name = name /\ a.value \in Compounds
      BY DEF NotifiedAreChanged
    <2>2. AnswerOf(w) /\ ~(req[w].action = "delete" /\ Element(w).attributes = <<>>)
      BY <1>1, <2>1, RequestedAre DEF AnswersInv
    <2>3. Covers(cer[w].notified, cer[w].read, entities[cer[w].key], Element(w).attributes)
      BY <2>1, <2>2 DEF AnswerOf
    <2>4. \A name \in CompoundNames(Element(w).attributes) :
            \E a \in Requested(w) : a.name = name /\ a.value \in Compounds
      BY DEF CompoundNames, Requested
    <2> QED BY <2>3, <2>4 DEF Covers
  <1> QED BY <1>1, AnswersAlways, PTL

\* A response says Ok only when the entity is now as the request wants it, when
\* the metadata of an attribute have different types and each has one: an element
\* of metadata without type is not compared by equalMetadata.
THEOREM EntityOkMeansDone ==
  ASSUME Policy \in {"all", "write"}, Includes = {}, UniqueMetadata, TypedMetadata
  PROVE  Spec => []OkMeansDone
  <1>1. ASSUME Base, AnswersInv PROVE OkMeansDone
    <2>1. SUFFICES ASSUME NEW w \in Workers, pc[w] = "respond", cer[w].status = "Ok", ~cer[w].missing,
                          NEW doc, doc = entities[cer[w].key]
                   PROVE  IF req[w].action = "delete"
                            THEN IF Requested(w) = {} THEN ~doc.exists
                                 ELSE \A a \in Requested(w) : KeyOf(a) \notin DOMAIN doc.attrs
                            ELSE \A a \in Requested(w) :
                                   /\ KeyOf(a) \in DOMAIN doc.attrs
                                   /\ AsWanted(doc.attrs[KeyOf(a)], a)
                                   /\ req[w].action = "update" /\ doc.location.attrName = a.name
                                        /\ doc # cer[w].read =>
                                        \E b \in Requested(w) : b.name = a.name /\ doc.location.coords = b.value
      BY DEF OkMeansDone, KeyOf, AsWanted
    <2>2. PICK attributes : attributes = Element(w).attributes
      OBVIOUS
    <2>3. Requested(w) = {} <=> attributes = <<>>
      BY <1>1, <2>1, <2>2, RequestedAre
    <2>4. Requested(w) = {attributes[i] : i \in DOMAIN attributes}
      BY <2>2 DEF Requested
    <2>5. AnswerTrue(req[w].action, doc, cer[w].read, attributes)
      BY <1>1, <2>1, <2>2 DEF AnswersInv, AnswerOf
    <2>6. CASE req[w].action = "delete"
      BY <2>3, <2>4, <2>5, <2>6 DEF AnswerTrue
    <2>7. CASE req[w].action # "delete"
      <3>1. SUFFICES ASSUME NEW j \in DOMAIN attributes
                     PROVE  /\ KeyOf(attributes[j]) \in DOMAIN doc.attrs
                            /\ AsWanted(doc.attrs[KeyOf(attributes[j])], attributes[j])
                            /\ req[w].action = "update" /\ doc.location.attrName = attributes[j].name
                                 /\ doc # cer[w].read =>
                                 \E b \in Requested(w) :
                                   b.name = attributes[j].name /\ doc.location.coords = b.value
        BY <2>4, <2>7
      <3>2. /\ KeyOf(attributes[j]) \in DOMAIN doc.attrs
            /\ AsWanted(doc.attrs[KeyOf(attributes[j])], attributes[j])
            /\ req[w].action = "update" /\ doc.location.attrName = attributes[j].name
                 /\ doc # cer[w].read => Follows(doc.location, attributes)
        BY <2>5, <2>7 DEF AnswerTrue
      <3>3. ASSUME Follows(doc.location, attributes), doc.location.attrName = attributes[j].name
            PROVE  \E b \in Requested(w) : b.name = attributes[j].name /\ doc.location.coords = b.value
        BY <2>4, <3>3 DEF Follows
      <3> QED BY <3>2, <3>3
    <2> QED BY <2>6, <2>7
  <1> QED BY <1>1, AnswersAlways, PTL
=============================================================================
