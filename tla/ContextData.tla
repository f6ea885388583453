----------------------------- MODULE ContextData -----------------------------
(***************************************************************************)
(* What mongoUpdateContext and mongoQueryContext do with one collection of *)
(* entities and one of registrations: operators from the collections and a *)
(* request to the new entities and the answer. Module EntityUpdate has the *)
(* steps of the update; here the context providers come in, to which the   *)
(* attributes that are not found are attributed.                           *)
(*                                                                         *)
(* An entity is [id, type, attrs], attrs being a function from             *)
(* <<name, metadata ID>> to values. The collection is the sequence of its  *)
(* entities by creation. Locations, and metadata other than ID, are left   *)
(* out; all entities are on the service path "/".                          *)
(*                                                                         *)
(* What goes wrong during an update is given by its faults: a set of       *)
(* <<operation, id, type, name>>, name being Nothing when the operation is *)
(* not about one attribute. "query", "update", "insert" and "remove" are   *)
(* the calls of the database, "trigger" the search for the subscriptions   *)
(* of an attribute, "refuse" the checks of the location of an attribute    *)
(* ("insert" includes those that createEntity makes). A search in the      *)
(* registrations that fails is logged and is one that finds nothing.       *)
(***************************************************************************)
EXTENDS RegistryQuery

Nothing == ""

\* An attribute of a request or of an answer: pa is its context provider.
Attribute(name, id, value, found) ==
  [name |-> name, id |-> id, value |-> value, found |-> found, pa |-> Nothing]
KeyOf(a) == <<a.name, a.id>>

\* An element of an answer: its entity, its attributes, the providers of the
\* whole entity, and its status code.
ContextElementResponse(en, attributes, code) ==
  [id |-> en.id, type |-> en.type, attributes |-> attributes, apps |-> <<>>, code |-> code,
   prune |-> FALSE]

EntityOf(ce) == [id |-> ce.id, type |-> ce.type, isPattern |-> ce.isPattern]
Names(entity) == {k[1] : k \in DOMAIN entity.attrs}

-----------------------------------------------------------------------------
(* Context providers                                                        *)

someContextElementNotFound(cer) == \E i \in DOMAIN cer.attributes : ~cer.attributes[i].found
someNotFound(cerV) == \E i \in DOMAIN cerV : someContextElementNotFound(cerV[i])

\* What one registration tells of the providers of the attribute.
ProvidersBy(en, name, pa, crr) ==
  LET registered == \E i \in DOMAIN crr.entities :
                      /\ crr.entities[i].id = en.id
                      /\ crr.entities[i].type \in {en.type, AnyType}
  IN  CASE pa.perAttr # Nothing \/ ~registered -> pa
        [] pa.perAttr = Nothing /\ registered /\ crr.attrs = <<>> -> [pa EXCEPT !.perEnt = crr.app]
        [] OTHER -> IF Contains(crr.attrs, name) THEN [pa EXCEPT !.perAttr = crr.app] ELSE pa

\* [perEnt, perAttr]: the first registration of the attribute ends the
\* search; of those of the whole entity the last one before it stays.
cprLookupByAttribute(en, name, crrV) ==
  FoldLeft(LAMBDA pa, crr : ProvidersBy(en, name, pa, crr),
           [perEnt |-> Nothing, perAttr |-> Nothing], crrV)

fillContextProviders(cer, crrV) ==
  LET App(pa) == IF pa.perAttr = Nothing THEN pa.perEnt ELSE pa.perAttr
      Provided(a, app) == [a EXCEPT !.pa = app, !.found = app # Nothing]
      Filled(a) == IF a.found THEN a
                   ELSE Provided(a, App(cprLookupByAttribute(cer, a.name, crrV)))
  IN  [cer EXCEPT !.attributes = [i \in DOMAIN @ |-> Filled(@[i])]]

\* Entities and registrations are on the service path of the request; no
\* registration has expired.
Registrations(regs, enV, attrL) == registrationsQuery(regs, enV, attrL, <<>>, 0, 0, 0).crrV

\* First the registrations of the attributes, then those of the entity.
searchContextProviders(regs, en, attributes, cer) ==
  LET Search(c, attrL) ==
        IF someContextElementNotFound(c)
          THEN fillContextProviders(c, Registrations(regs, <<en>>, attrL)) ELSE c
  IN  Search(Search(cer, [i \in DOMAIN attributes |-> attributes[i].name]), <<>>)

-----------------------------------------------------------------------------
(* Updates                                                                  *)

\* An attribute with and the same attribute without ID do not go together.
legalIdUsage(keys, a) == \A k \in keys : k[1] = a.name => (k[2] = Nothing) = (a.id = Nothing)

Fails(operation, en, name, faults) == <<operation, en.id, en.type, name>> \in faults

With(attrs, k, value) == [x \in DOMAIN attrs \cup {k} |-> IF x = k THEN value ELSE attrs[x]]

\* s: the attributes, those of the answer, the status, whether something was
\* written, and whether the attribute was the last one to be looked at.
ProcessAttribute(action, s, a, en, faults) ==
  LET known == KeyOf(a) \in DOMAIN s.attrs
      changed == ~known \/ s.attrs[KeyOf(a)] # a.value
      Answered(found) == Append(s.answer, Attribute(a.name, a.id, Nothing, found))
      Bad(found) == [s EXCEPT !.answer = Answered(found), !.code = "InvalidParameter"]
      Put == [s EXCEPT !.answer = Answered(TRUE), !.attrs = With(@, KeyOf(a), a.value),
                       !.modified = @ \/ changed]
      Stopped(t, code) == [t EXCEPT !.code = code, !.stop = TRUE]
      \* the location of the attribute, and the subscriptions to its change
      Checked(t, change) ==
        CASE Fails("refuse", en, a.name, faults) -> Stopped(t, "InvalidParameter")
          [] /\ ~Fails("refuse", en, a.name, faults)
             /\ change /\ Fails("trigger", en, a.name, faults) -> Stopped(t, "ReceiverInternalError")
          [] OTHER -> t
  IN  CASE s.stop -> s
        [] action = "UPDATE" /\ ~s.stop ->
             IF known THEN Checked(Put, changed) ELSE Checked(Bad(FALSE), FALSE)
        [] action = "APPEND" /\ ~s.stop ->
             IF legalIdUsage(DOMAIN s.attrs, a) THEN Checked(Put, changed)
             ELSE [Bad(TRUE) EXCEPT !.stop = TRUE]
        [] OTHER ->
             IF known
               THEN Checked([s EXCEPT !.answer = Answered(TRUE), !.modified = TRUE,
                                      !.attrs = [k \in DOMAIN @ \ {KeyOf(a)} |-> @[k]]], TRUE)
               ELSE [Bad(FALSE) EXCEPT !.stop = TRUE]

processContextAttributeVector(entity, action, attributes, faults) ==
  FoldLeft(LAMBDA s, a : ProcessAttribute(action, s, a, entity, faults),
           [attrs |-> entity.attrs, answer |-> <<>>, code |-> "None", modified |-> FALSE,
            stop |-> FALSE], attributes)

\* One entity that the element stands for: [entity, cer], the entity being
\* <<>> when it was removed. No providers are searched for after an update
\* that failed.
UpdateEntity(regs, entity, ce, action, faults) ==
  LET Cer(s) == ContextElementResponse(entity, s.answer, IF s.code = "None" THEN "Ok" ELSE s.code)
      Updated(s) ==
        IF ~s.stop /\ Fails("update", entity, Nothing, faults)
          THEN [entity |-> <<entity>>, cer |-> [Cer(s) EXCEPT !.code = "ReceiverInternalError"]]
          ELSE [entity |-> <<IF s.modified /\ ~s.stop THEN [entity EXCEPT !.attrs = s.attrs]
                             ELSE entity>>,
                cer |-> searchContextProviders(regs, EntityOf(ce), ce.attributes, Cer(s))]
      Removed(failed) ==
        [entity |-> IF failed THEN <<entity>> ELSE <<>>,
         cer |-> ContextElementResponse(entity, <<>>,
                                        IF failed THEN "ReceiverInternalError" ELSE "Ok")]
  IN  IF action = "DELETE" /\ ce.attributes = <<>>
        THEN Removed(Fails("remove", entity, Nothing, faults))
        ELSE Updated(processContextAttributeVector(entity, action, ce.attributes, faults))

\* No entity that the element stands for. When the search for subscriptions
\* fails the entity is already there.
createEntity(store, regs, ce, action, faults) ==
  LET Answer(found, code) ==
        ContextElementResponse(
          ce, [i \in DOMAIN ce.attributes |->
                 Attribute(ce.attributes[i].name, ce.attributes[i].id, Nothing, found)], code)
      legal == \A i \in DOMAIN ce.attributes :
                 legalIdUsage({KeyOf(ce.attributes[j]) : j \in DOMAIN ce.attributes},
                              ce.attributes[i])
      new == [id |-> ce.id, type |-> ce.type,
              attrs |-> [k \in {KeyOf(ce.attributes[i]) : i \in DOMAIN ce.attributes} |->
                           (CHOOSE a \in Range(ce.attributes) : KeyOf(a) = k).value]]
      triggered == \A i \in DOMAIN ce.attributes :
                     ~Fails("trigger", ce, ce.attributes[i].name, faults)
  IN  CASE action = "UPDATE" ->
             [store |-> store,
              cerV |-> <<searchContextProviders(regs, EntityOf(ce), ce.attributes,
                                                Answer(FALSE, "Ok"))>>]
        [] action = "DELETE" ->
             [store |-> store, cerV |-> <<Answer(FALSE, "ContextElementNotFound")>>]
        [] OTHER ->
             IF legal /\ ~Fails("insert", ce, Nothing, faults)
               THEN [store |-> Append(store, new),
                     cerV |-> <<Answer(TRUE, IF triggered THEN "Ok" ELSE "ReceiverInternalError")>>]
               ELSE [store |-> store, cerV |-> <<Answer(TRUE, "InvalidParameter")>>]

\* untyped: the parameter !exist=entity::type was given.
processContextElement(store, regs, ce, action, untyped, faults) ==
  LET Meant(e) == e.id = ce.id /\ ce.type \in {AnyType, e.type} /\ (untyped => e.type = AnyType)
      empty == {i \in DOMAIN ce.attributes : ce.attributes[i].value = Nothing}
      refused == isTrue(ce.isPattern) \/ (action \in {"UPDATE", "APPEND"} /\ empty # {})
      Result(updated, meant) ==
        [store |-> FlattenSeq([i \in DOMAIN store |-> updated[i].entity]),
         cerV |-> [i \in DOMAIN meant |-> updated[meant[i]].cer]]
      \* an empty value: the element is refused with its first such attribute
      refusal == LET a == ce.attributes[CHOOSE i \in empty : \A j \in empty : i <= j]
                 IN  <<ContextElementResponse(
                         ce, <<Attribute(a.name, a.id, a.value, FALSE)>>, "InvalidParameter")>>
  IN  CASE isTrue(ce.isPattern) ->
             [store |-> store, cerV |-> <<ContextElementResponse(ce, <<>>, "NotImplemented")>>]
        [] ~isTrue(ce.isPattern) /\ refused -> [store |-> store, cerV |-> refusal]
        [] ~refused /\ Fails("query", ce, Nothing, faults) ->
             [store |-> store,
              cerV |-> <<ContextElementResponse(ce, <<>>, "ReceiverInternalError")>>]
        [] OTHER ->
             IF \A i \in DOMAIN store : ~Meant(store[i])
               THEN createEntity(store, regs, ce, action, faults)
               ELSE Result([i \in DOMAIN store |->
                              IF Meant(store[i])
                                THEN UpdateEntity(regs, store[i], ce, action, faults)
                                ELSE [entity |-> <<store[i]>>, cer |-> <<>>]],
                           Those([i \in DOMAIN store |-> i], LAMBDA i : Meant(store[i])))

mongoUpdateContext(store, regs, elements, action, untyped, faults) ==
  LET Then(s, r) == [store |-> r.store, cerV |-> s.cerV \o r.cerV]
  IN  FoldLeft(LAMBDA s, ce : Then(s, processContextElement(s.store, regs, ce, action, untyped,
                                                            faults)),
               [store |-> store, cerV |-> <<>>], elements)

-----------------------------------------------------------------------------
(* Queries                                                                  *)

\* filter: "empty" or "notEmpty" for the scope about the type of the entity.
fillQueryEntity(entity, en) ==
  /\ IF en.isPattern = "true" THEN Like(en.id, entity.id) ELSE entity.id = en.id
  /\ en.type \in {AnyType, entity.type}

addFilterScope(entity, filter) ==
  CASE filter = "empty" -> entity.type = AnyType
    [] filter = "notEmpty" -> entity.type # AnyType
    [] OTHER -> TRUE

Missing(names) == [i \in DOMAIN names |-> Attribute(names[i], Nothing, Nothing, FALSE)]

\* The query that goes to the database.
EntitySelected(e, enV, attrL, filter) ==
  /\ \E i \in DOMAIN enV : fillQueryEntity(e, enV[i])
  /\ attrL # <<>> => Names(e) \intersect Range(attrL) # {}
  /\ addFilterScope(e, filter)

\* The attributes of a document, with their metadata ID.
AttributesOf(e, attrL) ==
  LET Of(ks) == [i \in DOMAIN ks |-> Attribute(ks[i][1], ks[i][2], e.attrs[ks[i]], TRUE)]
  IN  Of(SetToSeq({k \in DOMAIN e.attrs : includedAttribute(k[1], attrL)}))

\* An entity that is not there is in the answer too, to be pruned if no
\* provider has it.
AbsentEntities(selected, enV, attrL) ==
  LET NotThere(en) == /\ en.isPattern # "true"
                      /\ \A i \in DOMAIN selected : ~(selected[i].id = en.id
                                                      /\ selected[i].type = en.type)
      absent == Those(enV, NotThere)
  IN  [i \in DOMAIN absent |->
         [ContextElementResponse(absent[i], Missing(attrL), "Ok") EXCEPT !.prune = TRUE]]

\* What was asked for and is not there is in the answer, as not found.
entitiesQuery(store, enV, attrL, filter) ==
  LET Found(e) == ContextElementResponse(
                    e, AttributesOf(e, attrL) \o
                       Missing(Those(attrL, LAMBDA n : n \notin Names(e))), "Ok")
      Answer(selected) == [i \in DOMAIN selected |-> Found(selected[i])] \o
                          AbsentEntities(selected, enV, attrL)
  IN  Answer(Those(store, LAMBDA e : EntitySelected(e, enV, attrL, filter)))

\* The elements, with a new one for the entity if it has none, and its place.
WithElement(cerV, en) ==
  IF \E i \in DOMAIN cerV : cerV[i].id = en.id /\ cerV[i].type = en.type THEN cerV
  ELSE Append(cerV, ContextElementResponse(en, <<>>, "Ok"))
ElementOf(cerV, en) ==
  LET at == {i \in DOMAIN cerV : cerV[i].id = en.id /\ cerV[i].type = en.type}
  IN  CHOOSE i \in at : \A j \in at : i <= j

addContextProviderEntity(cerV, en, app) ==
  LET Added(cs) == [cs EXCEPT ![ElementOf(cs, en)].apps = Append(@, app)]
  IN  Added(WithElement(cerV, en))

addContextProviderAttribute(cerV, en, name, app) ==
  LET new == [Attribute(name, Nothing, Nothing, TRUE) EXCEPT !.pa = app]
      Added(cs, n) ==
        IF \E i \in DOMAIN cs[n].attributes : cs[n].attributes[i].name = name THEN cs
        ELSE [cs EXCEPT ![n].attributes = Append(@, new)]
      At(cs) == Added(cs, ElementOf(cs, en))
  IN  At(WithElement(cerV, en))

matchEntityInCrr(crr, en) == \E i \in DOMAIN crr.entities : matchEntity(crr.entities[i], en)

\* The registration, and one entity of it.
AddProviderOf(cerV, en, crr) ==
  IF crr.attrs = <<>> THEN addContextProviderEntity(cerV, en, crr.app)
  ELSE FoldLeft(LAMBDA cs, name : addContextProviderAttribute(cs, en, name, crr.app),
                cerV, crr.attrs)
AddProvider(cerV, crr) == FoldLeft(LAMBDA cs, en : AddProviderOf(cs, en, crr), cerV, crr.entities)

addContextProviders(cerV, crrV) == FoldLeft(AddProvider, cerV, crrV)

\* The entities of the request that may stand for several.
processGenericEntities(enV, cerV, crrV) ==
  FoldLeft(LAMBDA cs, en : addContextProviders(
                             cs, Those(crrV, LAMBDA crr : matchEntityInCrr(crr, en))),
           cerV, Those(enV, LAMBDA en : en.type = AnyType \/ isTrue(en.isPattern)))

pruneContextElements(cerV) ==
  LET Pruned(cer) == [cer EXCEPT !.attributes = Those(@, LAMBDA a : a.found)]
  IN  Those([i \in DOMAIN cerV |-> Pruned(cerV[i])],
                LAMBDA cer : ~cer.prune \/ cer.attributes # <<>> \/ cer.apps # <<>>)

\* The second half of mongoQueryContext: what entitiesQuery found is completed
\* from the registrations, in four lookups. The first one is made when there
\* was nothing at all, the fourth one when no attribute was named.
Lookups == 1..4

Lookup(n, cerV, regs, enV, attrL) ==
  LET Fill(crrV) == [i \in DOMAIN cerV |-> fillContextProviders(cerV[i], crrV)]
      Completed(crrV) ==
        CASE n = 1 -> IF cerV = <<>> THEN processGenericEntities(enV, cerV, crrV) ELSE cerV
          [] n = 2 -> IF someNotFound(cerV) /\ crrV # <<>>
                        THEN processGenericEntities(enV, Fill(crrV), crrV) ELSE cerV
          [] n = 3 -> IF someNotFound(cerV) THEN Fill(crrV) ELSE cerV
          [] n = 4 -> IF attrL = <<>> THEN addContextProviders(cerV, crrV) ELSE cerV
  IN  Completed(Registrations(regs, enV, IF n = 3 THEN <<>> ELSE attrL))

mongoQueryContext(store, regs, enV, attrL, filter) ==
  pruneContextElements(
    FoldLeft(LAMBDA cerV, n : Lookup(n, cerV, regs, enV, attrL),
             entitiesQuery(store, enV, attrL, filter), <<1, 2, 3, 4>>))

-----------------------------------------------------------------------------
(* Answers: a code and, if that is Ok, the elements                         *)

UpdateContextResponse(code, cerV) ==
  CASE code # "Ok" -> [code |-> code, cerV |-> <<>>]
    [] code = "Ok" /\ cerV = <<>> -> [code |-> "ContextElementNotFound", cerV |-> <<>>]
    [] OTHER -> [code |-> "Ok", cerV |-> cerV]

\* What was not found is answered in an element of its own.
foundAndNotFoundAttributeSeparation(cerV) ==
  LET Some(cer, found) == Those(cer.attributes, LAMBDA a : a.found = found)
      Mixed(cer) == Some(cer, TRUE) # <<>> /\ Some(cer, FALSE) # <<>>
      Kept(cer) ==
        CASE Mixed(cer) -> [cer EXCEPT !.attributes = Some(cer, TRUE), !.code = "Ok"]
          [] ~Mixed(cer) /\ Some(cer, FALSE) # <<>> /\ cer.code = "Ok" ->
               [cer EXCEPT !.code = "ContextElementNotFound"]
          [] OTHER -> cer
      mixed == Those(cerV, Mixed)
  IN  [i \in DOMAIN cerV |-> Kept(cerV[i])] \o
      [i \in DOMAIN mixed |->
         ContextElementResponse(mixed[i], Some(mixed[i], FALSE), "ContextElementNotFound")]
=============================================================================
