---------------------------- MODULE RegistryQuery ----------------------------
(***************************************************************************)
(* How the broker looks registrations up: registrationsQuery of            *)
(* lib/mongoBackend/MongoGlobal.cpp and the matching functions below it.   *)
(* The query that goes to the database selects whole registration          *)
(* documents; what it returns is filtered again, context registration by   *)
(* context registration.                                                   *)
(*                                                                         *)
(* An entity is [id, type, isPattern], with the text of isPattern; a       *)
(* service path is the sequence of its components, <<>> for "/".           *)
(***************************************************************************)
EXTENDS Naturals, Sequences, SequencesExt, FiniteSets

CONSTANT Regex   \* <<pattern, id>>: the regular expression matches the id

\* The elements of s that pass the test, in their order.
Those(s, Test(_)) == FlattenSeq([i \in DOMAIN s |-> IF Test(s[i]) THEN <<s[i]>> ELSE <<>>])

IsSeq(s) == s \in Seq(Range(s))

AnyType == ""
isTrue(text) == text \in {"true", "1"}
isFalse(text) == text \in {"false", "0"}

\* regexec(pattern, id), and the regular expressions of the database.
Like(pattern, id) == <<pattern, id>> \in Regex

-----------------------------------------------------------------------------
(* Matching                                                                 *)

matchEntity(en1, en2) ==
  /\ IF isTrue(en2.isPattern) THEN Like(en2.id, en1.id) ELSE en2.id = en1.id
  /\ en1.type = AnyType \/ en2.type = AnyType \/ en2.type = en1.type

includedEntity(en, entityIdV) == \E i \in DOMAIN entityIdV : matchEntity(en, entityIdV[i])

includedAttribute(name, attrsV) == attrsV = <<>> \/ Contains(attrsV, name)

\* A path of a request is [path, recursive]: "/a" or "/a/#". No path at all
\* means every path.
fillQueryServicePath(servicePathV, path) ==
  \/ servicePathV = <<>>
  \/ \E i \in DOMAIN servicePathV :
       \/ servicePathV[i].path = path
       \/ servicePathV[i].recursive /\ IsPrefix(servicePathV[i].path, path)

-----------------------------------------------------------------------------
(* The elements of an answer                                                *)

processEntity(enV, stored) ==
  IF includedEntity([id |-> stored.id, type |-> stored.type, isPattern |-> "false"], enV)
    THEN <<[id |-> stored.id, type |-> stored.type, isPattern |-> "false"]>>
    ELSE <<>>

processAttribute(attrL, name) == IF includedAttribute(name, attrL) THEN <<name>> ELSE <<>>

\* <<>> or the one response that the context registration gives.
processContextRegistrationElement(cr, enV, attrL) ==
  LET Response(entities, attrs) ==
        IF entities # <<>> /\ (attrs # <<>> \/ attrL = <<>>)
          THEN <<[entities |-> entities, attrs |-> attrs, app |-> cr.app]>>
          ELSE <<>>
  IN  Response(FlattenSeq([i \in DOMAIN cr.entities |-> processEntity(enV, cr.entities[i])]),
               FlattenSeq([i \in DOMAIN cr.attrs |-> processAttribute(attrL, cr.attrs[i])]))

-----------------------------------------------------------------------------
(* The query                                                                *)

Stored(doc) == UNION {Range(doc.crs[i].entities) : i \in DOMAIN doc.crs}
StoredAttrs(doc) == UNION {Range(doc.crs[i].attrs) : i \in DOMAIN doc.crs}

\* The entity part. A field of an array element is compared with the elements
\* one field at a time: id and type of a pattern may match different entities.
\* An entity with a type is compared as a whole.
EntityOr(doc, en) ==
  CASE isTrue(en.isPattern) ->
         /\ \E s \in Stored(doc) : Like(en.id, s.id)
         /\ en.type = AnyType \/ \E s \in Stored(doc) : s.type = en.type
    [] ~isTrue(en.isPattern) /\ en.type = AnyType -> \E s \in Stored(doc) : s.id = en.id
    [] OTHER -> \E s \in Stored(doc) : s.id = en.id /\ s.type = en.type

QueryMatches(doc, enV, attrL, servicePathV, now) ==
  /\ \E i \in DOMAIN enV : EntityOr(doc, enV[i])
  /\ doc.expiration > now
  /\ attrL # <<>> => StoredAttrs(doc) \intersect Range(attrL) # {}
  /\ fillQueryServicePath(servicePathV, doc.path)

\* A page of a result: limit 0 is no limit.
Page(docs, offset, limit) ==
  SubSeq(docs, offset + 1, IF limit = 0 \/ offset + limit > Len(docs)
                           THEN Len(docs) ELSE offset + limit)

\* docs: the registration documents in the order of their _id.
registrationsQuery(docs, enV, attrL, servicePathV, now, offset, limit) ==
  LET Elements(doc) ==
        FlattenSeq([i \in DOMAIN doc.crs |->
                      processContextRegistrationElement(doc.crs[i], enV, attrL)])
      All(page) == FlattenSeq([i \in DOMAIN page |-> Elements(page[i])])
      Answer(found) == [count |-> Len(found), crrV |-> All(Page(found, offset, limit))]
  IN  Answer(Those(docs, LAMBDA doc : QueryMatches(doc, enV, attrL, servicePathV, now)))

=============================================================================
