----------------------------- MODULE ParseData ------------------------------
(***************************************************************************)
(* The parse engines of lib/xmlParse and lib/jsonParse. A document is the  *)
(* sequence of its nodes, in document order, each [path, value, attrs]:    *)
(* path is the sequence of the names from the root to the node, and attrs  *)
(* its XML attributes (name |-> value). A node without a name, an item of  *)
(* a JSON array, has the name Unnamed.                                     *)
(*                                                                         *)
(* The engine looks every node up in the parse vector of the request and   *)
(* calls the handler of its row. A handler is given here by its effect on  *)
(* the parse data: the request under construction ("res") and the          *)
(* pointers to the objects added last.                                     *)
(*                                                                         *)
(* Where a value is kept in the request is a location: the sequence of the *)
(* field names and of the positions in vectors that lead to it.            *)
(***************************************************************************)
EXTENDS Naturals, Sequences, SequencesExt

CONSTANT Forbidden   \* texts with a character that forbiddenChars refuses

Unnamed == ""
isTrue(text) == text \in {"true", "1"}
isFalse(text) == text \in {"false", "0"}
isBool(text) == isTrue(text) \/ isFalse(text)
FIWARE_LOCATION == "FIWARE::Location"
BothNames == {FIWARE_LOCATION, "FIWARE_Location"}
NewName == {FIWARE_LOCATION}

-----------------------------------------------------------------------------
(* Rows of a parse vector: the handlers of the nodes below one path         *)

At(parent, handlers) ==
  [path \in {Append(parent, name) : name \in DOMAIN handlers} |-> handlers[Last(path)]]

-----------------------------------------------------------------------------
(* Effects of handlers. p and q are names of pointers, f and l fields       *)

Null == [op |-> "null"]
Set(p, f) == [op |-> "set", p |-> p, f |-> f]
SetIfNew(p, f) == [op |-> "setIfNew", p |-> p, f |-> f]
SetBool(p, f) == [op |-> "setBool", p |-> p, f |-> f]
SetFalse(p, f) == [op |-> "setFalse", p |-> p, f |-> f]
SetOrErr(p, f) == [op |-> "setOrErr", p |-> p, f |-> f]
SetBoolOrErr(p, f) == [op |-> "setBoolOrErr", p |-> p, f |-> f]
SetNonEmpty(p, f) == [op |-> "setNonEmpty", p |-> p, f |-> f]
Push(p, f) == [op |-> "push", p |-> p, f |-> f]
PushNonEmpty(p, f) == [op |-> "pushNonEmpty", p |-> p, f |-> f]
New(q, p, l) == [op |-> "new", q |-> q, p |-> p, f |-> l]
NewEntity(q, p, l) == [op |-> "newEntity", q |-> q, p |-> p, f |-> l]
NewXmlEntity(q, p, l) == [op |-> "newXmlEntity", q |-> q, p |-> p, f |-> l]
NewWith(q, p, l, r, f) == [op |-> "newWith", q |-> q, p |-> p, f |-> l, r |-> r, rf |-> f]
XmlEntity(p, f) == [op |-> "xmlEntity", p |-> p, f |-> f]
Val(p) == [op |-> "val", p |-> p, f |-> <<"value">>]
Count(p, f) == [op |-> "count", p |-> p, f |-> f]
Area(p, type) == [op |-> "area", p |-> p, f |-> <<"areaType">>, type |-> type]
Fill(p, f) == [op |-> "fill", p |-> p, f |-> f]
ScopeValue(p, names) == [op |-> "scopeValue", p |-> p, f |-> <<"value">>, names |-> names]
Once(p, f) == [op |-> "once", p |-> p, f |-> f]

-----------------------------------------------------------------------------
(* The parse data                                                           *)

NULL == <<"NULL">>
NothingStored == [loc \in {} |-> ""]

\* val: texts by location; len: sizes of the vectors (and the counters);
\* compound: compound values by the location of their attribute; dead: the
\* parser has read through a null pointer, and the process is gone.
InitData(pointers) ==
  [val |-> NothingStored, len |-> [loc \in {} |-> 0], compound |-> [loc \in {} |-> <<>>],
   ptr |-> ("res" :> <<>>) @@ [p \in pointers |-> NULL],
   lastContextAttribute |-> NULL, errorString |-> FALSE, bad |-> FALSE, dead |-> FALSE]

Text(pd, loc) == IF loc \in DOMAIN pd.val THEN pd.val[loc] ELSE ""
Size(pd, loc) == IF loc \in DOMAIN pd.len THEN pd.len[loc] ELSE 0
Item(loc, i) == Append(loc, ToString(i))
Items(pd, loc) == {Item(loc, i) : i \in 1 .. Size(pd, loc)}

Where(pd, e) == pd.ptr[e.p] \o e.f
Store(pd, loc, text) == [pd EXCEPT !.val = (loc :> text) @@ @]
Grown(pd, loc) == [pd EXCEPT !.len = (loc :> Size(pd, loc) + 1) @@ @]
Point(pd, q, loc) == [pd EXCEPT !.ptr = (q :> loc) @@ @]
Err(pd) == [pd EXCEPT !.errorString = TRUE]
ErrIf(pd, condition) == IF condition THEN Err(pd) ELSE pd

Added(pd, e) ==
  LET loc == Where(pd, e) IN Point(Grown(pd, loc), e.q, Item(loc, Size(pd, loc) + 1))

\* entityIdParse: an attribute other than type and isPattern is an error.
entityIdParse(pd, loc, attrs) ==
  LET known == DOMAIN attrs \intersect {"type", "isPattern"}
      stored == [l \in {Append(loc, name) : name \in known} |-> attrs[Last(l)]]
  IN  ErrIf([pd EXCEPT !.val = stored @@ @], DOMAIN attrs # known)

\* What the handler with effect e does with a node.
Treat(pd, e, node) ==
  LET loc == Where(pd, e)
      v == node.value
  IN  CASE e.op = "null" -> pd
        [] e.op = "set" -> Store(pd, loc, v)
        [] e.op = "setIfNew" -> IF pd.ptr[e.p] = NULL THEN Err(pd) ELSE Store(pd, loc, v)
        [] e.op = "setBool" -> IF isBool(v) THEN Store(pd, loc, v) ELSE pd
        [] e.op = "setFalse" -> IF isFalse(v) THEN Store(pd, loc, v) ELSE pd
        [] e.op = "setOrErr" -> ErrIf(Store(pd, loc, v), ~isBool(v))
        [] e.op = "setBoolOrErr" -> IF isBool(v) THEN Store(pd, loc, v) ELSE Err(pd)
        [] e.op = "setNonEmpty" -> ErrIf(Store(pd, loc, v), v = "")
        [] e.op = "push" -> Store(Grown(pd, loc), Item(loc, Size(pd, loc) + 1), v)
        [] e.op = "pushNonEmpty" ->
             ErrIf(Store(Grown(pd, loc), Item(loc, Size(pd, loc) + 1), v), v = "")
        [] e.op = "new" -> Added(pd, e)
        [] e.op = "newEntity" ->
             LET new == Added(pd, e) IN Store(new, Append(new.ptr[e.q], "isPattern"), "false")
        [] e.op = "newXmlEntity" ->
             LET new == Added(pd, e) IN entityIdParse(new, new.ptr[e.q], node.attrs)
        [] e.op = "newWith" ->
             LET new == Added(pd, e) IN Point(new, e.r, new.ptr[e.q] \o e.rf)
        [] e.op = "xmlEntity" -> entityIdParse(pd, loc, node.attrs)
        [] e.op = "val" -> [Store(pd, loc, v) EXCEPT !.lastContextAttribute = pd.ptr[e.p]]
        [] e.op = "count" -> Grown(pd, loc)
        [] e.op = "area" -> Store(pd, loc, e.type)
        [] e.op = "fill" ->
             Store(Store(Store(pd, Append(loc, "id"), ""), Append(loc, "type"), ""),
                   Append(loc, "isPattern"), "false")
        [] e.op = "scopeValue" ->
             Store(pd, loc, IF Text(pd, Append(pd.ptr[e.p], "type")) \in e.names
                            THEN FIWARE_LOCATION ELSE v)
        [] e.op = "once" -> IF Text(pd, loc) = "true" THEN Err(pd) ELSE Store(pd, loc, "true")

-----------------------------------------------------------------------------
(* Walking over a document                                                  *)

\* The last node below node i: those that follow it with a longer path.
EndOf(doc, i) ==
  LET Below(k) == \A j \in i + 1 .. k : Len(doc[j].path) > Len(doc[i].path)
  IN  CHOOSE k \in i .. Len(doc) : Below(k) /\ (k < Len(doc) => ~Below(k + 1))

\* Step(s, i) treats node i. s is [pd, skip, stop]: the nodes up to skip were
\* dealt with already, or are not looked at; stop ends the parse.
Walk(doc, pd, Step(_, _)) ==
  LET s[i \in 0 .. Len(doc)] ==
        IF i = 0 THEN [pd |-> pd, skip |-> 0, stop |-> FALSE]
        ELSE LET Next1(before) == IF before.stop \/ i <= before.skip THEN before
                                  ELSE Step(before, i)
             IN  Next1(s[i - 1])
  IN  s[Len(doc)].pd

BadRequest(pd) == [pd EXCEPT !.bad = TRUE]
BadIf(pd, condition) == IF condition THEN BadRequest(pd) ELSE pd

-----------------------------------------------------------------------------
(* Compound values: the nodes of the tree in document order, each [path,    *)
(* type, value], with the path relative to the root, whose path is <<>>     *)

ChildrenOf(tree, i) ==
  {k \in i + 1 .. EndOf(tree, i) : Len(tree[k].path) = Len(tree[i].path) + 1}

\* CompoundValueNode::check: the items of a vector have one name, the fields
\* of an object different ones.
CompoundOK(tree) ==
  \A i \in DOMAIN tree : \A j, k \in ChildrenOf(tree, i) :
    CASE tree[i].type = "Vector" -> Last(tree[j].path) = Last(tree[k].path)
      [] tree[i].type = "Object" -> j # k => Last(tree[j].path) # Last(tree[k].path)
      [] OTHER -> TRUE

\* Mutant: the tree is not checked.
compoundValueEndUnchecked(pd, tree, owner) == [pd EXCEPT !.compound = (owner :> tree) @@ @]

\* Mutant: only the first level of the tree is kept.
compoundValueEndShallow(pd, tree, owner) ==
  LET Kept(node) == Len(node.path) < 2
  IN  BadIf([pd EXCEPT !.compound = (owner :> SelectSeq(tree, Kept)) @@ @], ~CompoundOK(tree))

\* The tree is given to the attribute whose value was met last; for an
\* updateContextAttributeRequest, to the request itself.
compoundValueEnd(pd, tree, owner) ==
  BadIf([pd EXCEPT !.compound = (owner :> tree) @@ @], ~CompoundOK(tree))

\* xmlTypeAttributeGet: the type of a container is told by its attribute type.
xmlTypeAttributeGet(node) ==
  IF DOMAIN node.attrs = {} THEN ""
  ELSE IF DOMAIN node.attrs = {"type"} THEN node.attrs["type"] ELSE "unknown attribute"

XmlContainer(node) ==
  CASE xmlTypeAttributeGet(node) = "vector" -> "Vector"
    [] xmlTypeAttributeGet(node) = "" -> "Object"
    [] OTHER -> "Bad"

RelativePath(node, root) == SubSeq(node.path, Len(root.path) + 1, Len(node.path))

\* eatCompound of the XML parser. Nothing is added for a node that is refused.
\* Of a root that is refused there is no tree, and compoundValueEnd calls
\* finish() on it all the same.
xmlEatCompound(pd, doc, i, owner) ==
  LET nodes == SubSeq(doc, i, EndOf(doc, i))
      root == doc[i]
      Type(n) == IF n.value # "" /\ n # root THEN "String" ELSE XmlContainer(n)
      Refused(n) == Type(n) = "Bad" \/ (Type(n) = "String" /\ n.value \in Forbidden)
      tree == [k \in DOMAIN nodes |-> [path |-> RelativePath(nodes[k], root),
                                      type |-> Type(nodes[k]), value |-> nodes[k].value]]
  IN  IF Type(root) = "Bad" THEN [BadRequest(pd) EXCEPT !.dead = TRUE]
      ELSE BadIf(compoundValueEnd(pd, tree, owner), \E k \in DOMAIN nodes : Refused(nodes[k]))

\* eatCompound of the JSON parser: an item without a name makes its container
\* a vector, an item that is the empty string does not; a field that is the
\* empty string becomes an empty object.
jsonEatCompound(pd, doc, i, owner) ==
  LET nodes == SubSeq(doc, i, EndOf(doc, i))
      root == doc[i]
      Leaf(k) == EndOf(nodes, k) = k
      Nameless(k) == Last(nodes[k].path) = Unnamed
      Children(k) == ChildrenOf(nodes, k)
      Type(k) ==
        CASE k # 1 /\ (nodes[k].value # "" \/ (Nameless(k) /\ Leaf(k))) -> "String"
          [] \E c \in Children(k) : Nameless(c) /\ ~(Leaf(c) /\ nodes[c].value = "") -> "Vector"
          [] OTHER -> "Object"
      Named(path) == [j \in DOMAIN path |-> IF path[j] = Unnamed THEN "item" ELSE path[j]]
      tree == [k \in DOMAIN nodes |-> [path |-> Named(RelativePath(nodes[k], root)),
                                      type |-> Type(k), value |-> nodes[k].value]]
  IN  BadIf(compoundValueEnd(pd, tree, owner),
            \E k \in DOMAIN nodes : ~Nameless(k) /\ nodes[k].value \in Forbidden)

\* Mutant: an attribute owns the tree only if its type was met before.
OwnerTyped(pd, parser) ==
  IF parser.keyword = "updateContextAttributeRequest" THEN <<>>
  ELSE IF Text(pd, Append(pd.lastContextAttribute, "type")) = "" THEN NULL
  ELSE pd.lastContextAttribute

Owner(pd, parser) ==
  IF parser.keyword = "updateContextAttributeRequest" THEN <<>> ELSE pd.lastContextAttribute

-----------------------------------------------------------------------------
(* The XML parser                                                           *)

compoundValueRootV ==
  {<<"updateContextRequest", "contextElementList", "contextElement", "contextAttributeList",
     "contextAttribute", "contextValue">>,
   <<"appendContextElementRequest", "contextAttributeList", "contextAttribute", "contextValue">>,
   <<"updateContextElementRequest", "contextAttributeList", "contextAttribute", "contextValue">>,
   <<"updateContextAttributeRequest", "contextValue">>,
   <<"notifyContextRequest", "contextResponseList", "contextElementResponse", "contextElement",
     "contextAttributeList", "contextAttribute", "contextValue">>}

isCompoundValuePath(path) == \E root \in compoundValueRootV : IsPrefix(root, path)

\* The texts of a node that are looked at for forbidden characters: those of
\* its attributes, or its value when it has none.
XmlForbidden(node) ==
  IF DOMAIN node.attrs = {} THEN node.value \in Forbidden
  ELSE \E name \in DOMAIN node.attrs : node.attrs[name] \in Forbidden

HandlerOf(parser, path) ==
  LET name == parser.vector[path]
  IN  IF name = "nullTreat" THEN Null ELSE parser.handlers[name]

\* A handler that reports an error is only logged.
xmlTreatNode(pd, node, parser) ==
  CASE node.path \notin DOMAIN parser.vector -> pd
    [] node.path \in DOMAIN parser.vector /\ XmlForbidden(node) -> BadRequest(pd)
    [] OTHER -> Treat(pd, HandlerOf(parser, node.path), node)

\* An unknown node is an error and what is below it is not looked at; the
\* nodes after it are.
xmlParse(doc, parser) ==
  LET Step(s, i) ==
        LET node == doc[i]
            pd == xmlTreatNode(s.pd, node, parser)
        IN  IF isCompoundValuePath(node.path) /\ node.value = "" /\ EndOf(doc, i) > i
              THEN LET eaten == xmlEatCompound(pd, doc, i, Owner(pd, parser))
                   IN  [s EXCEPT !.pd = eaten, !.skip = EndOf(doc, i), !.stop = eaten.dead]
            ELSE IF node.path \notin DOMAIN parser.vector
              THEN [s EXCEPT !.pd = BadRequest(pd), !.skip = EndOf(doc, i)]
            ELSE [s EXCEPT !.pd = pd]
  IN  Walk(doc, InitData(parser.init), Step)

-----------------------------------------------------------------------------
(* The JSON parser                                                          *)

compoundRootV ==
  {<<"contextElements", "contextElement", "attributes", "attribute", "value">>,
   <<"attributes", "attribute", "value">>,
   <<"contextResponses", "contextResponse", "contextElement", "attributes", "attribute", "value">>,
   <<"value">>}

isCompoundPath(path) == \E root \in compoundRootV : IsPrefix(root, path)

\* getArrayElementName: the name without its last letter, "ie" at the end
\* being replaced by "y". The names of the arrays of the requests.
getArrayElementName ==
  [contextElements |-> "contextElement", attributes |-> "attribute", entities |-> "entity",
   metadatas |-> "metadata", domainMetadatas |-> "domainMetadata", scopes |-> "scope",
   vertices |-> "vertice", condValues |-> "condValue", notifyConditions |-> "notifyCondition",
   contextRegistrations |-> "contextRegistration", contextResponses |-> "contextResponse",
   contextRegistrationResponses |-> "contextRegistrationResponse",
   attributeAssociations |-> "attributeAssociation",
   attributeDomains |-> "attributeDomain", values |-> "value"]

IsArrayName(name) == name \in DOMAIN getArrayElementName

\* The path that is looked up: an item without a name has that of its array.
jsonPath(path) ==
  [k \in DOMAIN path |->
     IF path[k] # Unnamed THEN path[k]
     ELSE IF k > 1 /\ IsArrayName(path[k - 1]) THEN getArrayElementName[path[k - 1]]
     ELSE "unknown"]

\* A field named like the items of the array it is in is an exception.
ItemNamed(path) ==
  /\ Len(path) > 1 /\ Last(path) # Unnamed
  /\ LET array == path[Len(path) - 1]
     IN  IsArrayName(array) /\ Last(path) = getArrayElementName[array]

\* The answer of a handler is not looked at.
jsonTreatNode(pd, path, node, parser) ==
  IF path \in DOMAIN parser.vector /\ node.value \notin Forbidden
    THEN Treat(pd, HandlerOf(parser, path), node)
    ELSE pd

\* The first error ends the parse.
jsonParse(doc, parser) ==
  LET Step(s, i) ==
        LET node == doc[i]
            path == jsonPath(node.path)
            pd == jsonTreatNode(s.pd, path, node, parser)
            Stopped == [s EXCEPT !.pd = BadRequest(pd), !.stop = TRUE]
        IN  IF ItemNamed(node.path) THEN Stopped
            ELSE IF isCompoundPath(path) /\ node.value = "" /\ EndOf(doc, i) > i
              THEN LET eaten == jsonEatCompound(pd, doc, i, Owner(pd, parser))
                   IN  [s EXCEPT !.pd = eaten, !.skip = EndOf(doc, i), !.stop = eaten.bad]
            ELSE IF path \notin DOMAIN parser.vector \/ node.value \in Forbidden THEN Stopped
            ELSE [s EXCEPT !.pd = pd]
  IN  Walk(doc, InitData(parser.init), Step)
=============================================================================
