--------------------------- MODULE MCEntityUpdate ---------------------------
(* Instances of EntityUpdate for TLC.                                       *)
EXTENDS EntityUpdate, TLC

CONSTANT PathsUsed   \* service paths of the requests

\* "pos.x" is stored as "pos=x"; "t" is a prefix of "temp".
AttributeNames == {"t", "temp", "pos.x"}
DotEncoding == [n \in AttributeNames |-> IF n = "pos.x" THEN "pos=x" ELSE n]
NamePrefixes == {<<"t", "temp">>}

Attr(name, value) ==
  [name |-> name, id |-> NoId, type |-> "", value |-> value, md |-> {}, location |-> "none"]
Metadata(value) == {[type |-> "float", value |-> value]}

T1 == Attr("t", "1")
T2 == Attr("t", "2")
TMeta1 == [T1 EXCEPT !.md = Metadata("m1")]
TMeta2 == [T1 EXCEPT !.md = Metadata("m2")]
TId1 == [T1 EXCEPT !.id = "i1"]
TId2 == [T1 EXCEPT !.id = "i2"]
Temp == [Attr("temp", "tree") EXCEPT !.type = "structure"]
Position == [Attr("pos.x", "1") EXCEPT !.location = "WGS84"]
Moved == Attr("pos.x", "2")
Nowhere == Attr("pos.x", "x")
Mars == [Position EXCEPT !.location = "Mars"]

Elem(type, attributes) == [type |-> type, isPattern |-> FALSE, attributes |-> attributes]
Request(action, path, elements) ==
  [action |-> action, path |-> path, notExist |-> FALSE, elements |-> elements]

Vectors ==
  {<<T1>>, <<TMeta1>>, <<TMeta2, Temp>>, <<TId1, TId2>>, <<TId1>>, <<T2, Position>>,
   <<Temp, Moved>>, <<Moved>>, <<T2, Nowhere>>, <<Mars>>, <<T1, TId1>>, <<>>}

\* A request with more than one service path is answered BadRequest and none of
\* its elements is processed: the last one, without elements.
AllRequests ==
  {Request(action, path, <<Elem("A", v)>>) :
     action \in {"update", "append", "delete"}, path \in PathsUsed, v \in Vectors}
  \union
  {[Request("update", path, <<Elem("", <<T2>>), Elem("A", <<Attr("t", "")>>)>>)
      EXCEPT !.notExist = b] : path \in PathsUsed, b \in BOOLEAN}
  \union
  {Request("append", path, <<Elem("", <<T1>>), [Elem("A", <<T1>>) EXCEPT !.isPattern = TRUE]>>) :
     path \in PathsUsed}
  \union {Request("append", "", <<>>)}

\* Appends of one attribute, and updates of it.
TwoPathRequests ==
  {Request(action, path, <<Elem("A", <<a>>)>>) :
     action \in {"append", "update"}, path \in PathsUsed, a \in {T1, T2}}

RootIncluded == {<<"/", "/a">>}

Symmetry == Permutations(Workers)
=============================================================================
