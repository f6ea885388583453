--------------------------- MODULE MCRegistrations ---------------------------
(* Instances of Registrations for TLC.                                      *)
EXTENDS Registrations, TLC

CONSTANT Scoped   \* TRUE: discoveries with an association scope too

Root == <<>>
A == <<"a">>
En(id, type, isPattern) == [id |-> id, type |-> type, isPattern |-> isPattern]
Stores(id, type) == En(id, type, "false")
Patterns == {<<"E.*", "E1">>, <<"E.*", "E2">>}

Association(name) ==
  [name |-> name, source |-> [id |-> "E1", type |-> "T"], target |-> [id |-> "E2", type |-> "T"],
   attrs |-> <<[source |-> "x", target |-> "y"]>>]
CrOf(entities, attrs, mdV) == [entities |-> entities, attrs |-> attrs, app |-> "p", mdV |-> mdV]

Cr1 == CrOf(<<Stores("E1", "T")>>, <<"x">>, <<>>)
Cr2 == CrOf(<<Stores("E2", "T")>>, <<>>, <<>>)
CrAssoc(name) == CrOf(<<Stores("E1", "T"), En("E2", "", "0")>>, <<"x">>, <<Association(name)>>)

Register(id, crs, path, duration) ==
  [op |-> "register", id |-> id, crs |-> crs, path |-> path, duration |-> duration]
Discover(enV, attrL, paths, scope) ==
  [op |-> "discover", enV |-> enV, attrL |-> attrL, servicePathV |-> paths, scope |-> scope,
   offset |-> 0, limit |-> 1]

Registers ==
  {Register(NoId, <<Cr1, Cr2>>, Root, Absent), Register(NoId, <<CrAssoc(1), CrAssoc(2)>>, A, 1),
   Register(1, <<Cr1>>, Root, Absent), Register(MalformedId, <<Cr2>>, Root, Absent)}
Subscribes ==
  {[op |-> op, id |-> id, enV |-> enV, attrL |-> attrL, duration |-> Absent] :
     <<op, id>> \in {<<"subscribe", NoId>>, <<"updateSubscription", 11>>},
     <<enV, attrL>> \in {<<<<Stores("E1", "T")>>, <<"x">>>>, <<<<En("E.*", "T", "true")>>, <<>>>>}}
Others ==
  {[op |-> "notifyAvailability", crs |-> <<Cr1>>, path |-> Root, duration |-> Absent],
   [op |-> "unsubscribe", id |-> 11], [op |-> "unsubscribe", id |-> MalformedId],
   Discover(<<Stores("E1", "")>>, <<"x">>, <<[path |-> Root, recursive |-> TRUE]>>, "none"),
   Discover(<<En("E.*", "T", "true")>>, <<>>, <<>>, "none")}
Associated ==
  {Discover(<<Stores("E2", "T")>>, <<"y">>, <<>>, scope) : scope \in {"SOURCES", "ALL"}}

AllRequests == Registers \union Subscribes \union Others \union (IF Scoped THEN Associated ELSE {})

Symmetry == Permutations(Workers)

ReadersAndWriters ==
  {Register(NoId, <<Cr1>>, Root, Absent), Discover(<<Stores("E2", "T")>>, <<"y">>, <<>>, "SOURCES")}
=============================================================================
