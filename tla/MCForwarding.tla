---------------------------- MODULE MCForwarding ----------------------------
(* Instances of Forwarding for TLC.                                         *)
EXTENDS Forwarding, TLC

CONSTANTS c1, c2

Patterns == {<<"E.*", "E1">>, <<"E.*", "E2">>}

Entity(id, attrs) == [id |-> id, type |-> "T", attrs |-> attrs]
Of(names) == [k \in {<<n, Nothing>> : n \in names} |-> "v0"]

\* The broker has x of E1; the rest is with the providers.
Start == [n \in Nodes |->
            CASE n = Self -> <<Entity("E1", Of({"x"}))>>
              [] n = "p1" -> <<Entity("E1", Of({"y", "z"}))>>
              [] n = "p2" -> <<Entity("E1", Of({"z"})), Entity("E2", Of({"x"})),
                             [Entity("E1", Of({"w"})) EXCEPT !.type = "S"]>>
              [] OTHER -> <<>>]

Registration(id, type, attrs, app) ==
  [crs |-> <<[entities |-> <<[id |-> id, type |-> type]>>, attrs |-> attrs, app |-> app]>>,
   expiration |-> 1, path |-> <<>>]

RegistrationChoices ==
  {<<Registration("E1", "T", <<"y">>, "p1"), Registration("E1", "T", <<"z">>, "p2"),
     Registration("E2", "T", <<>>, "p2"), Registration("E1", "T", <<"u">>, "p3")>>,
   <<Registration("E1", "T", <<>>, "p1"), Registration("E2", "T", <<"x">>, "p2"),
     Registration("E1", "S", <<>>, "p2")>>,
   <<>>}

Element(id, type, names, value) ==
  [id |-> id, type |-> type, isPattern |-> "false",
   attributes |-> [i \in DOMAIN names |-> Attribute(names[i], Nothing, value, FALSE)]]
Update(action, elements) == [kind |-> "update", action |-> action, elements |-> elements]
Query(enV, attrL) == [kind |-> "query", enV |-> enV, attrL |-> attrL]
En(id, type, isPattern) == [id |-> id, type |-> type, isPattern |-> isPattern]

SomeUpdates ==
  {Update("UPDATE", <<Element("E1", "T", <<"x", "y", "z", "u">>, "v1")>>),
   Update("UPDATE", <<Element("E1", "", <<"x", "y">>, "v1"), Element("E2", "T", <<"x">>, "v1")>>),
   Update("APPEND", <<Element("E2", "T", <<"x", "y">>, "v1")>>),
   Update("UPDATE", <<Element("E1", "T", <<"x", "y">>, "compound")>>),
   Update("DELETE", <<Element("E1", "T", <<"x", "y">>, Nothing)>>),
   Update("DELETE", <<Element("E1", "T", <<>>, Nothing)>>)}
SomeQueries ==
  {Query(<<En("E1", "T", "false")>>, <<"x", "y", "z">>),
   Query(<<En("E1", "", "false")>>, <<>>),
   Query(<<En("E.*", "", "true")>>, <<"x">>),
   Query(<<En("E1", "T", "false"), En("E2", "T", "false")>>, <<"z", "x">>)}
\* The updates of c1 may meet one fault.
Relevant(f, req) ==
  \E i \in DOMAIN req.elements :
    LET ce == req.elements[i]
    IN  /\ f[2] = ce.id
        /\ CASE f[1] = "query" -> f[3] = ce.type
             [] f[1] = "insert" -> req.action = "APPEND"
             [] f[1] = "remove" -> req.action = "DELETE" /\ ce.attributes = <<>>
             [] f[1] = "update" -> ce.attributes # <<>>
             [] OTHER -> \E k \in DOMAIN ce.attributes : ce.attributes[k].name = f[4]
Faults ==
  ({"query", "update", "remove"} \X {"E1"} \X {"T"} \X {Nothing}) \cup
  ({"query", "insert"} \X {"E2"} \X {"T"} \X {Nothing}) \cup
  {<<"refuse", "E1", "T", "x">>, <<"refuse", "E1", "T", "y">>, <<"trigger", "E1", "T", "x">>,
   <<"trigger", "E2", "T", "x">>}
SomeFaults(c, req) ==
  {{}} \cup (IF c = c1 THEN {{f} : f \in {g \in Faults : Relevant(g, req)}} ELSE {})

UpdatesOf == [c \in Clients |-> SomeUpdates]
QueriesOf == [c \in Clients |-> IF c = c1 THEN {} ELSE SomeQueries]
=============================================================================
