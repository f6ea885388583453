------------------------------ MODULE MCServices ------------------------------
(* Instances of Services for TLC: three families of requests.               *)
EXTENDS Services, TLC

Ids == {"E1", "E2"}
Patterns == {<<".*", id>> : id \in Ids \cup {Nothing}} \cup {<<id, id>> : id \in Ids}
InCapitals == [x \in {"CONTEXTENTITIES"} |-> "contextEntities"]

Empty == [entities |-> <<>>, regs |-> <<>>, subs |-> [k \in {} |-> Nothing],
          avail |-> [k \in {} |-> Nothing], given |-> 0, trace |-> {}, alive |-> TRUE]

R(verb, path, payload) ==
  [verb |-> verb, path |-> path, type |-> Nothing, exist |-> Nothing, paths |-> 1,
   tenant |-> Nothing, payload |-> payload]
NoPayload == [kind |-> "none", nullFirst |-> FALSE]
BadPayload == [kind |-> "bad"]
Asks(verb, paths, payload) == {R(verb, p, payload) : p \in paths}

-----------------------------------------------------------------------------
(* Entities, their attributes and their types                               *)

Element(id, type, attributes) ==
  [kind |-> "element", id |-> id, type |-> type, isPattern |-> Nothing, attributes |-> attributes]
Value(metaID, v) == [kind |-> "attribute", id |-> metaID, value |-> v]
X(metaID, v) == Attribute("x", metaID, v, FALSE)

E1 == <<"contextEntities", "E1">>
AtX == <<"attributes", "x">>
OfType(t) == <<"v1", "contextEntities", "type", t, "id", "E1">>

Reads ==
  Asks("GET", {<<"v2">>, <<"v2", "entities">>, <<"v2", "entities", "E1">>,
               <<"v2", "entities", "E1", "attrs", "x">>, <<"v1">> \o E1, <<"ngsi10">> \o E1 \o AtX,
               <<"v1">> \o E1 \o AtX \o <<"i1">>, OfType("T"), OfType("T") \o AtX,
               OfType("T") \o AtX \o <<"i1">>, <<"v1", "contextEntities">>,
               <<"v1", "contextTypes">>, <<"v1", "contextTypes", "T">>,
               <<"v1", "contextEntityTypes", "T">>,
               <<"v1", "contextEntityTypes", "T", "attributes", "x">>}, NoPayload)
  \cup {[R("GET", <<"v1", "contextTypes">>, NoPayload) EXCEPT !.payload.nullFirst = TRUE],
        [R("GET", <<"v1", "contextEntities">>, NoPayload) EXCEPT !.exist = "notEmpty"],
        [R("GET", OfType("T"), NoPayload) EXCEPT !.type = "S"],
        R("PUT", <<"v2", "entities">>, NoPayload),
        R("DELETE", <<"v1", "contextEntities">>, NoPayload)}

Writes ==
  Asks("PUT", {<<"ngsi10">> \o E1, OfType("T")},
       Element(Nothing, Nothing, <<X(Nothing, "v2"), Attribute("y", Nothing, "v2", FALSE)>>))
  \cup Asks("POST", {<<"v1">> \o E1 \o <<"attributes">>, OfType("T")},
            Element(Nothing, Nothing, <<X(Nothing, "v1")>>))
  \cup {[R("POST", <<"v1", "contextEntities">>, Element("E1", "S", <<X("i1", "v1")>>))
           EXCEPT !.type = t] : t \in {Nothing, "T"}}
  \cup {[R("POST", <<"ngsi10">> \o E1, Element(Nothing, Nothing, <<>>)) EXCEPT !.exist = "empty"],
        [R("PUT", <<"v1">> \o E1 \o AtX, Value(Nothing, "v1")) EXCEPT !.paths = 2],
        [R("DELETE", <<"v1">> \o E1, NoPayload) EXCEPT !.paths = 0],
        [R("PUT", <<"v1">> \o E1 \o AtX, Value(Nothing, "v2")) EXCEPT !.type = "S"],
        [R("PUT", <<"v1">> \o E1, BadPayload) EXCEPT !.tenant = "#"],
        [R("DELETE", <<"v1">> \o E1, NoPayload) EXCEPT !.tenant = "#"]}
  \cup Asks("PUT", {<<"ngsi10">> \o E1 \o AtX \o <<"i1">>, OfType("S") \o AtX \o <<"i1">>},
            Value(Nothing, "v2"))
  \cup Asks("PUT", {<<"v1">> \o E1 \o AtX \o <<"i1">>, OfType("T") \o AtX}, Value("i2", "v2"))
  \cup Asks("POST", {<<"v1">> \o E1 \o AtX, OfType("T") \o AtX \o <<"i1">>}, Value(Nothing, "v1"))
  \cup Asks("POST", {OfType("S") \o AtX}, Value("i1", "v1"))
  \cup Asks("DELETE", {<<"v1">> \o E1, OfType("T"), <<"ngsi10">> \o E1 \o AtX, OfType("S") \o AtX,
                       <<"v1">> \o E1 \o AtX \o <<"i1">>, OfType("T") \o AtX \o <<"i1">>},
            NoPayload)

Standard ==
  {R("POST", <<"v1", "updateContext">>,
     [kind |-> "update", action |-> "APPEND",
      elements |-> <<[id |-> "E2", type |-> "T", isPattern |-> "false",
                      attributes |-> <<X(Nothing, "v1")>>]>>]),
   R("POST", <<"ngsi10", "notifyContext">>,
     [kind |-> "notify",
      elements |-> <<[id |-> "E2", type |-> "T", isPattern |-> "false", attributes |-> <<>>]>>]),
   R("POST", <<"ngsi10", "queryContext">>,
     [kind |-> "query", query |-> fillQuery("E2", "T", "false", Nothing, "x")])}

Context == [ngsi9 |-> FALSE, requests |-> Reads \cup Writes \cup Standard, initial |-> Empty]

-----------------------------------------------------------------------------
(* The registry                                                             *)

Provider(a) == [kind |-> "provider", app |-> a]
OfTypeT == <<"v1", "registry", "contextEntities", "type", "T", "id", "E1">>
TypeT == <<"contextEntityTypes", "T">>
Bases == {<<"ngsi9">>, <<"v1", "registry">>}

RegistryUrls ==
  UNION {{b \o E1, b \o E1 \o <<"attributes">>, b \o E1 \o AtX, b \o TypeT,
          b \o TypeT \o <<"attributes">>, b \o TypeT \o AtX} : b \in Bases}
  \cup {OfTypeT, OfTypeT \o AtX}

Registration == fillRegister([app |-> "p2"], "E2", "S", "x")
RegistryRequests ==
  Asks("GET", RegistryUrls, NoPayload) \cup Asks("POST", RegistryUrls, Provider("p1"))
  \cup {[R("POST", OfTypeT, Provider("p1")) EXCEPT !.exist = "empty"],
        [R("POST", OfTypeT, Provider("p1")) EXCEPT !.paths = 0],
        R("PUT", <<"ngsi9">> \o E1, Provider("p1")), R("GET", <<"v1">> \o E1, NoPayload),
        R("POST", <<"ngsi9", "CONTEXTENTITIES", "E1">>, Provider("p1")),
        R("POST", <<"ngsi9", "registerContext">>,
          [kind |-> "register", registration |-> Registration]),
        [R("POST", <<"v1", "registry", "notifyContextAvailability">>,
           [kind |-> "register", registration |-> Registration]) EXCEPT !.paths = 2],
        R("POST", <<"v1", "registry", "notifyContextAvailability">>,
          [kind |-> "register", registration |-> Registration]),
        R("POST", <<"ngsi9", "discoverContextAvailability">>,
          [kind |-> "discover", query |-> fillDiscover("E2", "S")])}

RegistryOnly == [ngsi9 |-> TRUE, requests |-> RegistryRequests, initial |-> Empty]
Registry == [RegistryOnly EXCEPT !.ngsi9 = FALSE]

-----------------------------------------------------------------------------
(* Subscriptions, and the broker itself                                     *)

TwoIds == <<"s1", "s2">>
Subscribe == [kind |-> "subscribe", filter |-> Nothing, content |-> "c1"]
Change(id) == [kind |-> "change", subscriptionId |-> id, content |-> "c2"]
Some(base) == {base \o <<id>> : id \in {"s1", "s2"}}
Contexts == {<<"ngsi10", "contextSubscriptions">>, <<"v1", "contextSubscriptions">>}
Availabilities == {<<"ngsi9", "contextAvailabilitySubscriptions">>,
                   <<"v1", "registry", "contextAvailabilitySubscriptions">>}

SubscriptionRequests ==
  Asks("POST", Contexts \cup Availabilities
               \cup {<<"v1", "subscribeContext">>, <<"ngsi9", "subscribeContextAvailability">>},
       Subscribe)
  \cup {[R("POST", p, Subscribe) EXCEPT !.exist = "notEmpty"] : p \in Contexts \cup Availabilities}
  \cup {[R("POST", <<"v1", "contextSubscriptions">>, Subscribe) EXCEPT !.paths = 2]}
  \cup Asks("PUT", UNION {Some(b) : b \in Contexts \cup Availabilities}, Change("s1"))
  \cup Asks("DELETE", UNION {Some(b) : b \in Contexts \cup Availabilities}, NoPayload)
  \cup Asks("POST", {<<"v1", "unsubscribeContext">>,
                     <<"v1", "registry", "unsubscribeContextAvailability">>,
                     <<"ngsi10", "updateContextSubscription">>,
                     <<"ngsi9", "updateContextAvailabilitySubscription">>}, Change("s2"))

AdminRequests ==
  Asks("PUT", {<<"log", "trace", "80">>, <<"log", "trace", "#">>,
               <<"v1", "admin", "log", "trace", "80">>}, NoPayload)
  \cup Asks("DELETE", {<<"log", "traceLevel">>, <<"log", "traceLevel", "80">>,
                       <<"log", "trace", "#">>, <<"statistics">>}, NoPayload)
  \cup Asks("GET", {<<>>, <<"log", "trace">>, <<"statistics">>, <<"version">>, <<"leak">>,
                    <<"leak", "harakiri">>, <<"exit">>, <<"exit", "harakiri">>, <<"ngsi9", "none">>,
                    <<"ngsi10", "none">>, <<"none">>, <<"1", "2", "3", "4", "5", "6", "7">>},
            NoPayload)
  \cup Asks("PUT", {<<"statistics">>, <<"v1", "subscribeContext">>,
                    <<"ngsi10", "contextEntityTypes", "T">>, <<"v1", "contextSubscriptions", "s1">>},
            BadPayload)
  \cup Asks("POST", {<<"v1", "contextSubscriptions", "s1">>}, BadPayload)

Others == [ngsi9 |-> FALSE, requests |-> SubscriptionRequests \cup AdminRequests,
           initial |-> Empty]

AllFamilies == [f \in {"context", "registry", "registry only", "others"} |->
                  CASE f = "context" -> Context
                    [] f = "registry" -> Registry
                    [] f = "registry only" -> RegistryOnly
                    [] OTHER -> Others]
=============================================================================
