------------------------------- MODULE Routes -------------------------------
(***************************************************************************)
(* Which service routine serves a request: the service vectors of          *)
(* app/contextBroker/contextBroker.cpp and the search of restService in    *)
(* them (lib/rest/RestService.cpp). A row is a verb, a path and the name   *)
(* of a routine; "*" stands for any verb or any component.                 *)
(***************************************************************************)
EXTENDS Naturals, Sequences, SequencesExt, FiniteSets

CONSTANT Capitals   \* a word of a URL in capitals |-> the word of a path

\* The rows of one path: each of treats is <<verb, routine>>.
At(path, treats) ==
  [i \in DOMAIN treats |-> [verb |-> treats[i][1], path |-> path, treat |-> treats[i][2]]]

-----------------------------------------------------------------------------
(* The paths                                                                *)

V2Paths == [EPS |-> <<"v2">>, ENT |-> <<"v2", "entities">>, IENT |-> <<"v2", "entities", "*">>,
            IENTATTR |-> <<"v2", "entities", "*", "attrs", "*">>]

Attributes == <<"attributes">>
AnAttribute == <<"attributes", "*">>

\* base: <<"ngsi9">> or <<"v1", "registry">>
RegistryPaths(base) ==
  [CE |-> base \o <<"contextEntities", "*">>,
   CEA |-> base \o <<"contextEntities", "*">> \o Attributes,
   CEAA |-> base \o <<"contextEntities", "*">> \o AnAttribute,
   CT |-> base \o <<"contextEntityTypes", "*">>,
   CTA |-> base \o <<"contextEntityTypes", "*">> \o Attributes,
   CTAA |-> base \o <<"contextEntityTypes", "*">> \o AnAttribute,
   SCA |-> base \o <<"contextAvailabilitySubscriptions">>,
   SCAS |-> base \o <<"contextAvailabilitySubscriptions", "*">>]

\* base: <<"ngsi10">> or <<"v1">>
ContextPaths(base) ==
  [ICE |-> base \o <<"contextEntities", "*">>,
   ICEA |-> base \o <<"contextEntities", "*">> \o Attributes,
   ICEAA |-> base \o <<"contextEntities", "*">> \o AnAttribute,
   AVI |-> base \o <<"contextEntities", "*">> \o AnAttribute \o <<"*">>,
   CET |-> base \o <<"contextEntityTypes", "*">>,
   CETA |-> base \o <<"contextEntityTypes", "*">> \o Attributes,
   CETAA |-> base \o <<"contextEntityTypes", "*">> \o AnAttribute,
   SC |-> base \o <<"contextSubscriptions">>,
   SCS |-> base \o <<"contextSubscriptions", "*">>]

Typed(base) == base \o <<"contextEntities", "type", "*", "id", "*">>
V1Paths ==
  [ET |-> <<"v1", "contextTypes">>, AFET |-> <<"v1", "contextTypes", "*">>,
   ACE |-> <<"v1", "contextEntities">>,
   ACET |-> Typed(<<"v1">>),
   ICEAAT |-> Typed(<<"v1">>) \o AnAttribute,
   AVIT |-> Typed(<<"v1">>) \o AnAttribute \o <<"*">>,
   CEET |-> Typed(<<"v1", "registry">>),
   CEAAT |-> Typed(<<"v1", "registry">>) \o AnAttribute]

-----------------------------------------------------------------------------
(* The rows                                                                 *)

API_V2 ==
  At(V2Paths.EPS, <<<<"GET", "entryPointsTreat">>, <<"*", "badVerbAllFour">>>>) \o
  At(V2Paths.ENT, <<<<"GET", "getEntities">>, <<"*", "badVerbGetOnly">>>>) \o
  At(V2Paths.IENT, <<<<"GET", "getEntity">>, <<"*", "badVerbGetOnly">>>>) \o
  At(V2Paths.IENTATTR, <<<<"GET", "getEntityAttribute">>, <<"*", "badVerbGetOnly">>>>)

\* The standard operations, each a path of its own: ops are <<word, routine>>.
PostOnly(base, ops) ==
  FlattenSeq([i \in DOMAIN ops |-> At(base \o <<ops[i][1]>>,
                                      <<<<"POST", ops[i][2]>>, <<"*", "badVerbPostOnly">>>>)])

RegistryOperations ==
  <<<<"registerContext", "postRegisterContext">>,
    <<"discoverContextAvailability", "postDiscoverContextAvailability">>,
    <<"subscribeContextAvailability", "postSubscribeContextAvailability">>,
    <<"unsubscribeContextAvailability", "postUnsubscribeContextAvailability">>,
    <<"updateContextAvailabilitySubscription", "postUpdateContextAvailabilitySubscription">>,
    <<"notifyContextAvailability", "postNotifyContextAvailability">>>>
REGISTRY_STANDARD_REQUESTS_V0 == PostOnly(<<"ngsi9">>, RegistryOperations)
REGISTRY_STANDARD_REQUESTS_V1 == PostOnly(<<"v1", "registry">>, RegistryOperations)

ContextOperations ==
  <<<<"updateContext", "postUpdateContext">>, <<"queryContext", "postQueryContext">>,
    <<"subscribeContext", "postSubscribeContext">>,
    <<"updateContextSubscription", "postUpdateContextSubscription">>,
    <<"unsubscribeContext", "postUnsubscribeContext">>,
    <<"notifyContext", "postNotifyContext">>>>
STANDARD_REQUESTS_V0 == PostOnly(<<"ngsi10">>, ContextOperations)
STANDARD_REQUESTS_V1 == PostOnly(<<"v1">>, ContextOperations)

GetPost(path, get, post) ==
  At(path, <<<<"GET", get>>, <<"POST", post>>, <<"*", "badVerbGetPostOnly">>>>)

\* The two versions differ in the routine that makes a subscription.
RegistryConvenience(p, subscribe) ==
  GetPost(p.CE, "getContextEntitiesByEntityId", "postContextEntitiesByEntityId") \o
  GetPost(p.CEA, "getContextEntityAttributes", "postContextEntityAttributes") \o
  GetPost(p.CEAA, "getEntityByIdAttributeByName", "postEntityByIdAttributeByName") \o
  GetPost(p.CT, "getContextEntityTypes", "postContextEntityTypes") \o
  GetPost(p.CTA, "getContextEntityTypes", "postContextEntityTypes") \o
  GetPost(p.CTAA, "getContextEntityTypeAttribute", "postContextEntityTypeAttribute") \o
  At(p.SCA, <<<<"POST", subscribe>>, <<"*", "badVerbPostOnly">>>>) \o
  At(p.SCAS, <<<<"PUT", "putAvailabilitySubscriptionConvOp">>,
               <<"DELETE", "deleteAvailabilitySubscriptionConvOp">>,
               <<"*", "badVerbPutDeleteOnly">>>>)

REGISTRY_CONVENIENCE_OPERATIONS_V0 ==
  RegistryConvenience(RegistryPaths(<<"ngsi9">>), "postSubscribeContextAvailabilityConvOp")
REGISTRY_CONVENIENCE_OPERATIONS_V1 ==
  RegistryConvenience(RegistryPaths(<<"v1", "registry">>), "postSubscribeContextAvailability")

CONVENIENCE_OPERATIONS_V0 ==
  LET p == ContextPaths(<<"ngsi10">>)
      Entity(path) ==
        At(path, <<<<"GET", "getIndividualContextEntity">>, <<"PUT", "putIndividualContextEntity">>,
                   <<"POST", "postIndividualContextEntity">>,
                   <<"DELETE", "deleteIndividualContextEntity">>, <<"*", "badVerbAllFour">>>>)
      GetOnly(path, get) == At(path, <<<<"GET", get>>, <<"*", "badVerbGetOnly">>>>)
  IN  Entity(p.ICE) \o Entity(p.ICEA) \o
      At(p.ICEAA, <<<<"GET", "getIndividualContextEntityAttribute">>,
                    <<"PUT", "putIndividualContextEntityAttribute">>,
                    <<"POST", "postIndividualContextEntityAttribute">>,
                    <<"DELETE", "deleteIndividualContextEntityAttribute">>,
                    <<"*", "badVerbGetPostDeleteOnly">>>>) \o
      At(p.AVI, <<<<"GET", "getAttributeValueInstance">>, <<"PUT", "putAttributeValueInstance">>,
                  <<"DELETE", "deleteAttributeValueInstance">>,
                  <<"*", "badVerbGetPutDeleteOnly">>>>) \o
      GetOnly(p.CET, "getNgsi10ContextEntityTypes") \o
      GetOnly(p.CETA, "getNgsi10ContextEntityTypes") \o
      GetOnly(p.CETAA, "getNgsi10ContextEntityTypesAttribute") \o
      At(p.SC, <<<<"POST", "postSubscribeContextConvOp">>, <<"*", "badVerbPostOnly">>>>) \o
      At(p.SCS, <<<<"PUT", "putSubscriptionConvOp">>, <<"DELETE", "deleteSubscriptionConvOp">>,
                  <<"*", "badVerbPutDeleteOnly">>>>)

\* The rows of version 0 at their new paths, and those that are new.
AllFour(path, get, post, put, delete) ==
  At(path, <<<<"GET", get>>, <<"POST", post>>, <<"PUT", put>>, <<"DELETE", delete>>,
             <<"*", "badVerbAllFour">>>>)

TypedOperations ==
  At(V1Paths.ET, <<<<"GET", "getEntityTypes">>, <<"*", "badVerbGetOnly">>>>) \o
  At(V1Paths.AFET, <<<<"GET", "getAttributesForEntityType">>, <<"*", "badVerbGetOnly">>>>) \o
  At(V1Paths.ACE, <<<<"GET", "getAllContextEntities">>, <<"POST", "postIndividualContextEntity">>,
                    <<"*", "badVerbGetOnly">>>>) \o
  AllFour(V1Paths.ACET, "getAllEntitiesWithTypeAndId", "postAllEntitiesWithTypeAndId",
          "putAllEntitiesWithTypeAndId", "deleteAllEntitiesWithTypeAndId") \o
  AllFour(V1Paths.ICEAAT, "getIndividualContextEntityAttributeWithTypeAndId",
          "postIndividualContextEntityAttributeWithTypeAndId",
          "putIndividualContextEntityAttributeWithTypeAndId",
          "deleteIndividualContextEntityAttributeWithTypeAndId") \o
  AllFour(V1Paths.AVIT, "getAttributeValueInstanceWithTypeAndId",
          "postAttributeValueInstanceWithTypeAndId", "putAttributeValueInstanceWithTypeAndId",
          "deleteAttributeValueInstanceWithTypeAndId") \o
  GetPost(V1Paths.CEET, "getContextEntitiesByEntityIdAndType",
          "postContextEntitiesByEntityIdAndType") \o
  GetPost(V1Paths.CEAAT, "getEntityByIdAttributeByNameWithTypeAndId",
          "postEntityByIdAttributeByNameWithTypeAndId")

CONVENIENCE_OPERATIONS_V1 ==
  LET v0 == CONVENIENCE_OPERATIONS_V0
  IN  [i \in DOMAIN v0 |-> [v0[i] EXCEPT !.path = <<"v1">> \o Tail(@)]] \o TypedOperations

LogRows(base) ==
  At(base, <<<<"GET", "logTraceTreat">>, <<"DELETE", "logTraceTreat">>,
             <<"*", "badVerbAllFour">>>>) \o
  At(base \o <<"*">>, <<<<"PUT", "logTraceTreat">>, <<"DELETE", "logTraceTreat">>,
                        <<"*", "badVerbAllFour">>>>)
LOG_REQUESTS_V0 == LogRows(<<"log", "trace">>) \o LogRows(<<"log", "traceLevel">>)
LOG_REQUESTS_V1 ==
  LogRows(<<"v1", "admin", "log", "trace">>) \o LogRows(<<"v1", "admin", "log", "traceLevel">>)

StatRows(path) == At(path, <<<<"GET", "statisticsTreat">>, <<"DELETE", "statisticsTreat">>,
                             <<"*", "badVerbGetDeleteOnly">>>>)
STAT_REQUESTS == StatRows(<<"statistics">>) \o StatRows(<<"v1", "admin", "statistics">>)

VERSION_REQUESTS == At(<<"version">>, <<<<"GET", "versionTreat">>, <<"*", "badVerbGetOnly">>>>)

\* In the debug build only.
EXIT_REQUESTS ==
  At(<<"exit", "*">>, <<<<"GET", "exitTreat">>>>) \o At(<<"exit">>, <<<<"GET", "exitTreat">>>>)
LEAK_REQUESTS ==
  At(<<"leak", "*">>, <<<<"GET", "leakTreat">>>>) \o At(<<"leak">>, <<<<"GET", "leakTreat">>>>)

\* The last row is for paths of any length; it has six components.
AnyPath == <<"*", "*", "*", "*", "*", "*">>
INVALID_REQUESTS == At(<<"ngsi9", "*">>, <<<<"*", "badNgsi9Request">>>>) \o
                    At(<<"ngsi10", "*">>, <<<<"*", "badNgsi10Request">>>>) \o
                    At(AnyPath, <<<<"*", "badRequest">>>>)

OtherRequests == LOG_REQUESTS_V0 \o LOG_REQUESTS_V1 \o STAT_REQUESTS \o VERSION_REQUESTS \o
                 EXIT_REQUESTS \o LEAK_REQUESTS \o INVALID_REQUESTS

restServiceV ==
  API_V2 \o REGISTRY_STANDARD_REQUESTS_V0 \o REGISTRY_STANDARD_REQUESTS_V1 \o
  STANDARD_REQUESTS_V0 \o STANDARD_REQUESTS_V1 \o
  REGISTRY_CONVENIENCE_OPERATIONS_V0 \o REGISTRY_CONVENIENCE_OPERATIONS_V1 \o
  CONVENIENCE_OPERATIONS_V0 \o CONVENIENCE_OPERATIONS_V1 \o OtherRequests

restServiceNgsi9 ==
  REGISTRY_STANDARD_REQUESTS_V0 \o REGISTRY_STANDARD_REQUESTS_V1 \o
  REGISTRY_CONVENIENCE_OPERATIONS_V0 \o REGISTRY_CONVENIENCE_OPERATIONS_V1 \o OtherRequests

-----------------------------------------------------------------------------
(* The search                                                               *)

strcasecmp(word, component) ==
  word = IF component \in DOMAIN Capitals THEN Capitals[component] ELSE component

\* Components past the path of the row are compared with empty words.
MatchesPath(row, path) ==
  /\ row.path = AnyPath \/ Len(row.path) = Len(path)
  /\ \A i \in DOMAIN path :
       LET word == IF i \in DOMAIN row.path THEN row.path[i] ELSE ""
       IN  word = "*" \/ strcasecmp(word, path[i])

MatchesVerb(row, verb) == row.verb \in {verb, "*"}

\* The first row that matches; none does when a path is longer than six.
Unrecognized == [verb |-> "*", path |-> <<>>, treat |-> "unrecognized"]
RowOf(serviceV, verb, path) ==
  LET matching == {i \in DOMAIN serviceV : MatchesVerb(serviceV[i], verb)
                                           /\ MatchesPath(serviceV[i], path)}
  IN  IF matching = {} THEN Unrecognized
      ELSE serviceV[CHOOSE i \in matching : \A j \in matching : i <= j]
=============================================================================
