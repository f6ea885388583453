------------------------------ MODULE NgsiCheck ------------------------------
(***************************************************************************)
(* The check() methods of lib/ngsi, lib/ngsi9, lib/ngsi10 and              *)
(* lib/convenience: whether what was parsed is accepted. pd is the parse   *)
(* data, loc the location of the object, request the request type that     *)
(* check() is called with; TRUE is the answer "OK".                        *)
(***************************************************************************)
EXTENDS ParseData

CONSTANTS Durations,    \* texts that parse8601 understands
          Ids,          \* texts that idCheck accepts
          Codes,        \* texts of which atoi makes a status code
          OutOfRange    \* texts of coordinates beyond 90 or 180 degrees

All(pd, loc, Check(_)) == \A item \in Items(pd, loc) : Check(item)
Field(loc, name) == Append(loc, name)
Has(pd, loc, name) == Text(pd, Field(loc, name)) # ""

-----------------------------------------------------------------------------
(* lib/ngsi                                                                 *)

EntityId_check(pd, loc, request) ==
  LET isPattern == Text(pd, Field(loc, "isPattern"))
  IN  /\ Has(pd, loc, "id")
      /\ isBool(isPattern) \/ isPattern = ""
      /\ request = "RegisterContext" => ~isTrue(isPattern)

EntityIdVector_check(pd, loc, request) ==
  /\ request \in {"DiscoverContextAvailability", "SubscribeContextAvailability",
                  "UpdateContextAvailabilitySubscription", "QueryContext", "SubscribeContext"}
       => Size(pd, loc) # 0
  /\ All(pd, loc, LAMBDA item : EntityId_check(pd, item, request))

AttributeList_check(pd, loc) == All(pd, loc, LAMBDA item : Text(pd, item) # "")
ConditionValueList_check(pd, loc) == All(pd, loc, LAMBDA item : Text(pd, item) # "")

AttributeAssociation_check(pd, loc) == Has(pd, loc, "source") /\ Has(pd, loc, "target")
AttributeAssociationList_check(pd, loc) ==
  All(pd, loc, LAMBDA item : AttributeAssociation_check(pd, item))
EntityAssociation_check(pd, loc, request) ==
  /\ EntityId_check(pd, Field(loc, "source"), request)
  /\ EntityId_check(pd, Field(loc, "target"), request)
Association_check(pd, loc, request) ==
  /\ EntityAssociation_check(pd, Field(loc, "entityAssociation"), request)
  /\ AttributeAssociationList_check(pd, Field(loc, "attributeAssociationList"))

Metadata_check(pd, loc, request) ==
  /\ Has(pd, loc, "name")
  /\ IF Text(pd, Field(loc, "type")) = "Association"
       THEN Association_check(pd, Field(loc, "association"), request)
       ELSE Has(pd, loc, "value")
MetadataVector_check(pd, loc, request) ==
  All(pd, loc, LAMBDA item : Metadata_check(pd, item, request))

\* The metadata of an attribute are not looked at.
ContextAttribute_check(pd, loc) == Has(pd, loc, "name")
ContextAttributeVector_check(pd, loc) ==
  All(pd, loc, LAMBDA item : ContextAttribute_check(pd, item))

ContextElement_check(pd, loc, request) ==
  /\ EntityId_check(pd, Field(loc, "entityId"), request)
  /\ ContextAttributeVector_check(pd, Field(loc, "contextAttributeVector"))
  /\ MetadataVector_check(pd, Field(loc, "domainMetadataVector"), request)
ContextElementVector_check(pd, loc, request) ==
  /\ request = "UpdateContext" => Size(pd, loc) # 0
  /\ All(pd, loc, LAMBDA item : ContextElement_check(pd, item, request))

StatusCode_check(pd, loc) ==
  Text(pd, Field(loc, "code")) \in Codes /\ Has(pd, loc, "reasonPhrase")

ContextElementResponse_check(pd, loc, request) ==
  /\ ContextElement_check(pd, Field(loc, "contextElement"), request)
  /\ StatusCode_check(pd, Field(loc, "statusCode"))
ContextElementResponseVector_check(pd, loc, request) ==
  All(pd, loc, LAMBDA item : ContextElementResponse_check(pd, item, request))

ContextRegistrationAttribute_check(pd, loc, request) ==
  /\ Has(pd, loc, "name")
  /\ isBool(Text(pd, Field(loc, "isDomain")))
  /\ MetadataVector_check(pd, Field(loc, "metadataVector"), request)
ContextRegistrationAttributeVector_check(pd, loc, request) ==
  All(pd, loc, LAMBDA item : ContextRegistrationAttribute_check(pd, item, request))

ProvidingApplication_check(pd, loc) == Text(pd, loc) # ""

ContextRegistration_check(pd, loc, request) ==
  /\ EntityIdVector_check(pd, Field(loc, "entityIdVector"), request)
  /\ ContextRegistrationAttributeVector_check(
       pd, Field(loc, "contextRegistrationAttributeVector"), request)
  /\ MetadataVector_check(pd, Field(loc, "registrationMetadataVector"), request)
  /\ ProvidingApplication_check(pd, Field(loc, "providingApplication"))
  /\ Has(pd, loc, "entityIdVectorPresent") => Size(pd, Field(loc, "entityIdVector")) # 0
ContextRegistrationVector_check(pd, loc, request) ==
  All(pd, loc, LAMBDA item : ContextRegistration_check(pd, item, request))
ContextRegistrationResponse_check(pd, loc, request) ==
  ContextRegistration_check(pd, Field(loc, "contextRegistration"), request)
ContextRegistrationResponseVector_check(pd, loc, request) ==
  All(pd, loc, LAMBDA item : ContextRegistrationResponse_check(pd, item, request))

Duration_check(pd, loc) == Text(pd, loc) \in Durations \cup {""}
Throttling_check(pd, loc) == Text(pd, loc) \in Durations \cup {""}
SubscriptionId_check(pd, loc) == Text(pd, loc) \in Ids \cup {""}
RegistrationId_check(pd, loc) == Text(pd, loc) \in Ids \cup {""}
Reference_check(pd, loc, request) ==
  request \in {"SubscribeContextAvailability", "SubscribeContext"} => Text(pd, loc) # ""
UpdateActionType_check(pd, loc) ==
  Text(pd, loc) \in {"update", "UPDATE", "Update", "append", "APPEND", "Append",
                     "delete", "DELETE", "Delete"}

InRange(pd, point) ==
  {Text(pd, Field(point, "latitude")), Text(pd, Field(point, "longitude"))}
     \intersect OutOfRange = {}

\* The centre of a circle is asked for only when inverted is not given.
Circle_check(pd, loc) ==
  LET inverted == Text(pd, Field(loc, "inverted"))
      center == Field(loc, "center")
  IN  /\ Text(pd, Field(loc, "radius")) \notin {"", "0"}
      /\ IF inverted # "" THEN isBool(inverted)
         ELSE Has(pd, center, "latitude") /\ Has(pd, center, "longitude")
      /\ InRange(pd, center)

Polygon_check(pd, loc) ==
  LET vertices == Field(loc, "vertexList")
  IN  /\ Size(pd, vertices) >= 3
      /\ isBool(Text(pd, Field(loc, "inverted"))) \/ ~Has(pd, loc, "inverted")
      /\ All(pd, vertices, LAMBDA v : /\ Has(pd, v, "latitude") /\ Has(pd, v, "longitude")
                                      /\ InRange(pd, v))

Scope_check(pd, loc) ==
  IF Text(pd, Field(loc, "type")) \in BothNames
    THEN CASE Text(pd, Field(loc, "areaType")) = "Circle" -> Circle_check(pd, Field(loc, "circle"))
           [] Text(pd, Field(loc, "areaType")) = "Polygon" -> Polygon_check(pd, Field(loc, "polygon"))
           [] OTHER -> TRUE
    ELSE Has(pd, loc, "type") /\ Has(pd, loc, "value")
ScopeVector_check(pd, loc) == All(pd, loc, LAMBDA item : Scope_check(pd, item))

\* counter is the number of restrictions that were met; without one there is
\* nothing to check.
Restriction_check(pd, loc, counter) ==
  counter # 0 =>
    /\ Size(pd, Field(loc, "scopeVector")) # 0 \/ Has(pd, loc, "attributeExpression")
    /\ ScopeVector_check(pd, Field(loc, "scopeVector"))

NotifyCondition_check(pd, loc) ==
  /\ Text(pd, Field(loc, "type")) \in {"ONTIMEINTERVAL", "ONCHANGE", "ONVALUE"}
  /\ ConditionValueList_check(pd, Field(loc, "condValueList"))
NotifyConditionVector_check(pd, loc) ==
  All(pd, loc, LAMBDA item : NotifyCondition_check(pd, item))

-----------------------------------------------------------------------------
(* The requests                                                             *)

restrictions(pd) == Size(pd, <<"restrictions">>)

DiscoverContextAvailabilityRequest_check(pd) ==
  /\ ~pd.errorString
  /\ Size(pd, <<"entityIdVector">>) # 0
  /\ EntityIdVector_check(pd, <<"entityIdVector">>, "DiscoverContextAvailability")
  /\ AttributeList_check(pd, <<"attributeList">>)
  /\ Restriction_check(pd, <<"restriction">>, restrictions(pd))

NotifyContextAvailabilityRequest_check(pd) ==
  /\ ~pd.errorString
  /\ SubscriptionId_check(pd, <<"subscriptionId">>)
  /\ ContextRegistrationResponseVector_check(
       pd, <<"contextRegistrationResponseVector">>, "QueryContext")

RegisterContextRequest_check(pd) ==
  /\ ~pd.errorString
  /\ Size(pd, <<"contextRegistrationVector">>) # 0
  /\ ContextRegistrationVector_check(pd, <<"contextRegistrationVector">>, "RegisterContext")
  /\ Duration_check(pd, <<"duration">>)
  /\ RegistrationId_check(pd, <<"registrationId">>)

RegisterContextResponse_check(pd) ==
  /\ ~pd.errorString
  /\ Duration_check(pd, <<"duration">>)
  /\ RegistrationId_check(pd, <<"registrationId">>)

SubscribeContextAvailabilityRequest_check(pd) ==
  /\ ~pd.errorString
  /\ EntityIdVector_check(pd, <<"entityIdVector">>, "SubscribeContextAvailability")
  /\ AttributeList_check(pd, <<"attributeList">>)
  /\ Reference_check(pd, <<"reference">>, "SubscribeContextAvailability")
  /\ Duration_check(pd, <<"duration">>)
  /\ Restriction_check(pd, <<"restriction">>, restrictions(pd))

UnsubscribeContextAvailabilityRequest_check(pd) ==
  ~pd.errorString /\ SubscriptionId_check(pd, <<"subscriptionId">>)

\* The restriction is checked with the counter 0, that is, not at all.
UpdateContextAvailabilitySubscriptionRequest_check(pd) ==
  /\ ~pd.errorString
  /\ EntityIdVector_check(pd, <<"entityIdVector">>, "UpdateContextAvailabilitySubscription")
  /\ AttributeList_check(pd, <<"attributeList">>)
  /\ Duration_check(pd, <<"duration">>)
  /\ Restriction_check(pd, <<"restriction">>, 0)
  /\ SubscriptionId_check(pd, <<"subscriptionId">>)

NotifyContextRequest_check(pd) ==
  /\ ~pd.errorString
  /\ SubscriptionId_check(pd, <<"subscriptionId">>)
  /\ ContextElementResponseVector_check(pd, <<"contextElementResponseVector">>, "QueryContext")

QueryContextRequest_check(pd) ==
  /\ ~pd.errorString
  /\ EntityIdVector_check(pd, <<"entityIdVector">>, "QueryContext")
  /\ AttributeList_check(pd, <<"attributeList">>)
  /\ Restriction_check(pd, <<"restriction">>, restrictions(pd))

QueryContextResponse_check(pd) ==
  /\ ~pd.errorString
  /\ ContextElementResponseVector_check(pd, <<"contextElementResponseVector">>, "QueryContext")

\* Errors met while parsing are not looked at, and the reference is not checked.
SubscribeContextRequest_check(pd) ==
  /\ EntityIdVector_check(pd, <<"entityIdVector">>, "SubscribeContext")
  /\ AttributeList_check(pd, <<"attributeList">>)
  /\ Duration_check(pd, <<"duration">>)
  /\ Restriction_check(pd, <<"restriction">>, restrictions(pd))
  /\ NotifyConditionVector_check(pd, <<"notifyConditionVector">>)
  /\ Throttling_check(pd, <<"throttling">>)

UnsubscribeContextRequest_check(pd) == SubscriptionId_check(pd, <<"subscriptionId">>)

UpdateContextRequest_check(pd) ==
  /\ ~pd.errorString
  /\ ContextElementVector_check(pd, <<"contextElementVector">>, "UpdateContext")
  /\ UpdateActionType_check(pd, <<"updateActionType">>)

UpdateContextResponse_check(pd) ==
  /\ ~pd.errorString
  /\ ContextElementResponseVector_check(pd, <<"contextElementResponseVector">>, "UpdateContext")

UpdateContextSubscriptionRequest_check(pd) ==
  /\ ~pd.errorString
  /\ Duration_check(pd, <<"duration">>)
  /\ Restriction_check(pd, <<"restriction">>, restrictions(pd))
  /\ SubscriptionId_check(pd, <<"subscriptionId">>)
  /\ NotifyConditionVector_check(pd, <<"notifyConditionVector">>)
  /\ Throttling_check(pd, <<"throttling">>)

AppendContextElementRequest_check(pd) ==
  /\ ~pd.errorString
  /\ ContextAttributeVector_check(pd, <<"contextAttributeVector">>)
  /\ MetadataVector_check(pd, <<"domainMetadataVector">>, "AppendContextElement")

UpdateContextElementRequest_check(pd) ==
  ~pd.errorString /\ ContextAttributeVector_check(pd, <<"contextAttributeVector">>)

UpdateContextAttributeRequest_check(pd) ==
  /\ ~pd.errorString
  /\ Text(pd, <<"contextValue">>) # "" \/ <<>> \in DOMAIN pd.compound
  /\ MetadataVector_check(pd, <<"metadataVector">>, "UpdateContextAttribute")

RegisterProviderRequest_check(pd) ==
  /\ ~pd.errorString
  /\ MetadataVector_check(pd, <<"metadataVector">>, "ContextEntitiesByEntityId")
  /\ Duration_check(pd, <<"duration">>)
  /\ ProvidingApplication_check(pd, <<"providingApplication">>)
  /\ RegistrationId_check(pd, <<"registrationId">>)
=============================================================================
