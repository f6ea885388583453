----------------------------- MODULE JsonParse ------------------------------
(***************************************************************************)
(* The parsers of JSON requests, lib/jsonParse: for each request its       *)
(* handlers, each by its effect, its parse vector, which gives the handler *)
(* of every path, and the pointers its init function sets to NULL.         *)
(***************************************************************************)
EXTENDS ParseData

-----------------------------------------------------------------------------
(* jsonAppendContextElementRequest.cpp                                      *)

jsonAcerAttributeDomainName ==
  [attributeDomainName |-> Set("res", <<"attributeDomainName">>),
   contextAttribute |-> New("attributeP", "res", <<"contextAttributeVector">>),
   contextAttributeName |-> Set("attributeP", <<"name">>),
   contextAttributeType |-> Set("attributeP", <<"type">>),
   contextAttributeValue |-> Val("attributeP"),
   contextMetadata |-> New("metadataP", "attributeP", <<"metadataVector">>),
   contextMetadataName |-> Set("metadataP", <<"name">>),
   contextMetadataType |-> Set("metadataP", <<"type">>),
   contextMetadataValue |-> Set("metadataP", <<"value">>),
   domainMetadata |-> New("domainMetadataP", "res", <<"domainMetadataVector">>),
   domainMetadataName |-> Set("domainMetadataP", <<"name">>)]

jsonAcerDomainMetadataType ==
  [domainMetadataType |-> Set("domainMetadataP", <<"type">>),
   domainMetadataValue |-> Set("domainMetadataP", <<"value">>),
   entityIdId |-> Set("res", <<"entity", "id">>),
   entityIdType |-> Set("res", <<"entity", "type">>),
   entityIdIsPattern |-> SetBool("res", <<"entity", "isPattern">>)]

jsonAcerParseVector ==
  At(<<>>, [
      attributeDomainName |-> "attributeDomainName", id |-> "entityIdId",
      type |-> "entityIdType", isPattern |-> "entityIdIsPattern",
      attributes |-> "nullTreat", metadatas |-> "nullTreat"]) @@
  At(<<"attributes">>, [attribute |-> "contextAttribute"]) @@
  At(<<"attributes", "attribute">>, [
      name |-> "contextAttributeName", type |-> "contextAttributeType",
      value |-> "contextAttributeValue", metadatas |-> "nullTreat"]) @@
  At(<<"attributes", "attribute", "metadatas">>, [metadata |-> "contextMetadata"]) @@
  At(<<"attributes", "attribute", "metadatas", "metadata">>, [
      name |-> "contextMetadataName", type |-> "contextMetadataType",
      value |-> "contextMetadataValue"]) @@
  At(<<"metadatas">>, [metadata |-> "domainMetadata"]) @@
  At(<<"metadatas", "metadata">>, [
      name |-> "domainMetadataName", type |-> "domainMetadataType",
      value |-> "domainMetadataValue"])

jsonAcerInit == {"attributeP", "metadataP", "domainMetadataP"}

-----------------------------------------------------------------------------
(* jsonDiscoverContextAvailabilityRequest.cpp                               *)

jsonDcarEntityId ==
  [entityId |-> NewEntity("entityIdP", "res", <<"entityIdVector">>),
   entityIdId |-> Set("entityIdP", <<"id">>), entityIdType |-> Set("entityIdP", <<"type">>),
   entityIdIsPattern |-> Set("entityIdP", <<"isPattern">>),
   attribute |-> Push("res", <<"attributeList">>), attributeList |-> Null,
   restriction |-> Count("res", <<"restrictions">>),
   attributeExpression |-> Set("res", <<"restriction", "attributeExpression">>),
   operationScope |-> New("scopeP", "res", <<"restriction", "scopeVector">>)]

jsonDcarScopeType ==
  [scopeType |-> Set("scopeP", <<"type">>), scopeValue |-> Set("scopeP", <<"value">>)]

jsonDcarParseVector ==
  At(<<>>, [
      entities |-> "nullTreat", attributes |-> "attributeList",
      restriction |-> "restriction"]) @@
  At(<<"entities">>, [entity |-> "entityId"]) @@
  At(<<"entities", "entity">>, [
      id |-> "entityIdId", type |-> "entityIdType", isPattern |-> "entityIdIsPattern"]) @@
  At(<<"attributes">>, [attribute |-> "attribute"]) @@
  At(<<"restriction">>, [
      attributeExpression |-> "attributeExpression", scopes |-> "nullTreat"]) @@
  At(<<"restriction", "scopes">>, [scope |-> "operationScope"]) @@
  At(<<"restriction", "scopes", "scope">>, [
      type |-> "scopeType", value |-> "scopeValue"])

jsonDcarInit == {"entityIdP", "scopeP"}

-----------------------------------------------------------------------------
(* jsonNotifyContextAvailabilityRequest.cpp                                 *)

jsonNcarSubscriptionId ==
  [subscriptionId |-> Set("res", <<"subscriptionId">>),
   contextRegistrationResponse |-> New("crrP", "res", <<"contextRegistrationResponseVector">>),
   entityId |-> New("entityIdP", "crrP", <<"contextRegistration", "entityIdVector">>),
   entityIdId |-> Set("entityIdP", <<"id">>), entityIdType |-> Set("entityIdP", <<"type">>),
   entityIdIsPattern |-> Set("entityIdP", <<"isPattern">>),
   attribute |-> New("craP", "crrP", <<"contextRegistration", "contextRegistrationAttributeVector">>),
   attributeName |-> Set("craP", <<"name">>), attributeType |-> Set("craP", <<"type">>),
   attributeIsDomain |-> Set("craP", <<"isDomain">>)]

jsonNcarAttributeMetadata ==
  [attributeMetadata |-> New("attributeMetadataP", "craP", <<"metadataVector">>),
   attributeMetadataName |-> Set("attributeMetadataP", <<"name">>),
   attributeMetadataType |-> Set("attributeMetadataP", <<"type">>),
   attributeMetadataValue |-> Set("attributeMetadataP", <<"value">>),
   registrationMetadata |-> New("regMetadataP", "crrP", <<"contextRegistration", "registrationMetadataVector">>),
   registrationMetadataName |-> Set("regMetadataP", <<"name">>),
   registrationMetadataType |-> Set("regMetadataP", <<"type">>),
   registrationMetadataValue |-> Set("regMetadataP", <<"value">>),
   providingApplication |-> Set("crrP", <<"contextRegistration", "providingApplication">>)]

jsonNcarParseVector ==
  At(<<>>, [
      subscriptionId |-> "subscriptionId", contextRegistrationResponses |-> "nullTreat"]) @@
  At(<<"contextRegistrationResponses">>, [
      contextRegistrationResponse |-> "contextRegistrationResponse"]) @@
  At(<<"contextRegistrationResponses", "contextRegistrationResponse">>, [
      contextRegistration |-> "nullTreat"]) @@
  At(<<"contextRegistrationResponses", "contextRegistrationResponse", "contextRegistration">>, [
      entities |-> "nullTreat", attributes |-> "nullTreat", metadatas |-> "nullTreat",
      providingApplication |-> "providingApplication"]) @@
  At(<<"contextRegistrationResponses", "contextRegistrationResponse", "contextRegistration", "entities">>, [
      entity |-> "entityId"]) @@
  At(<<"contextRegistrationResponses", "contextRegistrationResponse", "contextRegistration", "entities", "entity">>, [
      id |-> "entityIdId", type |-> "entityIdType", isPattern |-> "entityIdIsPattern"]) @@
  At(<<"contextRegistrationResponses", "contextRegistrationResponse", "contextRegistration", "attributes">>, [
      attribute |-> "attribute"]) @@
  At(<<"contextRegistrationResponses", "contextRegistrationResponse", "contextRegistration", "attributes", "attribute">>, [
      name |-> "attributeName", type |-> "attributeType", isDomain |-> "attributeIsDomain",
      metadatas |-> "nullTreat"]) @@
  At(<<"contextRegistrationResponses", "contextRegistrationResponse", "contextRegistration", "attributes", "attribute", "metadatas">>, [
      metadata |-> "attributeMetadata"]) @@
  At(<<"contextRegistrationResponses", "contextRegistrationResponse", "contextRegistration", "attributes", "attribute", "metadatas", "metadata">>, [
      name |-> "attributeMetadataName", type |-> "attributeMetadataType",
      value |-> "attributeMetadataValue"]) @@
  At(<<"contextRegistrationResponses", "contextRegistrationResponse", "contextRegistration", "metadatas">>, [
      metadata |-> "registrationMetadata"]) @@
  At(<<"contextRegistrationResponses", "contextRegistrationResponse", "contextRegistration", "metadatas", "metadata">>, [
      name |-> "registrationMetadataName", type |-> "registrationMetadataType",
      value |-> "registrationMetadataValue"])

jsonNcarInit == {"crrP", "entityIdP", "craP", "attributeMetadataP", "regMetadataP"}

-----------------------------------------------------------------------------
(* jsonNotifyContextRequest.cpp                                             *)

jsonNcrSubscriptionId ==
  [subscriptionId |-> Set("res", <<"subscriptionId">>),
   originator |-> Set("res", <<"originator">>),
   contextResponse |-> New("cerP", "res", <<"contextElementResponseVector">>),
   entityIdId |-> Set("cerP", <<"contextElement", "entityId", "id">>),
   entityIdType |-> Set("cerP", <<"contextElement", "entityId", "type">>),
   entityIdIsPattern |-> Set("cerP", <<"contextElement", "entityId", "isPattern">>),
   attributeDomainName |-> Set("cerP", <<"contextElement", "attributeDomainName">>),
   attribute |-> New("attributeP", "cerP", <<"contextElement", "contextAttributeVector">>),
   attributeName |-> Set("attributeP", <<"name">>),
   attributeType |-> Set("attributeP", <<"type">>), attributeValue |-> Val("attributeP")]

jsonNcrStatusCodeCode ==
  [statusCodeCode |-> Set("cerP", <<"statusCode", "code">>),
   statusCodeReasonPhrase |-> Set("cerP", <<"statusCode", "reasonPhrase">>),
   statusCodeDetails |-> Set("cerP", <<"statusCode", "details">>),
   attributeMetadata |-> New("attributeMetadataP", "attributeP", <<"metadataVector">>),
   attributeMetadataName |-> Set("attributeMetadataP", <<"name">>),
   attributeMetadataType |-> Set("attributeMetadataP", <<"type">>),
   attributeMetadataValue |-> Set("attributeMetadataP", <<"value">>),
   domainMetadata |-> New("domainMetadataP", "cerP", <<"contextElement", "domainMetadataVector">>),
   domainMetadataName |-> Set("domainMetadataP", <<"name">>),
   domainMetadataType |-> Set("domainMetadataP", <<"type">>),
   domainMetadataValue |-> Set("domainMetadataP", <<"value">>)]

jsonNcrParseVector ==
  At(<<>>, [
      subscriptionId |-> "subscriptionId", originator |-> "originator",
      contextResponses |-> "nullTreat"]) @@
  At(<<"contextResponses">>, [contextResponse |-> "contextResponse"]) @@
  At(<<"contextResponses", "contextResponse">>, [
      contextElement |-> "nullTreat", statusCode |-> "nullTreat"]) @@
  At(<<"contextResponses", "contextResponse", "contextElement">>, [
      id |-> "entityIdId", type |-> "entityIdType", isPattern |-> "entityIdIsPattern",
      attributeDomainName |-> "attributeDomainName", attributes |-> "nullTreat",
      metadatas |-> "nullTreat"]) @@
  At(<<"contextResponses", "contextResponse", "contextElement", "attributes">>, [
      attribute |-> "attribute"]) @@
  At(<<"contextResponses", "contextResponse", "contextElement", "attributes", "attribute">>, [
      name |-> "attributeName", type |-> "attributeType", value |-> "attributeValue",
      metadatas |-> "nullTreat"]) @@
  At(<<"contextResponses", "contextResponse", "contextElement", "attributes", "attribute", "metadatas">>, [
      metadata |-> "attributeMetadata"]) @@
  At(<<"contextResponses", "contextResponse", "contextElement", "attributes", "attribute", "metadatas", "metadata">>, [
      name |-> "attributeMetadataName", type |-> "attributeMetadataType",
      value |-> "attributeMetadataValue"]) @@
  At(<<"contextResponses", "contextResponse", "contextElement", "metadatas">>, [
      metadata |-> "domainMetadata"]) @@
  At(<<"contextResponses", "contextResponse", "contextElement", "metadatas", "metadata">>, [
      name |-> "domainMetadataName", type |-> "domainMetadataType",
      value |-> "domainMetadataValue"]) @@
  At(<<"contextResponses", "contextResponse", "statusCode">>, [
      code |-> "statusCodeCode", reasonPhrase |-> "statusCodeReasonPhrase",
      details |-> "statusCodeDetails"])

jsonNcrInit == {"cerP", "attributeP", "attributeMetadataP", "domainMetadataP"}

-----------------------------------------------------------------------------
(* jsonQueryContextRequest.cpp                                              *)

jsonQcrEntityId ==
  [entityId |-> NewEntity("entityIdP", "res", <<"entityIdVector">>),
   entityIdId |-> Set("entityIdP", <<"id">>), entityIdType |-> Set("entityIdP", <<"type">>),
   entityIdIsPattern |-> Set("entityIdP", <<"isPattern">>),
   attribute |-> PushNonEmpty("res", <<"attributeList">>), attributeList |-> Null,
   restriction |-> Count("res", <<"restrictions">>),
   attributeExpression |-> SetNonEmpty("res", <<"restriction", "attributeExpression">>),
   operationScope |-> New("scopeP", "res", <<"restriction", "scopeVector">>)]

jsonQcrScopeType ==
  [scopeType |-> Set("scopeP", <<"type">>), scopeValue |-> ScopeValue("scopeP", BothNames),
   circle |-> Area("scopeP", "Circle"),
   circleCenterLatitude |-> Set("scopeP", <<"circle", "center", "latitude">>),
   circleCenterLongitude |-> Set("scopeP", <<"circle", "center", "longitude">>),
   circleRadius |-> Set("scopeP", <<"circle", "radius">>),
   circleInverted |-> SetOrErr("scopeP", <<"circle", "inverted">>),
   polygon |-> Area("scopeP", "Polygon"),
   polygonInverted |-> SetOrErr("scopeP", <<"polygon", "inverted">>)]

jsonQcrPolygonVertexList ==
  [polygonVertexList |-> Null,
   polygonVertex |-> New("vertexP", "scopeP", <<"polygon", "vertexList">>),
   polygonVertexLatitude |-> Set("vertexP", <<"latitude">>),
   polygonVertexLongitude |-> Set("vertexP", <<"longitude">>)]

jsonQcrParseVector ==
  At(<<>>, [
      entities |-> "nullTreat", attributes |-> "attributeList",
      restriction |-> "restriction"]) @@
  At(<<"entities">>, [entity |-> "entityId"]) @@
  At(<<"entities", "entity">>, [
      id |-> "entityIdId", type |-> "entityIdType", isPattern |-> "entityIdIsPattern"]) @@
  At(<<"attributes">>, [attribute |-> "attribute"]) @@
  At(<<"restriction">>, [
      attributeExpression |-> "attributeExpression", scopes |-> "nullTreat"]) @@
  At(<<"restriction", "scopes">>, [scope |-> "operationScope"]) @@
  At(<<"restriction", "scopes", "scope">>, [
      type |-> "scopeType", value |-> "scopeValue"]) @@
  At(<<"restriction", "scopes", "scope", "value">>, [
      circle |-> "circle", polygon |-> "polygon"]) @@
  At(<<"restriction", "scopes", "scope", "value", "circle">>, [
      centerLatitude |-> "circleCenterLatitude",
      centerLongitude |-> "circleCenterLongitude", radius |-> "circleRadius",
      inverted |-> "circleInverted"]) @@
  At(<<"restriction", "scopes", "scope", "value", "polygon">>, [
      inverted |-> "polygonInverted", vertices |-> "polygonVertexList"]) @@
  At(<<"restriction", "scopes", "scope", "value", "polygon", "vertices">>, [
      vertice |-> "polygonVertex"]) @@
  At(<<"restriction", "scopes", "scope", "value", "polygon", "vertices", "vertice">>, [
      latitude |-> "polygonVertexLatitude", longitude |-> "polygonVertexLongitude"])

jsonQcrInit == {"entityIdP", "scopeP"}

-----------------------------------------------------------------------------
(* jsonQueryContextResponse.cpp                                             *)

jsonQcrsContextResponse ==
  [contextResponse |-> New("cerP", "res", <<"contextElementResponseVector">>),
   entityIdId |-> Set("cerP", <<"contextElement", "entityId", "id">>),
   entityIdType |-> Set("cerP", <<"contextElement", "entityId", "type">>),
   entityIdIsPattern |-> Set("cerP", <<"contextElement", "entityId", "isPattern">>),
   attributeDomainName |-> Set("cerP", <<"contextElement", "attributeDomainName">>),
   attribute |-> New("attributeP", "cerP", <<"contextElement", "contextAttributeVector">>),
   attributeName |-> Set("attributeP", <<"name">>),
   attributeType |-> Set("attributeP", <<"type">>), attributeValue |-> Val("attributeP"),
   attributeMetadata |-> New("metadataP", "attributeP", <<"metadataVector">>),
   attributeMetadataName |-> Set("metadataP", <<"name">>)]

jsonQcrsAttributeMetadataType ==
  [attributeMetadataType |-> Set("metadataP", <<"type">>),
   attributeMetadataValue |-> Set("metadataP", <<"value">>),
   domainMetadata |-> New("domainMetadataP", "cerP", <<"contextElement", "domainMetadataVector">>),
   domainMetadataName |-> Set("domainMetadataP", <<"name">>),
   domainMetadataType |-> Set("domainMetadataP", <<"type">>),
   domainMetadataValue |-> Set("domainMetadataP", <<"value">>),
   statusCodeCode |-> Set("cerP", <<"statusCode", "code">>),
   statusCodeReasonPhrase |-> Set("cerP", <<"statusCode", "reasonPhrase">>),
   statusCodeDetails |-> Set("cerP", <<"statusCode", "details">>),
   errorCodeCode |-> Set("res", <<"errorCode", "code">>),
   errorCodeReasonPhrase |-> Set("res", <<"errorCode", "reasonPhrase">>)]

jsonQcrsErrorCodeDetails ==
  [errorCodeDetails |-> Set("res", <<"errorCode", "details">>)]

jsonQcrsParseVector ==
  At(<<>>, [contextResponses |-> "nullTreat", errorCode |-> "nullTreat"]) @@
  At(<<"contextResponses">>, [contextResponse |-> "contextResponse"]) @@
  At(<<"contextResponses", "contextResponse">>, [
      contextElement |-> "nullTreat", statusCode |-> "nullTreat"]) @@
  At(<<"contextResponses", "contextResponse", "contextElement">>, [
      id |-> "entityIdId", type |-> "entityIdType", isPattern |-> "entityIdIsPattern",
      attributeDomainName |-> "attributeDomainName", attributes |-> "nullTreat",
      metadatas |-> "nullTreat"]) @@
  At(<<"contextResponses", "contextResponse", "contextElement", "attributes">>, [
      attribute |-> "attribute"]) @@
  At(<<"contextResponses", "contextResponse", "contextElement", "attributes", "attribute">>, [
      name |-> "attributeName", type |-> "attributeType", value |-> "attributeValue",
      metadatas |-> "nullTreat"]) @@
  At(<<"contextResponses", "contextResponse", "contextElement", "attributes", "attribute", "metadatas">>, [
      metadata |-> "attributeMetadata"]) @@
  At(<<"contextResponses", "contextResponse", "contextElement", "attributes", "attribute", "metadatas", "metadata">>, [
      name |-> "attributeMetadataName", type |-> "attributeMetadataType",
      value |-> "attributeMetadataValue"]) @@
  At(<<"contextResponses", "contextResponse", "contextElement", "metadatas">>, [
      metadata |-> "domainMetadata"]) @@
  At(<<"contextResponses", "contextResponse", "contextElement", "metadatas", "metadata">>, [
      name |-> "domainMetadataName", type |-> "domainMetadataType",
      value |-> "domainMetadataValue"]) @@
  At(<<"contextResponses", "contextResponse", "statusCode">>, [
      code |-> "statusCodeCode", reasonPhrase |-> "statusCodeReasonPhrase",
      details |-> "statusCodeDetails"]) @@
  At(<<"errorCode">>, [
      code |-> "errorCodeCode", reasonPhrase |-> "errorCodeReasonPhrase",
      details |-> "errorCodeDetails"])

jsonQcrsInit == {"cerP", "attributeP", "metadataP", "domainMetadataP"}

-----------------------------------------------------------------------------
(* jsonRegisterContextRequest.cpp                                           *)

jsonRcrContextRegistration ==
  [contextRegistration |-> New("crP", "res", <<"contextRegistrationVector">>),
   entityId |-> NewEntity("entityIdP", "crP", <<"entityIdVector">>),
   entityIdId |-> Set("entityIdP", <<"id">>), entityIdType |-> Set("entityIdP", <<"type">>),
   entityIdIsPattern |-> SetFalse("entityIdP", <<"isPattern">>),
   crAttribute |-> New("attributeP", "crP", <<"contextRegistrationAttributeVector">>),
   craName |-> Set("attributeP", <<"name">>), craType |-> Set("attributeP", <<"type">>)]

jsonRcrCraIsDomain ==
  [craIsDomain |-> SetBool("attributeP", <<"isDomain">>),
   craMetadata |-> New("attributeMetadataP", "attributeP", <<"metadataVector">>),
   craMetadataName |-> Set("attributeMetadataP", <<"name">>),
   craMetadataType |-> Set("attributeMetadataP", <<"type">>),
   craMetadataValue |-> Set("attributeMetadataP", <<"value">>),
   regMetadata |-> New("registrationMetadataP", "crP", <<"registrationMetadataVector">>),
   regMetadataName |-> Set("registrationMetadataP", <<"name">>),
   regMetadataType |-> Set("registrationMetadataP", <<"type">>),
   regMetadataValue |-> Set("registrationMetadataP", <<"value">>)]

jsonRcrProvidingApplication ==
  [providingApplication |-> Set("crP", <<"providingApplication">>),
   duration |-> Set("res", <<"duration">>),
   registrationId |-> Set("res", <<"registrationId">>),
   sourceEntityId |-> Fill("registrationMetadataP", <<"association", "entityAssociation", "source">>),
   sourceEntityIdId |-> Set("registrationMetadataP", <<"association", "entityAssociation", "source", "id">>),
   sourceEntityIdType |-> Set("registrationMetadataP", <<"association", "entityAssociation", "source", "type">>),
   sourceEntityIdIsPattern |-> SetFalse("registrationMetadataP", <<"association", "entityAssociation", "source", "isPattern">>),
   targetEntityId |-> Fill("registrationMetadataP", <<"association", "entityAssociation", "target">>),
   targetEntityIdId |-> Set("registrationMetadataP", <<"association", "entityAssociation", "target", "id">>),
   targetEntityIdType |-> Set("registrationMetadataP", <<"association", "entityAssociation", "target", "type">>)]

jsonRcrTargetEntityIdIsPattern ==
  [targetEntityIdIsPattern |-> SetFalse("registrationMetadataP", <<"association", "entityAssociation", "target", "isPattern">>),
   attributeAssociation |-> New("attributeAssociationP", "registrationMetadataP", <<"association", "attributeAssociationList">>),
   sourceAttribute |-> Set("attributeAssociationP", <<"source">>),
   targetAttribute |-> Set("attributeAssociationP", <<"target">>)]

jsonRcrParseVector ==
  At(<<>>, [
      contextRegistrations |-> "nullTreat", duration |-> "duration",
      registrationId |-> "registrationId"]) @@
  At(<<"contextRegistrations">>, [contextRegistration |-> "contextRegistration"]) @@
  At(<<"contextRegistrations", "contextRegistration">>, [
      entities |-> "nullTreat", attributes |-> "nullTreat", metadatas |-> "nullTreat",
      providingApplication |-> "providingApplication"]) @@
  At(<<"contextRegistrations", "contextRegistration", "entities">>, [
      entity |-> "entityId"]) @@
  At(<<"contextRegistrations", "contextRegistration", "entities", "entity">>, [
      id |-> "entityIdId", type |-> "entityIdType", isPattern |-> "entityIdIsPattern"]) @@
  At(<<"contextRegistrations", "contextRegistration", "attributes">>, [
      attribute |-> "crAttribute"]) @@
  At(<<"contextRegistrations", "contextRegistration", "attributes", "attribute">>, [
      name |-> "craName", type |-> "craType", isDomain |-> "craIsDomain",
      metadatas |-> "nullTreat"]) @@
  At(<<"contextRegistrations", "contextRegistration", "attributes", "attribute", "metadatas">>, [
      metadata |-> "craMetadata"]) @@
  At(<<"contextRegistrations", "contextRegistration", "attributes", "attribute", "metadatas", "metadata">>, [
      name |-> "craMetadataName", type |-> "craMetadataType", value |-> "craMetadataValue"]) @@
  At(<<"contextRegistrations", "contextRegistration", "metadatas">>, [
      metadata |-> "regMetadata"]) @@
  At(<<"contextRegistrations", "contextRegistration", "metadatas", "metadata">>, [
      name |-> "regMetadataName", type |-> "regMetadataType", value |-> "regMetadataValue"]) @@
  At(<<"contextRegistrations", "contextRegistration", "metadatas", "metadata", "value">>, [
      source |-> "sourceEntityId", target |-> "targetEntityId",
      attributeAssociations |-> "nullTreat"]) @@
  At(<<"contextRegistrations", "contextRegistration", "metadatas", "metadata", "value", "source">>, [
      id |-> "sourceEntityIdId", type |-> "sourceEntityIdType",
      isPattern |-> "sourceEntityIdIsPattern"]) @@
  At(<<"contextRegistrations", "contextRegistration", "metadatas", "metadata", "value", "target">>, [
      id |-> "targetEntityIdId", type |-> "targetEntityIdType",
      isPattern |-> "targetEntityIdIsPattern"]) @@
  At(<<"contextRegistrations", "contextRegistration", "metadatas", "metadata", "value", "attributeAssociations">>, [
      attributeAssociation |-> "attributeAssociation"]) @@
  At(<<"contextRegistrations", "contextRegistration", "metadatas", "metadata", "value", "attributeAssociations", "attributeAssociation">>, [
      source |-> "sourceAttribute", target |-> "targetAttribute"])

jsonRcrInit == {"crP", "entityIdP", "attributeP", "attributeMetadataP", "registrationMetadataP"}

-----------------------------------------------------------------------------
(* jsonRegisterProviderRequest.cpp                                          *)

jsonRprContextMetadata ==
  [contextMetadata |-> New("metadataP", "res", <<"metadataVector">>),
   contextMetadataName |-> Set("metadataP", <<"name">>),
   contextMetadataType |-> Set("metadataP", <<"type">>),
   contextMetadataValue |-> Set("metadataP", <<"value">>),
   duration |-> Set("res", <<"duration">>),
   providingApplication |-> Set("res", <<"providingApplication">>),
   registrationId |-> Set("res", <<"registrationId">>)]

jsonRprParseVector ==
  At(<<>>, [
      metadatas |-> "nullTreat", duration |-> "duration",
      providingApplication |-> "providingApplication", registrationId |-> "registrationId"]) @@
  At(<<"metadatas">>, [metadata |-> "contextMetadata"]) @@
  At(<<"metadatas", "metadata">>, [
      name |-> "contextMetadataName", type |-> "contextMetadataType",
      value |-> "contextMetadataValue"])

jsonRprInit == {"metadataP"}

-----------------------------------------------------------------------------
(* jsonSubscribeContextAvailabilityRequest.cpp                              *)

jsonScarEntityId ==
  [entityId |-> NewEntity("entityIdP", "res", <<"entityIdVector">>),
   entityIdId |-> Set("entityIdP", <<"id">>), entityIdType |-> Set("entityIdP", <<"type">>),
   entityIdIsPattern |-> SetBool("entityIdP", <<"isPattern">>),
   attribute |-> Push("res", <<"attributeList">>),
   reference |-> Set("res", <<"reference">>), duration |-> Set("res", <<"duration">>),
   restriction |-> Count("res", <<"restrictions">>),
   attributeExpression |-> Set("res", <<"restriction", "attributeExpression">>)]

jsonScarScope ==
  [scope |-> New("scopeP", "res", <<"restriction", "scopeVector">>),
   scopeType |-> Set("scopeP", <<"type">>), scopeValue |-> Set("scopeP", <<"value">>)]

jsonScarParseVector ==
  At(<<>>, [
      entities |-> "nullTreat", attributes |-> "nullTreat", reference |-> "reference",
      duration |-> "duration", restriction |-> "restriction"]) @@
  At(<<"entities">>, [entity |-> "entityId"]) @@
  At(<<"entities", "entity">>, [
      id |-> "entityIdId", type |-> "entityIdType", isPattern |-> "entityIdIsPattern"]) @@
  At(<<"attributes">>, [attribute |-> "attribute"]) @@
  At(<<"restriction">>, [
      attributeExpression |-> "attributeExpression", scopes |-> "nullTreat"]) @@
  At(<<"restriction", "scopes">>, [scope |-> "scope"]) @@
  At(<<"restriction", "scopes", "scope">>, [
      type |-> "scopeType", value |-> "scopeValue"])

jsonScarInit == {"entityIdP", "scopeP"}

-----------------------------------------------------------------------------
(* jsonSubscribeContextRequest.cpp                                          *)

jsonScrEntityId ==
  [entityId |-> NewEntity("entityIdP", "res", <<"entityIdVector">>),
   entityIdId |-> Set("entityIdP", <<"id">>), entityIdType |-> Set("entityIdP", <<"type">>),
   entityIdIsPattern |-> Set("entityIdP", <<"isPattern">>),
   attribute |-> Push("res", <<"attributeList">>),
   reference |-> Set("res", <<"reference">>), duration |-> Set("res", <<"duration">>),
   restriction |-> Count("res", <<"restrictions">>),
   attributeExpression |-> Set("res", <<"restriction", "attributeExpression">>)]

jsonScrScope ==
  [scope |-> New("scopeP", "res", <<"restriction", "scopeVector">>),
   scopeType |-> Set("scopeP", <<"type">>), scopeValue |-> ScopeValue("scopeP", BothNames),
   circle |-> Area("scopeP", "Circle"),
   circleCenterLatitude |-> Set("scopeP", <<"circle", "center", "latitude">>),
   circleCenterLongitude |-> Set("scopeP", <<"circle", "center", "longitude">>),
   circleRadius |-> Set("scopeP", <<"circle", "radius">>),
   circleInverted |-> SetOrErr("scopeP", <<"circle", "inverted">>),
   polygon |-> Area("scopeP", "Polygon")]

jsonScrPolygonInverted ==
  [polygonInverted |-> SetOrErr("scopeP", <<"polygon", "inverted">>),
   polygonVertexList |-> Null,
   polygonVertex |-> New("vertexP", "scopeP", <<"polygon", "vertexList">>),
   polygonVertexLatitude |-> Set("vertexP", <<"latitude">>),
   polygonVertexLongitude |-> Set("vertexP", <<"longitude">>),
   notifyCondition |-> New("notifyConditionP", "res", <<"notifyConditionVector">>),
   notifyConditionRestriction |-> Set("notifyConditionP", <<"restriction">>),
   notifyConditionType |-> Set("notifyConditionP", <<"type">>),
   notifyConditionCondValue |-> Push("notifyConditionP", <<"condValueList">>),
   throttling |-> Set("res", <<"throttling">>)]

jsonScrParseVector ==
  At(<<>>, [
      entities |-> "nullTreat", attributes |-> "nullTreat", reference |-> "reference",
      duration |-> "duration", restriction |-> "restriction",
      notifyConditions |-> "nullTreat", throttling |-> "throttling"]) @@
  At(<<"entities">>, [entity |-> "entityId"]) @@
  At(<<"entities", "entity">>, [
      id |-> "entityIdId", type |-> "entityIdType", isPattern |-> "entityIdIsPattern"]) @@
  At(<<"attributes">>, [attribute |-> "attribute"]) @@
  At(<<"restriction">>, [
      attributeExpression |-> "attributeExpression", scopes |-> "nullTreat"]) @@
  At(<<"restriction", "scopes">>, [scope |-> "scope"]) @@
  At(<<"restriction", "scopes", "scope">>, [
      type |-> "scopeType", value |-> "scopeValue"]) @@
  At(<<"restriction", "scopes", "scope", "value">>, [
      circle |-> "circle", polygon |-> "polygon"]) @@
  At(<<"restriction", "scopes", "scope", "value", "circle">>, [
      centerLatitude |-> "circleCenterLatitude",
      centerLongitude |-> "circleCenterLongitude", radius |-> "circleRadius",
      inverted |-> "circleInverted"]) @@
  At(<<"restriction", "scopes", "scope", "value", "polygon">>, [
      vertices |-> "polygonVertexList", inverted |-> "polygonInverted"]) @@
  At(<<"restriction", "scopes", "scope", "value", "polygon", "vertices">>, [
      vertice |-> "polygonVertex"]) @@
  At(<<"restriction", "scopes", "scope", "value", "polygon", "vertices", "vertice">>, [
      latitude |-> "polygonVertexLatitude", longitude |-> "polygonVertexLongitude"]) @@
  At(<<"notifyConditions">>, [notifyCondition |-> "notifyCondition"]) @@
  At(<<"notifyConditions", "notifyCondition">>, [
      type |-> "notifyConditionType", condValues |-> "nullTreat",
      restriction |-> "notifyConditionRestriction"]) @@
  At(<<"notifyConditions", "notifyCondition", "condValues">>, [
      condValue |-> "notifyConditionCondValue"])

jsonScrInit == {"entityIdP", "notifyConditionP", "scopeP"}

-----------------------------------------------------------------------------
(* jsonUnsubscribeContextAvailabilityRequest.cpp                            *)

jsonUcarSubscriptionId ==
  [subscriptionId |-> Set("res", <<"subscriptionId">>)]

jsonUcarParseVector ==
  At(<<>>, [subscriptionId |-> "subscriptionId"])

jsonUcarInit == {}

-----------------------------------------------------------------------------
(* jsonUnsubscribeContextRequest.cpp                                        *)

jsonUncrSubscriptionId ==
  [subscriptionId |-> Set("res", <<"subscriptionId">>)]

jsonUncrParseVector ==
  At(<<>>, [subscriptionId |-> "subscriptionId"])

jsonUncrInit == {}

-----------------------------------------------------------------------------
(* jsonUpdateContextAttributeRequest.cpp                                    *)

jsonUpcarAttributeType ==
  [attributeType |-> Set("res", <<"type">>),
   attributeValue |-> Set("res", <<"contextValue">>),
   contextMetadata |-> New("metadataP", "res", <<"metadataVector">>),
   contextMetadataName |-> Set("metadataP", <<"name">>),
   contextMetadataType |-> Set("metadataP", <<"type">>),
   contextMetadataValue |-> Set("metadataP", <<"value">>)]

jsonUpcarParseVector ==
  At(<<>>, [
      type |-> "attributeType", value |-> "attributeValue", metadatas |-> "nullTreat"]) @@
  At(<<"metadatas">>, [metadata |-> "contextMetadata"]) @@
  At(<<"metadatas", "metadata">>, [
      name |-> "contextMetadataName", type |-> "contextMetadataType",
      value |-> "contextMetadataValue"])

jsonUpcarInit == {}

-----------------------------------------------------------------------------
(* jsonUpdateContextAvailabilitySubscriptionRequest.cpp                     *)

jsonUcasEntityId ==
  [entityId |-> NewEntity("entityIdP", "res", <<"entityIdVector">>),
   entityIdId |-> Set("entityIdP", <<"id">>), entityIdType |-> Set("entityIdP", <<"type">>),
   entityIdIsPattern |-> SetBoolOrErr("entityIdP", <<"isPattern">>),
   attribute |-> Push("res", <<"attributeList">>), duration |-> Set("res", <<"duration">>),
   restriction |-> Count("res", <<"restrictions">>),
   attributeExpression |-> Set("res", <<"restriction", "attributeExpression">>),
   scope |-> New("scopeP", "res", <<"restriction", "scopeVector">>)]

jsonUcasScopeType ==
  [scopeType |-> Set("scopeP", <<"type">>), scopeValue |-> Set("scopeP", <<"value">>),
   subscriptionId |-> Set("res", <<"subscriptionId">>)]

jsonUcasParseVector ==
  At(<<>>, [
      entities |-> "nullTreat", attributes |-> "nullTreat", duration |-> "duration",
      restriction |-> "restriction", subscriptionId |-> "subscriptionId"]) @@
  At(<<"entities">>, [entity |-> "entityId"]) @@
  At(<<"entities", "entity">>, [
      id |-> "entityIdId", type |-> "entityIdType", isPattern |-> "entityIdIsPattern"]) @@
  At(<<"attributes">>, [attribute |-> "attribute"]) @@
  At(<<"restriction">>, [
      attributeExpression |-> "attributeExpression", scopes |-> "nullTreat"]) @@
  At(<<"restriction", "scopes">>, [scope |-> "scope"]) @@
  At(<<"restriction", "scopes", "scope">>, [
      type |-> "scopeType", value |-> "scopeValue"])

jsonUcasInit == {"entityIdP", "scopeP"}

-----------------------------------------------------------------------------
(* jsonUpdateContextElementRequest.cpp                                      *)

jsonUcerAttributeDomainName ==
  [attributeDomainName |-> Set("res", <<"attributeDomainName">>),
   contextAttribute |-> New("attributeP", "res", <<"contextAttributeVector">>),
   contextAttributeName |-> Set("attributeP", <<"name">>),
   contextAttributeType |-> Set("attributeP", <<"type">>),
   contextAttributeValue |-> Val("attributeP"),
   contextMetadata |-> New("metadataP", "attributeP", <<"metadataVector">>),
   contextMetadataName |-> Set("metadataP", <<"name">>),
   contextMetadataType |-> Set("metadataP", <<"type">>),
   contextMetadataValue |-> Set("metadataP", <<"value">>)]

jsonUcerParseVector ==
  At(<<>>, [attributeDomainName |-> "attributeDomainName", attributes |-> "nullTreat"]) @@
  At(<<"attributes">>, [attribute |-> "contextAttribute"]) @@
  At(<<"attributes", "attribute">>, [
      name |-> "contextAttributeName", type |-> "contextAttributeType",
      value |-> "contextAttributeValue", metadatas |-> "nullTreat"]) @@
  At(<<"attributes", "attribute", "metadatas">>, [metadata |-> "contextMetadata"]) @@
  At(<<"attributes", "attribute", "metadatas", "metadata">>, [
      name |-> "contextMetadataName", type |-> "contextMetadataType",
      value |-> "contextMetadataValue"])

jsonUcerInit == {"attributeP", "metadataP"}

-----------------------------------------------------------------------------
(* jsonUpdateContextRequest.cpp                                             *)

jsonUpcrContextElement ==
  [contextElement |-> New("ceP", "res", <<"contextElementVector">>),
   entityIdId |-> Set("ceP", <<"entityId", "id">>),
   entityIdType |-> Set("ceP", <<"entityId", "type">>),
   entityIdIsPattern |-> Set("ceP", <<"entityId", "isPattern">>),
   attributeDomainName |-> Set("ceP", <<"attributeDomainName">>),
   attribute |-> New("attributeP", "ceP", <<"contextAttributeVector">>),
   attributeName |-> Set("attributeP", <<"name">>),
   attributeType |-> Set("attributeP", <<"type">>), attributeValue |-> Val("attributeP")]

jsonUpcrMetadata ==
  [metadata |-> New("contextMetadataP", "attributeP", <<"metadataVector">>),
   metadataName |-> Set("contextMetadataP", <<"name">>),
   metadataType |-> Set("contextMetadataP", <<"type">>),
   metadataValue |-> Set("contextMetadataP", <<"value">>),
   domainMetadata |-> New("domainMetadataP", "ceP", <<"domainMetadataVector">>),
   domainMetadataName |-> Set("domainMetadataP", <<"name">>),
   domainMetadataType |-> Set("domainMetadataP", <<"type">>),
   domainMetadataValue |-> Set("domainMetadataP", <<"value">>),
   updateAction |-> Set("res", <<"updateActionType">>)]

jsonUpcrParseVector ==
  At(<<>>, [contextElements |-> "nullTreat", updateAction |-> "updateAction"]) @@
  At(<<"contextElements">>, [contextElement |-> "contextElement"]) @@
  At(<<"contextElements", "contextElement">>, [
      type |-> "entityIdType", isPattern |-> "entityIdIsPattern", id |-> "entityIdId",
      attributeDomainName |-> "attributeDomainName", attributes |-> "nullTreat",
      domainMetadatas |-> "nullTreat"]) @@
  At(<<"contextElements", "contextElement", "attributes">>, [attribute |-> "attribute"]) @@
  At(<<"contextElements", "contextElement", "attributes", "attribute">>, [
      name |-> "attributeName", type |-> "attributeType", value |-> "attributeValue",
      metadatas |-> "nullTreat"]) @@
  At(<<"contextElements", "contextElement", "attributes", "attribute", "metadatas">>, [
      metadata |-> "metadata"]) @@
  At(<<"contextElements", "contextElement", "attributes", "attribute", "metadatas", "metadata">>, [
      name |-> "metadataName", type |-> "metadataType", value |-> "metadataValue"]) @@
  At(<<"contextElements", "contextElement", "domainMetadatas">>, [
      domainMetadata |-> "domainMetadata"]) @@
  At(<<"contextElements", "contextElement", "domainMetadatas", "domainMetadata">>, [
      name |-> "domainMetadataName", type |-> "domainMetadataType",
      value |-> "domainMetadataValue"])

jsonUpcrInit == {"ceP", "attributeP", "contextMetadataP", "domainMetadataP"}

-----------------------------------------------------------------------------
(* jsonUpdateContextResponse.cpp                                            *)

jsonUpcrsContextResponse ==
  [contextResponse |-> New("cerP", "res", <<"contextElementResponseVector">>),
   entityIdId |-> Set("cerP", <<"contextElement", "entityId", "id">>),
   entityIdType |-> Set("cerP", <<"contextElement", "entityId", "type">>),
   entityIdIsPattern |-> Set("cerP", <<"contextElement", "entityId", "isPattern">>),
   attributeDomainName |-> Set("cerP", <<"contextElement", "attributeDomainName">>),
   attribute |-> New("attributeP", "cerP", <<"contextElement", "contextAttributeVector">>),
   attributeName |-> Set("attributeP", <<"name">>),
   attributeType |-> Set("attributeP", <<"type">>), attributeValue |-> Val("attributeP"),
   attributeMetadata |-> New("metadataP", "attributeP", <<"metadataVector">>),
   attributeMetadataName |-> Set("metadataP", <<"name">>)]

jsonUpcrsAttributeMetadataType ==
  [attributeMetadataType |-> Set("metadataP", <<"type">>),
   attributeMetadataValue |-> Set("metadataP", <<"value">>),
   domainMetadata |-> New("domainMetadataP", "cerP", <<"contextElement", "domainMetadataVector">>),
   domainMetadataName |-> Set("domainMetadataP", <<"name">>),
   domainMetadataType |-> Set("domainMetadataP", <<"type">>),
   domainMetadataValue |-> Set("domainMetadataP", <<"value">>),
   statusCodeCode |-> Set("cerP", <<"statusCode", "code">>),
   statusCodeReasonPhrase |-> Set("cerP", <<"statusCode", "reasonPhrase">>),
   statusCodeDetails |-> Set("cerP", <<"statusCode", "details">>),
   errorCodeCode |-> Set("res", <<"errorCode", "code">>),
   errorCodeReasonPhrase |-> Set("res", <<"errorCode", "reasonPhrase">>)]

jsonUpcrsErrorCodeDetails ==
  [errorCodeDetails |-> Set("res", <<"errorCode", "details">>)]

jsonUpcrsParseVector ==
  At(<<>>, [contextResponses |-> "nullTreat", errorCode |-> "nullTreat"]) @@
  At(<<"contextResponses">>, [contextResponse |-> "contextResponse"]) @@
  At(<<"contextResponses", "contextResponse">>, [
      contextElement |-> "nullTreat", statusCode |-> "nullTreat"]) @@
  At(<<"contextResponses", "contextResponse", "contextElement">>, [
      id |-> "entityIdId", type |-> "entityIdType", isPattern |-> "entityIdIsPattern",
      attributeDomainName |-> "attributeDomainName", attributes |-> "nullTreat",
      metadatas |-> "nullTreat"]) @@
  At(<<"contextResponses", "contextResponse", "contextElement", "attributes">>, [
      attribute |-> "attribute"]) @@
  At(<<"contextResponses", "contextResponse", "contextElement", "attributes", "attribute">>, [
      name |-> "attributeName", type |-> "attributeType", value |-> "attributeValue",
      metadatas |-> "nullTreat"]) @@
  At(<<"contextResponses", "contextResponse", "contextElement", "attributes", "attribute", "metadatas">>, [
      metadata |-> "attributeMetadata"]) @@
  At(<<"contextResponses", "contextResponse", "contextElement", "attributes", "attribute", "metadatas", "metadata">>, [
      name |-> "attributeMetadataName", type |-> "attributeMetadataType",
      value |-> "attributeMetadataValue"]) @@
  At(<<"contextResponses", "contextResponse", "contextElement", "metadatas">>, [
      metadata |-> "domainMetadata"]) @@
  At(<<"contextResponses", "contextResponse", "contextElement", "metadatas", "metadata">>, [
      name |-> "domainMetadataName", type |-> "domainMetadataType",
      value |-> "domainMetadataValue"]) @@
  At(<<"contextResponses", "contextResponse", "statusCode">>, [
      code |-> "statusCodeCode", reasonPhrase |-> "statusCodeReasonPhrase",
      details |-> "statusCodeDetails"]) @@
  At(<<"errorCode">>, [
      code |-> "errorCodeCode", reasonPhrase |-> "errorCodeReasonPhrase",
      details |-> "errorCodeDetails"])

jsonUpcrsInit == {"cerP", "attributeP", "metadataP", "domainMetadataP"}

-----------------------------------------------------------------------------
(* jsonUpdateContextSubscriptionRequest.cpp                                 *)

jsonUcsrDuration ==
  [duration |-> Set("res", <<"duration">>),
   restriction |-> Count("res", <<"restrictions">>),
   attributeExpression |-> Set("res", <<"restriction", "attributeExpression">>),
   scope |-> New("scopeP", "res", <<"restriction", "scopeVector">>),
   scopeType |-> Set("scopeP", <<"type">>), scopeValue |-> ScopeValue("scopeP", BothNames),
   circle |-> Area("scopeP", "Circle"),
   circleCenterLatitude |-> Set("scopeP", <<"circle", "center", "latitude">>),
   circleCenterLongitude |-> Set("scopeP", <<"circle", "center", "longitude">>)]

jsonUcsrCircleRadius ==
  [circleRadius |-> Set("scopeP", <<"circle", "radius">>),
   circleInverted |-> SetOrErr("scopeP", <<"circle", "inverted">>),
   polygon |-> Area("scopeP", "Polygon"),
   polygonInverted |-> SetOrErr("scopeP", <<"polygon", "inverted">>),
   polygonVertexList |-> Null,
   polygonVertex |-> New("vertexP", "scopeP", <<"polygon", "vertexList">>),
   polygonVertexLatitude |-> Set("vertexP", <<"latitude">>),
   polygonVertexLongitude |-> Set("vertexP", <<"longitude">>),
   subscriptionId |-> Set("res", <<"subscriptionId">>),
   notifyCondition |-> New("notifyConditionP", "res", <<"notifyConditionVector">>)]

jsonUcsrNotifyConditionRestriction ==
  [notifyConditionRestriction |-> Set("notifyConditionP", <<"restriction">>),
   notifyConditionType |-> Set("notifyConditionP", <<"type">>),
   notifyConditionCondValue |-> Push("notifyConditionP", <<"condValueList">>),
   throttling |-> Set("res", <<"throttling">>)]

jsonUcsrParseVector ==
  At(<<>>, [
      duration |-> "duration", restriction |-> "restriction",
      subscriptionId |-> "subscriptionId", notifyConditions |-> "nullTreat",
      throttling |-> "throttling"]) @@
  At(<<"restriction">>, [
      attributeExpression |-> "attributeExpression", scopes |-> "nullTreat"]) @@
  At(<<"restriction", "scopes">>, [scope |-> "scope"]) @@
  At(<<"restriction", "scopes", "scope">>, [
      type |-> "scopeType", value |-> "scopeValue"]) @@
  At(<<"restriction", "scopes", "scope", "value">>, [
      circle |-> "circle", polygon |-> "polygon"]) @@
  At(<<"restriction", "scopes", "scope", "value", "circle">>, [
      centerLatitude |-> "circleCenterLatitude",
      centerLongitude |-> "circleCenterLongitude", radius |-> "circleRadius",
      inverted |-> "circleInverted"]) @@
  At(<<"restriction", "scopes", "scope", "value", "polygon">>, [
      inverted |-> "polygonInverted", vertices |-> "polygonVertexList"]) @@
  At(<<"restriction", "scopes", "scope", "value", "polygon", "vertices">>, [
      vertice |-> "polygonVertex"]) @@
  At(<<"restriction", "scopes", "scope", "value", "polygon", "vertices", "vertice">>, [
      latitude |-> "polygonVertexLatitude", longitude |-> "polygonVertexLongitude"]) @@
  At(<<"notifyConditions">>, [notifyCondition |-> "notifyCondition"]) @@
  At(<<"notifyConditions", "notifyCondition">>, [
      type |-> "notifyConditionType", condValues |-> "nullTreat",
      restriction |-> "notifyConditionRestriction"]) @@
  At(<<"notifyConditions", "notifyCondition", "condValues">>, [
      condValue |-> "notifyConditionCondValue"])

jsonUcsrInit == {"notifyConditionP", "scopeP"}


-----------------------------------------------------------------------------
(* The table of the requests                                                *)

jsonParsers ==
  [acer |->
    [keyword |-> "appendContextElementRequest", handlers |-> jsonAcerAttributeDomainName @@ jsonAcerDomainMetadataType,
     vector |-> jsonAcerParseVector, init |-> jsonAcerInit],
   dcar |->
    [keyword |-> "discoverContextAvailabilityRequest", handlers |-> jsonDcarEntityId @@ jsonDcarScopeType,
     vector |-> jsonDcarParseVector, init |-> jsonDcarInit],
   ncar |->
    [keyword |-> "notifyContextRequestAvailability", handlers |-> jsonNcarSubscriptionId @@ jsonNcarAttributeMetadata,
     vector |-> jsonNcarParseVector, init |-> jsonNcarInit],
   ncr |->
    [keyword |-> "notifyContextRequest", handlers |-> jsonNcrSubscriptionId @@ jsonNcrStatusCodeCode,
     vector |-> jsonNcrParseVector, init |-> jsonNcrInit],
   qcr |->
    [keyword |-> "queryContextRequest", handlers |-> jsonQcrEntityId @@ jsonQcrScopeType @@ jsonQcrPolygonVertexList,
     vector |-> jsonQcrParseVector, init |-> jsonQcrInit],
   qcrs |->
    [keyword |-> "queryContextResponse", handlers |-> jsonQcrsContextResponse @@ jsonQcrsAttributeMetadataType @@ jsonQcrsErrorCodeDetails,
     vector |-> jsonQcrsParseVector, init |-> jsonQcrsInit],
   rcr |->
    [keyword |-> "registerContextRequest", handlers |-> jsonRcrContextRegistration @@ jsonRcrCraIsDomain @@ jsonRcrProvidingApplication @@ jsonRcrTargetEntityIdIsPattern,
     vector |-> jsonRcrParseVector, init |-> jsonRcrInit],
   rpr |->
    [keyword |-> "registerProviderRequest", handlers |-> jsonRprContextMetadata,
     vector |-> jsonRprParseVector, init |-> jsonRprInit],
   scar |->
    [keyword |-> "subscribeContextAvailabilityRequest", handlers |-> jsonScarEntityId @@ jsonScarScope,
     vector |-> jsonScarParseVector, init |-> jsonScarInit],
   scr |->
    [keyword |-> "subscribeContextRequest", handlers |-> jsonScrEntityId @@ jsonScrScope @@ jsonScrPolygonInverted,
     vector |-> jsonScrParseVector, init |-> jsonScrInit],
   ucar |->
    [keyword |-> "unsubscribeContextAvailabilityRequest", handlers |-> jsonUcarSubscriptionId,
     vector |-> jsonUcarParseVector, init |-> jsonUcarInit],
   uncr |->
    [keyword |-> "unsubscribeContextRequest", handlers |-> jsonUncrSubscriptionId,
     vector |-> jsonUncrParseVector, init |-> jsonUncrInit],
   upcar |->
    [keyword |-> "updateContextAttributeRequest", handlers |-> jsonUpcarAttributeType,
     vector |-> jsonUpcarParseVector, init |-> jsonUpcarInit],
   ucas |->
    [keyword |-> "updateContextAvailabilitySubscriptionRequest", handlers |-> jsonUcasEntityId @@ jsonUcasScopeType,
     vector |-> jsonUcasParseVector, init |-> jsonUcasInit],
   ucer |->
    [keyword |-> "updateContextElementRequest", handlers |-> jsonUcerAttributeDomainName,
     vector |-> jsonUcerParseVector, init |-> jsonUcerInit],
   upcr |->
    [keyword |-> "updateContextRequest", handlers |-> jsonUpcrContextElement @@ jsonUpcrMetadata,
     vector |-> jsonUpcrParseVector, init |-> jsonUpcrInit],
   upcrs |->
    [keyword |-> "updateContextResponse", handlers |-> jsonUpcrsContextResponse @@ jsonUpcrsAttributeMetadataType @@ jsonUpcrsErrorCodeDetails,
     vector |-> jsonUpcrsParseVector, init |-> jsonUpcrsInit],
   ucsr |->
    [keyword |-> "updateContextSubscriptionRequest", handlers |-> jsonUcsrDuration @@ jsonUcsrCircleRadius @@ jsonUcsrNotifyConditionRestriction,
     vector |-> jsonUcsrParseVector, init |-> jsonUcsrInit]]

jsonRequest ==
  <<<<"RegisterContext", "POST", "rcr">>, <<"DiscoverContextAvailability", "POST", "dcar">>,
    <<"SubscribeContextAvailability", "POST", "scar">>,
    <<"UnsubscribeContextAvailability", "POST", "ucar">>,
    <<"NotifyContextAvailability", "POST", "ncar">>,
    <<"UpdateContextAvailabilitySubscription", "POST", "ucas">>,
    <<"QueryContext", "POST", "qcr">>, <<"UpdateContext", "POST", "upcr">>,
    <<"SubscribeContext", "POST", "scr">>, <<"NotifyContext", "POST", "ncr">>,
    <<"UnsubscribeContext", "POST", "uncr">>,
    <<"UpdateContextSubscription", "POST", "ucsr">>,
    <<"ContextEntitiesByEntityId", "POST", "rpr">>,
    <<"ContextEntitiesByEntityId", "*", "rpr">>,
    <<"EntityByIdAttributeByName", "POST", "rpr">>,
    <<"EntityByIdAttributeByName", "*", "rpr">>,
    <<"ContextEntityAttributes", "POST", "rpr">>, <<"ContextEntityAttributes", "*", "rpr">>,
    <<"ContextEntityTypeAttributeContainer", "POST", "rpr">>,
    <<"ContextEntityTypeAttributeContainer", "*", "rpr">>,
    <<"ContextEntityTypeAttribute", "POST", "rpr">>,
    <<"ContextEntityTypeAttribute", "*", "rpr">>,
    <<"IndividualContextEntity", "PUT", "ucer">>,
    <<"IndividualContextEntity", "POST", "acer">>, <<"AllContextEntities", "POST", "acer">>,
    <<"ContextEntityTypes", "POST", "rpr">>, <<"ContextEntityTypes", "*", "rpr">>,
    <<"Ngsi9SubscriptionsConvOp", "PUT", "ucas">>,
    <<"IndividualContextEntityAttribute", "POST", "upcar">>,
    <<"IndividualContextEntityAttribute", "PUT", "upcar">>,
    <<"IndividualContextEntityAttributes", "POST", "acer">>,
    <<"IndividualContextEntityAttributes", "PUT", "ucer">>,
    <<"AttributeValueInstance", "PUT", "upcar">>,
    <<"Ngsi10SubscriptionsConvOp", "PUT", "ucsr">>,
    <<"AllEntitiesWithTypeAndId", "PUT", "ucer">>,
    <<"AllEntitiesWithTypeAndId", "POST", "acer">>,
    <<"AllEntitiesWithTypeAndId", "*", "ucer">>,
    <<"IndividualContextEntityAttributeWithTypeAndId", "POST", "upcar">>,
    <<"IndividualContextEntityAttributeWithTypeAndId", "PUT", "upcar">>,
    <<"AttributeValueInstanceWithTypeAndId", "PUT", "upcar">>,
    <<"AttributeValueInstanceWithTypeAndId", "POST", "upcar">>,
    <<"ContextEntitiesByEntityIdAndType", "POST", "rpr">>,
    <<"EntityByIdAttributeByNameIdAndType", "POST", "rpr">>,
    <<"RtQueryContextResponse", "POST", "qcrs">>,
    <<"RtUpdateContextResponse", "POST", "upcrs">>>>
=============================================================================
