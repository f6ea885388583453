------------------------------ MODULE XmlParse ------------------------------
(***************************************************************************)
(* The parsers of XML requests, lib/xmlParse: for each request its         *)
(* handlers, each by its effect, its parse vector, which gives the handler *)
(* of every path, and the pointers its init function sets to NULL.         *)
(***************************************************************************)
EXTENDS ParseData

-----------------------------------------------------------------------------
(* xmlAppendContextElementRequest.cpp                                       *)

acerAttributeDomainName ==
  [attributeDomainName |-> Set("res", <<"attributeDomainName">>),
   contextAttribute |-> New("attributeP", "res", <<"contextAttributeVector">>),
   contextAttributeName |-> Set("attributeP", <<"name">>),
   contextAttributeType |-> Set("attributeP", <<"type">>),
   contextAttributeValue |-> Val("attributeP"),
   contextMetadata |-> New("metadataP", "attributeP", <<"metadataVector">>),
   contextMetadataName |-> Set("metadataP", <<"name">>),
   contextMetadataType |-> Set("metadataP", <<"type">>),
   contextMetadataValue |-> Set("metadataP", <<"value">>),
   domainMetadata |-> New("domainMetadataP", "res", <<"domainMetadataVector">>),
   domainMetadataName |-> Set("domainMetadataP", <<"name">>)]

acerDomainMetadataType ==
  [domainMetadataType |-> Set("domainMetadataP", <<"type">>),
   domainMetadataValue |-> Set("domainMetadataP", <<"value">>),
   entityId |-> XmlEntity("res", <<"entity">>),
   entityIdId |-> Set("res", <<"entity", "id">>)]

acerParseVector ==
  At(<<>>, [appendContextElementRequest |-> "nullTreat"]) @@
  At(<<"appendContextElementRequest">>, [
      attributeDomainName |-> "attributeDomainName", entityId |-> "entityId",
      contextAttributeList |-> "nullTreat", domainMetadata |-> "nullTreat"]) @@
  At(<<"appendContextElementRequest", "entityId">>, [id |-> "entityIdId"]) @@
  At(<<"appendContextElementRequest", "contextAttributeList">>, [
      contextAttribute |-> "contextAttribute"]) @@
  At(<<"appendContextElementRequest", "contextAttributeList", "contextAttribute">>, [
      name |-> "contextAttributeName", type |-> "contextAttributeType",
      contextValue |-> "contextAttributeValue", metadata |-> "nullTreat"]) @@
  At(<<"appendContextElementRequest", "contextAttributeList", "contextAttribute", "metadata">>, [
      contextMetadata |-> "contextMetadata"]) @@
  At(<<"appendContextElementRequest", "contextAttributeList", "contextAttribute", "metadata", "contextMetadata">>, [
      name |-> "contextMetadataName", type |-> "contextMetadataType",
      value |-> "contextMetadataValue"]) @@
  At(<<"appendContextElementRequest", "domainMetadata">>, [
      contextMetadata |-> "domainMetadata"]) @@
  At(<<"appendContextElementRequest", "domainMetadata", "contextMetadata">>, [
      name |-> "domainMetadataName", type |-> "domainMetadataType",
      value |-> "domainMetadataValue"])

acerInit == {"attributeP", "metadataP", "domainMetadataP"}

-----------------------------------------------------------------------------
(* xmlDiscoverContextAvailabilityRequest.cpp                                *)

dcarEntityId ==
  [entityId |-> NewXmlEntity("entityIdP", "res", <<"entityIdVector">>),
   entityIdId |-> SetIfNew("entityIdP", <<"id">>),
   attribute |-> Push("res", <<"attributeList">>),
   restriction |-> Count("res", <<"restrictions">>),
   attributeExpression |-> Set("res", <<"restriction", "attributeExpression">>),
   operationScope |-> New("scopeP", "res", <<"restriction", "scopeVector">>),
   scopeType |-> Set("scopeP", <<"type">>), scopeValue |-> Set("scopeP", <<"value">>)]

dcarParseVector ==
  At(<<>>, [discoverContextAvailabilityRequest |-> "nullTreat"]) @@
  At(<<"discoverContextAvailabilityRequest">>, [
      entityIdList |-> "nullTreat", attributeList |-> "nullTreat",
      restriction |-> "restriction"]) @@
  At(<<"discoverContextAvailabilityRequest", "entityIdList">>, [
      entityId |-> "entityId"]) @@
  At(<<"discoverContextAvailabilityRequest", "entityIdList", "entityId">>, [
      id |-> "entityIdId"]) @@
  At(<<"discoverContextAvailabilityRequest", "attributeList">>, [
      attribute |-> "attribute"]) @@
  At(<<"discoverContextAvailabilityRequest", "restriction">>, [
      attributeExpression |-> "attributeExpression", scope |-> "nullTreat"]) @@
  At(<<"discoverContextAvailabilityRequest", "restriction", "scope">>, [
      operationScope |-> "operationScope"]) @@
  At(<<"discoverContextAvailabilityRequest", "restriction", "scope", "operationScope">>, [
      scopeType |-> "scopeType", scopeValue |-> "scopeValue"])

dcarInit == {"entityIdP", "scopeP"}

-----------------------------------------------------------------------------
(* xmlNotifyContextAvailabilityRequest.cpp                                  *)

ncarSubscriptionId ==
  [subscriptionId |-> Set("res", <<"subscriptionId">>),
   contextRegistrationResponse |-> New("crrP", "res", <<"contextRegistrationResponseVector">>),
   entityId |-> NewXmlEntity("entityIdP", "crrP", <<"contextRegistration", "entityIdVector">>),
   entityIdId |-> SetIfNew("entityIdP", <<"id">>),
   contextRegistrationAttribute |-> New("craP", "crrP", <<"contextRegistration", "contextRegistrationAttributeVector">>),
   contextRegistrationAttributeName |-> Set("craP", <<"name">>),
   contextRegistrationAttributeType |-> Set("craP", <<"type">>),
   contextRegistrationAttributeIsDomain |-> Set("craP", <<"isDomain">>),
   attributeMetadata |-> New("attributeMetadataP", "craP", <<"metadataVector">>)]

ncarAttributeMetadataName ==
  [attributeMetadataName |-> Set("attributeMetadataP", <<"name">>),
   attributeMetadataType |-> Set("attributeMetadataP", <<"type">>),
   attributeMetadataValue |-> Set("attributeMetadataP", <<"value">>),
   registrationMetadata |-> New("regMetadataP", "crrP", <<"contextRegistration", "registrationMetadataVector">>),
   registrationMetadataName |-> Set("regMetadataP", <<"name">>),
   registrationMetadataType |-> Set("regMetadataP", <<"type">>),
   registrationMetadataValue |-> Set("regMetadataP", <<"value">>),
   providingApplication |-> Set("crrP", <<"contextRegistration", "providingApplication">>)]

ncarParseVector ==
  At(<<>>, [notifyContextAvailabilityRequest |-> "nullTreat"]) @@
  At(<<"notifyContextAvailabilityRequest">>, [
      subscriptionId |-> "subscriptionId", contextRegistrationResponseList |-> "nullTreat"]) @@
  At(<<"notifyContextAvailabilityRequest", "contextRegistrationResponseList">>, [
      contextRegistrationResponse |-> "contextRegistrationResponse"]) @@
  At(<<"notifyContextAvailabilityRequest", "contextRegistrationResponseList", "contextRegistrationResponse">>, [
      contextRegistration |-> "nullTreat"]) @@
  At(<<"notifyContextAvailabilityRequest", "contextRegistrationResponseList", "contextRegistrationResponse", "contextRegistration">>, [
      entityIdList |-> "nullTreat", contextRegistrationAttributeList |-> "nullTreat",
      registrationMetadata |-> "nullTreat", providingApplication |-> "providingApplication"]) @@
  At(<<"notifyContextAvailabilityRequest", "contextRegistrationResponseList", "contextRegistrationResponse", "contextRegistration", "entityIdList">>, [
      entityId |-> "entityId"]) @@
  At(<<"notifyContextAvailabilityRequest", "contextRegistrationResponseList", "contextRegistrationResponse", "contextRegistration", "entityIdList", "entityId">>, [
      id |-> "entityIdId"]) @@
  At(<<"notifyContextAvailabilityRequest", "contextRegistrationResponseList", "contextRegistrationResponse", "contextRegistration", "contextRegistrationAttributeList">>, [
      contextRegistrationAttribute |-> "contextRegistrationAttribute"]) @@
  At(<<"notifyContextAvailabilityRequest", "contextRegistrationResponseList", "contextRegistrationResponse", "contextRegistration", "contextRegistrationAttributeList", "contextRegistrationAttribute">>, [
      name |-> "contextRegistrationAttributeName",
      type |-> "contextRegistrationAttributeType",
      isDomain |-> "contextRegistrationAttributeIsDomain", metadata |-> "nullTreat"]) @@
  At(<<"notifyContextAvailabilityRequest", "contextRegistrationResponseList", "contextRegistrationResponse", "contextRegistration", "contextRegistrationAttributeList", "contextRegistrationAttribute", "metadata">>, [
      contextMetadata |-> "attributeMetadata"]) @@
  At(<<"notifyContextAvailabilityRequest", "contextRegistrationResponseList", "contextRegistrationResponse", "contextRegistration", "contextRegistrationAttributeList", "contextRegistrationAttribute", "metadata", "contextMetadata">>, [
      name |-> "attributeMetadataName", type |-> "attributeMetadataType",
      value |-> "attributeMetadataValue"]) @@
  At(<<"notifyContextAvailabilityRequest", "contextRegistrationResponseList", "contextRegistrationResponse", "contextRegistration", "registrationMetadata">>, [
      contextMetadata |-> "registrationMetadata"]) @@
  At(<<"notifyContextAvailabilityRequest", "contextRegistrationResponseList", "contextRegistrationResponse", "contextRegistration", "registrationMetadata", "contextMetadata">>, [
      name |-> "registrationMetadataName", type |-> "registrationMetadataType",
      value |-> "registrationMetadataValue"])

ncarInit == {"crrP", "entityIdP", "craP", "attributeMetadataP", "regMetadataP"}

-----------------------------------------------------------------------------
(* xmlNotifyContextRequest.cpp                                              *)

ncrSubscriptionId ==
  [subscriptionId |-> Set("res", <<"subscriptionId">>),
   originator |-> Set("res", <<"originator">>),
   entityId |-> XmlEntity("cerP", <<"contextElement", "entityId">>),
   entityIdId |-> SetIfNew("cerP", <<"contextElement", "entityId", "id">>),
   attributeDomainName |-> Set("cerP", <<"contextElement", "attributeDomainName">>),
   contextElementResponse |-> New("cerP", "res", <<"contextElementResponseVector">>),
   contextAttribute |-> New("attributeP", "cerP", <<"contextElement", "contextAttributeVector">>),
   contextAttributeName |-> Set("attributeP", <<"name">>),
   contextAttributeType |-> Set("attributeP", <<"type">>)]

ncrContextAttributeContextValue ==
  [contextAttributeContextValue |-> Val("attributeP"),
   contextMetadata |-> New("attributeMetadataP", "attributeP", <<"metadataVector">>),
   contextMetadataName |-> Set("attributeMetadataP", <<"name">>),
   contextMetadataType |-> Set("attributeMetadataP", <<"type">>),
   contextMetadataValue |-> Set("attributeMetadataP", <<"value">>),
   statusCodeCode |-> Set("cerP", <<"statusCode", "code">>),
   statusCodeReasonPhrase |-> Set("cerP", <<"statusCode", "reasonPhrase">>),
   statusCodeDetails |-> Set("cerP", <<"statusCode", "details">>)]

ncrParseVector ==
  At(<<>>, [notifyContextRequest |-> "nullTreat"]) @@
  At(<<"notifyContextRequest">>, [
      subscriptionId |-> "subscriptionId", originator |-> "originator",
      contextResponseList |-> "nullTreat"]) @@
  At(<<"notifyContextRequest", "contextResponseList">>, [
      contextElementResponse |-> "contextElementResponse"]) @@
  At(<<"notifyContextRequest", "contextResponseList", "contextElementResponse">>, [
      contextElement |-> "nullTreat", statusCode |-> "nullTreat"]) @@
  At(<<"notifyContextRequest", "contextResponseList", "contextElementResponse", "contextElement">>, [
      entityId |-> "entityId", attributeDomainName |-> "attributeDomainName",
      contextAttributeList |-> "nullTreat", domainMetadata |-> "nullTreat"]) @@
  At(<<"notifyContextRequest", "contextResponseList", "contextElementResponse", "contextElement", "entityId">>, [
      id |-> "entityIdId"]) @@
  At(<<"notifyContextRequest", "contextResponseList", "contextElementResponse", "contextElement", "contextAttributeList">>, [
      contextAttribute |-> "contextAttribute"]) @@
  At(<<"notifyContextRequest", "contextResponseList", "contextElementResponse", "contextElement", "contextAttributeList", "contextAttribute">>, [
      name |-> "contextAttributeName", type |-> "contextAttributeType",
      contextValue |-> "contextAttributeContextValue", metadata |-> "nullTreat"]) @@
  At(<<"notifyContextRequest", "contextResponseList", "contextElementResponse", "contextElement", "contextAttributeList", "contextAttribute", "metadata">>, [
      contextMetadata |-> "contextMetadata"]) @@
  At(<<"notifyContextRequest", "contextResponseList", "contextElementResponse", "contextElement", "contextAttributeList", "contextAttribute", "metadata", "contextMetadata">>, [
      name |-> "contextMetadataName", type |-> "contextMetadataType",
      value |-> "contextMetadataValue"]) @@
  At(<<"notifyContextRequest", "contextResponseList", "contextElementResponse", "contextElement", "domainMetadata">>, [
      contextMetadata |-> "nullTreat"]) @@
  At(<<"notifyContextRequest", "contextResponseList", "contextElementResponse", "contextElement", "domainMetadata", "contextMetadata">>, [
      name |-> "nullTreat", type |-> "nullTreat", value |-> "nullTreat"]) @@
  At(<<"notifyContextRequest", "contextResponseList", "contextElementResponse", "statusCode">>, [
      code |-> "statusCodeCode", reasonPhrase |-> "statusCodeReasonPhrase",
      details |-> "statusCodeDetails"])

ncrInit == {"cerP", "attributeP", "attributeMetadataP", "domainMetadataP"}

-----------------------------------------------------------------------------
(* xmlQueryContextRequest.cpp                                               *)

qcrEntityId ==
  [entityId |-> NewXmlEntity("entityIdP", "res", <<"entityIdVector">>),
   entityIdId |-> SetIfNew("entityIdP", <<"id">>),
   attribute |-> Push("res", <<"attributeList">>),
   restriction |-> Count("res", <<"restrictions">>),
   attributeExpression |-> Set("res", <<"restriction", "attributeExpression">>),
   operationScope |-> New("scopeP", "res", <<"restriction", "scopeVector">>),
   scopeType |-> Set("scopeP", <<"type">>), scopeValue |-> ScopeValue("scopeP", BothNames)]

qcrCircle ==
  [circle |-> Area("scopeP", "Circle"),
   circleCenterLatitude |-> Set("scopeP", <<"circle", "center", "latitude">>),
   circleCenterLongitude |-> Set("scopeP", <<"circle", "center", "longitude">>),
   circleRadius |-> Set("scopeP", <<"circle", "radius">>),
   circleInverted |-> SetOrErr("scopeP", <<"circle", "inverted">>),
   polygon |-> Area("scopeP", "Polygon"),
   polygonInverted |-> SetOrErr("scopeP", <<"polygon", "inverted">>),
   polygonVertexList |-> Null,
   polygonVertex |-> New("vertexP", "scopeP", <<"polygon", "vertexList">>),
   polygonVertexLatitude |-> Set("vertexP", <<"latitude">>)]

qcrPolygonVertexLongitude ==
  [polygonVertexLongitude |-> Set("vertexP", <<"longitude">>)]

qcrParseVector ==
  At(<<>>, [queryContextRequest |-> "nullTreat"]) @@
  At(<<"queryContextRequest">>, [
      entityIdList |-> "nullTreat", attributeList |-> "nullTreat",
      restriction |-> "restriction"]) @@
  At(<<"queryContextRequest", "entityIdList">>, [entityId |-> "entityId"]) @@
  At(<<"queryContextRequest", "entityIdList", "entityId">>, [id |-> "entityIdId"]) @@
  At(<<"queryContextRequest", "attributeList">>, [attribute |-> "attribute"]) @@
  At(<<"queryContextRequest", "restriction">>, [
      attributeExpression |-> "attributeExpression", scope |-> "nullTreat"]) @@
  At(<<"queryContextRequest", "restriction", "scope">>, [
      operationScope |-> "operationScope"]) @@
  At(<<"queryContextRequest", "restriction", "scope", "operationScope">>, [
      scopeType |-> "scopeType", scopeValue |-> "scopeValue"]) @@
  At(<<"queryContextRequest", "restriction", "scope", "operationScope", "scopeValue">>, [
      circle |-> "circle", polygon |-> "polygon"]) @@
  At(<<"queryContextRequest", "restriction", "scope", "operationScope", "scopeValue", "circle">>, [
      centerLatitude |-> "circleCenterLatitude",
      centerLongitude |-> "circleCenterLongitude", radius |-> "circleRadius",
      inverted |-> "circleInverted"]) @@
  At(<<"queryContextRequest", "restriction", "scope", "operationScope", "scopeValue", "polygon">>, [
      inverted |-> "polygonInverted", vertexList |-> "polygonVertexList"]) @@
  At(<<"queryContextRequest", "restriction", "scope", "operationScope", "scopeValue", "polygon", "vertexList">>, [
      vertex |-> "polygonVertex"]) @@
  At(<<"queryContextRequest", "restriction", "scope", "operationScope", "scopeValue", "polygon", "vertexList", "vertex">>, [
      latitude |-> "polygonVertexLatitude", longitude |-> "polygonVertexLongitude"])

qcrInit == {"entityIdP", "scopeP"}

-----------------------------------------------------------------------------
(* xmlQueryContextResponse.cpp                                              *)

qcrsContextElementResponse ==
  [contextElementResponse |-> New("cerP", "res", <<"contextElementResponseVector">>),
   entityId |-> XmlEntity("cerP", <<"contextElement", "entityId">>),
   entityIdId |-> SetIfNew("cerP", <<"contextElement", "entityId", "id">>),
   contextAttribute |-> New("attributeP", "cerP", <<"contextElement", "contextAttributeVector">>),
   contextAttributeName |-> Set("attributeP", <<"name">>),
   contextAttributeType |-> Set("attributeP", <<"type">>),
   contextAttributeValue |-> Val("attributeP"),
   contextMetadata |-> New("metadataP", "attributeP", <<"metadataVector">>),
   contextMetadataName |-> Set("metadataP", <<"name">>),
   contextMetadataType |-> Set("metadataP", <<"type">>)]

qcrsContextMetadataValue ==
  [contextMetadataValue |-> Set("metadataP", <<"value">>),
   statusCodeCode |-> Set("cerP", <<"statusCode", "code">>),
   statusCodeReasonPhrase |-> Set("cerP", <<"statusCode", "reasonPhrase">>),
   statusCodeDetails |-> Set("cerP", <<"statusCode", "details">>),
   errorCodeCode |-> Set("res", <<"errorCode", "code">>),
   errorCodeReasonPhrase |-> Set("res", <<"errorCode", "reasonPhrase">>),
   errorCodeDetails |-> Set("res", <<"errorCode", "details">>)]

qcrsParseVector ==
  At(<<>>, [queryContextResponse |-> "nullTreat"]) @@
  At(<<"queryContextResponse">>, [
      contextResponseList |-> "nullTreat", errorCode |-> "nullTreat"]) @@
  At(<<"queryContextResponse", "contextResponseList">>, [
      contextElementResponse |-> "contextElementResponse"]) @@
  At(<<"queryContextResponse", "contextResponseList", "contextElementResponse">>, [
      contextElement |-> "nullTreat", statusCode |-> "nullTreat"]) @@
  At(<<"queryContextResponse", "contextResponseList", "contextElementResponse", "contextElement">>, [
      entityId |-> "entityId", contextAttributeList |-> "nullTreat"]) @@
  At(<<"queryContextResponse", "contextResponseList", "contextElementResponse", "contextElement", "entityId">>, [
      id |-> "entityIdId"]) @@
  At(<<"queryContextResponse", "contextResponseList", "contextElementResponse", "contextElement", "contextAttributeList">>, [
      contextAttribute |-> "contextAttribute"]) @@
  At(<<"queryContextResponse", "contextResponseList", "contextElementResponse", "contextElement", "contextAttributeList", "contextAttribute">>, [
      name |-> "contextAttributeName", type |-> "contextAttributeType",
      contextValue |-> "contextAttributeValue", metadata |-> "nullTreat"]) @@
  At(<<"queryContextResponse", "contextResponseList", "contextElementResponse", "contextElement", "contextAttributeList", "contextAttribute", "metadata">>, [
      contextMetadata |-> "contextMetadata"]) @@
  At(<<"queryContextResponse", "contextResponseList", "contextElementResponse", "contextElement", "contextAttributeList", "contextAttribute", "metadata", "contextMetadata">>, [
      name |-> "contextMetadataName", type |-> "contextMetadataType",
      value |-> "contextMetadataValue"]) @@
  At(<<"queryContextResponse", "contextResponseList", "contextElementResponse", "statusCode">>, [
      code |-> "statusCodeCode", reasonPhrase |-> "statusCodeReasonPhrase",
      details |-> "statusCodeDetails"]) @@
  At(<<"queryContextResponse", "errorCode">>, [
      code |-> "errorCodeCode", reasonPhrase |-> "errorCodeReasonPhrase",
      details |-> "errorCodeDetails"])

qcrsInit == {}

-----------------------------------------------------------------------------
(* xmlRegisterContextRequest.cpp                                            *)

rcrContextRegistration ==
  [contextRegistration |-> New("crP", "res", <<"contextRegistrationVector">>),
   entityId |-> NewXmlEntity("entityIdP", "crP", <<"entityIdVector">>),
   entityIdId |-> SetIfNew("entityIdP", <<"id">>),
   crAttribute |-> New("attributeP", "crP", <<"contextRegistrationAttributeVector">>),
   craName |-> Set("attributeP", <<"name">>), craType |-> Set("attributeP", <<"type">>),
   craIsDomain |-> Set("attributeP", <<"isDomain">>),
   craMetadata |-> New("attributeMetadataP", "attributeP", <<"metadataVector">>),
   craMetadataName |-> Set("attributeMetadataP", <<"name">>)]

rcrCraMetadataType ==
  [craMetadataType |-> Set("attributeMetadataP", <<"type">>),
   craMetadataValue |-> Set("attributeMetadataP", <<"value">>),
   regMetadata |-> New("registrationMetadataP", "crP", <<"registrationMetadataVector">>),
   regMetadataName |-> Set("registrationMetadataP", <<"name">>),
   regMetadataType |-> Set("registrationMetadataP", <<"type">>),
   regMetadataValue |-> Set("registrationMetadataP", <<"value">>),
   providingApplication |-> Set("crP", <<"providingApplication">>),
   duration |-> Set("res", <<"duration">>),
   registrationId |-> Set("res", <<"registrationId">>),
   sourceEntityId |-> XmlEntity("registrationMetadataP", <<"association", "entityAssociation", "source">>)]

rcrSourceEntityIdId ==
  [sourceEntityIdId |-> Set("registrationMetadataP", <<"association", "entityAssociation", "source", "id">>),
   targetEntityId |-> XmlEntity("registrationMetadataP", <<"association", "entityAssociation", "target">>),
   targetEntityIdId |-> Set("registrationMetadataP", <<"association", "entityAssociation", "target", "id">>),
   attributeAssociation |-> New("attributeAssociationP", "registrationMetadataP", <<"association", "attributeAssociationList">>),
   sourceAttribute |-> Set("attributeAssociationP", <<"source">>),
   targetAttribute |-> Set("attributeAssociationP", <<"target">>),
   entityIdList |-> Once("crP", <<"entityIdVectorPresent">>)]

rcrParseVector ==
  At(<<>>, [registerContextRequest |-> "nullTreat"]) @@
  At(<<"registerContextRequest">>, [
      contextRegistrationList |-> "nullTreat", duration |-> "duration",
      registrationId |-> "registrationId"]) @@
  At(<<"registerContextRequest", "contextRegistrationList">>, [
      contextRegistration |-> "contextRegistration"]) @@
  At(<<"registerContextRequest", "contextRegistrationList", "contextRegistration">>, [
      entityIdList |-> "entityIdList", contextRegistrationAttributeList |-> "nullTreat",
      registrationMetadata |-> "nullTreat", providingApplication |-> "providingApplication"]) @@
  At(<<"registerContextRequest", "contextRegistrationList", "contextRegistration", "entityIdList">>, [
      entityId |-> "entityId"]) @@
  At(<<"registerContextRequest", "contextRegistrationList", "contextRegistration", "entityIdList", "entityId">>, [
      id |-> "entityIdId"]) @@
  At(<<"registerContextRequest", "contextRegistrationList", "contextRegistration", "contextRegistrationAttributeList">>, [
      contextRegistrationAttribute |-> "crAttribute"]) @@
  At(<<"registerContextRequest", "contextRegistrationList", "contextRegistration", "contextRegistrationAttributeList", "contextRegistrationAttribute">>, [
      name |-> "craName", type |-> "craType", isDomain |-> "craIsDomain",
      metadata |-> "nullTreat"]) @@
  At(<<"registerContextRequest", "contextRegistrationList", "contextRegistration", "contextRegistrationAttributeList", "contextRegistrationAttribute", "metadata">>, [
      contextMetadata |-> "craMetadata"]) @@
  At(<<"registerContextRequest", "contextRegistrationList", "contextRegistration", "contextRegistrationAttributeList", "contextRegistrationAttribute", "metadata", "contextMetadata">>, [
      name |-> "craMetadataName", type |-> "craMetadataType", value |-> "craMetadataValue"]) @@
  At(<<"registerContextRequest", "contextRegistrationList", "contextRegistration", "registrationMetadata">>, [
      contextMetadata |-> "regMetadata"]) @@
  At(<<"registerContextRequest", "contextRegistrationList", "contextRegistration", "registrationMetadata", "contextMetadata">>, [
      name |-> "regMetadataName", type |-> "regMetadataType", value |-> "regMetadataValue"]) @@
  At(<<"registerContextRequest", "contextRegistrationList", "contextRegistration", "registrationMetadata", "contextMetadata", "value">>, [
      entityAssociation |-> "nullTreat", attributeAssociationList |-> "nullTreat"]) @@
  At(<<"registerContextRequest", "contextRegistrationList", "contextRegistration", "registrationMetadata", "contextMetadata", "value", "entityAssociation">>, [
      sourceEntityId |-> "sourceEntityId", targetEntityId |-> "targetEntityId"]) @@
  At(<<"registerContextRequest", "contextRegistrationList", "contextRegistration", "registrationMetadata", "contextMetadata", "value", "entityAssociation", "sourceEntityId">>, [
      id |-> "sourceEntityIdId"]) @@
  At(<<"registerContextRequest", "contextRegistrationList", "contextRegistration", "registrationMetadata", "contextMetadata", "value", "entityAssociation", "targetEntityId">>, [
      id |-> "targetEntityIdId"]) @@
  At(<<"registerContextRequest", "contextRegistrationList", "contextRegistration", "registrationMetadata", "contextMetadata", "value", "attributeAssociationList">>, [
      attributeAssociation |-> "attributeAssociation"]) @@
  At(<<"registerContextRequest", "contextRegistrationList", "contextRegistration", "registrationMetadata", "contextMetadata", "value", "attributeAssociationList", "attributeAssociation">>, [
      sourceAttribute |-> "sourceAttribute", targetAttribute |-> "targetAttribute"])

rcrInit == {"crP", "entityIdP", "attributeP", "attributeMetadataP", "registrationMetadataP"}

-----------------------------------------------------------------------------
(* xmlRegisterContextResponse.cpp                                           *)

rcrsDuration ==
  [duration |-> Set("res", <<"duration">>),
   registrationId |-> Set("res", <<"registrationId">>),
   errorCodeCode |-> Set("res", <<"errorCode", "code">>),
   errorCodeReasonPhrase |-> Set("res", <<"errorCode", "reasonPhrase">>),
   errorCodeDetails |-> Set("res", <<"errorCode", "details">>)]

rcrsParseVector ==
  At(<<>>, [registerContextResponse |-> "nullTreat"]) @@
  At(<<"registerContextResponse">>, [
      duration |-> "duration", registrationId |-> "registrationId",
      errorCode |-> "nullTreat"]) @@
  At(<<"registerContextResponse", "errorCode">>, [
      code |-> "errorCodeCode", reasonPhrase |-> "errorCodeReasonPhrase",
      details |-> "errorCodeDetails"])

rcrsInit == {}

-----------------------------------------------------------------------------
(* xmlRegisterProviderRequest.cpp                                           *)

rprContextMetadata ==
  [contextMetadata |-> New("metadataP", "res", <<"metadataVector">>),
   contextMetadataName |-> Set("metadataP", <<"name">>),
   contextMetadataType |-> Set("metadataP", <<"type">>),
   contextMetadataValue |-> Set("metadataP", <<"value">>),
   duration |-> Set("res", <<"duration">>),
   providingApplication |-> Set("res", <<"providingApplication">>),
   registrationId |-> Set("res", <<"registrationId">>)]

rprParseVector ==
  At(<<>>, [registerProviderRequest |-> "nullTreat"]) @@
  At(<<"registerProviderRequest">>, [
      metadata |-> "nullTreat", duration |-> "duration",
      providingApplication |-> "providingApplication", registrationId |-> "registrationId"]) @@
  At(<<"registerProviderRequest", "metadata">>, [contextMetadata |-> "contextMetadata"]) @@
  At(<<"registerProviderRequest", "metadata", "contextMetadata">>, [
      name |-> "contextMetadataName", type |-> "contextMetadataType",
      value |-> "contextMetadataValue"])

rprInit == {"metadataP"}

-----------------------------------------------------------------------------
(* xmlSubscribeContextAvailabilityRequest.cpp                               *)

scarEntityId ==
  [entityId |-> NewXmlEntity("entityIdP", "res", <<"entityIdVector">>),
   entityIdId |-> SetIfNew("entityIdP", <<"id">>),
   reference |-> Set("res", <<"reference">>),
   attribute |-> Push("res", <<"attributeList">>),
   restriction |-> Count("res", <<"restrictions">>),
   attributeExpression |-> Set("res", <<"restriction", "attributeExpression">>),
   operationScope |-> New("scopeP", "res", <<"restriction", "scopeVector">>),
   scopeType |-> Set("scopeP", <<"type">>), scopeValue |-> Set("scopeP", <<"value">>)]

scarDuration ==
  [duration |-> Set("res", <<"duration">>)]

scarParseVector ==
  At(<<>>, [subscribeContextAvailabilityRequest |-> "nullTreat"]) @@
  At(<<"subscribeContextAvailabilityRequest">>, [
      entityIdList |-> "nullTreat", attributeList |-> "nullTreat",
      reference |-> "reference", duration |-> "duration", restriction |-> "restriction"]) @@
  At(<<"subscribeContextAvailabilityRequest", "entityIdList">>, [
      entityId |-> "entityId"]) @@
  At(<<"subscribeContextAvailabilityRequest", "entityIdList", "entityId">>, [
      id |-> "entityIdId"]) @@
  At(<<"subscribeContextAvailabilityRequest", "attributeList">>, [
      attribute |-> "attribute"]) @@
  At(<<"subscribeContextAvailabilityRequest", "restriction">>, [
      attributeExpression |-> "attributeExpression", scope |-> "nullTreat"]) @@
  At(<<"subscribeContextAvailabilityRequest", "restriction", "scope">>, [
      operationScope |-> "operationScope"]) @@
  At(<<"subscribeContextAvailabilityRequest", "restriction", "scope", "operationScope">>, [
      scopeType |-> "scopeType", scopeValue |-> "scopeValue"])

scarInit == {"entityIdP", "scopeP"}

-----------------------------------------------------------------------------
(* xmlSubscribeContextRequest.cpp                                           *)

scrEntityId ==
  [entityId |-> NewXmlEntity("entityIdP", "res", <<"entityIdVector">>),
   entityIdId |-> SetIfNew("entityIdP", <<"id">>),
   attribute |-> Push("res", <<"attributeList">>),
   restriction |-> Count("res", <<"restrictions">>),
   attributeExpression |-> Set("res", <<"restriction", "attributeExpression">>),
   operationScope |-> New("scopeP", "res", <<"restriction", "scopeVector">>),
   scopeType |-> Set("scopeP", <<"type">>), scopeValue |-> ScopeValue("scopeP", BothNames)]

scrCircle ==
  [circle |-> Area("scopeP", "Circle"),
   circleCenterLatitude |-> Set("scopeP", <<"circle", "center", "latitude">>),
   circleCenterLongitude |-> Set("scopeP", <<"circle", "center", "longitude">>),
   circleRadius |-> Set("scopeP", <<"circle", "radius">>),
   circleInverted |-> SetOrErr("scopeP", <<"circle", "inverted">>),
   polygon |-> Area("scopeP", "Polygon"),
   polygonInverted |-> SetOrErr("scopeP", <<"polygon", "inverted">>),
   polygonVertexList |-> Null,
   polygonVertex |-> New("vertexP", "scopeP", <<"polygon", "vertexList">>),
   polygonVertexLatitude |-> Set("vertexP", <<"latitude">>)]

scrPolygonVertexLongitude ==
  [polygonVertexLongitude |-> Set("vertexP", <<"longitude">>),
   reference |-> Set("res", <<"reference">>), duration |-> Set("res", <<"duration">>),
   notifyCondition |-> New("notifyConditionP", "res", <<"notifyConditionVector">>),
   notifyConditionRestriction |-> Set("notifyConditionP", <<"restriction">>),
   notifyConditionType |-> Set("notifyConditionP", <<"type">>),
   condValue |-> Push("notifyConditionP", <<"condValueList">>),
   throttling |-> Set("res", <<"throttling">>)]

scrParseVector ==
  At(<<>>, [subscribeContextRequest |-> "nullTreat"]) @@
  At(<<"subscribeContextRequest">>, [
      entityIdList |-> "nullTreat", attributeList |-> "nullTreat",
      reference |-> "reference", duration |-> "duration", restriction |-> "restriction",
      notifyConditions |-> "nullTreat", throttling |-> "throttling"]) @@
  At(<<"subscribeContextRequest", "entityIdList">>, [entityId |-> "entityId"]) @@
  At(<<"subscribeContextRequest", "entityIdList", "entityId">>, [id |-> "entityIdId"]) @@
  At(<<"subscribeContextRequest", "attributeList">>, [attribute |-> "attribute"]) @@
  At(<<"subscribeContextRequest", "restriction">>, [
      attributeExpression |-> "attributeExpression", scope |-> "nullTreat"]) @@
  At(<<"subscribeContextRequest", "restriction", "scope">>, [
      operationScope |-> "operationScope"]) @@
  At(<<"subscribeContextRequest", "restriction", "scope", "operationScope">>, [
      scopeType |-> "scopeType", scopeValue |-> "scopeValue"]) @@
  At(<<"subscribeContextRequest", "restriction", "scope", "operationScope", "scopeValue">>, [
      circle |-> "circle", polygon |-> "polygon"]) @@
  At(<<"subscribeContextRequest", "restriction", "scope", "operationScope", "scopeValue", "circle">>, [
      centerLatitude |-> "circleCenterLatitude",
      centerLongitude |-> "circleCenterLongitude", radius |-> "circleRadius",
      inverted |-> "circleInverted"]) @@
  At(<<"subscribeContextRequest", "restriction", "scope", "operationScope", "scopeValue", "polygon">>, [
      inverted |-> "polygonInverted", vertexList |-> "polygonVertexList"]) @@
  At(<<"subscribeContextRequest", "restriction", "scope", "operationScope", "scopeValue", "polygon", "vertexList">>, [
      vertex |-> "polygonVertex"]) @@
  At(<<"subscribeContextRequest", "restriction", "scope", "operationScope", "scopeValue", "polygon", "vertexList", "vertex">>, [
      latitude |-> "polygonVertexLatitude", longitude |-> "polygonVertexLongitude"]) @@
  At(<<"subscribeContextRequest", "notifyConditions">>, [
      notifyCondition |-> "notifyCondition"]) @@
  At(<<"subscribeContextRequest", "notifyConditions", "notifyCondition">>, [
      restriction |-> "notifyConditionRestriction", type |-> "notifyConditionType",
      condValueList |-> "nullTreat"]) @@
  At(<<"subscribeContextRequest", "notifyConditions", "notifyCondition", "condValueList">>, [
      condValue |-> "condValue"])

scrInit == {"entityIdP", "attributeMetadataP", "restrictionP", "notifyConditionP", "scopeP"}

-----------------------------------------------------------------------------
(* xmlUnsubscribeContextAvailabilityRequest.cpp                             *)

ucarSubscriptionId ==
  [subscriptionId |-> Set("res", <<"subscriptionId">>)]

ucarParseVector ==
  At(<<>>, [unsubscribeContextAvailabilityRequest |-> "nullTreat"]) @@
  At(<<"unsubscribeContextAvailabilityRequest">>, [subscriptionId |-> "subscriptionId"])

ucarInit == {}

-----------------------------------------------------------------------------
(* xmlUnsubscribeContextRequest.cpp                                         *)

uncrSubscriptionId ==
  [subscriptionId |-> Set("res", <<"subscriptionId">>)]

uncrParseVector ==
  At(<<>>, [unsubscribeContextRequest |-> "nullTreat"]) @@
  At(<<"unsubscribeContextRequest">>, [subscriptionId |-> "subscriptionId"])

uncrInit == {}

-----------------------------------------------------------------------------
(* xmlUpdateContextAttributeRequest.cpp                                     *)

upcarAttributeType ==
  [attributeType |-> Set("res", <<"type">>),
   attributeValue |-> Set("res", <<"contextValue">>),
   contextMetadata |-> New("metadataP", "res", <<"metadataVector">>),
   contextMetadataName |-> Set("metadataP", <<"name">>),
   contextMetadataType |-> Set("metadataP", <<"type">>),
   contextMetadataValue |-> Set("metadataP", <<"value">>)]

upcarParseVector ==
  At(<<>>, [updateContextAttributeRequest |-> "nullTreat"]) @@
  At(<<"updateContextAttributeRequest">>, [
      type |-> "attributeType", contextValue |-> "attributeValue", metadata |-> "nullTreat"]) @@
  At(<<"updateContextAttributeRequest", "metadata">>, [
      contextMetadata |-> "contextMetadata"]) @@
  At(<<"updateContextAttributeRequest", "metadata", "contextMetadata">>, [
      name |-> "contextMetadataName", type |-> "contextMetadataType",
      value |-> "contextMetadataValue"])

upcarInit == {}

-----------------------------------------------------------------------------
(* xmlUpdateContextAvailabilitySubscriptionRequest.cpp                      *)

ucasEntityId ==
  [entityId |-> NewXmlEntity("entityIdP", "res", <<"entityIdVector">>),
   entityIdId |-> SetIfNew("entityIdP", <<"id">>),
   attribute |-> Push("res", <<"attributeList">>),
   restriction |-> Count("res", <<"restrictions">>),
   attributeExpression |-> Set("res", <<"restriction", "attributeExpression">>),
   operationScope |-> New("scopeP", "res", <<"restriction", "scopeVector">>),
   scopeType |-> Set("scopeP", <<"type">>), scopeValue |-> Set("scopeP", <<"value">>),
   duration |-> Set("res", <<"duration">>)]

ucasSubscriptionId ==
  [subscriptionId |-> Set("res", <<"subscriptionId">>)]

ucasParseVector ==
  At(<<>>, [updateContextAvailabilitySubscriptionRequest |-> "nullTreat"]) @@
  At(<<"updateContextAvailabilitySubscriptionRequest">>, [
      entityIdList |-> "nullTreat", attributeList |-> "nullTreat", duration |-> "duration",
      restriction |-> "restriction", subscriptionId |-> "subscriptionId"]) @@
  At(<<"updateContextAvailabilitySubscriptionRequest", "entityIdList">>, [
      entityId |-> "entityId"]) @@
  At(<<"updateContextAvailabilitySubscriptionRequest", "entityIdList", "entityId">>, [
      id |-> "entityIdId"]) @@
  At(<<"updateContextAvailabilitySubscriptionRequest", "attributeList">>, [
      attribute |-> "attribute"]) @@
  At(<<"updateContextAvailabilitySubscriptionRequest", "restriction">>, [
      attributeExpression |-> "attributeExpression", scope |-> "nullTreat"]) @@
  At(<<"updateContextAvailabilitySubscriptionRequest", "restriction", "scope">>, [
      operationScope |-> "operationScope"]) @@
  At(<<"updateContextAvailabilitySubscriptionRequest", "restriction", "scope", "operationScope">>, [
      scopeType |-> "scopeType", scopeValue |-> "scopeValue"])

ucasInit == {"scopeP"}

-----------------------------------------------------------------------------
(* xmlUpdateContextElementRequest.cpp                                       *)

ucerAttributeDomainName ==
  [attributeDomainName |-> Set("res", <<"attributeDomainName">>),
   contextAttribute |-> New("attributeP", "res", <<"contextAttributeVector">>),
   contextAttributeName |-> Set("attributeP", <<"name">>),
   contextAttributeType |-> Set("attributeP", <<"type">>),
   contextAttributeValue |-> Val("attributeP"),
   contextMetadata |-> New("metadataP", "attributeP", <<"metadataVector">>),
   contextMetadataName |-> Set("metadataP", <<"name">>),
   contextMetadataType |-> Set("metadataP", <<"type">>),
   contextMetadataValue |-> Set("metadataP", <<"value">>)]

ucerParseVector ==
  At(<<>>, [updateContextElementRequest |-> "nullTreat"]) @@
  At(<<"updateContextElementRequest">>, [
      attributeDomainName |-> "attributeDomainName", contextAttributeList |-> "nullTreat"]) @@
  At(<<"updateContextElementRequest", "contextAttributeList">>, [
      contextAttribute |-> "contextAttribute"]) @@
  At(<<"updateContextElementRequest", "contextAttributeList", "contextAttribute">>, [
      name |-> "contextAttributeName", type |-> "contextAttributeType",
      contextValue |-> "contextAttributeValue", metadata |-> "nullTreat"]) @@
  At(<<"updateContextElementRequest", "contextAttributeList", "contextAttribute", "metadata">>, [
      contextMetadata |-> "contextMetadata"]) @@
  At(<<"updateContextElementRequest", "contextAttributeList", "contextAttribute", "metadata", "contextMetadata">>, [
      name |-> "contextMetadataName", type |-> "contextMetadataType",
      value |-> "contextMetadataValue"])

ucerInit == {"attributeP", "metadataP"}

-----------------------------------------------------------------------------
(* xmlUpdateContextRequest.cpp                                              *)

upcrContextElement ==
  [contextElement |-> NewWith("ceP", "res", <<"contextElementVector">>, "entityIdP", <<"entityId">>),
   entityId |-> XmlEntity("entityIdP", <<>>),
   entityIdId |-> SetIfNew("entityIdP", <<"id">>),
   contextAttribute |-> New("attributeP", "ceP", <<"contextAttributeVector">>),
   contextAttributeName |-> Set("attributeP", <<"name">>),
   contextAttributeType |-> Set("attributeP", <<"type">>),
   contextAttributeValue |-> Val("attributeP"),
   contextMetadata |-> New("contextMetadataP", "attributeP", <<"metadataVector">>),
   contextMetadataName |-> Set("contextMetadataP", <<"name">>)]

upcrContextMetadataType ==
  [contextMetadataType |-> Set("contextMetadataP", <<"type">>),
   contextMetadataValue |-> Set("contextMetadataP", <<"value">>),
   domainMetadata |-> New("domainMetadataP", "ceP", <<"domainMetadataVector">>),
   domainMetadataName |-> Set("domainMetadataP", <<"name">>),
   domainMetadataType |-> Set("domainMetadataP", <<"type">>),
   domainMetadataValue |-> Set("domainMetadataP", <<"value">>),
   updateAction |-> Set("res", <<"updateActionType">>)]

upcrParseVector ==
  At(<<>>, [updateContextRequest |-> "nullTreat"]) @@
  At(<<"updateContextRequest">>, [
      contextElementList |-> "nullTreat", updateAction |-> "updateAction"]) @@
  At(<<"updateContextRequest", "contextElementList">>, [
      contextElement |-> "contextElement"]) @@
  At(<<"updateContextRequest", "contextElementList", "contextElement">>, [
      entityId |-> "entityId", contextAttributeList |-> "nullTreat",
      domainMetadata |-> "nullTreat"]) @@
  At(<<"updateContextRequest", "contextElementList", "contextElement", "entityId">>, [
      id |-> "entityIdId"]) @@
  At(<<"updateContextRequest", "contextElementList", "contextElement", "contextAttributeList">>, [
      contextAttribute |-> "contextAttribute"]) @@
  At(<<"updateContextRequest", "contextElementList", "contextElement", "contextAttributeList", "contextAttribute">>, [
      name |-> "contextAttributeName", type |-> "contextAttributeType",
      contextValue |-> "contextAttributeValue", metadata |-> "nullTreat"]) @@
  At(<<"updateContextRequest", "contextElementList", "contextElement", "contextAttributeList", "contextAttribute", "metadata">>, [
      contextMetadata |-> "contextMetadata"]) @@
  At(<<"updateContextRequest", "contextElementList", "contextElement", "contextAttributeList", "contextAttribute", "metadata", "contextMetadata">>, [
      name |-> "contextMetadataName", type |-> "contextMetadataType",
      value |-> "contextMetadataValue"]) @@
  At(<<"updateContextRequest", "contextElementList", "contextElement", "domainMetadata">>, [
      contextMetadata |-> "domainMetadata"]) @@
  At(<<"updateContextRequest", "contextElementList", "contextElement", "domainMetadata", "contextMetadata">>, [
      name |-> "domainMetadataName", type |-> "domainMetadataType",
      value |-> "domainMetadataValue"])

upcrInit == {"ceP", "entityIdP", "attributeP", "contextMetadataP", "domainMetadataP"}

-----------------------------------------------------------------------------
(* xmlUpdateContextResponse.cpp                                             *)

upcrsContextElementResponse ==
  [contextElementResponse |-> New("cerP", "res", <<"contextElementResponseVector">>),
   entityId |-> XmlEntity("cerP", <<"contextElement", "entityId">>),
   entityIdId |-> SetIfNew("cerP", <<"contextElement", "entityId", "id">>),
   contextAttribute |-> New("attributeP", "cerP", <<"contextElement", "contextAttributeVector">>),
   contextAttributeName |-> Set("attributeP", <<"name">>),
   contextAttributeType |-> Set("attributeP", <<"type">>),
   contextAttributeValue |-> Val("attributeP"),
   contextMetadata |-> New("metadataP", "attributeP", <<"metadataVector">>),
   contextMetadataName |-> Set("metadataP", <<"name">>),
   contextMetadataType |-> Set("metadataP", <<"type">>)]

upcrsContextMetadataValue ==
  [contextMetadataValue |-> Set("metadataP", <<"value">>),
   statusCodeCode |-> Set("cerP", <<"statusCode", "code">>),
   statusCodeReasonPhrase |-> Set("cerP", <<"statusCode", "reasonPhrase">>),
   statusCodeDetails |-> Set("cerP", <<"statusCode", "details">>),
   errorCodeCode |-> Set("res", <<"errorCode", "code">>),
   errorCodeReasonPhrase |-> Set("res", <<"errorCode", "reasonPhrase">>),
   errorCodeDetails |-> Set("res", <<"errorCode", "details">>)]

upcrsParseVector ==
  At(<<>>, [updateContextResponse |-> "nullTreat"]) @@
  At(<<"updateContextResponse">>, [
      contextResponseList |-> "nullTreat", errorCode |-> "nullTreat"]) @@
  At(<<"updateContextResponse", "contextResponseList">>, [
      contextElementResponse |-> "contextElementResponse"]) @@
  At(<<"updateContextResponse", "contextResponseList", "contextElementResponse">>, [
      contextElement |-> "nullTreat", statusCode |-> "nullTreat"]) @@
  At(<<"updateContextResponse", "contextResponseList", "contextElementResponse", "contextElement">>, [
      entityId |-> "entityId", contextAttributeList |-> "nullTreat"]) @@
  At(<<"updateContextResponse", "contextResponseList", "contextElementResponse", "contextElement", "entityId">>, [
      id |-> "entityIdId"]) @@
  At(<<"updateContextResponse", "contextResponseList", "contextElementResponse", "contextElement", "contextAttributeList">>, [
      contextAttribute |-> "contextAttribute"]) @@
  At(<<"updateContextResponse", "contextResponseList", "contextElementResponse", "contextElement", "contextAttributeList", "contextAttribute">>, [
      name |-> "contextAttributeName", type |-> "contextAttributeType",
      contextValue |-> "contextAttributeValue", metadata |-> "nullTreat"]) @@
  At(<<"updateContextResponse", "contextResponseList", "contextElementResponse", "contextElement", "contextAttributeList", "contextAttribute", "metadata">>, [
      contextMetadata |-> "contextMetadata"]) @@
  At(<<"updateContextResponse", "contextResponseList", "contextElementResponse", "contextElement", "contextAttributeList", "contextAttribute", "metadata", "contextMetadata">>, [
      name |-> "contextMetadataName", type |-> "contextMetadataType",
      value |-> "contextMetadataValue"]) @@
  At(<<"updateContextResponse", "contextResponseList", "contextElementResponse", "statusCode">>, [
      code |-> "statusCodeCode", reasonPhrase |-> "statusCodeReasonPhrase",
      details |-> "statusCodeDetails"]) @@
  At(<<"updateContextResponse", "errorCode">>, [
      code |-> "errorCodeCode", reasonPhrase |-> "errorCodeReasonPhrase",
      details |-> "errorCodeDetails"])

upcrsInit == {}

-----------------------------------------------------------------------------
(* xmlUpdateContextSubscriptionRequest.cpp                                  *)

ucsrRestriction ==
  [restriction |-> Count("res", <<"restrictions">>),
   attributeExpression |-> Set("res", <<"restriction", "attributeExpression">>),
   operationScope |-> New("scopeP", "res", <<"restriction", "scopeVector">>),
   scopeType |-> Set("scopeP", <<"type">>), scopeValue |-> ScopeValue("scopeP", NewName),
   circle |-> Area("scopeP", "Circle"),
   circleCenterLatitude |-> Set("scopeP", <<"circle", "center", "latitude">>),
   circleCenterLongitude |-> Set("scopeP", <<"circle", "center", "longitude">>),
   circleRadius |-> Set("scopeP", <<"circle", "radius">>)]

ucsrCircleInverted ==
  [circleInverted |-> SetOrErr("scopeP", <<"circle", "inverted">>),
   polygon |-> Area("scopeP", "Polygon"),
   polygonInverted |-> SetOrErr("scopeP", <<"polygon", "inverted">>),
   polygonVertexList |-> Null,
   polygonVertex |-> New("vertexP", "scopeP", <<"polygon", "vertexList">>),
   polygonVertexLatitude |-> Set("vertexP", <<"latitude">>),
   polygonVertexLongitude |-> Set("vertexP", <<"longitude">>),
   duration |-> Set("res", <<"duration">>),
   notifyCondition |-> New("notifyConditionP", "res", <<"notifyConditionVector">>),
   notifyConditionType |-> Set("notifyConditionP", <<"type">>)]

ucsrCondValue ==
  [condValue |-> Push("notifyConditionP", <<"condValueList">>),
   subscriptionId |-> Set("res", <<"subscriptionId">>),
   throttling |-> Set("res", <<"throttling">>)]

ucsrParseVector ==
  At(<<>>, [updateContextSubscriptionRequest |-> "nullTreat"]) @@
  At(<<"updateContextSubscriptionRequest">>, [
      duration |-> "duration", restriction |-> "restriction",
      subscriptionId |-> "subscriptionId", notifyConditions |-> "nullTreat",
      throttling |-> "throttling"]) @@
  At(<<"updateContextSubscriptionRequest", "restriction">>, [
      attributeExpression |-> "attributeExpression", scope |-> "nullTreat"]) @@
  At(<<"updateContextSubscriptionRequest", "restriction", "scope">>, [
      operationScope |-> "operationScope"]) @@
  At(<<"updateContextSubscriptionRequest", "restriction", "scope", "operationScope">>, [
      scopeType |-> "scopeType", scopeValue |-> "scopeValue"]) @@
  At(<<"updateContextSubscriptionRequest", "restriction", "scope", "operationScope", "scopeValue">>, [
      circle |-> "circle", polygon |-> "polygon"]) @@
  At(<<"updateContextSubscriptionRequest", "restriction", "scope", "operationScope", "scopeValue", "circle">>, [
      centerLatitude |-> "circleCenterLatitude",
      centerLongitude |-> "circleCenterLongitude", radius |-> "circleRadius",
      inverted |-> "circleInverted"]) @@
  At(<<"updateContextSubscriptionRequest", "restriction", "scope", "operationScope", "scopeValue", "polygon">>, [
      inverted |-> "polygonInverted", vertexList |-> "polygonVertexList"]) @@
  At(<<"updateContextSubscriptionRequest", "restriction", "scope", "operationScope", "scopeValue", "polygon", "vertexList">>, [
      vertex |-> "polygonVertex"]) @@
  At(<<"updateContextSubscriptionRequest", "restriction", "scope", "operationScope", "scopeValue", "polygon", "vertexList", "vertex">>, [
      latitude |-> "polygonVertexLatitude", longitude |-> "polygonVertexLongitude"]) @@
  At(<<"updateContextSubscriptionRequest", "notifyConditions">>, [
      notifyCondition |-> "notifyCondition"]) @@
  At(<<"updateContextSubscriptionRequest", "notifyConditions", "notifyCondition">>, [
      type |-> "notifyConditionType", condValueList |-> "nullTreat"]) @@
  At(<<"updateContextSubscriptionRequest", "notifyConditions", "notifyCondition", "condValueList">>, [
      condValue |-> "condValue"])

ucsrInit == {"notifyConditionP", "scopeP"}


-----------------------------------------------------------------------------
(* The table of the requests                                                *)

xmlParsers ==
  [acer |->
    [keyword |-> "appendContextElementRequest", handlers |-> acerAttributeDomainName @@ acerDomainMetadataType,
     vector |-> acerParseVector, init |-> acerInit],
   dcar |->
    [keyword |-> "discoverContextAvailabilityRequest", handlers |-> dcarEntityId,
     vector |-> dcarParseVector, init |-> dcarInit],
   ncar |->
    [keyword |-> "notifyContextAvailabilityRequest", handlers |-> ncarSubscriptionId @@ ncarAttributeMetadataName,
     vector |-> ncarParseVector, init |-> ncarInit],
   ncr |->
    [keyword |-> "notifyContextRequest", handlers |-> ncrSubscriptionId @@ ncrContextAttributeContextValue,
     vector |-> ncrParseVector, init |-> ncrInit],
   qcr |->
    [keyword |-> "queryContextRequest", handlers |-> qcrEntityId @@ qcrCircle @@ qcrPolygonVertexLongitude,
     vector |-> qcrParseVector, init |-> qcrInit],
   qcrs |->
    [keyword |-> "queryContextResponse", handlers |-> qcrsContextElementResponse @@ qcrsContextMetadataValue,
     vector |-> qcrsParseVector, init |-> qcrsInit],
   rcr |->
    [keyword |-> "registerContextRequest", handlers |-> rcrContextRegistration @@ rcrCraMetadataType @@ rcrSourceEntityIdId,
     vector |-> rcrParseVector, init |-> rcrInit],
   rcrs |->
    [keyword |-> "registerContextResponse", handlers |-> rcrsDuration,
     vector |-> rcrsParseVector, init |-> rcrsInit],
   rpr |->
    [keyword |-> "registerProviderRequest", handlers |-> rprContextMetadata,
     vector |-> rprParseVector, init |-> rprInit],
   scar |->
    [keyword |-> "subscribeContextAvailabilityRequest", handlers |-> scarEntityId @@ scarDuration,
     vector |-> scarParseVector, init |-> scarInit],
   scr |->
    [keyword |-> "subscribeContextRequest", handlers |-> scrEntityId @@ scrCircle @@ scrPolygonVertexLongitude,
     vector |-> scrParseVector, init |-> scrInit],
   ucar |->
    [keyword |-> "unsubscribeContextAvailabilityRequest", handlers |-> ucarSubscriptionId,
     vector |-> ucarParseVector, init |-> ucarInit],
   uncr |->
    [keyword |-> "unsubscribeContextRequest", handlers |-> uncrSubscriptionId,
     vector |-> uncrParseVector, init |-> uncrInit],
   upcar |->
    [keyword |-> "updateContextAttributeRequest", handlers |-> upcarAttributeType,
     vector |-> upcarParseVector, init |-> upcarInit],
   ucas |->
    [keyword |-> "updateContextAvailabilitySubscriptionRequest", handlers |-> ucasEntityId @@ ucasSubscriptionId,
     vector |-> ucasParseVector, init |-> ucasInit],
   ucer |->
    [keyword |-> "updateContextElementRequest", handlers |-> ucerAttributeDomainName,
     vector |-> ucerParseVector, init |-> ucerInit],
   upcr |->
    [keyword |-> "updateContextRequest", handlers |-> upcrContextElement @@ upcrContextMetadataType,
     vector |-> upcrParseVector, init |-> upcrInit],
   upcrs |->
    [keyword |-> "updateContextResponse", handlers |-> upcrsContextElementResponse @@ upcrsContextMetadataValue,
     vector |-> upcrsParseVector, init |-> upcrsInit],
   ucsr |->
    [keyword |-> "updateContextSubscriptionRequest", handlers |-> ucsrRestriction @@ ucsrCircleInverted @@ ucsrCondValue,
     vector |-> ucsrParseVector, init |-> ucsrInit]]

xmlRequest ==
  <<<<"RegisterContext", "POST", "rcr">>, <<"RegisterContext", "*", "rcr">>,
    <<"DiscoverContextAvailability", "POST", "dcar">>,
    <<"DiscoverContextAvailability", "*", "dcar">>,
    <<"SubscribeContextAvailability", "POST", "scar">>,
    <<"SubscribeContextAvailability", "*", "scar">>,
    <<"UnsubscribeContextAvailability", "POST", "ucar">>,
    <<"UnsubscribeContextAvailability", "*", "ucar">>,
    <<"UpdateContextAvailabilitySubscription", "POST", "ucas">>,
    <<"UpdateContextAvailabilitySubscription", "*", "ucas">>,
    <<"NotifyContextAvailability", "POST", "ncar">>,
    <<"NotifyContextAvailability", "*", "ncar">>, <<"UpdateContext", "POST", "upcr">>,
    <<"UpdateContext", "*", "upcr">>, <<"QueryContext", "POST", "qcr">>,
    <<"QueryContext", "*", "qcr">>, <<"SubscribeContext", "POST", "scr">>,
    <<"SubscribeContext", "*", "scr">>, <<"UpdateContextSubscription", "POST", "ucsr">>,
    <<"UpdateContextSubscription", "*", "ucsr">>, <<"UnsubscribeContext", "POST", "uncr">>,
    <<"UnsubscribeContext", "*", "uncr">>, <<"NotifyContext", "POST", "ncr">>,
    <<"NotifyContext", "*", "ncr">>, <<"ContextEntitiesByEntityId", "POST", "rpr">>,
    <<"ContextEntitiesByEntityId", "*", "rpr">>,
    <<"EntityByIdAttributeByName", "POST", "rpr">>,
    <<"EntityByIdAttributeByName", "*", "rpr">>,
    <<"ContextEntityAttributes", "POST", "rpr">>, <<"ContextEntityAttributes", "*", "rpr">>,
    <<"ContextEntityTypes", "POST", "rpr">>, <<"ContextEntityTypes", "*", "rpr">>,
    <<"ContextEntityTypeAttributeContainer", "POST", "rpr">>,
    <<"ContextEntityTypeAttributeContainer", "*", "rpr">>,
    <<"ContextEntityTypeAttribute", "POST", "rpr">>,
    <<"ContextEntityTypeAttribute", "*", "rpr">>,
    <<"UpdateContextElement", "POST", "ucer">>,
    <<"IndividualContextEntity", "PUT", "ucer">>,
    <<"IndividualContextEntity", "POST", "acer">>, <<"AllContextEntities", "POST", "acer">>,
    <<"IndividualContextEntityAttribute", "POST", "upcar">>,
    <<"IndividualContextEntityAttribute", "PUT", "upcar">>,
    <<"AttributeValueInstance", "PUT", "upcar">>,
    <<"IndividualContextEntityAttributes", "POST", "acer">>,
    <<"IndividualContextEntityAttributes", "PUT", "ucer">>,
    <<"AppendContextElement", "POST", "acer">>,
    <<"UpdateContextAttribute", "POST", "upcar">>, <<"SubscribeContext", "POST", "scr">>,
    <<"Ngsi10SubscriptionsConvOp", "PUT", "ucsr">>,
    <<"Ngsi9SubscriptionsConvOp", "POST", "scar">>,
    <<"Ngsi9SubscriptionsConvOp", "PUT", "ucas">>,
    <<"AllEntitiesWithTypeAndId", "PUT", "ucer">>,
    <<"AllEntitiesWithTypeAndId", "POST", "acer">>,
    <<"AllEntitiesWithTypeAndId", "*", "ucer">>,
    <<"IndividualContextEntityAttributeWithTypeAndId", "POST", "upcar">>,
    <<"IndividualContextEntityAttributeWithTypeAndId", "PUT", "upcar">>,
    <<"AttributeValueInstanceWithTypeAndId", "PUT", "upcar">>,
    <<"AttributeValueInstanceWithTypeAndId", "POST", "upcar">>,
    <<"ContextEntitiesByEntityIdAndType", "POST", "rpr">>,
    <<"EntityByIdAttributeByNameIdAndType", "POST", "rpr">>,
    <<"RegisterResponse", "POST", "rcrs">>, <<"RtQueryContextResponse", "POST", "qcrs">>,
    <<"RtUpdateContextResponse", "POST", "upcrs">>,
    <<"RtUpdateContextResponse", "PUT", "upcrs">>, <<"LogRequest", "*", "none">>,
    <<"VersionRequest", "*", "none">>, <<"ExitRequest", "*", "none">>,
    <<"InvalidRequest", "*", "none">>>>
=============================================================================
