----------------------------- MODULE Documents ------------------------------
(***************************************************************************)
(* The requests that clients send, in both formats at once: a document is  *)
(* the sequence of its nodes in document order. A node has its path in the *)
(* XML document and the one in the JSON document (<<>> when the JSON       *)
(* document has no such node; items of arrays are unnamed there), its      *)
(* value, and its kind: an element, a leaf, or an XML attribute. What XML  *)
(* writes as an attribute is a field of JSON, but for the attribute that   *)
(* marks a vector.                                                         *)
(***************************************************************************)
EXTENDS NgsiCheck

CONSTANTS ADuration, AnId   \* a duration and an ID that are accepted

Free == "*"      \* any text: each one is replaced by a text of its own
Dropped == "-"   \* no node in the JSON document

Under(xml, json, node) ==
  [node EXCEPT !.path = <<xml>> \o @,
               !.json = IF @ = <<>> \/ json = Dropped THEN @ ELSE <<json>> \o @]

Node(xml, json, value, kind) ==
  [path |-> <<xml>>, json |-> IF json = Dropped THEN <<>> ELSE <<json>>,
   value |-> value, kind |-> kind]

El(xml, json, kids) ==
  LET nodes == FlattenSeq(kids)
  IN  <<Node(xml, json, "", "element")>> \o [k \in DOMAIN nodes |-> Under(xml, json, nodes[k])]
Leaf(xml, json, value) == <<Node(xml, json, value, "leaf")>>
Attr(name, json, value) == <<Node(name, json, value, "attribute")>>

FreshText(n) == ToString(1000 + n)
Numbered(nodes, from) ==
  [k \in DOMAIN nodes |->
     IF nodes[k].value = Free THEN [nodes[k] EXCEPT !.value = FreshText(from + k)] ELSE nodes[k]]

-----------------------------------------------------------------------------
(* Parts of requests                                                        *)

Same(name, value) == Leaf(name, name, value)

EntityFields == <<Attr("type", "type", Free), Attr("isPattern", "isPattern", "false"),
                  Same("id", Free)>>
EntityIdList == El("entityIdList", "entities", <<El("entityId", Unnamed, EntityFields)>>)
EntityOfElement == El("entityId", Dropped, EntityFields)
AttributeNames == El("attributeList", "attributes", <<Leaf("attribute", Unnamed, Free)>>)

NameAndType == <<Same("name", Free), Same("type", Free)>>
MetadataItem == El("contextMetadata", Unnamed, NameAndType \o <<Same("value", Free)>>)
MetadataList(xml) == El(xml, "metadatas", <<MetadataItem>>)

SimpleValue == Leaf("contextValue", "value", Free)
ObjectValue == El("contextValue", "value",
  <<Same("a", Free), El("b", "b", <<Same("c", Free), Same("d", Free)>>)>>)
VectorValue == El("contextValue", "value",
  <<Attr("type", Dropped, "vector"), Leaf("item", Unnamed, Free),
    El("item", Unnamed, <<Same("a", Free)>>)>>)

ContextAttributeList(value) ==
  El("contextAttributeList", "attributes",
     <<El("contextAttribute", Unnamed, NameAndType \o <<value, MetadataList("metadata")>>)>>)

ContextElement(value) ==
  El("contextElement", "contextElement", <<EntityOfElement, ContextAttributeList(value)>>)
StatusCode(name) ==
  El(name, name, <<Same("code", "200"), Same("reasonPhrase", Free), Same("details", Free)>>)
ContextResponseList(value) ==
  El("contextResponseList", "contextResponses",
     <<El("contextElementResponse", Unnamed, <<ContextElement(value), StatusCode("statusCode")>>)>>)

RegistrationAttributes ==
  El("contextRegistrationAttributeList", "attributes",
     <<El("contextRegistrationAttribute", Unnamed,
          NameAndType \o <<Same("isDomain", "false"), MetadataList("metadata")>>)>>)
Association ==
  El("registrationMetadata", "metadatas", <<El("contextMetadata", Unnamed,
     <<Same("name", Free), Same("type", "Association"), El("value", "value",
       <<El("entityAssociation", Dropped,
            <<El("sourceEntityId", "source", EntityFields),
              El("targetEntityId", "target", EntityFields)>>),
         El("attributeAssociationList", "attributeAssociations",
            <<El("attributeAssociation", Unnamed, <<Leaf("sourceAttribute", "source", Free),
                                                    Leaf("targetAttribute", "target", Free)>>)>>)
       >>)>>)>>)
ContextRegistration(json, metadata) ==
  El("contextRegistration", json,
     <<EntityIdList, RegistrationAttributes, metadata, Same("providingApplication", Free)>>)

Scopes(type, value) ==
  El("restriction", "restriction", <<Same("attributeExpression", Free), El("scope", "scopes",
     <<El("operationScope", Unnamed, <<Leaf("scopeType", "type", type), value>>)>>)>>)
TextScope == Scopes(Free, Leaf("scopeValue", "value", Free))
CircleScope == Scopes(FIWARE_LOCATION, El("scopeValue", "value", <<El("circle", "circle",
  <<Same("centerLatitude", Free), Same("centerLongitude", Free), Same("radius", Free),
    Same("inverted", "false")>>)>>))
Vertex == El("vertex", Unnamed, <<Same("latitude", Free), Same("longitude", Free)>>)
PolygonScope == Scopes(FIWARE_LOCATION, El("scopeValue", "value", <<El("polygon", "polygon",
  <<Same("inverted", "false"), El("vertexList", "vertices", <<Vertex, Vertex, Vertex>>)>>)>>))

NotifyConditions ==
  El("notifyConditions", "notifyConditions", <<El("notifyCondition", Unnamed,
     <<Same("type", "ONCHANGE"), El("condValueList", "condValues",
                                    <<Leaf("condValue", Unnamed, Free)>>)>>)>>)

-----------------------------------------------------------------------------
(* The requests, <<parser, document>>                                       *)

Request(parser, root, kids) == <<parser, Numbered(El(root, Dropped, kids), 0)>>

Requests ==
  {Request("rcr", "registerContextRequest",
     <<El("contextRegistrationList", "contextRegistrations",
          <<ContextRegistration(Unnamed, metadata)>>),
       Same("duration", ADuration), Same("registrationId", AnId)>>) :
       metadata \in {MetadataList("registrationMetadata"), Association}} \cup
  {Request("dcar", "discoverContextAvailabilityRequest",
     <<EntityIdList, AttributeNames, TextScope>>),
   Request("scar", "subscribeContextAvailabilityRequest",
     <<EntityIdList, AttributeNames, Same("reference", Free), Same("duration", ADuration),
       TextScope>>),
   Request("ucas", "updateContextAvailabilitySubscriptionRequest",
     <<EntityIdList, AttributeNames, Same("duration", ADuration), TextScope,
       Same("subscriptionId", AnId)>>),
   Request("ucar", "unsubscribeContextAvailabilityRequest", <<Same("subscriptionId", AnId)>>),
   Request("uncr", "unsubscribeContextRequest", <<Same("subscriptionId", AnId)>>),
   Request("ncar", "notifyContextAvailabilityRequest",
     <<Same("subscriptionId", AnId),
       El("contextRegistrationResponseList", "contextRegistrationResponses",
          <<El("contextRegistrationResponse", Unnamed,
               <<ContextRegistration("contextRegistration",
                                     MetadataList("registrationMetadata"))>>)>>)>>),
   Request("rpr", "registerProviderRequest",
     <<MetadataList("metadata"), Same("duration", ADuration),
       Same("providingApplication", Free), Same("registrationId", AnId)>>)} \cup
  {Request("qcr", "queryContextRequest", <<EntityIdList, AttributeNames, scope>>) :
     scope \in {TextScope, CircleScope, PolygonScope}} \cup
  {Request("scr", "subscribeContextRequest",
     <<EntityIdList, AttributeNames, Same("reference", Free), Same("duration", ADuration), scope,
       NotifyConditions, Same("throttling", ADuration)>>) :
     scope \in {TextScope, CircleScope, PolygonScope}} \cup
  {Request("ucsr", "updateContextSubscriptionRequest",
     <<Same("duration", ADuration), scope, Same("subscriptionId", AnId), NotifyConditions,
       Same("throttling", ADuration)>>) :
     scope \in {TextScope, CircleScope, PolygonScope}} \cup
  UNION {{
    Request("upcr", "updateContextRequest",
      <<El("contextElementList", "contextElements",
           <<El("contextElement", Unnamed,
                <<EntityOfElement, ContextAttributeList(value),
                  El("domainMetadata", "domainMetadatas", <<MetadataItem>>)>>)>>),
        Same("updateAction", "UPDATE")>>),
    Request("acer", "appendContextElementRequest",
      <<Same("attributeDomainName", Free), EntityOfElement, ContextAttributeList(value),
        MetadataList("domainMetadata")>>),
    Request("ucer", "updateContextElementRequest",
      <<Same("attributeDomainName", Free), ContextAttributeList(value)>>),
    Request("upcar", "updateContextAttributeRequest",
      <<Same("type", Free), value, MetadataList("metadata")>>),
    Request("ncr", "notifyContextRequest",
      <<Same("subscriptionId", AnId), Same("originator", Free), ContextResponseList(value)>>)} :
    value \in {SimpleValue, ObjectValue, VectorValue}} \cup
  {Request(reply[1], reply[2], <<ContextResponseList(SimpleValue), StatusCode("errorCode")>>) :
     reply \in {<<"qcrs", "queryContextResponse">>, <<"upcrs", "updateContextResponse">>}}

-----------------------------------------------------------------------------
(* The documents of the two formats                                         *)

XmlDocument(doc) ==
  LET elements == SelectSeq([i \in DOMAIN doc |-> i], LAMBDA i : doc[i].kind # "attribute")
      Attributes(i) == {k \in ChildrenOf(doc, i) : doc[k].kind = "attribute"}
      AttrsOf(i) ==
        [name \in {Last(doc[k].path) : k \in Attributes(i)} |->
           doc[CHOOSE k \in Attributes(i) : Last(doc[k].path) = name].value]
  IN  [k \in DOMAIN elements |-> [path |-> doc[elements[k]].path, value |-> doc[elements[k]].value,
                                  attrs |-> AttrsOf(elements[k])]]

JsonDocument(doc) ==
  LET nodes == SelectSeq(doc, LAMBDA n : n.json # <<>>)
  IN  [k \in DOMAIN nodes |-> [path |-> nodes[k].json, value |-> nodes[k].value, attrs |-> <<>>]]
=============================================================================
