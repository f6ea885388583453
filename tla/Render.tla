------------------------------ MODULE Render --------------------------------
(***************************************************************************)
(* The render methods of the types of lib/ngsi, lib/ngsi9, lib/ngsi10,     *)
(* lib/convenience and lib/orionTypes, for the messages that the broker    *)
(* writes: its answers, its notifications and the requests it forwards.    *)
(* X_render(pd, loc, fmt, comma) is the text of the object of class X that *)
(* is at loc in the data pd.                                               *)
(***************************************************************************)
EXTENDS Tags, NgsiCheck

\* The items of a vector, each told whether another one follows.
Rendered(pd, loc, Item1(_, _)) ==
  LET n == Size(pd, loc)
  IN  FlattenSeq([i \in 1 .. n |-> Item1(Item(loc, i), i # n)])

\* A vector without items is not written.
VectorOf(pd, loc, xmlTag, jsonTag, fmt, comma, Item1(_, _)) ==
  IF Size(pd, loc) = 0 THEN <<>>
  ELSE startVector(xmlTag, jsonTag, fmt) \o Rendered(pd, loc, Item1) \o
       endTag(xmlTag, fmt, comma, TRUE)

\* A string that is not written when it is empty.
StringOf(pd, loc, tag, fmt, comma) ==
  IF Text(pd, loc) = "" THEN <<>> ELSE valueTag(tag, Text(pd, loc), fmt, comma, FALSE)

Value(pd, loc, name, fmt, comma) ==
  valueTag(name, Text(pd, Field(loc, name)), fmt, comma, FALSE)

NoId == "000000000000000000000000"
SccNone == ""
SccOk == "200"
Code(pd, loc) == Text(pd, Field(loc, "code"))

-----------------------------------------------------------------------------
(* Parts of messages                                                        *)

AttributeDomainName_render(pd, loc, fmt, comma) ==
  StringOf(pd, loc, "attributeDomainName", fmt, comma)
Originator_render(pd, loc, fmt, comma) == StringOf(pd, loc, "originator", fmt, comma)
ProvidingApplication_render(pd, loc, fmt, comma) ==
  StringOf(pd, loc, "providingApplication", fmt, comma)
UpdateActionType_render(pd, loc, fmt, comma) == StringOf(pd, loc, "updateAction", fmt, comma)
Throttling_render(pd, loc, fmt, comma) == StringOf(pd, loc, "throttling", fmt, comma)

\* A duration that was not understood is not written.
Duration_render(pd, loc, fmt, comma) ==
  IF Text(pd, loc) \in Durations THEN StringOf(pd, loc, "duration", fmt, comma) ELSE <<>>

SubscriptionId_render(pd, loc, fmt, comma) ==
  valueTag("subscriptionId", IF Text(pd, loc) = "" THEN NoId ELSE Text(pd, loc),
           fmt, comma, FALSE)

RegistrationId_render(pd, loc, fmt, comma, inResponse) ==
  IF Text(pd, loc) = "" /\ inResponse THEN valueTag("registrationId", NoId, fmt, comma, FALSE)
  ELSE StringOf(pd, loc, "registrationId", fmt, comma)

\* As a field of a context element the entity has no braces of its own in JSON.
EntityId_render(pd, loc, fmt, comma, isInVector, assocTag, tag) ==
  LET E(name) == htmlEscape(Text(pd, Field(loc, name)))
  IN  IF fmt = "XML"
        THEN Open(tag, [name \in {"type", "isPattern"} |-> E(name)]) \o
             Open("id", NoAttrs) \o String(E("id")) \o Close("id") \o Close(tag)
        ELSE KeyIf(assocTag, isInVector /\ assocTag # "") \o SignIf("{", isInVector) \o
             Key("type") \o String(E("type")) \o Comma(TRUE) \o
             Key("isPattern") \o String(E("isPattern")) \o Comma(TRUE) \o
             Key("id") \o String(E("id")) \o SignIf("}", isInVector) \o Comma(comma)

EntityIdVector_render(pd, loc, fmt, comma) ==
  VectorOf(pd, loc, "entityIdList", "entities", fmt, comma,
           LAMBDA item, more : EntityId_render(pd, item, fmt, more, TRUE, "", "entityId"))

AttributeList_render(pd, loc, fmt, comma) ==
  VectorOf(pd, loc, "attributeList", "attributes", fmt, comma,
           LAMBDA item, more : valueTag("attribute", Text(pd, item), fmt, more, TRUE))

\* The strReplace of the quotation marks, in either format.
Backslashed(text) == IF text \in DOMAIN Quoted THEN Quoted[text] ELSE text

\* showTag: a status code that is a field; else it is the whole answer. The
\* details are escaped twice: here, and by valueTag.
StatusCodeText(pd, loc, tag, fmt, comma, showTag) ==
  LET none == Code(pd, loc) = SccNone
      details == IF none THEN "ZERO code set to 500"
                 ELSE Backslashed(Text(pd, Field(loc, "details")))
      reason == IF none THEN "Internal Server Error" ELSE Text(pd, Field(loc, "reasonPhrase"))
  IN  startTag(tag, fmt, showTag) \o
      valueTag("code", IF none THEN "500" ELSE Code(pd, loc), fmt, TRUE, FALSE) \o
      valueTag("reasonPhrase", reason, fmt, details # "", FALSE) \o
      (IF details # "" THEN valueTag("details", details, fmt, FALSE, FALSE) ELSE <<>>) \o
      endTag(tag, fmt, comma, FALSE)

StatusCode_render(pd, loc, tag, fmt, comma) == StatusCodeText(pd, loc, tag, fmt, comma, TRUE)

-----------------------------------------------------------------------------
(* Metadata and associations                                                *)

AttributeAssociation_render(pd, loc, fmt, comma) ==
  startItem("attributeAssociation", fmt) \o
  valueTag(IF fmt = "XML" THEN "sourceAttribute" ELSE "source", Text(pd, Field(loc, "source")),
           fmt, Has(pd, loc, "target"), FALSE) \o
  valueTag(IF fmt = "XML" THEN "targetAttribute" ELSE "target", Text(pd, Field(loc, "target")),
           fmt, FALSE, FALSE) \o
  endTag("attributeAssociation", fmt, comma, FALSE)

AttributeAssociationList_render(pd, loc, fmt, comma) ==
  VectorOf(pd, loc, "attributeAssociationList", "attributeAssociations", fmt, comma,
           LAMBDA item, more : AttributeAssociation_render(pd, item, fmt, more))

\* In XML the entities of an association have the tags that the parser gave
\* them.
EntityAssociation_render(pd, loc, fmt, comma) ==
  startTags("entityAssociation", "entities", fmt, FALSE, TRUE, FALSE) \o
  EntityId_render(pd, Field(loc, "source"), fmt, TRUE, TRUE, "source", "sourceEntityId") \o
  EntityId_render(pd, Field(loc, "target"), fmt, FALSE, TRUE, "target", "targetEntityId") \o
  endTag("entityAssociation", fmt, comma, FALSE)

Association_render(pd, loc, fmt) ==
  LET list == Field(loc, "attributeAssociationList")
  IN  (IF fmt = "JSON" THEN startItem("association", fmt) ELSE <<>>) \o
      EntityAssociation_render(pd, Field(loc, "entityAssociation"), fmt, Size(pd, list) # 0) \o
      AttributeAssociationList_render(pd, list, fmt, FALSE) \o
      (IF fmt = "JSON" THEN endTag("association", fmt, FALSE, FALSE) ELSE <<>>)

Metadata_render(pd, loc, fmt, comma) ==
  startItem("contextMetadata", fmt) \o
  Value(pd, loc, "name", fmt, TRUE) \o Value(pd, loc, "type", fmt, TRUE) \o
  (IF Text(pd, Field(loc, "type")) = "Association"
     THEN associationTag("value", Association_render(pd, Field(loc, "association"), fmt), fmt)
     ELSE Value(pd, loc, "value", fmt, FALSE)) \o
  endTag("contextMetadata", fmt, comma, FALSE)

MetadataVector_render(pd, loc, tag, fmt, comma) ==
  VectorOf(pd, loc, tag, "metadatas", fmt, comma,
           LAMBDA item, more : Metadata_render(pd, item, fmt, more))

-----------------------------------------------------------------------------
(* Context elements                                                         *)

\* The text of the root is what is inside its brackets, which the attribute
\* writes. A field knows by its place among its siblings whether it is last.
CompoundValueNode_render(tree, fmt) ==
  LET Container(k) == CHOOSE c \in 1 .. k : k \in ChildrenOf(tree, c)
      More(k) == \E s \in ChildrenOf(tree, Container(k)) : s > k
      InVector(k) == tree[Container(k)].type = "Vector"
      Tag(k) == IF InVector(k) THEN "item" ELSE Last(tree[k].path)
      render[k \in DOMAIN tree] ==
        LET isVector == tree[k].type = "Vector"
            children == FlattenSeq([c \in 1 .. Len(tree) |->
                                      IF c \in ChildrenOf(tree, k) THEN render[c] ELSE <<>>])
        IN  IF k = 1 THEN children
            ELSE IF tree[k].type = "String"
              THEN valueTag(Tag(k), tree[k].value, fmt, More(k), InVector(k))
            ELSE startTags(Tag(k), Tag(k), fmt, isVector, ~InVector(k), isVector) \o children \o
                 endTag(Tag(k), fmt, More(k), isVector)
  IN  render[1]

CompoundOf(pd, loc, fmt, comma) ==
  LET tree == pd.compound[loc]
      isVector == tree[1].type = "Vector"
  IN  startTags("contextValue", "value", fmt, isVector, TRUE, isVector) \o
      CompoundValueNode_render(tree, fmt) \o endTag("contextValue", fmt, comma, isVector)

IsCompound(pd, loc) == loc \in DOMAIN pd.compound

ValueOf(pd, loc, fmt, request, comma) ==
  IF IsCompound(pd, loc) THEN CompoundOf(pd, loc, fmt, comma)
  ELSE valueTag(IF fmt = "XML" THEN "contextValue" ELSE "value",
                IF request = "updateContextResponse" THEN "" ELSE Text(pd, Field(loc, "value")),
                fmt, comma, FALSE)

ContextAttribute_render(pd, loc, fmt, request, comma) ==
  LET metadata == Field(loc, "metadataVector")
  IN  startTags("contextAttribute", "attribute", fmt, FALSE, FALSE, FALSE) \o
      Value(pd, loc, "name", fmt, TRUE) \o Value(pd, loc, "type", fmt, TRUE) \o
      ValueOf(pd, loc, fmt, request, Size(pd, metadata) # 0) \o
      MetadataVector_render(pd, metadata, "metadata", fmt, FALSE) \o
      endTag("contextAttribute", fmt, comma, FALSE)

\* With attributeFormat=object an attribute is a field with its name.
ContextAttribute_renderAsJsonObject(pd, loc, request, comma) ==
  LET metadata == Field(loc, "metadataVector")
  IN  startTag(Text(pd, Field(loc, "name")), "JSON", TRUE) \o
      Value(pd, loc, "type", "JSON", TRUE) \o
      ValueOf(pd, loc, "JSON", request, Size(pd, metadata) # 0) \o
      MetadataVector_render(pd, metadata, "metadata", "JSON", FALSE) \o
      endTag("", "JSON", comma, FALSE)

ContextAttribute_renderAsNameString(pd, loc, fmt, comma) ==
  valueTag("name", Text(pd, Field(loc, "name")), fmt, comma, TRUE)

\* Asked for by itself, an attribute that is not there is an empty list in XML.
\* As an object, of attributes with one name only the first is written; the
\* one after an attribute that was dropped is not looked at.
FirstOfName(pd, loc) ==
  LET name(i) == Text(pd, Field(Item(loc, i), "name"))
      kept[i \in 0 .. Size(pd, loc)] ==
        IF i = 0 THEN [added |-> {}, list |-> <<>>, skip |-> FALSE]
        ELSE LET k == kept[i - 1]
             IN  CASE k.skip -> [k EXCEPT !.list = Append(@, i), !.skip = FALSE]
                   [] ~k.skip /\ name(i) \in k.added -> [k EXCEPT !.skip = TRUE]
                   [] OTHER -> [k EXCEPT !.added = @ \cup {name(i)}, !.list = Append(@, i)]
  IN  kept[Size(pd, loc)].list

ContextAttributeVector_render(pd, loc, fmt, request, comma, asObject) ==
  LET list == FirstOfName(pd, loc)
  IN  IF asObject /\ fmt = "JSON" /\ Size(pd, loc) # 0
        THEN startTags("contextAttributeList", "attributes", fmt, FALSE, TRUE, FALSE) \o
             FlattenSeq([i \in DOMAIN list |-> ContextAttribute_renderAsJsonObject(
                           pd, Item(loc, list[i]), request, i # Len(list))]) \o
             endTag("contextAttributeList", fmt, comma, FALSE)
      ELSE IF Size(pd, loc) = 0 /\ fmt = "XML" /\ request = "contextAttributeResponse"
        THEN Open("contextAttributeList", NoAttrs) \o Close("contextAttributeList")
      ELSE VectorOf(pd, loc, "contextAttributeList", "attributes", fmt, comma,
               LAMBDA item, more : ContextAttribute_render(pd, item, fmt, request, more))

\* The attributes of a type, by their names.
ContextAttributeVector_renderNames(pd, loc, fmt, comma) ==
  VectorOf(pd, loc, "contextAttributeList", "attributes", fmt, comma,
           LAMBDA item, more : ContextAttribute_renderAsNameString(pd, item, fmt, more))

ContextElement_render(pd, loc, fmt, request, comma, asObject) ==
  LET attributes == Field(loc, "contextAttributeVector")
      domain == Field(loc, "domainMetadataVector")
      afterDomainName == Size(pd, domain) # 0 \/ Size(pd, attributes) # 0
  IN  startTags("contextElement", "contextElement", fmt, FALSE, request # "updateContextRequest",
                FALSE) \o
      EntityId_render(pd, Field(loc, "entityId"), fmt,
                      afterDomainName \/ Has(pd, loc, "attributeDomainName"), FALSE, "",
                      "entityId") \o
      AttributeDomainName_render(pd, Field(loc, "attributeDomainName"), fmt, afterDomainName) \o
      ContextAttributeVector_render(pd, attributes, fmt, request, Size(pd, domain) # 0,
                                    asObject) \o
      MetadataVector_render(pd, domain, "registrationMetadata", fmt, FALSE) \o
      endTag("contextElement", fmt, comma, FALSE)

ContextElementVector_render(pd, loc, fmt, comma, asObject) ==
  VectorOf(pd, loc, "contextElementList", "contextElements", fmt, comma,
           LAMBDA item, more : ContextElement_render(pd, item, fmt, "updateContextRequest",
                                                     more, asObject))

ContextElementResponse_render(pd, loc, fmt, request, comma, asObject) ==
  startItem("contextElementResponse", fmt) \o
  ContextElement_render(pd, Field(loc, "contextElement"), fmt, request, TRUE, asObject) \o
  StatusCode_render(pd, Field(loc, "statusCode"), "statusCode", fmt, FALSE) \o
  endTag("contextElementResponse", fmt, comma, FALSE)

ContextElementResponseVector_render(pd, loc, fmt, request, comma, asObject) ==
  VectorOf(pd, loc, "contextResponseList", "contextResponses", fmt, comma,
    LAMBDA item, more : ContextElementResponse_render(pd, item, fmt, request, more, asObject))

-----------------------------------------------------------------------------
(* Context registrations                                                    *)

ContextRegistrationAttribute_render(pd, loc, fmt, comma) ==
  LET metadata == Field(loc, "metadataVector")
  IN  startItem("contextRegistrationAttribute", fmt) \o
      Value(pd, loc, "name", fmt, TRUE) \o Value(pd, loc, "type", fmt, TRUE) \o
      Value(pd, loc, "isDomain", fmt, Size(pd, metadata) # 0) \o
      MetadataVector_render(pd, metadata, "metadata", fmt, FALSE) \o
      endTag("contextRegistrationAttribute", fmt, comma, FALSE)

ContextRegistrationAttributeVector_render(pd, loc, fmt, comma) ==
  VectorOf(pd, loc, "contextRegistrationAttributeList", "attributes", fmt, comma,
           LAMBDA item, more : ContextRegistrationAttribute_render(pd, item, fmt, more))

\* What precedes the providing application always writes a comma.
ContextRegistration_render(pd, loc, fmt, comma, isInVector) ==
  startTag("contextRegistration", fmt, ~isInVector) \o
  EntityIdVector_render(pd, Field(loc, "entityIdVector"), fmt, TRUE) \o
  ContextRegistrationAttributeVector_render(
    pd, Field(loc, "contextRegistrationAttributeVector"), fmt, TRUE) \o
  MetadataVector_render(pd, Field(loc, "registrationMetadataVector"), "registrationMetadata",
                        fmt, TRUE) \o
  ProvidingApplication_render(pd, Field(loc, "providingApplication"), fmt, FALSE) \o
  endTag("contextRegistration", fmt, comma, FALSE)

\* Its end is that of a vector only if a comma follows.
ContextRegistrationVector_render(pd, loc, fmt, comma) ==
  IF Size(pd, loc) = 0 THEN <<>>
  ELSE startVector("contextRegistrationList", "contextRegistrations", fmt) \o
       Rendered(pd, loc, LAMBDA item, more :
                           ContextRegistration_render(pd, item, fmt, more, TRUE)) \o
       endTag("contextRegistrationList", fmt, comma, comma)

ContextRegistrationResponse_render(pd, loc, fmt, comma) ==
  LET error == Field(loc, "errorCode")
      rendered == Code(pd, error) # SccNone
  IN  startItem("contextRegistrationResponse", fmt) \o
      ContextRegistration_render(pd, Field(loc, "contextRegistration"), fmt, rendered, FALSE) \o
      (IF rendered THEN StatusCode_render(pd, error, "errorCode", fmt, FALSE) ELSE <<>>) \o
      endTag("contextRegistrationResponse", fmt, comma, FALSE)

ContextRegistrationResponseVector_render(pd, loc, fmt, comma) ==
  VectorOf(pd, loc, "contextRegistrationResponseList", "contextRegistrationResponses", fmt, comma,
           LAMBDA item, more : ContextRegistrationResponse_render(pd, item, fmt, more))

-----------------------------------------------------------------------------
(* Requests that the broker sends                                           *)

Braced(tag, fmt, body) == startItem(tag, fmt) \o body \o endTag(tag, fmt, FALSE, FALSE)

At1(name) == <<name>>

UpdateContextRequest_render(pd, fmt, asObject) ==
  Braced("updateContextRequest", fmt,
    ContextElementVector_render(pd, At1("contextElementVector"), fmt, TRUE, asObject) \o
    UpdateActionType_render(pd, At1("updateActionType"), fmt, FALSE))

\* Mutant: the comma after the entities does not depend on the attributes.
QueryContextRequest_renderComma(pd, fmt) ==
  Braced("queryContextRequest", fmt,
    EntityIdVector_render(pd, At1("entityIdVector"), fmt, TRUE) \o
    AttributeList_render(pd, At1("attributeList"), fmt, FALSE))

\* A forwarded query has no restriction.
QueryContextRequest_render(pd, fmt) ==
  Braced("queryContextRequest", fmt,
    EntityIdVector_render(pd, At1("entityIdVector"), fmt, Size(pd, At1("attributeList")) # 0) \o
    AttributeList_render(pd, At1("attributeList"), fmt, FALSE))

RegisterContextRequest_render(pd, fmt) ==
  Braced("registerContextRequest", fmt,
    ContextRegistrationVector_render(pd, At1("contextRegistrationVector"), fmt,
      Has(pd, <<>>, "registrationId") \/ Has(pd, <<>>, "duration")) \o
    Duration_render(pd, At1("duration"), fmt, Has(pd, <<>>, "registrationId")) \o
    RegistrationId_render(pd, At1("registrationId"), fmt, FALSE, FALSE))

NotifyContextRequest_render(pd, fmt) ==
  LET elements == At1("contextElementResponseVector")
  IN  Braced("notifyContextRequest", fmt,
        SubscriptionId_render(pd, At1("subscriptionId"), fmt, TRUE) \o
        Originator_render(pd, At1("originator"), fmt, Size(pd, elements) # 0) \o
        ContextElementResponseVector_render(pd, elements, fmt, "notifyContextRequest", FALSE,
                                            FALSE))

NotifyContextAvailabilityRequest_render(pd, fmt) ==
  Braced("notifyContextAvailabilityRequest", fmt,
    SubscriptionId_render(pd, At1("subscriptionId"), fmt, TRUE) \o
    ContextRegistrationResponseVector_render(pd, At1("contextRegistrationResponseVector"), fmt,
                                             FALSE))

-----------------------------------------------------------------------------
(* Answers                                                                  *)

Error(pd) == At1("errorCode")
ErrorCode(pd) == Code(pd, Error(pd))
ErrorText(pd, fmt) == StatusCode_render(pd, Error(pd), "errorCode", fmt, FALSE)
\* fill(code, details) of a status code.
Filled(pd, loc, code, details) ==
  [pd EXCEPT !.val = (Field(loc, "code") :> code) @@ (Field(loc, "details") :> details) @@ @]

\* Mutant: the comma after the elements does not depend on the error code.
QueryContextResponse_renderNoComma(pd, fmt, asObject) ==
  LET elements == At1("contextElementResponseVector")
      none == Size(pd, elements) = 0
      error == ErrorCode(pd) \notin {SccNone, SccOk} \/ none \/ Has(pd, Error(pd), "details")
      filled == IF ~none /\ error /\ ErrorCode(pd) = SccNone
                THEN [pd EXCEPT !.val = (Field(Error(pd), "code") :> SccOk) @@ @] ELSE pd
  IN  Braced("queryContextResponse", fmt,
        ContextElementResponseVector_render(pd, elements, fmt, "queryContextResponse", FALSE,
                                            asObject) \o
        (IF error THEN ErrorText(filled, fmt) ELSE <<>>))

\* An error, the lack of elements and the details of a success are told by
\* an error code.
QueryContextResponse_render(pd, fmt, asObject) ==
  LET elements == At1("contextElementResponseVector")
      none == Size(pd, elements) = 0
      error == ErrorCode(pd) \notin {SccNone, SccOk} \/ none \/ Has(pd, Error(pd), "details")
      filled == IF ~none /\ error /\ ErrorCode(pd) = SccNone
                THEN [pd EXCEPT !.val = (Field(Error(pd), "code") :> SccOk) @@ @] ELSE pd
  IN  Braced("queryContextResponse", fmt,
        ContextElementResponseVector_render(pd, elements, fmt, "queryContextResponse", error,
                                            asObject) \o
        (IF error THEN ErrorText(filled, fmt) ELSE <<>>))

UpdateContextResponse_render(pd, fmt, asObject) ==
  LET elements == At1("contextElementResponseVector")
      error == ErrorCode(pd) \notin {SccNone, SccOk}
      empty == Size(pd, elements) = 0
      notFound == Filled(pd, Error(pd), "404", Text(pd, Field(Error(pd), "details")))
  IN  Braced("updateContextResponse", fmt,
        CASE error -> ErrorText(pd, fmt)
          [] ~error /\ empty -> ErrorText(notFound, fmt)
          [] OTHER -> ContextElementResponseVector_render(
                        pd, elements, fmt, "updateContextResponse", FALSE, asObject))

\* The duration always writes a comma: a registration identifier follows.
RegisterContextResponse_render(pd, fmt) ==
  LET error == ErrorCode(pd) \notin {SccNone, SccOk}
  IN  Braced("registerContextResponse", fmt,
        Duration_render(pd, At1("duration"), fmt, TRUE) \o
        RegistrationId_render(pd, At1("registrationId"), fmt, error, TRUE) \o
        (IF error THEN ErrorText(pd, fmt) ELSE <<>>))

DiscoverContextAvailabilityResponse_render(pd, fmt) ==
  LET responses == At1("contextRegistrationResponseVector")
      error == ErrorCode(pd) # SccNone
      empty == Size(pd, responses) = 0
      internal == Filled(pd, Error(pd), "500", "Both empty")
  IN  Braced("discoverContextAvailabilityResponse", fmt,
        ContextRegistrationResponseVector_render(pd, responses, fmt, error) \o
        (IF error THEN ErrorText(pd, fmt) ELSE <<>>) \o
        (IF ~error /\ empty THEN ErrorText(internal, fmt) ELSE <<>>))

\* The answers to subscribeContextAvailability and to its update.
SubscribeContextAvailabilityResponse_render(pd, fmt, tag) ==
  LET error == ErrorCode(pd) # SccNone
  IN  Braced(tag, fmt,
        SubscriptionId_render(pd, At1("subscriptionId"), fmt,
                              Has(pd, <<>>, "duration") \/ error) \o
        Duration_render(pd, At1("duration"), fmt, error) \o
        (IF error THEN ErrorText(pd, fmt) ELSE <<>>))
UpdateContextAvailabilitySubscriptionResponse_render(pd, fmt) ==
  SubscribeContextAvailabilityResponse_render(
    pd, fmt, "updateContextAvailabilitySubscriptionResponse")

Unsubscribed(pd, fmt, tag) ==
  Braced(tag, fmt,
    SubscriptionId_render(pd, At1("subscriptionId"), fmt, TRUE) \o
    StatusCode_render(pd, At1("statusCode"), "statusCode", fmt, FALSE))
UnsubscribeContextResponse_render(pd, fmt) ==
  Unsubscribed(pd, fmt, "unsubscribeContextResponse")
UnsubscribeContextAvailabilityResponse_render(pd, fmt) ==
  Unsubscribed(pd, fmt, "unsubscribeContextAvailabilityResponse")

SubscribeResponse_render(pd, fmt) ==
  startTag("subscribeResponse", fmt, TRUE) \o
  SubscriptionId_render(pd, At1("subscriptionId"), fmt,
                        Has(pd, <<>>, "duration") \/ Has(pd, <<>>, "throttling")) \o
  Duration_render(pd, At1("duration"), fmt, Has(pd, <<>>, "throttling")) \o
  Throttling_render(pd, At1("throttling"), fmt, FALSE) \o
  endTag("subscribeResponse", fmt, FALSE, FALSE)

SubscribeError_render(pd, fmt, request) ==
  LET known == Text(pd, At1("subscriptionId")) \notin {"", NoId}
  IN  startTag("subscribeError", fmt, TRUE) \o
      (IF request = "updateContextSubscription" \/ known
         THEN SubscriptionId_render(pd, At1("subscriptionId"), fmt, TRUE) ELSE <<>>) \o
      ErrorText(pd, fmt) \o
      endTag("subscribeError", fmt, FALSE, FALSE)

Subscribed(pd, fmt, tag, request) ==
  Braced(tag, fmt,
    IF ErrorCode(pd) = SccNone THEN SubscribeResponse_render(pd, fmt)
    ELSE SubscribeError_render(pd, fmt, request))
SubscribeContextResponse_render(pd, fmt) ==
  Subscribed(pd, fmt, "subscribeContextResponse", "subscribeContext")
UpdateContextSubscriptionResponse_render(pd, fmt) ==
  Subscribed(pd, fmt, "updateContextSubscriptionResponse", "updateContextSubscription")

Notified(pd, fmt, tag) ==
  Braced(tag, fmt, StatusCode_render(pd, At1("responseCode"), "responseCode", fmt, FALSE))
NotifyContextResponse_render(pd, fmt) == Notified(pd, fmt, "notifyContextResponse")
NotifyContextAvailabilityResponse_render(pd, fmt) ==
  Notified(pd, fmt, "notifyContextAvailabilityResponse")

ContextAttributeResponse_render(pd, loc, fmt, request, asObject) ==
  Braced("contextAttributeResponse", fmt,
    ContextAttributeVector_render(pd, Field(loc, "contextAttributeVector"), fmt, request, TRUE,
                                  asObject) \o
    StatusCode_render(pd, Field(loc, "statusCode"), "statusCode", fmt, FALSE))

\* No commas between the responses: there is one at most.
ContextAttributeResponseVector_render(pd, loc, fmt, request, asObject) ==
  IF Size(pd, loc) = 0 THEN <<>>
  ELSE startVector("contextResponseList", "contextResponses", fmt) \o
       Rendered(pd, loc, LAMBDA item, more :
                  ContextAttributeResponse_render(pd, item, fmt, request, asObject)) \o
       endTag("contextResponseList", fmt, FALSE, TRUE)

AppendContextElementResponse_render(pd, fmt, asObject) ==
  Braced("appendContextElementResponse", fmt,
    IF ErrorCode(pd) \notin {SccNone, SccOk} THEN ErrorText(pd, fmt)
    ELSE (IF Has(pd, At1("entity"), "id")
            THEN EntityId_render(pd, At1("entity"), fmt, TRUE, FALSE, "", "entityId")
            ELSE <<>>) \o
         ContextAttributeResponseVector_render(pd, At1("contextAttributeResponseVector"), fmt,
                                               "appendContextElement", asObject))

UpdateContextElementResponse_render(pd, fmt, asObject) ==
  Braced("updateContextElementResponse", fmt,
    IF ErrorCode(pd) \notin {SccNone, SccOk} THEN ErrorText(pd, fmt)
    ELSE ContextAttributeResponseVector_render(pd, At1("contextAttributeResponseVector"), fmt,
                                               "updateContextElement", asObject))

\* collapse: the types are listed without their attributes.
TypeEntity_render(pd, loc, fmt, comma, collapse) ==
  LET attributes == Field(loc, "contextAttributeVector")
      short == collapse \/ Size(pd, attributes) = 0
  IN  startTags("entityType", "type", fmt, FALSE, FALSE, FALSE) \o
      valueTag("name", Text(pd, Field(loc, "type")), fmt, ~short, FALSE) \o
      (IF short THEN <<>>
       ELSE ContextAttributeVector_renderNames(pd, attributes, fmt, FALSE)) \o
      endTag("entityType", fmt, comma, FALSE)

TypeEntityVector_render(pd, loc, fmt, comma, collapse) ==
  VectorOf(pd, loc, "typeEntities", "types", fmt, comma,
           LAMBDA item, more : TypeEntity_render(pd, item, fmt, more, collapse))

EntityTypesResponse_render(pd, fmt, collapse) ==
  Braced("entityTypesResponse", fmt,
    TypeEntityVector_render(pd, At1("typeEntityVector"), fmt, TRUE, collapse) \o
    StatusCode_render(pd, At1("statusCode"), "statusCode", fmt, FALSE))

\* In JSON the type has no braces of its own.
EntityTypeAttributesResponse_render(pd, fmt, collapse) ==
  LET type == At1("entityType")
  IN  Braced("entityTypeAttributesResponse", fmt,
        (IF fmt = "JSON"
           THEN valueTag("name", Text(pd, Field(type, "type")), fmt, TRUE, FALSE) \o
                ContextAttributeVector_renderNames(pd, Field(type, "contextAttributeVector"), fmt,
                                                   TRUE)
           ELSE TypeEntity_render(pd, type, fmt, TRUE, collapse)) \o
        StatusCode_render(pd, At1("statusCode"), "statusCode", fmt, FALSE))
=============================================================================
