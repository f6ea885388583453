------------------------------ MODULE Messages ------------------------------
(***************************************************************************)
(* Two brokers that talk to each other. What a broker writes (the requests *)
(* it forwards to context providers and to a configuration manager, its    *)
(* notifications and its answers) another one reads: the render methods of *)
(* the one meet the parsers of the other. A broker that accepted a request *)
(* of module Codec passes its contents on, in either format, or answers.   *)
(***************************************************************************)
EXTENDS Codec, Render

CONSTANT Default   \* the duration of a registration that gives none

VARIABLE out   \* the last message: what it says and how it was read

Formats == {"XML", "JSON"}

-----------------------------------------------------------------------------
(* What the messages of the broker say                                      *)

Without(pd, names) ==
  LET Kept1(loc) == \A k \in DOMAIN loc : loc[k] \notin names
  IN  [pd EXCEPT !.val = Restrict(@, {l \in DOMAIN @ : Kept1(l)}),
                 !.len = Restrict(@, {l \in DOMAIN @ : Kept1(l)}),
                 !.compound = Restrict(@, {l \in DOMAIN @ : Kept1(l)})]
With(pd, loc, text) == [pd EXCEPT !.val = (loc :> text) @@ @]

Domain == {"domainMetadataVector", "attributeDomainName"}

\* An element that is forwarded, notified or found has an entity and its
\* attributes only; an answer to an update has no values; the registry keeps
\* no metadata; a notification has an originator.
Said(name, pd) ==
  CASE name = "upcr" -> Without(pd, Domain)
    [] name = "qcr" -> Without(pd, {"restriction", "restrictions"})
    [] name = "rcr" -> IF Has(pd, <<>>, "duration") THEN pd ELSE With(pd, <<"duration">>, Default)
    [] name = "ncr" -> With(Without(pd, Domain), <<"originator">>, "localhost")
    [] name = "ncar" -> Without(pd, {"metadataVector", "registrationMetadataVector", "errorCode"})
    [] name = "qcrs" ->
         LET found == Without(pd, Domain)
         IN  IF Has(pd, Error(pd), "details") THEN With(found, <<"errorCode", "code">>, SccOk)
             ELSE Without(found, {"errorCode"})
    [] name = "upcrs" ->
         LET found == Without(pd, Domain \cup {"errorCode"})
             IsValue(l) == Last(l) = "value" /\ "metadataVector" \notin Range(l)
         IN  [found EXCEPT !.val = [l \in DOMAIN @ |-> IF IsValue(l) THEN "" ELSE @[l]],
                           !.compound = [l \in {} |-> <<>>]]
    [] name = "rcrs" -> Without(pd, {"errorCode"})

\* Notifications are those of a subscription, a registration has a provider,
\* an element of an answer has a status, an answer is an error or has elements.
Sayable(name, pd) ==
  /\ name \in {"ncr", "ncar"} => Has(pd, <<>>, "subscriptionId")
  /\ name = "ncar" => Size(pd, <<"contextRegistrationResponseVector">>) # 0
  /\ name = "ncar" =>
       \A cr \in Items(pd, <<"contextRegistrationResponseVector">>) :
         Has(pd, Field(cr, "contextRegistration"), "providingApplication")
  /\ name \in {"ncr", "qcrs", "upcrs"} =>
       \A cer \in Items(pd, <<"contextElementResponseVector">>) :
         Code(pd, Field(cer, "statusCode")) # SccNone
  /\ name \in {"qcrs", "upcrs", "rcrs"} => (ErrorCode(pd) \in {SccNone, SccOk})
  /\ name \in {"qcrs", "upcrs"} => Size(pd, <<"contextElementResponseVector">>) # 0
  /\ name = "rcrs" => Has(pd, <<>>, "registrationId")

Write(name, pd, fmt, asObject) ==
  CASE name = "upcr" -> UpdateContextRequest_render(pd, fmt, asObject)
    [] name = "qcr" -> QueryContextRequest_render(pd, fmt)
    [] name = "rcr" -> RegisterContextRequest_render(pd, fmt)
    [] name = "ncr" -> NotifyContextRequest_render(pd, fmt)
    [] name = "ncar" -> NotifyContextAvailabilityRequest_render(pd, fmt)
    [] name = "qcrs" -> QueryContextResponse_render(pd, fmt, asObject)
    [] name = "upcrs" -> UpdateContextResponse_render(pd, fmt, asObject)
    [] name = "rcrs" -> RegisterContextResponse_render(pd, fmt)

-----------------------------------------------------------------------------
(* Answers that no broker reads: the clients do                             *)

Sample(loc, details) ==
  CASE Last(loc) = "duration" -> ADuration
    [] Last(loc) = "code" -> "404"
    [] Last(loc) = "details" -> details
    [] OTHER -> FreshText(1)

Data(texts, sizes) == [InitData({}) EXCEPT !.val = texts, !.len = sizes]
\* Any of the fields may be there.
Some(locs, details) ==
  {Data([l \in S |-> Sample(l, details)], [l \in {} |-> 0]) : S \in SUBSET locs}

Error1 == {<<"errorCode", "code">>, <<"errorCode", "details">>}
Status1 == {<<"statusCode", "code">>, <<"statusCode", "details">>}

\* n attributes, the first of which has metadata (the second one, too, when
\* there are three).
Attributes(loc, n) ==
  LET list == Append(loc, "contextAttributeVector")
      Meta(i) == Append(Item(list, i), "metadataVector")
      names == UNION {{Append(Item(list, i), f) : f \in {"name", "type", "value"}} : i \in 1 .. n}
      metas == UNION {{Append(Item(Meta(i), 1), f) : f \in {"name", "type", "value"}}
                        : i \in 1 .. n - 1}
  IN  Data([l \in names \cup metas |-> FreshText(1)],
           (list :> n) @@ [l \in {Meta(i) : i \in 1 .. n - 1} |-> 1])
Joined(a, b) == [a EXCEPT !.val = @ @@ b.val, !.len = @ @@ b.len]

AttributeResponses(details) ==
  LET list == <<"contextAttributeResponseVector">>
      One(n) == Joined(Data([l \in {} |-> ""], list :> 1), Attributes(Item(list, 1), n))
  IN  {Joined(pd, One(n)) : n \in 0 .. 3, pd \in Some({<<"entity", "id">>} \cup Error1, details)}
        \cup Some(Error1, details)

Types ==
  LET list == <<"typeEntityVector">>
      Type(i, n) == Joined(Data(Append(Item(list, i), "type") :> FreshText(i), [l \in {} |-> 0]),
                           Attributes(Item(list, i), n))
  IN  Some({}, "") \cup
      {Joined(Joined(Type(1, n), Type(2, 1 - n)), Data([l \in {} |-> ""], list :> 2)) :
         n \in 0 .. 1}

\* The texts of the answers to the request, one for each thing that may be
\* answered: the answers to queries also stand for those of the operations
\* without payload.
Answers(name, fmt, asObject, details) ==
  CASE name = "rcr" -> {RegisterContextResponse_render(pd, fmt) :
                          pd \in Some({<<"duration">>, <<"registrationId">>} \cup Error1, details)}
    [] name = "dcar" ->
         {DiscoverContextAvailabilityResponse_render(pd, fmt) : pd \in Some(Error1, details)}
    [] name \in {"scar", "ucas"} ->
         UNION {{SubscribeContextAvailabilityResponse_render(
                   pd, fmt, "subscribeContextAvailabilityResponse"),
                 UpdateContextAvailabilitySubscriptionResponse_render(pd, fmt)} :
                  pd \in Some({<<"subscriptionId">>, <<"duration">>} \cup Error1, details)}
    [] name \in {"uncr", "ucar"} ->
         UNION {{UnsubscribeContextResponse_render(pd, fmt),
                 UnsubscribeContextAvailabilityResponse_render(pd, fmt)} :
                  pd \in Some({<<"subscriptionId">>} \cup Status1, details)}
    [] name \in {"scr", "ucsr"} ->
         UNION {{SubscribeContextResponse_render(pd, fmt),
                 UpdateContextSubscriptionResponse_render(pd, fmt)} :
                  pd \in Some({<<"subscriptionId">>, <<"duration">>, <<"throttling">>}
                                \cup Error1, details)}
    [] name \in {"ncr", "ncar"} ->
         UNION {{NotifyContextResponse_render(pd, fmt),
                 NotifyContextAvailabilityResponse_render(pd, fmt)} :
                  pd \in Some({<<"responseCode", "code">>}, details)}
    [] name \in {"acer", "rpr"} ->
         {AppendContextElementResponse_render(pd, fmt, asObject) : pd \in AttributeResponses(details)}
    [] name = "ucer" ->
         {UpdateContextElementResponse_render(pd, fmt, asObject) : pd \in AttributeResponses(details)}
    [] name = "upcar" ->
         {StatusCodeText(pd, <<"statusCode">>, "statusCode", fmt, FALSE, FALSE) :
            pd \in Some(Status1, details)}
    [] name = "qcr" ->
         {EntityTypesResponse_render(pd, fmt, collapse) : pd \in Types, collapse \in BOOLEAN}
           \cup {EntityTypeAttributesResponse_render(
                   Joined(pd, Attributes(<<"entityType">>, n)), fmt, FALSE) :
                   pd \in Some(Status1 \cup {<<"entityType", "type">>}, details), n \in 0 .. 2}
           \cup {ContextAttributeResponse_render(
                   Joined(pd, Attributes(<<>>, n)), <<>>, fmt, "contextAttributeResponse",
                   asObject) :
                   pd \in Some(Status1, details), n \in 0 .. 2}
           \cup {QueryContextResponse_render(
                   Joined(pd, Data([l \in {} |-> ""], <<"contextElementResponseVector">> :> n)),
                   fmt, asObject) : pd \in Some(Error1, details), n \in 0 .. 2}
    [] name = "upcr" ->
         {UpdateContextResponse_render(
            Joined(pd, Data([l \in {} |-> ""], <<"contextElementResponseVector">> :> n)),
            fmt, asObject) : pd \in Some(Error1, details), n \in 0 .. 2}
    [] OTHER -> {}

-----------------------------------------------------------------------------
Read(name, fmt, tokens) ==
  LET read == IF fmt = "XML" THEN ReadXml(tokens) ELSE ReadJson(tokens)
  IN  IF ~read.ok THEN [done |-> TRUE, ok |-> FALSE, pd |-> InitData({})]
      ELSE IF fmt = "XML" THEN xmlTreat(name, read.rows) ELSE jsonTreat(name, read.rows)

Silent == [kind |-> "none"]

MessagesInit == Init /\ out = Silent

\* The parsers go on with another request; the message was sent.
Codec1 == Next /\ out' = Silent

Accepted == json.done /\ xml.ok /\ json.ok

\* The message is written, in either format, and on its way.
Relay ==
  \E asObject \in BOOLEAN :
    LET pd == Said(parser, xml.pd)
    IN  /\ Accepted /\ out = Silent
        /\ parser \in {"upcr", "qcr", "rcr", "ncr", "ncar", "qcrs", "upcrs", "rcrs"}
        /\ Sayable(parser, xml.pd)
        /\ asObject => parser \in {"upcr", "qcrs", "upcrs"}
        /\ out' = [kind |-> "sent", asObject |-> asObject, said |-> pd,
                   text |-> [fmt \in Formats |-> Write(parser, pd, fmt, asObject)]]
        /\ UNCHANGED vars

Receive ==
  /\ out.kind = "sent"
  /\ out' = [kind |-> "read", asObject |-> out.asObject, said |-> out.said,
             read |-> [fmt \in Formats |-> Read(parser, fmt, out.text[fmt])]]
  /\ UNCHANGED vars

IsLegal(fmt, text) == IF fmt = "XML" THEN ReadXml(text).ok ELSE ReadJson(text).ok

\* The details are plain, or have quotation marks as the texts of the
\* exceptions of the database do.
Answer ==
  \E asObject \in BOOLEAN, details \in {FreshText(1)} \cup DOMAIN Quoted :
    /\ Accepted /\ out = Silent /\ edits = <<>>
    /\ out' = [kind |-> "answer", details |-> details,
               wellFormed |-> [fmt \in Formats |->
                 \A text \in Answers(parser, fmt, asObject, details) : IsLegal(fmt, text)]]
    /\ UNCHANGED vars

MessagesNext == Codec1 \/ Relay \/ Receive \/ Answer

MessagesSpec == MessagesInit /\ [][MessagesNext]_<<vars, out>>

-----------------------------------------------------------------------------
(* Properties                                                               *)

\* Another broker reads from a message what the broker said. Three cases are
\* excepted, in which it does not: with attributeFormat=object the JSON
\* parsers do not know the attributes; the XML parser of the answers to
\* queries knows no compound values; in JSON the entities of an association
\* are written under "entities", where the parser does not look for them.
Unreadable(fmt) ==
  \/ fmt = "JSON" /\ out.asObject
  \/ fmt = "XML" /\ parser = "qcrs" /\ DOMAIN out.said.compound # {}
  \/ /\ fmt = "JSON" /\ parser = "rcr"
     /\ \E l \in DOMAIN out.said.val : Last(l) = "type" /\ out.said.val[l] = "Association"
UnderstoodByAnother ==
  out.kind = "read" =>
    \A fmt \in Formats :
      ~Unreadable(fmt) => out.read[fmt].ok /\ View(out.read[fmt].pd) = View(out.said)

\* Every answer is a legal document of its format, for texts without
\* backslashes: whatever fields it has, and whatever is in the details of its
\* status. The one exception is JSON with quotation marks in the details, which
\* StatusCode::render and then valueTag escape.
AnswersWellFormed ==
  out.kind = "answer" =>
    /\ out.wellFormed["XML"]
    /\ out.details \notin DOMAIN Quoted => out.wellFormed["JSON"]
=============================================================================
