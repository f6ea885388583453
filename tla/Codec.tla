-------------------------------- MODULE Codec --------------------------------
(***************************************************************************)
(* A request of the broker and the two ways to write it: XML and JSON have *)
(* parsers of their own, nothing but the hands of their authors keeps them *)
(* together. A client takes one of the requests of module Documents, edits *)
(* it at most MaxEdits times and sends it in both formats.                 *)
(***************************************************************************)
EXTENDS Documents, XmlParse, JsonParse

CONSTANTS MaxEdits,  \* edits of a document
          Odd        \* texts that an edit puts into a leaf

VARIABLES parser,  \* the request, by the prefix of its parser
          doc,     \* its document
          edits,   \* the edits made: a sequence of their names
          xml,     \* what xmlTreat made of it
          json,    \* what jsonTreat made of it
          sent     \* what it was before the last edit: [xml, json]

vars == <<parser, doc, edits, xml, json, sent>>

Nothing == [done |-> FALSE]

-----------------------------------------------------------------------------
(* Treating a request                                                       *)

\* The check function of each parser.
Check(name, pd) ==
  CASE name = "rcr" -> RegisterContextRequest_check(pd)
    [] name = "dcar" -> DiscoverContextAvailabilityRequest_check(pd)
    [] name = "scar" -> SubscribeContextAvailabilityRequest_check(pd)
    [] name = "ucar" -> UnsubscribeContextAvailabilityRequest_check(pd)
    [] name = "ncar" -> NotifyContextAvailabilityRequest_check(pd)
    [] name = "ucas" -> UpdateContextAvailabilitySubscriptionRequest_check(pd)
    [] name = "qcr" -> QueryContextRequest_check(pd)
    [] name = "upcr" -> UpdateContextRequest_check(pd)
    [] name = "scr" -> SubscribeContextRequest_check(pd)
    [] name = "ncr" -> NotifyContextRequest_check(pd)
    [] name = "uncr" -> UnsubscribeContextRequest_check(pd)
    [] name = "ucsr" -> UpdateContextSubscriptionRequest_check(pd)
    [] name = "rpr" -> RegisterProviderRequest_check(pd)
    [] name = "ucer" -> UpdateContextElementRequest_check(pd)
    [] name = "acer" -> AppendContextElementRequest_check(pd)
    [] name = "upcar" -> UpdateContextAttributeRequest_check(pd)
    [] name = "qcrs" -> QueryContextResponse_check(pd)
    [] name = "upcrs" -> UpdateContextResponse_check(pd)
    [] name = "rcrs" -> RegisterContextResponse_check(pd)

\* The request is accepted (ok) or not; pd.dead tells whether anybody answers.
Outcome(name, pd) == [done |-> TRUE, ok |-> ~pd.bad /\ Check(name, pd), pd |-> pd]

\* The root of the document must be the payload word of the request.
xmlTreat(name, document) ==
  LET pd == xmlParse(document, xmlParsers[name])
  IN  [Outcome(name, pd) EXCEPT !.ok = @ /\ document[1].path = <<xmlParsers[name].keyword>>]

jsonTreat(name, document) == Outcome(name, jsonParse(document, jsonParsers[name]))

-----------------------------------------------------------------------------
(* Edits of the document                                                    *)

Subtree(i) == SubSeq(doc, i, EndOf(doc, i))
Before(i) == SubSeq(doc, 1, i - 1)
After(i) == SubSeq(doc, EndOf(doc, i) + 1, Len(doc))

\* Once sent, a document may be edited again and sent as a new one.
Edit(name, new) ==
  /\ Len(edits) < MaxEdits
  /\ xml.done /\ json.done
  /\ doc' = new
  /\ edits' = Append(edits, name)
  /\ sent' = [xml |-> xml, json |-> json]
  /\ xml' = Nothing /\ json' = Nothing
  /\ UNCHANGED parser

DeleteNode == \E i \in 2 .. Len(doc) : Edit("delete", Before(i) \o After(i))

ChangeText ==
  \E i \in DOMAIN doc, text \in Odd :
    /\ doc[i].kind # "element" /\ doc[i].json # <<>> /\ doc[i].value # text
    /\ text \in Forbidden => doc[i].kind = "leaf"
    /\ Edit("text", [doc EXCEPT ![i].value = text])

\* The copy gets texts of its own.
Twice(i) ==
  LET copy == [k \in DOMAIN Subtree(i) |->
                 IF Subtree(i)[k].value \in {FreshText(n) : n \in DOMAIN doc}
                 THEN [Subtree(i)[k] EXCEPT !.value = FreshText(Len(doc) + k)]
                 ELSE Subtree(i)[k]]
  IN  Before(i) \o Subtree(i) \o copy \o After(i)

\* One more item of an array, or a field given twice.
RepeatItem ==
  \E i \in 2 .. Len(doc) :
    /\ doc[i].kind # "attribute" /\ doc[i].json # <<>> /\ Last(doc[i].json) = Unnamed
    /\ Edit("repeat", Twice(i))

RepeatField ==
  \E i \in 2 .. Len(doc) :
    /\ doc[i].kind # "attribute" /\ doc[i].json # <<>> /\ Last(doc[i].json) # Unnamed
    /\ Edit("duplicate", Twice(i))

\* Two fields with different names change places.
SwapNodes ==
  \E i \in 2 .. Len(doc) :
    LET j == EndOf(doc, i) + 1
    IN  /\ j <= Len(doc)
        /\ doc[i].kind # "attribute"
        /\ Front(doc[i].path) = Front(doc[j].path) /\ doc[i].path # doc[j].path
        /\ Edit("swap", Before(i) \o Subtree(j) \o Subtree(i) \o After(j))

\* The attribute that marks a vector gets a value that marks nothing.
ChangeType ==
  \E i \in DOMAIN doc :
    /\ doc[i].kind = "attribute" /\ doc[i].value = "vector"
    /\ Edit("type", [doc EXCEPT ![i].value = "bad"])

AddUnknown ==
  \E i \in DOMAIN doc :
    /\ doc[i].kind = "element"
    /\ LET new == [path |-> Append(doc[i].path, "unknown"), kind |-> "leaf", value |-> "text",
                   json |-> Append(doc[i].json, "unknown")]
       IN  Edit("unknown", Before(i) \o Subtree(i) \o <<new>> \o After(i))

-----------------------------------------------------------------------------
Init ==
  /\ \E request \in Requests : parser = request[1] /\ doc = request[2]
  /\ edits = <<>>
  /\ xml = Nothing /\ json = Nothing
  /\ sent = [xml |-> Nothing, json |-> Nothing]

XmlTreat ==
  /\ ~xml.done
  /\ xml' = xmlTreat(parser, XmlDocument(doc))
  /\ UNCHANGED <<parser, doc, edits, json, sent>>

JsonTreat ==
  /\ xml.done /\ ~json.done
  /\ json' = jsonTreat(parser, JsonDocument(doc))
  /\ UNCHANGED <<parser, doc, edits, xml, sent>>

Next ==
  \/ XmlTreat \/ JsonTreat
  \/ DeleteNode \/ ChangeText \/ RepeatItem \/ RepeatField \/ SwapNodes \/ ChangeType
  \/ AddUnknown

Spec == Init /\ [][Next]_vars

-----------------------------------------------------------------------------
(* Properties                                                               *)

\* What a request says: the texts that are not defaults, the sizes of its
\* vectors and its compound values. The value of a location scope is told by
\* its area; what is empty inside a compound value has no type.
IsDefault(pd, loc) ==
  \/ Text(pd, loc) = "" \/ Last(loc) = "entityIdVectorPresent"
  \/ Last(loc) = "isPattern" /\ isFalse(Text(pd, loc))
  \/ Last(loc) = "value" /\ Text(pd, Append(Front(loc), "areaType")) # ""
View(pd) ==
  LET said == {loc \in DOMAIN pd.val : ~IsDefault(pd, loc)}
      Named(tree, k) == [tree[k] EXCEPT
        !.type = IF EndOf(tree, k) = k /\ tree[k].value = "" THEN "Empty" ELSE @]
  IN  [texts |-> [loc \in said |-> pd.val[loc]], sizes |-> pd.len,
       compound |-> [loc \in DOMAIN pd.compound |->
                       [k \in DOMAIN pd.compound[loc] |-> Named(pd.compound[loc], k)]]]

\* isPattern is a Boolean wherever it is given.
LegalPatterns == \A i \in DOMAIN doc : Last(doc[i].path) = "isPattern" => isBool(doc[i].value)

\* A request that both parsers accept is the same request.
SameRequest ==
  json.done /\ xml.ok /\ json.ok /\ LegalPatterns => View(xml.pd) = View(json.pd)

\* Every text of an accepted document is in the request.
Kept(pd) ==
  {pd.val[loc] : loc \in DOMAIN pd.val} \cup
  UNION {{pd.compound[loc][k].value : k \in DOMAIN pd.compound[loc]} : loc \in DOMAIN pd.compound}
NothingLost ==
  \A out \in {xml, json} : out.done /\ out.ok /\ ~Contains(edits, "duplicate") =>
    \A i \in DOMAIN doc : doc[i].value \in {FreshText(n) : n \in 1 .. 200} =>
      doc[i].value \in Kept(out.pd)

Unordered(pd) ==
  [View(pd) EXCEPT !.compound = [loc \in DOMAIN @ |-> Range(@[loc])]]

\* The order of the fields does not matter.
OrderFree ==
  json.done /\ edits # <<>> /\ Last(edits) = "swap" /\ sent.json.done =>
    \A f \in {<<xml, sent.xml>>, <<json, sent.json>>} :
      f[1].ok = f[2].ok /\ (f[1].ok => Unordered(f[1].pd) = Unordered(f[2].pd))
=============================================================================
