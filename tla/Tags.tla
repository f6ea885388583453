------------------------------- MODULE Tags ---------------------------------
(***************************************************************************)
(* common/tag.cpp, out of which every message is put together, and the     *)
(* readers of the other side. A text under construction is the sequence of *)
(* its tokens, without the white space. The comma between two fields is    *)
(* written by the first of them, which has to know whether another will    *)
(* follow: in JSON a comma too many or too few spoils the message.         *)
(***************************************************************************)
EXTENDS ParseData

CONSTANTS
  Escapes,   \* texts with characters to escape |-> what they become
  Quoted     \* texts with a quotation mark |-> the same with \" for it

Token(kind, text, attrs) == [kind |-> kind, text |-> text, attrs |-> attrs]
NoAttrs == [name \in {} |-> ""]
Sign(sign) == <<Token(sign, "", NoAttrs)>>
SignIf(sign, condition) == IF condition THEN Sign(sign) ELSE <<>>
Comma(condition) == SignIf(",", condition)
Key(name) == <<Token("key", name, NoAttrs)>>
KeyIf(name, condition) == IF condition THEN Key(name) ELSE <<>>
String(text) == <<Token("string", text, NoAttrs)>>
Open(name, attrs) == <<Token("open", name, attrs)>>
Close(name) == <<Token("close", name, NoAttrs)>>

-----------------------------------------------------------------------------
(* Writing                                                                  *)

htmlEscape(text) == IF text \in DOMAIN Escapes THEN Escapes[text] ELSE text

\* startTag with one tag.
startTag(tag, fmt, showTag) ==
  IF fmt = "XML" THEN Open(tag, NoAttrs) ELSE KeyIf(tag, showTag) \o Sign("{")

\* startTag with a tag for each format.
startTags(xmlTag, jsonTag, fmt, isVector, showTag, isCompoundVector) ==
  IF fmt = "XML"
    THEN Open(xmlTag, IF isCompoundVector THEN "type" :> "vector" ELSE NoAttrs)
    ELSE KeyIf(jsonTag, showTag) \o Sign(IF isVector THEN "[" ELSE "{")

startVector(xmlTag, jsonTag, fmt) == startTags(xmlTag, jsonTag, fmt, TRUE, TRUE, FALSE)
startItem(tag, fmt) == startTag(tag, fmt, FALSE)

endTag(tag, fmt, comma, isVector) ==
  IF fmt = "XML" THEN Close(tag) ELSE Sign(IF isVector THEN "]" ELSE "}") \o Comma(comma)

\* The value is tokens: that of an association, which is not escaped.
associationTag(tag, value, fmt) ==
  IF fmt = "XML" THEN Open(tag, NoAttrs) \o value \o Close(tag) ELSE Key(tag) \o value

valueTag(tag, text, fmt, showComma, isVectorElement) ==
  IF fmt = "XML" THEN Open(tag, NoAttrs) \o String(htmlEscape(text)) \o Close(tag)
  ELSE KeyIf(tag, ~isVectorElement) \o String(htmlEscape(text)) \o Comma(showComma)

\* Texts that may not stand between the quotation marks of a JSON string: one
\* with a quotation mark of its own, and \&quot;, no escape sequence of JSON.
NoJsonString == DOMAIN Quoted \cup {htmlEscape(Quoted[t]) : t \in DOMAIN Quoted}

-----------------------------------------------------------------------------
(* Reading: [ok, rows], the rows being the nodes of a document              *)

Row(path, text, attrs) == [path |-> path, value |-> text, attrs |-> attrs]

Unescaped(text) ==
  IF \E t \in DOMAIN Escapes : Escapes[t] = text
    THEN CHOOSE t \in DOMAIN Escapes : Escapes[t] = text ELSE text

\* The tokens are read in two halves: TLC's stack is not deep enough for all
\* of a long message.
ReadAll(Step(_, _), start, tokens) ==
  LET half == Len(tokens) \div 2
  IN  CHOOSE end \in {FoldLeft(Step, s, SubSeq(tokens, half + 1, Len(tokens))) :
                        s \in {FoldLeft(Step, start, SubSeq(tokens, 1, half))}} : TRUE

ReadXml(tokens) ==
  LET Unescaped1(attrs) == [a \in DOMAIN attrs |-> Unescaped(attrs[a])]
      Start == [ok |-> TRUE, path |-> <<>>, rows |-> <<>>]
      Step(s, token) ==
        CASE token.kind = "open" ->
               [ok |-> s.ok /\ (s.path = <<>> => s.rows = <<>>),
                path |-> Append(s.path, token.text),
                rows |-> Append(s.rows, Row(Append(s.path, token.text), "",
                                            Unescaped1(token.attrs)))]
          [] token.kind = "string" /\ s.rows # <<>> ->
               [s EXCEPT !.ok = @ /\ Last(s.rows).path = s.path,
                         !.rows[Len(s.rows)].value = Unescaped(token.text)]
          [] token.kind = "close" /\ s.path # <<>> ->
               [s EXCEPT !.ok = @ /\ Last(s.path) = token.text, !.path = Front(s.path)]
          [] OTHER -> [s EXCEPT !.ok = FALSE]
      end == ReadAll(Step, Start, tokens)
  IN  [ok |-> end.ok /\ end.path = <<>> /\ end.rows # <<>>, rows |-> end.rows]

\* The open containers are on a stack, the outermost one has no node.
ReadJson(tokens) ==
  LET Start == [ok |-> TRUE, stack |-> <<>>, key |-> "", expect |-> "value", rows |-> <<>>]
      InArray(s) == s.stack # <<>> /\ Last(s.stack).array
      PathOf(s) == IF s.stack = <<>> THEN <<>>
                   ELSE Append(Last(s.stack).path, IF InArray(s) THEN Unnamed ELSE s.key)
      Noted(s, text) == IF s.stack = <<>> THEN s.rows
                        ELSE Append(s.rows, Row(PathOf(s), text, NoAttrs))
      Into(s, array) == [s EXCEPT !.rows = Noted(s, ""),
                                  !.stack = Append(@, [array |-> array, path |-> PathOf(s)]),
                                  !.expect = IF array THEN "item" ELSE "field"]
      Legal(s, kind) ==
        CASE kind \in {"string", "{", "["} -> s.expect \in {"value", "item"}
          [] kind = "key" -> s.expect \in {"field", "key"}
          [] kind = "," -> s.expect = "after" /\ s.stack # <<>>
          [] kind = "}" -> s.expect \in {"field", "after"} /\ s.stack # <<>> /\ ~InArray(s)
          [] kind = "]" -> s.expect \in {"item", "after"} /\ InArray(s)
          [] OTHER -> FALSE
      Step(s, token) ==
        IF ~s.ok \/ ~Legal(s, token.kind) \/ (token.kind = "string" /\ token.text \in NoJsonString)
          THEN [s EXCEPT !.ok = FALSE]
        ELSE CASE token.kind = "string" ->
                    [s EXCEPT !.rows = Noted(s, token.text), !.expect = "after"]
               [] token.kind \in {"{", "["} -> Into(s, token.kind = "[")
               [] token.kind = "key" -> [s EXCEPT !.key = token.text, !.expect = "value"]
               [] token.kind = "," ->
                    [s EXCEPT !.expect = IF InArray(s) THEN "value" ELSE "key"]
               [] OTHER -> [s EXCEPT !.stack = Front(@), !.expect = "after"]
      end == ReadAll(Step, Start, tokens)
  IN  [ok |-> end.ok /\ end.stack = <<>> /\ end.expect = "after", rows |-> end.rows]
=============================================================================
