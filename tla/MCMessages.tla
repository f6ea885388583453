----------------------------- MODULE MCMessages -----------------------------
EXTENDS Messages

\* The details of a failed query name it: { "_id.id": "E1" }.
MCQuoted == "\"E1\"" :> "\\\"E1\\\""
MCEscapes ==
  "<>" :> "&lt;&gt;" @@ "\"E1\"" :> "&quot;E1&quot;" @@ "\\\"E1\\\"" :> "\\&quot;E1\\&quot;"
=============================================================================
