----------------------------- MODULE MCFrontEnd -----------------------------
(* Instances of FrontEnd for TLC.                                           *)
EXTENDS FrontEnd, TLC

Plain == [usable |-> TRUE, fg |-> TRUE, daemon |-> FALSE, ipv4 |-> FALSE, ipv6 |-> FALSE, https |-> FALSE,
          keys |-> FALSE, readable |-> FALSE, rush |-> "none"]

\* One command line that starts the broker and those that each check refuses.
Foreground ==
  {[Plain EXCEPT !.https = TRUE, !.keys = TRUE, !.readable = TRUE, !.rush = "ok"],
   [Plain EXCEPT !.usable = FALSE], [Plain EXCEPT !.ipv4 = TRUE, !.ipv6 = TRUE],
   [Plain EXCEPT !.https = TRUE], [Plain EXCEPT !.https = TRUE, !.keys = TRUE],
   [Plain EXCEPT !.rush = "bad", !.fg = FALSE],
   [Plain EXCEPT !.rush = "bad", !.fg = FALSE, !.daemon = TRUE]}
Daemon == {[Plain EXCEPT !.fg = FALSE, !.ipv4 = TRUE]}

Get == [verb |-> "GET", log |-> FALSE, url |-> TRUE, path |-> TRUE, type |-> "", params |-> TRUE,
        accept |-> {"XML", "JSON"}, v2 |-> FALSE, length |-> 0, size |-> 0, body |-> "none",
        parses |-> TRUE, tenant |-> TRUE, treat |-> "other"]
Post(size, body) == [Get EXCEPT !.verb = "POST", !.length = size, !.size = size, !.body = body,
                                !.type = "application/json"]

SomeRequests ==
  {[Get EXCEPT !.treat = "statistics", !.verb = "DELETE"],
   [Get EXCEPT !.url = FALSE],
   [Get EXCEPT !.params = FALSE, !.accept = {}],
   [Get EXCEPT !.verb = "PUT"],
   Post(2, "a"), [Post(2, "b") EXCEPT !.tenant = FALSE], Post(3, "c"), Post(4, "d"),
   [Post(2, "e") EXCEPT !.length = 0],
   [Post(3, "f") EXCEPT !.parses = FALSE],
   [Post(2, "g") EXCEPT !.path = FALSE],
   [Post(2, "h") EXCEPT !.v2 = TRUE, !.type = "application/xml", !.path = FALSE]}
=============================================================================
