---------------------------------- MODULE MCMcp ----------------------------------
\* Three tools, one of them a coroutine, and a template.
EXTENDS McpProps

KindOf == [charge |-> "tools", refund |-> "tools", order |-> "templates", cancel |-> "tools"]

Parameter(name, role, type, required) ==
  [name |-> name, role |-> role, type |-> type, required |-> required]
Argument(name, type, required) == Parameter(name, "argument", type, required)
Given(name, role)              == Parameter(name, role, "any", TRUE)

SignatureOf ==
  [charge |-> {Argument("amount", "number", TRUE), Argument("note", "text", FALSE), Given("ctx", "context")},
   refund |-> {Argument("amount", "annotated", TRUE), Given("gateway", "dependency")},
   order  |-> {Argument("id", "text", TRUE)},
   cancel |-> {}]

UriMatches == [order_uri |-> {"order"}]

Amount(fit) == [amount |-> fit]

\* A tool call over the adapter that every check lets pass.
Plain ==
  [host |-> "adapter", path |-> "known", fits |-> TRUE, body |-> "object", params |-> "object",
   origin |-> TRUE, accept |-> <<"json", "sse">>, wrong |-> {}, wellFormed |-> TRUE, id |-> TRUE,
   token |-> FALSE, method |-> "tools/call", target |-> "charge", arguments |-> Amount("fit"),
   mirrored |-> {"amount"}, cursor |-> 0, size |-> 2]
Buffered(r) == [r EXCEPT !.host = "gateway"]

Calls ==
  {[Plain EXCEPT !.token = TRUE], [Plain EXCEPT !.id = FALSE],
   [Plain EXCEPT !.target = "refund", !.arguments = Amount("unfit")],
   [Plain EXCEPT !.method = "resources/read", !.target = "order_uri", !.arguments = [id |-> "fit"]],
   Buffered(Plain), Buffered([Plain EXCEPT !.target = "refund", !.accept = <<"sse", "json">>]),
   Buffered([Plain EXCEPT !.id = FALSE, !.arguments = Amount("extra fields")])}

List(cursor, size) ==
  [Plain EXCEPT !.method = "tools/list", !.cursor = cursor, !.size = size]
Lists ==
  {List(0, 1), Buffered(List(0, 3)), Buffered(List(1, 3)), Buffered(List(2, 2)),
   [List(0, 0) EXCEPT !.method = "prompts/list"],
   [List(0, 2) EXCEPT !.method = "server/discover", !.id = FALSE]}

Refused ==
  {[Plain EXCEPT !.path = "other"], [Plain EXCEPT !.fits = FALSE], [Plain EXCEPT !.body = "broken"],
   [Plain EXCEPT !.body = "list"], Buffered([Plain EXCEPT !.body = "list"]),
   Buffered([Plain EXCEPT !.body = "broken"]), Buffered([Plain EXCEPT !.body = "scalar"]),
   [Plain EXCEPT !.origin = FALSE], [Plain EXCEPT !.accept = <<"json">>],
   [Plain EXCEPT !.params = "other"], [Plain EXCEPT !.wrong = {"version"}, !.id = FALSE],
   [Plain EXCEPT !.wrong = {"name"}], Buffered([Plain EXCEPT !.wrong = {"capabilities"}]),
   [Plain EXCEPT !.mirrored = {}, !.id = FALSE], [Plain EXCEPT !.wellFormed = FALSE, !.id = FALSE],
   Buffered([Plain EXCEPT !.method = "ping", !.id = FALSE])}

Sent == Calls \cup Lists \cup Refused
===============================================================================
