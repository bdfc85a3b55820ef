------------------------------- MODULE McpServer -------------------------------
(***************************************************************************)
(* The MCP server behind its transports: what is registered, how a list is *)
(* cut into pages, and what handle and handle_async answer to one JSON-RPC *)
(* message.  The two differ only where Outcomes says so.                   *)
(*                                                                         *)
(* Handlers, their dependencies and the capability middlewares are user    *)
(* code: of a call that reaches them only the outcome matters.             *)
(***************************************************************************)
EXTENDS Integers, Sequences

CONSTANTS
  Capabilities,  \* names of tools and prompts, URI templates of resources
  Kind,          \* per capability, the registry it goes to
  Signature,     \* per capability, the parameters of its handler
  Async,         \* the capabilities whose handler is a coroutine function
  Matches,       \* per URI, the resources and templates whose pattern matches it
  Mirrored,      \* arguments that a tool's schema marks with x-mcp-header
  PageCap        \* the largest page: 100

Kinds == {"tools", "resources", "templates", "prompts"}
Roles == {"argument", "dependency", "context"}
Annotations == {"any", "text", "number", "array", "model", "optional", "annotated"}
Uris  == DOMAIN Matches

Invocations == {"tools/call", "resources/read", "prompts/get"}
ListOf ==
  [t \in {"tools/list", "resources/list", "resources/templates/list", "prompts/list"} |->
     CASE t = "tools/list" -> "tools" [] t = "resources/list" -> "resources"
       [] t = "resources/templates/list" -> "templates" [] t = "prompts/list" -> "prompts"]
Methods == Invocations \cup DOMAIN ListOf \cup {"server/discover"}

ASSUME CapabilitiesAssumption ==
  /\ Kind \in [Capabilities -> Kinds]
  /\ \A n \in Capabilities :
       /\ \A p \in Signature[n] : p.role \in Roles /\ p.required \in BOOLEAN /\ p.type \in Annotations
       /\ \A p, q \in Signature[n] : p.name = q.name => p = q
  /\ Async \subseteq Capabilities
  /\ \A u \in Uris :
       Matches[u] \subseteq {n \in Capabilities : Kind[n] \in {"resources", "templates"}}
  /\ PageCap \in Nat \ {0}
-----------------------------------------------------------------------------
(***************************************************************************)
(* Capabilities and their definitions.  Dependencies, the request and the  *)
(* context are supplied by the server and are not part of the input.       *)
(***************************************************************************)
Arguments(n) == {p.name : p \in {q \in Signature[n] : q.role = "argument"}}
Required(n)  == {p.name : p \in {q \in Signature[n] : q.role = "argument" /\ q.required}}

\* What the schema says of an annotation: of one in Annotated, always a string.
SchemaOf(annotation) ==
  CASE annotation = "any" -> "anything" [] annotation = "optional" -> "nullable"
    [] annotation \in {"number", "array", "model"} -> annotation
    [] annotation \in {"text", "annotated"} -> "string"

Definition(n) ==
  [name |-> n, required |-> Required(n),
   properties |-> {[name |-> p.name, schema |-> SchemaOf(p.type)] :
                     p \in {q \in Signature[n] : q.name \in Arguments(n)}}]

\* Kinds of a registry are kept in the order of registration.  A recursive function, and not
\* SelectSeq, because the proofs expand it.
Registry(registered, kind) ==
  LET kept[i \in 0 .. Len(registered)] ==
        IF i = 0 THEN << >>
        ELSE IF Kind[registered[i]] = kind THEN Append(kept[i - 1], registered[i])
        ELSE kept[i - 1]
  IN kept[Len(registered)]

Definitions(registered, kind) ==
  LET names == Registry(registered, kind) IN [i \in DOMAIN names |-> Definition(names[i])]

IsRegistered(registered, n) == \E i \in DOMAIN registered : registered[i] = n

\* The first registered resource that matches wins, whatever the others are.
MatchOf(registered, uri) == SelectSeq(registered, LAMBDA n : n \in Matches[uri])

\* The capability that a call addresses; none, or one.
Target(registered, r) ==
  LET kind == IF r.method = "tools/call" THEN "tools" ELSE "prompts"
      found == IF r.method = "resources/read"
               THEN IF r.target \in Uris THEN MatchOf(registered, r.target) ELSE << >>
               ELSE SelectSeq(Registry(registered, kind), LAMBDA n : n = r.target)
  IN SubSeq(found, 1, IF found = << >> THEN 0 ELSE 1)

\* Arguments as they are validated, before any middleware runs.
Complete(n, arguments) ==
  /\ DOMAIN arguments \subseteq Arguments(n)
  /\ Required(n) \subseteq DOMAIN arguments
Strict(arguments)  == \A a \in DOMAIN arguments : arguments[a] # "extra fields"
Fitting(arguments) == \A a \in DOMAIN arguments : arguments[a] # "unfit"
-----------------------------------------------------------------------------
(***************************************************************************)
(* Messages to the client.                                                 *)
(***************************************************************************)
ErrorCodes == {"PARSE_ERROR", "INVALID_REQUEST", "METHOD_NOT_FOUND", "INVALID_PARAMS",
               "INTERNAL_ERROR", "HEADER_MISMATCH", "UNSUPPORTED_PROTOCOL_VERSION"}

Result(items, next) == [kind |-> "result", code |-> "ok", items |-> items, next |-> next]
Failure(code)       == [kind |-> "error", code |-> code, items |-> << >>, next |-> 0]
Progress            == [kind |-> "progress", code |-> "ok", items |-> << >>, next |-> 0]
NotJsonRpc          == Failure("plain")

Smaller(a, b) == IF a < b THEN a ELSE b

\* Mutant: the next page starts behind its first item.
MutPageSkips(values, cursor, size) ==
  LET end == Smaller(cursor + Smaller(size, PageCap), Len(values)) IN
  IF size = 0 \/ cursor > Len(values) THEN Failure("INVALID_PARAMS")
  ELSE Result(SubSeq(values, cursor + 1, end), IF end + 1 < Len(values) THEN end + 1 ELSE 0)

\* A cursor is the number of items before the page; without one it is 0, and 0 is also what
\* stands for no nextCursor.  Cursors that are no number and sizes below one fail like those
\* that are out of range.
Page(values, cursor, size) ==
  LET end == Smaller(cursor + Smaller(size, PageCap), Len(values)) IN
  IF size = 0 \/ cursor > Len(values) THEN Failure("INVALID_PARAMS")
  ELSE Result(SubSeq(values, cursor + 1, end), IF end < Len(values) THEN end ELSE 0)

\* The groups of capabilities that a server announces.
Discovered(registered) ==
  {g \in {"tools", "resources", "prompts"} :
     \/ Registry(registered, g) # << >>
     \/ g = "resources" /\ Registry(registered, "templates") # << >>}
-----------------------------------------------------------------------------
(***************************************************************************)
(* Dispatch.                                                               *)
(***************************************************************************)

\* The call reaches the capability's middlewares and handler.
Runs(registered, r) ==
  /\ r.wellFormed /\ r.method \in Invocations
  /\ \E i \in DOMAIN Target(registered, r) :
       LET n == Target(registered, r)[i] IN
       Complete(n, r.arguments) /\ Strict(r.arguments) /\ Fitting(r.arguments)

\* What a call comes to: a value, a ValueError, another exception, or one that no handler
\* catches, such as SystemExit.  invoke makes a ValueError of every failing validation, while
\* ainvoke lets the validator's own exception through, unless a ValueError for the extra
\* fields of another argument comes first; invoke fails on a coroutine.
Outcomes(registered, r) ==
  IF Runs(registered, r)
  THEN {"value", "ValueError", "exception", "exit"}
         \ (IF r.host = "gateway" /\ Target(registered, r)[1] \in Async THEN {"value"} ELSE {})
  ELSE IF /\ r.host = "adapter" /\ Target(registered, r) # << >>
          /\ Complete(Target(registered, r)[1], r.arguments) /\ ~Fitting(r.arguments)
  THEN {"ValueError", "exception"}
  ELSE {"ValueError"}

IsNotification(r) == ~r.id
Unsupported(r)    == "metadata" \in r.wrong

\* What the method itself returns or raises, as a message.
Called(registered, r, outcome) ==
  CASE r.method \in DOMAIN ListOf ->
         Page(Definitions(registered, ListOf[r.method]), r.cursor, r.size)
    [] r.method = "server/discover" -> Result(Discovered(registered), 0)
    [] r.method \in Invocations /\ outcome = "value" -> Result(<<"output">>, 0)
    [] r.method \in Invocations /\ outcome = "ValueError" -> Failure("INVALID_PARAMS")
    [] r.method \in Invocations /\ outcome = "exception" -> Failure("INTERNAL_ERROR")

\* handle, handle_async: one message, or none for a notification.  The early returns do not
\* ask whether it is one.
Respond(registered, r, outcome) ==
  IF ~r.wellFormed THEN <<Failure("INVALID_REQUEST")>>
  ELSE IF Unsupported(r) THEN <<Failure("UNSUPPORTED_PROTOCOL_VERSION")>>
  ELSE IF r.method \notin Methods THEN <<Failure("METHOD_NOT_FOUND")>>
  ELSE IF IsNotification(r) THEN << >>
  ELSE <<Called(registered, r, outcome)>>
===============================================================================
