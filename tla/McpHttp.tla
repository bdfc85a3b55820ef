-------------------------------- MODULE McpHttp --------------------------------
(***************************************************************************)
(* MCP over HTTP: MCPHttpTransport behind an API Gateway resolver, which   *)
(* answers in one piece, and MCPStreamingHttpTransport behind the Lambda   *)
(* Web Adapter resolver, one thread per connection, where a tool runs on a *)
(* thread of its own and its messages pass through a queue to the body of  *)
(* the response, while the client may go away.                             *)
(***************************************************************************)
EXTENDS McpServer

CONSTANTS
  Connections,
  Requests,     \* the HTTP requests that clients send
  MaxReports    \* bound: reports of progress by one call

Checks == {"version", "protocol", "method", "name", "capabilities", "metadata"}

ASSUME RequestsAssumption ==
  /\ MaxReports \in Nat /\ Requests # {}
  /\ \A r \in Requests :
       /\ r.host \in {"gateway", "adapter"} /\ r.path \in {"known", "other"}
       /\ r.fits \in BOOLEAN /\ r.body \in {"object", "list", "scalar", "broken"}
       /\ r.params \in {"object", "other"} /\ r.origin \in BOOLEAN
       /\ r.accept \in Seq({"json", "sse"}) /\ r.wrong \subseteq Checks
       /\ r.wellFormed \in BOOLEAN /\ r.id \in BOOLEAN /\ r.token \in BOOLEAN
       /\ r.cursor \in Nat /\ r.size \in Nat

VARIABLES
  registered,  \* capabilities, in the order of registration
  stage,       \* of the connection's thread
  request,     \* of the connection, from Requests
  head,        \* status and media type of the response
  pending,     \* body of a response that needs no worker
  written,     \* messages written to the client
  gone,        \* the client has disconnected
  worker,      \* the thread of a tool call
  outcome,     \* of the call
  helper,      \* a task or executor thread that the tool has started on its loop
  queue,       \* events between the worker and the body
  cancelled,   \* the cancellation token
  reports,     \* history: reports of progress
  listed       \* history, per client: a list it follows by its cursors, page after page,
               \* and the size of the registry when the last page was cut

httpVars   == <<stage, request, head, pending, written, gone>>
workerVars == <<worker, outcome, helper, queue, reports>>
vars       == <<registered, httpVars, workerVars, cancelled, listed>>

StatusLine(status, frame) == [status |-> status, frame |-> frame]
NoHead    == StatusLine(0, "none")
NoPages   == [kind |-> "none", items |-> << >>, next |-> 0, size |-> 0]
NoRequest == CHOOSE r \in Requests : TRUE

Init ==
  /\ registered = << >>
  /\ stage = [c \in Connections |-> "idle"]
  /\ request = [c \in Connections |-> NoRequest]
  /\ head = [c \in Connections |-> NoHead]
  /\ pending = [c \in Connections |-> << >>]
  /\ written = [c \in Connections |-> << >>]
  /\ gone = [c \in Connections |-> FALSE]
  /\ worker = [c \in Connections |-> "none"]
  /\ outcome = [c \in Connections |-> "none"]
  /\ helper = [c \in Connections |-> "none"]
  /\ queue = [c \in Connections |-> << >>]
  /\ cancelled = [c \in Connections |-> FALSE]
  /\ reports = [c \in Connections |-> 0]
  /\ listed = [c \in Connections |-> NoPages]
-----------------------------------------------------------------------------
(***************************************************************************)
(* Checks before the server sees the message.                              *)
(***************************************************************************)

\* The names of arguments that the Mcp-Param headers must repeat.
ExpectedHeaders(r) == DOMAIN r.arguments \cap Arguments(r.target) \cap Mirrored

ToolHeadersDiffer(r) ==
  /\ r.method = "tools/call" /\ Target(registered, r) # << >>
  /\ r.mirrored # ExpectedHeaders(r)

Refusal(status, message) == [status |-> status, message |-> message]
Passed == Refusal(0, NotJsonRpc)

Accepts(r, frame) == \E i \in DOMAIN r.accept : r.accept[i] = frame

\* The client accepts both, as it must, and prefers events.
AcceptsSse(r) ==
  /\ Accepts(r, "json")
  /\ \E i \in DOMAIN r.accept :
       r.accept[i] = "sse" /\ \A k \in 1..i : r.accept[k] # "json"

BothAccepted(r) == Accepts(r, "json") /\ Accepts(r, "sse")

\* _validate_headers, in its order.
HeaderRefusal(r) ==
  IF ~BothAccepted(r) THEN Refusal(406, NotJsonRpc)
  ELSE IF "version" \in r.wrong THEN Refusal(400, Failure("UNSUPPORTED_PROTOCOL_VERSION"))
  ELSE IF r.wrong \cap (IF r.method \in Invocations THEN {"protocol", "method", "name"}
                         ELSE {"protocol", "method"}) # {}
  THEN Refusal(400, Failure("HEADER_MISMATCH"))
  ELSE IF "capabilities" \in r.wrong THEN Refusal(400, Failure("INVALID_PARAMS"))
  ELSE IF ToolHeadersDiffer(r) THEN Refusal(400, Failure("HEADER_MISMATCH"))
  ELSE Passed

\* The buffered transport answers a broken body itself; the adapter has parsed it before.
TransportRefusal(r) ==
  IF r.host = "gateway" /\ r.body = "broken" THEN Refusal(200, Failure("PARSE_ERROR"))
  ELSE IF r.host = "adapter" /\ r.body # "object" THEN Refusal(400, NotJsonRpc)
  ELSE IF ~r.origin THEN Refusal(403, NotJsonRpc)
  ELSE IF r.body = "list" THEN Refusal(400, NotJsonRpc)
  ELSE IF r.body = "object" THEN HeaderRefusal(r)
  ELSE Passed

\* The transport raises: params are read as an object before anything checks that they are
\* one, and the server reads the id of a message that is a scalar.
Raises(r) ==
  /\ r.body \in {"object", "scalar"} /\ r.origin
  /\ IF r.body = "scalar" THEN r.host = "gateway"
     ELSE r.params = "other" /\ BothAccepted(r) /\ "version" \notin r.wrong

\* Mutant: a failing call has a status of its own.
MutStatusOf(messages) ==
  IF messages = << >> THEN 202
  ELSE IF messages[1].code = "METHOD_NOT_FOUND" THEN 404
  ELSE IF messages[1].code = "INTERNAL_ERROR" THEN 500 ELSE 200

\* _http_status_for_response.
StatusOf(messages) ==
  IF messages = << >> THEN 202
  ELSE IF messages[1].code = "METHOD_NOT_FOUND" THEN 404 ELSE 200

\* Status, media type and body, which the server computes before the response starts.
Answer(r, o) ==
  LET refusal == TransportRefusal(r)
      messages == Respond(registered, r, o)
  IN IF refusal # Passed
     THEN [head |-> StatusLine(refusal.status, "json"), body |-> <<refusal.message>>]
     ELSE [head |-> StatusLine(StatusOf(messages),
                               IF r.host = "adapter" \/ AcceptsSse(r) THEN "sse" ELSE "json"),
           body |-> messages]

\* A page that begins a list, or continues the one that the client follows.
Follow(list, r, messages) ==
  IF r.method \notin DOMAIN ListOf \/ messages = << >> THEN list
  ELSE LET page == messages[1]
           kind == ListOf[r.method]
           size == Len(Registry(registered, kind))
       IN IF page.kind # "result" THEN list
          ELSE IF r.cursor = 0
          THEN [kind |-> kind, items |-> page.items, next |-> page.next, size |-> size]
          ELSE IF r.cursor = list.next /\ kind = list.kind
          THEN [kind |-> kind, items |-> list.items \o page.items, next |-> page.next,
                size |-> size]
          ELSE list

\* The outcomes of a message that the server handles before the response starts.
OutcomesNow(r) ==
  IF TransportRefusal(r) = Passed /\ r.method \in Invocations
  THEN Outcomes(registered, r) ELSE {"value"}
-----------------------------------------------------------------------------
(***************************************************************************)
(* Registration and the buffered transport.                                *)
(***************************************************************************)

\* A name that is taken raises, and the registry stays as it is.
Register(n) ==
  /\ registered' = IF IsRegistered(registered, n) THEN registered ELSE Append(registered, n)
  /\ UNCHANGED <<httpVars, workerVars, cancelled, listed>>

\* One invocation of the resolver's function; nothing runs beside it.  An exception that
\* leaves the transport is answered by the application around it.
Invoke(c, r) ==
  /\ r.host = "gateway" /\ stage[c] = "idle"
  /\ request' = [request EXCEPT ![c] = r]
  /\ \E o \in IF Raises(r) THEN {"exit"} ELSE OutcomesNow(r) :
       /\ stage' = [stage EXCEPT ![c] = IF o = "exit" THEN "failed" ELSE "closed"]
       /\ IF o = "exit" THEN UNCHANGED <<head, written, listed>>
          ELSE LET answer == Answer(r, o) IN
               /\ head' = [head EXCEPT ![c] = answer.head]
               /\ written' = [written EXCEPT ![c] = answer.body]
               /\ listed' = [listed EXCEPT ![c] = Follow(@, r, answer.body)]
  /\ UNCHANGED <<registered, pending, gone, workerVars, cancelled>>
-----------------------------------------------------------------------------
(***************************************************************************)
(* The adapter: the thread of a connection.                                *)
(***************************************************************************)

\* With the client gone, a write may be lost without an error.
Write(c, messages) ==
  written' = [written EXCEPT ![c] = IF gone[c] THEN @ ELSE @ \o messages]

\* An answer of the adapter itself.
Reject(c, status) ==
  /\ head' = [head EXCEPT ![c] = StatusLine(status, "json")]
  /\ Write(c, <<NotJsonRpc>>)
  /\ stage' = [stage EXCEPT ![c] = "closed"]

\* do_POST, up to the HTTP middlewares.
Accept(c, r) ==
  /\ r.host = "adapter" /\ stage[c] = "idle"
  /\ request' = [request EXCEPT ![c] = r]
  /\ IF r.path = "other" THEN Reject(c, 404)
     ELSE IF ~r.fits THEN Reject(c, 413)
     ELSE IF r.body = "broken" THEN Reject(c, 400)
     ELSE stage' = [stage EXCEPT ![c] = "accepted"] /\ UNCHANGED <<head, written>>
  /\ UNCHANGED <<registered, pending, gone, workerVars, cancelled, listed>>

\* An HTTP middleware raises, before or after it has called the next one.  A ValueError is
\* answered; an OSError is taken for a client that has left, but there is no response yet
\* whose token could be cancelled; any other ends the thread, as an OSError does.
MiddlewareRaises(c, class) ==
  /\ stage[c] \in {"accepted", "handled"}
  /\ IF class = "ValueError" THEN Reject(c, 400)
     ELSE /\ stage' = [stage EXCEPT ![c] = "failed"]
          /\ head' = [head EXCEPT ![c] = NoHead]
          /\ UNCHANGED written
  /\ pending' = [pending EXCEPT ![c] = << >>]
  /\ UNCHANGED <<registered, request, gone, workerVars, cancelled, listed>>

\* transport.handle.  A tool call that passes the checks gets a thread; any other message is
\* handled before the response starts.
Handle(c) ==
  LET r == request[c] IN
  /\ stage[c] = "accepted"
  /\ \E o \in IF Raises(r) THEN {"exit"} ELSE OutcomesNow(r) :
       IF r.method = "tools/call" /\ TransportRefusal(r) = Passed /\ ~Raises(r)
       THEN /\ stage' = [stage EXCEPT ![c] = "handled"]
            /\ head' = [head EXCEPT ![c] = StatusLine(200, "sse")]
            /\ worker' = [worker EXCEPT ![c] = "started"]
            /\ UNCHANGED <<pending, listed>>
       ELSE IF o = "exit"
       THEN /\ stage' = [stage EXCEPT ![c] = "failed"]
            /\ UNCHANGED <<head, pending, worker, listed>>
       ELSE LET answer == Answer(r, o) IN
            /\ stage' = [stage EXCEPT ![c] = "handled"]
            /\ head' = [head EXCEPT ![c] = answer.head]
            /\ pending' = [pending EXCEPT ![c] = answer.body]
            /\ listed' = [listed EXCEPT ![c] = Follow(@, r, answer.body)]
            /\ UNCHANGED worker
  /\ UNCHANGED <<registered, request, written, gone, outcome, helper, queue, reports, cancelled>>

\* The middlewares have returned; the status line and the headers go out.
SendHead(c) ==
  /\ stage[c] = "handled"
  /\ stage' = [stage EXCEPT ![c] = "writing"]
  /\ UNCHANGED <<registered, request, head, pending, written, gone, workerVars, cancelled, listed>>

Streams(c) == worker[c] # "none"

\* The body of a response that is there already: one message, or none.
WritePending(c) ==
  /\ stage[c] = "writing" /\ ~Streams(c)
  /\ Write(c, pending[c])
  /\ pending' = [pending EXCEPT ![c] = << >>]
  /\ stage' = [stage EXCEPT ![c] = "closed"]
  /\ UNCHANGED <<registered, request, head, gone, workerVars, cancelled, listed>>

\* The body of a streamed response: what the queue holds, until it says that it is done.  The
\* exception of a call is raised here, on the connection's thread.
Take(c) ==
  /\ stage[c] = "writing" /\ Streams(c) /\ queue[c] # << >>
  /\ LET event == Head(queue[c]) IN
     /\ Write(c, event.messages)
     /\ stage' = [stage EXCEPT ![c] = CASE event.kind = "done" -> "closed"
                                        [] event.kind = "exception" -> "failed"
                                        [] OTHER -> "writing"]
  /\ queue' = [queue EXCEPT ![c] = Tail(@)]
  /\ UNCHANGED <<registered, request, head, pending, gone, worker, outcome, helper, reports,
                 cancelled, listed>>

\* A write fails: the adapter cancels the call and leaves its body.
WriteFails(c) ==
  /\ gone[c]
  /\ \/ stage[c] = "handled"
     \/ /\ stage[c] = "writing"
        /\ IF Streams(c) THEN queue[c] # << >> /\ Head(queue[c]).messages # << >>
           ELSE pending[c] # << >>
  /\ stage' = [stage EXCEPT ![c] = "failed"]
  /\ pending' = [pending EXCEPT ![c] = << >>]
  /\ queue' = [queue EXCEPT ![c] = IF stage[c] = "writing" /\ @ # << >> THEN Tail(@) ELSE @]
  /\ cancelled' = [cancelled EXCEPT ![c] = Streams(c)]
  /\ UNCHANGED <<registered, request, head, written, gone, worker, outcome, helper, reports,
                 listed>>

\* The client goes away.
Disconnect(c) ==
  /\ stage[c] \in {"accepted", "handled", "writing"} /\ ~gone[c]
  /\ gone' = [gone EXCEPT ![c] = TRUE]
  /\ UNCHANGED <<registered, stage, request, head, pending, written, workerVars, cancelled, listed>>

\* The next request finds nothing of this one.
Forget(c) ==
  /\ stage[c] \in {"closed", "failed"} /\ worker[c] \in {"none", "ended"}
  /\ stage' = [stage EXCEPT ![c] = "idle"]
  /\ request' = [request EXCEPT ![c] = NoRequest]
  /\ head' = [head EXCEPT ![c] = NoHead]
  /\ pending' = [pending EXCEPT ![c] = << >>]
  /\ written' = [written EXCEPT ![c] = << >>]
  /\ gone' = [gone EXCEPT ![c] = FALSE]
  /\ worker' = [worker EXCEPT ![c] = "none"]
  /\ outcome' = [outcome EXCEPT ![c] = "none"]
  /\ helper' = [helper EXCEPT ![c] = "none"]
  /\ queue' = [queue EXCEPT ![c] = << >>]
  /\ cancelled' = [cancelled EXCEPT ![c] = FALSE]
  /\ reports' = [reports EXCEPT ![c] = 0]
  /\ UNCHANGED <<registered, listed>>
-----------------------------------------------------------------------------
(***************************************************************************)
(* The tool: a thread, and what it starts on its event loop.               *)
(***************************************************************************)
toolVars == <<registered, httpVars, cancelled, listed>>

Put(c, kind, messages) ==
  queue' = [queue EXCEPT ![c] = Append(@, [kind |-> kind, messages |-> messages])]

\* The server looks the tool up and validates the arguments on the worker's thread.
CallTool(c) ==
  /\ worker[c] = "started"
  /\ IF Runs(registered, request[c])
     THEN worker' = [worker EXCEPT ![c] = "running"] /\ UNCHANGED outcome
     ELSE /\ worker' = [worker EXCEPT ![c] = "returned"]
          /\ \E o \in Outcomes(registered, request[c]) : outcome' = [outcome EXCEPT ![c] = o]
  /\ UNCHANGED <<helper, queue, reports, toolVars>>

\* The call reports progress, or something that it has started does.  Without a progress
\* token there is no reporter.
Report(c) ==
  /\ worker[c] = "running" \/ helper[c] = "running"
  /\ request[c].token /\ reports[c] < MaxReports
  /\ Put(c, "progress", <<Progress>>)
  /\ reports' = [reports EXCEPT ![c] = @ + 1]
  /\ UNCHANGED <<worker, outcome, helper, toolVars>>

StartHelper(c) ==
  /\ worker[c] = "running" /\ helper[c] = "none"
  /\ helper' = [helper EXCEPT ![c] = "running"]
  /\ UNCHANGED <<worker, outcome, queue, reports, toolVars>>

HelperEnds(c) ==
  /\ helper[c] = "running"
  /\ helper' = [helper EXCEPT ![c] = "ended"]
  /\ UNCHANGED <<worker, outcome, queue, reports, toolVars>>

Return(c) ==
  /\ worker[c] = "running"
  /\ worker' = [worker EXCEPT ![c] = "returned"]
  /\ \E o \in {"value", "ValueError", "exception", "exit"} : outcome' = [outcome EXCEPT ![c] = o]
  /\ UNCHANGED <<helper, queue, reports, toolVars>>

\* Mutant: the result is put while what the tool has started still runs.
MutLoopCloses(c) ==
  /\ worker[c] = "returned"
  /\ IF outcome[c] = "exit" THEN Put(c, "exception", << >>)
     ELSE Put(c, "result", Respond(registered, request[c], outcome[c]))
  /\ worker' = [worker EXCEPT ![c] = "answered"]
  /\ UNCHANGED <<outcome, helper, reports, toolVars>>

\* Mutant: only an Exception is passed on.
MutLoopSwallows(c) ==
  /\ worker[c] = "returned" /\ helper[c] # "running"
  /\ IF outcome[c] = "exit" THEN worker' = [worker EXCEPT ![c] = "ended"] /\ UNCHANGED queue
     ELSE /\ Put(c, "result", Respond(registered, request[c], outcome[c]))
          /\ worker' = [worker EXCEPT ![c] = "answered"]
  /\ UNCHANGED <<outcome, helper, reports, toolVars>>

\* asyncio.run ends the tasks of its loop and joins its executor before it returns; then the
\* answer is put, or the exception that no handler has caught.
LoopCloses(c) ==
  /\ worker[c] = "returned" /\ helper[c] # "running"
  /\ IF outcome[c] = "exit" THEN Put(c, "exception", << >>)
     ELSE Put(c, "result", Respond(registered, request[c], outcome[c]))
  /\ worker' = [worker EXCEPT ![c] = "answered"]
  /\ UNCHANGED <<outcome, helper, reports, toolVars>>

\* The finally of run.
PutDone(c) ==
  /\ worker[c] = "answered"
  /\ Put(c, "done", << >>)
  /\ worker' = [worker EXCEPT ![c] = "ended"]
  /\ UNCHANGED <<outcome, helper, reports, toolVars>>
-----------------------------------------------------------------------------
Thread(c) == Handle(c) \/ SendHead(c) \/ WritePending(c) \/ Take(c)
Worker(c) == CallTool(c) \/ Return(c) \/ LoopCloses(c) \/ PutDone(c)

Next ==
  \/ \E n \in Capabilities : Register(n)
  \/ \E c \in Connections :
       \/ \E r \in Requests : Invoke(c, r) \/ Accept(c, r)
       \/ \E class \in {"ValueError", "other"} : MiddlewareRaises(c, class)
       \/ Thread(c) \/ WriteFails(c) \/ Disconnect(c) \/ Forget(c)
       \/ Worker(c) \/ Report(c) \/ StartHelper(c) \/ HelperEnds(c)

\* Threads are scheduled; tools, and what they start, end by themselves, told or not.
Fairness ==
  \A c \in Connections :
    /\ WF_vars(Thread(c)) /\ WF_vars(Forget(c))
    /\ WF_vars(Worker(c)) /\ WF_vars(HelperEnds(c))

Spec == Init /\ [][Next]_vars /\ Fairness
===============================================================================
