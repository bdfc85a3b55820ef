-------------------------------- MODULE McpProps --------------------------------
\* What the MCP server and its transports promise.
EXTENDS McpHttp

\* What the variables of the server, of its connections and of their tool calls hold.
TypeOK ==
  /\ registered \in Seq(Capabilities)
  /\ \A c \in Connections :
       /\ stage[c] \in {"idle", "accepted", "handled", "writing", "closed", "failed"}
       /\ request[c] \in Requests
       /\ head[c].status \in {0, 200, 202, 400, 403, 404, 406, 413}
       /\ head[c].frame \in {"none", "json", "sse"}
       /\ Len(pending[c]) <= 1 /\ Len(written[c]) <= MaxReports + 1
       /\ gone[c] \in BOOLEAN /\ cancelled[c] \in BOOLEAN
       /\ worker[c] \in {"none", "started", "running", "returned", "answered", "ended"}
       /\ outcome[c] \in {"none", "value", "ValueError", "exception", "exit"}
       /\ helper[c] \in {"none", "running", "ended"}
       /\ reports[c] \in 0 .. MaxReports
       /\ \A i \in DOMAIN queue[c] :
            queue[c][i].kind \in {"progress", "result", "exception", "done"}

IsAnswer(message) == message.kind # "progress"

\* Answers that the protocol's checks give to any message, a notification among them.
CheckCodes == {"plain", "PARSE_ERROR", "INVALID_REQUEST", "METHOD_NOT_FOUND",
               "HEADER_MISMATCH", "UNSUPPORTED_PROTOCOL_VERSION"}

\* A client that stays gets every report of progress of its call, if it has asked for them, then
\* one answer, and nothing after it; a notification gets no answer, unless a check refuses it.
\* The reports come from the tool's thread and from what it has started, through the queue, and
\* the answer from whichever thread has it (transport.py:282-303, server.py:123-240).
AnswerEndsTheStream ==
  \A c \in Connections :
    /\ \A i \in DOMAIN written[c] :
         IF IsAnswer(written[c][i])
         THEN i = Len(written[c]) /\ (head[c].frame = "sse" => i = reports[c] + 1)
         ELSE request[c].token
    /\ stage[c] = "closed" /\ ~gone[c] =>
         IF request[c].id THEN \E i \in DOMAIN written[c] : IsAnswer(written[c][i])
         ELSE \A i \in DOMAIN written[c] :
                \/ ~IsAnswer(written[c][i])
                \/ written[c][i].code \in CheckCodes
                \/ head[c].status = 400

\* A client that follows the cursors of a list, with pages of any sizes and capabilities being
\* registered in between, gets every definition once and in order, and a page without a cursor
\* only when there is nothing behind it (registry.py:80-90).
PagesComplete ==
  \A c \in Connections :
    LET list == listed[c]
        all  == Definitions(registered, list.kind)
    IN list # NoPages =>
         /\ list.items = SubSeq(all, 1, Len(list.items))
         /\ Len(list.items) = IF list.next = 0 THEN list.size ELSE list.next

\* Every exchange comes to an end on the server, whether or not the client stays and whatever
\* the tool does, as long as it returns: the body never waits for an event that nobody puts
\* (transport.py:292-303), and the tool's thread ends too.
EveryExchangeEnds == \A c \in Connections : stage[c] # "idle" ~> stage[c] = "idle"
===============================================================================
