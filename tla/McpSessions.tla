---------------------------- MODULE McpSessions -----------------------------
(***************************************************************************)
(* The two MCP servers.  The gateway answers JSON-RPC batches over HTTP in *)
(* sessions kept in a process-wide registry; `isartor mcp` answers one     *)
(* line at a time on stdio and asks the gateway over HTTP.  Both dispatch  *)
(* with handle_message and end in the cache handlers of the gateway, which *)
(* are reduced to a table from prompts to texts here (Gateway has them in  *)
(* full).  A message is [method, id, prompt, text]; id says whether it has *)
(* one, and "none" is the method of a message that is no request.          *)
(***************************************************************************)
EXTENDS Naturals, Sequences

CONSTANTS
  Posts,        \* POST /mcp tasks; each is used once
  Batches,      \* the batches they carry (sequences of messages)
  Lines,        \* the messages read on stdin
  MaxLines,     \* bound on the lines read
  MaxSessions,  \* bound on the sessions issued
  MaxRestarts   \* bound on restarts of the gateway

ASSUME BatchesAssumption ==
  \A b \in Batches : Len(b) \in Nat /\ DOMAIN b = 1 .. Len(b)
ASSUME MaxLinesAssumption == MaxLines \in Nat

VARIABLES
  post,       \* the state of each POST task
  registry,   \* HTTP_MCP_SESSIONS
  issued,     \* sessions made so far: ids are 1 .. issued, never used twice
  told,       \* ids some client has been told
  table,      \* what the caches hold: prompt -> text, "" if nothing
  stdio,      \* the stdio server
  restarts,   \* restarts of the gateway so far
  stored      \* history: <<prompt, text>> written to the caches

mcpVars == <<post, registry, issued, told, table, stdio, restarts, stored>>

ToolCalls == {"isartor_chat", "isartor_cache_store", "unknown tool"}
Messages  == Lines \cup UNION {{b[i] : i \in DOMAIN b} : b \in Batches}
Prompts   == {m.prompt : m \in Messages}
McpTexts     == {m.text : m \in Messages} \cup {""}
Results   == [kind : {"none", "ok", "error", "tool error", "stored", "empty", "hit"},
              text : McpTexts]
Result(kind) == [kind |-> kind, text |-> ""]
NoMessage == [method |-> "none", id |-> FALSE, prompt |-> "", text |-> ""]

-----------------------------------------------------------------------------
(* handle_message.                                                         *)

IsRequest(m) == m.method # "none"

\* Mutant: notifications are answered.
MutantResponds(m) ==
  m.method \notin {"notifications/initialized", "initialized"}

\* Only messages with an id are answered, but a tools/call always is.
Responds(m) ==
  /\ m.id \/ m.method \in ToolCalls
  /\ m.method \notin {"notifications/initialized", "initialized"}

\* The message makes handle_tools_call ask the caches.
Asks(m) ==
  \/ m.method = "isartor_chat" /\ m.prompt # ""
  \/ m.method = "isartor_cache_store" /\ m.prompt # "" /\ m.text # ""

\* The result of a message that does not.
LocalResult(m) ==
  CASE m.method \in {"initialize", "ping", "tools/list", "shutdown"} -> Result("ok")
    [] m.method \in {"isartor_chat", "isartor_cache_store"} -> Result("tool error")
    [] OTHER -> Result("error")

\* Mutant: a miss is a hit without text.
MutantAsked(m) ==
  IF m.method = "isartor_cache_store" THEN Result("stored")
  ELSE [kind |-> "hit", text |-> table[m.prompt]]

\* What the cache handlers answer, and what they leave in the caches.
Asked(m) ==
  IF m.method = "isartor_cache_store" THEN Result("stored")
  ELSE IF table[m.prompt] = "" THEN Result("empty")
  ELSE [kind |-> "hit", text |-> table[m.prompt]]

CacheEffect(m) ==
  IF m.method = "isartor_cache_store"
    THEN /\ table' = [table EXCEPT ![m.prompt] = m.text]
         /\ stored' = stored \cup {<<m.prompt, m.text>>}
    ELSE UNCHANGED <<table, stored>>

-----------------------------------------------------------------------------
IdlePost == [pc |-> "idle", batch |-> <<>>, held |-> Result("none"), replies |-> <<>>,
             next |-> 1, session |-> 0, status |-> 0]
StdioStart == [pc |-> "read", line |-> NoMessage, held |-> Result("none"), lines |-> 0,
               told |-> <<>>]

McpInit ==
  /\ post = [p \in Posts |-> IdlePost]
  /\ registry = {} /\ issued = 0 /\ told = {}
  /\ table = [q \in Prompts |-> ""]
  /\ stdio = StdioStart
  /\ restarts = 0 /\ stored = {}

(* POST /mcp.                                                              *)

Initializes(b) == \E i \in DOMAIN b : b[i].method = "initialize"

Refuse(p, b, status) ==
  post' = [post EXCEPT ![p].pc = "done", ![p].batch = b, ![p].status = status]

\* Up to the first message: nothing to do (202), a new session, a known one, an
\* unknown one (404) or none (400).
PostArrives(p) ==
  /\ post[p].pc = "idle"
  /\ \E b \in Batches, s \in told \cup {0} :
       IF \A i \in DOMAIN b : ~IsRequest(b[i])
         THEN Refuse(p, b, 202) /\ UNCHANGED <<registry, issued>>
       ELSE IF Initializes(b)
         THEN /\ issued < MaxSessions
              /\ issued' = issued + 1
              /\ registry' = registry \cup {issued + 1}
              /\ post' = [post EXCEPT ![p].pc = "handle", ![p].batch = b,
                                      ![p].session = issued + 1]
         ELSE /\ IF s \in registry
                   THEN post' = [post EXCEPT ![p].pc = "handle", ![p].batch = b,
                                             ![p].session = s]
                   ELSE Refuse(p, b, IF s = 0 THEN 400 ELSE 404)
              /\ UNCHANGED <<registry, issued>>
  /\ UNCHANGED <<told, table, stdio, restarts, stored>>

Current(p) == post[p].batch[post[p].next]
MoreToDo(p) == post[p].pc = "handle" /\ post[p].next <= Len(post[p].batch)

Replied(p, result) ==
  post' = [post EXCEPT ![p].pc = "handle", ![p].next = @ + 1,
             ![p].replies =
               IF Responds(Current(p)) THEN Append(@, <<post[p].next, result>>) ELSE @]

HandleLocally(p) ==
  /\ MoreToDo(p) /\ ~Asks(Current(p))
  /\ Replied(p, LocalResult(Current(p)))
  /\ UNCHANGED <<registry, issued, told, table, stdio, restarts, stored>>

\* The cache handler has run; its result waits for the rest of the handler.
HandleCall(p) ==
  /\ MoreToDo(p) /\ Asks(Current(p))
  /\ post' = [post EXCEPT ![p].pc = "called", ![p].held = Asked(Current(p))]
  /\ CacheEffect(Current(p))
  /\ UNCHANGED <<registry, issued, told, stdio, restarts>>

HandleReturn(p) ==
  /\ post[p].pc = "called"
  /\ Replied(p, post[p].held)
  /\ UNCHANGED <<registry, issued, told, table, stdio, restarts, stored>>

\* The response names the session only if the batch initialized it.
PostAnswers(p) ==
  /\ post[p].pc = "handle" /\ post[p].next > Len(post[p].batch)
  /\ post' = [post EXCEPT ![p].pc = "done",
                ![p].status = IF post[p].replies = <<>> THEN 202 ELSE 200]
  /\ told' = IF Initializes(post[p].batch) /\ post[p].replies # <<>>
               THEN told \cup {post[p].session} ELSE told
  /\ UNCHANGED <<registry, issued, table, stdio, restarts, stored>>

\* The client has left; what its messages did stays done.
PostCancelled(p) ==
  /\ post[p].pc \in {"handle", "called"}
  /\ post' = [post EXCEPT ![p].pc = "cancelled"]
  /\ UNCHANGED <<registry, issued, told, table, stdio, restarts, stored>>

\* DELETE /mcp: the tasks of the session go on.
DeleteSession(s) ==
  /\ s \in registry /\ s \in told
  /\ registry' = registry \ {s}
  /\ UNCHANGED <<post, issued, told, table, stdio, restarts, stored>>

-----------------------------------------------------------------------------
(* isartor mcp.                                                            *)

\* Blank lines and lines that are not JSON are skipped.
StdioReads ==
  /\ stdio.pc = "read" /\ stdio.lines < MaxLines
  /\ \E m \in Lines :
       stdio' = [stdio EXCEPT !.pc = IF Asks(m) THEN "ask" ELSE "write",
                              !.line = m, !.lines = @ + 1,
                              !.held = IF Asks(m) THEN Result("none") ELSE LocalResult(m)]
  /\ UNCHANGED <<post, registry, issued, told, table, restarts, stored>>

\* The gateway has handled the call; its answer is on the way.
GatewayHandles ==
  /\ stdio.pc = "ask"
  /\ stdio' = [stdio EXCEPT !.pc = "asked", !.held = Asked(stdio.line)]
  /\ CacheEffect(stdio.line)
  /\ UNCHANGED <<post, registry, issued, told, restarts>>

StdioAnswered ==
  /\ stdio.pc = "asked"
  /\ stdio' = [stdio EXCEPT !.pc = "write"]
  /\ UNCHANGED <<post, registry, issued, told, table, restarts, stored>>

\* Mutant: the request has no timeout.
MutantStdioFails == FALSE /\ UNCHANGED mcpVars

\* Not reachable, an error status, or three seconds without the answer, which
\* may have been handled all the same.
StdioFails ==
  /\ stdio.pc \in {"ask", "asked"}
  /\ stdio' = [stdio EXCEPT !.pc = "write", !.held = Result("tool error")]
  /\ UNCHANGED <<post, registry, issued, told, table, restarts, stored>>

\* The server ends after "shutdown" even when that is not answered.
StdioWrites ==
  /\ stdio.pc = "write"
  /\ stdio' = [stdio EXCEPT
                 !.pc = IF stdio.line.method = "shutdown" THEN "ended" ELSE "read",
                 !.told = IF Responds(stdio.line)
                            THEN Append(@, <<stdio.line, stdio.held>>) ELSE @]
  /\ UNCHANGED <<post, registry, issued, told, table, restarts, stored>>

\* End of input.
StdioEnds ==
  /\ stdio.pc = "read"
  /\ stdio' = [stdio EXCEPT !.pc = "ended"]
  /\ UNCHANGED <<post, registry, issued, told, table, restarts, stored>>

-----------------------------------------------------------------------------
\* An entry expires or is evicted.
Forgets(q) ==
  /\ table[q] # ""
  /\ table' = [table EXCEPT ![q] = ""]
  /\ UNCHANGED <<post, registry, issued, told, stdio, restarts, stored>>

\* The gateway dies and comes back: sessions, caches and its tasks are gone,
\* what clients know is not.
GatewayRestarts ==
  /\ restarts < MaxRestarts
  /\ restarts' = restarts + 1
  /\ registry' = {}
  /\ table' = [q \in Prompts |-> ""]
  /\ post' = [p \in Posts |-> IF post[p].pc \in {"handle", "called"}
                                THEN [post[p] EXCEPT !.pc = "cancelled"] ELSE post[p]]
  /\ UNCHANGED <<issued, told, stdio, stored>>

McpNext ==
  \/ \E p \in Posts :
       \/ PostArrives(p) \/ HandleLocally(p) \/ HandleCall(p) \/ HandleReturn(p)
       \/ PostAnswers(p) \/ PostCancelled(p)
  \/ \E s \in registry : DeleteSession(s)
  \/ StdioReads \/ GatewayHandles \/ StdioAnswered \/ StdioFails
  \/ StdioWrites \/ StdioEnds
  \/ \E q \in Prompts : Forgets(q)
  \/ GatewayRestarts

\* The stdio server runs on, and its timer fires; nothing is asked of clients
\* or of the gateway.
McpFairness == WF_mcpVars(StdioFails) /\ WF_mcpVars(StdioWrites)

McpSpec == McpInit /\ [][McpNext]_mcpVars /\ McpFairness
-----------------------------------------------------------------------------
(* Properties.                                                             *)

PostPCs == {"idle", "handle", "called", "done", "cancelled"}

\* Every variable holds a value of its type, and no session outlives its number.
McpTypeOK ==
  /\ \A p \in Posts :
       /\ post[p].pc \in PostPCs /\ post[p].batch \in Batches \cup {<<>>}
       /\ post[p].status \in {0, 200, 202, 400, 404}
       /\ post[p].session \in 0 .. issued
       /\ post[p].held \in Results
  /\ registry \subseteq 1 .. issued /\ told \subseteq 1 .. issued
  /\ table \in [Prompts -> McpTexts]
  /\ stdio.pc \in {"read", "ask", "asked", "write", "ended"}
  /\ stdio.line \in Lines \cup {NoMessage} /\ stdio.lines \in 0 .. MaxLines
  /\ stored \subseteq Prompts \X McpTexts

\* A batch is answered as JSON-RPC asks: by one reply for each message that has
\* an id, in the order of the messages, and, beyond that, for tool calls sent as
\* notifications; by a body exactly if there is a reply (mcp.rs:80 ff.).
BatchAnswered ==
  \A p \in Posts :
    LET b == post[p].batch
        due == {i \in DOMAIN b : b[i].id /\ b[i].method \notin
                                   {"notifications/initialized", "initialized"}}
        got == {post[p].replies[i][1] : i \in DOMAIN post[p].replies}
    IN  post[p].pc = "done" /\ post[p].session # 0 =>
          /\ due \subseteq got
          /\ \A i \in got \ due : b[i].method \in ToolCalls
          /\ \A i, j \in DOMAIN post[p].replies :
               i < j => post[p].replies[i][1] < post[p].replies[j][1]
          /\ post[p].status = 200 <=> got # {}

\* Whatever an MCP client is told of the caches is true of some moment, through
\* restarts of the gateway, evictions, timeouts and late answers: a text it is
\* given was stored for that prompt, and a pair reported stored was stored.
Told == {stdio.told[i] : i \in DOMAIN stdio.told} \cup
        UNION {{<<post[p].batch[post[p].replies[i][1]], post[p].replies[i][2]>> :
                  i \in DOMAIN post[p].replies} : p \in Posts}
ToldIsTrue ==
  \A r \in Told :
    /\ r[2].kind = "hit" => <<r[1].prompt, r[2].text>> \in stored
    /\ r[2].kind = "stored" => <<r[1].prompt, r[1].text>> \in stored

\* A line that has been read is dealt with, whatever becomes of the gateway:
\* the client on the other side of the pipe is never left waiting (mcp.rs:268).
LinesDealtWith == stdio.pc \in {"ask", "asked", "write"} ~> stdio.pc \in {"read", "ended"}
=============================================================================
