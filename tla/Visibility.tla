----------------------------- MODULE Visibility ------------------------------
(***************************************************************************)
(* What the gateway says about its traffic: the counters behind one mutex  *)
(* that requests of the gateway, the MCP cache endpoint and the proxy      *)
(* update as they go, the summary each leaves when it is answered, and the *)
(* reports made of both.  A request that is dropped while it waits leaves  *)
(* the events it has recorded and no summary.                              *)
(***************************************************************************)
EXTENDS Naturals, Sequences, FiniteSets

CONSTANTS
  Requests,     \* requests; each is made once
  Surfaces,     \* where they arrive: "gateway", "mcp", "proxy"
  Attempts,     \* max_attempts of a retried call
  Recent        \* RECENT_PROMPT_ENTRIES_CAPACITY

ASSUME RecentAssumption == Recent \in Nat

VARIABLES
  seen,       \* the progress of each request
  counts,     \* the totals
  agent,      \* the counters of the tool (all requests are of one tool)
  recent,     \* final layers of the latest summaries, newest first
  health      \* the last report of GET /health

visibilityVars == <<seen, counts, agent, recent, health>>

Layers    == {"l0", "l1a", "l1b", "l2", "l3", "miss"}
Events    == {"l1a_hit", "l1a_miss", "l1b_hit", "l1b_miss", "l1_hit", "l1_miss"}
Deflected == {"l0", "l1a", "l1b", "l2"}   \* FinalLayer::is_deflected
NoLayers  == [l \in Layers |-> 0]

VisibilityInit ==
  /\ seen = [r \in Requests |-> [pc |-> "idle", surface |-> "none", todo |-> <<>>,
                                 layer |-> "none", attempt |-> 0]]
  /\ counts = [total |-> 0, deflected |-> 0, layer |-> NoLayers]
  /\ agent = [requests |-> 0, retries |-> 0, errors |-> 0,
              event |-> [e \in Events |-> 0]]
  /\ recent = <<>>
  /\ health = [pc |-> "idle", total |-> 0, deflected |-> 0]

\* The events and the layer with which a request leaves Layer 1.
Mutant1bEvents == <<"l1a_miss", "l1b_hit">>
L1bEvents == <<"l1a_miss", "l1b_hit", "l1_hit">>

MissEvents(surface) ==
  IF surface = "mcp" THEN <<"l1a_miss", "l1b_miss", "l1_miss">>
                     ELSE <<"l1a_miss", "l1b_miss">>

Goes(r, pc, surface, events, layer) ==
  seen' = [seen EXCEPT ![r] = [pc |-> pc, surface |-> surface, todo |-> events,
                               layer |-> layer, attempt |-> 0]]

\* The gateway's key is asked first, by the gateway only; then the caches, of
\* which a request may use one, both or, without a prompt, none.
Arrives(r) ==
  /\ seen[r].pc = "idle"
  /\ \E s \in Surfaces :
       \/ s = "gateway" /\ Goes(r, "answer", s, <<>>, "l0")
       \/ s = "gateway" /\ Goes(r, "upstream", s, <<>>, "l3")
       \/ s = "proxy" /\ Goes(r, "answer", s, <<>>, "l3")
       \/ s # "mcp" /\ Goes(r, "events", s, <<"l1a_miss">>, "miss")
       \/ Goes(r, "events", s, <<"l1a_hit", "l1_hit">>, "l1a")
       \/ Goes(r, "events", s, L1bEvents, "l1b")
       \/ Goes(r, "events", s, MissEvents(s), "miss")
  /\ UNCHANGED <<counts, agent, recent, health>>

\* record_agent_cache_event: one lock for each event.
RecordEvent(r) ==
  /\ seen[r].pc = "events"
  /\ LET e == Head(seen[r].todo)
         last == Len(seen[r].todo) = 1
         next == IF ~last THEN "events"
                 ELSE IF seen[r].layer # "miss" \/ seen[r].surface = "mcp"
                   THEN "answer" ELSE "below"
     IN /\ agent' = [agent EXCEPT !.event[e] = @ + 1]
        /\ seen' = [seen EXCEPT ![r].todo = Tail(@), ![r].pc = next]
  /\ UNCHANGED <<counts, recent, health>>

\* A layer that fails on the way counts as an error (the embedder is taken to work).
Failures(n) == agent' = [agent EXCEPT !.errors = @ + n]

\* Below Layer 1 the gateway records the miss first; the proxy asks Layer 2
\* first, and an answer from there is neither hit nor miss.
GoesBelow(r) ==
  /\ seen[r].pc = "below"
  /\ \/ seen[r].surface = "proxy" /\ Goes(r, "answer", "proxy", <<>>, "l2")
     \/ Goes(r, "missed", seen[r].surface, <<"l1_miss">>, "miss")
  /\ UNCHANGED <<counts, agent, recent, health>>

\* In offline mode what Layer 2 leaves is refused, and counted as cloud traffic.
RecordMiss(r) ==
  /\ seen[r].pc = "missed"
  /\ agent' = [agent EXCEPT !.event["l1_miss"] = @ + 1]
  /\ \/ seen[r].surface = "gateway" /\ Goes(r, "triage", "gateway", <<>>, "l2")
     \/ seen[r].surface = "proxy" /\ Goes(r, "answer", "proxy", <<>>, "l3")
  /\ UNCHANGED <<counts, recent, health>>

Triage(r) ==
  /\ seen[r].pc = "triage"
  /\ \/ Failures(0) /\ Goes(r, "answer", "gateway", <<>>, "l2")
     \/ \E n \in {0, 1}, pc \in {"upstream", "answer"} :
          Failures(n) /\ Goes(r, pc, "gateway", <<>>, "l3")
  /\ UNCHANGED <<counts, recent, health>>

\* execute_with_retry, and what the handler makes of its error: one more error,
\* and another one for a stale answer.  A fatal error leaves its attempts out of
\* the retries.
UpstreamTry(r) ==
  /\ seen[r].pc = "upstream"
  /\ LET n == seen[r].attempt + 1
         again == [seen[r] EXCEPT !.attempt = n]
         ends  == [again EXCEPT !.pc = "answer"]
     IN \/ /\ agent' = [agent EXCEPT !.retries = @ + (n - 1)]
           /\ seen' = [seen EXCEPT ![r] = ends]
        \/ /\ \E stale \in {0, 1} : Failures(2 + stale)
           /\ seen' = [seen EXCEPT ![r] = ends]
        \/ /\ n < Attempts
           /\ Failures(1)
           /\ seen' = [seen EXCEPT ![r] = again]
        \/ /\ n = Attempts
           /\ \E stale \in {0, 1} :
                agent' = [agent EXCEPT !.errors = @ + 2 + stale, !.retries = @ + (Attempts - 1)]
           /\ seen' = [seen EXCEPT ![r] = ends]
  /\ UNCHANGED <<counts, recent, health>>

\* The connection goes while the request waits.
Dropped(r) ==
  /\ seen[r].pc \in {"below", "triage", "upstream"}
  /\ seen' = [seen EXCEPT ![r].pc = "dropped"]
  /\ UNCHANGED <<counts, agent, recent, health>>

\* PromptVisibilityState::record.
Recorded(l) ==
  /\ counts' = [total |-> counts.total + 1,
                deflected |-> counts.deflected + (IF l \in Deflected THEN 1 ELSE 0),
                layer |-> [counts.layer EXCEPT ![l] = @ + 1]]
  /\ agent' = [agent EXCEPT !.requests = @ + 1]
  /\ recent' = SubSeq(<<l>> \o recent, 1,
                      IF Len(recent) < Recent THEN Len(recent) + 1 ELSE Recent)

\* root_monitoring_middleware, and its like in the other two.
RecordPrompt(r) ==
  /\ seen[r].pc = "answer"
  /\ Recorded(seen[r].layer)
  /\ seen' = [seen EXCEPT ![r].pc = "answered"]
  /\ UNCHANGED health

\* health_handler reads the two totals under two locks.
HealthStarts ==
  /\ health.pc = "idle"
  /\ health' = [pc |-> "read", total |-> counts.total, deflected |-> 0]
  /\ UNCHANGED <<seen, counts, agent, recent>>

HealthEnds ==
  /\ health.pc = "read"
  /\ health' = [health EXCEPT !.pc = "told", !.deflected = counts.deflected]
  /\ UNCHANGED <<seen, counts, agent, recent>>

VisibilityNext ==
  \/ \E r \in Requests :
       \/ Arrives(r) \/ RecordEvent(r) \/ GoesBelow(r) \/ RecordMiss(r)
       \/ Triage(r) \/ UpstreamTry(r) \/ Dropped(r) \/ RecordPrompt(r)
  \/ HealthStarts \/ HealthEnds

VisibilitySpec == VisibilityInit /\ [][VisibilityNext]_visibilityVars
-----------------------------------------------------------------------------
(* Properties.                                                             *)

\* Every variable holds a value of its type; the list of recent requests is
\* bounded.
VisibilityTypeOK ==
  /\ \A r \in Requests : seen[r].pc \in {"idle", "events", "below", "missed", "triage", "upstream",
                                         "answer", "answered", "dropped"}
  /\ counts.total \in Nat /\ counts.deflected \in 0 .. counts.total
  /\ counts.layer \in [Layers -> Nat] /\ agent.event \in [Events -> Nat]
  /\ Len(recent) <= Recent /\ \A i \in DOMAIN recent : recent[i] \in Layers
  /\ health.pc \in {"idle", "read", "told"}

Answered == {r \in Requests : seen[r].pc = "answered"}
Waiting  == {r \in Requests : seen[r].pc \notin {"idle", "answered", "dropped"}}

\* The reports agree with the traffic and with each other (visibility.rs:37):
\* every answered request is in one layer and no dropped one in any, what is
\* deflected is what did not go to the cloud, and once nobody is on the way the
\* hits recorded while requests were handled are the requests answered from the
\* caches, no request is both a hit and a miss, and retries never outnumber
\* errors.  /health, which reads two counters one after the other, never shows
\* traffic to the cloud that was not.
CountsAgree ==
  /\ counts.total = Cardinality(Answered) /\ agent.requests = counts.total
  /\ \A l \in Layers : counts.layer[l] = Cardinality({r \in Answered : seen[r].layer = l})
  /\ counts.deflected + counts.layer["l3"] + counts.layer["miss"] = counts.total
  /\ Waiting = {} =>
       /\ agent.event["l1a_hit"] = counts.layer["l1a"]
       /\ agent.event["l1b_hit"] = counts.layer["l1b"]
       /\ agent.event["l1_hit"] = counts.layer["l1a"] + counts.layer["l1b"]
       /\ agent.event["l1_hit"] + agent.event["l1_miss"] <=
            agent.requests + Cardinality({r \in Requests : seen[r].pc = "dropped"})
  /\ agent.retries <= agent.errors
  /\ health.pc = "told" =>
       health.total <= health.deflected + (counts.total - counts.deflected)
=============================================================================
