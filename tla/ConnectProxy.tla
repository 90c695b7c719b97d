---------------------------- MODULE ConnectProxy ----------------------------
(***************************************************************************)
(* The CONNECT proxy: it terminates TLS for the domains of AI clients,     *)
(* passes chat requests through its own copy of the deflection stack (exact *)
(* cache, semantic cache, SLM, native upstream), stores what comes back in *)
(* the caches it shares with the gateway, and keeps a ring of decisions.   *)
(*                                                                         *)
(* A step is the code between two awaits.  Every connection has a task of  *)
(* its own that no disconnect cancels: a client that has left is noticed   *)
(* when the answer is written.  The gateway is represented by its writes   *)
(* to the shared caches.                                                   *)
(***************************************************************************)
EXTENDS Naturals, Sequences, FiniteSets, LruCache, SemanticStore, CacheKeys

CONSTANTS
  Connections,       \* connection identities; each is used once
  Inputs,            \* what they carry: CacheKeys records with a `kind`
  CacheMode, ExactCapacity, VectorCapacity, EnableSlm, OfflineMode,
  LogCapacity,       \* RECENT_PROXY_DECISIONS_CAPACITY
  MaxTime            \* bound on the clock

(* kind: "bad" is not a CONNECT request; "tunnel" has a host that is not   *)
(* intercepted; "pass" is another method or path of an intercepted host;   *)
(* "empty" is a chat request without a prompt, "chat" one with a prompt;   *)
(* "gateway" is a request the gateway answers and captures.                *)
Kinds == {"bad", "tunnel", "pass", "empty", "chat", "gateway"}

\* "none" names no connection.
ASSUME NoneAssumption == "none" \notin Connections

ASSUME ProxyInputsAssumption ==
  \A q \in Inputs :
    /\ q.kind \in Kinds
    /\ q.route \in ChatRoutes /\ q.scope = NoScope /\ q.form = "messages"
    /\ q.sys \in {"none", "text", "blocks"} /\ (q.sys = "none" <=> q.ctx = NoContext)
    /\ q.kind # "gateway" => q.route \in {"openai", "anthropic"}

ASSUME ProxyBoundsAssumption ==
  /\ CacheMode \in {"exact", "semantic", "both"}
  /\ ExactCapacity \in Nat \ {0} /\ VectorCapacity \in Nat \ {0}
  /\ LogCapacity \in Nat \ {0} /\ MaxTime \in Nat /\ Ttl \in Nat
  /\ {EnableSlm, OfflineMode} \subseteq BOOLEAN

VARIABLES
  pc,         \* where each connection is
  in,         \* what it carries
  vec,        \* whether it holds an embedding
  reply,      \* the answer to be written
  exact, vectors, inserts,   \* the caches shared with the gateway
  now,        \* the clock
  log         \* RECENT_PROXY_DECISIONS, newest first

caches == <<exact, vectors, inserts>>
vars == <<pc, in, vec, reply, exact, vectors, inserts, now, log>>

Answers == [origin : Connections, by : {"slm", "upstream", "gateway", "error"}]
NoBody  == [origin |-> "none", by |-> "none"]
NoReply == [status |-> 0, layer |-> "none", body |-> NoBody]
Response(status, layer, c, by) ==
  [status |-> status, layer |-> layer, body |-> [origin |-> c, by |-> by]]
\* Whatever is in a cache is answered with status 200.
Served(layer, answer) == [status |-> 200, layer |-> layer, body |-> answer]

UsesExact == CacheMode \in {"exact", "both"}
UsesVectors == CacheMode \in {"semantic", "both"}
ByGateway(c) == in[c].kind = "gateway"
Intercepted(c) == in[c].kind \in {"chat", "empty"}

\* Mutant: one namespace for all endpoints.
MutantProxyKey(q) ==
  [ns |-> "native", scope |-> NoScope,
   material |-> [Material(q) EXCEPT !.model = q.model]]

\* The proxy keys on the body as it is: no alias is resolved, no session used.
ProxyKey(q) ==
  [ns |-> CacheNs(q), scope |-> NoScope,
   material |-> [Material(q) EXCEPT !.model = q.model]]

KeyOf(c) == IF ByGateway(c) THEN ExactKey(in[c]) ELSE ProxyKey(in[c])

\* The proxy embeds the whole prompt, instructions included, without a
\* namespace; the gateway embeds namespace, model and last user message.
TextOf(q) ==
  IF q.kind = "gateway"
    THEN [surface |-> CacheNs(q), model |-> ResolvedModel(q),
          ctx |-> NoContext, question |-> q.question]
    ELSE [surface |-> "proxy", model |-> NoModel,
          ctx |-> Material(q).ctx, question |-> q.question]

Goto(c, label) == pc' = [pc EXCEPT ![c] = label]
Answer(c, response) == reply' = [reply EXCEPT ![c] = response]
Store(c, answer) ==
  IF UsesExact THEN exact' = Put(exact, KeyOf(c), answer, ExactCapacity)
               ELSE UNCHANGED exact

Init ==
  /\ pc = [c \in Connections |-> "idle"]
  /\ in \in [Connections -> Inputs]
  /\ vec = [c \in Connections |-> FALSE]
  /\ reply = [c \in Connections |-> NoReply]
  /\ exact = <<>> /\ vectors = {} /\ inserts = 0 /\ now = 0 /\ log = <<>>

-----------------------------------------------------------------------------
(* The connection and its request.                                         *)

\* Where a request goes that has been read.
Entry(c) ==
  CASE in[c].kind = "tunnel"           -> "tunnel"
    [] in[c].kind \in {"pass", "empty"} -> "forward"
    [] in[c].kind = "chat"             -> "lookup"

Connect(c) ==
  /\ pc[c] = "idle" /\ in[c].kind \notin {"bad", "gateway"}
  /\ Goto(c, Entry(c))
  /\ UNCHANGED <<in, vec, reply, caches, now, log>>

\* Not a CONNECT request: 400.
Reject(c) ==
  /\ pc[c] = "idle" /\ in[c].kind = "bad"
  /\ Answer(c, Response(400, "none", c, "error"))
  /\ Goto(c, "deliver")
  /\ UNCHANGED <<in, vec, caches, now, log>>

\* The handshake fails or the client leaves before its request is read.
Abandon(c) ==
  /\ pc[c] = "idle" /\ in[c].kind # "gateway"
  /\ Goto(c, "aborted")
  /\ UNCHANGED <<in, vec, reply, caches, now, log>>

-----------------------------------------------------------------------------
(* resolve_intercepted_request.                                            *)

ExactHit(c) ==
  /\ pc[c] = "lookup" /\ UsesExact
  /\ Cached(exact, ProxyKey(in[c]))
  /\ Answer(c, Served("l1a", CachedValue(exact, ProxyKey(in[c]))))
  /\ exact' = Promote(exact, ProxyKey(in[c]))
  /\ Goto(c, "deliver")
  /\ UNCHANGED <<in, vec, vectors, inserts, now, log>>

\* The embedding is made on the spot and may fail.
ExactMiss(c) ==
  /\ pc[c] = "lookup"
  /\ UsesExact => ~Cached(exact, ProxyKey(in[c]))
  /\ \/ /\ UsesVectors /\ SemanticCacheEnabled(in[c])
        /\ vec' = [vec EXCEPT ![c] = TRUE]
        /\ Goto(c, "search")
     \/ UNCHANGED vec /\ Goto(c, "slm")
  /\ UNCHANGED <<in, reply, caches, now, log>>

Match(c) == BestMatch(vectors, TextOf(in[c]), NoScope, now)

SemanticHit(c) ==
  /\ pc[c] = "search"
  /\ \E e \in Match(c) : Answer(c, Served("l1b", e.answer))
  /\ Goto(c, "deliver")
  /\ UNCHANGED <<in, vec, caches, now, log>>

SemanticMiss(c) ==
  /\ pc[c] = "search" /\ Match(c) = {}
  /\ Goto(c, "slm")
  /\ UNCHANGED <<in, vec, reply, caches, now, log>>

\* Mutant: the answer of the SLM is not stored.
MutantSlmAnswer(c) ==
  /\ pc[c] = "slm" /\ EnableSlm
  /\ Answer(c, Response(200, "l2", c, "slm"))
  /\ Goto(c, "deliver")
  /\ UNCHANGED <<in, vec, caches, now, log>>

\* The SLM deflects the request and its answer passes the quality guard.
SlmAnswer(c) ==
  /\ pc[c] = "slm" /\ EnableSlm
  /\ Answer(c, Response(200, "l2", c, "slm"))
  /\ Store(c, [origin |-> c, by |-> "slm"])
  /\ Goto(c, IF vec[c] THEN "insert" ELSE "deliver")
  /\ UNCHANGED <<in, vec, vectors, inserts, now, log>>

\* Mutant: the answer of the SLM is stored before the quality guard declines it.
MutantSlmDeclines(c) ==
  /\ pc[c] = "slm"
  /\ Store(c, [origin |-> c, by |-> "slm"])
  /\ Goto(c, "forward")
  /\ UNCHANGED <<in, vec, reply, vectors, inserts, now, log>>

\* No local answer: blocked in offline mode, else to the native upstream.
SlmDeclines(c) ==
  /\ pc[c] = "slm"
  /\ IF OfflineMode
       THEN /\ Answer(c, Response(503, "blocked", c, "error"))
            /\ Goto(c, "deliver")
       ELSE Goto(c, "forward") /\ UNCHANGED reply
  /\ UNCHANGED <<in, vec, caches, now, log>>

\* Mutant: off by one at the capacity.
MutantRecord(c, status) ==
  LET longer == <<[conn |-> c, status |-> status]>> \o log
  IN  IF Len(longer) > LogCapacity + 1 THEN SubSeq(longer, 1, LogCapacity) ELSE longer

\* record_proxy_decision: push_front, then pop_back while there are too many.
Record(c, status) ==
  LET longer == <<[conn |-> c, status |-> status]>> \o log
  IN  IF Len(longer) > LogCapacity THEN SubSeq(longer, 1, LogCapacity) ELSE longer

-----------------------------------------------------------------------------
(* forward_to_upstream and cache_response.                                 *)

\* Mutant: everything that is forwarded is cached.
MutantUpstreamAnswers(c) ==
  /\ pc[c] = "forward"
  /\ \E by \in {"upstream", "error"} :
       /\ Answer(c, Response(IF by = "error" THEN 500 ELSE 200, "l3", c, by))
       /\ Store(c, [origin |-> c, by |-> by])
  /\ Goto(c, "deliver")
  /\ log' = IF Intercepted(c) THEN Record(c, reply'[c].status) ELSE log
  /\ UNCHANGED <<in, vec, vectors, inserts, now>>

\* Any status is cached; semantic caching is not asked about; a prompt that
\* is empty is not cached, nor is what is only passed through.  The decision is
\* recorded after the caches are written and before the client is.
UpstreamAnswers(c) ==
  /\ pc[c] = "forward"
  /\ \E by \in {"upstream", "error"} :
       /\ Answer(c, Response(IF by = "error" THEN 500 ELSE 200, "l3", c, by))
       /\ IF in[c].kind = "chat" THEN Store(c, [origin |-> c, by |-> by])
                                 ELSE UNCHANGED exact
  /\ \/ /\ in[c].kind = "chat" /\ UsesVectors
        /\ vec' = [vec EXCEPT ![c] = TRUE]
        /\ Goto(c, "insert")
        /\ UNCHANGED log
     \/ /\ UNCHANGED vec
        /\ Goto(c, "deliver")
        /\ log' = IF Intercepted(c) THEN Record(c, reply'[c].status) ELSE log
  /\ UNCHANGED <<in, vectors, inserts, now>>

\* A network error ends the task without an answer.
UpstreamFails(c) ==
  /\ pc[c] \in {"forward", "tunnel"}
  /\ Goto(c, "aborted")
  /\ UNCHANGED <<in, vec, reply, caches, now, log>>

TunnelCloses(c) ==
  /\ pc[c] = "tunnel"
  /\ Goto(c, "done")
  /\ UNCHANGED <<in, vec, reply, caches, now, log>>

NewEntry(c) ==
  [input |-> TextOf(in[c]), answer |-> reply[c].body, scope |-> NoScope,
   created |-> now, slot |-> inserts]

InsertVector(c) ==
  /\ pc[c] = "insert"
  /\ vectors' = Insert(vectors, NewEntry(c), now, VectorCapacity)
  /\ inserts' = inserts + 1
  /\ Goto(c, IF ByGateway(c) THEN "done" ELSE "deliver")
  /\ log' = IF reply[c].layer = "l3" THEN Record(c, reply[c].status) ELSE log
  /\ UNCHANGED <<in, vec, reply, exact, now>>

-----------------------------------------------------------------------------
(* Writing the answer; a decision not yet recorded is recorded after that. *)

Deliver(c) ==
  /\ pc[c] = "deliver"
  /\ log' = IF Intercepted(c) /\ reply[c].layer # "l3"
              THEN Record(c, reply[c].status) ELSE log
  /\ Goto(c, "done")
  /\ UNCHANGED <<in, vec, reply, caches, now>>

\* The client has left: a decision that is recorded after the write never is.
WriteFails(c) ==
  /\ pc[c] = "deliver"
  /\ Goto(c, "aborted")
  /\ UNCHANGED <<in, vec, reply, caches, now, log>>

-----------------------------------------------------------------------------
\* The gateway captures an answer of its own to the same caches.
GatewayStore(c) ==
  /\ pc[c] = "idle" /\ ByGateway(c)
  /\ Answer(c, Response(200, "gateway", c, "gateway"))
  /\ Store(c, [origin |-> c, by |-> "gateway"])
  /\ \/ /\ UsesVectors /\ SemanticCacheEnabled(in[c])
        /\ vec' = [vec EXCEPT ![c] = TRUE] /\ Goto(c, "insert")
     \/ UNCHANGED vec /\ Goto(c, "done")
  /\ UNCHANGED <<in, vectors, inserts, now, log>>

Tick ==
  /\ now < MaxTime
  /\ now' = now + 1
  /\ UNCHANGED <<pc, in, vec, reply, caches, log>>

\* The steps of a task that wait for nothing outside the process.
LocalStep(c) ==
  \/ ExactHit(c) \/ ExactMiss(c) \/ SemanticHit(c) \/ SemanticMiss(c)
  \/ SlmAnswer(c) \/ SlmDeclines(c) \/ InsertVector(c)

\* The steps that wait for a client or an upstream.
OtherStep(c) ==
  \/ Connect(c) \/ Reject(c) \/ Abandon(c) \/ GatewayStore(c)
  \/ UpstreamAnswers(c) \/ UpstreamFails(c) \/ TunnelCloses(c)
  \/ Deliver(c) \/ WriteFails(c)

Quiescent ==
  /\ \A c \in Connections : pc[c] \in {"done", "aborted"}
  /\ UNCHANGED vars

Next ==
  \/ \E c \in Connections : LocalStep(c) \/ OtherStep(c)
  \/ Tick
  \/ Quiescent

Spec == Init /\ [][Next]_vars
-----------------------------------------------------------------------------
(* Properties.                                                             *)

PCs == {"idle", "lookup", "search", "slm", "insert", "forward", "tunnel",
        "deliver", "done", "aborted"}
Replies ==
  {NoReply} \cup
  [status : {200, 400, 500, 503},
   layer : {"none", "l1a", "l1b", "l2", "l3", "blocked", "gateway"}, body : Answers]
Keys == {ExactKey(q) : q \in Inputs} \cup {ProxyKey(q) : q \in Inputs}

ExactEntries == [key : Keys, val : Answers]
VectorEntries ==
  [input : {TextOf(q) : q \in Inputs}, answer : Answers, scope : {NoScope},
   created : 0 .. MaxTime, slot : Nat]
Statuses == {0, 200, 400, 500, 503}
Decisions == [conn : Connections, status : Statuses]

\* Every variable holds a value of its type, and the exact cache never
\* outgrows its capacity.
TypeOK ==
  /\ pc \in [Connections -> PCs]
  /\ in \in [Connections -> Inputs]
  /\ vec \in [Connections -> BOOLEAN]
  /\ reply \in [Connections -> Replies]
  /\ exact \in Seq(ExactEntries) /\ Len(exact) <= ExactCapacity
  /\ vectors \subseteq VectorEntries
  /\ inserts \in Nat /\ now \in 0 .. MaxTime
  /\ log \in Seq(Decisions)

\* The model a request is answered with: the gateway resolves aliases.
ModelOf(q) == IF q.kind = "gateway" THEN ResolvedModel(q) ELSE q.model

\* p and q ask the same of the same model through endpoints of one format.
SameRequest(p, q) ==
  /\ CacheNs(p) = CacheNs(q)
  /\ p.question = q.question /\ p.tooling = q.tooling
  /\ "text" \in {p.sys, q.sys} => p.ctx = q.ctx
  /\ ModelOf(p) = ModelOf(q)

\* x is an answer connection c may be given.
Justified(c, x) ==
  LET o == x.body.origin IN
    /\ x.layer = "l1a" => SameRequest(in[c], in[o])
    /\ x.layer = "l1b" => Score(TextOf(in[c]), TextOf(in[o])) >= Threshold
    /\ x.layer \notin {"l1a", "l1b"} => o \in {c, "none"}

\* Whatever the gateway and other connections have stored meanwhile, an exact
\* hit answers with what was produced for the same request, a semantic hit
\* with what was produced for a text similar to its own (one hop: hits are not
\* stored again), and every other answer is its own.
AnswersJustified == \A c \in Connections : Justified(c, reply[c])

\* p may be given what was produced for q.
MayShare(p, q) ==
  SameRequest(p, q) \/ Score(TextOf(p), TextOf(q)) >= Threshold

GivenTo(c) ==
  IF reply[c].status = 0 THEN [state |-> "waiting", from |-> "none"]
  ELSE IF reply[c].status \in {400, 503} THEN [state |-> "refused", from |-> "none"]
  ELSE [state |-> "answered", from |-> reply[c].body.origin]

KeptAnswers == {a.origin : a \in Values(exact) \cup {e.answer : e \in vectors}}

Promised ==
  INSTANCE Deflection WITH
    Requests <- Connections,
    given <- [c \in Connections |-> GivenTo(c)],
    kept  <- KeptAnswers

\* The proxy's copy of the stack, beside a gateway that writes to the same
\* caches, keeps the promise of a deflection stack: every answer is the
\* connection's own or one a cache held when it was given.
ImplementsDeflection == Promised!Spec

\* Only what the caches justify is kept: an entry of either cache belongs to
\* the key or text of the connection that produced it, and nothing is stored
\* that was merely passed through or had no prompt.
StoredForOwner ==
  /\ \A i \in DOMAIN exact : exact[i].key = KeyOf(exact[i].val.origin)
  /\ \A e \in vectors : e.input = TextOf(in[e.answer.origin])
  /\ \A i \in DOMAIN exact : in[exact[i].val.origin].kind \in {"chat", "gateway"}

\* The ring keeps the most recent decisions: never more than its capacity,
\* never one connection twice, and none is missing before the ring is full.
DecisionsOnce ==
  /\ Len(log) <= LogCapacity
  /\ \A i, j \in DOMAIN log : log[i].conn = log[j].conn => i = j
  /\ Len(log) < LogCapacity =>
       \A c \in Connections : Intercepted(c) /\ pc[c] = "done" =>
         \E i \in DOMAIN log : log[i] = [conn |-> c, status |-> reply[c].status]

\* What was answered once is found again, whether or not its client was still
\* there: the key it was stored under is the one a repeat is looked up with,
\* also when the gateway resolved an alias; only a full cache forgets.
AnsweredIsKept ==
  UsesExact =>
    \A c \in Connections :
      /\ in[c].kind \in {"chat", "gateway"}
      /\ reply[c].layer \in {"l2", "l3", "gateway"}
      => Cached(exact, KeyOf(c)) \/ Len(exact) = ExactCapacity
=============================================================================
