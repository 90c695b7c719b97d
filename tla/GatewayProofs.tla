--------------------------- MODULE GatewayProofs ----------------------------
(***************************************************************************)
(* Proofs about Gateway, for every set of requests and inputs, every       *)
(* capacity, similarity score, retry bound and configuration.              *)
(***************************************************************************)
EXTENDS Gateway, CacheLemmas, TLAPS

-----------------------------------------------------------------------------
(* Types.                                                                  *)

\* The shapes of response the handlers build.
LEMMA ReplyTypes ==
  /\ \A status \in {200, 400, 502, 503}, layer \in {"none", "l2", "l3", "mcp"},
        r \in Requests, by \in {"slm", "cloud", "mcp", "error"} :
       Response(status, layer, r, by) \in Replies
  /\ \A layer \in {"l1a", "l1b", "l3"}, answer \in Answers :
       Served(layer, answer) \in Replies
  /\ NotFound \in Replies
  <1>1. ASSUME NEW status \in {200, 400, 502, 503},
               NEW layer \in {"none", "l2", "l3", "mcp"}, NEW r \in Requests,
               NEW by \in {"slm", "cloud", "mcp", "error"}
        PROVE  Response(status, layer, r, by) \in Replies
    <2>1. [origin |-> r, by |-> by] \in Answers
      BY DEF Answers
    <2> QED BY <2>1 DEF Replies, Response
  <1>2. ASSUME NEW layer \in {"l1a", "l1b", "l3"}, NEW answer \in Answers
        PROVE  Served(layer, answer) \in Replies
    BY DEF Replies, Served
  <1>3. NotFound \in Replies
    BY DEF Replies
  <1> QED BY <1>1, <1>2, <1>3

\* A response of status 200 carries an answer.
LEMMA ReplyBody ==
  ASSUME NEW x \in Replies, x.status = 200
  PROVE  x.body \in Answers
  BY DEF Replies, NoReply, NotFound

LEMMA InputTypes ==
  ASSUME NEW q \in Inputs
  PROVE  q.scope \in Scopes /\ q.ctx \in Contexts
  BY DEF Scopes, Contexts

\* The request has not reached the cloud.
BeforeCloud ==
  {"idle", "exact", "embed", "search", "classify", "slm", "optimize", "dispatch"}

\* What keeps the attempt counter in its range: it is 0 until the first call
\* and below the bound whenever another call is due.
AttemptsOK ==
  \A r \in Requests : /\ pc[r] \in BeforeCloud => attempts[r] = 0
                      /\ pc[r] = "backoff" => attempts[r] < MaxAttempts

\* Only an answer of status 200 is ever on its way into the vector cache.
StatusOK ==
  \A r \in Requests : pc[r] \in {"insert", "store_embed"} => reply[r].status = 200

TypeInv == TypeOK /\ AttemptsOK /\ StatusOK

LEMMA TypeInit == Init => TypeInv
  <1> SUFFICES ASSUME Init PROVE TypeInv
    OBVIOUS
  <1> USE BoundsAssumption DEF Init
  <1>1. exact \in Seq(ExactEntries)
    OBVIOUS
  <1>2. reply \in [Requests -> Replies]
    BY DEF Replies
  <1>3. seen \in [Scopes \ {NoScope} -> Contexts]
    BY DEF Contexts
  <1>4. pc \in [Requests -> PCs]
    BY DEF PCs
  <1>5. TypeOK
    BY <1>1, <1>2, <1>3, <1>4 DEF TypeOK
  <1>6. AttemptsOK
    BY DEF AttemptsOK
  <1>7. StatusOK
    BY DEF StatusOK
  <1> QED BY <1>5, <1>6, <1>7 DEF TypeInv

\* A step of a request changes its own control state and reply only.
LEMMA OwnStep ==
  ASSUME TypeOK, NEW r \in Requests, Arrive(r) \/ Step(r) \/ Cancel(r)
  PROVE  /\ in' = in
         /\ \E l \in PCs : pc' = [pc EXCEPT ![r] = l]
         /\ reply' = reply \/ \E x : reply' = [reply EXCEPT ![r] = x]
  <1> USE DEF Goto, Answer, PCs
  <1>1. CASE Arrive(r)
    BY <1>1 DEF Arrive
  <1>2. CASE ExactHit(r)
    BY <1>2 DEF ExactHit
  <1>3. CASE ExactMiss(r)
    BY <1>3 DEF ExactMiss, LeaveCaches
  <1>4. CASE Embed(r)
    BY <1>4 DEF Embed, LeaveCaches
  <1>5. CASE SemanticHit(r)
    BY <1>5 DEF SemanticHit
  <1>6. CASE SemanticMiss(r)
    BY <1>6 DEF SemanticMiss, LeaveCaches
  <1>7. CASE Deflectable(r) \/ FallThrough(r)
    BY <1>7 DEF Deflectable, FallThrough
  <1>8. CASE SlmAnswer(r)
    BY <1>8 DEF SlmAnswer
  <1>9. CASE Optimize(r)
    BY <1>9 DEF Optimize
  <1>10. CASE Refuse(r)
    BY <1>10 DEF Refuse
  <1>11. CASE CallUpstream(r) \/ UpstreamRetryable(r) \/ UpstreamFailed(r)
    BY <1>11 DEF CallUpstream, UpstreamRetryable, UpstreamFailed
  <1>12. CASE UpstreamOk(r)
    BY <1>12 DEF UpstreamOk
  <1>13. CASE StaleFallback(r) \/ BadGateway(r)
    BY <1>13 DEF StaleFallback, BadGateway
  <1>14. CASE Capture(r) \/ InsertVector(r)
    BY <1>14 DEF Capture, InsertVector
  <1>15. CASE McpStore(r)
    BY <1>15 DEF McpStore
  <1>16. CASE McpEmbed(r)
    BY <1>16 DEF McpEmbed
  <1>17. CASE Cancel(r)
    BY <1>17 DEF Cancel
  <1> QED BY <1>1, <1>2, <1>3, <1>4, <1>5, <1>6, <1>7, <1>8, <1>9, <1>10, <1>11, <1>12, <1>13, <1>14, <1>15, <1>16, <1>17 DEF Step

\* Every step of a request answers it, if at all, with a response of its type.
LEMMA ReplyStep ==
  ASSUME TypeOK, NEW r \in Requests, Arrive(r) \/ Step(r) \/ Cancel(r)
  PROVE  reply' \in [Requests -> Replies]
  <1>0. reply \in [Requests -> Replies] /\ exact \in Seq(ExactEntries)
        /\ vectors \subseteq VectorEntries
    BY DEF TypeOK
  <1>1. CASE ExactHit(r)
    <2> DEFINE key == ExactKey(in[r])
    <2>0. Cached(exact, key)
      BY <1>1 DEF ExactHit
    <2>1. PICK e \in ExactEntries : e.val = CachedValue(exact, key)
      BY <1>0, <2>0, HitReturnsEntry
    <2>2. CachedValue(exact, key) \in Answers
      BY <2>1 DEF ExactEntries
    <2> QED BY <1>0, <1>1, <2>2, ReplyTypes DEF ExactHit, Answer
  <1>2. CASE ExactMiss(r) \/ Embed(r) \/ SemanticMiss(r)
    <2>1. reply' = reply \/ reply' = [reply EXCEPT ![r] = NotFound]
      BY <1>2 DEF ExactMiss, Embed, SemanticMiss, LeaveCaches, Answer
    <2> QED BY <1>0, <2>1, ReplyTypes
  <1>3. CASE SemanticHit(r)
    <2>1. Match(r) \subseteq vectors
      BY DEF Match, BestMatch, Candidates, Live
    <2>2. \A e \in Match(r) : e.answer \in Answers
      BY <1>0, <2>1 DEF VectorEntries
    <2> QED BY <1>0, <1>3, <2>2, ReplyTypes DEF SemanticHit, Answer
  <1>4. CASE SlmAnswer(r)
    BY <1>0, <1>4, ReplyTypes DEF SlmAnswer, Answer
  <1>5. CASE Refuse(r) \/ BadGateway(r)
    <2>1. \E status \in {400, 502, 503}, layer \in {"none", "l3"} :
            reply' = [reply EXCEPT ![r] = Response(status, layer, r, "error")]
      BY <1>5 DEF Refuse, BadGateway, Answer
    <2> QED BY <1>0, <2>1, ReplyTypes
  <1>6. CASE UpstreamOk(r)
    BY <1>0, <1>6, ReplyTypes DEF UpstreamOk, Answer
  <1>7. CASE StaleFallback(r)
    <2> DEFINE key == ExactKey(in[r])
    <2>0. Cached(exact, key)
      BY <1>7 DEF StaleFallback, FallbackFinds
    <2>1. PICK e \in ExactEntries : e.val = CachedValue(exact, key)
      BY <1>0, <2>0, HitReturnsEntry
    <2>2. CachedValue(exact, key) \in Answers
      BY <2>1 DEF ExactEntries
    <2> QED BY <1>0, <1>7, <2>2, ReplyTypes DEF StaleFallback, Answer
  <1>8. CASE McpStore(r)
    BY <1>0, <1>8, ReplyTypes DEF McpStore, Answer
  <1>9. CASE \/ Arrive(r) \/ Deflectable(r) \/ FallThrough(r) \/ Optimize(r)
             \/ CallUpstream(r) \/ UpstreamRetryable(r) \/ UpstreamFailed(r)
             \/ Capture(r) \/ InsertVector(r) \/ McpEmbed(r) \/ Cancel(r)
    <2>1. reply' = reply
      BY <1>9 DEF Arrive, Deflectable, FallThrough, Optimize, CallUpstream,
           UpstreamRetryable, UpstreamFailed, Capture, InsertVector, McpEmbed, Cancel
    <2> QED BY <1>0, <2>1
  <1> QED BY <1>1, <1>2, <1>3, <1>4, <1>5, <1>6, <1>7, <1>8, <1>9 DEF Step

\* Every step of a request leaves the caches holding entries of their types.
LEMMA CachesStep ==
  ASSUME TypeOK, StatusOK, NEW r \in Requests, Arrive(r) \/ Step(r) \/ Cancel(r)
  PROVE  exact' \in Seq(ExactEntries) /\ vectors' \subseteq VectorEntries /\ inserts' \in Nat
  <1> DEFINE key == ExactKey(in[r])
  <1>0. /\ in[r] \in Inputs /\ reply[r] \in Replies /\ exact \in Seq(ExactEntries)
        /\ vectors \subseteq VectorEntries /\ inserts \in Nat /\ now \in 0 .. MaxTime
    BY DEF TypeOK
  <1>1. CASE ExactHit(r) \/ StaleFallback(r)
    <2>1. Cached(exact, key) /\ exact' = Promote(exact, key)
          /\ vectors' = vectors /\ inserts' = inserts
      BY <1>1 DEF ExactHit, StaleFallback, FallbackFinds
    <2>2. Promote(exact, key) \in Seq(ExactEntries)
      BY <1>0, <2>1, HitReturnsEntry
    <2> QED BY <1>0, <2>1, <2>2
  <1>2. CASE Capture(r)
    <2>1. vectors' = vectors /\ inserts' = inserts
      BY <1>2 DEF Capture
    <2>2. CASE reply[r].status = 200
      <3>1. [key |-> key, val |-> reply[r].body] \in ExactEntries
        BY <1>0, <2>2, ReplyBody DEF ExactEntries
      <3>2. Put(exact, key, reply[r].body, ExactCapacity) \in Seq(ExactEntries)
        BY <1>0, <3>1, PutType, BoundsAssumption
      <3> QED BY <1>0, <1>2, <2>1, <3>2 DEF Capture, StoreExact
    <2>3. CASE reply[r].status # 200
      BY <1>0, <1>2, <2>1, <2>3 DEF Capture
    <2> QED BY <2>2, <2>3
  <1>3. CASE McpStore(r)
    <2> DEFINE answer == [origin |-> r, by |-> "mcp"]
    <2>1. vectors' = vectors /\ inserts' = inserts
          /\ exact' = Put(exact, key, answer, ExactCapacity)
      BY <1>3 DEF McpStore, StoreExact
    <2>2. [key |-> key, val |-> answer] \in ExactEntries
      BY <1>0 DEF ExactEntries, Answers
    <2>3. exact' \in Seq(ExactEntries)
      BY <1>0, <2>1, <2>2, PutType, BoundsAssumption
    <2> QED BY <1>0, <2>1, <2>3
  <1>4. CASE InsertVector(r)
    <2>1. vectors' \subseteq vectors \cup {NewEntry(r)}
      BY <1>4, InsertKeeps DEF InsertVector
    <2>2. reply[r].body \in Answers
      BY <1>0, <1>4, ReplyBody DEF InsertVector, StatusOK
    <2>3. NewEntry(r) \in VectorEntries
      BY <1>0, <2>2, InputTypes DEF NewEntry, VectorEntries
    <2> QED BY <1>0, <1>4, <2>1, <2>3 DEF InsertVector
  <1>5. CASE \/ Arrive(r) \/ ExactMiss(r) \/ Embed(r) \/ SemanticHit(r)
             \/ SemanticMiss(r) \/ Deflectable(r) \/ SlmAnswer(r) \/ FallThrough(r)
             \/ Optimize(r) \/ Refuse(r) \/ CallUpstream(r) \/ UpstreamOk(r)
             \/ UpstreamRetryable(r) \/ UpstreamFailed(r) \/ BadGateway(r)
             \/ McpEmbed(r) \/ Cancel(r)
    <2>1. UNCHANGED caches
      BY <1>5 DEF Arrive, ExactMiss, Embed, SemanticHit, SemanticMiss, Deflectable,
           SlmAnswer, FallThrough, Optimize, Refuse, CallUpstream, UpstreamOk,
           UpstreamRetryable, UpstreamFailed, BadGateway, McpEmbed, Cancel
    <2> QED BY <1>0, <2>1 DEF caches
  <1> QED BY <1>1, <1>2, <1>3, <1>4, <1>5 DEF Step

\* Every step of a request keeps what is recorded about it and about its session.
LEMMA RecordsStep ==
  ASSUME TypeOK, AttemptsOK, NEW r \in Requests, Arrive(r) \/ Step(r) \/ Cancel(r)
  PROVE  /\ attempts' \in [Requests -> 0 .. MaxAttempts]
         /\ sent' \in [Requests -> {"asis", "crunched", "ref"}]
         /\ vec' \in [Requests -> BOOLEAN]
         /\ outcome' \in [Requests -> {"none", "ok", "failed"}]
         /\ seen' \in [Scopes \ {NoScope} -> Contexts]
         /\ delivered' \in SUBSET (Scopes \X Contexts)
         /\ health' \in [requests : Nat, errors : Nat]
         /\ now' \in 0 .. MaxTime
  <1>0. /\ attempts \in [Requests -> 0 .. MaxAttempts]
        /\ sent \in [Requests -> {"asis", "crunched", "ref"}]
        /\ vec \in [Requests -> BOOLEAN]
        /\ outcome \in [Requests -> {"none", "ok", "failed"}]
        /\ seen \in [Scopes \ {NoScope} -> Contexts]
        /\ delivered \in SUBSET (Scopes \X Contexts)
        /\ health \in [requests : Nat, errors : Nat]
        /\ now \in 0 .. MaxTime
        /\ in[r].scope \in Scopes /\ in[r].ctx \in Contexts
    BY InputTypes DEF TypeOK
  <1>1. CASE Embed(r)
    BY <1>0, <1>1 DEF Embed
  <1>2. CASE McpEmbed(r)
    BY <1>0, <1>2 DEF McpEmbed
  <1>3. CASE Optimize(r)
    BY <1>0, <1>3 DEF Optimize
  <1>4. CASE CallUpstream(r)
    <2>1. attempts[r] < MaxAttempts
      BY <1>4, BoundsAssumption DEF CallUpstream, AttemptsOK, BeforeCloud
    <2>2. attempts' \in [Requests -> 0 .. MaxAttempts]
      BY <1>0, <1>4, <2>1, BoundsAssumption DEF CallUpstream
    <2> QED BY <1>0, <1>4, <2>2 DEF CallUpstream
  <1>5. CASE UpstreamOk(r)
    BY <1>0, <1>5 DEF UpstreamOk
  <1>6. CASE UpstreamFailed(r)
    BY <1>0, <1>6 DEF UpstreamFailed
  <1>7. CASE \/ Arrive(r) \/ ExactHit(r) \/ ExactMiss(r) \/ SemanticHit(r)
             \/ SemanticMiss(r) \/ Deflectable(r) \/ SlmAnswer(r) \/ FallThrough(r)
             \/ Refuse(r) \/ UpstreamRetryable(r) \/ StaleFallback(r)
             \/ BadGateway(r) \/ Capture(r) \/ InsertVector(r) \/ McpStore(r)
             \/ Cancel(r)
    <2>1. UNCHANGED <<attempts, sent, vec, outcome, seen, delivered, health, now>>
      BY <1>7 DEF Arrive, ExactHit, ExactMiss, SemanticHit, SemanticMiss,
           Deflectable, SlmAnswer, FallThrough, Refuse, UpstreamRetryable,
           StaleFallback, BadGateway, Capture, InsertVector, McpStore, Cancel
    <2> QED BY <1>0, <2>1
  <1> QED BY <1>1, <1>2, <1>3, <1>4, <1>5, <1>6, <1>7 DEF Step

\* The attempt counter and the status follow the program counter.
LEMMA ControlStep ==
  ASSUME TypeInv, NEW r \in Requests, Arrive(r) \/ Step(r) \/ Cancel(r)
  PROVE  AttemptsOK' /\ StatusOK'
  <1>0. /\ pc \in [Requests -> PCs] /\ reply \in [Requests -> Replies]
        /\ attempts \in [Requests -> 0 .. MaxAttempts] /\ AttemptsOK /\ StatusOK
    BY DEF TypeInv, TypeOK
  <1>1. ASSUME NEW s \in Requests, s # r
        PROVE  pc'[s] = pc[s] /\ reply'[s] = reply[s]
    BY <1>0, <1>1, OwnStep DEF TypeInv, TypeOK
  <1>2. /\ attempts' = attempts \/ attempts' = [attempts EXCEPT ![r] = @ + 1]
        /\ pc'[r] \in BeforeCloud => pc[r] \in BeforeCloud /\ attempts' = attempts
        /\ pc'[r] = "backoff" => attempts[r] < MaxAttempts /\ attempts' = attempts
        /\ pc'[r] \in {"insert", "store_embed"} => reply'[r].status = 200
    <2> USE <1>0 DEF Goto, BeforeCloud
    <2>1. CASE Arrive(r)
      BY <2>1 DEF Arrive
    <2>2. CASE ExactHit(r) \/ SemanticHit(r)
      BY <2>2 DEF ExactHit, SemanticHit
    <2>3. CASE ExactMiss(r)
      BY <2>3 DEF ExactMiss, LeaveCaches
    <2>4. CASE Embed(r)
      BY <2>4 DEF Embed, LeaveCaches
    <2>5. CASE SemanticMiss(r)
      BY <2>5 DEF SemanticMiss, LeaveCaches
    <2>6. CASE Deflectable(r) \/ SlmAnswer(r) \/ FallThrough(r)
      BY <2>6 DEF Deflectable, SlmAnswer, FallThrough
    <2>7. CASE Optimize(r)
      BY <2>7 DEF Optimize
    <2>8. CASE Refuse(r) \/ CallUpstream(r)
      BY <2>8 DEF Refuse, CallUpstream
    <2>9. CASE UpstreamOk(r) \/ UpstreamRetryable(r) \/ UpstreamFailed(r)
      BY <2>9 DEF UpstreamOk, UpstreamRetryable, UpstreamFailed
    <2>10. CASE StaleFallback(r) \/ BadGateway(r)
      BY <2>10 DEF StaleFallback, BadGateway
    <2>11. CASE Capture(r) \/ InsertVector(r)
      BY <2>11 DEF Capture, InsertVector
    <2>12. CASE McpStore(r)
      BY <2>12 DEF McpStore, Answer, Response
    <2>13. CASE McpEmbed(r)
      BY <2>13 DEF McpEmbed, StatusOK
    <2>14. CASE Cancel(r)
      BY <2>14 DEF Cancel
    <2> QED BY <2>1, <2>2, <2>3, <2>4, <2>5, <2>6, <2>7, <2>8, <2>9, <2>10, <2>11, <2>12, <2>13, <2>14 DEF Step
  <1>3. AttemptsOK'
    BY <1>0, <1>1, <1>2 DEF AttemptsOK
  <1>4. StatusOK'
    BY <1>0, <1>1, <1>2 DEF StatusOK
  <1> QED BY <1>3, <1>4

LEMMA TypeStep ==
  ASSUME TypeInv, [Next]_vars
  PROVE  TypeInv'
  <1>1. ASSUME NEW r \in Requests, Arrive(r) \/ Step(r) \/ Cancel(r)
        PROVE  TypeInv'
    <2>1. TypeOK /\ AttemptsOK /\ StatusOK
      BY DEF TypeInv
    <2> pc \in [Requests -> PCs] /\ in \in [Requests -> Inputs]
      BY <2>1 DEF TypeOK
    <2>2. pc' \in [Requests -> PCs] /\ in' \in [Requests -> Inputs]
      BY <1>1, <2>1, OwnStep
    <2>3. TypeOK'
      BY <1>1, <2>1, <2>2, ReplyStep, CachesStep, RecordsStep DEF TypeOK
    <2> QED BY <1>1, <2>3, ControlStep DEF TypeInv
  <1>2. CASE Tick
    BY <1>2, BoundsAssumption DEF TypeInv, TypeOK, AttemptsOK, StatusOK, Tick, local, caches
  <1>3. CASE UNCHANGED vars
    BY <1>3 DEF TypeInv, TypeOK, AttemptsOK, StatusOK, vars
  <1> QED BY <1>1, <1>2, <1>3 DEF Next, Quiescent

\* Every reachable state is well typed: in particular no request ever makes
\* more upstream calls than the retry policy allows (core/retry.rs,
\* execute_with_retry) and the caches hold nothing but answers.
THEOREM TypeCorrect == Spec => []TypeOK
  <1>1. Init => TypeInv
    BY TypeInit
  <1>2. TypeInv /\ [Next]_vars => TypeInv'
    BY TypeStep
  <1>3. TypeInv => TypeOK
    BY DEF TypeInv
  <1> QED BY <1>1, <1>2, <1>3, PTL DEF Spec

-----------------------------------------------------------------------------
(* Where answers come from.                                                *)

\* Equal keys ask the same: the namespace and the canonical body tell every
\* difference that matters (core/cache_scope.rs, core/prompt.rs).
LEMMA KeyDeterminesRequest ==
  ASSUME NEW p \in Inputs, NEW q \in Inputs, ExactKey(p) = ExactKey(q)
  PROVE  SameRequest(p, q)
  <1>1. CacheNs(p) = CacheNs(q) /\ p.scope = q.scope /\ Material(p) = Material(q)
    BY DEF ExactKey
  <1>2. SameFormat(p, q)
    BY <1>1, InputsAssumption DEF CacheNs, SameFormat, ChatRoutes, McpRoutes
  <1>3. p.question = q.question /\ p.tooling = q.tooling
    BY <1>1 DEF Material
  <1>4. "text" \in {p.sys, q.sys} => p.ctx = q.ctx
    BY <1>1, InputsAssumption DEF Material
  <1>5. ASSUME NEW x \in Inputs
        PROVE  /\ Material(x).model = NoModel <=> BarePrompt(x)
               /\ ~BarePrompt(x) => Material(x).model = ResolvedModel(x)
    <2>1. ResolvedModel(x) # NoModel
      BY ModelsAssumption DEF ResolvedModel, ResolveModelAlias
    <2>2. Material(x).model =
            IF x.route \in McpRoutes \/ x.form = "text" THEN NoModel ELSE ResolvedModel(x)
      BY DEF Material
    <2> QED BY <2>1, <2>2 DEF BarePrompt
  <1>6. Material(p).model = Material(q).model
    BY <1>1
  <1>7. ~BarePrompt(p) => ResolvedModel(p) = ResolvedModel(q)
    BY <1>5, <1>6
  <1>8. BarePrompt(p) <=> BarePrompt(q)
    BY <1>5, <1>6
  <1>9. BarePrompt(p) = BarePrompt(q)
    BY <1>8 DEF BarePrompt
  <1> QED BY <1>1, <1>2, <1>3, <1>4, <1>7, <1>9 DEF SameRequest

\* a answers a request whose exact key is k.
AnswersKey(a, k) == a \in Answers /\ a.by # "error" /\ ExactKey(in[a.origin]) = k

\* An entry of the exact cache holds an answer to a request with its key.
SoundExact == {e \in ExactEntries : AnswersKey(e.val, e.key)}

\* An entry of the vector cache holds an answer to the request m that
\* inserted it, in the session of m.
InsertedFor(e, m) ==
  /\ AnswersKey(e.answer, ExactKey(in[m]))
  /\ e.input = SemanticInput(in[m]) /\ e.scope = in[m].scope
  /\ SemanticCacheEnabled(in[m])

SoundVectors == {e \in VectorEntries : \E m \in Requests : InsertedFor(e, m)}

\* A request that is about to store its reply carries an answer to itself, and
\* one that embeds may use semantic matching.
Carries(r) ==
  /\ (pc[r] \in {"capture", "insert", "store_embed"} /\ reply[r].status = 200)
       => AnswersKey(reply[r].body, ExactKey(in[r]))
  /\ pc[r] \in {"embed", "search"} => SemanticCacheEnabled(in[r])
  /\ pc[r] \in {"store", "store_embed"} => in[r].route \in McpRoutes
  /\ (vec[r] \/ pc[r] = "insert") => SemanticCacheEnabled(in[r])

\* The reply of r comes from its own key, or from an entry close to it.
Justified(r) ==
  reply[r].status = 200 =>
    /\ reply[r].body \in Answers /\ reply[r].body.by # "error"
    /\ \E m \in Requests :
         /\ ExactKey(in[reply[r].body.origin]) = ExactKey(in[m])
         /\ ExactKey(in[m]) = ExactKey(in[r]) \/ SemanticallyClose(in[r], in[m])

SoundInv ==
  /\ exact \in Seq(SoundExact) /\ vectors \subseteq SoundVectors
  /\ \A r \in Requests : Carries(r) /\ Justified(r)

LEMMA SoundInit == Init => SoundInv
  <1> SUFFICES ASSUME Init PROVE SoundInv
    OBVIOUS
  <1>1. exact \in Seq(SoundExact) /\ vectors \subseteq SoundVectors
    BY DEF Init
  <1>2. ASSUME NEW r \in Requests PROVE Carries(r) /\ Justified(r)
    BY DEF Init, Carries, Justified, NoReply
  <1> QED BY <1>1, <1>2 DEF SoundInv

\* A request r that a step of s # r leaves alone keeps what it carries.
LEMMA OthersKeep ==
  ASSUME NEW r \in Requests, in' = in, pc'[r] = pc[r], reply'[r] = reply[r],
         vec'[r] = vec[r], Carries(r), Justified(r)
  PROVE  Carries(r)' /\ Justified(r)'
  <1>1. Carries(r)'
    BY DEF Carries, AnswersKey
  <1>2. Justified(r)'
    BY DEF Justified, SemanticallyClose
  <1> QED BY <1>1, <1>2

\* What a sound exact cache returns for the key of r answers r.
LEMMA ExactSound ==
  ASSUME NEW r \in Requests, exact \in Seq(SoundExact), Cached(exact, ExactKey(in[r]))
  PROVE  /\ AnswersKey(CachedValue(exact, ExactKey(in[r])), ExactKey(in[r]))
         /\ Promote(exact, ExactKey(in[r])) \in Seq(SoundExact)
  <1> DEFINE key == ExactKey(in[r])
  <1>1. PICK e \in SoundExact : e.key = key /\ e.val = CachedValue(exact, key)
    BY HitReturnsEntry
  <1>2. AnswersKey(CachedValue(exact, key), key)
    BY <1>1 DEF SoundExact
  <1>3. Promote(exact, key) \in Seq(SoundExact)
    BY HitReturnsEntry
  <1> QED BY <1>2, <1>3

\* An answer to the key of r justifies the reply of r.
LEMMA OwnAnswer ==
  ASSUME NEW r \in Requests, AnswersKey(reply[r].body, ExactKey(in[r]))
  PROVE  Justified(r)
  BY DEF AnswersKey, Justified

\* Every step of r leaves what r carries and its reply sound.
LEMMA OwnSound ==
  ASSUME TypeInv, SoundInv, NEW r \in Requests, Arrive(r) \/ Step(r) \/ Cancel(r)
  PROVE  Carries(r)' /\ Justified(r)'
  <1> DEFINE key == ExactKey(in[r])
  <1>0. /\ pc \in [Requests -> PCs] /\ reply \in [Requests -> Replies]
        /\ vec \in [Requests -> BOOLEAN] /\ exact \in Seq(SoundExact)
        /\ vectors \subseteq SoundVectors /\ Carries(r) /\ Justified(r) /\ in' = in
    BY OwnStep DEF TypeInv, TypeOK, SoundInv
  \* A step that sets no reply and keeps r away from the stores.
  <1>1. ASSUME reply'[r] = reply[r], vec'[r] = vec[r],
               pc'[r] \notin {"capture", "insert", "store_embed", "embed", "search", "store"}
        PROVE  Carries(r)' /\ Justified(r)'
    BY <1>0, <1>1 DEF Carries, Justified, SemanticallyClose
  \* A step that answers r from outside, with an error or with its own answer.
  <1>2. ASSUME NEW x \in Replies, reply' = [reply EXCEPT ![r] = x], vec' = vec,
               x.status = 200 => AnswersKey(x.body, key),
               pc'[r] \in {"done", "capture", "classify"}
        PROVE  Carries(r)' /\ Justified(r)'
    <2>1. reply'[r] = x
      BY <1>0, <1>2
    <2>2. Carries(r)'
      BY <1>0, <1>2, <2>1 DEF Carries, AnswersKey
    <2>3. Justified(r)'
      BY <1>0, <1>2, <2>1 DEF Justified, AnswersKey
    <2> QED BY <2>2, <2>3
  <1>3. ASSUME NEW status, NEW layer, NEW by \in {"slm", "cloud", "mcp", "error"},
               by = "error" => status # 200
        PROVE  Response(status, layer, r, by).status = 200
                 => AnswersKey(Response(status, layer, r, by).body, key)
    BY <1>3 DEF Response, AnswersKey, Answers
  <1>4. CASE Arrive(r)
    <2>1. /\ reply' = reply /\ vec' = vec
          /\ pc'[r] = "exact" \/ (pc'[r] = "store" /\ in[r].route = "store")
      BY <1>0, <1>4 DEF Arrive, Goto
    <2>2. Carries(r)'
      BY <1>0, <2>1 DEF Carries, McpRoutes
    <2>3. Justified(r)'
      BY <1>0, <2>1 DEF Justified, SemanticallyClose
    <2> QED BY <2>2, <2>3
  <1>5. CASE ExactHit(r) \/ StaleFallback(r)
    <2>1. Cached(exact, key)
      BY <1>5 DEF ExactHit, StaleFallback, FallbackFinds
    <2>2. AnswersKey(CachedValue(exact, key), key)
      BY <1>0, <2>1, ExactSound
    <2>3. PICK layer \in {"l1a", "l3"} :
            reply' = [reply EXCEPT ![r] = Served(layer, CachedValue(exact, key))]
      BY <1>5 DEF ExactHit, StaleFallback, Answer
    <2>4. vec' = vec /\ pc'[r] \in {"done", "capture"}
      BY <1>0, <1>5 DEF ExactHit, StaleFallback, Goto
    <2>5. /\ Served(layer, CachedValue(exact, key)) \in Replies
          /\ Served(layer, CachedValue(exact, key)).body = CachedValue(exact, key)
      BY <2>2, ReplyTypes DEF AnswersKey, Served
    <2>6. AnswersKey(Served(layer, CachedValue(exact, key)).body, key)
      BY <2>2, <2>5
    <2> QED BY <1>2, <2>3, <2>4, <2>5, <2>6
  <1>6. ASSUME UNCHANGED vec, LeaveCaches(r)
        PROVE  Carries(r)' /\ Justified(r)'
    <2>1. CASE IsMcp(r)
      <3>1. reply' = [reply EXCEPT ![r] = NotFound] /\ pc'[r] = "done"
        BY <1>0, <1>6, <2>1 DEF LeaveCaches, Answer, Goto
      <3>2. NotFound \in Replies /\ NotFound.status # 200
        BY ReplyTypes DEF NotFound
      <3> QED BY <1>2, <1>6, <3>1, <3>2
    <2>2. CASE ~IsMcp(r)
      BY <1>0, <1>1, <1>6, <2>2 DEF LeaveCaches, Goto
    <2> QED BY <2>1, <2>2
  <1>7. ASSUME reply' = reply, pc'[r] \in {"embed", "search"}, SemanticCacheEnabled(in[r])
        PROVE  Carries(r)' /\ Justified(r)'
    BY <1>0, <1>7 DEF Carries, Justified, SemanticallyClose
  <1>8. CASE ExactMiss(r)
    <2>1. CASE UsesSemantic(r)
      <3>1. SemanticCacheEnabled(in[r])
        BY <2>1 DEF UsesSemantic, IsMcp, SemanticCacheEnabled
      <3>2. reply' = reply /\ pc'[r] = "embed"
        BY <1>0, <1>8, <2>1 DEF ExactMiss, Goto
      <3> QED BY <1>7, <3>1, <3>2
    <2>2. CASE ~UsesSemantic(r)
      BY <1>6, <1>8, <2>2 DEF ExactMiss
    <2> QED BY <2>1, <2>2
  <1>9. CASE Embed(r)
    <2>1. CASE pc' = [pc EXCEPT ![r] = "search"] /\ UNCHANGED reply
      <3>1. SemanticCacheEnabled(in[r])
        BY <1>0, <1>9 DEF Embed, Carries
      <3>2. pc'[r] = "search"
        BY <1>0, <2>1
      <3> QED BY <1>7, <2>1, <3>1, <3>2
    <2>2. CASE UNCHANGED vec /\ LeaveCaches(r)
      BY <1>6, <2>2
    <2> QED BY <1>9, <2>1, <2>2 DEF Embed, Goto
  <1>10. CASE SemanticHit(r)
    <2>1. PICK e \in Match(r) : reply' = [reply EXCEPT ![r] = Served("l1b", e.answer)]
      BY <1>10 DEF SemanticHit, Answer
    <2>2. e \in vectors /\ e.scope = in[r].scope
          /\ Score(SemanticInput(in[r]), e.input) >= Threshold
      BY DEF Match, BestMatch, Candidates, Live
    <2>3. PICK m \in Requests : InsertedFor(e, m)
      BY <1>0, <2>2 DEF SoundVectors
    <2>4. SemanticallyClose(in[r], in[m])
      BY <1>0, <1>10, <2>2, <2>3 DEF SemanticHit, SemanticallyClose, InsertedFor, Carries
    <2>5. AnswersKey(e.answer, ExactKey(in[m]))
      BY <2>3 DEF InsertedFor
    <2>6. reply'[r].body = e.answer
      BY <1>0, <2>1 DEF Served
    <2>7. Justified(r)'
      BY <1>0, <2>4, <2>5, <2>6 DEF Justified, AnswersKey, SemanticallyClose
    <2>8. Carries(r)'
      BY <1>0, <1>10 DEF SemanticHit, Goto, Carries
    <2> QED BY <2>7, <2>8
  <1>11. CASE SemanticMiss(r)
    BY <1>6, <1>11 DEF SemanticMiss
  <1>12. CASE \/ Deflectable(r) \/ FallThrough(r) \/ Optimize(r) \/ CallUpstream(r)
              \/ UpstreamRetryable(r) \/ UpstreamFailed(r) \/ Cancel(r)
    <2>1. reply' = reply /\ vec' = vec
      BY <1>12 DEF Deflectable, FallThrough, Optimize, CallUpstream, UpstreamRetryable,
           UpstreamFailed, Cancel
    <2>2. pc'[r] \in {"slm", "optimize", "dispatch", "await", "backoff", "fallback", "cancelled"}
      BY <1>0, <1>12 DEF Deflectable, FallThrough, Optimize, CallUpstream,
           UpstreamRetryable, UpstreamFailed, Cancel, Goto
    <2> QED BY <1>1, <2>1, <2>2
  <1>13. CASE SlmAnswer(r) \/ UpstreamOk(r)
    <2>1. PICK layer \in {"l2", "l3"}, by \in {"slm", "cloud"} :
            reply' = [reply EXCEPT ![r] = Response(200, layer, r, by)]
      BY <1>13 DEF SlmAnswer, UpstreamOk, Answer
    <2>2. vec' = vec /\ pc'[r] = "capture"
      BY <1>0, <1>13 DEF SlmAnswer, UpstreamOk, Goto
    <2> DEFINE x == Response(200, layer, r, by)
    <2>3. x \in Replies
      BY ReplyTypes
    <2>4. x.status = 200 => AnswersKey(x.body, key)
      BY <1>3
    <2> QED BY <1>2, <2>1, <2>2, <2>3, <2>4
  <1>14. CASE Refuse(r) \/ BadGateway(r)
    <2>1. PICK status \in {400, 502, 503}, layer \in {"none", "l3"} :
            reply' = [reply EXCEPT ![r] = Response(status, layer, r, "error")]
      BY <1>14 DEF Refuse, BadGateway, Answer
    <2>2. vec' = vec /\ pc'[r] = "capture"
      BY <1>0, <1>14 DEF Refuse, BadGateway, Goto
    <2> DEFINE x == Response(status, layer, r, "error")
    <2>3. x \in Replies
      BY ReplyTypes
    <2>4. x.status = 200 => AnswersKey(x.body, key)
      BY <1>3
    <2> QED BY <1>2, <2>1, <2>2, <2>3, <2>4
  <1>15. CASE Capture(r)
    <2>1. /\ reply' = reply /\ vec' = vec /\ pc[r] = "capture"
          /\ \/ pc'[r] = "done"
             \/ pc'[r] = "insert" /\ reply[r].status = 200 /\ vec[r]
      BY <1>0, <1>15 DEF Capture, Goto
    <2>2. Carries(r)'
      BY <1>0, <2>1 DEF Carries, AnswersKey
    <2>3. Justified(r)'
      BY <1>0, <2>1 DEF Justified, SemanticallyClose
    <2> QED BY <2>2, <2>3
  <1>16. CASE InsertVector(r)
    BY <1>0, <1>1, <1>16 DEF InsertVector, Goto
  <1>17. CASE McpStore(r)
    <2>1. reply' = [reply EXCEPT ![r] = Response(200, "mcp", r, "mcp")] /\ vec' = vec
          /\ pc[r] = "store" /\ pc'[r] = "store_embed"
      BY <1>0, <1>17 DEF McpStore, Answer, Goto
    <2>2. AnswersKey(reply'[r].body, key)
      BY <1>0, <1>3, <2>1 DEF Response
    <2>3. Carries(r)'
      BY <1>0, <2>1, <2>2 DEF Carries, AnswersKey
    <2>4. Justified(r)'
      BY <1>0, <2>2 DEF Justified, AnswersKey
    <2> QED BY <2>3, <2>4
  <1>18. CASE McpEmbed(r)
    <2>1. reply' = reply /\ pc[r] = "store_embed" /\ pc'[r] \in {"insert", "done"}
      BY <1>0, <1>18 DEF McpEmbed, Goto
    <2>2. SemanticCacheEnabled(in[r])
      BY <1>0, <2>1 DEF Carries, SemanticCacheEnabled
    <2>3. Carries(r)'
      BY <1>0, <2>1, <2>2 DEF Carries, AnswersKey
    <2>4. Justified(r)'
      BY <1>0, <2>1 DEF Justified, SemanticallyClose
    <2> QED BY <2>3, <2>4
  <1> QED BY <1>4, <1>5, <1>8, <1>9, <1>10, <1>11, <1>12, <1>13, <1>14, <1>15, <1>16, <1>17, <1>18 DEF Step

\* Every step of r leaves both caches sound: what is stored is an answer to
\* the request it is stored for.
LEMMA CachesSound ==
  ASSUME TypeInv, SoundInv, NEW r \in Requests, Arrive(r) \/ Step(r) \/ Cancel(r)
  PROVE  exact' \in Seq(SoundExact) /\ vectors' \subseteq SoundVectors
  <1> DEFINE key == ExactKey(in[r])
  <1>0. /\ TypeOK /\ StatusOK /\ in[r] \in Inputs /\ reply[r] \in Replies
        /\ exact \in Seq(SoundExact) /\ vectors \subseteq SoundVectors
        /\ Carries(r) /\ ExactCapacity \in Nat \ {0}
    BY BoundsAssumption DEF TypeInv, TypeOK, SoundInv
  <1>1. CASE ExactHit(r) \/ StaleFallback(r)
    <2>1. Cached(exact, key) /\ exact' = Promote(exact, key) /\ vectors' = vectors
      BY <1>1 DEF ExactHit, StaleFallback, FallbackFinds
    <2> QED BY <1>0, <2>1, ExactSound
  <1>2. ASSUME NEW answer, AnswersKey(answer, key), StoreExact(r, answer)
        PROVE  exact' \in Seq(SoundExact)
    <2>1. [key |-> key, val |-> answer] \in SoundExact
      BY <1>0, <1>2 DEF SoundExact, ExactEntries, AnswersKey
    <2> QED BY <1>0, <1>2, <2>1, PutType DEF StoreExact
  <1>3. CASE Capture(r)
    <2>1. vectors' = vectors
      BY <1>3 DEF Capture
    <2>2. CASE reply[r].status = 200 /\ UsesExact(r)
      <3>1. AnswersKey(reply[r].body, key)
        BY <1>0, <1>3, <2>2 DEF Capture, Carries
      <3> QED BY <1>0, <1>2, <1>3, <2>1, <2>2, <3>1 DEF Capture
    <2>3. CASE ~(reply[r].status = 200 /\ UsesExact(r))
      BY <1>0, <1>3, <2>1, <2>3 DEF Capture
    <2> QED BY <2>2, <2>3
  <1>4. CASE McpStore(r)
    <2>1. vectors' = vectors /\ StoreExact(r, [origin |-> r, by |-> "mcp"])
      BY <1>4 DEF McpStore
    <2>2. AnswersKey([origin |-> r, by |-> "mcp"], key)
      BY DEF AnswersKey, Answers
    <2> QED BY <1>0, <1>2, <2>1, <2>2
  <1>5. CASE InsertVector(r)
    <2>1. vectors' \subseteq vectors \cup {NewEntry(r)} /\ exact' = exact /\ in' = in
      BY <1>5, InsertKeeps DEF InsertVector
    <2>2. AnswersKey(reply[r].body, key) /\ SemanticCacheEnabled(in[r])
      BY <1>0, <1>5 DEF InsertVector, StatusOK, Carries
    <2>3. InsertedFor(NewEntry(r), r)
      BY <2>2 DEF InsertedFor, NewEntry
    <2>4. NewEntry(r) \in VectorEntries
      <3>1. reply[r].body \in Answers
        BY <2>2 DEF AnswersKey
      <3> QED BY <1>0, <3>1, InputTypes DEF NewEntry, VectorEntries, TypeOK
    <2>5. NewEntry(r) \in SoundVectors
      BY <2>3, <2>4 DEF SoundVectors
    <2> QED BY <1>0, <2>1, <2>5
  <1>6. CASE \/ Arrive(r) \/ ExactMiss(r) \/ Embed(r) \/ SemanticHit(r)
             \/ SemanticMiss(r) \/ Deflectable(r) \/ SlmAnswer(r) \/ FallThrough(r)
             \/ Optimize(r) \/ Refuse(r) \/ CallUpstream(r) \/ UpstreamOk(r)
             \/ UpstreamRetryable(r) \/ UpstreamFailed(r) \/ BadGateway(r)
             \/ McpEmbed(r) \/ Cancel(r)
    <2>1. UNCHANGED caches
      BY <1>6 DEF Arrive, ExactMiss, Embed, SemanticHit, SemanticMiss, Deflectable,
           SlmAnswer, FallThrough, Optimize, Refuse, CallUpstream, UpstreamOk,
           UpstreamRetryable, UpstreamFailed, BadGateway, McpEmbed, Cancel
    <2> QED BY <1>0, <2>1 DEF caches
  <1> QED BY <1>1, <1>3, <1>4, <1>5, <1>6 DEF Step

\* A step of r leaves every other request as it is.
LEMMA OthersStay ==
  ASSUME TypeOK, NEW r \in Requests, Arrive(r) \/ Step(r) \/ Cancel(r),
         NEW s \in Requests, s # r
  PROVE  pc'[s] = pc[s] /\ reply'[s] = reply[s] /\ vec'[s] = vec[s]
  <1>1. pc'[s] = pc[s] /\ reply'[s] = reply[s]
    BY OwnStep DEF TypeOK
  <1>2. vec' = vec \/ vec' = [vec EXCEPT ![r] = TRUE]
    BY DEF Step, Arrive, Cancel, ExactHit, ExactMiss, Embed, SemanticHit, SemanticMiss,
       Deflectable, SlmAnswer, FallThrough, Optimize, Refuse, CallUpstream, UpstreamOk,
       UpstreamRetryable, UpstreamFailed, StaleFallback, BadGateway, Capture,
       InsertVector, McpStore, McpEmbed
  <1> QED BY <1>1, <1>2 DEF TypeOK

LEMMA SoundStep ==
  ASSUME TypeInv, SoundInv, [Next]_vars
  PROVE  SoundInv'
  <1>1. ASSUME NEW r \in Requests, Arrive(r) \/ Step(r) \/ Cancel(r)
        PROVE  SoundInv'
    <2>1. TypeOK /\ in' = in
      BY <1>1, OwnStep DEF TypeInv
    <2>2. ASSUME NEW s \in Requests PROVE Carries(s)' /\ Justified(s)'
      <3>1. CASE s = r
        BY <1>1, <3>1, OwnSound
      <3>2. CASE s # r
        <4>1. Carries(s) /\ Justified(s)
          BY DEF SoundInv
        <4>2. pc'[s] = pc[s] /\ reply'[s] = reply[s] /\ vec'[s] = vec[s]
          BY <1>1, <2>1, <3>2, OthersStay
        <4> QED BY <2>1, <4>1, <4>2, OthersKeep
      <3> QED BY <3>1, <3>2
    <2>3. exact' \in Seq(SoundExact) /\ vectors' \subseteq SoundVectors
      BY <1>1, CachesSound
    <2>4. SoundExact' = SoundExact /\ SoundVectors' = SoundVectors
      BY <2>1 DEF SoundExact, SoundVectors, AnswersKey, InsertedFor
    <2> QED BY <2>2, <2>3, <2>4 DEF SoundInv
  <1>2. ASSUME UNCHANGED <<in, pc, reply, vec, exact, vectors>>
        PROVE  SoundInv'
    <2>1. SoundExact' = SoundExact /\ SoundVectors' = SoundVectors
      BY <1>2 DEF SoundExact, SoundVectors, AnswersKey, InsertedFor
    <2>2. ASSUME NEW s \in Requests PROVE Carries(s)' /\ Justified(s)'
      BY <1>2, OthersKeep DEF SoundInv
    <2> QED BY <1>2, <2>1, <2>2 DEF SoundInv
  <1>3. CASE Tick
    BY <1>2, <1>3 DEF Tick, local, caches
  <1>4. CASE UNCHANGED vars
    BY <1>2, <1>4 DEF vars
  <1> QED BY <1>1, <1>3, <1>4 DEF Next, Quiescent

\* The types and the sound caches are one inductive invariant.
LEMMA Soundness == Spec => [](TypeInv /\ SoundInv)
  <1>1. Init => TypeInv /\ SoundInv
    BY TypeInit, SoundInit
  <1>2. TypeInv /\ SoundInv /\ [Next]_vars => (TypeInv /\ SoundInv)'
    BY TypeStep, SoundStep
  <1> QED BY <1>1, <1>2, PTL DEF Spec

\* Every answer of status 200 was produced for the same request, or for one a
\* single similarity hop away; an error body is never served as an answer
\* (middleware/cache.rs, cache_middleware; mcp handlers).
THEOREM AnswersAreJustified == Spec => []AnswersJustified
  <1>1. TypeInv /\ SoundInv => AnswersJustified
    <2> SUFFICES ASSUME TypeInv, SoundInv, NEW r \in Requests, reply[r].status = 200
                 PROVE  /\ reply[r].body.by # "error"
                        /\ \E m \in Requests :
                             /\ SameRequest(in[m], in[reply[r].body.origin])
                             /\ SameRequest(in[r], in[m]) \/ SemanticallyClose(in[r], in[m])
      BY DEF AnswersJustified
    <2>1. Justified(r) /\ in \in [Requests -> Inputs]
      BY DEF SoundInv, TypeInv, TypeOK
    <2>2. reply[r].body \in Answers /\ reply[r].body.by # "error"
      BY <2>1 DEF Justified
    <2>3. PICK m \in Requests :
            /\ ExactKey(in[reply[r].body.origin]) = ExactKey(in[m])
            /\ ExactKey(in[m]) = ExactKey(in[r]) \/ SemanticallyClose(in[r], in[m])
      BY <2>1 DEF Justified
    <2>4. SameRequest(in[m], in[reply[r].body.origin])
      BY <2>1, <2>2, <2>3, KeyDeterminesRequest DEF Answers
    <2>5. SameRequest(in[r], in[m]) \/ SemanticallyClose(in[r], in[m])
      BY <2>1, <2>3, KeyDeterminesRequest
    <2> QED BY <2>2, <2>4, <2>5
  <1> QED BY <1>1, Soundness, PTL

\* No session is ever answered from another one (core/cache_scope.rs,
\* vector_cache.rs search).
THEOREM SessionsAreIsolated == Spec => []SessionIsolation
  <1>1. AnswersJustified => SessionIsolation
    BY DEF AnswersJustified, SessionIsolation, SameRequest, SemanticallyClose
  <1> QED BY <1>1, AnswersAreJustified, PTL
-----------------------------------------------------------------------------
(* The retry loop.                                                         *)

\* The request has no answer yet, and its retry loop has not ended.
Undecided ==
  {"idle", "exact", "embed", "search", "classify", "slm", "optimize", "dispatch",
   "await", "backoff", "store"}

LoopOf(r) ==
  /\ pc[r] \in Undecided => outcome[r] = "none" /\ reply[r] = NoReply
  /\ pc[r] \in {"await", "backoff"} => ~OfflineMode
  /\ pc[r] = "fallback" => outcome[r] = "failed" /\ reply[r] = NoReply
  /\ reply[r].status = 502 => outcome[r] = "failed"

LoopOK == \A r \in Requests : LoopOf(r)

LEMMA LoopInit == Init => LoopOK
  BY DEF Init, LoopOK, LoopOf, NoReply

\* A step ends at most the retry loop of its own request, one that was waiting
\* for its answer, and the health counters record just that
\* (core/retry.rs, handler.rs record_provider_success and _failure).
LEMMA OutcomeStep ==
  ASSUME TypeOK, NEW r \in Requests, Arrive(r) \/ Step(r) \/ Cancel(r)
  PROVE  \/ outcome' = outcome /\ health' = health
         \/ /\ pc[r] = "await" /\ outcome' = [outcome EXCEPT ![r] = "ok"]
            /\ health' = [requests |-> health.requests + 1, errors |-> health.errors]
            /\ UNCHANGED caches
         \/ /\ pc[r] = "await" /\ outcome' = [outcome EXCEPT ![r] = "failed"]
            /\ health' = [requests |-> health.requests + 1, errors |-> health.errors + 1]
            /\ UNCHANGED <<caches, reply>>
  <1>1. CASE UpstreamOk(r)
    BY <1>1 DEF UpstreamOk
  <1>2. CASE UpstreamFailed(r)
    BY <1>2 DEF UpstreamFailed
  <1>3. CASE \/ Arrive(r) \/ ExactHit(r) \/ ExactMiss(r) \/ Embed(r) \/ SemanticHit(r)
             \/ SemanticMiss(r) \/ Deflectable(r) \/ SlmAnswer(r) \/ FallThrough(r)
             \/ Optimize(r) \/ Refuse(r) \/ CallUpstream(r) \/ UpstreamRetryable(r)
             \/ StaleFallback(r) \/ BadGateway(r) \/ Capture(r) \/ InsertVector(r)
             \/ McpStore(r) \/ McpEmbed(r) \/ Cancel(r)
    BY <1>3 DEF Arrive, ExactHit, ExactMiss, Embed, SemanticHit, SemanticMiss,
       Deflectable, SlmAnswer, FallThrough, Optimize, Refuse, CallUpstream,
       UpstreamRetryable, StaleFallback, BadGateway, Capture, InsertVector, McpStore,
       McpEmbed, Cancel
  <1> QED BY <1>1, <1>2, <1>3 DEF Step

\* Every step of a request keeps its own loop in order.
LEMMA OwnLoop ==
  ASSUME TypeOK, NEW r \in Requests, LoopOf(r), Arrive(r) \/ Step(r) \/ Cancel(r)
  PROVE  LoopOf(r)'
  <1> USE DEF LoopOf, Undecided, Goto
  <1>0. /\ pc \in [Requests -> PCs] /\ reply \in [Requests -> Replies]
        /\ outcome \in [Requests -> {"none", "ok", "failed"}]
    BY DEF TypeOK
  \* A step that moves on without an answer, before the loop has ended.
  <1>1. ASSUME NEW label \in Undecided, pc[r] \in Undecided,
               pc' = [pc EXCEPT ![r] = label], UNCHANGED <<reply, outcome>>,
               label \in {"await", "backoff"} => ~OfflineMode
        PROVE  LoopOf(r)'
    BY <1>0, <1>1
  \* A step that answers with anything but a 502.
  <1>2. ASSUME pc'[r] \in {"done", "capture", "store_embed"}, reply'[r].status # 502
        PROVE  LoopOf(r)'
    BY <1>2
  \* A step of a request that has its answer or is given up.
  <1>3. ASSUME NEW label \in {"done", "capture", "insert", "cancelled"},
               pc' = [pc EXCEPT ![r] = label], UNCHANGED <<reply, outcome>>
        PROVE  LoopOf(r)'
    BY <1>0, <1>3
  <1>4. ASSUME pc[r] \in Undecided, LeaveCaches(r), UNCHANGED outcome
        PROVE  LoopOf(r)'
    <2>1. CASE IsMcp(r)
      <3>1. pc'[r] = "done" /\ reply'[r].status = 204
        BY <1>0, <1>4, <2>1 DEF LeaveCaches, Answer, NotFound
      <3> QED BY <1>2, <3>1
    <2>2. CASE ~IsMcp(r)
      BY <1>1, <1>4, <2>2 DEF LeaveCaches
    <2> QED BY <2>1, <2>2
  <1>5. CASE Arrive(r)
    BY <1>1, <1>5 DEF Arrive
  <1>6. CASE ExactHit(r)
    <2>1. pc'[r] = "done" /\ reply'[r].status = 200
      BY <1>0, <1>6 DEF ExactHit, Answer, Served
    <2> QED BY <1>2, <2>1
  <1>7. CASE ExactMiss(r)
    BY <1>1, <1>4, <1>7 DEF ExactMiss
  <1>8. CASE Embed(r)
    BY <1>1, <1>4, <1>8 DEF Embed
  <1>9. CASE SemanticHit(r)
    <2>1. pc'[r] = "done" /\ reply'[r].status = 200
      BY <1>0, <1>9 DEF SemanticHit, Answer, Served
    <2> QED BY <1>2, <2>1
  <1>10. CASE SemanticMiss(r)
    BY <1>4, <1>10 DEF SemanticMiss
  <1>11. CASE Deflectable(r) \/ FallThrough(r) \/ Optimize(r)
    BY <1>1, <1>11 DEF Deflectable, FallThrough, Optimize
  <1>12. CASE SlmAnswer(r)
    <2>1. pc'[r] = "capture" /\ reply'[r].status = 200
      BY <1>0, <1>12 DEF SlmAnswer, Answer, Response
    <2> QED BY <1>2, <2>1
  <1>13. CASE Refuse(r)
    <2>1. pc'[r] = "capture" /\ reply'[r].status \in {400, 503}
      BY <1>0, <1>13 DEF Refuse, Answer, Response
    <2> QED BY <1>2, <2>1
  <1>14. CASE CallUpstream(r)
    BY <1>1, <1>14 DEF CallUpstream
  <1>15. CASE UpstreamOk(r)
    <2>1. pc'[r] = "capture" /\ reply'[r].status = 200
      BY <1>0, <1>15 DEF UpstreamOk, Answer, Response
    <2> QED BY <1>2, <2>1
  <1>16. CASE UpstreamRetryable(r)
    BY <1>1, <1>16 DEF UpstreamRetryable
  <1>17. CASE UpstreamFailed(r)
    BY <1>0, <1>17 DEF UpstreamFailed
  <1>18. CASE StaleFallback(r)
    <2>1. pc'[r] = "capture" /\ reply'[r].status = 200
      BY <1>0, <1>18 DEF StaleFallback, Answer, Served
    <2> QED BY <1>2, <2>1
  <1>19. CASE BadGateway(r)
    BY <1>0, <1>19 DEF BadGateway, Answer
  <1>20. CASE Capture(r) \/ InsertVector(r) \/ McpEmbed(r) \/ Cancel(r)
    BY <1>3, <1>20 DEF Capture, InsertVector, McpEmbed, Cancel
  <1>21. CASE McpStore(r)
    <2>1. pc'[r] = "store_embed" /\ reply'[r].status = 200
      BY <1>0, <1>21 DEF McpStore, Answer, Response
    <2> QED BY <1>2, <2>1
  <1> QED BY <1>5, <1>6, <1>7, <1>8, <1>9, <1>10, <1>11, <1>12, <1>13, <1>14, <1>15, <1>16, <1>17, <1>18, <1>19, <1>20, <1>21 DEF Step

LEMMA LoopStep ==
  ASSUME TypeInv, LoopOK, [Next]_vars
  PROVE  LoopOK'
  <1>1. ASSUME NEW r \in Requests, Arrive(r) \/ Step(r) \/ Cancel(r)
        PROVE  LoopOK'
    <2>1. TypeOK
      BY DEF TypeInv
    <2>2. ASSUME NEW s \in Requests, s # r PROVE LoopOf(s)'
      <3>1. pc'[s] = pc[s] /\ reply'[s] = reply[s]
        BY <1>1, <2>1, <2>2, OthersStay
      <3>2. outcome'[s] = outcome[s]
        <4>1. \/ outcome' = outcome
              \/ \E x : outcome' = [outcome EXCEPT ![r] = x]
          BY <1>1, <2>1, OutcomeStep
        <4> QED BY <2>1, <2>2, <4>1 DEF TypeOK
      <3> QED BY <3>1, <3>2 DEF LoopOK, LoopOf
    <2> QED BY <1>1, <2>1, <2>2, OwnLoop DEF LoopOK
  <1>2. CASE Tick
    BY <1>2 DEF LoopOK, LoopOf, Tick, local
  <1>3. CASE UNCHANGED vars
    BY <1>3 DEF LoopOK, LoopOf, vars
  <1> QED BY <1>1, <1>2, <1>3 DEF Next, Quiescent

LEMMA Looping == Spec => [](TypeInv /\ LoopOK)
  <1>1. Init => TypeInv /\ LoopOK
    BY TypeInit, LoopInit
  <1>2. TypeInv /\ LoopOK /\ [Next]_vars => (TypeInv /\ LoopOK)'
    BY TypeStep, LoopStep
  <1> QED BY <1>1, <1>2, PTL DEF Spec

\* Only the call itself counts an attempt.
LEMMA AttemptsStep ==
  ASSUME NEW r \in Requests, Arrive(r) \/ Step(r) \/ Cancel(r)
  PROVE  attempts' = attempts \/ CallUpstream(r)
  BY DEF Step, Arrive, Cancel, ExactHit, ExactMiss, Embed, SemanticHit, SemanticMiss,
     Deflectable, SlmAnswer, FallThrough, Optimize, Refuse, UpstreamOk,
     UpstreamRetryable, UpstreamFailed, StaleFallback, BadGateway, Capture,
     InsertVector, McpStore, McpEmbed

\* A step calls upstream only for a request whose loop is open and that has no
\* answer, never in offline mode and never beyond the retry policy
\* (core/retry.rs execute_with_retry, handler.rs the offline guard).
THEOREM CallsAreDisciplined == Spec => UpstreamDiscipline
  <1> DEFINE Disciplined ==
        \A r \in Requests : attempts'[r] # attempts[r] =>
          /\ ~OfflineMode /\ attempts'[r] = attempts[r] + 1
          /\ attempts'[r] <= MaxAttempts
          /\ outcome[r] = "none" /\ reply[r] = NoReply
  <1>1. ASSUME TypeInv, LoopOK, [Next]_vars
        PROVE  Disciplined
    <2>1. ASSUME NEW r \in Requests, CallUpstream(r)
          PROVE  Disciplined
      <3>1. /\ attempts \in [Requests -> 0 .. MaxAttempts] /\ TypeInv' /\ LoopOf(r)
            /\ MaxAttempts \in Nat
        BY <1>1, TypeStep, BoundsAssumption DEF TypeInv, TypeOK, LoopOK
      <3>2. attempts' = [attempts EXCEPT ![r] = @ + 1]
        BY <2>1 DEF CallUpstream
      <3>3. attempts'[r] \in 0 .. MaxAttempts
        BY <3>1 DEF TypeInv, TypeOK
      <3>4. ~OfflineMode /\ outcome[r] = "none" /\ reply[r] = NoReply
        BY <2>1, <3>1 DEF CallUpstream, LoopOf, Undecided
      <3> QED BY <3>1, <3>2, <3>3, <3>4
    <2>2. CASE attempts' = attempts
      BY <2>2
    <2>3. ASSUME NEW r \in Requests, Arrive(r) \/ Step(r) \/ Cancel(r)
          PROVE  Disciplined
      BY <2>1, <2>2, <2>3, AttemptsStep
    <2> QED BY <1>1, <2>2, <2>3 DEF Next, Tick, Quiescent, vars, local
  <1> QED BY <1>1, Looping, PTL DEF Spec, UpstreamDiscipline
-----------------------------------------------------------------------------
(* The provider's health.                                                  *)

Concluded == {r \in Requests : outcome[r] # "none"}
Failures  == {r \in Requests : outcome[r] = "failed"}

\* However many requests there may be, only finitely many loops have ended.
CountersOK ==
  /\ IsFiniteSet(Concluded) /\ health.requests = Cardinality(Concluded)
  /\ IsFiniteSet(Failures) /\ health.errors = Cardinality(Failures)

\* An answer of the cloud is the answer of a loop that ended well, wherever it
\* is: in a cache, on its way or delivered.
Fetched(a) == a.by = "cloud" => outcome[a.origin] = "ok"
FetchedExact == {e \in ExactEntries : Fetched(e.val)}
FetchedVectors == {e \in VectorEntries : Fetched(e.answer)}

OriginsOK ==
  /\ exact \in Seq(FetchedExact) /\ vectors \subseteq FetchedVectors
  /\ \A r \in Requests : Fetched(reply[r].body)

AccountsInv == LoopOK /\ CountersOK /\ OriginsOK

LEMMA AccountsInit == Init => AccountsInv
  <1> SUFFICES ASSUME Init PROVE AccountsInv
    OBVIOUS
  <1>1. Concluded = {} /\ Failures = {}
    BY DEF Init, Concluded, Failures
  <1>2. CountersOK
    BY <1>1, FS_EmptySet DEF CountersOK, Init
  <1>3. exact \in Seq(FetchedExact) /\ vectors \subseteq FetchedVectors
    BY DEF Init
  <1>4. \A r \in Requests : Fetched(reply[r].body)
    BY DEF Init, Fetched, NoReply, NoBody
  <1> QED BY <1>2, <1>3, <1>4, LoopInit DEF AccountsInv, OriginsOK

\* Ending the loop of r adds r to the sets the counters count.
LEMMA CountersStep ==
  ASSUME TypeOK, LoopOK, CountersOK, NEW r \in Requests, Arrive(r) \/ Step(r) \/ Cancel(r)
  PROVE  CountersOK'
  <1>0. outcome \in [Requests -> {"none", "ok", "failed"}]
    BY DEF TypeOK
  <1>1. CASE outcome' = outcome /\ health' = health
    BY <1>1 DEF CountersOK, Concluded, Failures
  <1>2. ASSUME NEW how \in {"ok", "failed"}, pc[r] = "await",
               outcome' = [outcome EXCEPT ![r] = how]
        PROVE  /\ IsFiniteSet(Concluded') /\ Cardinality(Concluded') = Cardinality(Concluded) + 1
               /\ how = "ok" => Failures' = Failures
               /\ how = "failed" =>
                    /\ IsFiniteSet(Failures')
                    /\ Cardinality(Failures') = Cardinality(Failures) + 1
    <2>1. outcome[r] = "none"
      BY <1>2 DEF LoopOK, LoopOf, Undecided
    <2>2. Concluded' = Concluded \cup {r} /\ r \notin Concluded
      BY <1>0, <1>2, <2>1 DEF Concluded
    <2>3. /\ how = "ok" => Failures' = Failures
          /\ how = "failed" => Failures' = Failures \cup {r} /\ r \notin Failures
      BY <1>0, <1>2, <2>1 DEF Failures
    <2>4. IsFiniteSet(Concluded) /\ IsFiniteSet(Failures)
      BY DEF CountersOK
    <2> QED BY <2>2, <2>3, <2>4, FS_AddElement
  <1>3. CASE /\ pc[r] = "await" /\ outcome' = [outcome EXCEPT ![r] = "ok"]
             /\ health' = [requests |-> health.requests + 1, errors |-> health.errors]
    BY <1>2, <1>3 DEF CountersOK
  <1>4. CASE /\ pc[r] = "await" /\ outcome' = [outcome EXCEPT ![r] = "failed"]
             /\ health' = [requests |-> health.requests + 1, errors |-> health.errors + 1]
    BY <1>2, <1>4 DEF CountersOK
  <1> QED BY <1>1, <1>3, <1>4, OutcomeStep

\* A loop that ended well stays so: its answers can be kept.
LEMMA FetchedStays ==
  ASSUME TypeOK, LoopOK, NEW r \in Requests, Arrive(r) \/ Step(r) \/ Cancel(r)
  PROVE  /\ \A a : Fetched(a) /\ (a.by = "cloud" => a.origin \in Requests) => Fetched(a)'
         /\ FetchedExact \subseteq FetchedExact' /\ FetchedVectors \subseteq FetchedVectors'
  <1>1. \A s \in Requests : outcome[s] = "ok" => outcome'[s] = "ok"
    <2>1. pc[r] = "await" => outcome[r] = "none"
      BY DEF LoopOK, LoopOf, Undecided
    <2> QED BY <2>1, OutcomeStep DEF TypeOK
  <1>2. \A a : Fetched(a) /\ (a.by = "cloud" => a.origin \in Requests) => Fetched(a)'
    BY <1>1 DEF Fetched
  <1>3. \A a \in Answers : Fetched(a) => Fetched(a)'
    BY <1>2 DEF Answers
  <1>4. FetchedExact \subseteq FetchedExact'
    BY <1>3 DEF FetchedExact, ExactEntries
  <1>5. FetchedVectors \subseteq FetchedVectors'
    BY <1>3 DEF FetchedVectors, VectorEntries
  <1> QED BY <1>2, <1>4, <1>5
\* What a step takes from a cache, or answers itself, was fetched if it says so.
LEMMA ReplyFetched ==
  ASSUME TypeOK, LoopOK, OriginsOK, NEW r \in Requests, Arrive(r) \/ Step(r) \/ Cancel(r)
  PROVE  Fetched(reply[r].body)'
  <1> DEFINE key == ExactKey(in[r])
  <1>0. /\ reply \in [Requests -> Replies] /\ outcome \in [Requests -> {"none", "ok", "failed"}]
        /\ exact \in Seq(FetchedExact) /\ vectors \subseteq FetchedVectors
        /\ Fetched(reply[r].body)
    BY DEF TypeOK, OriginsOK
  <1>1. ASSUME NEW a \in Answers, Fetched(a), reply'[r].body = a
        PROVE  Fetched(reply[r].body)'
    BY <1>1, FetchedStays DEF Answers
  <1>2. ASSUME reply'[r].body.by # "cloud"
        PROVE  Fetched(reply[r].body)'
    BY <1>2 DEF Fetched
  <1>3. CASE reply' = reply
    <2>1. reply[r].body.by = "cloud" => reply[r].body.origin \in Requests
      BY <1>0 DEF Replies, NoReply, NotFound, NoBody, Answers
    <2> QED BY <1>0, <1>3, <2>1, FetchedStays
  <1>4. CASE ExactHit(r) \/ StaleFallback(r)
    <2>1. Cached(exact, key) /\ reply'[r].body = CachedValue(exact, key)
      BY <1>0, <1>4 DEF ExactHit, StaleFallback, FallbackFinds, Answer, Served
    <2>2. PICK e \in FetchedExact : e.val = CachedValue(exact, key)
      BY <1>0, <2>1, HitReturnsEntry
    <2>3. e.val \in Answers /\ Fetched(e.val)
      BY DEF FetchedExact, ExactEntries
    <2> QED BY <1>1, <2>1, <2>2, <2>3
  <1>5. CASE SemanticHit(r)
    <2>1. PICK e \in Match(r) : reply'[r].body = e.answer
      BY <1>0, <1>5 DEF SemanticHit, Answer, Served
    <2>2. e \in vectors
      BY DEF Match, BestMatch, Candidates, Live
    <2>3. e.answer \in Answers /\ Fetched(e.answer)
      BY <1>0, <2>2 DEF FetchedVectors, VectorEntries
    <2> QED BY <1>1, <2>1, <2>3
  <1>6. CASE UpstreamOk(r)
    BY <1>0, <1>6 DEF UpstreamOk, Answer, Response, Fetched
  <1>7. CASE ExactMiss(r) \/ Embed(r) \/ SemanticMiss(r)
    <2>1. reply' = reply \/ reply' = [reply EXCEPT ![r] = NotFound]
      BY <1>7 DEF ExactMiss, Embed, SemanticMiss, LeaveCaches, Answer
    <2> QED BY <1>0, <1>2, <1>3, <2>1 DEF NotFound, NoBody
  <1>8. CASE SlmAnswer(r) \/ Refuse(r) \/ BadGateway(r) \/ McpStore(r)
    <2>1. reply'[r].body.by \in {"slm", "error", "mcp"}
      BY <1>0, <1>8 DEF SlmAnswer, Refuse, BadGateway, McpStore, Answer, Response
    <2> QED BY <1>2, <2>1
  <1>9. CASE \/ Arrive(r) \/ Deflectable(r) \/ FallThrough(r) \/ Optimize(r)
             \/ CallUpstream(r) \/ UpstreamRetryable(r) \/ UpstreamFailed(r)
             \/ Capture(r) \/ InsertVector(r) \/ McpEmbed(r) \/ Cancel(r)
    BY <1>3, <1>9 DEF Arrive, Deflectable, FallThrough, Optimize, CallUpstream,
       UpstreamRetryable, UpstreamFailed, Capture, InsertVector, McpEmbed, Cancel
  <1> QED BY <1>4, <1>5, <1>6, <1>7, <1>8, <1>9 DEF Step

\* What a step leaves in the caches was fetched if it says so.
LEMMA CachesFetched ==
  ASSUME TypeInv, LoopOK, OriginsOK, NEW r \in Requests, Arrive(r) \/ Step(r) \/ Cancel(r)
  PROVE  exact' \in Seq(FetchedExact') /\ vectors' \subseteq FetchedVectors'
  <1> DEFINE key == ExactKey(in[r])
  <1>0. /\ TypeOK /\ StatusOK /\ in[r] \in Inputs /\ reply[r] \in Replies
        /\ exact \in Seq(FetchedExact) /\ vectors \subseteq FetchedVectors
        /\ Fetched(reply[r].body) /\ ExactCapacity \in Nat \ {0}
    BY BoundsAssumption DEF TypeInv, TypeOK, OriginsOK
  <1>1. FetchedExact \subseteq FetchedExact' /\ FetchedVectors \subseteq FetchedVectors'
    BY <1>0, FetchedStays
  <1>2. ASSUME exact' \in Seq(FetchedExact), vectors' \subseteq FetchedVectors
        PROVE  exact' \in Seq(FetchedExact') /\ vectors' \subseteq FetchedVectors'
    BY <1>1, <1>2
  <1>3. CASE ExactHit(r) \/ StaleFallback(r)
    <2>1. Cached(exact, key) /\ exact' = Promote(exact, key) /\ vectors' = vectors
      BY <1>3 DEF ExactHit, StaleFallback, FallbackFinds
    <2> QED BY <1>0, <1>2, <2>1, HitReturnsEntry
  <1>4. ASSUME NEW answer \in Answers, Fetched(answer), StoreExact(r, answer)
        PROVE  exact' \in Seq(FetchedExact)
    <2>1. [key |-> key, val |-> answer] \in FetchedExact
      BY <1>0, <1>4 DEF FetchedExact, ExactEntries
    <2> QED BY <1>0, <1>4, <2>1, PutType DEF StoreExact
  <1>5. CASE Capture(r)
    <2>1. vectors' = vectors
      BY <1>5 DEF Capture
    <2>2. CASE reply[r].status = 200 /\ UsesExact(r)
      <3>1. reply[r].body \in Answers
        BY <1>0, <2>2, ReplyBody
      <3> QED BY <1>0, <1>2, <1>4, <1>5, <2>1, <2>2, <3>1 DEF Capture
    <2>3. CASE ~(reply[r].status = 200 /\ UsesExact(r))
      BY <1>0, <1>2, <1>5, <2>1, <2>3 DEF Capture
    <2> QED BY <2>2, <2>3
  <1>6. CASE McpStore(r)
    <2>1. vectors' = vectors /\ StoreExact(r, [origin |-> r, by |-> "mcp"])
      BY <1>6 DEF McpStore
    <2>2. [origin |-> r, by |-> "mcp"] \in Answers /\ Fetched([origin |-> r, by |-> "mcp"])
      BY DEF Answers, Fetched
    <2> QED BY <1>0, <1>2, <1>4, <2>1, <2>2
  <1>7. CASE InsertVector(r)
    <2>1. vectors' \subseteq vectors \cup {NewEntry(r)} /\ exact' = exact
      BY <1>7, InsertKeeps DEF InsertVector
    <2>2. reply[r].body \in Answers
      BY <1>0, <1>7, ReplyBody DEF InsertVector, StatusOK
    <2>3. NewEntry(r) \in VectorEntries /\ NewEntry(r).answer = reply[r].body
      BY <1>0, <2>2, InputTypes DEF NewEntry, VectorEntries, TypeOK
    <2>4. NewEntry(r) \in FetchedVectors
      BY <1>0, <2>3 DEF FetchedVectors
    <2> QED BY <1>0, <1>2, <2>1, <2>4
  <1>8. CASE \/ Arrive(r) \/ ExactMiss(r) \/ Embed(r) \/ SemanticHit(r)
             \/ SemanticMiss(r) \/ Deflectable(r) \/ SlmAnswer(r) \/ FallThrough(r)
             \/ Optimize(r) \/ Refuse(r) \/ CallUpstream(r) \/ UpstreamOk(r)
             \/ UpstreamRetryable(r) \/ UpstreamFailed(r) \/ BadGateway(r)
             \/ McpEmbed(r) \/ Cancel(r)
    <2>1. UNCHANGED caches
      BY <1>8 DEF Arrive, ExactMiss, Embed, SemanticHit, SemanticMiss, Deflectable,
           SlmAnswer, FallThrough, Optimize, Refuse, CallUpstream, UpstreamOk,
           UpstreamRetryable, UpstreamFailed, BadGateway, McpEmbed, Cancel
    <2> QED BY <1>0, <1>2, <2>1 DEF caches
  <1> QED BY <1>3, <1>5, <1>6, <1>7, <1>8 DEF Step

LEMMA AccountsStep ==
  ASSUME TypeInv, AccountsInv, [Next]_vars
  PROVE  AccountsInv'
  <1>1. LoopOK'
    BY LoopStep DEF AccountsInv
  <1>2. ASSUME NEW r \in Requests, Arrive(r) \/ Step(r) \/ Cancel(r)
        PROVE  CountersOK' /\ OriginsOK'
    <2>1. TypeOK /\ LoopOK /\ CountersOK /\ OriginsOK
      BY DEF TypeInv, AccountsInv
    <2>2. ASSUME NEW s \in Requests, s # r PROVE Fetched(reply[s].body)'
      <3>1. reply'[s] = reply[s] /\ Fetched(reply[s].body) /\ reply[s] \in Replies
        BY <1>2, <2>1, <2>2, OthersStay DEF OriginsOK, TypeOK
      <3>2. reply[s].body.by = "cloud" => reply[s].body.origin \in Requests
        BY <3>1 DEF Replies, NoReply, NotFound, NoBody, Answers
      <3> QED BY <1>2, <2>1, <3>1, <3>2, FetchedStays
    <2>3. \A s \in Requests : Fetched(reply[s].body)'
      BY <1>2, <2>1, <2>2, ReplyFetched
    <2>4. OriginsOK'
      BY <1>2, <2>1, <2>3, CachesFetched DEF OriginsOK
    <2> QED BY <1>2, <2>1, <2>4, CountersStep
  <1>3. CASE Tick
    <2>1. UNCHANGED <<outcome, health, reply, exact, vectors>>
      BY <1>3 DEF Tick, local, caches
    <2> QED BY <1>1, <2>1 DEF AccountsInv, CountersOK, Concluded, Failures, OriginsOK,
            FetchedExact, FetchedVectors, Fetched
  <1>4. CASE UNCHANGED vars
    BY <1>1, <1>4 DEF vars, AccountsInv, CountersOK, Concluded, Failures, OriginsOK,
       FetchedExact, FetchedVectors, Fetched
  <1> QED BY <1>1, <1>2, <1>3, <1>4 DEF Next, Quiescent, AccountsInv

\* Every concluded retry loop is counted exactly once and rightly, whether a
\* stale entry hid its failure or its client left, and a 502 or a fresh cloud
\* answer reflects a loop that failed or succeeded (handler.rs
\* record_provider_success, record_provider_failure; state.rs).
THEOREM HealthIsAccurate == Spec => []HealthAccounts
  <1>1. Init => TypeInv /\ AccountsInv
    BY TypeInit, AccountsInit
  <1>2. TypeInv /\ AccountsInv /\ [Next]_vars => (TypeInv /\ AccountsInv)'
    BY TypeStep, AccountsStep
  <1>3. TypeInv /\ AccountsInv => HealthAccounts
    BY DEF AccountsInv, CountersOK, Concluded, Failures, LoopOK, LoopOf, OriginsOK,
       Fetched, HealthAccounts
  <1> QED BY <1>1, <1>2, <1>3, PTL DEF Spec
-----------------------------------------------------------------------------
(* The shape of the caches.                                                *)

ExactOK == Len(exact) <= ExactCapacity /\ KeysDistinct(exact)

\* The counter of insertions is above every slot and the clock is behind no
\* entry, so an entry that is pushed is the last and the youngest.
VectorsOK ==
  /\ IsFiniteSet(vectors) /\ Cardinality(vectors) <= VectorCapacity
  /\ \A e \in vectors : e.slot < inserts /\ e.created <= now
  /\ \A e, f \in vectors : e.slot < f.slot => e.created <= f.created
  /\ \A e, f \in vectors : e.slot = f.slot => e = f

ShapeOK == ExactOK /\ VectorsOK

LEMMA ShapeInit == Init => ShapeOK
  <1> SUFFICES ASSUME Init PROVE ShapeOK
    OBVIOUS
  <1>1. ExactOK
    BY BoundsAssumption DEF Init, ExactOK, KeysDistinct
  <1>2. VectorsOK
    BY BoundsAssumption, FS_EmptySet DEF Init, VectorsOK
  <1> QED BY <1>1, <1>2 DEF ShapeOK

\* Every step keeps the exact cache within its capacity and its keys distinct.
LEMMA ExactShape ==
  ASSUME TypeInv, ExactOK, NEW r \in Requests, Arrive(r) \/ Step(r) \/ Cancel(r)
  PROVE  ExactOK'
  <1> DEFINE key == ExactKey(in[r])
  <1>0. /\ TypeOK /\ exact \in Seq(ExactEntries) /\ in[r] \in Inputs
        /\ reply[r] \in Replies /\ ExactCapacity \in Nat \ {0}
    BY BoundsAssumption DEF TypeInv, TypeOK
  <1>1. ASSUME NEW answer \in Answers, StoreExact(r, answer)
        PROVE  ExactOK'
    <2>1. [key |-> key, val |-> answer] \in ExactEntries
      BY <1>0 DEF ExactEntries
    <2> QED BY <1>0, <1>1, <2>1, PutType, PutDistinct DEF StoreExact, ExactOK
  <1>2. CASE ExactHit(r) \/ StaleFallback(r)
    <2>1. Cached(exact, key) /\ exact' = Promote(exact, key)
      BY <1>2 DEF ExactHit, StaleFallback, FallbackFinds
    <2> QED BY <1>0, <2>1, HitReturnsEntry, PromoteDistinct DEF ExactOK
  <1>3. CASE Capture(r)
    <2>1. CASE reply[r].status = 200 /\ UsesExact(r)
      BY <1>0, <1>1, <1>3, <2>1, ReplyBody DEF Capture
    <2>2. CASE ~(reply[r].status = 200 /\ UsesExact(r))
      BY <1>3, <2>2 DEF Capture, ExactOK
    <2> QED BY <2>1, <2>2
  <1>4. CASE McpStore(r)
    <2>1. [origin |-> r, by |-> "mcp"] \in Answers
      BY DEF Answers
    <2> QED BY <1>1, <1>4, <2>1 DEF McpStore
  <1>5. CASE \/ Arrive(r) \/ ExactMiss(r) \/ Embed(r) \/ SemanticHit(r)
             \/ SemanticMiss(r) \/ Deflectable(r) \/ SlmAnswer(r) \/ FallThrough(r)
             \/ Optimize(r) \/ Refuse(r) \/ CallUpstream(r) \/ UpstreamOk(r)
             \/ UpstreamRetryable(r) \/ UpstreamFailed(r) \/ BadGateway(r)
             \/ InsertVector(r) \/ McpEmbed(r) \/ Cancel(r)
    <2>1. exact' = exact
      BY <1>5 DEF Arrive, ExactMiss, Embed, SemanticHit, SemanticMiss, Deflectable,
           SlmAnswer, FallThrough, Optimize, Refuse, CallUpstream, UpstreamOk,
           UpstreamRetryable, UpstreamFailed, BadGateway, InsertVector, McpEmbed,
           Cancel, caches
    <2> QED BY <2>1 DEF ExactOK
  <1> QED BY <1>2, <1>3, <1>4, <1>5 DEF Step

\* Every step keeps the vector cache within its capacity and in order.
LEMMA VectorsShape ==
  ASSUME TypeInv, VectorsOK, NEW r \in Requests, Arrive(r) \/ Step(r) \/ Cancel(r)
  PROVE  VectorsOK'
  <1>0. /\ vectors \subseteq VectorEntries /\ inserts \in Nat /\ now \in 0 .. MaxTime
        /\ VectorCapacity \in Nat \ {0}
    BY BoundsAssumption DEF TypeInv, TypeOK
  <1>1. CASE InsertVector(r)
    <2>1. /\ vectors' = Insert(vectors, NewEntry(r), now, VectorCapacity)
          /\ inserts' = inserts + 1 /\ now' = now
      BY <1>1 DEF InsertVector
    <2>2. vectors' \subseteq vectors \cup {NewEntry(r)}
      BY <2>1, InsertKeeps
    <2>3. NewEntry(r).slot = inserts /\ NewEntry(r).created = now
      BY DEF NewEntry
    <2>4. \A e \in vectors : e.slot \in Nat /\ e.created \in Nat
      BY <1>0 DEF VectorEntries
    <2>5. IsFiniteSet(vectors') /\ Cardinality(vectors') <= VectorCapacity
      BY <1>0, <2>1, <2>4, InsertBounded DEF VectorsOK
    <2>6. \A e \in vectors' : e.slot < inserts' /\ e.created <= now'
      BY <1>0, <2>1, <2>2, <2>3, <2>4 DEF VectorsOK
    <2>7. \A e, f \in vectors' : e.slot < f.slot => e.created <= f.created
      BY <1>0, <2>1, <2>2, <2>3, <2>4 DEF VectorsOK
    <2>8. \A e, f \in vectors' : e.slot = f.slot => e = f
      BY <1>0, <2>1, <2>2, <2>3, <2>4 DEF VectorsOK
    <2> QED BY <2>5, <2>6, <2>7, <2>8 DEF VectorsOK
  <1>2. CASE \/ Arrive(r) \/ ExactHit(r) \/ ExactMiss(r) \/ Embed(r) \/ SemanticHit(r)
             \/ SemanticMiss(r) \/ Deflectable(r) \/ SlmAnswer(r) \/ FallThrough(r)
             \/ Optimize(r) \/ Refuse(r) \/ CallUpstream(r) \/ UpstreamOk(r)
             \/ UpstreamRetryable(r) \/ UpstreamFailed(r) \/ StaleFallback(r)
             \/ BadGateway(r) \/ Capture(r) \/ McpStore(r) \/ McpEmbed(r) \/ Cancel(r)
    <2>1. UNCHANGED <<vectors, inserts, now>>
      BY <1>2 DEF Arrive, ExactHit, ExactMiss, Embed, SemanticHit, SemanticMiss,
           Deflectable, SlmAnswer, FallThrough, Optimize, Refuse, CallUpstream,
           UpstreamOk, UpstreamRetryable, UpstreamFailed, StaleFallback, BadGateway,
           Capture, McpStore, McpEmbed, Cancel, caches
    <2> QED BY <2>1 DEF VectorsOK
  <1> QED BY <1>1, <1>2 DEF Step

\* Neither cache ever outgrows its capacity or holds a key twice, and the entry
\* the vector cache evicts first is its oldest, whatever the order of
\* concurrent inserts and the clock (layer1/layer1a_cache.rs, vector_cache.rs
\* insert).
THEOREM CachesStayWellFormed == Spec => []CachesWellFormed
  <1>1. Init => TypeInv /\ ShapeOK
    BY TypeInit, ShapeInit
  <1>2. ASSUME TypeInv, ShapeOK, [Next]_vars PROVE ShapeOK'
    <2>1. ASSUME NEW r \in Requests, Arrive(r) \/ Step(r) \/ Cancel(r)
          PROVE  ShapeOK'
      BY <1>2, <2>1, ExactShape, VectorsShape DEF ShapeOK
    <2>2. CASE Tick
      <3>1. /\ UNCHANGED <<exact, vectors, inserts>> /\ now' = now + 1
            /\ now \in Nat /\ \A e \in vectors : e.created \in Nat
        BY <1>2, <2>2, BoundsAssumption DEF Tick, caches, TypeInv, TypeOK, VectorEntries
      <3> QED BY <1>2, <3>1 DEF ShapeOK, ExactOK, VectorsOK
    <2>3. CASE UNCHANGED vars
      BY <1>2, <2>3 DEF vars, ShapeOK, ExactOK, VectorsOK
    <2> QED BY <1>2, <2>1, <2>2, <2>3 DEF Next, Quiescent
  <1>3. TypeInv /\ ShapeOK /\ [Next]_vars => (TypeInv /\ ShapeOK)'
    BY <1>2, TypeStep
  <1>4. TypeInv /\ ShapeOK => CachesWellFormed
    BY DEF ShapeOK, ExactOK, VectorsOK, KeysDistinct, CachesWellFormed
  <1> QED BY <1>1, <1>3, <1>4, PTL DEF Spec

-----------------------------------------------------------------------------
(* The format of answers.                                                  *)

\* An answer that does not come out of the vector cache answers the key of r.
Keyed(r) ==
  reply[r].status = 200 /\ reply[r].layer # "l1b"
    => AnswersKey(reply[r].body, ExactKey(in[r]))

\* Every step keeps it so: what the exact cache holds under a key answers it,
\* and a handler answers its own request.
LEMMA KeyedStep ==
  ASSUME TypeInv, SoundInv, NEW r \in Requests, Keyed(r), Arrive(r) \/ Step(r) \/ Cancel(r)
  PROVE  Keyed(r)'
  <1> DEFINE key == ExactKey(in[r])
  <1>0. /\ reply \in [Requests -> Replies] /\ exact \in Seq(SoundExact) /\ in' = in
    BY OwnStep DEF TypeInv, TypeOK, SoundInv
  <1>1. ASSUME reply'[r].status = 200 => AnswersKey(reply'[r].body, key)
        PROVE  Keyed(r)'
    BY <1>0, <1>1 DEF Keyed, AnswersKey
  <1>2. CASE reply' = reply
    BY <1>0, <1>2 DEF Keyed, AnswersKey
  <1>3. CASE ExactHit(r) \/ StaleFallback(r)
    <2>1. Cached(exact, key) /\ reply'[r].body = CachedValue(exact, key)
      BY <1>0, <1>3 DEF ExactHit, StaleFallback, FallbackFinds, Answer, Served
    <2> QED BY <1>0, <1>1, <2>1, ExactSound
  <1>4. CASE SemanticHit(r)
    <2>1. reply'[r].layer = "l1b"
      BY <1>0, <1>4 DEF SemanticHit, Answer, Served
    <2> QED BY <2>1 DEF Keyed
  <1>5. CASE ExactMiss(r) \/ Embed(r) \/ SemanticMiss(r)
    <2>1. reply' = reply \/ reply' = [reply EXCEPT ![r] = NotFound]
      BY <1>5 DEF ExactMiss, Embed, SemanticMiss, LeaveCaches, Answer
    <2> QED BY <1>0, <1>1, <1>2, <2>1 DEF NotFound
  <1>6. CASE SlmAnswer(r) \/ UpstreamOk(r) \/ McpStore(r)
    <2>1. reply'[r].body \in Answers /\ reply'[r].body.origin = r
          /\ reply'[r].body.by # "error"
      BY <1>0, <1>6 DEF SlmAnswer, UpstreamOk, McpStore, Answer, Response, Answers
    <2> QED BY <1>1, <2>1 DEF AnswersKey
  <1>7. CASE Refuse(r) \/ BadGateway(r)
    <2>1. reply'[r].status \in {400, 502, 503}
      BY <1>0, <1>7 DEF Refuse, BadGateway, Answer, Response
    <2> QED BY <1>1, <2>1
  <1>8. CASE \/ Arrive(r) \/ Deflectable(r) \/ FallThrough(r) \/ Optimize(r)
             \/ CallUpstream(r) \/ UpstreamRetryable(r) \/ UpstreamFailed(r)
             \/ Capture(r) \/ InsertVector(r) \/ McpEmbed(r) \/ Cancel(r)
    BY <1>2, <1>8 DEF Arrive, Deflectable, FallThrough, Optimize, CallUpstream,
       UpstreamRetryable, UpstreamFailed, Capture, InsertVector, McpEmbed, Cancel
  <1> QED BY <1>3, <1>4, <1>5, <1>6, <1>7, <1>8 DEF Step

\* An answer of any layer but the semantic cache was produced for the same
\* request, question, session, model and format included; the embedder has no
\* say in it (middleware/cache.rs, handler.rs chat_handler fallback).  That a hit of
\* the semantic cache has the format of the request (OwnFormat) rests on the scores
\* of the embedder alone, and is not a theorem.
THEOREM OtherLayersAnswerTheRequest ==
  Spec => [](\A r \in Requests : reply[r].status = 200 /\ reply[r].layer # "l1b"
                => SameRequest(in[r], in[reply[r].body.origin]))
  <1> DEFINE AllKeyed == \A r \in Requests : Keyed(r)
             Same == \A r \in Requests : reply[r].status = 200 /\ reply[r].layer # "l1b"
                       => SameRequest(in[r], in[reply[r].body.origin])
  <1>1. Init => AllKeyed
    BY DEF Init, Keyed, NoReply
  <1>2. ASSUME TypeInv, SoundInv, AllKeyed, [Next]_vars PROVE AllKeyed'
    <2>1. ASSUME NEW r \in Requests, Arrive(r) \/ Step(r) \/ Cancel(r)
          PROVE  AllKeyed'
      <3>1. TypeOK
        BY <1>2 DEF TypeInv
      <3>2. in' = in /\ \A s \in Requests : s # r => reply'[s] = reply[s]
        BY <2>1, <3>1, OwnStep, OthersStay
      <3>3. \A s \in Requests : s # r => Keyed(s)'
        BY <1>2, <3>2 DEF Keyed, AnswersKey
      <3> QED BY <1>2, <2>1, <3>3, KeyedStep
    <2>2. CASE UNCHANGED <<reply, in>>
      BY <1>2, <2>2 DEF Keyed, AnswersKey
    <2> QED BY <1>2, <2>1, <2>2 DEF Next, Tick, Quiescent, vars, local
  <1>3. TypeInv /\ AllKeyed => Same
    BY KeyDeterminesRequest DEF TypeInv, TypeOK, Keyed, AnswersKey, Answers
  <1> HIDE DEF AllKeyed, Same
  <1>4. Spec => []Same
    BY <1>1, <1>2, <1>3, Soundness, PTL DEF Spec
  <1> QED BY <1>4 DEF Same

-----------------------------------------------------------------------------
(* Repeats.                                                                *)

\* The exact cache is used, and has room for the key of every request, whichever
\* requests are sent: there are few requests, or few keys.
KeysOf(sentIn) == {ExactKey(sentIn[r]) : r \in Requests}
RoomForEveryKey ==
  /\ CacheMode \in {"exact", "both"}
  /\ \A sentIn \in [Requests -> Inputs] :
       IsFiniteSet(KeysOf(sentIn)) /\ Cardinality(KeysOf(sentIn)) <= ExactCapacity

\* A repeat of what the answer was produced for will find one.
Kept(answer) == Cached(exact, ExactKey(in[answer.origin]))

\* Who holds what is kept: the vector cache, whoever is about to insert into it,
\* and whoever has been answered.
Holding(r) ==
  pc[r] \in {"insert", "store_embed"} \/ (pc[r] = "done" /\ reply[r].status = 200)

KeptOK ==
  /\ \A e \in vectors : Kept(e.answer)
  /\ \A r \in Requests : Holding(r) => Kept(reply[r].body)

\* No step makes the exact cache forget a key (layer1/layer1a_cache.rs).
LEMMA NothingForgotten ==
  ASSUME RoomForEveryKey, TypeInv, SoundInv, ExactOK,
         NEW r \in Requests, Arrive(r) \/ Step(r) \/ Cancel(r),
         NEW k, Cached(exact, k)
  PROVE  Cached(exact', k)
  <1> DEFINE key == ExactKey(in[r])
             keys == KeysOf(in)
  <1>0. /\ exact \in Seq(ExactEntries) /\ in \in [Requests -> Inputs]
        /\ ExactCapacity \in Nat \ {0} /\ Len(exact) <= ExactCapacity /\ KeysDistinct(exact)
    BY BoundsAssumption DEF TypeInv, TypeOK, ExactOK
  <1>1. IsFiniteSet(keys) /\ Cardinality(keys) <= ExactCapacity
    BY <1>0 DEF RoomForEveryKey
  <1>2. ASSUME NEW i \in DOMAIN exact PROVE exact[i].key \in keys
    <2>1. exact[i] \in SoundExact
      BY DEF SoundInv
    <2>2. /\ exact[i].key = ExactKey(in[exact[i].val.origin])
          /\ exact[i].val.origin \in Requests
      BY <2>1 DEF SoundExact, AnswersKey, Answers
    <2> QED BY <2>2 DEF KeysOf
  <1>3. key \in keys
    BY DEF KeysOf
  <1> HIDE DEF keys, key
  <1>4. ASSUME NEW answer, exact' = Put(exact, key, answer, ExactCapacity)
        PROVE  Cached(exact', k)
    BY <1>0, <1>1, <1>2, <1>3, <1>4, PutForgetsNothing
  <1>5. CASE ExactHit(r) \/ StaleFallback(r)
    <2>1. Cached(exact, key) /\ exact' = Promote(exact, key)
      BY <1>5 DEF ExactHit, StaleFallback, FallbackFinds, key
    <2> QED BY <1>0, <2>1, PromoteKeeps
  <1>6. CASE Capture(r) \/ McpStore(r)
    <2>1. exact' = exact \/ \E answer : exact' = Put(exact, key, answer, ExactCapacity)
      BY <1>6 DEF Capture, McpStore, StoreExact, key
    <2> QED BY <1>4, <2>1
  <1>7. CASE \/ Arrive(r) \/ ExactMiss(r) \/ Embed(r) \/ SemanticHit(r)
             \/ SemanticMiss(r) \/ Deflectable(r) \/ SlmAnswer(r) \/ FallThrough(r)
             \/ Optimize(r) \/ Refuse(r) \/ CallUpstream(r) \/ UpstreamOk(r)
             \/ UpstreamRetryable(r) \/ UpstreamFailed(r) \/ BadGateway(r)
             \/ InsertVector(r) \/ McpEmbed(r) \/ Cancel(r)
    BY <1>7 DEF Arrive, ExactMiss, Embed, SemanticHit, SemanticMiss, Deflectable,
       SlmAnswer, FallThrough, Optimize, Refuse, CallUpstream, UpstreamOk,
       UpstreamRetryable, UpstreamFailed, BadGateway, InsertVector, McpEmbed,
       Cancel, caches
  <1> QED BY <1>5, <1>6, <1>7 DEF Step

\* Whoever holds an answer after a step of its own holds one that is kept
\* (middleware/cache.rs, handler.rs cache_store_handler).
LEMMA OwnKept ==
  ASSUME RoomForEveryKey, TypeInv, SoundInv, ExactOK, KeptOK,
         NEW r \in Requests, Arrive(r) \/ Step(r) \/ Cancel(r), Holding(r)'
  PROVE  Kept(reply[r].body)'
  <1> DEFINE key == ExactKey(in[r])
  <1>0. /\ pc \in [Requests -> PCs] /\ reply \in [Requests -> Replies] /\ in' = in
        /\ \A k : Cached(exact, k) => Cached(exact', k)
        /\ exact \in Seq(SoundExact) /\ Carries(r)
        /\ Holding(r) => Kept(reply[r].body)
    BY OwnStep, NothingForgotten DEF TypeInv, TypeOK, SoundInv, KeptOK
  <1>1. ASSUME Kept(reply'[r].body) PROVE Kept(reply[r].body)'
    BY <1>0, <1>1 DEF Kept
  <1>2. CASE ExactHit(r)
    <2>1. Cached(exact, key) /\ reply'[r].body = CachedValue(exact, key)
      BY <1>0, <1>2 DEF ExactHit, Answer, Served
    <2>2. AnswersKey(reply'[r].body, key)
      BY <1>0, <2>1, ExactSound
    <2> QED BY <1>1, <2>1, <2>2 DEF Kept, AnswersKey
  <1>3. CASE SemanticHit(r)
    <2>1. Match(r) \subseteq vectors
      BY DEF Match, BestMatch, Candidates, Live
    <2>2. \E e \in vectors : reply'[r].body = e.answer
      BY <1>0, <1>3, <2>1 DEF SemanticHit, Answer, Served
    <2> QED BY <1>1, <2>2 DEF KeptOK
  <1>4. CASE ExactMiss(r) \/ Embed(r) \/ SemanticMiss(r)
    <2>1. \/ pc'[r] \in {"embed", "search", "classify"}
          \/ pc'[r] = "done" /\ reply'[r] = NotFound
      BY <1>0, <1>4 DEF ExactMiss, Embed, SemanticMiss, LeaveCaches, Goto, Answer
    <2> QED BY <2>1 DEF Holding, NotFound
  <1>5. CASE Capture(r)
    <2>1. reply' = reply /\ reply[r].status = 200
      <3>1. reply' = reply
        BY <1>5 DEF Capture
      <3>2. reply[r].status # 200 => pc'[r] = "done"
        BY <1>0, <1>5 DEF Capture, Goto
      <3> QED BY <3>1, <3>2 DEF Holding
    <2>2. AnswersKey(reply[r].body, key)
      BY <1>0, <1>5, <2>1 DEF Carries, Capture
    <2>3. StoreExact(r, reply[r].body)
      BY <1>5, <2>1 DEF Capture, UsesExact, RoomForEveryKey
    <2>4. Kept(reply[r].body)' \/ Cached(exact', key)
      <3>1. /\ exact \in Seq(ExactEntries) /\ ExactCapacity \in Nat \ {0}
            /\ Len(exact) <= ExactCapacity
        BY BoundsAssumption DEF TypeInv, TypeOK, ExactOK
      <3> QED BY <2>3, <3>1, PutKeeps DEF StoreExact
    <2> QED BY <1>0, <2>1, <2>2, <2>4 DEF Kept, AnswersKey
  <1>6. CASE InsertVector(r) \/ McpEmbed(r)
    <2>1. reply' = reply /\ Holding(r)
      BY <1>6 DEF InsertVector, McpEmbed, Holding
    <2> QED BY <1>0, <1>1, <2>1
  <1>7. CASE McpStore(r)
    <2> DEFINE answer == [origin |-> r, by |-> "mcp"]
    <2>1. StoreExact(r, answer) /\ reply'[r].body = answer
      BY <1>0, <1>7 DEF McpStore, Answer, Response
    <2>2. Cached(exact', key)
      <3>1. /\ exact \in Seq(ExactEntries) /\ ExactCapacity \in Nat \ {0}
            /\ Len(exact) <= ExactCapacity
        BY BoundsAssumption DEF TypeInv, TypeOK, ExactOK
      <3> QED BY <2>1, <3>1, PutKeeps DEF StoreExact
    <2> QED BY <1>0, <2>1, <2>2 DEF Kept
  <1>8. CASE \/ Arrive(r) \/ Deflectable(r) \/ SlmAnswer(r) \/ FallThrough(r)
             \/ Optimize(r) \/ Refuse(r) \/ CallUpstream(r) \/ UpstreamOk(r)
             \/ UpstreamRetryable(r) \/ UpstreamFailed(r) \/ StaleFallback(r)
             \/ BadGateway(r) \/ Cancel(r)
    <2>1. pc'[r] \notin {"insert", "store_embed", "done"}
      BY <1>0, <1>8 DEF Arrive, Deflectable, SlmAnswer, FallThrough, Optimize, Refuse,
         CallUpstream, UpstreamOk, UpstreamRetryable, UpstreamFailed, StaleFallback,
         BadGateway, Cancel, Goto
    <2> QED BY <2>1 DEF Holding
  <1> QED BY <1>2, <1>3, <1>4, <1>5, <1>6, <1>7, <1>8 DEF Step

LEMMA KeptStep ==
  ASSUME RoomForEveryKey, TypeInv, SoundInv, ExactOK, KeptOK, [Next]_vars
  PROVE  KeptOK'
  <1>1. ASSUME NEW r \in Requests, Arrive(r) \/ Step(r) \/ Cancel(r)
        PROVE  KeptOK'
    <2>0. TypeOK /\ in' = in
      BY <1>1, OwnStep DEF TypeInv
    <2>1. ASSUME NEW a, Kept(a) PROVE Kept(a)'
      BY <1>1, <2>0, <2>1, NothingForgotten DEF Kept
    <2>2. ASSUME NEW s \in Requests, Holding(s)' PROVE Kept(reply[s].body)'
      <3>1. CASE s = r
        BY <1>1, <2>2, <3>1, OwnKept
      <3>2. CASE s # r
        <4>1. pc'[s] = pc[s] /\ reply'[s] = reply[s]
          BY <1>1, <2>0, <3>2, OthersStay
        <4>2. Kept(reply[s].body)
          BY <2>2, <4>1 DEF Holding, KeptOK
        <4> QED BY <2>0, <2>1, <4>1, <4>2 DEF Kept
      <3> QED BY <3>1, <3>2
    <2>3. ASSUME NEW e \in vectors' PROVE Kept(e.answer)'
      <3>1. CASE e \in vectors
        BY <2>1, <3>1 DEF KeptOK
      <3>2. CASE e \notin vectors
        <4>1. InsertVector(r)
          BY <1>1, <2>3, <3>2 DEF Step, Arrive, ExactHit, ExactMiss, Embed, SemanticHit,
             SemanticMiss, Deflectable, SlmAnswer, FallThrough, Optimize, Refuse,
             CallUpstream, UpstreamOk, UpstreamRetryable, UpstreamFailed, StaleFallback,
             BadGateway, Capture, McpStore, McpEmbed, Cancel, caches
        <4>2. e = NewEntry(r) /\ pc[r] = "insert"
          BY <2>3, <3>2, <4>1, InsertKeeps DEF InsertVector
        <4>3. Kept(reply[r].body)
          BY <4>2 DEF KeptOK, Holding
        <4> QED BY <2>1, <4>2, <4>3 DEF NewEntry
      <3> QED BY <3>1, <3>2
    <2> QED BY <2>2, <2>3 DEF KeptOK
  <1>2. CASE UNCHANGED <<pc, in, reply, exact, vectors>>
    BY <1>2 DEF KeptOK, Kept, Holding
  <1> QED BY <1>1, <1>2 DEF Next, Tick, Quiescent, vars, local, caches

\* r has called nobody and never will: the MCP handlers do not, and a chat
\* request whose key is kept is on its way to a hit.
McpOnly ==
  {"idle", "exact", "embed", "search", "store", "store_embed", "insert", "done", "cancelled"}
Trapped(r) ==
  /\ attempts[r] = 0
  /\ IF IsMcp(r) THEN pc[r] \in McpOnly
     ELSE Cached(exact, ExactKey(in[r])) /\ pc[r] \in {"idle", "exact", "done", "cancelled"}

\* There is no way out of the trap (middleware/cache.rs, the lookup of Layer 1a).
LEMMA TrapHolds ==
  ASSUME RoomForEveryKey, TypeInv, SoundInv, ExactOK, NEW r \in Requests, Trapped(r),
         [Next]_vars
  PROVE  Trapped(r)'
  <1>0. /\ pc \in [Requests -> PCs] /\ in[r].route \in ChatRoutes \cup McpRoutes
        /\ attempts \in [Requests -> 0 .. MaxAttempts] /\ TypeOK
    BY InputsAssumption DEF TypeInv, TypeOK
  <1>1. ASSUME NEW s \in Requests, Arrive(s) \/ Step(s) \/ Cancel(s)
        PROVE  Trapped(r)'
    <2>0. in' = in /\ (Cached(exact, ExactKey(in[r])) => Cached(exact', ExactKey(in[r])))
      BY <1>0, <1>1, OwnStep, NothingForgotten
    <2>1. CASE s # r
      <3>1. pc'[r] = pc[r]
        BY <1>0, <1>1, <2>1, OthersStay
      <3>2. attempts'[r] = attempts[r]
        BY <1>0, <1>1, <2>1 DEF Step, Arrive, ExactHit, ExactMiss, Embed, SemanticHit,
           SemanticMiss, Deflectable, SlmAnswer, FallThrough, Optimize, Refuse,
           CallUpstream, UpstreamOk, UpstreamRetryable, UpstreamFailed, StaleFallback,
           BadGateway, Capture, InsertVector, McpStore, McpEmbed, Cancel
      <3> QED BY <2>0, <3>1, <3>2 DEF Trapped, IsMcp
    <2>2. CASE s = r /\ IsMcp(r)
      <3>1. pc[r] \in McpOnly
        BY <2>2 DEF Trapped
      <3>2. attempts' = attempts /\ pc'[r] \in McpOnly
        <4>1. CASE Arrive(r) \/ Cancel(r) \/ ExactHit(r) \/ SemanticHit(r)
          BY <1>0, <4>1 DEF Arrive, Cancel, ExactHit, SemanticHit, Goto, McpOnly
        <4>2. CASE ExactMiss(r) \/ Embed(r) \/ SemanticMiss(r)
          BY <1>0, <2>2, <4>2 DEF ExactMiss, Embed, SemanticMiss, LeaveCaches, Goto, McpOnly
        <4>3. CASE InsertVector(r) \/ McpStore(r) \/ McpEmbed(r)
          BY <1>0, <4>3 DEF InsertVector, McpStore, McpEmbed, Goto, McpOnly
        <4>4. CASE \/ Deflectable(r) \/ SlmAnswer(r) \/ FallThrough(r) \/ Optimize(r)
                   \/ Refuse(r) \/ CallUpstream(r) \/ UpstreamOk(r) \/ UpstreamRetryable(r)
                   \/ UpstreamFailed(r) \/ StaleFallback(r) \/ BadGateway(r) \/ Capture(r)
          BY <3>1, <4>4 DEF Deflectable, SlmAnswer, FallThrough, Optimize, Refuse,
             CallUpstream, UpstreamOk, UpstreamRetryable, UpstreamFailed, StaleFallback,
             BadGateway, Capture, McpOnly
        <4> QED BY <1>1, <2>2, <4>1, <4>2, <4>3, <4>4 DEF Step
      <3> QED BY <2>0, <2>2, <3>2 DEF Trapped, IsMcp
    <2>3. CASE s = r /\ ~IsMcp(r)
      <3>1. /\ Cached(exact, ExactKey(in[r])) /\ UsesExact(r)
            /\ pc[r] \in {"idle", "exact", "done", "cancelled"}
        BY <2>3 DEF Trapped, UsesExact, RoomForEveryKey
      <3>2. attempts' = attempts /\ pc'[r] \in {"exact", "done", "cancelled"}
        <4>1. CASE Arrive(r)
          BY <1>0, <2>3, <4>1 DEF Arrive, Goto, IsMcp, McpRoutes
        <4>2. CASE Cancel(r) \/ ExactHit(r)
          BY <1>0, <4>2 DEF Cancel, ExactHit, Goto
        <4>3. CASE Step(r) /\ ~ExactHit(r)
          BY <3>1, <4>3 DEF Step, ExactMiss, Embed, SemanticHit,
             SemanticMiss, Deflectable, SlmAnswer, FallThrough, Optimize, Refuse,
             CallUpstream, UpstreamOk, UpstreamRetryable, UpstreamFailed, StaleFallback,
             BadGateway, Capture, InsertVector, McpStore, McpEmbed
        <4> QED BY <1>1, <2>3, <4>1, <4>2, <4>3
      <3> QED BY <2>0, <2>3, <3>1, <3>2 DEF Trapped, IsMcp
    <2> QED BY <2>1, <2>2, <2>3
  <1>2. CASE UNCHANGED <<pc, in, attempts, exact>>
    BY <1>2 DEF Trapped, IsMcp
  <1> QED BY <1>1, <1>2 DEF Next, Tick, Quiescent, vars, local, caches

\* What is asked again is written down under the same key (core/prompt.rs).
LEMMA AskedAgainSameKey ==
  ASSUME NEW p \in Inputs, NEW q \in Inputs, AsksAgain(p, q)
  PROVE  ExactKey(p) = ExactKey(q)
  <1>1. CacheNs(p) = CacheNs(q) /\ p.scope = q.scope
    BY InputsAssumption DEF AsksAgain, SameRequest, SameFormat, CacheNs, ChatRoutes, McpRoutes
  <1>2. /\ p.form = q.form /\ p.question = q.question /\ p.tooling = q.tooling
        /\ p.sys = q.sys /\ (p.sys = "text" => p.ctx = q.ctx)
    BY DEF AsksAgain, SameRequest
  <1>3. Material(p).model = Material(q).model
    BY InputsAssumption DEF AsksAgain, SameRequest, BarePrompt, Material
  <1>4. Material(p) = Material(q)
    BY <1>2, <1>3 DEF Material
  <1> QED BY <1>1, <1>4 DEF ExactKey

\* An agent loop is trapped: for any number of requests, capacities with room for
\* every key, any embedder and any interleaving, what has been answered once is
\* never asked of the cloud again (middleware/cache.rs, cache_middleware).
THEOREM RepeatsAreDeflected ==
  ASSUME RoomForEveryKey
  PROVE  Spec => RepeatsDeflected
  <1> DEFINE Inv == TypeInv /\ SoundInv /\ ExactOK /\ KeptOK
  <1>1. Init => Inv
    <2> SUFFICES ASSUME Init PROVE Inv
      OBVIOUS
    <2>1. KeptOK
      BY DEF Init, KeptOK, Holding
    <2> QED BY <2>1, TypeInit, SoundInit, ShapeInit DEF ShapeOK
  <1>2. Inv /\ [Next]_vars => Inv'
    <2> SUFFICES ASSUME Inv, [Next]_vars PROVE Inv'
      OBVIOUS
    <2>1. ExactOK'
      BY ExactShape DEF Next, Tick, Quiescent, vars, caches, ExactOK
    <2> QED BY <2>1, TypeStep, SoundStep, KeptStep
  <1>3. ASSUME NEW r \in Requests, NEW s \in Requests
        PROVE  Spec => Deflected(r, s)
    <2> DEFINE Repeat == /\ pc[r] = "idle" /\ pc[s] = "done" /\ reply[s].status = 200
                         /\ AsksAgain(in[r], in[reply[s].body.origin])
               Silent == attempts[r] = 0
    <2>1. Inv /\ Repeat => Trapped(r)
      <3> SUFFICES ASSUME Inv, Repeat PROVE Trapped(r)
        OBVIOUS
      <3>1. reply[s].body.origin \in Requests /\ in \in [Requests -> Inputs] /\ attempts[r] = 0
        BY ReplyBody DEF TypeInv, TypeOK, AttemptsOK, BeforeCloud, Answers
      <3>2. Cached(exact, ExactKey(in[reply[s].body.origin]))
        BY DEF KeptOK, Holding, Kept
      <3>3. Cached(exact, ExactKey(in[r]))
        BY <3>1, <3>2, AskedAgainSameKey
      <3> QED BY <3>1, <3>3 DEF Trapped, McpOnly
    <2>2. Inv /\ Trapped(r) /\ [Next]_vars => Trapped(r)'
      BY TrapHolds
    <2>3. Trapped(r) => Silent
      BY DEF Trapped
    <2> HIDE DEF Inv, Repeat, Silent
    <2>4. Spec => [](Repeat => []Silent)
      BY <1>1, <1>2, <2>1, <2>2, <2>3, PTL DEF Spec
    <2> QED BY <2>4 DEF Deflected, Repeat, Silent
  <1> QED BY <1>3 DEF RepeatsDeflected
-----------------------------------------------------------------------------
(* The gateway keeps the promise of a deflection stack.                    *)

Given == [q \in Requests |-> GivenTo(q)]

LEMMA PromiseTypes ==
  ASSUME TypeOK, NEW r \in Requests
  PROVE  /\ Given[r] = GivenTo(r)
         /\ reply[r] = NoReply => Given[r] = Promised!Waiting
         /\ reply[r].status = 200 => Given[r] = Promised!AnsweredFrom(reply[r].body.origin)
  BY DEF Given, GivenTo, NoReply, Promised!Waiting, Promised!AnsweredFrom

\* A step that answers a waiting request gives it something, and no other.
LEMMA Gives ==
  ASSUME TypeOK, NEW r \in Requests, Step(r), reply[r] = NoReply
  PROVE  /\ Given[r] = Promised!Waiting
         /\ reply'[r].status = 200 =>
              Given' = [Given EXCEPT ![r] = Promised!AnsweredFrom(reply'[r].body.origin)]
         /\ reply'[r].status \notin {0, 200} =>
              Given' = [Given EXCEPT ![r] = Promised!Refused]
  <1>1. Given[r] = Promised!Waiting
    BY PromiseTypes
  <1>2. \A q \in Requests : q # r => reply'[q] = reply[q]
    BY OthersStay
  <1>3. /\ reply'[r].status = 200
             => GivenTo(r)' = Promised!AnsweredFrom(reply'[r].body.origin)
        /\ reply'[r].status \notin {0, 200} => GivenTo(r)' = Promised!Refused
    BY DEF GivenTo, Promised!AnsweredFrom, Promised!Refused
  <1>4. \A q \in Requests : q # r => GivenTo(q)' = GivenTo(q)
    BY <1>2 DEF GivenTo
  <1>5. ASSUME NEW what, GivenTo(r)' = what
        PROVE  Given' = [Given EXCEPT ![r] = what]
    BY <1>4, <1>5 DEF Given
  <1> QED BY <1>1, <1>3, <1>5

LEMMA GivenStays ==
  ASSUME reply' = reply
  PROVE  Given' = Given
  BY DEF Given, GivenTo

\* Equal keys may share an answer.
LEMMA KeysShare ==
  ASSUME NEW p \in Inputs, NEW q \in Inputs, ExactKey(p) = ExactKey(q)
  PROVE  MayShare(p, q)
  BY KeyDeterminesRequest DEF MayShare

\* A hit of the exact cache, on the way in or as the last resort, reuses an
\* answer that is kept (cache.rs exact lookup, handler.rs stale fallback).
LEMMA ExactReuses ==
  ASSUME TypeInv, SoundInv, LoopOK, NEW r \in Requests, ExactHit(r) \/ StaleFallback(r)
  PROVE  Promised!Reuse(r)
  <1> DEFINE key == ExactKey(in[r])
             a == CachedValue(exact, key)
  <1>0. TypeOK /\ in \in [Requests -> Inputs] /\ exact \in Seq(SoundExact)
    BY DEF TypeInv, TypeOK, SoundInv
  <1>1. Cached(exact, key) /\ exact' = Promote(exact, key) /\ vectors' = vectors
    BY DEF ExactHit, StaleFallback, FallbackFinds
  <1>2. AnswersKey(a, key)
    BY <1>0, <1>1, ExactSound
  <1>3. a \in Values(exact) /\ Values(exact') = Values(exact)
    BY <1>0, <1>1, PromoteValues
  <1>4. KeptAnswers' = KeptAnswers /\ a.origin \in KeptAnswers
    BY <1>1, <1>3 DEF KeptAnswers
  <1>5. a.origin \in Requests /\ MayShare(in[r], in[a.origin])
    BY <1>0, <1>2, KeysShare DEF AnswersKey, Answers
  <1>6. reply[r] = NoReply
    BY DEF ExactHit, StaleFallback, LoopOK, LoopOf, Undecided
  <1>7. PICK layer : reply' = [reply EXCEPT ![r] = Served(layer, a)]
    BY DEF ExactHit, StaleFallback, Answer
  <1>8. reply'[r].status = 200 /\ reply'[r].body.origin = a.origin
    BY <1>0, <1>7 DEF Served, TypeOK
  <1>9. Promised!Give(r, Promised!AnsweredFrom(a.origin))
    <2>1. Given[r] = Promised!Waiting /\ Given' = [Given EXCEPT ![r] = Promised!AnsweredFrom(a.origin)]
      BY <1>0, <1>6, <1>8, Gives DEF Step
    <2> QED BY <2>1 DEF Promised!Give, Given
  <1> QED BY <1>4, <1>5, <1>9 DEF Promised!Reuse

\* A hit of the vector cache reuses an answer that is kept.
LEMMA SemanticReuses ==
  ASSUME TypeInv, SoundInv, LoopOK, NEW r \in Requests, SemanticHit(r)
  PROVE  Promised!Reuse(r)
  <1>0. TypeOK /\ in \in [Requests -> Inputs] /\ vectors \subseteq SoundVectors /\ Carries(r)
    BY DEF TypeInv, TypeOK, SoundInv
  <1>1. PICK e \in Match(r) : reply' = [reply EXCEPT ![r] = Served("l1b", e.answer)]
    BY DEF SemanticHit, Answer
  <1>2. e \in vectors /\ e.scope = in[r].scope
        /\ Score(SemanticInput(in[r]), e.input) >= Threshold
    BY DEF Match, BestMatch, Candidates, Live
  <1>3. PICK m \in Requests : InsertedFor(e, m)
    BY <1>0, <1>2 DEF SoundVectors
  <1>4. SemanticallyClose(in[r], in[m])
    BY <1>0, <1>2, <1>3 DEF SemanticHit, SemanticallyClose, InsertedFor, Carries
  <1>5. e.answer.origin \in Requests /\ ExactKey(in[e.answer.origin]) = ExactKey(in[m])
    BY <1>3 DEF InsertedFor, AnswersKey, Answers
  <1>6. MayShare(in[r], in[e.answer.origin])
    <2>1. SameRequest(in[m], in[e.answer.origin])
      BY <1>0, <1>5, KeyDeterminesRequest
    <2> QED BY <1>0, <1>4, <2>1 DEF MayShare
  <1>7. e.answer.origin \in KeptAnswers
    BY <1>2 DEF KeptAnswers
  <1>8. KeptAnswers' = KeptAnswers
    BY DEF SemanticHit, caches, KeptAnswers
  <1>9. reply[r] = NoReply
    BY DEF SemanticHit, LoopOK, LoopOf, Undecided
  <1>10. Promised!Give(r, Promised!AnsweredFrom(e.answer.origin))
    <2>1. reply'[r].status = 200 /\ reply'[r].body.origin = e.answer.origin
      BY <1>0, <1>1 DEF Served, TypeOK
    <2>2. /\ Given[r] = Promised!Waiting
          /\ Given' = [Given EXCEPT ![r] = Promised!AnsweredFrom(e.answer.origin)]
      BY <1>0, <1>9, <2>1, Gives DEF Step
    <2> QED BY <2>2 DEF Promised!Give, Given
  <1> QED BY <1>6, <1>7, <1>8, <1>10 DEF Promised!Reuse

\* Storing an answer of origin o under any key keeps it.
LEMMA StoreKeeps ==
  ASSUME TypeOK, NEW r \in Requests, NEW a, StoreExact(r, a), vectors' = vectors
  PROVE  Promised!Keeping(a.origin)
  <1>1. /\ exact' = Put(exact, ExactKey(in[r]), a, ExactCapacity)
        /\ exact \in Seq(ExactEntries) /\ ExactCapacity \in Nat \ {0}
    BY BoundsAssumption DEF StoreExact, TypeOK
  <1>2. a \in Values(exact') /\ Values(exact') \subseteq Values(exact) \cup {a}
    BY <1>1, PutValues
  <1>3. a.origin \in KeptAnswers'
    BY <1>2 DEF KeptAnswers
  <1>4. KeptAnswers' \subseteq KeptAnswers \cup {a.origin}
    BY <1>2 DEF KeptAnswers
  <1> QED BY <1>3, <1>4 DEF Promised!Keeping

\* The steps that answer a request from its own work, or not at all.
LEMMA OwnWork ==
  ASSUME TypeInv, LoopOK, NEW r \in Requests
  PROVE  /\ SlmAnswer(r) \/ UpstreamOk(r) \/ McpStore(r) => Promised!Produce(r)
         /\ Refuse(r) \/ BadGateway(r) => Promised!Refuse(r)
  <1>0. TypeOK
    BY DEF TypeInv
  <1>1. ASSUME SlmAnswer(r) \/ UpstreamOk(r) \/ McpStore(r)
        PROVE  Promised!Produce(r)
    <2>1. reply[r] = NoReply
      BY <1>1 DEF SlmAnswer, UpstreamOk, McpStore, LoopOK, LoopOf, Undecided
    <2>2. PICK layer, by : reply' = [reply EXCEPT ![r] = Response(200, layer, r, by)]
      BY <1>1 DEF SlmAnswer, UpstreamOk, McpStore, Answer
    <2>3. reply'[r].status = 200 /\ reply'[r].body.origin = r
      BY <1>0, <2>2 DEF Response, TypeOK
    <2>4. Promised!Give(r, Promised!AnsweredFrom(r))
      <3>1. Given[r] = Promised!Waiting /\ Given' = [Given EXCEPT ![r] = Promised!AnsweredFrom(r)]
        BY <1>0, <1>1, <2>1, <2>3, Gives DEF Step
      <3> QED BY <3>1 DEF Promised!Give, Given
    <2>5. CASE SlmAnswer(r) \/ UpstreamOk(r)
      <3>1. KeptAnswers' = KeptAnswers
        BY <2>5 DEF SlmAnswer, UpstreamOk, caches, KeptAnswers
      <3> QED BY <2>4, <3>1 DEF Promised!Produce
    <2>6. CASE McpStore(r)
      <3> DEFINE a == [origin |-> r, by |-> "mcp"]
      <3>1. StoreExact(r, a) /\ vectors' = vectors /\ a.origin = r
        BY <2>6 DEF McpStore
      <3> HIDE DEF a
      <3>2. Promised!Keeping(r)
        BY <1>0, <3>1, StoreKeeps
      <3> QED BY <2>4, <3>2 DEF Promised!Produce
    <2> QED BY <1>1, <2>5, <2>6
  <1>2. ASSUME Refuse(r) \/ BadGateway(r)
        PROVE  Promised!Refuse(r)
    <2>1. reply[r] = NoReply
      BY <1>2 DEF Refuse, BadGateway, LoopOK, LoopOf, Undecided
    <2>2. PICK status \in {400, 502, 503}, layer \in {"none", "l3"} :
            reply' = [reply EXCEPT ![r] = Response(status, layer, r, "error")]
      BY <1>2 DEF Refuse, BadGateway, Answer
    <2>3. reply'[r].status \notin {0, 200}
      BY <1>0, <2>2 DEF Response, TypeOK
    <2>4. KeptAnswers' = KeptAnswers
      BY <1>2 DEF Refuse, BadGateway, caches, KeptAnswers
    <2>5. Promised!Give(r, Promised!Refused)
      <3>1. Given[r] = Promised!Waiting /\ Given' = [Given EXCEPT ![r] = Promised!Refused]
        BY <1>0, <1>2, <2>1, <2>3, Gives DEF Step
      <3> QED BY <3>1 DEF Promised!Give, Given
    <2> QED BY <2>4, <2>5 DEF Promised!Refuse
  <1> QED BY <1>1, <1>2

\* What is captured or inserted has been given.
LEMMA StepKeeps ==
  ASSUME TypeInv, NEW r \in Requests, Capture(r) \/ InsertVector(r)
  PROVE  Promised!Keep(r) \/ (KeptAnswers' = KeptAnswers /\ Given' = Given)
  <1>0. TypeOK /\ StatusOK /\ reply' = reply /\ reply[r] \in Replies /\ Given' = Given
    BY GivenStays DEF TypeInv, TypeOK, Capture, InsertVector
  <1> DEFINE a == reply[r].body
  <1>1. ASSUME reply[r].status = 200, Promised!Keeping(a.origin)
        PROVE  Promised!Keep(r)
    <2>1. a.origin \in Requests
      BY <1>0, <1>1, ReplyBody DEF Answers
    <2>2. Given[r] = Promised!AnsweredFrom(a.origin)
      BY <1>0, <1>1, PromiseTypes
    <2> QED BY <1>0, <1>1, <2>1, <2>2 DEF Promised!Keep, Given
  <1>2. CASE Capture(r)
    <2>1. CASE reply[r].status = 200 /\ UsesExact(r)
      <3>1. StoreExact(r, a) /\ vectors' = vectors
        BY <1>2, <2>1 DEF Capture
      <3> QED BY <1>0, <1>1, <2>1, <3>1, StoreKeeps
    <2>2. CASE ~(reply[r].status = 200 /\ UsesExact(r))
      BY <1>0, <1>2, <2>2 DEF Capture, KeptAnswers
    <2> QED BY <2>1, <2>2
  <1>3. CASE InsertVector(r)
    <2>1. reply[r].status = 200 /\ exact' = exact
      BY <1>0, <1>3 DEF InsertVector, StatusOK
    <2>2. NewEntry(r).answer = a
      BY DEF NewEntry
    <2> DEFINE entry == NewEntry(r)
    <2>3. vectors' = Insert(vectors, entry, now, VectorCapacity)
      BY <1>3 DEF InsertVector
    <2>4. entry.answer = a
      BY <2>2
    <2> HIDE DEF entry, a
    <2>5. vectors' \subseteq vectors \cup {entry} /\ entry \in vectors'
      BY <2>3, InsertKeeps DEF Insert
    <2>6. Promised!Keeping(a.origin)
      BY <2>1, <2>4, <2>5 DEF Promised!Keeping, KeptAnswers
    <2> QED BY <1>1, <2>1, <2>6
  <1> QED BY <1>2, <1>3

\* The layers miss: an MCP lookup is told so, a chat request goes on.
LEMMA Leaving ==
  ASSUME TypeInv, LoopOK, NEW r \in Requests, Step(r), pc[r] \in Undecided,
         LeaveCaches(r), UNCHANGED caches
  PROVE  Promised!Refuse(r) \/ (KeptAnswers' = KeptAnswers /\ Given' = Given)
  <1>1. TypeOK /\ reply[r] = NoReply /\ KeptAnswers' = KeptAnswers
    BY DEF TypeInv, LoopOK, LoopOf, caches, KeptAnswers
  <1>2. CASE IsMcp(r)
    <2>1. reply'[r].status = 204
      BY <1>1, <1>2 DEF LeaveCaches, Answer, NotFound, TypeOK
    <2>2. Promised!Give(r, Promised!Refused)
      <3>1. Given[r] = Promised!Waiting /\ Given' = [Given EXCEPT ![r] = Promised!Refused]
        BY <1>1, <2>1, Gives
      <3> QED BY <3>1 DEF Promised!Give, Given
    <2> QED BY <1>1, <2>2 DEF Promised!Refuse
  <1>3. CASE ~IsMcp(r)
    BY <1>1, <1>3, GivenStays DEF LeaveCaches
  <1> QED BY <1>2, <1>3

LEMMA PromiseStep ==
  ASSUME TypeInv, SoundInv, LoopOK, NEW r \in Requests, Arrive(r) \/ Step(r) \/ Cancel(r)
  PROVE  Promised!Next \/ UNCHANGED <<in, Given, KeptAnswers>>
  <1>0. in' = in
    BY OwnStep DEF TypeInv
  <1>1. ASSUME \/ Promised!Produce(r) \/ Promised!Reuse(r) \/ Promised!Refuse(r)
               \/ Promised!Keep(r)
        PROVE  Promised!Next
    BY <1>0, <1>1 DEF Promised!Next
  <1>2. CASE ExactHit(r) \/ StaleFallback(r) \/ SemanticHit(r)
    BY <1>1, <1>2, ExactReuses, SemanticReuses
  <1>3. CASE SlmAnswer(r) \/ UpstreamOk(r) \/ McpStore(r) \/ Refuse(r) \/ BadGateway(r)
    BY <1>1, <1>3, OwnWork
  <1>4. CASE Capture(r) \/ InsertVector(r)
    BY <1>0, <1>1, <1>4, StepKeeps
  <1>5. CASE ExactMiss(r) \/ Embed(r) \/ SemanticMiss(r)
    <2>1. UNCHANGED caches /\ pc[r] \in Undecided
      BY <1>5 DEF ExactMiss, Embed, SemanticMiss, Undecided
    <2>2. CASE LeaveCaches(r)
      BY <1>0, <1>1, <1>5, <2>1, <2>2, Leaving DEF Step
    <2>3. CASE UNCHANGED reply
      BY <1>0, <2>1, <2>3, GivenStays DEF caches, KeptAnswers
    <2> QED BY <1>5, <2>2, <2>3 DEF ExactMiss, Embed, SemanticMiss
  <1>6. CASE \/ Arrive(r) \/ Deflectable(r) \/ FallThrough(r) \/ Optimize(r)
             \/ CallUpstream(r) \/ UpstreamRetryable(r) \/ UpstreamFailed(r)
             \/ McpEmbed(r) \/ Cancel(r)
    <2>1. UNCHANGED <<reply, caches>>
      BY <1>6 DEF Arrive, Deflectable, FallThrough, Optimize, CallUpstream,
           UpstreamRetryable, UpstreamFailed, McpEmbed, Cancel
    <2> QED BY <1>0, <2>1, GivenStays DEF caches, KeptAnswers
  <1> QED BY <1>2, <1>3, <1>4, <1>5, <1>6 DEF Step

\* The gateway implements Deflection: whatever layers, caches and handlers a
\* request goes through, it is answered once, with its own answer or with one
\* a cache holds and that was given before (middleware/cache.rs, handler.rs).
THEOREM GatewayKeepsThePromise == Spec => ImplementsDeflection
  <1> DEFINE Inv == TypeInv /\ SoundInv /\ LoopOK
  <1>1. Init => Inv
    BY TypeInit, SoundInit, LoopInit
  <1>2. Inv /\ [Next]_vars => Inv'
    BY TypeStep, SoundStep, LoopStep
  <1>3. Init => Promised!Init
    <2> SUFFICES ASSUME Init PROVE Promised!Init
      OBVIOUS
    <2>1. \A r \in Requests : GivenTo(r) = Promised!Waiting
      BY DEF Init, NoReply, GivenTo, Promised!Waiting
    <2>2. KeptAnswers = {}
      BY DEF Init, KeptAnswers, Values
    <2> QED BY <2>1, <2>2 DEF Init, Promised!Init
  <1>4. Inv /\ [Next]_vars => [Promised!Next]_(Promised!vars)
    <2> SUFFICES ASSUME Inv, [Next]_vars PROVE Promised!Next \/ UNCHANGED <<in, Given, KeptAnswers>>
      BY DEF Promised!vars, Given
    <2>1. ASSUME UNCHANGED <<in, reply, exact, vectors>>
          PROVE  UNCHANGED <<in, Given, KeptAnswers>>
      BY <2>1, GivenStays DEF KeptAnswers
    <2> QED BY <2>1, PromiseStep DEF Next, Tick, Quiescent, vars, local, caches
  <1> HIDE DEF Inv
  <1> QED BY <1>1, <1>2, <1>3, <1>4, PTL DEF Spec, ImplementsDeflection, Promised!Spec

\* What follows for the gateway: whoever is answered shares the answer of a
\* request that was given it first, and no answer is ever taken back.
THEOREM GatewayAnswersFirstHand == Spec => []Promised!FirstHand /\ Promised!AnsweredOnce
  BY GatewayKeepsThePromise, Promised!AnswersAreFirstHand, Promised!AnswersAreFinal, PTL
     DEF ImplementsDeflection
=============================================================================
