------------------------- MODULE ConnectProxyProofs -------------------------
(***************************************************************************)
(* Proofs about ConnectProxy, for every set of connections and inputs,     *)
(* every similarity score, capacity and configuration.                     *)
(***************************************************************************)
EXTENDS ConnectProxy, CacheLemmas, TLAPS

\* Entries kept for the connection that produced them.
OwnExact ==
  {e \in ExactEntries : /\ e.key = KeyOf(e.val.origin)
                        /\ in[e.val.origin].kind \in {"chat", "gateway"}}
OwnVectors == {e \in VectorEntries : e.input = TextOf(in[e.answer.origin])}

\* What is on its way into the vector cache is the connection's own answer.
OwnInsert ==
  \A c \in Connections : pc[c] = "insert" =>
    reply[c].layer \in {"l2", "l3", "gateway"}

\* Only chat requests walk through the layers.
KindOK ==
  \A c \in Connections : /\ pc[c] \in {"lookup", "search", "slm"} => in[c].kind = "chat"
                         /\ pc[c] = "insert" => in[c].kind \in {"chat", "gateway"}

CachesOwn == exact \in Seq(OwnExact) /\ vectors \subseteq OwnVectors

\* The inductive invariant.
IInv == TypeOK /\ CachesOwn /\ KindOK /\ OwnInsert /\ AnswersJustified

-----------------------------------------------------------------------------
(* Values.                                                                 *)

\* A connection's key is one of the keys (resolve_intercepted_request and
\* cache_response build it, as does the gateway).
LEMMA KeyTypes ==
  ASSUME NEW c \in Connections, TypeOK
  PROVE  KeyOf(c) \in Keys /\ in[c] \in Inputs
  <1>1. in[c] \in Inputs
    BY DEF TypeOK
  <1> QED BY <1>1 DEF Keys, KeyOf

LEMMA ReplyTypes ==
  /\ \A status \in {200, 400, 500, 503}, layer \in {"none", "l2", "l3", "blocked", "gateway"},
        c \in Connections, by \in {"slm", "upstream", "gateway", "error"} :
       Response(status, layer, c, by) \in Replies
  /\ \A layer \in {"l1a", "l1b"}, answer \in Answers : Served(layer, answer) \in Replies
  <1>1. ASSUME NEW status \in {200, 400, 500, 503},
               NEW layer \in {"none", "l2", "l3", "blocked", "gateway"},
               NEW c \in Connections, NEW by \in {"slm", "upstream", "gateway", "error"}
        PROVE  Response(status, layer, c, by) \in Replies
    <2>1. [origin |-> c, by |-> by] \in Answers
      BY DEF Answers
    <2> QED BY <2>1 DEF Replies, Response
  <1>2. ASSUME NEW layer \in {"l1a", "l1b"}, NEW answer \in Answers
        PROVE  Served(layer, answer) \in Replies
    BY DEF Replies, Served
  <1> QED BY <1>1, <1>2

\* A response of one's own is justified.
LEMMA OwnResponse ==
  ASSUME NEW c, NEW status, NEW by, NEW layer, layer \notin {"l1a", "l1b"}
  PROVE  Justified(c, Response(status, layer, c, by))
  BY DEF Justified, Response

\* A reply with one of the layers that produce an answer carries an answer.
LEMMA ReplyBody ==
  ASSUME NEW x \in Replies, x.layer # "none"
  PROVE  x.body \in Answers /\ x.body.origin \in Connections
  BY DEF Replies, NoReply, Answers

\* A decision that is recorded is well formed (record_proxy_decision).
LEMMA RecordType ==
  ASSUME log \in Seq(Decisions), NEW c \in Connections, NEW status \in Statuses
  PROVE  Record(c, status) \in Seq(Decisions)
  <1> DEFINE longer == <<[conn |-> c, status |-> status]>> \o log
  <1>1. [conn |-> c, status |-> status] \in Decisions
    BY DEF Decisions
  <1>2. longer \in Seq(Decisions)
    BY <1>1
  <1>3. ASSUME Len(longer) > LogCapacity
        PROVE  SubSeq(longer, 1, LogCapacity) \in Seq(Decisions)
    <2> HIDE DEF longer
    <2> QED BY <1>2, <1>3, ProxyBoundsAssumption
  <1> QED BY <1>2, <1>3 DEF Record

\* A reply has one of the statuses a decision may have.
LEMMA ReplyStatus ==
  ASSUME TypeOK, NEW c \in Connections
  PROVE  reply[c].status \in Statuses
  <1>1. reply[c] \in Replies
    BY DEF TypeOK
  <1> QED BY <1>1 DEF Replies, NoReply, Statuses

-----------------------------------------------------------------------------
(* Initially.                                                              *)

LEMMA ProxyInit == Init => IInv
  <1> SUFFICES ASSUME Init PROVE IInv
    OBVIOUS
  <1> USE ProxyBoundsAssumption DEF Init
  <1>1. reply \in [Connections -> Replies]
    BY DEF Replies
  <1>2. pc \in [Connections -> PCs]
    BY DEF PCs
  <1>3. exact \in Seq(ExactEntries) /\ log \in Seq(Decisions) /\ exact \in Seq(OwnExact)
    OBVIOUS
  <1>4. TypeOK
    BY <1>1, <1>2, <1>3 DEF TypeOK
  <1>5. CachesOwn
    BY <1>3 DEF CachesOwn
  <1>6. OwnInsert /\ KindOK
    BY DEF OwnInsert, KindOK
  <1>7. AnswersJustified
    BY DEF AnswersJustified, Justified, NoReply, NoBody
  <1> QED BY <1>4, <1>5, <1>6, <1>7 DEF IInv

-----------------------------------------------------------------------------
(* Steps.                                                                  *)

CStep(c) == LocalStep(c) \/ OtherStep(c)

\* What every step of a connection leaves alone or replaces as a whole.
LEMMA Frame ==
  ASSUME TypeOK, NEW c \in Connections, CStep(c)
  PROVE  /\ in' = in /\ now' = now
         /\ \E l \in PCs : pc' = [pc EXCEPT ![c] = l]
         /\ reply' = reply \/ \E x : reply' = [reply EXCEPT ![c] = x]
         /\ vec' = vec \/ vec' = [vec EXCEPT ![c] = TRUE]
         /\ log' = log \/ \E s \in Statuses : log' = Record(c, s)
         /\ inserts' \in {inserts, inserts + 1}
  <1> USE DEF Goto, Answer, PCs, caches
  <1>1. CASE Connect(c)
    <2>1. Entry(c) \in PCs
      BY <1>1, ProxyInputsAssumption DEF Connect, Entry, Kinds, TypeOK
    <2> QED BY <1>1, <2>1 DEF Connect
  <1>2. CASE Reject(c) \/ Abandon(c)
    BY <1>2 DEF Reject, Abandon
  <1>3. CASE ExactHit(c)
    BY <1>3 DEF ExactHit
  <1>4. CASE ExactMiss(c)
    BY <1>4 DEF ExactMiss
  <1>5. CASE SemanticHit(c)
    BY <1>5 DEF SemanticHit
  <1>6. CASE SemanticMiss(c)
    BY <1>6 DEF SemanticMiss
  <1>7. CASE SlmAnswer(c)
    BY <1>7 DEF SlmAnswer
  <1>8. CASE SlmDeclines(c)
    BY <1>8 DEF SlmDeclines
  <1>9. CASE UpstreamAnswers(c)
    <2>1. PICK by \in {"upstream", "error"} :
            reply' = [reply EXCEPT ![c] =
              Response(IF by = "error" THEN 500 ELSE 200, "l3", c, by)]
      BY <1>9, ZenonT(60) DEF UpstreamAnswers
    <2>2. pc' = [pc EXCEPT ![c] = "insert"] \/ pc' = [pc EXCEPT ![c] = "deliver"]
      BY <1>9 DEF UpstreamAnswers
    <2>3. vec' = vec \/ vec' = [vec EXCEPT ![c] = TRUE]
      BY <1>9 DEF UpstreamAnswers
    <2>4. in' = in /\ now' = now /\ inserts' = inserts
      BY <1>9 DEF UpstreamAnswers
    <2>5. reply'[c] = Response(IF by = "error" THEN 500 ELSE 200, "l3", c, by)
      BY <2>1 DEF TypeOK
    <2>6. reply'[c].status \in Statuses
      BY <2>5 DEF Response, Statuses
    <2>7. log' = log \/ log' = Record(c, reply'[c].status)
      BY <1>9 DEF UpstreamAnswers
    <2> QED BY <2>1, <2>2, <2>3, <2>4, <2>6, <2>7, ZenonT(60)
  <1>10. CASE UpstreamFails(c) \/ TunnelCloses(c)
    BY <1>10 DEF UpstreamFails, TunnelCloses
  <1>11. CASE InsertVector(c)
    BY <1>11, ReplyStatus DEF InsertVector
  <1>12. CASE Deliver(c) \/ WriteFails(c)
    BY <1>12, ReplyStatus DEF Deliver, WriteFails
  <1>13. CASE GatewayStore(c)
    BY <1>13 DEF GatewayStore
  <1> QED BY <1>1, <1>2, <1>3, <1>4, <1>5, <1>6, <1>7, <1>8, <1>9, <1>10, <1>11, <1>12, <1>13 DEF CStep, LocalStep, OtherStep

\* The key tells requests apart (build_exact_cache_key, extract_cache_key).
LEMMA SameKeySameRequest ==
  ASSUME NEW c \in Connections, NEW o \in Connections, TypeOK, KeyOf(o) = KeyOf(c)
  PROVE  SameRequest(in[c], in[o])
  <1>1. /\ in[c] \in Inputs /\ in[o] \in Inputs
    BY DEF TypeOK
  <1>2. /\ in[c].form = "messages" /\ in[o].form = "messages"
        /\ in[c].route \in ChatRoutes /\ in[o].route \in ChatRoutes
        /\ in[c].sys = "none" <=> in[c].ctx = NoContext
        /\ in[o].sys = "none" <=> in[o].ctx = NoContext
    BY <1>1, ProxyInputsAssumption
  <1> DEFINE Mat(d) == [Material(in[d]) EXCEPT !.model = ModelOf(in[d])]
  <1>3. ASSUME NEW d \in {c, o}
        PROVE  KeyOf(d) = [ns |-> CacheNs(in[d]), scope |-> NoScope, material |-> Mat(d)]
    BY <1>1, <1>2, <1>3, ProxyInputsAssumption
       DEF KeyOf, ExactKey, ProxyKey, Material, ModelOf, ByGateway, ChatRoutes, McpRoutes
  <1> QED BY <1>2, <1>3 DEF SameRequest, Material, ModelOf

\* A hit of the exact cache yields an answer to the connection's own key.
LEMMA ExactHitOwn ==
  ASSUME IInv, NEW c \in Connections, ExactHit(c)
  PROVE  /\ \E a \in Answers : /\ a.origin \in Connections
                               /\ KeyOf(a.origin) = KeyOf(c)
                               /\ reply' = [reply EXCEPT ![c] = Served("l1a", a)]
         /\ exact' \in Seq(OwnExact) /\ Len(exact') = Len(exact)
  <1> DEFINE k == ProxyKey(in[c])
  <1>1. Cached(exact, k) /\ exact \in Seq(OwnExact)
    BY DEF ExactHit, IInv, CachesOwn
  <1>2. PICK e \in OwnExact : e.key = k /\ e.val = CachedValue(exact, k)
    BY <1>1, HitReturnsEntry
  <1>3. Promote(exact, k) \in Seq(OwnExact) /\ Len(Promote(exact, k)) = Len(exact)
    BY <1>1, HitReturnsEntry
  <1>4. e.val \in Answers /\ e.val.origin \in Connections /\ KeyOf(e.val.origin) = k
    BY <1>2 DEF OwnExact, ExactEntries, Answers
  <1>5. k = KeyOf(c)
    BY DEF KeyOf, ByGateway, ExactHit, IInv, KindOK
  <1> QED BY <1>2, <1>3, <1>4, <1>5 DEF ExactHit, Answer

\* A semantic hit yields an answer to a similar text.
LEMMA SemanticHitOwn ==
  ASSUME IInv, NEW c \in Connections, SemanticHit(c)
  PROVE  \E a \in Answers : /\ a.origin \in Connections
                            /\ Score(TextOf(in[c]), TextOf(in[a.origin])) >= Threshold
                            /\ reply' = [reply EXCEPT ![c] = Served("l1b", a)]
  <1>1. PICK e \in Match(c) : reply' = [reply EXCEPT ![c] = Served("l1b", e.answer)]
    BY DEF SemanticHit, Answer
  <1>2. e \in vectors /\ Score(TextOf(in[c]), e.input) >= Threshold
    BY DEF Match, BestMatch, Candidates, Live
  <1>3. e \in OwnVectors
    BY <1>2 DEF IInv, CachesOwn
  <1>4. e.answer \in Answers /\ e.answer.origin \in Connections
        /\ e.input = TextOf(in[e.answer.origin])
    BY <1>3 DEF OwnVectors, VectorEntries, Answers
  <1> QED BY <1>1, <1>2, <1>4

\* The steps that build a response of the connection's own.
LEMMA OwnAnswer ==
  ASSUME NEW c \in Connections,
         Reject(c) \/ SlmAnswer(c) \/ UpstreamAnswers(c) \/ GatewayStore(c)
  PROVE  \E status \in {200, 400, 500, 503},
            layer \in {"none", "l2", "l3", "gateway"},
            by \in {"slm", "upstream", "gateway", "error"} :
           /\ reply' = [reply EXCEPT ![c] = Response(status, layer, c, by)]
           /\ Reject(c) \/ layer # "none"
  <1> USE DEF Answer
  <1>1. CASE Reject(c)
    BY <1>1 DEF Reject
  <1>2. CASE SlmAnswer(c)
    BY <1>2 DEF SlmAnswer
  <1>3. CASE UpstreamAnswers(c)
    <2>1. PICK by \in {"upstream", "error"} :
            reply' = [reply EXCEPT ![c] =
              Response(IF by = "error" THEN 500 ELSE 200, "l3", c, by)]
      BY <1>3, ZenonT(60) DEF UpstreamAnswers
    <2>2. CASE by = "error"
      <3>1. reply' = [reply EXCEPT ![c] = Response(500, "l3", c, "error")]
        BY <2>1, <2>2
      <3> QED BY <3>1
    <2>3. CASE by = "upstream"
      <3>1. reply' = [reply EXCEPT ![c] = Response(200, "l3", c, "upstream")]
        BY <2>1, <2>3
      <3> QED BY <3>1
    <2> QED BY <2>2, <2>3
  <1>4. CASE GatewayStore(c)
    BY <1>4 DEF GatewayStore
  <1> QED BY <1>1, <1>2, <1>3, <1>4

\* Every step leaves every connection with a well-formed, justified reply.
LEMMA RepliesJustified ==
  ASSUME IInv, NEW c \in Connections, CStep(c)
  PROVE  reply' \in [Connections -> Replies] /\ AnswersJustified'
  <1>1. reply \in [Connections -> Replies] /\ in' = in
    BY Frame DEF IInv, TypeOK
  <1>2. ASSUME NEW x \in Replies, Justified(c, x), reply' = [reply EXCEPT ![c] = x]
        PROVE  reply' \in [Connections -> Replies] /\ AnswersJustified'
    <2>1. reply' \in [Connections -> Replies]
      BY <1>1, <1>2
    <2>2. ASSUME NEW d \in Connections PROVE Justified(d, reply[d])'
      <3>1. Justified(d, reply'[d])
        BY <1>1, <1>2 DEF IInv, AnswersJustified
      <3> QED BY <1>1, <3>1 DEF Justified, KeyOf, ByGateway
    <2> QED BY <2>1, <2>2 DEF AnswersJustified
  <1>3. ASSUME reply' = reply
        PROVE  reply' \in [Connections -> Replies] /\ AnswersJustified'
    <2>1. ASSUME NEW d \in Connections PROVE Justified(d, reply[d])'
      <3>1. Justified(d, reply[d])
        BY DEF IInv, AnswersJustified
      <3> QED BY <1>1, <1>3, <3>1 DEF Justified, KeyOf, ByGateway
    <2> QED BY <1>1, <1>3, <2>1 DEF AnswersJustified
  <1>4. CASE ExactHit(c)
    <2>1. PICK a \in Answers : /\ a.origin \in Connections
                               /\ KeyOf(a.origin) = KeyOf(c)
                               /\ reply' = [reply EXCEPT ![c] = Served("l1a", a)]
      BY <1>4, ExactHitOwn
    <2>2. SameRequest(in[c], in[a.origin])
      BY <2>1, SameKeySameRequest DEF IInv
    <2>3. Served("l1a", a) \in Replies /\ Justified(c, Served("l1a", a))
      BY <2>2, ReplyTypes DEF Justified, Served
    <2> QED BY <1>2, <2>1, <2>3
  <1>5. CASE SemanticHit(c)
    <2>1. PICK a \in Answers :
            /\ Score(TextOf(in[c]), TextOf(in[a.origin])) >= Threshold
            /\ reply' = [reply EXCEPT ![c] = Served("l1b", a)]
      BY <1>5, SemanticHitOwn
    <2>2. Served("l1b", a) \in Replies /\ Justified(c, Served("l1b", a))
      BY <2>1, ReplyTypes DEF Justified, Served
    <2> QED BY <1>2, <2>1, <2>2
  <1>6. CASE Reject(c) \/ SlmAnswer(c) \/ UpstreamAnswers(c) \/ GatewayStore(c)
    <2>1. PICK status \in {200, 400, 500, 503},
               layer \in {"none", "l2", "l3", "gateway"},
               by \in {"slm", "upstream", "gateway", "error"} :
            reply' = [reply EXCEPT ![c] = Response(status, layer, c, by)]
      BY <1>6, OwnAnswer
    <2>2. Response(status, layer, c, by) \in Replies
          /\ Justified(c, Response(status, layer, c, by))
      BY ReplyTypes, OwnResponse
    <2> QED BY <1>2, <2>1, <2>2
  <1>7. CASE SlmDeclines(c)
    <2>1. Response(503, "blocked", c, "error") \in Replies
          /\ Justified(c, Response(503, "blocked", c, "error"))
      BY ReplyTypes, OwnResponse
    <2>2. reply' = reply
          \/ reply' = [reply EXCEPT ![c] = Response(503, "blocked", c, "error")]
      BY <1>7 DEF SlmDeclines, Answer
    <2> QED BY <1>2, <1>3, <2>1, <2>2
  <1>8. CASE Connect(c) \/ Abandon(c) \/ ExactMiss(c) \/ SemanticMiss(c)
             \/ UpstreamFails(c) \/ TunnelCloses(c) \/ InsertVector(c)
             \/ Deliver(c) \/ WriteFails(c)
    <2>1. reply' = reply
      BY <1>8 DEF Connect, Abandon, ExactMiss, SemanticMiss, UpstreamFails,
                  TunnelCloses, InsertVector, Deliver, WriteFails
    <2> QED BY <1>3, <2>1
  <1> QED BY <1>4, <1>5, <1>6, <1>7, <1>8 DEF CStep, LocalStep, OtherStep

\* Storing one's own answer keeps the exact cache a cache of own answers.
LEMMA StoreOwn ==
  ASSUME IInv, NEW c \in Connections, NEW a \in Answers, a.origin = c,
         in[c].kind \in {"chat", "gateway"}, Store(c, a)
  PROVE  exact' \in Seq(OwnExact) /\ Len(exact') <= ExactCapacity
  <1>1. exact \in Seq(OwnExact) /\ Len(exact) <= ExactCapacity
    BY DEF IInv, CachesOwn, TypeOK
  <1>2. [key |-> KeyOf(c), val |-> a] \in OwnExact
    BY KeyTypes DEF IInv, OwnExact, ExactEntries
  <1>3. CASE UsesExact
    <2>1. exact' = Put(exact, KeyOf(c), a, ExactCapacity)
      BY <1>3 DEF Store
    <2>2. /\ Put(exact, KeyOf(c), a, ExactCapacity) \in Seq(OwnExact)
          /\ Len(Put(exact, KeyOf(c), a, ExactCapacity)) <= ExactCapacity
      BY <1>1, <1>2, PutType, ProxyBoundsAssumption
    <2> QED BY <2>1, <2>2
  <1>4. CASE ~UsesExact
    BY <1>1, <1>4 DEF Store
  <1> QED BY <1>3, <1>4

\* Every step keeps both caches full of own answers.
LEMMA CachesStep ==
  ASSUME IInv, NEW c \in Connections, CStep(c)
  PROVE  /\ exact' \in Seq(OwnExact) /\ Len(exact') <= ExactCapacity
         /\ vectors' \subseteq OwnVectors
  <1>1. /\ exact \in Seq(OwnExact) /\ Len(exact) <= ExactCapacity
        /\ vectors \subseteq OwnVectors /\ TypeOK
    BY DEF IInv, CachesOwn, TypeOK
  <1>2. CASE ExactHit(c)
    <2>1. vectors' = vectors
      BY <1>2 DEF ExactHit
    <2> QED BY <1>1, <1>2, <2>1, ExactHitOwn
  <1>3. CASE SlmAnswer(c)
    <2>1. [origin |-> c, by |-> "slm"] \in Answers
      BY DEF Answers
    <2>2. in[c].kind = "chat" /\ vectors' = vectors
          /\ Store(c, [origin |-> c, by |-> "slm"])
      BY <1>3 DEF SlmAnswer, IInv, KindOK
    <2> QED BY <1>1, <2>1, <2>2, StoreOwn
  <1>4. CASE UpstreamAnswers(c)
    <2>1. PICK by \in {"upstream", "error"} :
            IF in[c].kind = "chat" THEN Store(c, [origin |-> c, by |-> by])
                                   ELSE UNCHANGED exact
      BY <1>4 DEF UpstreamAnswers
    <2>2. [origin |-> c, by |-> by] \in Answers
      BY DEF Answers
    <2>3. vectors' = vectors
      BY <1>4 DEF UpstreamAnswers
    <2>4. CASE in[c].kind = "chat"
      <3>1. Store(c, [origin |-> c, by |-> by])
        BY <2>1, <2>4
      <3> QED BY <1>1, <2>2, <2>3, <2>4, <3>1, StoreOwn
    <2>5. CASE in[c].kind # "chat"
      BY <1>1, <2>1, <2>3, <2>5
    <2> QED BY <2>4, <2>5
  <1>5. CASE GatewayStore(c)
    <2>1. [origin |-> c, by |-> "gateway"] \in Answers
      BY DEF Answers
    <2>2. in[c].kind = "gateway" /\ vectors' = vectors
          /\ Store(c, [origin |-> c, by |-> "gateway"])
      BY <1>5 DEF GatewayStore, ByGateway
    <2> QED BY <1>1, <2>1, <2>2, StoreOwn
  <1>6. CASE InsertVector(c)
    <2>1. exact' = exact /\ vectors' = Insert(vectors, NewEntry(c), now, VectorCapacity)
      BY <1>6 DEF InsertVector
    <2>2. reply[c] \in Replies /\ reply[c].layer \in {"l2", "l3", "gateway"}
      BY <1>6 DEF IInv, TypeOK, OwnInsert, InsertVector
    <2>3. reply[c].body \in Answers /\ reply[c].body.origin \in Connections
      BY <2>2, ReplyBody
    <2>4. Justified(c, reply[c])
      BY DEF IInv, AnswersJustified
    <2>5. reply[c].body.origin \in {c, "none"}
      BY <2>2, <2>4 DEF Justified
    <2>6. in[c] \in Inputs /\ inserts \in Nat /\ now \in 0 .. MaxTime
      BY <1>1 DEF TypeOK
    <2>7. TextOf(in[c]) \in {TextOf(q) : q \in Inputs}
      BY <2>6
    <2>8. NewEntry(c) \in VectorEntries
      BY <2>3, <2>6, <2>7 DEF NewEntry, VectorEntries
    <2>9. CASE reply[c].body.origin = c
      <3>1. NewEntry(c) \in OwnVectors
        BY <2>8, <2>9 DEF OwnVectors, NewEntry
      <3> QED BY <1>1, <2>1, <3>1, InsertKeeps
    <2>10. CASE reply[c].body.origin = "none"
      <3>1. FALSE
        BY <2>3, <2>10, NoneAssumption
      <3> QED BY <3>1
    <2> QED BY <2>5, <2>9, <2>10
  <1>7. CASE Connect(c) \/ Reject(c) \/ Abandon(c) \/ ExactMiss(c) \/ SemanticHit(c)
             \/ SemanticMiss(c) \/ SlmDeclines(c) \/ UpstreamFails(c)
             \/ TunnelCloses(c) \/ Deliver(c) \/ WriteFails(c)
    <2>1. exact' = exact /\ vectors' = vectors
      BY <1>7 DEF Connect, Reject, Abandon, ExactMiss, SemanticHit, SemanticMiss,
                  SlmDeclines, UpstreamFails, TunnelCloses, Deliver, WriteFails, caches
    <2> QED BY <1>1, <2>1
  <1> QED BY <1>2, <1>3, <1>4, <1>5, <1>6, <1>7 DEF CStep, LocalStep, OtherStep

\* Every step keeps chat requests, and only them, walking through the layers,
\* and what is to be inserted is an answer of the connection's own.
LEMMA PathStep ==
  ASSUME IInv, NEW c \in Connections, CStep(c)
  PROVE  KindOK' /\ OwnInsert'
  <1>1. in' = in /\ pc \in [Connections -> PCs] /\ reply \in [Connections -> Replies]
        /\ in[c] \in Inputs /\ in[c].kind \in Kinds
    BY Frame, ProxyInputsAssumption DEF IInv, TypeOK
  <1>2. PICK l \in PCs : pc' = [pc EXCEPT ![c] = l]
    BY Frame DEF IInv
  <1>3. pc'[c] = l /\ \A d \in Connections \ {c} : pc'[d] = pc[d] /\ reply'[d] = reply[d]
    BY <1>1, <1>2, Frame DEF IInv
  <1>4. /\ l \in {"lookup", "search", "slm"} => in[c].kind = "chat"
        /\ l = "insert" => in[c].kind \in {"chat", "gateway"}
    <2> USE <1>1, <1>2, <1>3 DEF Goto
    <2>1. CASE Connect(c)
      BY <2>1 DEF Connect, Entry, Kinds
    <2>2. CASE Reject(c) \/ Abandon(c) \/ ExactHit(c) \/ SemanticHit(c)
      BY <2>2 DEF Reject, Abandon, ExactHit, SemanticHit
    <2>3. CASE ExactMiss(c)
      BY <2>3 DEF ExactMiss, IInv, KindOK
    <2>4. CASE SemanticMiss(c) \/ SlmAnswer(c) \/ SlmDeclines(c)
      BY <2>4 DEF SemanticMiss, SlmAnswer, SlmDeclines, IInv, KindOK
    <2>5. CASE UpstreamAnswers(c)
      BY <2>5 DEF UpstreamAnswers
    <2>6. CASE UpstreamFails(c) \/ TunnelCloses(c) \/ Deliver(c) \/ WriteFails(c)
      BY <2>6 DEF UpstreamFails, TunnelCloses, Deliver, WriteFails
    <2>7. CASE InsertVector(c)
      BY <2>7 DEF InsertVector
    <2>8. CASE GatewayStore(c)
      BY <2>8 DEF GatewayStore, ByGateway
    <2> QED BY <2>1, <2>2, <2>3, <2>4, <2>5, <2>6, <2>7, <2>8 DEF CStep, LocalStep, OtherStep
  <1>5. KindOK'
    BY <1>1, <1>3, <1>4 DEF KindOK, IInv
  <1>6. l = "insert" => reply'[c].layer \in {"l2", "l3", "gateway"}
    <2> USE <1>1, <1>3 DEF Goto
    <2>1. CASE Reject(c) \/ SlmAnswer(c) \/ UpstreamAnswers(c) \/ GatewayStore(c)
      <3>1. PICK status \in {200, 400, 500, 503},
                 layer \in {"none", "l2", "l3", "gateway"},
                 by \in {"slm", "upstream", "gateway", "error"} :
              /\ reply' = [reply EXCEPT ![c] = Response(status, layer, c, by)]
              /\ Reject(c) \/ layer # "none"
        BY <2>1, OwnAnswer
      <3>2. reply'[c].layer = layer
        BY <3>1 DEF Response
      <3>3. Reject(c) => l # "insert"
        BY DEF Reject
      <3> QED BY <3>1, <3>2, <3>3
    <2>2. CASE Connect(c)
      BY <2>2 DEF Connect, Entry, Kinds
    <2>3. CASE ~(Reject(c) \/ SlmAnswer(c) \/ UpstreamAnswers(c) \/ GatewayStore(c) \/ Connect(c))
      <3>1. l # "insert"
        BY <2>3 DEF CStep, LocalStep, OtherStep, Abandon, ExactHit, ExactMiss, SemanticHit,
                    SemanticMiss, SlmDeclines, UpstreamFails, TunnelCloses, InsertVector,
                    Deliver, WriteFails
      <3> QED BY <3>1
    <2> QED BY <2>1, <2>2, <2>3
  <1>7. OwnInsert'
    BY <1>1, <1>3, <1>6 DEF OwnInsert, IInv
  <1> QED BY <1>5, <1>7

\* The invariant is inductive.
LEMMA ProxyStep == IInv /\ [Next]_vars => IInv'
  <1> SUFFICES ASSUME IInv, [Next]_vars PROVE IInv'
    OBVIOUS
  <1>1. TypeOK
    BY DEF IInv
  <1>2. ASSUME NEW c \in Connections, CStep(c) PROVE IInv'
    <2>1. reply' \in [Connections -> Replies] /\ AnswersJustified'
      BY <1>2, RepliesJustified
    <2>2. /\ exact' \in Seq(OwnExact) /\ Len(exact') <= ExactCapacity
          /\ vectors' \subseteq OwnVectors
      BY <1>2, CachesStep
    <2>3. KindOK' /\ OwnInsert'
      BY <1>2, PathStep
    <2>4. /\ in' = in /\ now' = now
          /\ \E l \in PCs : pc' = [pc EXCEPT ![c] = l]
          /\ vec' = vec \/ vec' = [vec EXCEPT ![c] = TRUE]
          /\ log' = log \/ \E s \in Statuses : log' = Record(c, s)
          /\ inserts' \in {inserts, inserts + 1}
      BY <1>1, <1>2, Frame
    <2>5. exact' \in Seq(ExactEntries) /\ vectors' \subseteq VectorEntries
      <3>1. OwnExact \subseteq ExactEntries /\ OwnVectors \subseteq VectorEntries
        BY DEF OwnExact, OwnVectors
      <3> QED BY <2>2, <3>1
    <2>6. log' \in Seq(Decisions)
      <3>1. log \in Seq(Decisions)
        BY <1>1 DEF TypeOK
      <3> QED BY <1>2, <2>4, <3>1, RecordType
    <2>7. TypeOK'
      <3>1. pc' \in [Connections -> PCs] /\ vec' \in [Connections -> BOOLEAN]
        <4>1. pc \in [Connections -> PCs] /\ vec \in [Connections -> BOOLEAN]
          BY <1>1 DEF TypeOK
        <4> QED BY <2>4, <4>1
      <3>2. in' \in [Connections -> Inputs] /\ inserts' \in Nat /\ now' \in 0 .. MaxTime
        BY <1>1, <2>4 DEF TypeOK
      <3> QED BY <2>1, <2>2, <2>5, <2>6, <3>1, <3>2 DEF TypeOK
    <2>8. OwnExact' = OwnExact /\ OwnVectors' = OwnVectors
      BY <2>4 DEF OwnExact, OwnVectors, KeyOf, ByGateway
    <2>9. CachesOwn'
      BY <2>2, <2>8 DEF CachesOwn
    <2> QED BY <2>1, <2>3, <2>7, <2>9 DEF IInv
  <1>3. ASSUME <<pc, in, vec, reply, exact, vectors, inserts, log>>' =
                 <<pc, in, vec, reply, exact, vectors, inserts, log>>,
               now' \in 0 .. MaxTime
        PROVE  IInv'
    <2>1. TypeOK'
      BY <1>1, <1>3 DEF TypeOK
    <2>2. KindOK' /\ OwnInsert'
      BY <1>3 DEF IInv, KindOK, OwnInsert
    <2>3. CachesOwn'
      BY <1>3 DEF IInv, CachesOwn, OwnExact, OwnVectors, KeyOf, ByGateway
    <2>4. AnswersJustified'
      BY <1>3 DEF IInv, AnswersJustified, Justified, KeyOf, ByGateway
    <2> QED BY <2>1, <2>2, <2>3, <2>4 DEF IInv
  <1>4. CASE Tick
    <2>1. now' \in 0 .. MaxTime
      BY <1>1, <1>4, ProxyBoundsAssumption DEF Tick, TypeOK
    <2> QED BY <1>3, <1>4, <2>1 DEF Tick, caches
  <1>5. CASE Quiescent \/ UNCHANGED vars
    <2>1. UNCHANGED vars
      BY <1>5 DEF Quiescent
    <2> QED BY <1>1, <1>3, <2>1 DEF vars, TypeOK
  <1> QED BY <1>2, <1>4, <1>5 DEF Next, CStep

LEMMA ProxyInvariant == Spec => []IInv
  BY ProxyInit, ProxyStep, PTL DEF Spec

\* Every variable of the proxy keeps its type, the caches it shares with the
\* gateway and the ring of decisions included (src/proxy/connect.rs).
THEOREM ProxyTypeCorrect == Spec => []TypeOK
  <1>1. IInv => TypeOK
    BY DEF IInv
  <1> QED BY <1>1, ProxyInvariant, PTL

\* For any number of connections, any embedder and any eviction, an answer
\* taken from a cache was produced for the connection's own key or for a text
\* similar to its own (resolve_intercepted_request, cache_response).
THEOREM ProxyAnswersJustified == Spec => []AnswersJustified
  <1>1. IInv => AnswersJustified
    BY DEF IInv
  <1> QED BY <1>1, ProxyInvariant, PTL

\* Nothing is ever kept in the shared caches under a key or text of another
\* connection than the one that produced it, and nothing that was only passed
\* through (cache_response).
THEOREM ProxyStoresForOwner == Spec => []StoredForOwner
  <1>1. ASSUME IInv PROVE StoredForOwner
    <2>1. ASSUME NEW i \in DOMAIN exact PROVE exact[i] \in OwnExact
      <3>1. exact \in Seq(OwnExact)
        BY <1>1 DEF IInv, CachesOwn
      <3> QED BY <2>1, <3>1
    <2>2. \A e \in vectors : e.input = TextOf(in[e.answer.origin])
      BY <1>1 DEF IInv, CachesOwn, OwnVectors
    <2> QED BY <2>1, <2>2 DEF StoredForOwner, OwnExact
  <1> QED BY <1>1, ProxyInvariant, PTL

-----------------------------------------------------------------------------
(* The ring of decisions, and what the exact cache keeps.                  *)

\* Tunnels carry what is not intercepted, and the gateway forwards nothing here.
PathOK ==
  \A c \in Connections : /\ pc[c] = "tunnel" => in[c].kind = "tunnel"
                         /\ pc[c] = "forward" => in[c].kind \notin {"tunnel", "gateway"}

\* Whose decision may be in the ring, and whose must be in one that is not full: those
\* of the upstream are recorded before the client is written to, the others after it.
Loggable ==
  {c \in Connections : \/ pc[c] = "done"
                       \/ reply[c].layer = "l3" /\ pc[c] \in {"deliver", "aborted"}}
Due ==
  {c \in Connections : /\ Intercepted(c)
                       /\ \/ pc[c] = "done"
                          \/ reply[c].layer = "l3" /\ pc[c] = "deliver"}
Decision(c, r) == [conn |-> c, status |-> r.status]

RingOK ==
  /\ Len(log) <= LogCapacity
  /\ \A i, j \in DOMAIN log : log[i].conn = log[j].conn => i = j
  /\ \A i \in DOMAIN log : log[i].conn \in Loggable
  /\ Len(log) < LogCapacity =>
       \A c \in Due : \E i \in DOMAIN log : log[i] = Decision(c, reply[c])

RingInv == IInv /\ PathOK /\ RingOK /\ AnsweredIsKept

\* The ring after a decision: the newest first, then what was there as far as it fits
\* (record_proxy_decision).
LEMMA RecordRing ==
  ASSUME log \in Seq(Decisions), Len(log) <= LogCapacity, NEW c, NEW status
  PROVE  LET longer == Record(c, status) IN
         /\ Len(longer) \in Nat /\ DOMAIN longer = 1 .. Len(longer)
         /\ 1 <= Len(longer) /\ Len(longer) <= LogCapacity /\ Len(longer) <= Len(log) + 1
         /\ Len(longer) < LogCapacity => Len(longer) = Len(log) + 1
         /\ longer[1] = [conn |-> c, status |-> status]
         /\ \A i \in 2 .. Len(longer) : longer[i] = log[i - 1]
  <1> DEFINE entry == [conn |-> c, status |-> status]
             longer == <<entry>> \o log
             T == Decisions \cup {entry}
  <1>1. log \in Seq(T) /\ Len(log) \in Nat /\ LogCapacity \in Nat \ {0}
    BY ProxyBoundsAssumption
  <1>2. /\ longer \in Seq(T) /\ Len(longer) = Len(log) + 1 /\ longer[1] = entry
        /\ \A i \in 2 .. Len(log) + 1 : longer[i] = log[i - 1]
        /\ DOMAIN longer = 1 .. Len(log) + 1
    <2> HIDE DEF entry
    <2>1. <<entry>> \in Seq(T)
      OBVIOUS
    <2> HIDE DEF T
    <2> QED BY <1>1, <2>1
  <1>3. Record(c, status) = IF Len(longer) > LogCapacity THEN SubSeq(longer, 1, LogCapacity)
                                                        ELSE longer
    BY DEF Record
  <1> HIDE DEF longer, entry, T
  <1>4. CASE Len(longer) > LogCapacity
    <2> DEFINE short == SubSeq(longer, 1, LogCapacity)
    <2>1. /\ Len(short) = LogCapacity /\ DOMAIN short = 1 .. LogCapacity
          /\ \A i \in 1 .. LogCapacity : short[i] = longer[i]
      BY <1>1, <1>2, <1>4
    <2>2. Record(c, status) = short
      BY <1>3, <1>4
    <2> HIDE DEF short
    <2>3. LogCapacity = Len(log)
      BY <1>1, <1>2, <1>4
    <2>4. 1 \in 1 .. LogCapacity /\ \A i \in 2 .. LogCapacity : i \in 1 .. LogCapacity
                                                               /\ i \in 2 .. Len(log) + 1
      BY <1>1, <2>3
    <2>5. short[1] = entry /\ \A i \in 2 .. LogCapacity : short[i] = log[i - 1]
      BY <1>2, <2>1, <2>4
    <2>6. /\ Len(short) \in Nat /\ 1 <= Len(short) /\ Len(short) <= LogCapacity
          /\ Len(short) <= Len(log) + 1 /\ ~(Len(short) < LogCapacity)
      BY <1>1, <2>1, <2>3
    <2> QED BY <2>1, <2>2, <2>5, <2>6 DEF entry
  <1>5. CASE ~(Len(longer) > LogCapacity)
    <2>1. Record(c, status) = longer
      BY <1>3, <1>5
    <2>2. /\ Len(longer) \in Nat /\ 1 <= Len(longer) /\ Len(longer) <= LogCapacity
          /\ Len(longer) <= Len(log) + 1
      BY <1>1, <1>2, <1>5
    <2> QED BY <1>2, <2>1, <2>2 DEF entry
  <1> QED BY <1>4, <1>5

\* What the ring needs of a step of c: either nothing is recorded and nothing had to
\* be, or the decision is new.
LEMMA RingKept ==
  ASSUME TypeOK, RingOK, NEW c \in Connections, in' = in,
         \A d \in Connections \ {c} : pc'[d] = pc[d] /\ reply'[d] = reply[d],
         \/ /\ log' = log /\ (c \in Loggable => c \in Loggable')
            /\ c \in Due' => c \in Due /\ reply'[c] = reply[c]
         \/ log' = Record(c, reply'[c].status) /\ c \notin Loggable /\ c \in Loggable'
  PROVE  RingOK'
  <1>1. log \in Seq(Decisions) /\ Len(log) \in Nat /\ DOMAIN log = 1 .. Len(log)
    BY DEF TypeOK
  <1>2. /\ \A d \in Connections \ {c} : /\ d \in Loggable' <=> d \in Loggable
                                        /\ d \in Due' <=> d \in Due
        /\ Loggable \subseteq Connections /\ Due' \subseteq Connections
    BY DEF Loggable, Due, Intercepted
  <1>3. ASSUME log' = log, c \in Loggable => c \in Loggable',
               c \in Due' => c \in Due /\ reply'[c] = reply[c]
        PROVE  RingOK'
    <2>1. Loggable \subseteq Loggable'
      BY <1>2, <1>3
    <2>2. \A d \in Due' : d \in Due /\ reply'[d] = reply[d]
      BY <1>2, <1>3
    <2>3. \A i \in DOMAIN log' : log'[i].conn \in Loggable'
      BY <1>3, <2>1 DEF RingOK
    <2>4. Len(log') < LogCapacity =>
            \A d \in Due' : \E i \in DOMAIN log' : log'[i] = Decision(d, reply'[d])
      BY <1>3, <2>2 DEF RingOK
    <2> QED BY <1>3, <2>3, <2>4 DEF RingOK
  <1>4. ASSUME log' = Record(c, reply'[c].status), c \notin Loggable, c \in Loggable'
        PROVE  RingOK'
    <2> DEFINE longer == Record(c, reply'[c].status)
    <2>1. /\ Len(longer) \in Nat /\ DOMAIN longer = 1 .. Len(longer)
          /\ 1 <= Len(longer) /\ Len(longer) <= LogCapacity /\ Len(longer) <= Len(log) + 1
          /\ Len(longer) < LogCapacity => Len(longer) = Len(log) + 1
          /\ longer[1] = Decision(c, reply'[c])
          /\ \A i \in 2 .. Len(longer) : longer[i] = log[i - 1]
      BY <1>1, RecordRing DEF RingOK, Decision
    <2>2. log' = longer
      BY <1>4
    <2> HIDE DEF longer
    <2>3. Len(longer) \in Nat /\ DOMAIN longer = 1 .. Len(longer) /\ 1 <= Len(longer)
      BY <2>1
    <2>4. \A i \in 2 .. Len(longer) : longer[i] = log[i - 1]
      BY <2>1
    <2>5. Len(longer) <= Len(log) + 1
      BY <2>1
    <2>6. \A i \in DOMAIN longer : i = 1 \/ i \in 2 .. Len(longer)
      BY <2>3
    <2>7. \A i \in 2 .. Len(longer) : i - 1 \in DOMAIN log
      BY <1>1, <2>3, <2>5
    <2>8. longer[1] = Decision(c, reply'[c])
      BY <2>1
    <2>9. longer[1].conn = c
      BY <2>8 DEF Decision
    <2>10. 1 \in DOMAIN longer
      BY <2>3
    <2>11. \A i \in DOMAIN log : log[i].conn \in Loggable /\ log[i].conn # c
      BY <1>4 DEF RingOK
    <2>12. \A i \in DOMAIN longer : i = 1 \/ (i - 1 \in DOMAIN log /\ longer[i] = log[i - 1])
      BY <2>4, <2>6, <2>7
    <2>13. longer[1].conn = c /\ 1 \in DOMAIN longer
      BY <2>9, <2>10
    <2>14. ASSUME NEW i \in DOMAIN longer, NEW j \in DOMAIN longer,
                 longer[i].conn = longer[j].conn
          PROVE  i = j
      <3>1. i \in Nat /\ j \in Nat
        BY <2>3
      <3>2. CASE i = 1 \/ j = 1
        BY <2>11, <2>12, <2>13, <2>14, <3>2
      <3>3. CASE i # 1 /\ j # 1
        <4>1. i - 1 \in DOMAIN log /\ j - 1 \in DOMAIN log /\ log[i - 1].conn = log[j - 1].conn
          BY <2>12, <2>14, <3>3
        <4>2. i - 1 = j - 1
          BY <4>1 DEF RingOK
        <4> QED BY <3>1, <4>2
      <3> QED BY <3>2, <3>3
    <2>15. ASSUME NEW i \in DOMAIN longer PROVE longer[i].conn \in Loggable'
      <3>1. longer[i].conn = c \/ longer[i].conn \in Loggable \ {c}
        BY <2>11, <2>12, <2>13
      <3> QED BY <1>2, <1>4, <3>1
    <2>16. ASSUME Len(longer) < LogCapacity, NEW d \in Due'
          PROVE  \E i \in DOMAIN longer : longer[i] = Decision(d, reply'[d])
      <3>1. CASE d = c
        BY <2>1, <2>13, <3>1
      <3>2. CASE d # c
        <4>1. Len(log) < LogCapacity /\ Len(longer) = Len(log) + 1
          BY <1>1, <2>1, <2>16, ProxyBoundsAssumption
        <4>2. d \in Due /\ d \in Connections \ {c}
          BY <1>2, <3>2
        <4>3. PICK i \in DOMAIN log : log[i] = Decision(d, reply[d])
          BY <4>1, <4>2 DEF RingOK
        <4>4. i + 1 \in 2 .. Len(longer) /\ i + 1 \in DOMAIN longer /\ i + 1 - 1 = i
          BY <1>1, <2>1, <4>1, <4>3
        <4>5. longer[i + 1] = log[i]
          <5> DEFINE k == i + 1
          <5>1. k \in 2 .. Len(longer) /\ k - 1 = i
            BY <4>4
          <5> HIDE DEF k
          <5>2. longer[k] = log[i]
            BY <2>4, <5>1
          <5> QED BY <5>2 DEF k
        <4>6. Decision(d, reply[d]) = Decision(d, reply'[d])
          BY <4>2
        <4> QED BY <4>3, <4>4, <4>5, <4>6
      <3> QED BY <3>1, <3>2
    <2>17. Len(longer) <= LogCapacity
      BY <2>1
    <2> QED BY <2>2, <2>14, <2>15, <2>16, <2>17 DEF RingOK
  <1> QED BY <1>3, <1>4

\* What a step of c does to its place, its answer and the ring.
LEMMA RingStep ==
  ASSUME IInv, PathOK, RingOK, NEW c \in Connections, CStep(c)
  PROVE  RingOK' /\ PathOK'
  <1>1. TypeOK /\ in' = in /\ reply \in [Connections -> Replies]
        /\ pc \in [Connections -> PCs] /\ in[c] \in Inputs /\ in[c].kind \in Kinds
    BY Frame, ProxyInputsAssumption DEF IInv, TypeOK
  <1>2. PICK l \in PCs : pc' = [pc EXCEPT ![c] = l]
    BY Frame DEF IInv
  <1>3. pc'[c] = l /\ \A d \in Connections \ {c} : pc'[d] = pc[d] /\ reply'[d] = reply[d]
    BY <1>1, <1>2, Frame DEF IInv
  <1>4. ASSUME log' = log, c \in Loggable => c \in Loggable',
               c \in Due' => c \in Due /\ reply'[c] = reply[c]
        PROVE  RingOK'
    BY <1>1, <1>3, <1>4, RingKept
  <1>5. ASSUME log' = Record(c, reply'[c].status), c \notin Loggable, c \in Loggable'
        PROVE  RingOK'
    BY <1>1, <1>3, <1>5, RingKept
  <1>6. ASSUME l = "tunnel" => in[c].kind = "tunnel",
               l = "forward" => in[c].kind \notin {"tunnel", "gateway"}
        PROVE  PathOK'
    BY <1>1, <1>3, <1>6 DEF PathOK
  <1>7. ASSUME log' = log, pc[c] \notin {"deliver", "done", "aborted"}, c \notin Due'
        PROVE  RingOK'
    <2>1. c \notin Loggable
      BY <1>7 DEF Loggable
    <2> QED BY <1>4, <1>7, <2>1
  <1> USE DEF Goto, Answer
  <1>8. CASE Connect(c)
    <2>1. log' = log /\ reply' = reply /\ pc[c] = "idle" /\ l = Entry(c)
          /\ in[c].kind \notin {"bad", "gateway"}
      BY <1>1, <1>2, <1>8 DEF Connect
    <2>2. l \in {"tunnel", "forward", "lookup"}
          /\ (l = "tunnel" => in[c].kind = "tunnel")
          /\ (l = "forward" => in[c].kind \notin {"tunnel", "gateway"})
      BY <1>1, <2>1 DEF Entry, Kinds
    <2>3. c \notin Due'
      BY <1>3, <2>1, <2>2 DEF Due
    <2> QED BY <1>6, <1>7, <2>1, <2>2, <2>3
  <1>9. CASE Reject(c) \/ Abandon(c) \/ ExactHit(c) \/ SemanticHit(c)
    <2>1. log' = log /\ pc[c] \in {"idle", "lookup", "search"} /\ l \in {"deliver", "aborted"}
      BY <1>1, <1>2, <1>9 DEF Reject, Abandon, ExactHit, SemanticHit
    <2>2. l = "deliver" => reply'[c].layer # "l3"
      BY <1>1, <1>3, <1>9 DEF Reject, Abandon, ExactHit, SemanticHit, Response, Served
    <2>3. c \notin Due'
      BY <1>3, <2>1, <2>2 DEF Due
    <2> QED BY <1>6, <1>7, <2>1, <2>3
  <1>10. CASE ExactMiss(c) \/ SemanticMiss(c) \/ SlmAnswer(c) \/ SlmDeclines(c)
    <2>1. log' = log /\ pc[c] \in {"lookup", "search", "slm"}
          /\ l \in {"search", "slm", "insert", "deliver", "forward"}
      BY <1>1, <1>2, <1>10 DEF ExactMiss, SemanticMiss, SlmAnswer, SlmDeclines
    <2>2. l = "deliver" => reply'[c].layer # "l3"
      BY <1>1, <1>3, <1>10
         DEF ExactMiss, SemanticMiss, SlmAnswer, SlmDeclines, Response, Served
    <2>3. c \notin Due'
      BY <1>3, <2>1, <2>2 DEF Due
    <2>4. in[c].kind = "chat"
      BY <2>1 DEF IInv, KindOK
    <2> QED BY <1>6, <1>7, <2>1, <2>3, <2>4
  <1>11. CASE UpstreamAnswers(c)
    <2>1. pc[c] = "forward" /\ l \in {"insert", "deliver"} /\ c \notin Loggable
      BY <1>1, <1>2, <1>11 DEF UpstreamAnswers, Loggable
    <2>2. reply'[c].layer = "l3"
      BY <1>1, <1>11 DEF UpstreamAnswers, Response
    <2>3. CASE l = "insert"
      <3>1. log' = log /\ c \notin Due'
        BY <1>1, <1>2, <1>3, <1>11, <2>3 DEF UpstreamAnswers, Due
      <3> QED BY <1>6, <1>7, <2>1, <2>3, <3>1
    <2>4. CASE l = "deliver"
      <3>1. log' = IF Intercepted(c) THEN Record(c, reply'[c].status) ELSE log
        BY <1>1, <1>2, <1>3, <1>11, <2>4 DEF UpstreamAnswers
      <3>2. CASE Intercepted(c)
        <4>1. c \in Loggable'
          BY <1>3, <2>2, <2>4 DEF Loggable
        <4> QED BY <1>5, <1>6, <2>1, <2>4, <3>1, <3>2, <4>1
      <3>3. CASE ~Intercepted(c)
        <4>1. c \notin Due'
          BY <1>1, <3>3 DEF Due, Intercepted
        <4> QED BY <1>6, <1>7, <2>1, <2>4, <3>1, <3>3, <4>1
      <3> QED BY <3>2, <3>3
    <2> QED BY <2>1, <2>3, <2>4
  <1>12. CASE UpstreamFails(c) \/ TunnelCloses(c)
    <2>1. log' = log /\ pc[c] \in {"forward", "tunnel"} /\ l \in {"aborted", "done"}
          /\ (l = "done" => pc[c] = "tunnel")
      BY <1>1, <1>2, <1>12 DEF UpstreamFails, TunnelCloses
    <2>2. l = "done" => in[c].kind = "tunnel"
      BY <2>1 DEF PathOK
    <2>3. c \notin Due'
      BY <1>1, <1>3, <2>1, <2>2 DEF Due, Intercepted
    <2> QED BY <1>6, <1>7, <2>1, <2>3
  <1>13. CASE InsertVector(c)
    <2>1. pc[c] = "insert" /\ reply' = reply /\ l = (IF ByGateway(c) THEN "done" ELSE "deliver")
          /\ log' = IF reply[c].layer = "l3" THEN Record(c, reply[c].status) ELSE log
      BY <1>1, <1>2, <1>13 DEF InsertVector
    <2>2. CASE reply[c].layer = "l3"
      <3>1. c \notin Loggable /\ c \in Loggable'
        BY <1>3, <2>1, <2>2 DEF Loggable
      <3> QED BY <1>5, <1>6, <2>1, <2>2, <3>1
    <2>3. CASE reply[c].layer # "l3"
      <3>1. c \notin Due'
        BY <1>1, <1>3, <2>1, <2>3 DEF Due, Intercepted, ByGateway
      <3> QED BY <1>6, <1>7, <2>1, <2>3, <3>1
    <2> QED BY <2>2, <2>3
  <1>14. CASE Deliver(c)
    <2>1. pc[c] = "deliver" /\ reply' = reply /\ l = "done"
          /\ log' = IF Intercepted(c) /\ reply[c].layer # "l3"
                      THEN Record(c, reply[c].status) ELSE log
      BY <1>1, <1>2, <1>14 DEF Deliver
    <2>2. c \in Loggable'
      BY <1>3, <2>1 DEF Loggable
    <2>3. CASE Intercepted(c) /\ reply[c].layer # "l3"
      <3>1. c \notin Loggable
        BY <2>1, <2>3 DEF Loggable
      <3> QED BY <1>5, <1>6, <2>1, <2>2, <2>3, <3>1
    <2>4. CASE ~(Intercepted(c) /\ reply[c].layer # "l3")
      <3>1. c \in Due' => c \in Due
        BY <1>1, <2>1, <2>4 DEF Due, Intercepted
      <3> QED BY <1>4, <1>6, <2>1, <2>2, <2>4, <3>1
    <2> QED BY <2>3, <2>4
  <1>15. CASE WriteFails(c)
    <2>1. pc[c] = "deliver" /\ reply' = reply /\ l = "aborted" /\ log' = log
      BY <1>1, <1>2, <1>15 DEF WriteFails
    <2>2. c \in Loggable => c \in Loggable'
      BY <1>3, <2>1 DEF Loggable
    <2>3. c \notin Due'
      BY <1>3, <2>1 DEF Due
    <2> QED BY <1>4, <1>6, <2>1, <2>2, <2>3
  <1>16. CASE GatewayStore(c)
    <2>1. pc[c] = "idle" /\ log' = log /\ l \in {"insert", "done"} /\ in[c].kind = "gateway"
      BY <1>1, <1>2, <1>16 DEF GatewayStore, ByGateway
    <2>2. c \notin Due'
      BY <1>1, <2>1 DEF Due, Intercepted
    <2> QED BY <1>6, <1>7, <2>1, <2>2
  <1> QED BY <1>8, <1>9, <1>10, <1>11, <1>12, <1>13, <1>14, <1>15, <1>16 DEF CStep, LocalStep, OtherStep

\* What a step does to the exact cache: nothing, a hit, or an entry of its own.
LEMMA ExactWrites ==
  ASSUME NEW c \in Connections, CStep(c)
  PROVE  \/ exact' = exact
         \/ ExactHit(c) /\ \E k : Cached(exact, k) /\ exact' = Promote(exact, k)
         \/ UsesExact /\ \E a : exact' = Put(exact, KeyOf(c), a, ExactCapacity)
  <1>1. CASE ExactHit(c)
    BY <1>1 DEF ExactHit
  <1>2. CASE SlmAnswer(c) \/ GatewayStore(c)
    BY <1>2 DEF SlmAnswer, GatewayStore, Store
  <1>3. CASE UpstreamAnswers(c)
    BY <1>3 DEF UpstreamAnswers, Store
  <1>4. CASE Connect(c) \/ Reject(c) \/ Abandon(c) \/ ExactMiss(c) \/ SemanticHit(c)
             \/ SemanticMiss(c) \/ SlmDeclines(c) \/ UpstreamFails(c) \/ InsertVector(c)
             \/ TunnelCloses(c) \/ Deliver(c) \/ WriteFails(c)
    BY <1>4 DEF Connect, Reject, Abandon, ExactMiss, SemanticHit, SemanticMiss,
                SlmDeclines, UpstreamFails, InsertVector, TunnelCloses, Deliver,
                WriteFails, caches
  <1> QED BY <1>1, <1>2, <1>3, <1>4 DEF CStep, LocalStep, OtherStep

\* An answer just produced for a chat request is stored by the step that produced it.
LEMMA ProducedIsStored ==
  ASSUME IInv, PathOK, NEW c \in Connections, CStep(c), UsesExact,
         in[c].kind \in {"chat", "gateway"},
         reply'[c].layer \in {"l2", "l3", "gateway"}, reply'[c] # reply[c]
  PROVE  \E a : exact' = Put(exact, KeyOf(c), a, ExactCapacity)
  <1>1. reply \in [Connections -> Replies]
    BY DEF IInv, TypeOK
  <1> USE DEF Answer
  <1>2. CASE SlmAnswer(c) \/ GatewayStore(c)
    BY <1>2 DEF SlmAnswer, GatewayStore, Store
  <1>3. CASE UpstreamAnswers(c)
    <2>1. in[c].kind = "chat"
      BY <1>3 DEF UpstreamAnswers, PathOK
    <2> QED BY <1>3, <2>1 DEF UpstreamAnswers, Store
  <1>4. CASE ExactHit(c) \/ SemanticHit(c) \/ Reject(c)
    <2>1. reply'[c].layer \in {"l1a", "l1b", "none"}
      BY <1>1, <1>4 DEF ExactHit, SemanticHit, Reject, Served, Response
    <2> QED BY <2>1
  <1>5. CASE SlmDeclines(c)
    <2>1. reply' = reply \/ reply'[c].layer = "blocked"
      BY <1>1, <1>5 DEF SlmDeclines, Response
    <2> QED BY <2>1
  <1>6. CASE Connect(c) \/ Abandon(c) \/ ExactMiss(c) \/ SemanticMiss(c)
             \/ UpstreamFails(c) \/ TunnelCloses(c) \/ InsertVector(c)
             \/ Deliver(c) \/ WriteFails(c)
    <2>1. reply' = reply
      BY <1>6 DEF Connect, Abandon, ExactMiss, SemanticMiss, UpstreamFails,
                  TunnelCloses, InsertVector, Deliver, WriteFails
    <2> QED BY <2>1
  <1> QED BY <1>2, <1>3, <1>4, <1>5, <1>6 DEF CStep, LocalStep, OtherStep

LEMMA KeptStep ==
  ASSUME IInv, PathOK, AnsweredIsKept, NEW c \in Connections, CStep(c)
  PROVE  AnsweredIsKept'
  <1>1. in' = in /\ \A d \in Connections \ {c} : reply'[d] = reply[d]
    BY Frame DEF IInv, TypeOK
  <1>2. exact \in Seq(OwnExact) /\ Len(exact) <= ExactCapacity
        /\ ExactCapacity \in Nat \ {0}
    BY ProxyBoundsAssumption DEF IInv, CachesOwn, TypeOK
  <1>3. ASSUME UsesExact, NEW d \in Connections, in[d].kind \in {"chat", "gateway"},
               reply'[d].layer \in {"l2", "l3", "gateway"}
        PROVE  Cached(exact', KeyOf(d)) \/ Len(exact') = ExactCapacity
    <2>1. CASE reply'[d] = reply[d]
      <3>1. Cached(exact, KeyOf(d)) \/ Len(exact) = ExactCapacity
        BY <1>3, <2>1 DEF AnsweredIsKept
      <3>2. CASE exact' = exact
        BY <3>1, <3>2
      <3>3. ASSUME NEW k, ExactHit(c), Cached(exact, k), exact' = Promote(exact, k)
            PROVE  Cached(exact', KeyOf(d)) \/ Len(exact') = ExactCapacity
        BY <1>2, <3>1, <3>3, PromoteKeeps, ExactHitOwn
      <3>4. ASSUME NEW a, exact' = Put(exact, KeyOf(c), a, ExactCapacity)
            PROVE  Cached(exact', KeyOf(d)) \/ Len(exact') = ExactCapacity
        BY <1>2, <3>1, <3>4, PutKeeps
      <3> QED BY <3>2, <3>3, <3>4, ExactWrites
    <2>2. CASE reply'[d] # reply[d]
      <3>1. d = c
        BY <1>1, <2>2
      <3>2. PICK a : exact' = Put(exact, KeyOf(c), a, ExactCapacity)
        BY <1>3, <2>2, <3>1, ProducedIsStored
      <3>3. Cached(Put(exact, KeyOf(c), a, ExactCapacity), KeyOf(c))
        BY <1>2, PutKeeps
      <3> QED BY <3>1, <3>2, <3>3
    <2> QED BY <2>1, <2>2
  <1>4. ASSUME NEW d \in Connections PROVE KeyOf(d)' = KeyOf(d)
    BY <1>1 DEF KeyOf, ByGateway
  <1> QED BY <1>1, <1>3, <1>4 DEF AnsweredIsKept, UsesExact

LEMMA RingInit == Init => RingInv
  <1> SUFFICES ASSUME Init PROVE RingInv
    OBVIOUS
  <1>1. IInv
    BY ProxyInit
  <1>2. pc = [c \in Connections |-> "idle"] /\ reply = [c \in Connections |-> NoReply]
        /\ log = <<>>
    BY DEF Init
  <1>3. PathOK
    BY <1>2 DEF PathOK
  <1>4. Due = {} /\ LogCapacity \in Nat
    BY <1>2, ProxyBoundsAssumption DEF Due
  <1>5. Len(log) = 0 /\ DOMAIN log = {}
    BY <1>2
  <1>6. RingOK
    BY <1>4, <1>5 DEF RingOK
  <1>7. AnsweredIsKept
    BY <1>2 DEF AnsweredIsKept, NoReply
  <1> QED BY <1>1, <1>3, <1>6, <1>7 DEF RingInv

LEMMA RingInvStep == RingInv /\ [Next]_vars => RingInv'
  <1> SUFFICES ASSUME RingInv, [Next]_vars PROVE RingInv'
    OBVIOUS
  <1>1. IInv' /\ IInv /\ PathOK /\ RingOK /\ AnsweredIsKept
    BY ProxyStep DEF RingInv
  <1>2. ASSUME NEW c \in Connections, CStep(c) PROVE RingInv'
    <2>1. RingOK' /\ PathOK'
      BY <1>1, <1>2, RingStep
    <2>2. AnsweredIsKept'
      BY <1>1, <1>2, KeptStep
    <2> QED BY <1>1, <2>1, <2>2 DEF RingInv
  <1>3. ASSUME pc' = pc, in' = in, reply' = reply, exact' = exact, log' = log
        PROVE  RingInv'
    <2>1. PathOK'
      BY <1>1, <1>3 DEF PathOK
    <2>2. Loggable' = Loggable /\ Due' = Due
      BY <1>3 DEF Loggable, Due, Intercepted
    <2>3. RingOK'
      BY <1>1, <1>3, <2>2 DEF RingOK
    <2>4. AnsweredIsKept'
      BY <1>1, <1>3 DEF AnsweredIsKept, KeyOf, ByGateway
    <2> QED BY <1>1, <2>1, <2>3, <2>4 DEF RingInv
  <1>4. CASE Tick \/ Quiescent \/ UNCHANGED vars
    BY <1>3, <1>4 DEF Tick, Quiescent, vars, caches
  <1> QED BY <1>2, <1>4 DEF Next, CStep

LEMMA RingInvariant == Spec => []RingInv
  BY RingInit, RingInvStep, PTL DEF Spec

\* The ring of decisions never exceeds its capacity, never names a connection
\* twice, and as long as it is not full it misses nobody who was answered
\* (record_proxy_decision, called before the write for what the upstream
\* answered and after it for everything else).
THEOREM DecisionsAreOnce == Spec => []DecisionsOnce
  <1>1. ASSUME RingInv PROVE DecisionsOnce
    <2>1. RingOK
      BY <1>1 DEF RingInv
    <2>2. \A c \in Connections : Intercepted(c) /\ pc[c] = "done" => c \in Due
      BY DEF Due
    <2> QED BY <2>1, <2>2 DEF RingOK, DecisionsOnce, Decision
  <1> QED BY <1>1, RingInvariant, PTL

\* What was produced for a chat request, by the SLM, an upstream or the gateway,
\* is found under the key of a repeat for as long as the cache is not full,
\* whether or not the client waited for it (cache_response, ExactMatchCache).
THEOREM AnswersAreKept == Spec => []AnsweredIsKept
  <1>1. RingInv => AnsweredIsKept
    BY DEF RingInv
  <1> QED BY <1>1, RingInvariant, PTL

-----------------------------------------------------------------------------
(* The proxy keeps the promise of a deflection stack.                      *)

\* A connection on its way through the layers has no answer yet, and what is on
\* its way into the vector cache has been answered.
WaitOK ==
  \A c \in Connections :
    /\ pc[c] \in {"idle", "lookup", "search", "slm", "forward", "tunnel"} => reply[c] = NoReply
    /\ pc[c] = "insert" => reply[c].status \in {200, 500}

LEMMA WaitStep ==
  ASSUME IInv, WaitOK, NEW c \in Connections, CStep(c)
  PROVE  WaitOK'
  <1>1. pc \in [Connections -> PCs] /\ reply \in [Connections -> Replies]
        /\ in[c] \in Inputs /\ in[c].kind \in Kinds
    BY ProxyInputsAssumption DEF IInv, TypeOK
  <1>2. PICK l \in PCs : pc' = [pc EXCEPT ![c] = l]
    BY Frame DEF IInv
  <1>3. pc'[c] = l /\ \A d \in Connections \ {c} : pc'[d] = pc[d] /\ reply'[d] = reply[d]
    BY <1>1, <1>2, Frame DEF IInv
  <1>4. /\ l \in {"idle", "lookup", "search", "slm", "forward", "tunnel"} => reply'[c] = NoReply
        /\ l = "insert" => reply'[c].status \in {200, 500}
    <2> USE <1>1, <1>2, <1>3 DEF Goto, Answer
    <2>1. CASE Connect(c)
      <3>1. l # "insert" /\ reply' = reply /\ pc[c] = "idle"
        BY <2>1 DEF Connect, Entry, Kinds
      <3> QED BY <3>1 DEF WaitOK
    <2>2. CASE Reject(c) \/ Abandon(c) \/ ExactHit(c) \/ SemanticHit(c)
      BY <2>2 DEF Reject, Abandon, ExactHit, SemanticHit
    <2>3. CASE ExactMiss(c) \/ SemanticMiss(c)
      BY <2>3 DEF ExactMiss, SemanticMiss, WaitOK
    <2>4. CASE SlmAnswer(c)
      BY <2>4 DEF SlmAnswer, Response
    <2>5. CASE SlmDeclines(c)
      BY <2>5 DEF SlmDeclines, WaitOK
    <2>6. CASE UpstreamAnswers(c)
      <3>1. PICK by \in {"upstream", "error"} :
              reply' = [reply EXCEPT ![c] =
                Response(IF by = "error" THEN 500 ELSE 200, "l3", c, by)]
        BY <2>6, ZenonT(60) DEF UpstreamAnswers
      <3>2. reply'[c].status \in {200, 500}
        BY <3>1 DEF Response
      <3>3. l \in {"insert", "deliver"}
        BY <2>6 DEF UpstreamAnswers
      <3> QED BY <3>2, <3>3
    <2>7. CASE UpstreamFails(c) \/ TunnelCloses(c) \/ Deliver(c) \/ WriteFails(c)
      BY <2>7 DEF UpstreamFails, TunnelCloses, Deliver, WriteFails
    <2>8. CASE InsertVector(c)
      BY <2>8 DEF InsertVector
    <2>9. CASE GatewayStore(c)
      BY <2>9 DEF GatewayStore, Response
    <2> QED BY <2>1, <2>2, <2>3, <2>4, <2>5, <2>6, <2>7, <2>8, <2>9 DEF CStep, LocalStep, OtherStep
  <1> QED BY <1>3, <1>4 DEF WaitOK

Given == [d \in Connections |-> GivenTo(d)]

LEMMA GivenStays ==
  ASSUME reply' = reply
  PROVE  Given' = Given
  BY DEF Given, GivenTo

\* A step that answers a waiting connection gives it something, and no other.
LEMMA Gives ==
  ASSUME TypeOK, NEW c \in Connections, CStep(c), reply[c] = NoReply
  PROVE  /\ Given[c] = Promised!Waiting
         /\ reply'[c].status \in {200, 500} =>
              Given' = [Given EXCEPT ![c] = Promised!AnsweredFrom(reply'[c].body.origin)]
         /\ reply'[c].status \in {400, 503} =>
              Given' = [Given EXCEPT ![c] = Promised!Refused]
  <1>1. Given[c] = Promised!Waiting
    BY DEF Given, GivenTo, NoReply, Promised!Waiting
  <1>2. \A d \in Connections : d # c => reply'[d] = reply[d]
    BY Frame DEF TypeOK
  <1>3. /\ reply'[c].status \in {200, 500}
             => GivenTo(c)' = Promised!AnsweredFrom(reply'[c].body.origin)
        /\ reply'[c].status \in {400, 503} => GivenTo(c)' = Promised!Refused
    BY DEF GivenTo, Promised!AnsweredFrom, Promised!Refused
  <1>4. \A d \in Connections : d # c => GivenTo(d)' = GivenTo(d)
    BY <1>2 DEF GivenTo
  <1>5. ASSUME NEW what, GivenTo(c)' = what
        PROVE  Given' = [Given EXCEPT ![c] = what]
    BY <1>4, <1>5 DEF Given
  <1> QED BY <1>1, <1>3, <1>5

\* A hit reuses an answer that is kept (resolve_intercepted_request).
LEMMA HitReuses ==
  ASSUME IInv, WaitOK, NEW c \in Connections, ExactHit(c) \/ SemanticHit(c)
  PROVE  Promised!Reuse(c)
  <1>0. TypeOK /\ reply[c] = NoReply /\ CStep(c)
    BY DEF IInv, WaitOK, ExactHit, SemanticHit, CStep, LocalStep
  <1>1. ASSUME NEW a \in Answers, NEW layer, reply' = [reply EXCEPT ![c] = Served(layer, a)],
               a.origin \in KeptAnswers, MayShare(in[c], in[a.origin]), KeptAnswers' = KeptAnswers
        PROVE  Promised!Reuse(c)
    <2>1. reply'[c].status = 200 /\ reply'[c].body.origin = a.origin
      BY <1>0, <1>1 DEF Served, TypeOK
    <2>2. Promised!Give(c, Promised!AnsweredFrom(a.origin))
      <3>1. Given[c] = Promised!Waiting /\ Given' = [Given EXCEPT ![c] = Promised!AnsweredFrom(a.origin)]
        BY <1>0, <2>1, Gives
      <3> QED BY <3>1 DEF Promised!Give, Given
    <2> QED BY <1>1, <2>2 DEF Promised!Reuse
  <1>2. CASE ExactHit(c)
    <2> DEFINE k == ProxyKey(in[c])
               a == CachedValue(exact, k)
    <2>1. Cached(exact, k) /\ exact \in Seq(OwnExact) /\ exact' = Promote(exact, k)
          /\ vectors' = vectors
      BY <1>2 DEF ExactHit, IInv, CachesOwn
    <2>2. a \in Values(exact) /\ Values(exact') = Values(exact)
      BY <2>1, PromoteValues
    <2>3. PICK e \in OwnExact : e.key = k /\ e.val = a
      BY <2>1, HitReturnsEntry
    <2>4. a \in Answers /\ a.origin \in Connections /\ KeyOf(a.origin) = k
      BY <2>3 DEF OwnExact, ExactEntries, Answers
    <2>5. k = KeyOf(c)
      BY <1>2 DEF KeyOf, ByGateway, ExactHit, IInv, KindOK
    <2>6. MayShare(in[c], in[a.origin])
      BY <1>0, <2>4, <2>5, SameKeySameRequest DEF MayShare
    <2>7. KeptAnswers' = KeptAnswers /\ a.origin \in KeptAnswers
      BY <2>1, <2>2 DEF KeptAnswers
    <2>8. reply' = [reply EXCEPT ![c] = Served("l1a", a)]
      BY <1>2 DEF ExactHit, Answer
    <2> HIDE DEF a
    <2> QED BY <1>1, <2>4, <2>6, <2>7, <2>8
  <1>3. CASE SemanticHit(c)
    <2>1. PICK e \in Match(c) : reply' = [reply EXCEPT ![c] = Served("l1b", e.answer)]
      BY <1>3 DEF SemanticHit, Answer
    <2>2. e \in vectors /\ Score(TextOf(in[c]), e.input) >= Threshold
      BY DEF Match, BestMatch, Candidates, Live
    <2>3. e \in OwnVectors
      BY <2>2 DEF IInv, CachesOwn
    <2>4. e.answer \in Answers /\ e.input = TextOf(in[e.answer.origin])
      BY <2>3 DEF OwnVectors, VectorEntries
    <2>5. MayShare(in[c], in[e.answer.origin])
      BY <2>2, <2>4 DEF MayShare
    <2>6. KeptAnswers' = KeptAnswers /\ e.answer.origin \in KeptAnswers
      BY <1>3, <2>2 DEF SemanticHit, caches, KeptAnswers
    <2> QED BY <1>1, <2>1, <2>4, <2>5, <2>6
  <1> QED BY <1>2, <1>3

\* Storing an answer of c keeps it, unless the exact cache is not used.
LEMMA StoreKeeps ==
  ASSUME TypeOK, NEW c \in Connections, NEW a, a.origin = c, Store(c, a), vectors' = vectors
  PROVE  Promised!Keeping(c) \/ KeptAnswers' = KeptAnswers
  <1>1. CASE UsesExact
    <2>1. /\ exact' = Put(exact, KeyOf(c), a, ExactCapacity)
          /\ exact \in Seq(ExactEntries) /\ ExactCapacity \in Nat \ {0}
      BY <1>1, ProxyBoundsAssumption DEF Store, TypeOK
    <2>2. a \in Values(exact') /\ Values(exact') \subseteq Values(exact) \cup {a}
      BY <2>1, PutValues
    <2>3. c \in KeptAnswers' /\ KeptAnswers' \subseteq KeptAnswers \cup {c}
      BY <2>2 DEF KeptAnswers
    <2> QED BY <2>3 DEF Promised!Keeping
  <1>2. CASE ~UsesExact
    BY <1>2 DEF Store, KeptAnswers
  <1> QED BY <1>1, <1>2

\* An answer of the SLM, an upstream or the gateway is the connection's own.
LEMMA ProducesOwn ==
  ASSUME IInv, WaitOK, NEW c \in Connections,
         SlmAnswer(c) \/ UpstreamAnswers(c) \/ GatewayStore(c)
  PROVE  Promised!Produce(c)
  <1>0. TypeOK /\ reply[c] = NoReply /\ CStep(c)
    BY DEF IInv, WaitOK, SlmAnswer, UpstreamAnswers, GatewayStore, CStep, LocalStep, OtherStep
  <1>1. ASSUME NEW a, a.origin = c, vectors' = vectors, Store(c, a) \/ UNCHANGED exact,
               reply'[c].status \in {200, 500}, reply'[c].body.origin = c
        PROVE  Promised!Produce(c)
    <2>1. Promised!Give(c, Promised!AnsweredFrom(c))
      <3>1. Given[c] = Promised!Waiting /\ Given' = [Given EXCEPT ![c] = Promised!AnsweredFrom(c)]
        BY <1>0, <1>1, Gives
      <3> QED BY <3>1 DEF Promised!Give, Given
    <2>2. Promised!Keeping(c) \/ KeptAnswers' = KeptAnswers
      <3>1. CASE Store(c, a)
        BY <1>0, <1>1, <3>1, StoreKeeps
      <3>2. CASE UNCHANGED exact
        BY <1>1, <3>2 DEF KeptAnswers
      <3> QED BY <1>1, <3>1, <3>2
    <2> QED BY <2>1, <2>2 DEF Promised!Produce
  <1>2. CASE SlmAnswer(c)
    <2> DEFINE a == [origin |-> c, by |-> "slm"]
    <2>1. a.origin = c /\ vectors' = vectors /\ Store(c, a)
          /\ reply' = [reply EXCEPT ![c] = Response(200, "l2", c, "slm")]
      BY <1>2 DEF SlmAnswer, Answer
    <2>2. reply'[c].status = 200 /\ reply'[c].body.origin = c
      BY <1>0, <2>1 DEF Response, TypeOK
    <2> HIDE DEF a
    <2> QED BY <1>1, <2>1, <2>2
  <1>3. CASE GatewayStore(c)
    <2> DEFINE a == [origin |-> c, by |-> "gateway"]
    <2>1. a.origin = c /\ vectors' = vectors /\ Store(c, a)
          /\ reply' = [reply EXCEPT ![c] = Response(200, "gateway", c, "gateway")]
      BY <1>3 DEF GatewayStore, Answer
    <2>2. reply'[c].status = 200 /\ reply'[c].body.origin = c
      BY <1>0, <2>1 DEF Response, TypeOK
    <2> HIDE DEF a
    <2> QED BY <1>1, <2>1, <2>2
  <1>4. CASE UpstreamAnswers(c)
    <2>1. vectors' = vectors
      BY <1>4 DEF UpstreamAnswers
    <2>2. PICK by \in {"upstream", "error"} :
            /\ Answer(c, Response(IF by = "error" THEN 500 ELSE 200, "l3", c, by))
            /\ IF in[c].kind = "chat" THEN Store(c, [origin |-> c, by |-> by])
                                      ELSE UNCHANGED exact
      BY <1>4 DEF UpstreamAnswers
    <2> DEFINE a == [origin |-> c, by |-> by]
               status == IF by = "error" THEN 500 ELSE 200
    <2>3. /\ a.origin = c /\ status \in {200, 500} /\ (Store(c, a) \/ UNCHANGED exact)
          /\ reply' = [reply EXCEPT ![c] = Response(status, "l3", c, by)]
      BY <2>2 DEF Answer
    <2>4. reply'[c].status = status /\ reply'[c].body.origin = c
      BY <1>0, <2>3 DEF Response, TypeOK
    <2> HIDE DEF a, status
    <2> QED BY <1>1, <2>1, <2>3, <2>4
  <1> QED BY <1>2, <1>3, <1>4

\* A connection that is turned away is given nothing.
LEMMA TurnsAway ==
  ASSUME IInv, WaitOK, NEW c \in Connections, Reject(c) \/ SlmDeclines(c)
  PROVE  Promised!Refuse(c) \/ (Given' = Given /\ KeptAnswers' = KeptAnswers)
  <1>0. TypeOK /\ reply[c] = NoReply /\ CStep(c) /\ KeptAnswers' = KeptAnswers
    BY DEF IInv, WaitOK, Reject, SlmDeclines, CStep, LocalStep, OtherStep, caches, KeptAnswers
  <1>1. ASSUME reply'[c].status \in {400, 503}
        PROVE  Promised!Refuse(c)
    <2>1. Promised!Give(c, Promised!Refused)
      <3>1. Given[c] = Promised!Waiting /\ Given' = [Given EXCEPT ![c] = Promised!Refused]
        BY <1>0, <1>1, Gives
      <3> QED BY <3>1 DEF Promised!Give, Given
    <2> QED BY <1>0, <2>1 DEF Promised!Refuse
  <1>2. CASE Reject(c)
    <2>1. reply'[c].status = 400
      BY <1>0, <1>2 DEF Reject, Answer, Response, TypeOK
    <2> QED BY <1>1, <2>1
  <1>3. CASE SlmDeclines(c)
    <2>1. reply' = reply \/ reply' = [reply EXCEPT ![c] = Response(503, "blocked", c, "error")]
      BY <1>3 DEF SlmDeclines, Answer
    <2>2. reply' = reply \/ reply'[c].status = 503
      BY <1>0, <2>1 DEF Response, TypeOK
    <2> QED BY <1>0, <1>1, <2>2, GivenStays
  <1> QED BY <1>2, <1>3

\* What is inserted has been given (cache_response).
LEMMA InsertKeepsGiven ==
  ASSUME IInv, WaitOK, NEW c \in Connections, InsertVector(c)
  PROVE  Promised!Keep(c)
  <1> DEFINE entry == NewEntry(c)
             o == reply[c].body.origin
  <1>1. /\ vectors' = Insert(vectors, entry, now, VectorCapacity)
        /\ exact' = exact /\ reply' = reply /\ pc[c] = "insert"
    BY DEF InsertVector
  <1>2. /\ reply[c] \in Replies /\ reply[c].status \in {200, 500}
        /\ reply[c].layer \in {"l2", "l3", "gateway"}
    BY <1>1 DEF IInv, TypeOK, OwnInsert, WaitOK
  <1>3. o \in Connections
    BY <1>2, ReplyBody
  <1>4. Given[c] = Promised!AnsweredFrom(o)
    BY <1>2 DEF Given, GivenTo, Promised!AnsweredFrom
  <1>5. entry.answer.origin = o
    BY DEF NewEntry
  <1>6. Given' = Given
    BY <1>1, GivenStays
  <1> HIDE DEF entry, o
  <1>7. vectors' \subseteq vectors \cup {entry} /\ entry \in vectors'
    BY <1>1, InsertKeeps DEF Insert
  <1>8. Promised!Keeping(o)
    BY <1>1, <1>5, <1>7 DEF Promised!Keeping, KeptAnswers
  <1> QED BY <1>3, <1>4, <1>6, <1>8 DEF Promised!Keep, Given

LEMMA PromiseStep ==
  ASSUME IInv, WaitOK, NEW c \in Connections, CStep(c)
  PROVE  Promised!Next \/ UNCHANGED <<in, Given, KeptAnswers>>
  <1>0. in' = in
    BY Frame DEF IInv
  <1>1. ASSUME \/ Promised!Produce(c) \/ Promised!Reuse(c) \/ Promised!Refuse(c)
               \/ Promised!Keep(c)
        PROVE  Promised!Next
    BY <1>0, <1>1 DEF Promised!Next
  <1>2. CASE ExactHit(c) \/ SemanticHit(c)
    BY <1>1, <1>2, HitReuses
  <1>3. CASE SlmAnswer(c) \/ UpstreamAnswers(c) \/ GatewayStore(c)
    BY <1>1, <1>3, ProducesOwn
  <1>4. CASE Reject(c) \/ SlmDeclines(c)
    BY <1>0, <1>1, <1>4, TurnsAway
  <1>5. CASE InsertVector(c)
    BY <1>1, <1>5, InsertKeepsGiven
  <1>6. CASE Connect(c) \/ Abandon(c) \/ ExactMiss(c) \/ SemanticMiss(c) \/ UpstreamFails(c)
             \/ TunnelCloses(c) \/ Deliver(c) \/ WriteFails(c)
    <2>1. UNCHANGED <<reply, caches>>
      BY <1>6 DEF Connect, Abandon, ExactMiss, SemanticMiss, UpstreamFails, TunnelCloses,
         Deliver, WriteFails
    <2> QED BY <1>0, <2>1, GivenStays DEF caches, KeptAnswers
  <1> QED BY <1>2, <1>3, <1>4, <1>5, <1>6 DEF CStep, LocalStep, OtherStep

\* The CONNECT proxy implements the same promise as the gateway, in the caches
\* it shares with it: an answer is the connection's own or one that was kept
\* and given before (proxy/connect.rs).
THEOREM ProxyKeepsThePromise == Spec => ImplementsDeflection
  <1> DEFINE Inv == IInv /\ WaitOK
  <1>1. Init => Inv
    BY ProxyInit DEF Init, WaitOK
  <1>2. Inv /\ [Next]_vars => Inv'
    <2> SUFFICES ASSUME Inv, [Next]_vars PROVE Inv'
      OBVIOUS
    <2>1. ASSUME UNCHANGED <<pc, reply>> PROVE WaitOK'
      BY <2>1 DEF WaitOK
    <2> QED BY <2>1, ProxyStep, WaitStep DEF Next, CStep, Tick, Quiescent, vars
  <1>3. Init => Promised!Init
    <2> SUFFICES ASSUME Init PROVE Promised!Init
      OBVIOUS
    <2>1. \A c \in Connections : GivenTo(c) = Promised!Waiting
      BY DEF Init, NoReply, GivenTo, Promised!Waiting
    <2>2. KeptAnswers = {}
      BY DEF Init, KeptAnswers, Values
    <2> QED BY <2>1, <2>2 DEF Init, Promised!Init
  <1>4. Inv /\ [Next]_vars => [Promised!Next]_(Promised!vars)
    <2> SUFFICES ASSUME Inv, [Next]_vars PROVE Promised!Next \/ UNCHANGED <<in, Given, KeptAnswers>>
      BY DEF Promised!vars, Given
    <2>1. ASSUME UNCHANGED <<in, reply, exact, vectors>>
          PROVE  UNCHANGED <<in, Given, KeptAnswers>>
      BY <2>1, GivenStays DEF KeptAnswers
    <2> QED BY <2>1, PromiseStep DEF Next, CStep, Tick, Quiescent, vars, caches
  <1> HIDE DEF Inv
  <1> QED BY <1>1, <1>2, <1>3, <1>4, PTL DEF Spec, ImplementsDeflection, Promised!Spec

\* Whoever the proxy answers shares the answer of a connection that was given it
\* first, and no answer is ever taken back.
THEOREM ProxyAnswersFirstHand == Spec => []Promised!FirstHand /\ Promised!AnsweredOnce
  BY ProxyKeepsThePromise, Promised!AnswersAreFirstHand, Promised!AnswersAreFinal, PTL
     DEF ImplementsDeflection
=============================================================================
