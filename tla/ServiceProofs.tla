---------------------------- MODULE ServiceProofs ----------------------------
(***************************************************************************)
(* Proofs about the services that MCServices takes one at a time, the MCP  *)
(* servers, streaming, the local model, the user's configuration, the      *)
(* request log, the counters, the server's start, stop and update, the     *)
(* sign-in to Copilot and the compression of instruction texts.  Each part *)
(* has an inductive invariant of its own, and holds for any number of      *)
(* tasks, messages, requests, files, processes and failures, and for texts *)
(* of any length: induction over their lines rests on the                  *)
(* well-foundedness of the naturals.                                       *)
(***************************************************************************)
EXTENDS MCServices, FiniteSetTheorems, SequenceTheorems, WellFoundedInduction, TLAPS

-----------------------------------------------------------------------------
(* The MCP servers: what clients are told of the caches.                   *)
\* A result is true of a message if what it says was in the caches once is
\* among what has been written.
TrueOf(m, result, written) ==
  /\ result.kind = "hit" => <<m.prompt, result.text>> \in written
  /\ result.kind = "stored" => <<m.prompt, m.text>> \in written

PostRecords ==
  [pc : PostPCs, batch : Batches \cup {<<>>}, held : Results, replies : Seq(Nat \X Results),
   next : Nat \ {0}, session : Nat, status : Nat]

\* The replies are to messages of the batch that are answered, all of those
\* before the next one, in their order.
InOrder(x) ==
  /\ \A i \in DOMAIN x.replies :
       x.replies[i][1] \in 1 .. x.next - 1 /\ Responds(x.batch[x.replies[i][1]])
  /\ \A n \in 1 .. x.next - 1 :
       Responds(x.batch[n]) => \E i \in DOMAIN x.replies : x.replies[i][1] = n
  /\ \A i, j \in DOMAIN x.replies : i < j => x.replies[i][1] < x.replies[j][1]

\* What holds of a task of POST /mcp, given what has been written to the caches.
Progress(x) ==
  /\ x.pc \in {"handle", "called"} =>
       x.session # 0 /\ x.batch \in Batches /\ x.next <= Len(x.batch) + 1 /\ InOrder(x)
  /\ x.pc = "called" => x.next <= Len(x.batch)
  /\ x.pc = "done" /\ x.session # 0 =>
       /\ x.batch \in Batches /\ x.next = Len(x.batch) + 1 /\ InOrder(x)
       /\ x.status = 200 <=> x.replies # <<>>
  /\ x.pc = "idle" => x = IdlePost

Truthful(x, written) ==
  /\ x.pc = "called" => TrueOf(x.batch[x.next], x.held, written)
  /\ \A i \in DOMAIN x.replies : TrueOf(x.batch[x.replies[i][1]], x.replies[i][2], written)

StdioRecords ==
  [pc : {"read", "ask", "asked", "write", "ended"}, line : Lines \cup {NoMessage},
   held : Results, lines : Nat, told : Seq((Lines \cup {NoMessage}) \X Results)]

StdioTruthful(x, written) ==
  /\ x.pc = "ask" => x.line \in Lines /\ Asks(x.line)
  /\ x.pc \in {"asked", "write"} => TrueOf(x.line, x.held, written)
  /\ \A i \in DOMAIN x.told : TrueOf(x.told[i][1], x.told[i][2], written)

McpInv ==
  /\ post \in [Posts -> PostRecords] /\ stdio \in StdioRecords
  /\ registry \subseteq Nat \ {0} /\ issued \in Nat
  /\ table \in [Prompts -> McpTexts]
  /\ \A p \in Posts : Progress(post[p]) /\ Truthful(post[p], stored)
  /\ StdioTruthful(stdio, stored)
  /\ \A q \in Prompts : table[q] # "" => <<q, table[q]>> \in stored

LEMMA ResultTypes ==
  /\ \A kind \in {"none", "ok", "error", "tool error", "stored", "empty", "hit"} :
       Result(kind) \in Results
  /\ \A m : LocalResult(m) \in Results /\ LocalResult(m).kind \notin {"hit", "stored"}
  BY DEF Result, Results, McpTexts, LocalResult

LEMMA IdleTask ==
  /\ IdlePost \in PostRecords
  /\ IdlePost.replies = <<>> /\ IdlePost.session = 0 /\ IdlePost.next = 1
  <1>1. Result("none") \in Results
    BY ResultTypes
  <1> QED BY <1>1 DEF IdlePost, PostRecords, PostPCs

LEMMA McpStarts == McpInit => McpInv
  <1> SUFFICES ASSUME McpInit PROVE McpInv
    OBVIOUS
  <1>1. Result("none") \in Results
    BY ResultTypes
  <1>2. IdlePost \in PostRecords
    BY IdleTask
  <1>3. StdioStart \in StdioRecords
    BY <1>1 DEF StdioStart, StdioRecords
  <1>4. Progress(IdlePost) /\ Truthful(IdlePost, {})
    BY DEF IdlePost, Progress, Truthful
  <1>5. StdioTruthful(StdioStart, {})
    BY DEF StdioStart, StdioTruthful
  <1> QED BY <1>2, <1>3, <1>4, <1>5 DEF McpInit, McpInv, McpTexts

\* What is true stays true: nothing is ever taken back from what was written.
LEMMA TruthLasts ==
  ASSUME NEW written, NEW more, written \subseteq more
  PROVE  /\ \A x : Truthful(x, written) => Truthful(x, more)
         /\ \A x : StdioTruthful(x, written) => StdioTruthful(x, more)
  BY DEF Truthful, StdioTruthful, TrueOf

\* The messages of a batch are known, and their prompts have a place.
LEMMA MessageTypes ==
  /\ \A b \in Batches : \A n \in 1 .. Len(b) : b[n] \in Messages
  /\ \A m \in Messages : m.prompt \in Prompts /\ m.text \in McpTexts
  /\ Lines \subseteq Messages
  <1>1. ASSUME NEW b \in Batches, NEW n \in 1 .. Len(b) PROVE b[n] \in Messages
    <2>1. b[n] \in {b[i] : i \in DOMAIN b}
      BY BatchesAssumption
    <2> QED BY <2>1 DEF Messages
  <1>2. Lines \subseteq Messages
    BY DEF Messages
  <1> QED BY <1>1, <1>2 DEF Prompts, McpTexts

\* One call of a cache handler: its result is true, and the table remains so
\* (mcp.rs handle_tools_call).
LEMMA CallIsTrue ==
  ASSUME McpInv, NEW m \in Messages, Asks(m), CacheEffect(m)
  PROVE  /\ Asked(m) \in Results /\ TrueOf(m, Asked(m), stored')
         /\ stored \subseteq stored' /\ table' \in [Prompts -> McpTexts]
         /\ \A q \in Prompts : table'[q] # "" => <<q, table'[q]>> \in stored'
  <1>1. m.prompt \in Prompts /\ m.text \in McpTexts /\ table \in [Prompts -> McpTexts]
    BY MessageTypes DEF McpInv
  <1>2. CASE m.method = "isartor_cache_store"
    <2>1. Asked(m) = Result("stored") /\ table' = [table EXCEPT ![m.prompt] = m.text]
          /\ stored' = stored \cup {<<m.prompt, m.text>>}
      BY <1>2 DEF Asked, CacheEffect
    <2>2. Result("stored") \in Results
      BY ResultTypes
    <2>3. TrueOf(m, Result("stored"), stored')
      BY <2>1 DEF TrueOf, Result
    <2> QED BY <1>1, <2>1, <2>2, <2>3 DEF McpInv
  <1>3. CASE m.method # "isartor_cache_store"
    <2>1. UNCHANGED <<table, stored>>
      BY <1>3 DEF CacheEffect
    <2>2. CASE table[m.prompt] = ""
      <3>1. Asked(m) = Result("empty")
        BY <1>3, <2>2 DEF Asked
      <3>2. Result("empty") \in Results
        BY ResultTypes
      <3>3. TrueOf(m, Result("empty"), stored')
        BY DEF TrueOf, Result
      <3> QED BY <1>1, <2>1, <3>1, <3>2, <3>3 DEF McpInv
    <2>3. CASE table[m.prompt] # ""
      <3>1. Asked(m) = [kind |-> "hit", text |-> table[m.prompt]]
        BY <1>3, <2>3 DEF Asked
      <3>2. Asked(m) \in Results
        BY <1>1, <3>1 DEF Results
      <3>3. TrueOf(m, Asked(m), stored')
        <4>1. <<m.prompt, table[m.prompt]>> \in stored
          BY <1>1, <2>3 DEF McpInv
        <4> QED BY <2>1, <3>1, <4>1 DEF TrueOf
      <3> QED BY <1>1, <2>1, <3>2, <3>3 DEF McpInv
    <2> QED BY <2>2, <2>3
  <1> QED BY <1>2, <1>3

\* One reply more keeps them in order and true.
LEMMA ReplyAdded ==
  ASSUME NEW x \in PostRecords, NEW y, NEW result \in Results, NEW written,
         InOrder(x), Truthful(x, written), Responds(x.batch[x.next]),
         TrueOf(x.batch[x.next], result, written),
         y.pc = "handle", y.batch = x.batch, y.next = x.next + 1,
         y.replies = Append(x.replies, <<x.next, result>>)
  PROVE  InOrder(y) /\ Truthful(y, written)
  <1> DEFINE k == Len(x.replies)
  <1>1. x.replies \in Seq(Nat \X Results) /\ x.next \in Nat \ {0}
    BY DEF PostRecords
  <1>2. k \in Nat /\ DOMAIN x.replies = 1 .. k
    BY <1>1
  <1>3. DOMAIN y.replies = 1 .. k + 1
    BY <1>1
  <1>4. \A i \in 1 .. k : y.replies[i] = x.replies[i]
    BY <1>1
  <1>5. y.replies[k + 1][1] = x.next /\ y.replies[k + 1][2] = result
    BY <1>1
  <1>6. \A i \in 1 .. k : x.replies[i][1] \in 1 .. x.next - 1
    BY <1>2 DEF InOrder
  <1> HIDE DEF k
  <1>7. \A i \in DOMAIN y.replies :
          y.replies[i][1] \in 1 .. y.next - 1 /\ Responds(y.batch[y.replies[i][1]])
    <2> TAKE i \in DOMAIN y.replies
    <2>1. CASE i = k + 1
      BY <1>1, <1>5, <2>1
    <2>2. CASE i # k + 1
      <3>1. i \in 1 .. k
        BY <1>2, <1>3, <2>2
      <3>2. x.replies[i][1] \in 1 .. x.next - 1 /\ Responds(x.batch[x.replies[i][1]])
        BY <1>2, <3>1 DEF InOrder
      <3>3. y.replies[i] = x.replies[i]
        BY <1>4, <3>1
      <3>4. x.replies[i][1] \in 1 .. y.next - 1
        BY <1>1, <3>2
      <3> QED BY <3>2, <3>3, <3>4
    <2> QED BY <2>1, <2>2
  <1>8. ASSUME NEW n \in 1 .. y.next - 1, Responds(y.batch[n])
        PROVE  \E i \in DOMAIN y.replies : y.replies[i][1] = n
    <2>1. CASE n = x.next
      <3>1. k + 1 \in DOMAIN y.replies
        BY <1>2, <1>3
      <3> QED BY <1>5, <2>1, <3>1
    <2>2. CASE n # x.next
      <3>1. n \in 1 .. x.next - 1
        BY <1>1, <2>2
      <3>2. PICK i \in DOMAIN x.replies : x.replies[i][1] = n
        BY <1>8, <3>1 DEF InOrder
      <3>3. i \in DOMAIN y.replies /\ y.replies[i] = x.replies[i]
        BY <1>2, <1>3, <1>4
      <3> QED BY <3>2, <3>3
    <2> QED BY <2>1, <2>2
  <1>9. ASSUME NEW i \in DOMAIN y.replies, NEW j \in DOMAIN y.replies, i < j
        PROVE  y.replies[i][1] < y.replies[j][1]
    <2>1. i \in 1 .. k
      BY <1>2, <1>3, <1>9
    <2>2. CASE j = k + 1
      <3>1. y.replies[i][1] \in 1 .. x.next - 1 /\ y.replies[j][1] = x.next
        BY <1>4, <1>5, <1>6, <2>1, <2>2
      <3>2. \A a, b, c \in Nat : a \in 1 .. b - 1 /\ c = b => a < c
        OBVIOUS
      <3>3. x.next \in Nat
        BY <1>1
      <3>4. y.replies[i][1] \in Nat /\ y.replies[j][1] \in Nat
        BY ONLY <3>1, <3>3
      <3> QED BY ONLY <3>1, <3>2, <3>3, <3>4
    <2>3. CASE j # k + 1
      <3>1. j \in 1 .. k
        BY <1>2, <1>3, <2>3
      <3>2. x.replies[i][1] < x.replies[j][1]
        BY <1>2, <1>9, <2>1, <3>1 DEF InOrder
      <3> QED BY <1>4, <2>1, <3>1, <3>2
    <2> QED BY <2>2, <2>3
  <1>10. \A i \in DOMAIN y.replies :
           TrueOf(y.batch[y.replies[i][1]], y.replies[i][2], written)
    <2> TAKE i \in DOMAIN y.replies
    <2>1. CASE i = k + 1
      BY <1>5, <2>1
    <2>2. CASE i # k + 1
      <3>1. i \in 1 .. k
        BY <1>2, <1>3, <2>2
      <3> QED BY <1>2, <1>4, <3>1 DEF Truthful
    <2> QED BY <2>1, <2>2
  <1> QED BY <1>7, <1>8, <1>9, <1>10 DEF InOrder, Truthful

\* The fields of a task that has gone on.
LEMMA PostUpdate ==
  ASSUME NEW x \in PostRecords, NEW n \in Nat \ {0}, NEW replies \in Seq(Nat \X Results),
         NEW y, y = [x EXCEPT !.pc = "handle", !.next = n, !.replies = replies]
  PROVE  /\ y \in PostRecords
         /\ y.pc = "handle" /\ y.next = n /\ y.batch = x.batch
         /\ y.session = x.session /\ y.replies = replies
  BY DEF PostRecords, PostPCs

\* Going on to the next message keeps the replies in order and true.
LEMMA RepliedKeeps ==
  ASSUME McpInv, NEW p \in Posts, NEW result \in Results, Replied(p, result),
         post[p].pc \in {"handle", "called"}, post[p].next <= Len(post[p].batch),
         TrueOf(Current(p), result, stored)
  PROVE  /\ post' \in [Posts -> PostRecords]
         /\ Progress(post'[p]) /\ Truthful(post'[p], stored)
         /\ \A s \in Posts : s # p => post'[s] = post[s]
  <1> DEFINE x == post[p]
             grown == IF Responds(Current(p)) THEN Append(x.replies, <<x.next, result>>)
                      ELSE x.replies
             y == [x EXCEPT !.pc = "handle", !.next = @ + 1, !.replies = grown]
  <1>1. x \in PostRecords /\ Progress(x) /\ Truthful(x, stored) /\ x.pc \in {"handle", "called"}
    BY DEF McpInv
  <1>2. x.batch \in Batches /\ InOrder(x) /\ x.session # 0
    BY <1>1 DEF Progress
  <1>3. x.replies \in Seq(Nat \X Results) /\ x.next \in Nat \ {0}
    BY <1>1 DEF PostRecords
  <1>4. Len(x.batch) \in Nat
    BY <1>2, BatchesAssumption
  <1>5. post' = [post EXCEPT ![p] = y]
    BY <1>1 DEF Replied, McpInv, PostRecords
  <1>6. grown \in Seq(Nat \X Results)
    BY <1>1, <1>3
  <1>7. Current(p) = x.batch[x.next] /\ x.next <= Len(x.batch)
    BY DEF Current
  <1>8. TrueOf(x.batch[x.next], result, stored)
    BY <1>7
  <1>9. post \in [Posts -> PostRecords]
    BY DEF McpInv
  <1>10. grown = IF Responds(x.batch[x.next]) THEN Append(x.replies, <<x.next, result>>)
                ELSE x.replies
    BY <1>7
  <1> HIDE DEF grown, x
  <1>11. /\ y.pc = "handle" /\ y.next = x.next + 1 /\ y.batch = x.batch
        /\ y.session = x.session /\ y.replies = grown
    BY <1>1 DEF PostRecords
  <1>12. /\ y \in PostRecords
         /\ y.pc = "handle" /\ y.next = x.next + 1 /\ y.batch = x.batch
         /\ y.session = x.session /\ y.replies = grown
    <2>1. y = [x EXCEPT !.pc = "handle", !.next = x.next + 1, !.replies = grown]
      OBVIOUS
    <2>2. x.next + 1 \in Nat \ {0}
      BY <1>3
    <2>3. x \in PostRecords
      BY <1>1
    <2> HIDE DEF y
    <2>4. y \in PostRecords
      BY ONLY <1>6, <2>1, <2>2, <2>3, PostUpdate
    <2> QED BY <2>4, <1>11
  <1> HIDE DEF y
  <1>13. InOrder(y) /\ Truthful(y, stored)
    <2>1. CASE Responds(x.batch[x.next])
      <3>1. y.replies = Append(x.replies, <<x.next, result>>)
        BY <1>12, <1>10, <2>1
      <3> QED BY <1>1, <1>2, <1>8, <1>12, <2>1, <3>1, ReplyAdded
    <2>2. CASE ~Responds(x.batch[x.next])
      <3>1. y.replies = x.replies
        BY <1>12, <1>10, <2>2
      <3>2. Truthful(y, stored)
        BY <1>1, <1>12, <3>1 DEF Truthful
      <3>3. InOrder(y)
        <4>1. y.next - 1 = x.next
          BY <1>3, <1>12
        <4>2. \A n \in 1 .. x.next - 1 : n \in 1 .. x.next
          BY <1>3
        <4>3. \A n \in 1 .. x.next : n \in 1 .. x.next - 1 \/ n = x.next
          BY <1>3
        <4>4. \A i \in DOMAIN x.replies :
                x.replies[i][1] \in 1 .. x.next /\ Responds(x.batch[x.replies[i][1]])
          BY <1>2, <4>2 DEF InOrder
        <4>5. \A n \in 1 .. x.next :
                Responds(x.batch[n]) => \E i \in DOMAIN x.replies : x.replies[i][1] = n
          BY <1>2, <2>2, <4>3 DEF InOrder
        <4>6. \A i, j \in DOMAIN x.replies : i < j => x.replies[i][1] < x.replies[j][1]
          BY <1>2 DEF InOrder
        <4> QED BY <1>12, <3>1, <4>1, <4>4, <4>5, <4>6 DEF InOrder
      <3> QED BY <3>2, <3>3
    <2> QED BY <2>1, <2>2
  <1>14. Progress(y)
    BY <1>2, <1>3, <1>4, <1>7, <1>12, <1>13 DEF Progress
  <1> QED BY <1>5, <1>9, <1>12, <1>13, <1>14

\* What a step on one task keeps: enough to look at that task.
LEMMA OneTask ==
  ASSUME McpInv, NEW p \in Posts, NEW y \in PostRecords, post' = [post EXCEPT ![p] = y],
         Progress(y), Truthful(y, stored')
  PROVE  stored \subseteq stored' =>
           /\ post' \in [Posts -> PostRecords]
           /\ \A s \in Posts : Progress(post'[s]) /\ Truthful(post'[s], stored')
  <1> SUFFICES ASSUME stored \subseteq stored'
               PROVE  /\ post' \in [Posts -> PostRecords]
                      /\ \A s \in Posts : Progress(post'[s]) /\ Truthful(post'[s], stored')
    OBVIOUS
  <1>1. post \in [Posts -> PostRecords]
    BY DEF McpInv
  <1>2. post'[p] = y /\ \A s \in Posts : s # p => post'[s] = post[s]
    BY <1>1
  <1>3. \A s \in Posts : Progress(post[s]) /\ Truthful(post[s], stored')
    BY TruthLasts DEF McpInv
  <1> QED BY <1>1, <1>2, <1>3

LEMMA Arrived ==
  ASSUME McpInv, NEW p \in Posts, PostArrives(p)
  PROVE  McpInv'
  <1> DEFINE x == post[p]
  <1>1. x = IdlePost /\ x \in PostRecords
    <2>1. x \in PostRecords /\ Progress(x) /\ x.pc = "idle"
      BY DEF PostArrives, McpInv
    <2> QED BY <2>1 DEF Progress
  <1>2. UNCHANGED <<table, stdio, stored>>
    BY DEF PostArrives
  <1>3. /\ registry' \subseteq Nat \ {0} /\ issued' \in Nat
        /\ \E y \in PostRecords : /\ post' = [post EXCEPT ![p] = y]
                                  /\ Progress(y) /\ Truthful(y, stored)
    <2>1. PICK b \in Batches, s \in told \cup {0} :
            IF \A i \in DOMAIN b : ~IsRequest(b[i])
              THEN Refuse(p, b, 202) /\ UNCHANGED <<registry, issued>>
            ELSE IF Initializes(b)
              THEN /\ issued < MaxSessions
                   /\ issued' = issued + 1
                   /\ registry' = registry \cup {issued + 1}
                   /\ post' = [post EXCEPT ![p].pc = "handle", ![p].batch = b,
                                           ![p].session = issued + 1]
              ELSE /\ IF s \in registry
                        THEN post' = [post EXCEPT ![p].pc = "handle", ![p].batch = b,
                                                  ![p].session = s]
                        ELSE Refuse(p, b, IF s = 0 THEN 400 ELSE 404)
                   /\ UNCHANGED <<registry, issued>>
      BY Zenon DEF PostArrives
    <2>2. \A status \in Nat :
            LET y == [IdlePost EXCEPT !.pc = "done", !.batch = b, !.status = status]
            IN  y \in PostRecords /\ Progress(y) /\ Truthful(y, stored)
      <3> TAKE status \in Nat
      <3> DEFINE y == [IdlePost EXCEPT !.pc = "done", !.batch = b, !.status = status]
      <3>1. y \in PostRecords
        BY IdleTask DEF PostRecords, PostPCs
      <3>2. y.pc = "done" /\ y.session = 0 /\ y.replies = <<>>
        BY IdleTask DEF PostRecords
      <3> HIDE DEF y
      <3>3. Progress(y) /\ Truthful(y, stored)
        BY <3>2 DEF Progress, Truthful
      <3> QED BY <3>1, <3>3 DEF y
    <2>3. \A session \in Nat \ {0} :
            LET y == [IdlePost EXCEPT !.pc = "handle", !.batch = b, !.session = session]
            IN  y \in PostRecords /\ Progress(y) /\ Truthful(y, stored)
      <3> TAKE session \in Nat \ {0}
      <3> DEFINE y == [IdlePost EXCEPT !.pc = "handle", !.batch = b, !.session = session]
      <3>1. Len(b) \in Nat
        BY BatchesAssumption
      <3>2. y \in PostRecords
        BY IdleTask DEF PostRecords, PostPCs
      <3>3. /\ y.pc = "handle" /\ y.session # 0 /\ y.batch = b /\ y.replies = <<>>
            /\ y.next = 1
        BY IdleTask DEF PostRecords
      <3> HIDE DEF y
      <3>4. Progress(y) /\ Truthful(y, stored)
        BY <3>1, <3>3 DEF Progress, Truthful, InOrder
      <3> QED BY <3>2, <3>4 DEF y
    <2>4. ASSUME NEW status \in Nat, Refuse(p, b, status)
          PROVE  \E y \in PostRecords : /\ post' = [post EXCEPT ![p] = y]
                                        /\ Progress(y) /\ Truthful(y, stored)
      <3>1. post' = [post EXCEPT ![p] = [IdlePost EXCEPT !.pc = "done", !.batch = b,
                                                         !.status = status]]
        BY <1>1, <2>4 DEF Refuse
      <3> QED BY <2>2, <3>1
    <2>5. ASSUME NEW session \in Nat \ {0},
                 post' = [post EXCEPT ![p].pc = "handle", ![p].batch = b, ![p].session = session]
          PROVE  \E y \in PostRecords : /\ post' = [post EXCEPT ![p] = y]
                                        /\ Progress(y) /\ Truthful(y, stored)
      <3>1. post' = [post EXCEPT ![p] = [IdlePost EXCEPT !.pc = "handle", !.batch = b,
                                                         !.session = session]]
        BY <1>1, <2>5
      <3> QED BY <2>3, <3>1
    <2>6. registry \subseteq Nat \ {0} /\ issued \in Nat
      BY DEF McpInv
    <2>7. CASE \A i \in DOMAIN b : ~IsRequest(b[i])
      <3>1. Refuse(p, b, 202) /\ UNCHANGED <<registry, issued>>
        BY <2>1, <2>7
      <3> QED BY <2>4, <2>6, <3>1
    <2>8. CASE (\E i \in DOMAIN b : IsRequest(b[i])) /\ Initializes(b)
      <3>1. /\ issued' = issued + 1 /\ registry' = registry \cup {issued + 1}
            /\ post' = [post EXCEPT ![p].pc = "handle", ![p].batch = b,
                                    ![p].session = issued + 1]
        BY <2>1, <2>8
      <3>2. issued + 1 \in Nat \ {0}
        BY <2>6
      <3>3. \E y \in PostRecords : /\ post' = [post EXCEPT ![p] = y]
                                   /\ Progress(y) /\ Truthful(y, stored)
        BY <2>5, <3>1, <3>2
      <3> QED BY <2>6, <3>1, <3>2, <3>3
    <2>9. CASE (\E i \in DOMAIN b : IsRequest(b[i])) /\ ~Initializes(b)
      <3>1. UNCHANGED <<registry, issued>>
        BY <2>1, <2>9
      <3>2. CASE s \in registry
        <4>1. post' = [post EXCEPT ![p].pc = "handle", ![p].batch = b, ![p].session = s]
          BY <2>1, <2>9, <3>2
        <4>2. s \in Nat \ {0}
          BY <2>6, <3>2
        <4> QED BY <2>5, <2>6, <3>1, <4>1, <4>2
      <3>3. CASE s \notin registry
        <4>1. Refuse(p, b, IF s = 0 THEN 400 ELSE 404)
          BY <2>1, <2>9, <3>3
        <4> QED BY <2>4, <2>6, <3>1, <4>1
      <3> QED BY <3>2, <3>3
    <2> QED BY <2>7, <2>8, <2>9
  <1>4. /\ post' \in [Posts -> PostRecords]
        /\ \A s \in Posts : Progress(post'[s]) /\ Truthful(post'[s], stored')
    <2>1. PICK y \in PostRecords : /\ post' = [post EXCEPT ![p] = y]
                                   /\ Progress(y) /\ Truthful(y, stored)
      BY <1>3
    <2> QED BY <1>2, <2>1, OneTask
  <1> QED BY <1>2, <1>3, <1>4 DEF McpInv

\* A task that ends, without having answered or with an answer.
LEMMA Ended ==
  ASSUME McpInv, NEW p \in Posts, PostAnswers(p) \/ PostCancelled(p)
  PROVE  McpInv'
  <1> DEFINE x == post[p]
  <1>1. x \in PostRecords /\ Progress(x) /\ Truthful(x, stored)
    BY DEF McpInv
  <1>2. UNCHANGED <<registry, issued, table, stdio, stored>>
    BY DEF PostAnswers, PostCancelled
  <1>3. \E y \in PostRecords : /\ post' = [post EXCEPT ![p] = y]
                               /\ Progress(y) /\ Truthful(y, stored)
    <2>1. CASE PostAnswers(p)
      <3> DEFINE status == IF x.replies = <<>> THEN 202 ELSE 200
                 y == [x EXCEPT !.pc = "done", !.status = status]
      <3>1. x.batch \in Batches /\ x.next = Len(x.batch) + 1 /\ InOrder(x)
        <4>1. x.pc = "handle" /\ x.next > Len(x.batch)
          BY <2>1 DEF PostAnswers
        <4>2. x.next \in Nat /\ x.next <= Len(x.batch) + 1 /\ x.batch \in Batches /\ InOrder(x)
          BY <1>1, <4>1 DEF Progress, PostRecords
        <4>3. Len(x.batch) \in Nat
          BY <4>2, BatchesAssumption
        <4> HIDE DEF x
        <4> QED BY <4>1, <4>2, <4>3
      <3>2. post' = [post EXCEPT ![p] = y]
        <4>1. post' = [post EXCEPT ![p].pc = "done", ![p].status = status]
          BY <2>1 DEF PostAnswers
        <4> HIDE DEF status
        <4> QED BY <4>1
      <3>3. /\ y.pc = "done" /\ y.status = status /\ y.batch = x.batch /\ y.next = x.next
            /\ y.replies = x.replies
        BY <1>1 DEF PostRecords
      <3>4. y \in PostRecords
        <4>1. status \in Nat /\ "done" \in PostPCs
          BY DEF PostPCs
        <4> HIDE DEF status, x
        <4> QED BY <1>1, <4>1 DEF PostRecords
      <3> HIDE DEF y
      <3>5. Progress(y)
        BY <3>1, <3>3 DEF Progress, InOrder
      <3>6. Truthful(y, stored)
        BY <1>1, <3>3 DEF Truthful
      <3> QED BY <3>2, <3>4, <3>5, <3>6
    <2>2. CASE PostCancelled(p)
      <3> DEFINE y == [x EXCEPT !.pc = "cancelled"]
      <3>1. post' = [post EXCEPT ![p] = y]
        BY <2>2 DEF PostCancelled
      <3>2. y.pc = "cancelled" /\ y.batch = x.batch /\ y.replies = x.replies
        BY <1>1 DEF PostRecords
      <3>3. y \in PostRecords
        BY <1>1 DEF PostRecords, PostPCs
      <3> HIDE DEF y
      <3>4. Progress(y) /\ Truthful(y, stored)
        BY <1>1, <3>2 DEF Progress, Truthful
      <3> QED BY <3>1, <3>3, <3>4
    <2> QED BY <2>1, <2>2
  <1>4. /\ post' \in [Posts -> PostRecords]
        /\ \A s \in Posts : Progress(post'[s]) /\ Truthful(post'[s], stored')
    <2>1. PICK y \in PostRecords : /\ post' = [post EXCEPT ![p] = y]
                                   /\ Progress(y) /\ Truthful(y, stored)
      BY <1>3
    <2> QED BY <1>2, <2>1, OneTask
  <1> QED BY <1>2, <1>4 DEF McpInv

\* The steps of a task on its messages.
LEMMA Handled ==
  ASSUME McpInv, NEW p \in Posts, HandleLocally(p) \/ HandleCall(p) \/ HandleReturn(p)
  PROVE  McpInv'
  <1> DEFINE x == post[p]
  <1>1. x \in PostRecords /\ Progress(x) /\ Truthful(x, stored)
    BY DEF McpInv
  <1>2. UNCHANGED <<registry, issued, stdio>>
    BY DEF HandleLocally, HandleCall, HandleReturn
  <1>3. x.batch \in Batches /\ InOrder(x) /\ x.session # 0 /\ x.next <= Len(x.batch)
        /\ x.pc \in {"handle", "called"}
    BY <1>1 DEF HandleLocally, HandleCall, HandleReturn, MoreToDo, Progress
  <1>4. x.next \in Nat \ {0} /\ Len(x.batch) \in Nat
    BY <1>1, <1>3, BatchesAssumption DEF PostRecords
  <1>5. Current(p) \in Messages
    BY <1>3, <1>4, MessageTypes DEF Current
  <1>6. ASSUME NEW result \in Results, Replied(p, result), TrueOf(Current(p), result, stored),
               UNCHANGED <<table, stored>>
        PROVE  McpInv'
    <2>1. /\ post' \in [Posts -> PostRecords]
          /\ Progress(post'[p]) /\ Truthful(post'[p], stored)
          /\ \A s \in Posts : s # p => post'[s] = post[s]
      BY <1>3, <1>6, RepliedKeeps
    <2>2. \A s \in Posts : Progress(post'[s]) /\ Truthful(post'[s], stored')
      BY <1>6, <2>1 DEF McpInv
    <2> QED BY <1>2, <1>6, <2>1, <2>2 DEF McpInv
  <1>7. CASE HandleLocally(p)
    <2> DEFINE result == LocalResult(Current(p))
    <2>1. Replied(p, result) /\ UNCHANGED <<table, stored>>
      BY <1>7 DEF HandleLocally
    <2>2. result \in Results /\ result.kind \notin {"hit", "stored"}
      BY ResultTypes
    <2> HIDE DEF result
    <2>3. TrueOf(Current(p), result, stored)
      BY <2>2 DEF TrueOf
    <2> QED BY <1>6, <2>1, <2>2, <2>3
  <1>8. CASE HandleCall(p)
    <2> DEFINE result == Asked(Current(p))
               y == [x EXCEPT !.pc = "called", !.held = result]
    <2>1. Asks(Current(p)) /\ CacheEffect(Current(p)) /\ post' = [post EXCEPT ![p] = y]
      BY <1>8 DEF HandleCall
    <2>2. /\ result \in Results /\ TrueOf(Current(p), result, stored')
          /\ stored \subseteq stored' /\ table' \in [Prompts -> McpTexts]
          /\ \A q \in Prompts : table'[q] # "" => <<q, table'[q]>> \in stored'
      BY <1>5, <2>1, CallIsTrue
    <2>3. Current(p) = x.batch[x.next]
      BY DEF Current
    <2> HIDE DEF result
    <2>4. /\ y.pc = "called" /\ y.held = result /\ y.batch = x.batch /\ y.next = x.next
          /\ y.replies = x.replies /\ y.session = x.session
      BY <1>1 DEF PostRecords
    <2>5. y \in PostRecords
      BY <1>1, <2>2 DEF PostRecords, PostPCs
    <2> HIDE DEF x, y
    <2>6. InOrder(y)
      BY <1>3, <2>4 DEF InOrder
    <2>7. Progress(y)
      BY <1>3, <1>4, <2>4, <2>6 DEF Progress
    <2>8. Truthful(x, stored')
      BY <1>1, <2>2, TruthLasts
    <2>9. Truthful(y, stored')
      BY <2>2, <2>3, <2>4, <2>8 DEF Truthful
    <2>10. /\ post' \in [Posts -> PostRecords]
           /\ \A s \in Posts : Progress(post'[s]) /\ Truthful(post'[s], stored')
      BY <2>1, <2>2, <2>5, <2>7, <2>9, OneTask
    <2>11. StdioTruthful(stdio, stored')
      BY <2>2, TruthLasts DEF McpInv
    <2> QED BY <1>2, <2>2, <2>10, <2>11 DEF McpInv
  <1>9. CASE HandleReturn(p)
    <2>1. x.pc = "called" /\ Replied(p, x.held) /\ UNCHANGED <<table, stored>>
      BY <1>9 DEF HandleReturn
    <2>2. x.held \in Results
      BY <1>1 DEF PostRecords
    <2>3. TrueOf(Current(p), x.held, stored)
      BY <1>1, <2>1 DEF Truthful, Current
    <2> QED BY <1>6, <2>1, <2>2, <2>3
  <1> QED BY <1>7, <1>8, <1>9

\* The steps of the server on stdio.
LEMMA StdioSteps ==
  ASSUME McpInv,
         \/ StdioReads \/ GatewayHandles \/ StdioAnswered \/ StdioFails \/ StdioWrites
         \/ StdioEnds
  PROVE  McpInv'
  <1> DEFINE x == stdio
  <1>1. x \in StdioRecords /\ StdioTruthful(x, stored)
    BY DEF McpInv
  <1>2. UNCHANGED <<post, registry, issued>>
    BY DEF StdioReads, GatewayHandles, StdioAnswered, StdioFails, StdioWrites, StdioEnds
  <1>3. ASSUME UNCHANGED <<table, stored>>, stdio' \in StdioRecords,
               StdioTruthful(stdio', stored)
        PROVE  McpInv'
    BY <1>2, <1>3 DEF McpInv
  <1>4. Result("none") \in Results /\ Result("tool error") \in Results
        /\ \A m : LocalResult(m) \in Results /\ LocalResult(m).kind \notin {"hit", "stored"}
    BY ResultTypes
  <1>5. CASE StdioReads
    <2>1. PICK m \in Lines :
            stdio' = [stdio EXCEPT !.pc = IF Asks(m) THEN "ask" ELSE "write",
                                   !.line = m, !.lines = @ + 1,
                                   !.held = IF Asks(m) THEN Result("none") ELSE LocalResult(m)]
      BY <1>5, Zenon DEF StdioReads
    <2> DEFINE held == IF Asks(m) THEN Result("none") ELSE LocalResult(m)
    <2>2. held \in Results
      BY <1>4
    <2>3. ~Asks(m) => held.kind \notin {"hit", "stored"}
      BY <1>4
    <2> DEFINE pc == IF Asks(m) THEN "ask" ELSE "write"
    <2>4. stdio' = [stdio EXCEPT !.pc = pc, !.line = m, !.lines = @ + 1, !.held = held]
      BY <2>1
    <2>5. pc \in {"ask", "write"}
      OBVIOUS
    <2> HIDE DEF held
    <2>6. /\ stdio'.pc = IF Asks(m) THEN "ask" ELSE "write"
          /\ stdio'.line = m /\ stdio'.held = held /\ stdio'.told = x.told
          /\ stdio'.lines = x.lines + 1
      BY <1>1, <2>4 DEF StdioRecords
    <2>7. stdio' \in StdioRecords
      <3> HIDE DEF pc, x
      <3>1. x.lines + 1 \in Nat /\ m \in Lines \cup {NoMessage} /\ stdio \in StdioRecords
        BY <1>1 DEF StdioRecords, x
      <3>2. stdio' = [stdio EXCEPT !.pc = pc, !.line = m, !.lines = x.lines + 1, !.held = held]
        BY <2>4 DEF x
      <3> QED BY <2>2, <2>5, <3>1, <3>2 DEF StdioRecords
    <2>8. StdioTruthful(stdio', stored)
      BY <1>1, <2>3, <2>6 DEF StdioTruthful, TrueOf
    <2> QED BY <1>3, <1>5, <2>7, <2>8 DEF StdioReads
  <1>6. CASE GatewayHandles
    <2> DEFINE result == Asked(x.line)
    <2>1. /\ x.pc = "ask" /\ CacheEffect(x.line)
          /\ stdio' = [stdio EXCEPT !.pc = "asked", !.held = result]
      BY <1>6 DEF GatewayHandles
    <2>2. x.line \in Messages /\ Asks(x.line)
      BY <1>1, <2>1, MessageTypes DEF StdioTruthful
    <2>3. /\ result \in Results /\ TrueOf(x.line, result, stored')
          /\ stored \subseteq stored' /\ table' \in [Prompts -> McpTexts]
          /\ \A q \in Prompts : table'[q] # "" => <<q, table'[q]>> \in stored'
      BY <2>1, <2>2, CallIsTrue
    <2> HIDE DEF result
    <2>4. /\ stdio'.pc = "asked" /\ stdio'.line = x.line /\ stdio'.held = result
          /\ stdio'.told = x.told
      BY <1>1, <2>1 DEF StdioRecords
    <2>5. stdio' \in StdioRecords
      BY <1>1, <2>1, <2>3 DEF StdioRecords
    <2>6. StdioTruthful(x, stored')
      BY <1>1, <2>3, TruthLasts
    <2>7. StdioTruthful(stdio', stored')
      BY <2>3, <2>4, <2>6 DEF StdioTruthful
    <2>8. \A s \in Posts : Progress(post[s]) /\ Truthful(post[s], stored')
      BY <2>3, TruthLasts DEF McpInv
    <2> QED BY <1>2, <2>3, <2>5, <2>7, <2>8 DEF McpInv
  <1>7. CASE StdioAnswered \/ StdioEnds
    <2>1. PICK pc \in {"write", "ended"} :
            /\ stdio' = [stdio EXCEPT !.pc = pc] /\ (pc = "write" => x.pc = "asked")
      BY <1>7 DEF StdioAnswered, StdioEnds
    <2>2. /\ stdio'.pc = pc /\ stdio'.line = x.line /\ stdio'.held = x.held
          /\ stdio'.told = x.told
      BY <1>1, <2>1 DEF StdioRecords
    <2>3. stdio' \in StdioRecords
      BY <1>1, <2>1 DEF StdioRecords
    <2>4. StdioTruthful(stdio', stored)
      BY <1>1, <2>1, <2>2 DEF StdioTruthful
    <2> QED BY <1>3, <1>7, <2>3, <2>4 DEF StdioAnswered, StdioEnds
  <1>8. CASE StdioFails
    <2>1. stdio' = [stdio EXCEPT !.pc = "write", !.held = Result("tool error")]
      BY <1>8 DEF StdioFails
    <2>2. /\ stdio'.pc = "write" /\ stdio'.line = x.line /\ stdio'.told = x.told
          /\ stdio'.held = Result("tool error")
      BY <1>1, <2>1 DEF StdioRecords
    <2>3. stdio' \in StdioRecords
      BY <1>1, <1>4, <2>1 DEF StdioRecords
    <2>4. TrueOf(x.line, Result("tool error"), stored)
      BY DEF TrueOf, Result
    <2>5. StdioTruthful(stdio', stored)
      BY <1>1, <2>2, <2>4 DEF StdioTruthful
    <2> QED BY <1>3, <1>8, <2>3, <2>5 DEF StdioFails
  <1>9. CASE StdioWrites
    <2> DEFINE answers == Seq((Lines \cup {NoMessage}) \X Results)
               answer == <<x.line, x.held>>
               more == IF Responds(x.line) THEN Append(x.told, answer) ELSE x.told
               pc == IF x.line.method = "shutdown" THEN "ended" ELSE "read"
    <2>1. x.pc = "write" /\ stdio' = [stdio EXCEPT !.pc = pc, !.told = more]
      BY <1>9 DEF StdioWrites
    <2>2. x.told \in answers /\ answer \in (Lines \cup {NoMessage}) \X Results
      BY <1>1 DEF StdioRecords
    <2>3. more \in answers
      BY <2>2
    <2>4. TrueOf(answer[1], answer[2], stored)
      BY <1>1, <2>1 DEF StdioTruthful
    <2>5. \A i \in DOMAIN x.told : TrueOf(x.told[i][1], x.told[i][2], stored)
      BY <1>1 DEF StdioTruthful
    <2>6. \A i \in DOMAIN more : TrueOf(more[i][1], more[i][2], stored)
      <3> HIDE DEF answer
      <3>1. CASE Responds(x.line)
        <4>1. /\ more = Append(x.told, answer) /\ Len(x.told) \in Nat
              /\ DOMAIN x.told = 1 .. Len(x.told) /\ DOMAIN more = 1 .. Len(x.told) + 1
              /\ more[Len(x.told) + 1] = answer
              /\ \A i \in 1 .. Len(x.told) : more[i] = x.told[i]
          BY <2>2, <3>1
        <4> HIDE DEF more
        <4> TAKE i \in DOMAIN more
        <4>2. CASE i = Len(x.told) + 1
          BY <2>4, <4>1, <4>2
        <4>3. CASE i # Len(x.told) + 1
          <5>1. i \in 1 .. Len(x.told)
            BY <4>1, <4>3
          <5> QED BY <2>5, <4>1, <5>1
        <4> QED BY <4>2, <4>3
      <3>2. CASE ~Responds(x.line)
        BY <2>5, <3>2
      <3> QED BY <3>1, <3>2
    <2> HIDE DEF more
    <2>7. stdio'.pc = pc /\ stdio'.told = more
      BY <1>1, <2>1 DEF StdioRecords
    <2>8. stdio' \in StdioRecords
      BY <1>1, <2>1, <2>3 DEF StdioRecords
    <2>9. StdioTruthful(stdio', stored)
      BY <2>6, <2>7 DEF StdioTruthful
    <2> QED BY <1>3, <1>9, <2>8, <2>9 DEF StdioWrites
  <1> QED BY <1>5, <1>6, <1>7, <1>8, <1>9

LEMMA McpKeeps == McpInv /\ [McpNext]_mcpVars => McpInv'
  <1> SUFFICES ASSUME McpInv, [McpNext]_mcpVars
               PROVE  McpInv'
    OBVIOUS
  <1>1. CASE UNCHANGED mcpVars
    BY <1>1 DEF mcpVars, McpInv
  <1>2. ASSUME NEW p \in Posts,
               \/ PostArrives(p) \/ HandleLocally(p) \/ HandleCall(p) \/ HandleReturn(p)
               \/ PostAnswers(p) \/ PostCancelled(p)
        PROVE  McpInv'
    BY <1>2, Arrived, Handled, Ended
  <1>3. CASE \E s \in registry : DeleteSession(s)
    <2>1. UNCHANGED <<post, issued, table, stdio, stored>> /\ registry' \subseteq registry
      BY <1>3 DEF DeleteSession
    <2> QED BY <2>1 DEF McpInv
  <1>4. CASE \/ StdioReads \/ GatewayHandles \/ StdioAnswered \/ StdioFails \/ StdioWrites
             \/ StdioEnds
    BY <1>4, StdioSteps
  <1>5. ASSUME NEW q \in Prompts, Forgets(q)
        PROVE  McpInv'
    <2>1. UNCHANGED <<post, registry, issued, stdio, stored>>
          /\ table' = [table EXCEPT ![q] = ""]
      BY <1>5 DEF Forgets
    <2> QED BY <2>1 DEF McpInv, McpTexts
  <1>6. CASE GatewayRestarts
    <2>1. /\ registry' = {} /\ table' = [q \in Prompts |-> ""]
          /\ post' = [p \in Posts |-> IF post[p].pc \in {"handle", "called"}
                                        THEN [post[p] EXCEPT !.pc = "cancelled"] ELSE post[p]]
          /\ UNCHANGED <<issued, stdio, stored>>
      BY <1>6 DEF GatewayRestarts
    <2>2. ASSUME NEW p \in Posts
          PROVE  /\ post'[p] \in PostRecords
                 /\ Progress(post'[p]) /\ Truthful(post'[p], stored)
      <3> DEFINE x == post[p]
                 y == [x EXCEPT !.pc = "cancelled"]
      <3>1. x \in PostRecords /\ Progress(x) /\ Truthful(x, stored)
        BY DEF McpInv
      <3>2. y.pc = "cancelled" /\ y.batch = x.batch /\ y.replies = x.replies
        BY <3>1 DEF PostRecords
      <3>3. y \in PostRecords
        BY <3>1 DEF PostRecords, PostPCs
      <3>4. post'[p] = x \/ post'[p] = y
        BY <2>1
      <3> HIDE DEF x, y
      <3>5. Progress(y) /\ Truthful(y, stored)
        BY <3>1, <3>2 DEF Progress, Truthful
      <3> QED BY <3>1, <3>3, <3>4, <3>5
    <2>3. post' \in [Posts -> PostRecords]
      BY <2>1, <2>2
    <2> QED BY <2>1, <2>2, <2>3 DEF McpInv, McpTexts
  <1> QED BY <1>1, <1>2, <1>3, <1>4, <1>5, <1>6 DEF McpNext

\* The gateway serves MCP and so does `isartor mcp`: whatever their clients are
\* told of the caches was so, for every number of tasks, messages and restarts
\* (mcp.rs handle_tools_call, handler.rs mcp_http_post_handler).
THEOREM ClientsAreToldTheTruth == McpSpec => []ToldIsTrue
  <1>1. McpInv => ToldIsTrue
    <2> SUFFICES ASSUME McpInv, NEW r \in Told
                 PROVE  TrueOf(r[1], r[2], stored)
      BY DEF ToldIsTrue, TrueOf
    <2>1. CASE r \in {stdio.told[i] : i \in DOMAIN stdio.told}
      BY <2>1 DEF McpInv, StdioTruthful
    <2>2. ASSUME NEW p \in Posts, NEW i \in DOMAIN post[p].replies,
                 r = <<post[p].batch[post[p].replies[i][1]], post[p].replies[i][2]>>
          PROVE  TrueOf(r[1], r[2], stored)
      BY <2>2 DEF McpInv, Truthful
    <2> QED BY <2>1, <2>2 DEF Told
  <1> QED BY <1>1, McpStarts, McpKeeps, PTL DEF McpSpec

\* A batch that has been answered has been answered as JSON-RPC asks: one reply
\* for each message with an id, in their order, and a body if and only if there
\* is a reply (mcp.rs handle_message, handler.rs mcp_http_post_handler).
THEOREM BatchesAreAnswered == McpSpec => []BatchAnswered
  <1>1. McpInv => BatchAnswered
    <2> SUFFICES ASSUME McpInv, NEW p \in Posts, post[p].pc = "done", post[p].session # 0
                 PROVE  LET x == post[p]
                            b == x.batch
                            due == {i \in DOMAIN b : b[i].id /\ b[i].method \notin
                                      {"notifications/initialized", "initialized"}}
                            got == {x.replies[i][1] : i \in DOMAIN x.replies}
                        IN  /\ due \subseteq got
                            /\ \A i \in got \ due : b[i].method \in ToolCalls
                            /\ \A i, j \in DOMAIN x.replies :
                                 i < j => x.replies[i][1] < x.replies[j][1]
                            /\ x.status = 200 <=> got # {}
      BY Zenon DEF BatchAnswered
    <2> DEFINE x == post[p]
               b == x.batch
               due == {i \in DOMAIN b : b[i].id /\ b[i].method \notin
                         {"notifications/initialized", "initialized"}}
               got == {x.replies[i][1] : i \in DOMAIN x.replies}
    <2>1. x \in PostRecords /\ b \in Batches /\ x.next = Len(b) + 1 /\ InOrder(x)
          /\ (x.status = 200 <=> x.replies # <<>>)
      <3>1. x \in PostRecords /\ Progress(x)
        BY DEF McpInv
      <3> QED BY <3>1 DEF Progress
    <2>2. Len(b) \in Nat /\ DOMAIN b = 1 .. Len(b) /\ x.next - 1 = Len(b)
      BY <2>1, BatchesAssumption
    <2>3. due \subseteq got
      <3> SUFFICES ASSUME NEW n \in due PROVE n \in got
        OBVIOUS
      <3>1. n \in 1 .. x.next - 1 /\ Responds(b[n])
        BY <2>2 DEF Responds
      <3>2. \E i \in DOMAIN x.replies : x.replies[i][1] = n
        BY <2>1, <3>1 DEF InOrder
      <3> QED BY <3>2
    <2>4. \A n \in got \ due : b[n].method \in ToolCalls
      <3> SUFFICES ASSUME NEW n \in got, n \notin due PROVE b[n].method \in ToolCalls
        OBVIOUS
      <3>1. n \in 1 .. x.next - 1 /\ Responds(b[n])
        BY <2>1 DEF InOrder
      <3>2. n \in DOMAIN b
        BY <2>2, <3>1
      <3> QED BY <3>1, <3>2 DEF Responds
    <2>5. \A i, j \in DOMAIN x.replies : i < j => x.replies[i][1] < x.replies[j][1]
      BY <2>1 DEF InOrder
    <2>6. x.replies # <<>> <=> got # {}
      <3>1. x.replies \in Seq(Nat \X Results)
        BY <2>1 DEF PostRecords
      <3> HIDE DEF x
      <3>2. /\ Len(x.replies) \in Nat /\ DOMAIN x.replies = 1 .. Len(x.replies)
            /\ x.replies = <<>> <=> Len(x.replies) = 0
        BY <3>1, EmptySeq
      <3>3. DOMAIN x.replies # {} <=> Len(x.replies) # 0
        BY <3>2
      <3> QED BY <3>2, <3>3
    <2> QED BY <2>1, <2>3, <2>4, <2>5, <2>6
  <1> QED BY <1>1, McpStarts, McpKeeps, PTL DEF McpSpec

-----------------------------------------------------------------------------
(* Streaming: the form of what is answered.                                *)
\* What is kept is what the provider answered, and it is in events only if a
\* streaming request with tools has fetched it.
StreamInv ==
  /\ provider \in [Questions -> Bodies] /\ cache \in [Questions -> Bodies]
  /\ filler \in [Questions -> BOOLEAN]
  /\ \A q \in Questions : cache[q] # NoBody => cache[q] = provider[q]
  /\ \A q \in Questions : provider[q].form = "events" => q[2] /\ filler[q]
  /\ FormAsAsked

LEMMA StreamStarts == StreamInit => StreamInv
  <1> SUFFICES ASSUME StreamInit PROVE StreamInv
    OBVIOUS
  <1>1. NoBody \in Bodies /\ NoBody.form = "json"
    BY DEF NoBody, Body, Bodies
  <1>2. reply.body = NoBody
    BY DEF StreamInit
  <1> QED BY <1>1, <1>2 DEF StreamInit, StreamInv, FormAsAsked

LEMMA StreamKeeps == StreamInv /\ [StreamNext]_streamVars => StreamInv'
  <1> SUFFICES ASSUME StreamInv, [StreamNext]_streamVars PROVE StreamInv'
    OBVIOUS
  <1>1. CASE UNCHANGED streamVars
    BY <1>1 DEF streamVars, StreamInv, FormAsAsked
  <1>2. ASSUME NEW q \in Questions, StreamMiss(q) PROVE StreamInv'
    <2>1. PICK streaming \in BOOLEAN : \E b \in ProviderBodies(q, streaming) :
            /\ provider' = [provider EXCEPT ![q] = b]
            /\ filler' = [filler EXCEPT ![q] = streaming]
            /\ cache' = [cache EXCEPT ![q] = b]
            /\ reply' = [to |-> q, streaming |-> streaming, body |-> FormFor(q, streaming, b)]
      BY <1>2, Zenon DEF StreamMiss, Stored, Reply
    <2>2. PICK b \in ProviderBodies(q, streaming) :
            /\ provider' = [provider EXCEPT ![q] = b]
            /\ filler' = [filler EXCEPT ![q] = streaming]
            /\ cache' = [cache EXCEPT ![q] = b]
            /\ reply' = [to |-> q, streaming |-> streaming, body |-> FormFor(q, streaming, b)]
      BY <2>1
    <2>3. b \in Bodies /\ (b.form = "events" => q[2] /\ streaming)
      BY DEF ProviderBodies, PassedThrough, BuiltHere, Body, Bodies
    <2>4. /\ reply'.to = q /\ reply'.streaming = streaming
          /\ ~streaming => reply'.body = b
      BY <2>2 DEF FormFor
    <2>5. /\ provider'[q] = b /\ filler'[q] = streaming
          /\ provider' \in [Questions -> Bodies] /\ cache' \in [Questions -> Bodies]
          /\ filler' \in [Questions -> BOOLEAN]
      BY <2>2, <2>3 DEF StreamInv
    <2>6. FormAsAsked'
      BY <2>3, <2>4, <2>5 DEF FormAsAsked
    <2>7. /\ \A p \in Questions : cache'[p] # NoBody => cache'[p] = provider'[p]
          /\ \A p \in Questions : provider'[p].form = "events" => p[2] /\ filler'[p]
      BY <2>2, <2>3 DEF StreamInv
    <2> QED BY <2>5, <2>6, <2>7 DEF StreamInv
  <1>3. ASSUME NEW q \in Questions, StreamError(q) PROVE StreamInv'
    <2>1. UNCHANGED <<provider, filler, cache>> /\ reply'.body = NoBody
      BY <1>3 DEF StreamError, Reply
    <2> QED BY <2>1 DEF StreamInv, FormAsAsked
  <1>4. ASSUME NEW q \in Questions, StreamHit(q) PROVE StreamInv'
    <2>1. UNCHANGED <<provider, filler, cache>> /\ cache[q] # NoBody
      BY <1>4 DEF StreamHit
    <2>2. PICK streaming \in BOOLEAN :
            reply' = [to |-> q, streaming |-> streaming, body |-> FormFor(q, streaming, cache[q])]
      BY <1>4, Zenon DEF StreamHit, Reply
    <2>3. /\ reply'.to = q /\ reply'.streaming = streaming
          /\ ~streaming => reply'.body = cache[q]
      BY <2>2 DEF FormFor
    <2> QED BY <2>1, <2>3 DEF StreamInv, FormAsAsked
  <1>5. ASSUME NEW q \in Questions, StreamEvicts(q) PROVE StreamInv'
    <2>1. UNCHANGED <<provider, filler, reply>> /\ cache' = [cache EXCEPT ![q] = NoBody]
      BY <1>5 DEF StreamEvicts
    <2>2. NoBody \in Bodies
      BY DEF NoBody, Body, Bodies
    <2> QED BY <2>1, <2>2 DEF StreamInv, FormAsAsked
  <1> QED BY <1>1, <1>2, <1>3, <1>4, <1>5 DEF StreamNext

\* Whoever filled the cache, and in whatever form that client was answered, a
\* client that does not stream gets the provider's own body (middleware/cache.rs
\* streaming_cache_response).
THEOREM FormsAreAsAsked == StreamSpec => []FormAsAsked
  <1>1. StreamInv => FormAsAsked
    BY DEF StreamInv
  <1> QED BY <1>1, StreamStarts, StreamKeeps, PTL DEF StreamSpec

-----------------------------------------------------------------------------
(* The local model: one generation at a time.                              *)
AskStates   == {"idle", "classify", "answer", "local", "below", "gone"}
Computing   == {"prefill", "decode", "done"}
Stages      == {"none", "spawned", "ended"} \cup Computing
Generations == [pc : Stages, bound : {0, ClassifyTokens, AnswerTokens}, made : Nat, ok : BOOLEAN]

\* Whoever computes has the model, and nobody else.
Exclusive == \A r \in Callers : gen[r].pc \in Computing => holder = r

\* OwnContext rests on two things: that a pass at position 0 leaves nothing of
\* earlier generations behind, and that a generation is spawned only when the
\* last one of its request has ended, dropped or not.
Position(i) == IF i = 1 THEN 0 ELSE i
Fed(r) ==
  /\ gen[r].made >= 1
  /\ kv = [i \in 1 .. gen[r].made |-> Token(r, Position(i))]

InferenceInv ==
  /\ ask \in [Callers -> AskStates] /\ gen \in [Callers -> Generations]
  /\ kv \in Seq([of : Callers, at : Nat])
  /\ Exclusive
  /\ \A r \in Callers : ask[r] = "idle" => gen[r].pc = "none"
  /\ \A r \in Callers : gen[r].pc = "decode" => Fed(r)

LEMMA InferenceStarts == InferenceInit => InferenceInv
  BY DEF InferenceInit, InferenceInv, NoGeneration, AskStates, Generations, Stages, Computing,
         Exclusive

\* A step that leaves the weights, and starts no computation, disturbs nothing.
LEMMA QuietStep ==
  ASSUME InferenceInv, UNCHANGED kv,
         ask' \in [Callers -> AskStates], gen' \in [Callers -> Generations],
         \A r \in Callers : ask'[r] = "idle" => gen'[r].pc = "none",
         \A r \in Callers : gen'[r].pc \in Computing =>
            /\ gen[r].pc \in Computing /\ holder' = holder
            /\ gen'[r].pc = "decode" => gen[r] = gen'[r]
  PROVE  InferenceInv'
  BY DEF InferenceInv, Exclusive, Fed, Computing

LEMMA SpawnQuiet ==
  ASSUME InferenceInv, NEW r \in Callers, NEW bound \in {ClassifyTokens, AnswerTokens},
         NEW what \in AskStates \ {"idle"},
         ask' = [ask EXCEPT ![r] = what], Spawns(r, bound), UNCHANGED <<holder, kv>>
  PROVE  InferenceInv'
  <1>1. /\ ask' \in [Callers -> AskStates] /\ gen' \in [Callers -> Generations]
        /\ ask'[r] = what /\ gen'[r].pc = "spawned"
        /\ \A q \in Callers \ {r} : ask'[q] = ask[q] /\ gen'[q] = gen[q]
    BY DEF InferenceInv, Spawns, Generations, Stages
  <1>2. \A q \in Callers : ask'[q] = "idle" => gen'[q].pc = "none"
    BY <1>1 DEF InferenceInv
  <1>3. \A q \in Callers : gen'[q].pc \in Computing =>
            /\ gen[q].pc \in Computing /\ holder' = holder
            /\ gen'[q].pc = "decode" => gen[q] = gen'[q]
    BY <1>1 DEF Computing
  <1> QED BY <1>1, <1>2, <1>3, QuietStep

\* A step of a request that only moves the request on.
LEMMA AskQuiet ==
  ASSUME InferenceInv, NEW r \in Callers, NEW what \in AskStates \ {"idle"},
         ask' = [ask EXCEPT ![r] = what], UNCHANGED <<gen, holder, kv>>
  PROVE  InferenceInv'
  <1>1. /\ ask' \in [Callers -> AskStates] /\ ask'[r] = what
        /\ \A q \in Callers \ {r} : ask'[q] = ask[q]
    BY DEF InferenceInv
  <1> QED BY <1>1, QuietStep DEF InferenceInv

\* The rest of the weights' owner's steps: it alone computes, before and after.
LEMMA OwnerSteps ==
  ASSUME InferenceInv, NEW r \in Callers, holder = r \/ holder = Nobody,
         NEW g \in Generations, gen' = [gen EXCEPT ![r] = g],
         UNCHANGED ask, ask[r] # "idle", kv' \in Seq([of : Callers, at : Nat]),
         g.pc \in Computing => holder' = r,
         g.pc = "decode" => Fed(r)'
  PROVE  InferenceInv'
  <1>1. /\ gen' \in [Callers -> Generations] /\ gen'[r] = g
        /\ \A q \in Callers \ {r} : gen'[q] = gen[q]
    BY DEF InferenceInv
  <1>2. \A q \in Callers \ {r} : gen'[q].pc \notin Computing
    BY <1>1, CallersAssumption DEF InferenceInv, Exclusive
  <1>3. Exclusive'
    BY <1>1, <1>2 DEF Exclusive
  <1>4. \A q \in Callers : gen'[q].pc = "decode" => Fed(q)'
    BY <1>1, <1>2 DEF Computing
  <1>5. \A q \in Callers : ask'[q] = "idle" => gen'[q].pc = "none"
    BY <1>1 DEF InferenceInv
  <1> QED BY <1>1, <1>3, <1>4, <1>5 DEF InferenceInv

LEMMA InferenceKeeps == InferenceInv /\ [InferenceNext]_inferenceVars => InferenceInv'
  <1> SUFFICES ASSUME InferenceInv, [InferenceNext]_inferenceVars PROVE InferenceInv'
    OBVIOUS
  <1>1. /\ ask \in [Callers -> AskStates] /\ gen \in [Callers -> Generations]
        /\ kv \in Seq([of : Callers, at : Nat])
    BY DEF InferenceInv
  <1>2. ASSUME NEW r \in Callers, Classifies(r) PROVE InferenceInv'
    BY <1>2, SpawnQuiet DEF Classifies, AskStates
  <1>3. ASSUME NEW r \in Callers, LockModel(r) PROVE InferenceInv'
    <2> DEFINE g == [gen[r] EXCEPT !.pc = "prefill"]
    <2>1. g \in Generations /\ g.pc = "prefill" /\ gen' = [gen EXCEPT ![r] = g]
      BY <1>1, <1>3 DEF LockModel, Generations, Stages, Computing
    <2>2. ask[r] # "idle"
      BY <1>3 DEF LockModel, InferenceInv
    <2> QED BY <1>1, <1>3, <2>1, <2>2, OwnerSteps DEF LockModel
  <1>4. ASSUME NEW r \in Callers, Prefill(r) PROVE InferenceInv'
    <2>1. holder = r /\ ask[r] # "idle"
      BY <1>4 DEF Prefill, InferenceInv, Exclusive, Computing
    <2>2. PICK next \in {"decode", "done"} :
            gen' = [gen EXCEPT ![r].pc = next, ![r].made = 1]
      BY <1>4 DEF Prefill
    <2> DEFINE g == [gen[r] EXCEPT !.pc = next, !.made = 1]
    <2>3. g \in Generations /\ g.made = 1 /\ gen' = [gen EXCEPT ![r] = g]
      BY <1>1, <2>2 DEF Generations, Stages, Computing
    <2>4. kv' = <<Token(r, 0)>> /\ kv' \in Seq([of : Callers, at : Nat])
      BY <1>4 DEF Prefill, Token
    <2>5. kv' = [i \in 1 .. 1 |-> Token(r, Position(i))]
      BY <2>4 DEF Position
    <2>6. Fed(r)'
      BY <1>1, <2>3, <2>5 DEF Fed
    <2> QED BY <1>4, <2>1, <2>3, <2>4, <2>6, OwnerSteps DEF Prefill
  <1>5. ASSUME NEW r \in Callers, Decode(r) PROVE InferenceInv'
    <2>1. holder = r /\ ask[r] # "idle" /\ Fed(r) /\ gen[r].made \in Nat
      BY <1>1, <1>5 DEF Decode, InferenceInv, Exclusive, Computing, Generations
    <2>2. kv' = Append(kv, Token(r, gen[r].made + 1))
          /\ kv' \in Seq([of : Callers, at : Nat])
      BY <1>1, <1>5, <2>1 DEF Decode, Token
    <2>3. CASE gen' = [gen EXCEPT ![r].made = @ + 1]
      <3> DEFINE g == [gen[r] EXCEPT !.made = gen[r].made + 1]
      <3>1. g \in Generations /\ g.made = gen[r].made + 1 /\ gen' = [gen EXCEPT ![r] = g]
        <4>1. gen[r] \in Generations /\ gen[r].made + 1 \in Nat
          BY <1>1, <2>1
        <4>2. g \in Generations /\ g.made = gen[r].made + 1
          BY <4>1 DEF Generations
        <4> QED BY <2>3, <4>2
      <3>2. Len(kv) = gen[r].made
        BY <1>1, <2>1 DEF Fed
      <3>3. kv' = [i \in 1 .. gen[r].made + 1 |-> Token(r, Position(i))]
        <4>1. /\ Len(kv') = gen[r].made + 1
              /\ \A i \in 1 .. gen[r].made : kv'[i] = kv[i]
              /\ kv'[gen[r].made + 1] = Token(r, gen[r].made + 1)
          BY <1>1, <2>1, <2>2, <3>2 DEF Token
        <4>2. \A i \in 1 .. gen[r].made + 1 : kv'[i] = Token(r, Position(i))
          <5> TAKE i \in 1 .. gen[r].made + 1
          <5>1. CASE i \in 1 .. gen[r].made
            <6>1. kv[i] = Token(r, Position(i))
              BY <2>1, <5>1 DEF Fed
            <6> QED BY <4>1, <5>1, <6>1
          <5>2. CASE i = gen[r].made + 1
            <6>1. Position(i) = i
              BY <2>1, <5>2 DEF Fed, Position
            <6> QED BY <4>1, <5>2, <6>1
          <5> QED BY <2>1, <5>1, <5>2
        <4>3. DOMAIN kv' = 1 .. gen[r].made + 1 /\ kv' = [i \in DOMAIN kv' |-> kv'[i]]
          BY <2>1, <2>2, <4>1
        <4> QED BY <4>2, <4>3
      <3>4. Fed(r)'
        BY <1>1, <2>1, <3>1, <3>3 DEF Fed
      <3> QED BY <1>5, <2>1, <2>2, <3>1, <3>4, OwnerSteps DEF Decode
    <2>4. CASE gen' = [gen EXCEPT ![r].pc = "done"]
      <3> DEFINE g == [gen[r] EXCEPT !.pc = "done"]
      <3>1. g \in Generations /\ g.pc = "done" /\ gen' = [gen EXCEPT ![r] = g]
        BY <1>1, <2>4 DEF Generations, Stages, Computing
      <3> QED BY <1>5, <2>1, <2>2, <3>1, OwnerSteps DEF Decode
    <2> QED BY <1>5, <2>3, <2>4 DEF Decode
  <1>6. ASSUME NEW r \in Callers, DecodedAll(r) PROVE InferenceInv'
    <2> DEFINE g == [gen[r] EXCEPT !.pc = "done"]
    <2>1. holder = r /\ ask[r] # "idle"
      BY <1>6 DEF DecodedAll, InferenceInv, Exclusive, Computing
    <2>2. g \in Generations /\ g.pc = "done" /\ gen' = [gen EXCEPT ![r] = g]
      BY <1>1, <1>6 DEF DecodedAll, Generations, Stages, Computing
    <2> QED BY <1>1, <1>6, <2>1, <2>2, OwnerSteps DEF DecodedAll
  <1>7. ASSUME NEW r \in Callers, Unlock(r) PROVE InferenceInv'
    <2> DEFINE g == [gen[r] EXCEPT !.pc = "ended", !.ok = TRUE]
    <2>1. holder = r /\ ask[r] # "idle"
      BY <1>7 DEF Unlock, InferenceInv, Exclusive, Computing
    <2>2. g \in Generations /\ g.pc = "ended" /\ gen' = [gen EXCEPT ![r] = g]
      BY <1>1, <1>7 DEF Unlock, Generations, Stages
    <2> QED BY <1>1, <1>7, <2>1, <2>2, OwnerSteps DEF Unlock, Computing
  <1>8. ASSUME NEW r \in Callers, PassFails(r) PROVE InferenceInv'
    <2> DEFINE g == [gen[r] EXCEPT !.pc = "ended"]
    <2>1. holder = r /\ ask[r] # "idle" /\ gen[r].made \in Nat
      BY <1>1, <1>8 DEF PassFails, InferenceInv, Exclusive, Computing, Generations
    <2>2. g \in Generations /\ g.pc = "ended" /\ gen' = [gen EXCEPT ![r] = g]
      BY <1>1, <1>8 DEF PassFails, Generations, Stages
    <2>3. kv' \in Seq([of : Callers, at : Nat])
      <3>1. Token(r, gen[r].made + 1) \in [of : Callers, at : Nat]
        BY <2>1 DEF Token
      <3>2. Append(kv, Token(r, gen[r].made + 1)) \in Seq([of : Callers, at : Nat])
        BY <1>1, <3>1
      <3> QED BY <1>1, <1>8, <3>2 DEF PassFails
    <2> QED BY <1>8, <2>1, <2>2, <2>3, OwnerSteps DEF PassFails, Computing
  <1>9. ASSUME NEW r \in Callers, Classified(r) PROVE InferenceInv'
    <2>1. \/ ask' = [ask EXCEPT ![r] = "answer"] /\ Spawns(r, AnswerTokens)
          \/ ask' = [ask EXCEPT ![r] = "below"] /\ UNCHANGED gen
      BY <1>9, SMTT(30) DEF Classified
    <2>2. UNCHANGED <<holder, kv>>
      BY <1>9 DEF Classified
    <2> QED BY <2>1, <2>2, SpawnQuiet, AskQuiet DEF AskStates
  <1>10. ASSUME NEW r \in Callers, AnsweredLocally(r) \/ CallerGone(r) PROVE InferenceInv'
    <2>1. PICK what \in {"local", "below", "gone"} : ask' = [ask EXCEPT ![r] = what]
      BY <1>10 DEF AnsweredLocally, CallerGone
    <2> QED BY <1>10, <2>1, AskQuiet DEF AnsweredLocally, CallerGone, AskStates
  <1>11. CASE UNCHANGED inferenceVars
    BY <1>11 DEF inferenceVars, InferenceInv, Exclusive, Fed
  <1> QED BY <1>2, <1>3, <1>4, <1>5, <1>6, <1>7, <1>8, <1>9, <1>10, <1>11
       DEF InferenceNext, InferenceSteps

\* The embedded model (services/local_inference.rs) continues the prompt it was
\* asked about and nothing else, however many requests share it, leave or fail.
THEOREM ContextsAreOwn == InferenceSpec => []OwnContext
  <1>1. InferenceInv => OwnContext
    <2> SUFFICES ASSUME InferenceInv, NEW r \in Callers, gen[r].pc = "decode"
                 PROVE  /\ Len(kv) = gen[r].made
                        /\ \A i \in DOMAIN kv : kv[i].of = r
                        /\ \A i, j \in DOMAIN kv : i < j => kv[i].at < kv[j].at
      BY DEF OwnContext
    <2>1. Fed(r) /\ gen[r].made \in Nat
      BY DEF InferenceInv, Generations
    <2>2. DOMAIN kv = 1 .. gen[r].made /\ Len(kv) = gen[r].made
      BY <2>1 DEF Fed, InferenceInv
    <2>3. \A i \in DOMAIN kv : kv[i].of = r /\ kv[i].at = Position(i)
      BY <2>1, <2>2 DEF Fed, Token
    <2> QED BY <2>1, <2>2, <2>3 DEF Position
  <1> QED BY <1>1, InferenceStarts, InferenceKeeps, PTL DEF InferenceSpec

-----------------------------------------------------------------------------
(* The configuration file: where the key of a provider goes.               *)
\* The key of a document is its provider's, or the one of the secret file that
\* setup was told to keep, which the user says is its provider's.
OwnKey(key, p) == key = KeyFor(p) \/ (key = Secret /\ Secret \notin {"", "openai"})

\* A document that says whom to ask has the key of that provider.
Keyed(doc) ==
  /\ doc \in Documents
  /\ doc = Empty \/ doc.provider \in Providers
  /\ doc.provider \in Providers => OwnKey(doc.key, doc.provider)

\* What the commands write has its default URL too, if it has one.
WithDefault == {"openai", "compat", "copilot"}
Fits(doc) ==
  /\ Keyed(doc)
  /\ doc.provider \in WithDefault => doc.url = doc.provider

\* The same of what a gateway has loaded.
WellKeyed(c) ==
  /\ c.provider \in Kinds
  /\ c.provider # "ollama" /\ c.key # "" =>
       c.key = c.provider \/ (c.key = Secret /\ Secret # "openai")

CommandRecords ==
  [pc : {"idle", "read", "open", "write"}, does : {"none", "set-key", "set-alias", "setup"},
   provider : Providers \cup {""}, key : Owners, doc : Documents]

CommandFits(x) ==
  /\ x.does \in {"set-key", "setup"} => x.provider \in Providers /\ OwnKey(x.key, x.provider)
  /\ x.pc # "idle" => x.does # "none"
  /\ Fits(x.doc)
  /\ x.does = "setup" /\ x.pc \in {"open", "write"} =>
       /\ x.doc.provider = x.provider
       /\ x.doc.provider = "azure" => x.doc.url = "azure"

\* Only what is exported by hand need not have its URL.
ConfigInv ==
  /\ Fits(file) /\ Keyed(env) /\ byHand \in BOOLEAN
  /\ ~byHand => Fits(env)
  /\ command \in [Commands -> CommandRecords]
  /\ \A c \in Commands : CommandFits(command[c])

LEMMA EmptyFits == Fits(Empty)
  BY ProvidersAssumption DEF Kinds, Fits, Keyed, WithDefault, Empty, Documents, Owners

LEMMA ProvidersNamed ==
  ASSUME NEW p \in Providers
  PROVE  /\ p # "" /\ p \in Kinds /\ p \in Owners /\ KeyFor(p) \in Owners
         /\ DefaultUrl(p) \in Owners /\ (p \in WithDefault => DefaultUrl(p) = p)
  BY ProvidersAssumption DEF Kinds, Owners, KeyFor, DefaultUrl, WithDefault

LEMMA OwnKeysAreOwners == \A p \in Providers : \A key : OwnKey(key, p) => key \in Owners
  BY ProvidersNamed, SecretAssumption DEF OwnKey, Owners

\* Provider and key come from the same place, the shell or the file; the URL comes
\* from the other one if this one has none.
LEMMA LoadedKeyed ==
  ASSUME NEW e, NEW f, Keyed(e), Keyed(f)
  PROVE  /\ WellKeyed(Loaded(e, f))
         /\ Fits(e) /\ Fits(f) /\ Loaded(e, f).provider \in WithDefault =>
              Loaded(e, f).url = Loaded(e, f).provider
  <1> DEFINE c == Loaded(e, f)
             key == IF e.provider # "" THEN e.key ELSE f.key
  <1>1. /\ c.provider = Or(Or(e.provider, f.provider), "openai")
        /\ c.url = Or(Or(e.url, f.url), "openai")
        /\ c.key = Or(key, Secret)
    BY DEF Loaded
  <1>2. Empty.provider = "" /\ Empty.url = "" /\ Empty.key = ""
    BY DEF Empty
  <1>3. ASSUME NEW p \in Providers, OwnKey(key, p), c.provider = p
        PROVE  WellKeyed(c)
    BY <1>1, <1>3, ProvidersNamed DEF OwnKey, KeyFor, Or, WellKeyed
  <1>4. CASE e.provider # ""
    <2>1. e.provider \in Providers /\ OwnKey(key, e.provider)
      BY <1>2, <1>4 DEF Keyed
    <2>2. c.provider = e.provider
      BY <1>1, <1>4 DEF Or
    <2> HIDE DEF key
    <2>3. WellKeyed(c)
      BY <1>3, <2>1, <2>2
    <2>4. Fits(e) /\ c.provider \in WithDefault => c.url = c.provider
      BY <1>1, <1>4, <2>2 DEF Fits, Or
    <2> QED BY <2>3, <2>4
  <1>5. CASE e.provider = "" /\ f.provider # ""
    <2>1. f.provider \in Providers /\ OwnKey(key, f.provider) /\ e = Empty
      BY <1>2, <1>5, ProvidersNamed DEF Keyed
    <2>2. c.provider = f.provider /\ c.url = Or(f.url, "openai")
      BY <1>1, <1>2, <1>5, <2>1 DEF Or
    <2> HIDE DEF key
    <2>3. WellKeyed(c)
      BY <1>3, <2>1, <2>2
    <2>4. Fits(f) /\ c.provider \in WithDefault => c.url = c.provider
      BY <1>5, <2>2 DEF Fits, Or
    <2> QED BY <2>3, <2>4
  <1>6. CASE e.provider = "" /\ f.provider = ""
    <2>1. e = Empty /\ f = Empty
      BY <1>6, ProvidersNamed DEF Keyed
    <2>2. c.provider = "openai" /\ c.url = "openai" /\ c.key = Secret
      BY <1>1, <1>2, <2>1 DEF Or
    <2> QED BY <2>2 DEF WellKeyed, Kinds
  <1> QED BY <1>4, <1>5, <1>6

\* Changes of a document leave it fitting.
LEMMA ChangesFit ==
  ASSUME NEW doc, Keyed(doc), NEW p \in Providers, NEW key, OwnKey(key, p)
  PROVE  /\ Fits(ApplyProviderConfig(doc, p, key))
         /\ Fits(ApplySetupConfig(doc, p, key))
         /\ ApplySetupConfig(doc, p, key).provider = p
         /\ p = "azure" => ApplySetupConfig(doc, p, key).url = "azure"
  <1> DEFINE one == ApplyProviderConfig(doc, p, key)
             two == ApplySetupConfig(doc, p, key)
  <1>1. /\ DefaultUrl(p) \in Owners /\ p \in Owners /\ key \in Owners /\ p # ""
        /\ p \in WithDefault => DefaultUrl(p) = p
    BY ProvidersNamed, OwnKeysAreOwners
  <1>2. doc \in Documents
    BY DEF Keyed
  <1>3. Or(DefaultUrl(p), doc.url) \in Owners
    BY <1>1, <1>2 DEF Or, Documents
  <1>4. /\ one \in Documents /\ one.provider = p /\ one.key = key
        /\ one.url = Or(DefaultUrl(p), doc.url)
    BY <1>1, <1>2, <1>3 DEF ApplyProviderConfig, Documents
  <1>5. Fits(one)
    BY <1>1, <1>4 DEF Fits, Keyed, Or
  <1>6. two = [one EXCEPT !.url = IF p \in {"azure", "ollama"} THEN p ELSE @]
    BY DEF ApplySetupConfig
  <1> HIDE DEF one, two
  <1>7. /\ two \in Documents /\ two.provider = p /\ two.key = key
        /\ two.url = IF p \in {"azure", "ollama"} THEN p ELSE one.url
    BY <1>1, <1>4, <1>6 DEF Documents
  <1>8. Fits(two)
    BY <1>5, <1>7, <1>4 DEF Fits, Keyed, WithDefault
  <1> QED BY <1>5, <1>7, <1>8 DEF one, two

LEMMA ExportsKeyed ==
  ASSUME NEW doc, Keyed(doc), NEW p \in Providers, NEW url \in {doc.url, p}
  PROVE  Keyed([provider |-> p, url |-> url, key |-> KeyFor(p)])
  BY ProvidersNamed DEF Keyed, Documents, OwnKey

LEMMA NothingFits == NoCommand \in CommandRecords /\ CommandFits(NoCommand)
  <1>1. /\ NoCommand.pc = "idle" /\ NoCommand.does = "none" /\ NoCommand.doc = Empty
        /\ NoCommand \in CommandRecords
    BY EmptyFits DEF NoCommand, CommandRecords, Fits, Keyed, Owners
  <1> QED BY <1>1, EmptyFits DEF CommandFits

LEMMA ConfigStarts == ConfigInit => ConfigInv
  BY EmptyFits, NothingFits DEF ConfigInit, ConfigInv, Fits

\* A step of one command.
LEMMA CommandStep ==
  ASSUME ConfigInv, NEW c \in Commands, NEW x \in CommandRecords, CommandFits(x),
         ConfigStep(c, x), Fits(file'), UNCHANGED <<env, byHand>>
  PROVE  ConfigInv'
  BY DEF ConfigInv, ConfigStep

LEMMA ConfigKeeps == ConfigInv /\ [ConfigNext]_configVars => ConfigInv'
  <1> SUFFICES ASSUME ConfigInv, [ConfigNext]_configVars PROVE ConfigInv'
    OBVIOUS
  <1>1. Fits(Empty) /\ Fits(file) /\ Keyed(env) /\ Keyed(file)
    BY EmptyFits DEF ConfigInv, Fits
  <1>2. NoCommand \in CommandRecords /\ CommandFits(NoCommand)
    BY NothingFits
  <1>3. \A p \in Providers : OwnKey(KeyFor(p), p)
    BY DEF OwnKey
  <1>4. CASE UNCHANGED configVars
    BY <1>4 DEF configVars, ConfigInv
  <1>5. ASSUME NEW c \in Commands, NEW p \in Providers, NEW does \in {"set-key", "setup"},
               NEW key, OwnKey(key, p),
               ConfigStep(c, [NoCommand EXCEPT !.pc = "read", !.does = does,
                                         !.provider = p, !.key = key]),
               UNCHANGED <<file, env, byHand>>
        PROVE  ConfigInv'
    <2> DEFINE x == [NoCommand EXCEPT !.pc = "read", !.does = does, !.provider = p,
                                      !.key = key]
    <2>1. /\ x \in CommandRecords /\ x.pc = "read" /\ x.does = does /\ x.provider = p
          /\ x.key = key /\ x.doc = NoCommand.doc
      BY <1>2, <1>5, OwnKeysAreOwners DEF CommandRecords
    <2> HIDE DEF x
    <2>2. CommandFits(x)
      BY <1>2, <1>5, <2>1 DEF CommandFits
    <2> QED BY <1>1, <1>5, <2>1, <2>2, CommandStep DEF x
  <1>6. ASSUME NEW c \in Commands, RunEdit(c) PROVE ConfigInv'
    <2>1. CASE \E p \in Providers :
                 ConfigStep(c, [NoCommand EXCEPT !.pc = "read", !.does = "set-key",
                                           !.provider = p, !.key = KeyFor(p)])
      BY <1>3, <1>5, <1>6, <2>1 DEF RunEdit
    <2>2. CASE ConfigStep(c, [NoCommand EXCEPT !.pc = "read", !.does = "set-alias"])
      <3> DEFINE x == [NoCommand EXCEPT !.pc = "read", !.does = "set-alias"]
      <3>1. /\ x \in CommandRecords /\ x.pc = "read" /\ x.does = "set-alias"
            /\ x.doc = NoCommand.doc
        BY <1>2 DEF CommandRecords
      <3> HIDE DEF x
      <3>2. CommandFits(x)
        BY <1>2, <3>1 DEF CommandFits
      <3>3. UNCHANGED <<file, env, byHand>>
        BY <1>6 DEF RunEdit
      <3> QED BY <1>1, <2>2, <3>1, <3>2, <3>3, CommandStep DEF x
    <2> QED BY <1>6, <2>1, <2>2 DEF RunEdit
  <1>7. ASSUME NEW c \in Commands, RunSetup(c) PROVE ConfigInv'
    <2> DEFINE current == Loaded(env, file)
    <2>1. PICK p \in Providers :
            \E key \in {KeyFor(p)} \cup
                       (IF p = current.provider /\ p # "ollama" THEN {current.key} \ {""} ELSE {}) :
              ConfigStep(c, [NoCommand EXCEPT !.pc = "read", !.does = "setup",
                                        !.provider = p, !.key = key])
      BY <1>7, Zenon DEF RunSetup
    <2>2. WellKeyed(current)
      BY <1>1, LoadedKeyed
    <2> HIDE DEF current
    <2>3. PICK key \in {KeyFor(p)} \cup
                       (IF p = current.provider /\ p # "ollama" THEN {current.key} \ {""} ELSE {}) :
            ConfigStep(c, [NoCommand EXCEPT !.pc = "read", !.does = "setup",
                                      !.provider = p, !.key = key])
      BY <2>1
    <2>4. OwnKey(key, p)
      BY <1>3, <2>2 DEF WellKeyed, KeyFor, OwnKey
    <2>5. UNCHANGED <<file, env, byHand>>
      BY <1>7 DEF RunSetup
    <2> QED BY <1>5, <2>3, <2>4, <2>5
  <1>8. ASSUME NEW c \in Commands, ReadFile(c) PROVE ConfigInv'
    <2>1. UNCHANGED <<file, env, byHand>> /\ command[c].pc = "read"
      BY <1>8 DEF ReadFile
    <2>2. CASE ConfigStep(c, NoCommand)
      BY <1>1, <1>2, <2>1, <2>2, CommandStep
    <2>3. CASE ConfigStep(c, [command[c] EXCEPT !.pc = "open", !.doc = Changed(c, file)])
      <3> DEFINE x == command[c]
                 doc == Changed(c, file)
                 y == [x EXCEPT !.pc = "open", !.doc = doc]
      <3>1. x \in CommandRecords /\ CommandFits(x) /\ x.does # "none"
        BY <2>1 DEF ConfigInv, CommandFits
      <3>2. x.does \in {"set-alias", "set-key", "setup"}
        BY <3>1 DEF CommandRecords
      <3>3. /\ Fits(doc)
            /\ x.does = "setup" => /\ doc.provider = x.provider
                                   /\ doc.provider = "azure" => doc.url = "azure"
        <4>1. CASE x.does = "set-alias"
          BY <1>1, <4>1 DEF Changed, ApplyModelAlias
        <4>2. CASE x.does = "set-key"
          <5>1. x.provider \in Providers /\ OwnKey(x.key, x.provider)
            BY <3>1, <4>2 DEF CommandFits
          <5>2. doc = ApplyProviderConfig(file, x.provider, x.key)
            BY <4>2 DEF Changed
          <5> HIDE DEF x, doc
          <5> QED BY <1>1, <4>2, <5>1, <5>2, ChangesFit
        <4>3. CASE x.does = "setup"
          <5>1. x.provider \in Providers /\ OwnKey(x.key, x.provider)
            BY <3>1, <4>3 DEF CommandFits
          <5>2. doc = ApplySetupConfig(file, x.provider, x.key)
            BY <4>3 DEF Changed
          <5> HIDE DEF x, doc
          <5> QED BY <1>1, <4>3, <5>1, <5>2, ChangesFit
        <4> QED BY <3>2, <4>1, <4>2, <4>3
      <3>4. doc \in Documents
        BY <3>3 DEF Fits, Keyed
      <3> HIDE DEF doc
      <3>5. /\ y \in CommandRecords /\ y.pc = "open" /\ y.doc = doc /\ y.does = x.does
            /\ y.provider = x.provider /\ y.key = x.key
        BY <3>1, <3>4 DEF CommandRecords
      <3> HIDE DEF x, y
      <3>6. CommandFits(y)
        BY <3>1, <3>3, <3>5 DEF CommandFits
      <3> QED BY <1>1, <2>1, <2>3, <3>5, <3>6, CommandStep DEF x, y, doc
    <2> QED BY <1>8, <2>2, <2>3 DEF ReadFile
  <1>9. ASSUME NEW c \in Commands, OpenFile(c) PROVE ConfigInv'
    <2> DEFINE x == command[c]
               y == [x EXCEPT !.pc = "write"]
    <2>1. file' = Empty /\ UNCHANGED <<env, byHand>> /\ ConfigStep(c, y) /\ x.pc = "open"
      BY <1>9 DEF OpenFile
    <2>2. x \in CommandRecords /\ CommandFits(x)
      BY DEF ConfigInv
    <2>3. /\ y \in CommandRecords /\ y.pc = "write" /\ y.doc = x.doc /\ y.does = x.does
          /\ y.provider = x.provider /\ y.key = x.key
      BY <2>2 DEF CommandRecords
    <2> HIDE DEF x, y
    <2>4. CommandFits(y)
      BY <2>1, <2>2, <2>3 DEF CommandFits
    <2> QED BY <1>1, <2>1, <2>3, <2>4, CommandStep
  <1>10. ASSUME NEW c \in Commands, WriteFile(c) PROVE ConfigInv'
    <2>1. Fits(command[c].doc)
      BY DEF ConfigInv, CommandFits
    <2> QED BY <1>1, <1>2, <1>10, <2>1, CommandStep DEF WriteFile
  <1>11. ASSUME NEW c \in Commands, EditEnds(c) PROVE ConfigInv'
    BY <1>1, <1>2, <1>11, CommandStep DEF EditEnds
  <1>12. ASSUME NEW p \in Providers, SourceEnvFile(p) PROVE ConfigInv'
    <2>1. Fits(ApplyProviderConfig(env, p, KeyFor(p)))
      BY <1>1, <1>3, ChangesFit
    <2> QED BY <1>12, <2>1 DEF SourceEnvFile, ConfigInv, Fits
  <1>13. ASSUME NEW p \in Providers, ExportByHand(p) PROVE ConfigInv'
    <2>1. PICK url \in {env.url} \cup ({p} \cap {"azure", "ollama"}) :
            env' = [provider |-> p, url |-> url, key |-> KeyFor(p)]
      BY <1>13 DEF ExportByHand
    <2>2. Keyed(env')
      BY <1>1, <2>1, ExportsKeyed
    <2> QED BY <1>13, <2>2 DEF ExportByHand, ConfigInv
  <1>14. CASE NewShell
    BY <1>1, <1>14 DEF NewShell, ConfigInv, Fits
  <1> QED BY <1>4, <1>6, <1>7, <1>8, <1>9, <1>10, <1>11, <1>12, <1>13, <1>14 DEF ConfigNext

LEMMA ConfigTypes == ConfigInv => ConfigTypeOK
  <1> SUFFICES ASSUME ConfigInv PROVE ConfigTypeOK
    OBVIOUS
  <1>1. \A doc \in {file, env} : doc \in Documents /\ (doc.provider = "" => doc = Empty)
    BY ProvidersNamed DEF ConfigInv, Fits, Keyed
  <1>2. \A c \in Commands : command[c] \in CommandRecords
    BY DEF ConfigInv
  <1>3. byHand \in BOOLEAN
    BY DEF ConfigInv
  <1> QED BY <1>1, <1>2, <1>3 DEF ConfigTypeOK, CommandRecords

\* No key goes to another provider, however many commands overlap, are repeated
\* or die half way, and whatever they have the shell export; nor does what is
\* exported by hand send one abroad where the URL is known or checked
\* (cli/set_key.rs apply_provider_config, cli/setup.rs apply_setup_config,
\* config.rs load_with_validation, handler.rs provider_chat_completions_url).
THEOREM KeysGoHome == ConfigSpec => []KeyGoesHome
  <1>1. ConfigInv => KeyGoesHome
    <2> SUFFICES ASSUME ConfigInv PROVE KeyGoesHome
      OBVIOUS
    <2> DEFINE c == Loaded(env, file)
    <2>1. Keyed(env) /\ Fits(file) /\ Keyed(file)
      BY DEF ConfigInv, Fits
    <2>2. /\ WellKeyed(c)
          /\ ~byHand /\ c.provider \in WithDefault => c.url = c.provider
      BY <2>1, LoadedKeyed DEF ConfigInv
    <2>3. ASSUME NEW d, WellKeyed(d), NEW to, d.provider # "ollama" => to = d.provider
          PROVE  AtHome(Shown(AgentKey(d), to))
      BY <2>3 DEF WellKeyed, AtHome, Shown, AgentKey
    <2>4. ASSUME Validated(c)
          PROVE  /\ \A shown \in CheckPings(c, FALSE) : AtHome(shown)
                 /\ c.provider \notin {"openai", "compat"} => AtHome(Chat(c))
                 /\ ~byHand => /\ \A shown \in {Chat(c)} \cup Passed(c) : AtHome(shown)
                               /\ StatusEndpoint(c) = AgentEndpoint(c)
      <3> HIDE DEF c
      <3>1. c.provider = "azure" => c.url = "azure"
        BY <2>4 DEF Validated
      <3>2. CheckPings(c, FALSE) \subseteq {Shown(AgentKey(c), CheckTarget(c))}
        BY DEF CheckPings, Pings
      <3>3. AtHome(Shown(AgentKey(c), CheckTarget(c)))
        BY <2>2, <2>3, <3>1 DEF CheckTarget
      <3>4. ~byHand \/ c.provider \notin {"openai", "compat"} => AtHome(Chat(c))
        BY <2>2, <2>3, <3>1 DEF Chat, AgentEndpoint, WithDefault
      <3>5. ASSUME ~byHand, NEW shown \in Passed(c) PROVE AtHome(shown)
        <4>1. c.provider # "ollama" /\ shown = Shown(c.key, ToolUrl(c))
          BY <3>5 DEF Passed
        <4>2. ToolUrl(c) = c.provider
          BY <2>2, <3>1, <3>5 DEF ToolUrl, Passed, WithDefault
        <4> QED BY <2>2, <2>3, <4>1, <4>2 DEF AgentKey
      <3>6. ~byHand => StatusEndpoint(c) = AgentEndpoint(c)
        BY <2>2 DEF WithDefault, StatusEndpoint, AgentEndpoint, ToolUrl
      <3> QED BY <3>2, <3>3, <3>4, <3>5, <3>6
    <2>5. ASSUME NEW e \in Commands, command[e].pc = "write", command[e].does = "setup",
                 env = Empty
          PROVE  \A shown \in SetupPings(Loaded(env, command[e].doc)) : AtHome(shown)
      <3> DEFINE doc == command[e].doc
                 d == Loaded(env, doc)
      <3>1. /\ Fits(doc) /\ Keyed(doc) /\ doc.provider \in Providers
            /\ doc.provider = "azure" => doc.url = "azure"
        BY <2>5 DEF ConfigInv, CommandFits, Fits
      <3>2. WellKeyed(d)
        BY <2>1, <3>1, LoadedKeyed
      <3>3. d.provider = "azure" => d.url = "azure"
        BY <2>5, <3>1 DEF Loaded, Empty, Or
      <3> HIDE DEF d
      <3>4. SetupPings(d) \subseteq {Shown(AgentKey(d), SetupTarget(d))}
        BY DEF SetupPings, Pings
      <3>5. AtHome(Shown(AgentKey(d), SetupTarget(d)))
        BY <2>3, <3>2, <3>3 DEF SetupTarget
      <3> QED BY <3>4, <3>5 DEF d
    <2> HIDE DEF c
    <2> QED BY <2>4, <2>5 DEF KeyGoesHome, c
  <1> QED BY <1>1, ConfigStarts, ConfigKeeps, PTL DEF ConfigSpec

-----------------------------------------------------------------------------
(* The request log, its rotation and the one who follows it.               *)
Writing   == {"write", "newline"}
BodyPCs   == {"stream", "stat", "remove", "shift", "open", "emitted", "gone"} \cup Writing
BodyRecords == [pc : BodyPCs, name : Names, file : Nat]
Pieces    == (Exchanges \cup {"old"}) \X Writing
Followers == [pc : {"off", "shown", "poll", "read", "ended"}, offset : Nat, length : Nat,
              shown : Seq(Pieces)]

\* The task that has written a piece is past it.
Past(piece) == IF piece = "write" THEN {"newline", "emitted", "gone"} ELSE {"emitted", "gone"}

LogTyped ==
  /\ body \in [Exchanges -> BodyRecords] /\ names \in [Names -> Nat]
  /\ names[0] # 0 => names[0] \in DOMAIN files
  /\ files \in Seq(Seq(Pieces)) /\ follower \in Followers
  /\ \A e \in Exchanges : body[e].pc \in Writing => body[e].file \in DOMAIN files

\* What is in the files has been put there.
PiecesPast ==
  \A f \in DOMAIN files : \A k \in DOMAIN files[f] :
    LET piece == files[f][k]
    IN  piece[1] \in Exchanges => body[piece[1]].pc \in Past(piece[2])

\* What has been shown is in the files.
ShownWasThere ==
  \A i \in DOMAIN follower.shown :
    \E f \in DOMAIN files : \E k \in DOMAIN files[f] : files[f][k] = follower.shown[i]

\* Of the file that is followed nothing beyond the offset has been shown, and the
\* offset is one of this file once something of it has been shown.
ShownToOffset ==
  follower.pc \in {"poll", "read"} /\ names[0] # 0 =>
    \A i \in DOMAIN follower.shown, k \in DOMAIN files[names[0]] :
      files[names[0]][k] = follower.shown[i] =>
        k <= follower.offset /\ follower.offset <= Len(files[names[0]])

LogInv ==
  /\ LogTyped /\ PiecesPast /\ LoggedOnce
  /\ ShownWasThere /\ ShownToOffset /\ FollowNeverRepeats
  /\ follower.pc = "off" => follower.shown = <<>>

LEMMA LogStarts == LogInit => LogInv
  <1> SUFFICES ASSUME LogInit PROVE LogInv
    OBVIOUS
  <1>1. /\ OldPieces \in Seq(Pieces) /\ Len(OldPieces) = 2
        /\ OldPieces[1] = <<"old", "write">> /\ OldPieces[2] = <<"old", "newline">>
    BY DEF OldPieces, Pieces, Writing
  <1> HIDE DEF OldPieces
  <1>2. /\ files \in Seq(Seq(Pieces)) /\ DOMAIN files = {1} /\ files[1] = OldPieces
    BY <1>1 DEF LogInit
  <1>3. DOMAIN files[1] = {1, 2}
    BY <1>1, <1>2
  <1>4. /\ follower \in Followers /\ follower.shown = <<>> /\ follower.pc = "off"
        /\ DOMAIN follower.shown = {}
    BY DEF LogInit, Followers
  <1>5. LogTyped
    BY <1>2, <1>4, RotationsAssumption DEF LogInit, LogTyped, BodyRecords, BodyPCs, Writing, Names
  <1>6. PiecesPast
    BY <1>1, <1>2, <1>3, ExchangesAssumption DEF PiecesPast
  <1>7. LoggedOnce
    BY <1>1, <1>2, <1>3 DEF LoggedOnce
  <1> QED BY <1>4, <1>5, <1>6, <1>7 DEF LogInv, ShownWasThere, ShownToOffset, FollowNeverRepeats

\* A step of a task that writes nothing.
LEMMA QuietLogStep ==
  ASSUME LogInv, UNCHANGED <<files, follower>>, NEW e \in Exchanges, NEW x \in BodyRecords,
         body' = [body EXCEPT ![e] = x], x.pc \notin Writing \/ x.file \in DOMAIN files,
         \A k \in Writing : body[e].pc \in Past(k) => x.pc \in Past(k),
         names' \in [Names -> Nat], names'[0] \in {0, names[0]}
  PROVE  LogInv'
  <1>1. body'[e] = x /\ \A d \in Exchanges : d # e => body'[d] = body[d]
    BY DEF LogInv, LogTyped
  <1>2. LogTyped'
    BY <1>1 DEF LogInv, LogTyped
  <1>3. PiecesPast'
    <2> SUFFICES ASSUME NEW f \in DOMAIN files, NEW k \in DOMAIN files[f],
                        files[f][k][1] \in Exchanges
                 PROVE  body'[files[f][k][1]].pc \in Past(files[f][k][2])
      BY DEF PiecesPast
    <2> DEFINE piece == files[f][k]
    <2>1. piece \in Pieces
      BY DEF LogInv, LogTyped
    <2>2. piece[2] \in Writing /\ body[piece[1]].pc \in Past(piece[2])
      BY <2>1 DEF LogInv, PiecesPast, Pieces
    <2> HIDE DEF piece
    <2>3. body'[piece[1]].pc \in Past(piece[2])
      BY <1>1, <2>2 DEF piece
    <2> QED BY <2>3 DEF piece
  <1>4. ShownToOffset'
    BY DEF LogInv, ShownToOffset
  <1> QED BY <1>2, <1>3, <1>4 DEF LogInv, LoggedOnce, ShownWasThere, FollowNeverRepeats

\* A new file has nothing in it.
LEMMA NewFileKeeps ==
  ASSUME LogInv, NEW e \in Exchanges, body[e].pc = "open", names[0] = 0,
         files' = Append(files, <<>>), names' = [names EXCEPT ![0] = Len(files) + 1],
         body' = [body EXCEPT ![e].pc = "write", ![e].file = Len(files) + 1],
         UNCHANGED follower
  PROVE  LogInv'
  <1> DEFINE n == Len(files) + 1
  <1>1. files \in Seq(Seq(Pieces)) /\ Len(files) \in Nat /\ DOMAIN files = 1 .. Len(files)
    BY DEF LogInv, LogTyped
  <1>2. /\ DOMAIN files' = 1 .. n /\ files'[n] = <<>> /\ DOMAIN files'[n] = {}
        /\ \A f \in DOMAIN files : f # n /\ files'[f] = files[f]
        /\ \A f \in DOMAIN files' : f = n \/ f \in DOMAIN files
        /\ files' \in Seq(Seq(Pieces)) /\ n \in Nat /\ n # 0
    BY <1>1
  <1> HIDE DEF n
  <1>3. /\ body' \in [Exchanges -> BodyRecords] /\ body'[e].pc = "write" /\ body'[e].file = n
        /\ \A d \in Exchanges : d # e => body'[d] = body[d]
    <2> DEFINE b == [body[e] EXCEPT !.pc = "write", !.file = n]
    <2>1. body \in [Exchanges -> BodyRecords] /\ body' = [body EXCEPT ![e] = b]
      BY DEF LogInv, LogTyped, n
    <2>2. body[e] \in BodyRecords /\ n \in Nat
      BY <1>2, <2>1
    <2>3. b \in BodyRecords /\ b.pc = "write" /\ b.file = n
      BY ONLY <2>2 DEF BodyRecords, BodyPCs, Writing
    <2> HIDE DEF b
    <2> QED BY <2>1, <2>3
  <1>4. names' \in [Names -> Nat] /\ names'[0] = n
    BY <1>2, RotationsAssumption DEF LogInv, LogTyped, Names, n
  <1>5. \A d \in Exchanges : body'[d].pc \in Writing => body'[d].file \in DOMAIN files'
    BY <1>1, <1>2, <1>3 DEF LogInv, LogTyped
  <1>6. LogTyped'
    BY <1>2, <1>3, <1>4, <1>5 DEF LogInv, LogTyped
  <1>7. PiecesPast'
    <2> SUFFICES ASSUME NEW f \in DOMAIN files', NEW k \in DOMAIN files'[f],
                        files'[f][k][1] \in Exchanges
                 PROVE  body'[files'[f][k][1]].pc \in Past(files'[f][k][2])
      BY DEF PiecesPast
    <2>1. f \in DOMAIN files /\ files'[f] = files[f]
      BY <1>2
    <2>2. files[f][k] \in Pieces
      BY <2>1 DEF LogInv, LogTyped
    <2>3. body[files[f][k][1]].pc \in Past(files[f][k][2])
      BY <2>1 DEF LogInv, PiecesPast
    <2>4. files[f][k][1] # e
      BY <2>2, <2>3 DEF Pieces, Writing, Past
    <2> QED BY <1>3, <2>1, <2>3, <2>4
  <1>8. LoggedOnce'
    <2> SUFFICES ASSUME NEW f \in DOMAIN files', NEW g \in DOMAIN files',
                        NEW i \in DOMAIN files'[f], NEW j \in DOMAIN files'[g],
                        files'[f][i] = files'[g][j]
                 PROVE  f = g /\ i = j
      BY DEF LoggedOnce
    <2>1. f \in DOMAIN files /\ g \in DOMAIN files /\ files'[f] = files[f] /\ files'[g] = files[g]
      BY <1>2
    <2> QED BY <2>1 DEF LogInv, LoggedOnce
  <1>9. ShownWasThere'
    <2> SUFFICES ASSUME NEW i \in DOMAIN follower'.shown
                 PROVE  \E f \in DOMAIN files' : \E k \in DOMAIN files'[f] :
                          files'[f][k] = follower'.shown[i]
      BY DEF ShownWasThere
    <2>1. PICK f \in DOMAIN files : \E k \in DOMAIN files[f] : files[f][k] = follower.shown[i]
      BY DEF LogInv, ShownWasThere
    <2>2. f \in DOMAIN files' /\ files'[f] = files[f]
      BY <1>1, <1>2, <2>1 DEF n
    <2> QED BY <2>1, <2>2
  <1>10. ShownToOffset'
    BY <1>2, <1>4 DEF ShownToOffset
  <1> QED BY <1>6, <1>7, <1>8, <1>9, <1>10 DEF LogInv, FollowNeverRepeats

\* A piece is new when it is written.
LEMMA PieceKeeps ==
  ASSUME LogInv, NEW e \in Exchanges, WritePiece(e)
  PROVE  LogInv'
  <1> DEFINE h == body[e].file
             piece == <<e, body[e].pc>>
             n == Len(files[h]) + 1
             pc == IF body[e].pc = "write" THEN "newline" ELSE "emitted"
  <1>1. /\ body[e].pc \in Writing /\ h \in DOMAIN files
        /\ files \in Seq(Seq(Pieces)) /\ files[h] \in Seq(Pieces)
        /\ Len(files) \in Nat /\ DOMAIN files = 1 .. Len(files)
        /\ piece \in Pieces
    BY DEF WritePiece, LogInv, LogTyped, Writing, Pieces
  <1>2. /\ files' = [files EXCEPT ![h] = Append(files[h], piece)]
        /\ body' = [body EXCEPT ![e].pc = pc]
        /\ UNCHANGED <<names, follower>>
    BY DEF WritePiece, BodyGoes
  <1>3. Len(files[h]) \in Nat /\ DOMAIN files[h] = 1 .. Len(files[h])
    BY <1>1
  <1>4. \A f \in DOMAIN files : \A k \in DOMAIN files[f] : files[f][k] # piece
    <2> SUFFICES ASSUME NEW f \in DOMAIN files, NEW k \in DOMAIN files[f], files[f][k] = piece
                 PROVE  FALSE
      OBVIOUS
    <2>1. body[e].pc \in Past(body[e].pc)
      BY DEF LogInv, PiecesPast
    <2> QED BY <1>1, <2>1 DEF Past, Writing
  <1> DEFINE longer == Append(files[h], piece)
  <1>5. /\ longer \in Seq(Pieces) /\ Len(longer) = n /\ DOMAIN longer = 1 .. n
        /\ longer[n] = piece
        /\ \A k \in DOMAIN files[h] : longer[k] = files[h][k]
    <2> HIDE DEF piece
    <2>1. longer \in Seq(Pieces) /\ Len(longer) = n /\ DOMAIN longer = 1 .. n
      BY <1>1
    <2>2. longer[n] = piece
      BY <1>1
    <2>3. \A k \in DOMAIN files[h] : longer[k] = files[h][k]
      BY <1>1
    <2> QED BY <2>1, <2>2, <2>3
  <1> HIDE DEF piece
  <1>6. /\ DOMAIN files' = DOMAIN files /\ files' \in Seq(Seq(Pieces))
        /\ DOMAIN files'[h] = 1 .. n /\ Len(files'[h]) = n /\ files'[h][n] = piece
        /\ \A k \in DOMAIN files[h] : files'[h][k] = files[h][k]
        /\ \A f \in DOMAIN files : f # h => files'[f] = files[f]
    <2>1. files' = [files EXCEPT ![h] = longer]
      BY <1>2
    <2> HIDE DEF longer
    <2>2. files'[h] = longer /\ \A f \in DOMAIN files : f # h => files'[f] = files[f]
      BY <1>1, <2>1
    <2>3. DOMAIN files' = DOMAIN files /\ files' \in Seq(Seq(Pieces))
      BY <1>1, <1>5, <2>1
    <2> QED BY <1>5, <2>2, <2>3
  <1>7. \A f \in DOMAIN files : /\ DOMAIN files[f] \subseteq DOMAIN files'[f]
                                /\ \A k \in DOMAIN files[f] : files'[f][k] = files[f][k]
    <2> SUFFICES ASSUME NEW f \in DOMAIN files
                 PROVE  /\ DOMAIN files[f] \subseteq DOMAIN files'[f]
                        /\ \A k \in DOMAIN files[f] : files'[f][k] = files[f][k]
      OBVIOUS
    <2>1. CASE f = h
      <3>1. DOMAIN files[h] \subseteq DOMAIN files'[h]
        BY <1>3, <1>6
      <3> QED BY <1>6, <2>1, <3>1
    <2>2. CASE f # h
      BY <1>6, <2>2
    <2> QED BY <2>1, <2>2
  <1>8. \A f \in DOMAIN files : \A k \in DOMAIN files'[f] :
          \/ k \in DOMAIN files[f]
          \/ f = h /\ k = n /\ files'[f][k] = piece
    <2>1. ASSUME NEW k \in DOMAIN files'[h] PROVE k \in DOMAIN files[h] \/ k = n
      BY <1>3, <1>6
    <2>2. ASSUME NEW f \in DOMAIN files, f # h PROVE DOMAIN files'[f] = DOMAIN files[f]
      BY <1>6, <2>2
    <2> QED BY <1>6, <2>1, <2>2
  <1>9. /\ body' \in [Exchanges -> BodyRecords] /\ body'[e].pc = pc /\ body'[e].file = h
        /\ \A d \in Exchanges : d # e => body'[d] = body[d]
    BY <1>2 DEF LogInv, LogTyped, BodyRecords, BodyPCs, Writing
  <1>10. LogTyped'
    BY <1>2, <1>6, <1>9 DEF LogInv, LogTyped
  <1>11. PiecesPast'
    <2> SUFFICES ASSUME NEW f \in DOMAIN files', NEW k \in DOMAIN files'[f],
                        files'[f][k][1] \in Exchanges
                 PROVE  body'[files'[f][k][1]].pc \in Past(files'[f][k][2])
      BY DEF PiecesPast
    <2>1. CASE k \in DOMAIN files[f]
      <3>1. files[f][k] \in Pieces /\ files'[f][k] = files[f][k]
            /\ body[files[f][k][1]].pc \in Past(files[f][k][2])
        BY <1>6, <1>7, <2>1 DEF LogInv, LogTyped, PiecesPast
      <3>2. files[f][k][1] = e => pc \in Past(files[f][k][2])
        BY <1>1, <3>1 DEF Pieces, Writing, Past
      <3> QED BY <1>9, <3>1, <3>2
    <2>2. CASE f = h /\ k = n /\ files'[f][k] = piece
      BY <1>1, <1>9, <2>2 DEF Past, piece, Writing
    <2> QED BY <1>6, <1>8, <2>1, <2>2
  <1>12. LoggedOnce'
    <2> SUFFICES ASSUME NEW f \in DOMAIN files', NEW g \in DOMAIN files',
                        NEW i \in DOMAIN files'[f], NEW j \in DOMAIN files'[g],
                        files'[f][i] = files'[g][j]
                 PROVE  f = g /\ i = j
      BY DEF LoggedOnce
    <2>1. CASE i \in DOMAIN files[f] /\ j \in DOMAIN files[g]
      <3>1. files[f][i] = files[g][j]
        BY <1>6, <1>7, <2>1
      <3> QED BY <1>6, <2>1, <3>1 DEF LogInv, LoggedOnce
    <2>2. CASE i \in DOMAIN files[f] /\ j \notin DOMAIN files[g]
      BY <1>4, <1>6, <1>7, <1>8, <2>2
    <2>3. CASE i \notin DOMAIN files[f] /\ j \in DOMAIN files[g]
      BY <1>4, <1>6, <1>7, <1>8, <2>3
    <2>4. CASE i \notin DOMAIN files[f] /\ j \notin DOMAIN files[g]
      BY <1>6, <1>8, <2>4
    <2> QED BY <2>1, <2>2, <2>3, <2>4
  <1>13. ShownWasThere'
    <2> SUFFICES ASSUME NEW i \in DOMAIN follower'.shown
                 PROVE  \E f \in DOMAIN files' : \E k \in DOMAIN files'[f] :
                          files'[f][k] = follower'.shown[i]
      BY DEF ShownWasThere
    <2>1. PICK f \in DOMAIN files : \E k \in DOMAIN files[f] : files[f][k] = follower.shown[i]
      BY <1>2 DEF LogInv, ShownWasThere
    <2>2. PICK k \in DOMAIN files[f] : files[f][k] = follower.shown[i]
      BY <2>1
    <2>3. k \in DOMAIN files'[f] /\ files'[f][k] = files[f][k]
      BY <1>7
    <2> QED BY <1>2, <1>6, <2>2, <2>3
  <1>14. ShownToOffset'
    <2> SUFFICES ASSUME follower.pc \in {"poll", "read"}, names[0] # 0,
                        NEW i \in DOMAIN follower.shown, NEW k \in DOMAIN files'[names[0]],
                        files'[names[0]][k] = follower.shown[i]
                 PROVE  k <= follower.offset /\ follower.offset <= Len(files'[names[0]])
      BY <1>2 DEF ShownToOffset
    <2>1. names[0] \in DOMAIN files
      BY DEF LogInv, LogTyped
    <2>2. follower.shown[i] # piece
      BY <1>4 DEF LogInv, ShownWasThere
    <2>3. k \in DOMAIN files[names[0]] /\ files[names[0]][k] = follower.shown[i]
      BY <1>7, <1>8, <2>1, <2>2
    <2>4. k <= follower.offset /\ follower.offset <= Len(files[names[0]])
      BY <2>3 DEF LogInv, ShownToOffset
    <2>5. follower.offset \in Nat
      BY DEF LogInv, LogTyped, Followers
    <2>6. names[0] = h => Len(files'[names[0]]) = Len(files[names[0]]) + 1
      BY <1>6
    <2>7. names[0] # h => files'[names[0]] = files[names[0]]
      BY <1>6, <2>1
    <2> QED BY <1>3, <2>4, <2>5, <2>6, <2>7
  <1> QED BY <1>2, <1>10, <1>11, <1>12, <1>13, <1>14 DEF LogInv, FollowNeverRepeats

\* A step of the follower, from what it shows to what it shows next.
LEMMA FollowerKeeps ==
  ASSUME LogInv, UNCHANGED <<body, names, files>>, follower' \in Followers,
         follower'.pc # "off",
         ShownWasThere', ShownToOffset', FollowNeverRepeats'
  PROVE  LogInv'
  BY DEF LogInv, LogTyped, PiecesPast, LoggedOnce

\* What is read next from the file has not been shown.
LEMMA EmitKeeps ==
  ASSUME LogInv, EmitNew, names[0] # 0
  PROVE  LogInv'
  <1> DEFINE h == names[0]
             kept == files[h]
             o == follower.offset
             s == follower.shown
             new == Unread
  <1>1. /\ UNCHANGED <<body, names, files>> /\ follower.pc = "read"
        /\ follower' = [follower EXCEPT !.pc = "poll", !.shown = s \o new, !.offset = o + Len(new)]
    BY DEF EmitNew
  <1>2. /\ h \in DOMAIN files /\ kept \in Seq(Pieces) /\ Len(kept) \in Nat
        /\ DOMAIN kept = 1 .. Len(kept)
        /\ follower \in Followers /\ o \in Nat /\ s \in Seq(Pieces) /\ Len(s) \in Nat
        /\ DOMAIN s = 1 .. Len(s)
    <2>1. h \in DOMAIN files /\ kept \in Seq(Pieces) /\ follower \in Followers
      BY DEF LogInv, LogTyped
    <2>2. o \in Nat /\ s \in Seq(Pieces)
      BY <2>1 DEF Followers
    <2> QED BY <2>1, <2>2
  <1>3. new = SubSeq(kept, o + 1, Len(kept))
    BY DEF Unread
  <1> HIDE DEF h, kept, o, s, new
  <1>4. /\ new \in Seq(Pieces) /\ Len(new) \in Nat /\ DOMAIN new = 1 .. Len(new)
        /\ \A k \in DOMAIN new : o + k \in DOMAIN kept /\ new[k] = kept[o + k]
        /\ Len(new) # 0 => o + Len(new) = Len(kept)
    <2>1. CASE o < Len(kept)
      <3>1. /\ new \in Seq(Pieces) /\ Len(new) = Len(kept) - (o + 1) + 1
            /\ \A k \in 1 .. Len(kept) - (o + 1) + 1 : new[k] = kept[o + 1 + k - 1]
        <4>1. o + 1 \in Int /\ Len(kept) \in Int /\ o + 1 <= Len(kept)
          BY <1>2, <2>1
        <4>2. \A i \in o + 1 .. Len(kept) : kept[i] \in Pieces
          BY <1>2
        <4> QED BY <1>3, <4>1, <4>2, SubSeqProperties
      <3>2. Len(new) = Len(kept) - o /\ Len(new) \in Nat
        BY <1>2, <2>1, <3>1
      <3>3. DOMAIN new = 1 .. Len(new)
        BY <3>1
      <3>4. ASSUME NEW k \in DOMAIN new PROVE o + k \in DOMAIN kept /\ new[k] = kept[o + k]
        <4>1. k \in 1 .. Len(kept) - (o + 1) + 1 /\ o + 1 + k - 1 = o + k
              /\ o + k \in 1 .. Len(kept)
          BY <1>2, <3>2, <3>3
        <4> QED BY <1>2, <3>1, <4>1
      <3>5. o + Len(new) = Len(kept)
        BY <1>2, <3>2
      <3> QED BY <3>1, <3>2, <3>3, <3>4, <3>5
    <2>2. CASE o >= Len(kept)
      <3>1. new = <<>>
        BY <1>2, <1>3, <2>2, SubSeqEmpty
      <3>2. new \in Seq(Pieces) /\ Len(new) = 0 /\ DOMAIN new = {} /\ 1 .. 0 = {}
        BY <3>1
      <3> QED BY <3>2
    <2>3. o < Len(kept) \/ o >= Len(kept)
      BY <1>2
    <2> QED BY <2>1, <2>2, <2>3
  <1>5. /\ Len(s) \in Nat /\ Len(new) \in Nat /\ o \in Nat /\ Len(kept) \in Nat
        /\ DOMAIN kept = 1 .. Len(kept)
    BY <1>2, <1>4
  <1>6. /\ s \o new \in Seq(Pieces) /\ DOMAIN (s \o new) = 1 .. Len(s) + Len(new)
        /\ \A i \in 1 .. Len(s) : (s \o new)[i] = s[i]
        /\ \A i \in 1 .. Len(s) + Len(new) :
             i > Len(s) => i - Len(s) \in DOMAIN new /\ (s \o new)[i] = new[i - Len(s)]
    <2>1. s \o new \in Seq(Pieces) /\ Len(s \o new) = Len(s) + Len(new)
      BY <1>2, <1>4, ConcatProperties
    <2>2. \A i \in 1 .. Len(s) + Len(new) :
            (s \o new)[i] = IF i <= Len(s) THEN s[i] ELSE new[i - Len(s)]
      BY <1>2, <1>4, ConcatProperties
    <2>3. DOMAIN (s \o new) = 1 .. Len(s) + Len(new)
      BY <2>1
    <2>4. \A i \in 1 .. Len(s) : i \in 1 .. Len(s) + Len(new) /\ i <= Len(s)
      BY <1>5
    <2>5. \A i \in 1 .. Len(s) + Len(new) :
            i > Len(s) => i - Len(s) \in 1 .. Len(new) /\ ~(i <= Len(s))
      BY <1>5
    <2> QED BY <1>4, <2>1, <2>2, <2>3, <2>4, <2>5
  <1> DEFINE all == s \o new
  <1> HIDE DEF all
  <1>7. /\ follower' \in Followers /\ follower'.pc = "poll" /\ follower'.shown = all
        /\ follower'.offset = o + Len(new)
    <2>1. all \in Seq(Pieces) /\ o + Len(new) \in Nat
      BY <1>5, <1>6 DEF all
    <2>2. follower' = [follower EXCEPT !.pc = "poll", !.shown = all, !.offset = o + Len(new)]
      BY <1>1 DEF all
    <2> QED BY <1>2, <2>1, <2>2 DEF Followers
  <1>8. DOMAIN all = 1 .. Len(s) + Len(new)
    BY <1>6 DEF all
  <1>9. \A i \in DOMAIN all :
          \/ i \in DOMAIN s /\ all[i] = s[i]
          \/ i - Len(s) \in DOMAIN new /\ all[i] = new[i - Len(s)] /\ i \in Nat
    <2> TAKE i \in DOMAIN all
    <2>1. i \in 1 .. Len(s) + Len(new) /\ i \in Nat
      BY <1>5, <1>8
    <2>2. i \in 1 .. Len(s) \/ i > Len(s)
      BY <1>2, <2>1
    <2> QED BY <1>2, <1>6, <2>1, <2>2 DEF all
  <1>10. \A k \in DOMAIN new : k \in Nat /\ k >= 1
    BY <1>4
  <1>11. \A i \in DOMAIN s, k \in DOMAIN new : s[i] # new[k]
    <2> SUFFICES ASSUME NEW i \in DOMAIN s, NEW k \in DOMAIN new, s[i] = new[k]
                 PROVE  FALSE
      OBVIOUS
    <2>1. o + k \in DOMAIN kept /\ kept[o + k] = s[i]
      BY <1>4
    <2>2. o + k <= o
      BY <1>1, <2>1 DEF LogInv, ShownToOffset, kept, h, s, o
    <2> QED BY <1>2, <1>10, <2>2
  <1>12. \A i, j \in DOMAIN new : new[i] = new[j] => i = j
    <2> SUFFICES ASSUME NEW i \in DOMAIN new, NEW j \in DOMAIN new, new[i] = new[j]
                 PROVE  i = j
      OBVIOUS
    <2>1. o + i \in DOMAIN kept /\ o + j \in DOMAIN kept /\ kept[o + i] = kept[o + j]
      BY <1>4
    <2>2. o + i = o + j
      BY <1>2, <2>1 DEF LogInv, LoggedOnce, kept
    <2> QED BY <1>2, <1>10, <2>2
  <1>13. FollowNeverRepeats'
    <2> SUFFICES ASSUME NEW i \in DOMAIN all, NEW j \in DOMAIN all, all[i] = all[j]
                 PROVE  i = j
      BY <1>7 DEF FollowNeverRepeats
    <2>1. CASE i \in DOMAIN s /\ all[i] = s[i] /\ j \in DOMAIN s /\ all[j] = s[j]
      BY <2>1 DEF LogInv, FollowNeverRepeats, s
    <2>2. CASE /\ i - Len(s) \in DOMAIN new /\ all[i] = new[i - Len(s)] /\ i \in Nat
               /\ j - Len(s) \in DOMAIN new /\ all[j] = new[j - Len(s)] /\ j \in Nat
      <3>1. i - Len(s) = j - Len(s)
        BY <1>12, <2>2
      <3> QED BY <1>2, <2>2, <3>1
    <2> QED BY <1>9, <1>11, <2>1, <2>2
  <1>14. ShownWasThere'
    <2> SUFFICES ASSUME NEW i \in DOMAIN all
                 PROVE  \E f \in DOMAIN files : \E k \in DOMAIN files[f] : files[f][k] = all[i]
      BY <1>1, <1>7 DEF ShownWasThere
    <2>1. CASE i \in DOMAIN s /\ all[i] = s[i]
      BY <2>1 DEF LogInv, ShownWasThere, s
    <2>2. CASE i - Len(s) \in DOMAIN new /\ all[i] = new[i - Len(s)]
      BY <1>2, <1>4, <2>2 DEF kept
    <2> QED BY <1>9, <2>1, <2>2
  <1>15. ShownToOffset'
    <2> SUFFICES ASSUME NEW i \in DOMAIN all, NEW k \in DOMAIN kept, kept[k] = all[i]
                 PROVE  k <= o + Len(new) /\ o + Len(new) <= Len(kept)
      <3>1. files'[names'[0]] = kept /\ follower'.shown = all /\ follower'.offset = o + Len(new)
        BY <1>1, <1>7 DEF kept, h
      <3> QED BY <3>1 DEF ShownToOffset
    <2>1. CASE i \in DOMAIN s /\ all[i] = s[i]
      <3>1. k <= o /\ o <= Len(kept)
        BY <1>1, <2>1 DEF LogInv, ShownToOffset, kept, h, s, o
      <3>2. Len(new) = 0 \/ o + Len(new) = Len(kept)
        BY <1>4
      <3>3. Len(new) \in Nat /\ o \in Nat /\ k \in Nat /\ Len(kept) \in Nat
        BY <1>5
      <3> QED BY <3>1, <3>2, <3>3
    <2>2. CASE i - Len(s) \in DOMAIN new /\ all[i] = new[i - Len(s)]
      <3>1. Len(new) # 0
        BY <1>4, <2>2
      <3> QED BY <1>2, <1>4, <3>1
    <2> QED BY <1>9, <2>1, <2>2
  <1>16. follower'.pc # "off"
    BY <1>7
  <1> QED BY <1>1, <1>7, <1>13, <1>14, <1>15, <1>16, FollowerKeeps

\* The tasks that log, but for new files and pieces.
LEMMA TaskKeeps ==
  ASSUME LogInv, NEW e \in Exchanges,
         \/ BodyEnds(e) \/ BodyDropped(e) \/ LogFails(e) \/ StatLog(e)
         \/ RemoveOldest(e) \/ ShiftName(e) \/ OpenLog(e)
  PROVE  LogInv'
  <1> DEFINE x == body[e]
  <1>1. x \in BodyRecords /\ names \in [Names -> Nat] /\ Rotations \in Nat \ {0}
    BY RotationsAssumption DEF LogInv, LogTyped
  <1>2. ASSUME NEW pc \in BodyPCs \ Writing, BodyGoes(e, pc),
               \A k \in Writing : x.pc \in Past(k) => pc \in Past(k),
               UNCHANGED <<names, files, follower>>
        PROVE  LogInv'
    <2> DEFINE y == [x EXCEPT !.pc = pc]
    <2>1. y \in BodyRecords /\ y.pc = pc
      BY <1>1, <1>2 DEF BodyRecords
    <2>2. body' = [body EXCEPT ![e] = y]
      BY <1>2 DEF BodyGoes
    <2> HIDE DEF y
    <2> QED BY <1>1, <1>2, <2>1, <2>2, QuietLogStep
  <1>3. CASE BodyEnds(e)
    BY <1>2, <1>3 DEF BodyEnds, BodyPCs, Writing, Past
  <1>4. CASE BodyDropped(e)
    BY <1>2, <1>4 DEF BodyDropped, BodyPCs, Writing, Past
  <1>5. CASE LogFails(e)
    BY <1>2, <1>5 DEF LogFails, BodyPCs, Writing, Past
  <1>6. CASE StatLog(e)
    BY <1>2, <1>6 DEF StatLog, BodyPCs, Writing, Past
  <1>7. CASE RemoveOldest(e)
    <2> DEFINE y == [x EXCEPT !.pc = "shift", !.name = Rotations - 1]
    <2>1. /\ names' = [names EXCEPT ![Rotations] = 0] /\ body' = [body EXCEPT ![e] = y]
          /\ UNCHANGED <<files, follower>> /\ x.pc = "remove"
      BY <1>7 DEF RemoveOldest
    <2>2. Rotations - 1 \in Names
      BY <1>1 DEF Names
    <2>3. y \in BodyRecords /\ y.pc = "shift"
      BY <1>1, <2>2 DEF BodyRecords, BodyPCs
    <2> HIDE DEF y
    <2>4. names' \in [Names -> Nat] /\ names'[0] = names[0]
      BY <1>1, <2>1 DEF Names
    <2>5. \A k \in Writing : x.pc \notin Past(k)
      BY <2>1 DEF Past, Writing
    <2> QED BY <2>1, <2>3, <2>4, <2>5, QuietLogStep DEF Writing
  <1>8. CASE ShiftName(e)
    <2> DEFINE n == x.name
               y == IF n = 0 THEN [x EXCEPT !.pc = "open"] ELSE [x EXCEPT !.name = n - 1]
    <2>1. /\ names' = IF names[n] = 0 THEN names ELSE [names EXCEPT ![n + 1] = names[n], ![n] = 0]
          /\ body' = [body EXCEPT ![e] = y] /\ UNCHANGED <<files, follower>> /\ x.pc = "shift"
      BY <1>8 DEF ShiftName
    <2>2. y \in BodyRecords /\ y.pc \in {"open", "shift"} /\ n \in Names
      <3>1. n \in Names
        BY <1>1 DEF BodyRecords
      <3>2. n # 0 => n - 1 \in Names
        BY <1>1, <3>1 DEF Names
      <3> HIDE DEF n
      <3> QED BY <1>1, <2>1, <3>1, <3>2 DEF BodyRecords, BodyPCs
    <2> HIDE DEF y, n
    <2>3. names' \in [Names -> Nat] /\ names'[0] \in {0, names[0]}
      <3>1. n \in Nat /\ n + 1 # 0 /\ 0 \in Names
        BY <1>1, <2>2 DEF Names
      <3>2. names[n] \in Nat
        BY <1>1, <2>2
      <3> QED BY <1>1, <2>1, <2>2, <3>1, <3>2
    <2>4. \A k \in Writing : x.pc \notin Past(k)
      BY <2>1 DEF Past, Writing
    <2> QED BY <2>1, <2>2, <2>3, <2>4, QuietLogStep DEF Writing
  <1>9. CASE OpenLog(e)
    <2>1. CASE names[0] = 0
      BY <1>9, <2>1, NewFileKeeps DEF OpenLog
    <2>2. CASE names[0] # 0
      <3> DEFINE y == [x EXCEPT !.pc = "write", !.file = names[0]]
      <3>1. body' = [body EXCEPT ![e] = y] /\ UNCHANGED <<names, files, follower>> /\ x.pc = "open"
        BY <1>9, <2>2 DEF OpenLog
      <3>2. names[0] \in Nat /\ names[0] \in DOMAIN files
        BY <1>1, <2>2 DEF LogInv, LogTyped, Names
      <3>3. y \in BodyRecords /\ y.file = names[0]
        BY <1>1, <3>2 DEF BodyRecords, BodyPCs, Writing
      <3>4. \A k \in Writing : x.pc \notin Past(k)
        BY <3>1 DEF Past, Writing
      <3> HIDE DEF y
      <3> QED BY <1>1, <3>1, <3>2, <3>3, <3>4, QuietLogStep
    <2> QED BY <2>1, <2>2
  <1> QED BY <1>3, <1>4, <1>5, <1>6, <1>7, <1>8, <1>9

\* The follower.
LEMMA FollowKeeps ==
  ASSUME LogInv, ShowTail \/ StartFollow \/ PollLength \/ EmitNew
  PROVE  LogInv'
  <1> DEFINE h == names[0]
             s == follower.shown
  <1>1. follower \in Followers /\ s \in Seq(Pieces) /\ follower.offset \in Nat
    BY DEF LogInv, LogTyped, Followers
  <1>2. UNCHANGED <<body, names, files>>
    BY DEF ShowTail, StartFollow, PollLength, EmitNew
  <1>3. h # 0 => h \in DOMAIN files /\ files[h] \in Seq(Pieces) /\ Len(files[h]) \in Nat
                 /\ DOMAIN files[h] = 1 .. Len(files[h])
    <2>1. h # 0 => h \in DOMAIN files /\ files[h] \in Seq(Pieces)
      BY DEF LogInv, LogTyped
    <2> QED BY <2>1
  <1>4. ASSUME follower' = [follower EXCEPT !.pc = "ended"]
        PROVE  LogInv'
    <2>1. follower' \in Followers /\ follower'.pc = "ended" /\ follower'.shown = s
      BY <1>1, <1>4 DEF Followers
    <2>2. ShownWasThere' /\ FollowNeverRepeats'
      BY <1>2, <2>1 DEF LogInv, ShownWasThere, FollowNeverRepeats
    <2>3. ShownToOffset'
      BY <2>1 DEF ShownToOffset
    <2> QED BY <1>2, <2>1, <2>2, <2>3, FollowerKeeps
  <1>5. CASE h = 0
    BY <1>4, <1>5 DEF ShowTail, StartFollow, PollLength, EmitNew, Ends
  <1>6. CASE ShowTail /\ h # 0
    <2>1. follower' = [follower EXCEPT !.pc = "shown", !.shown = files[h]]
      BY <1>6 DEF ShowTail
    <2>2. follower' \in Followers /\ follower'.pc = "shown" /\ follower'.shown = files[h]
      BY <1>1, <1>3, <1>6, <2>1 DEF Followers
    <2>3. ShownWasThere'
      BY <1>2, <1>3, <1>6, <2>2 DEF ShownWasThere
    <2>4. FollowNeverRepeats'
      BY <1>2, <1>3, <1>6, <2>2 DEF LogInv, LoggedOnce, FollowNeverRepeats
    <2>5. ShownToOffset'
      BY <2>2 DEF ShownToOffset
    <2> QED BY <1>2, <2>2, <2>3, <2>4, <2>5, FollowerKeeps
  <1>7. CASE StartFollow /\ h # 0
    <2>1. follower' = [follower EXCEPT !.pc = "poll", !.offset = Len(files[h])]
      BY <1>7 DEF StartFollow
    <2>2. /\ follower' \in Followers /\ follower'.pc = "poll" /\ follower'.shown = s
          /\ follower'.offset = Len(files[h])
      BY <1>1, <1>3, <1>7, <2>1 DEF Followers
    <2>3. ShownWasThere' /\ FollowNeverRepeats'
      BY <1>2, <2>2 DEF LogInv, ShownWasThere, FollowNeverRepeats
    <2>4. ShownToOffset'
      BY <1>2, <1>3, <1>7, <2>2 DEF ShownToOffset
    <2> QED BY <1>2, <2>2, <2>3, <2>4, FollowerKeeps
  <1>8. CASE PollLength /\ h # 0
    <2> DEFINE n == Len(files[h])
               o == IF n < follower.offset THEN 0 ELSE follower.offset
    <2>1. follower.pc = "poll"
          /\ follower' = [follower EXCEPT !.pc = "read", !.length = n, !.offset = o]
      BY <1>8 DEF PollLength
    <2>2. /\ follower' \in Followers /\ follower'.pc = "read" /\ follower'.shown = s
          /\ follower'.offset = o
      BY <1>1, <1>3, <1>8, <2>1 DEF Followers
    <2>3. ShownWasThere' /\ FollowNeverRepeats'
      BY <1>2, <2>2 DEF LogInv, ShownWasThere, FollowNeverRepeats
    <2>4. ShownToOffset'
      <3> SUFFICES ASSUME NEW i \in DOMAIN s, NEW k \in DOMAIN files[h], files[h][k] = s[i]
                   PROVE  k <= o /\ o <= n
        BY <1>2, <2>2 DEF ShownToOffset
      <3>1. k <= follower.offset /\ follower.offset <= n
        BY <1>8, <2>1 DEF LogInv, ShownToOffset
      <3> QED BY <1>1, <1>3, <1>8, <3>1
    <2> QED BY <1>2, <2>2, <2>3, <2>4, FollowerKeeps
  <1>9. CASE EmitNew /\ h # 0
    BY <1>9, EmitKeeps
  <1> QED BY <1>5, <1>6, <1>7, <1>8, <1>9

LEMMA LogKeeps == LogInv /\ [LogNext]_logVars => LogInv'
  <1> SUFFICES ASSUME LogInv, [LogNext]_logVars PROVE LogInv'
    OBVIOUS
  <1>1. CASE UNCHANGED logVars
    BY <1>1 DEF logVars, LogInv, LogTyped, PiecesPast, LoggedOnce, ShownWasThere, ShownToOffset,
                FollowNeverRepeats
  <1>2. ASSUME NEW e \in Exchanges, WritePiece(e) PROVE LogInv'
    BY <1>2, PieceKeeps
  <1> QED BY <1>1, <1>2, TaskKeeps, FollowKeeps DEF LogNext

\* Every exchange leaves one record at most, although the end of its body, an
\* error and its drop all lead to one, and other tasks rotate the files while it
\* is written (core/request_logger.rs LoggingBody, append_request_log).
THEOREM RecordsAreSingle == LogSpec => []LoggedOnce
  <1>1. LogInv => LoggedOnce
    BY DEF LogInv
  <1> QED BY <1>1, LogStarts, LogKeeps, PTL DEF LogSpec

\* Following the log shows nothing twice, for any size and number of files
\* (cli/logs.rs follow_log).
THEOREM FollowingShowsOnce == LogSpec => []FollowNeverRepeats
  <1>1. LogInv => FollowNeverRepeats
    BY DEF LogInv
  <1> QED BY <1>1, LogStarts, LogKeeps, PTL DEF LogSpec

-----------------------------------------------------------------------------
(* The counters: the reports agree with the traffic.                       *)
\* What is still to be recorded of a hit ends in the two hits it is, and of a
\* miss there is no hit.
HitOf(layer) == IF layer = "l1a" THEN "l1a_hit" ELSE "l1b_hit"
Ahead(x) ==
  /\ x.todo \in Seq(Events) /\ Len(x.todo) >= 1
  /\ x.layer \in {"l1a", "l1b", "miss"}
  /\ x.layer # "miss" => \A i \in 1 .. Len(x.todo) :
       x.todo[i] = IF i = Len(x.todo) THEN "l1_hit"
                   ELSE IF i + 1 = Len(x.todo) THEN HitOf(x.layer) ELSE "l1a_miss"
  /\ x.layer = "miss" => \A i \in 1 .. Len(x.todo) :
       \/ x.todo[i] \in {"l1a_miss", "l1b_miss"}
       \/ i = Len(x.todo) /\ x.todo[i] = "l1_miss" /\ x.surface = "mcp"

Progresses == {"idle", "events", "below", "missed", "triage", "upstream", "answer",
               "answered", "dropped"}
SeenRecords == [pc : Progresses, surface : Surfaces \cup {"none", "gateway"}, todo : Seq(Events),
                layer : Layers \cup {"none"}, attempt : Nat]

\* The layer of a request on its way.
OnItsWay(x) ==
  /\ x.pc = "events" => Ahead(x)
  /\ x.pc \in {"below", "missed"} => x.layer = "miss"
  /\ x.pc \in {"triage", "upstream", "dropped"} => x.layer \in {"miss", "l2", "l3"}
  /\ x.pc \in {"answer", "answered"} => x.layer \in Layers

\* The requests whose hit of a cache, whose hit and whose miss have been recorded;
\* some of those that have missed have not recorded it.
HasHit(x, layer) ==
  /\ x.layer = layer
  /\ x.pc \in {"answer", "answered"} \/ (x.pc = "events" /\ Len(x.todo) = 1)
HasBeenHit(x)  == x.layer \in {"l1a", "l1b"} /\ x.pc \in {"answer", "answered"}
HasMissed(x) ==
  /\ x.layer \in {"miss", "l2", "l3"}
  /\ x.pc \in {"triage", "upstream", "answer", "answered", "dropped"}

Hits(layer) == {r \in Requests : HasHit(seen[r], layer)}
AllHits     == {r \in Requests : HasBeenHit(seen[r])}
Missed      == {r \in Requests : HasMissed(seen[r])}
Begun       == {r \in Requests : seen[r].pc # "idle"}
InLayer(l)  == {r \in Answered : seen[r].layer = l}

\* The calls that have failed and may be called retries yet.
Calls(x) == IF x.pc = "upstream" THEN x.attempt ELSE 0
Failed == {p \in Requests \X Nat : seen[p[1]].pc = "upstream" /\ p[2] \in 1 .. seen[p[1]].attempt}

CountsTyped ==
  /\ seen \in [Requests -> SeenRecords]
  /\ counts \in [total : Nat, deflected : Nat, layer : [Layers -> Nat]]
  /\ agent \in [requests : Nat, retries : Nat, errors : Nat, event : [Events -> Nat]]
  /\ health \in [pc : {"idle", "read", "told"}, total : Nat, deflected : Nat]
  /\ \A r \in Requests : OnItsWay(seen[r])
  /\ IsFiniteSet(Begun)

AnswersCounted ==
  /\ counts.total = Cardinality(Answered) /\ agent.requests = counts.total
  /\ \A l \in Layers : counts.layer[l] = Cardinality(InLayer(l))
  /\ counts.deflected + counts.layer["l3"] + counts.layer["miss"] = counts.total

EventsCounted ==
  /\ agent.event["l1a_hit"] = Cardinality(Hits("l1a"))
  /\ agent.event["l1b_hit"] = Cardinality(Hits("l1b"))
  /\ agent.event["l1_hit"] = Cardinality(AllHits)
  /\ agent.event["l1_miss"] <= Cardinality(Missed)

RetriesCounted ==
  IsFiniteSet(Failed) /\ agent.retries + Cardinality(Failed) <= agent.errors

HealthCounted ==
  /\ health.pc = "read" => health.total <= counts.total
  /\ health.pc = "told" =>
       health.total <= health.deflected + (counts.total - counts.deflected)

CountInv ==
  CountsTyped /\ AnswersCounted /\ EventsCounted /\ RetriesCounted /\ HealthCounted

\* A set that changes by one element at most.
LEMMA OneMoreOrLess ==
  ASSUME NEW S, NEW T, NEW r, IsFiniteSet(S), \A q : q # r => (q \in S <=> q \in T)
  PROVE  /\ IsFiniteSet(T) /\ Cardinality(S) \in Nat /\ Cardinality(T) \in Nat
         /\ (r \in S <=> r \in T) => Cardinality(T) = Cardinality(S)
         /\ r \notin S /\ r \in T => Cardinality(T) = Cardinality(S) + 1
         /\ r \in S /\ r \notin T => Cardinality(T) = Cardinality(S) - 1
  <1>1. Cardinality(S) \in Nat
    BY FS_CardinalityType
  <1>2. CASE r \in S <=> r \in T
    <2>1. T = S
      BY <1>2
    <2> QED BY <1>1, <1>2, <2>1
  <1>3. CASE r \notin S /\ r \in T
    <2>1. T = S \cup {r}
      BY <1>3
    <2>2. IsFiniteSet(T) /\ Cardinality(T) = Cardinality(S) + 1
      BY <1>3, <2>1, FS_AddElement
    <2> QED BY <1>1, <1>3, <2>2
  <1>4. CASE r \in S /\ r \notin T
    <2>1. T = S \ {r}
      BY <1>4
    <2>2. IsFiniteSet(T) /\ Cardinality(T) = Cardinality(S) - 1
      BY <1>4, <2>1, FS_RemoveElement
    <2>3. Cardinality(T) \in Nat
      BY <2>2, FS_CardinalityType
    <2> QED BY <1>1, <1>4, <2>2, <2>3
  <1> QED BY <1>2, <1>3, <1>4

\* The sets of requests are finite, for only finitely many have begun.
LEMMA SetsAreFinite ==
  ASSUME CountInv
  PROVE  /\ IsFiniteSet(Answered) /\ IsFiniteSet(AllHits) /\ IsFiniteSet(Missed)
         /\ \A l : IsFiniteSet(Hits(l)) /\ IsFiniteSet(InLayer(l))
  <1>1. IsFiniteSet(Begun)
    BY DEF CountInv, CountsTyped
  <1>2. /\ Answered \subseteq Begun /\ AllHits \subseteq Begun /\ Missed \subseteq Begun
        /\ \A l : Hits(l) \subseteq Begun /\ InLayer(l) \subseteq Begun
    BY DEF Answered, AllHits, Missed, Hits, InLayer, Begun, HasHit, HasBeenHit, HasMissed
  <1> QED BY <1>1, <1>2, FS_Subset

\* What a step of one request does to those sets.
LEMMA SetsChange ==
  ASSUME CountInv, NEW r \in Requests, NEW x \in SeenRecords, seen' = [seen EXCEPT ![r] = x]
  PROVE  /\ seen'[r] = x /\ \A q \in Requests : q # r => seen'[q] = seen[q]
         /\ seen' \in [Requests -> SeenRecords]
         /\ \A q : q # r => /\ q \in Answered <=> q \in Answered'
                            /\ q \in Begun <=> q \in Begun'
                            /\ q \in AllHits <=> q \in AllHits'
                            /\ q \in Missed <=> q \in Missed'
                            /\ q \in Hits("l1a") <=> q \in Hits("l1a")'
                            /\ q \in Hits("l1b") <=> q \in Hits("l1b")'
         /\ \A q, l : q # r => (q \in InLayer(l) <=> q \in InLayer(l)')
         /\ r \in Answered' <=> x.pc = "answered"
         /\ r \in Begun' <=> x.pc # "idle"
         /\ r \in AllHits' <=> HasBeenHit(x)
         /\ r \in Missed' <=> HasMissed(x)
         /\ r \in Hits("l1a")' <=> HasHit(x, "l1a")
         /\ r \in Hits("l1b")' <=> HasHit(x, "l1b")
         /\ \A l : r \in InLayer(l)' <=> x.pc = "answered" /\ x.layer = l
  <1>1. /\ seen'[r] = x /\ \A q \in Requests : q # r => seen'[q] = seen[q]
        /\ seen' \in [Requests -> SeenRecords]
    BY DEF CountInv, CountsTyped
  <1> QED BY <1>1 DEF Answered, Begun, AllHits, Missed, Hits, InLayer

\* A step of one request keeps the types.
LEMMA TypesKeep ==
  ASSUME CountInv, NEW r \in Requests, NEW x \in SeenRecords, seen' = [seen EXCEPT ![r] = x],
         OnItsWay(x),
         counts' \in [total : Nat, deflected : Nat, layer : [Layers -> Nat]],
         agent' \in [requests : Nat, retries : Nat, errors : Nat, event : [Events -> Nat]],
         health' = health
  PROVE  CountsTyped'
  <1>1. /\ seen'[r] = x /\ \A q \in Requests : q # r => seen'[q] = seen[q]
        /\ seen' \in [Requests -> SeenRecords]
        /\ \A q : q # r => (q \in Begun <=> q \in Begun')
    BY SetsChange
  <1>2. IsFiniteSet(Begun)
    BY DEF CountInv, CountsTyped
  <1>3. IsFiniteSet(Begun')
    BY <1>1, <1>2, OneMoreOrLess
  <1> QED BY <1>1, <1>3 DEF CountInv, CountsTyped

\* A step without an answer keeps what is said of the answers.
LEMMA AnswersKeep ==
  ASSUME CountInv, NEW r \in Requests, NEW x \in SeenRecords, seen' = [seen EXCEPT ![r] = x],
         seen[r].pc # "answered", x.pc # "answered",
         counts' = counts, agent'.requests = agent.requests
  PROVE  AnswersCounted'
  <1>1. /\ \A q : q # r => (q \in Answered <=> q \in Answered')
        /\ \A q, l : q # r => (q \in InLayer(l) <=> q \in InLayer(l)')
        /\ r \notin Answered' /\ \A l : r \notin InLayer(l)'
    BY SetsChange
  <1>2. r \notin Answered /\ \A l : r \notin InLayer(l)
    BY DEF Answered, InLayer
  <1>3. Cardinality(Answered') = Cardinality(Answered)
    BY <1>1, <1>2, SetsAreFinite, OneMoreOrLess
  <1>4. ASSUME NEW l \in Layers
        PROVE  Cardinality(InLayer(l)') = Cardinality(InLayer(l))
    <2>1. IsFiniteSet(InLayer(l)) /\ r \notin InLayer(l) /\ r \notin InLayer(l)'
      BY <1>1, <1>2, SetsAreFinite
    <2>2. \A q : q # r => (q \in InLayer(l) <=> q \in InLayer(l)')
      BY <1>1
    <2> QED BY <2>1, <2>2, OneMoreOrLess
  <1> QED BY <1>3, <1>4 DEF CountInv, AnswersCounted

\* What a step of a request does to the numbers of hits and misses.
Gains(b, c) == IF c /\ ~b THEN 1 ELSE 0

LEMMA EventsChange ==
  ASSUME CountInv, NEW r \in Requests, NEW x \in SeenRecords, seen' = [seen EXCEPT ![r] = x],
         \A l \in {"l1a", "l1b"} : HasHit(seen[r], l) => HasHit(x, l),
         HasBeenHit(seen[r]) => HasBeenHit(x), HasMissed(seen[r]) => HasMissed(x)
  PROVE  /\ Cardinality(Hits("l1a")) \in Nat /\ Cardinality(Hits("l1b")) \in Nat
         /\ Cardinality(AllHits) \in Nat /\ Cardinality(Missed) \in Nat
         /\ Cardinality(Hits("l1a")') =
              Cardinality(Hits("l1a")) + Gains(HasHit(seen[r], "l1a"), HasHit(x, "l1a"))
         /\ Cardinality(Hits("l1b")') =
              Cardinality(Hits("l1b")) + Gains(HasHit(seen[r], "l1b"), HasHit(x, "l1b"))
         /\ Cardinality(AllHits') =
              Cardinality(AllHits) + Gains(HasBeenHit(seen[r]), HasBeenHit(x))
         /\ Cardinality(Missed') =
              Cardinality(Missed) + Gains(HasMissed(seen[r]), HasMissed(x))
  <1>1. /\ \A q : q # r => /\ q \in AllHits <=> q \in AllHits'
                           /\ q \in Missed <=> q \in Missed'
                           /\ q \in Hits("l1a") <=> q \in Hits("l1a")'
                           /\ q \in Hits("l1b") <=> q \in Hits("l1b")'
        /\ r \in AllHits' <=> HasBeenHit(x)
        /\ r \in Missed' <=> HasMissed(x)
        /\ r \in Hits("l1a")' <=> HasHit(x, "l1a")
        /\ r \in Hits("l1b")' <=> HasHit(x, "l1b")
    BY SetsChange
  <1>2. /\ r \in AllHits <=> HasBeenHit(seen[r])
        /\ r \in Missed <=> HasMissed(seen[r])
        /\ r \in Hits("l1a") <=> HasHit(seen[r], "l1a")
        /\ r \in Hits("l1b") <=> HasHit(seen[r], "l1b")
    BY DEF AllHits, Missed, Hits
  <1>3. /\ IsFiniteSet(Hits("l1a")) /\ IsFiniteSet(Hits("l1b"))
        /\ IsFiniteSet(AllHits) /\ IsFiniteSet(Missed)
    BY SetsAreFinite
  <1>4. ASSUME NEW S, NEW T, IsFiniteSet(S), \A q : q # r => (q \in S <=> q \in T),
               r \in S => r \in T
        PROVE  Cardinality(S) \in Nat /\
               Cardinality(T) = Cardinality(S) + Gains(r \in S, r \in T)
    <2>1. /\ Cardinality(S) \in Nat
          /\ (r \in S <=> r \in T) => Cardinality(T) = Cardinality(S)
          /\ r \notin S /\ r \in T => Cardinality(T) = Cardinality(S) + 1
      BY <1>4, OneMoreOrLess
    <2> QED BY <1>4, <2>1 DEF Gains
  <1>5. Cardinality(Hits("l1a")) \in Nat /\ Cardinality(Hits("l1a")') =
          Cardinality(Hits("l1a")) + Gains(r \in Hits("l1a"), r \in Hits("l1a")')
    BY <1>1, <1>2, <1>3, <1>4
  <1>6. Cardinality(Hits("l1b")) \in Nat /\ Cardinality(Hits("l1b")') =
          Cardinality(Hits("l1b")) + Gains(r \in Hits("l1b"), r \in Hits("l1b")')
    BY <1>1, <1>2, <1>3, <1>4
  <1>7. Cardinality(AllHits) \in Nat /\ Cardinality(AllHits') =
          Cardinality(AllHits) + Gains(r \in AllHits, r \in AllHits')
    BY <1>1, <1>2, <1>3, <1>4
  <1>8. Cardinality(Missed) \in Nat /\ Cardinality(Missed') =
          Cardinality(Missed) + Gains(r \in Missed, r \in Missed')
    BY <1>1, <1>2, <1>3, <1>4
  <1> QED BY <1>1, <1>2, <1>5, <1>6, <1>7, <1>8 DEF Gains

\* A step that counts no event: whoever has missed need not have counted it yet.
LEMMA EventsKeep ==
  ASSUME CountInv, NEW r \in Requests, NEW x \in SeenRecords, seen' = [seen EXCEPT ![r] = x],
         \A l \in {"l1a", "l1b"} : HasHit(seen[r], l) <=> HasHit(x, l),
         HasBeenHit(seen[r]) <=> HasBeenHit(x), HasMissed(seen[r]) => HasMissed(x),
         agent'.event = agent.event
  PROVE  EventsCounted'
  <1>1. /\ Cardinality(Hits("l1a")) \in Nat /\ Cardinality(Hits("l1b")) \in Nat
        /\ Cardinality(AllHits) \in Nat /\ Cardinality(Missed) \in Nat
        /\ Cardinality(Hits("l1a")') = Cardinality(Hits("l1a")) + 0
        /\ Cardinality(Hits("l1b")') = Cardinality(Hits("l1b")) + 0
        /\ Cardinality(AllHits') = Cardinality(AllHits) + 0
        /\ \/ Cardinality(Missed') = Cardinality(Missed) + 0
           \/ Cardinality(Missed') = Cardinality(Missed) + 1
    BY EventsChange DEF Gains
  <1>2. agent.event \in [Events -> Nat] /\ "l1_miss" \in Events
    BY DEF CountInv, CountsTyped, Events
  <1> QED BY <1>1, <1>2 DEF CountInv, EventsCounted

\* A step of a request at which no event and no answer is counted.
LEMMA NothingCounted ==
  ASSUME CountInv, NEW r \in Requests, NEW x \in SeenRecords, seen' = [seen EXCEPT ![r] = x],
         OnItsWay(x), seen[r].pc # "answered", x.pc # "answered",
         \A l \in {"l1a", "l1b"} : HasHit(seen[r], l) <=> HasHit(x, l),
         HasBeenHit(seen[r]) <=> HasBeenHit(x), HasMissed(seen[r]) => HasMissed(x),
         UNCHANGED <<counts, health>>,
         agent' \in [requests : Nat, retries : Nat, errors : Nat, event : [Events -> Nat]],
         agent'.requests = agent.requests, agent'.event = agent.event,
         RetriesCounted'
  PROVE  CountInv'
  <1>1. counts' \in [total : Nat, deflected : Nat, layer : [Layers -> Nat]]
    BY DEF CountInv, CountsTyped
  <1>2. CountsTyped'
    BY <1>1, TypesKeep
  <1>3. AnswersCounted'
    BY AnswersKeep
  <1>4. EventsCounted'
    BY EventsKeep
  <1> QED BY <1>2, <1>3, <1>4 DEF CountInv, HealthCounted

\* The failed calls of one request.
Own(r, n) == {r} \X (1 .. n)

LEMMA OwnCalls ==
  ASSUME NEW r, NEW n \in Nat
  PROVE  IsFiniteSet(Own(r, n)) /\ Cardinality(Own(r, n)) = n
  <1> DEFINE f == [i \in 1 .. n |-> <<r, i>>]
  <1>1. f \in Bijection(1 .. n, Own(r, n))
    <2>1. f \in [1 .. n -> Own(r, n)]
      BY DEF Own
    <2>2. \A i, j \in 1 .. n : f[i] = f[j] => i = j
      OBVIOUS
    <2>3. \A p \in Own(r, n) : \E i \in 1 .. n : f[i] = p
      <3> SUFFICES ASSUME NEW p \in Own(r, n) PROVE \E i \in 1 .. n : f[i] = p
        OBVIOUS
      <3>1. p[2] \in 1 .. n /\ p = <<r, p[2]>>
        BY DEF Own
      <3> QED BY <3>1
    <2> HIDE DEF f
    <2> QED BY <2>1, <2>2, <2>3 DEF Bijection, Injection, Surjection, IsInjective
  <1>2. ExistsBijection(1 .. n, Own(r, n))
    BY <1>1 DEF ExistsBijection
  <1> QED BY <1>2, FS_CountingElements, FS_NatBijection

\* The failed calls of the others stay.
LEMMA FailedChanges ==
  ASSUME CountInv, NEW r \in Requests, NEW x \in SeenRecords, seen' = [seen EXCEPT ![r] = x]
  PROVE  /\ IsFiniteSet(Failed') /\ Cardinality(Failed) \in Nat
         /\ Calls(seen[r]) \in Nat /\ Calls(x) \in Nat
         /\ Cardinality(Failed') = Cardinality(Failed) - Calls(seen[r]) + Calls(x)
  <1> DEFINE before == Calls(seen[r])
             after  == Calls(x)
             rest == {p \in Failed : p[1] # r}
  <1>1. before \in Nat /\ after \in Nat /\ IsFiniteSet(Failed)
    BY DEF CountInv, CountsTyped, SeenRecords, RetriesCounted, Calls
  <1>2. Failed = rest \cup Own(r, before) /\ rest \cap Own(r, before) = {}
    BY DEF Failed, Own, Calls
  <1>3. seen'[r] = x /\ \A q \in Requests : q # r => seen'[q] = seen[q]
    BY SetsChange
  <1>4. Failed' = rest \cup Own(r, after) /\ rest \cap Own(r, after) = {}
    BY <1>3 DEF Failed, Own, Calls
  <1>5. IsFiniteSet(rest)
    BY <1>1, FS_Subset
  <1>6. \A n \in Nat : rest \cap Own(r, n) = {} =>
          /\ IsFiniteSet(rest \cup Own(r, n))
          /\ Cardinality(rest \cup Own(r, n)) = Cardinality(rest) + n
    <2> SUFFICES ASSUME NEW n \in Nat, rest \cap Own(r, n) = {}
                 PROVE  /\ IsFiniteSet(rest \cup Own(r, n))
                        /\ Cardinality(rest \cup Own(r, n)) = Cardinality(rest) + n
      OBVIOUS
    <2>1. IsFiniteSet(Own(r, n)) /\ Cardinality(Own(r, n)) = n
      BY OwnCalls
    <2>2. Cardinality(rest) \in Nat /\ Cardinality({}) = 0
      BY <1>5, FS_CardinalityType, FS_EmptySet
    <2>3. /\ IsFiniteSet(rest \cup Own(r, n))
          /\ Cardinality(rest \cup Own(r, n)) =
               Cardinality(rest) + Cardinality(Own(r, n)) - Cardinality(rest \cap Own(r, n))
      BY <1>5, <2>1, FS_Union
    <2>4. Cardinality(rest \cap Own(r, n)) = 0
      BY <2>2
    <2>5. /\ IsFiniteSet(rest \cup Own(r, n))
          /\ Cardinality(rest \cup Own(r, n)) = Cardinality(rest) + n - 0
      BY <2>1, <2>3, <2>4
    <2> HIDE DEF rest
    <2> QED BY <2>2, <2>5
  <1>7. Cardinality(rest) \in Nat
    BY <1>5, FS_CardinalityType
  <1>8. Cardinality(Failed) = Cardinality(rest) + before
    BY <1>1, <1>2, <1>6
  <1>9. IsFiniteSet(Failed') /\ Cardinality(Failed') = Cardinality(rest) + after
    BY <1>1, <1>4, <1>6
  <1> HIDE DEF before, after, rest
  <1>10. /\ IsFiniteSet(Failed') /\ Cardinality(Failed) \in Nat
         /\ Cardinality(Failed') = Cardinality(Failed) - before + after
    BY <1>1, <1>7, <1>8, <1>9
  <1> QED BY <1>1, <1>10 DEF before, after

LEMMA CountStarts == VisibilityInit => CountInv
  <1> SUFFICES ASSUME VisibilityInit PROVE CountInv
    OBVIOUS
  <1>1. \A r \in Requests : seen[r] = [pc |-> "idle", surface |-> "none", todo |-> <<>>,
                                       layer |-> "none", attempt |-> 0]
    BY DEF VisibilityInit
  <1>2. /\ Begun = {} /\ Answered = {} /\ AllHits = {} /\ Missed = {} /\ Failed = {}
        /\ Hits("l1a") = {} /\ Hits("l1b") = {}
        /\ \A l : InLayer(l) = {}
    BY <1>1 DEF Begun, Answered, AllHits, Missed, Failed, Hits, InLayer, HasHit, HasBeenHit,
         HasMissed
  <1>3. IsFiniteSet({}) /\ Cardinality({}) = 0
    BY FS_EmptySet
  <1>4. CountsTyped
    <2>1. \A r \in Requests : seen[r] \in SeenRecords /\ OnItsWay(seen[r])
      <3> SUFFICES ASSUME NEW r \in Requests PROVE seen[r] \in SeenRecords /\ OnItsWay(seen[r])
        OBVIOUS
      <3>1. seen[r].pc = "idle"
        BY <1>1
      <3>2. OnItsWay(seen[r])
        BY <3>1 DEF OnItsWay
      <3>3. <<>> \in Seq(Events)
        OBVIOUS
      <3>4. seen[r] \in SeenRecords
        <4>1. seen[r] = [pc |-> "idle", surface |-> "none", todo |-> <<>>, layer |-> "none",
                         attempt |-> 0]
          BY <1>1
        <4> QED BY <3>3, <4>1 DEF SeenRecords, Progresses
      <3> QED BY <3>2, <3>4
    <2> QED BY <1>2, <1>3, <2>1 DEF VisibilityInit, CountsTyped, NoLayers
  <1>5. AnswersCounted
    <2>1. /\ counts.total = 0 /\ counts.deflected = 0 /\ agent.requests = 0
          /\ \A l \in Layers : counts.layer[l] = 0
      BY DEF VisibilityInit, NoLayers
    <2>2. counts.deflected + counts.layer["l3"] + counts.layer["miss"] = counts.total
      BY <2>1 DEF Layers
    <2>3. Cardinality(Answered) = 0 /\ \A l : Cardinality(InLayer(l)) = 0
      BY <1>2, <1>3
    <2> QED BY <2>1, <2>2, <2>3 DEF AnswersCounted
  <1>6. EventsCounted
    <2>1. \A e \in Events : agent.event[e] = 0
      BY DEF VisibilityInit
    <2>2. {"l1a_hit", "l1b_hit", "l1_hit", "l1_miss"} \subseteq Events
      BY DEF Events
    <2>3. /\ agent.event["l1a_hit"] = 0 /\ agent.event["l1b_hit"] = 0
          /\ agent.event["l1_hit"] = 0 /\ agent.event["l1_miss"] = 0
      BY <2>1, <2>2
    <2>4. /\ Cardinality(Hits("l1a")) = 0 /\ Cardinality(Hits("l1b")) = 0
          /\ Cardinality(AllHits) = 0 /\ Cardinality(Missed) = 0
      BY <1>2, <1>3
    <2>5. agent.event["l1_miss"] <= Cardinality(Missed)
      <3>1. \A a, b \in Nat : a = 0 /\ b = 0 => a <= b
        OBVIOUS
      <3>2. agent.event["l1_miss"] \in Nat /\ Cardinality(Missed) \in Nat
        BY <2>3, <2>4
      <3> QED BY ONLY <2>3, <2>4, <3>1, <3>2
    <2> QED BY <2>3, <2>4, <2>5, Zenon DEF EventsCounted
  <1>7. RetriesCounted
    BY <1>2, <1>3 DEF VisibilityInit, RetriesCounted
  <1>8. HealthCounted
    BY DEF VisibilityInit, HealthCounted
  <1> QED BY <1>4, <1>5, <1>8, <1>6, <1>7 DEF CountInv

\* The errors and retries of a step.
LEMMA RetriesKeep ==
  ASSUME CountInv, NEW r \in Requests, NEW x \in SeenRecords, seen' = [seen EXCEPT ![r] = x],
         NEW errors \in Nat, NEW retries \in Nat,
         agent'.errors = agent.errors + errors, agent'.retries = agent.retries + retries,
         retries + Calls(x) <= Calls(seen[r]) + errors
  PROVE  RetriesCounted'
  <1>1. /\ IsFiniteSet(Failed') /\ Cardinality(Failed) \in Nat
        /\ Calls(seen[r]) \in Nat /\ Calls(x) \in Nat
        /\ Cardinality(Failed') = Cardinality(Failed) - Calls(seen[r]) + Calls(x)
    BY FailedChanges
  <1>2. agent.errors \in Nat /\ agent.retries \in Nat
    BY DEF CountInv, CountsTyped
  <1>3. retries + Calls(x) <= Calls(seen[r]) + errors
    OBVIOUS
  <1>4. agent.retries + Cardinality(Failed) <= agent.errors
    BY DEF CountInv, RetriesCounted
  <1>5. agent.retries + retries + Cardinality(Failed') <= agent.errors + errors
    BY <1>1, <1>2, <1>3, <1>4
  <1> QED BY <1>1, <1>5 DEF RetriesCounted

\* A request that is not on its way to an event, and no answer either.
LEMMA QuietProgress ==
  ASSUME CountInv, NEW r \in Requests, NEW x \in SeenRecords, seen' = [seen EXCEPT ![r] = x],
         OnItsWay(x),
         seen[r].pc \in {"idle", "below", "triage", "upstream"},
         x.pc \in {"events", "below", "missed", "triage", "upstream", "answer", "dropped"},
         x.pc = "events" => Len(x.todo) # 1 \/ x.layer = "miss",
         x.pc = "answer" => x.layer \notin {"l1a", "l1b"},
         seen[r].pc \in {"triage", "upstream"} => HasMissed(x),
         UNCHANGED <<counts, health>>,
         NEW errors \in Nat, NEW retries \in Nat,
         agent' = [agent EXCEPT !.errors = @ + errors, !.retries = @ + retries],
         retries + Calls(x) <= Calls(seen[r]) + errors
  PROVE  CountInv'
  <1>1. OnItsWay(seen[r]) /\ agent.errors \in Nat /\ agent.retries \in Nat
        /\ agent \in [requests : Nat, retries : Nat, errors : Nat, event : [Events -> Nat]]
    BY DEF CountInv, CountsTyped
  <1>2. /\ agent' \in [requests : Nat, retries : Nat, errors : Nat, event : [Events -> Nat]]
        /\ agent'.requests = agent.requests /\ agent'.event = agent.event
        /\ agent'.errors = agent.errors + errors /\ agent'.retries = agent.retries + retries
    <2>1. agent.errors + errors \in Nat /\ agent.retries + retries \in Nat
      BY <1>1
    <2> QED BY <1>1, <2>1
  <1>3. RetriesCounted'
    BY <1>2, RetriesKeep
  <1>4. /\ \A l \in {"l1a", "l1b"} : ~HasHit(x, l) /\ ~HasHit(seen[r], l)
        /\ ~HasBeenHit(x) /\ ~HasBeenHit(seen[r])
    BY DEF HasHit, HasBeenHit
  <1>5. HasMissed(seen[r]) => HasMissed(x)
    BY DEF HasMissed
  <1> QED BY <1>2, <1>3, <1>4, <1>5, NothingCounted

\* The counters of a step that adds to one of the two, or to neither.
LEMMA AgentAdds ==
  ASSUME CountInv
  PROVE  /\ agent = [agent EXCEPT !.errors = @ + 0, !.retries = @ + 0]
         /\ \A n \in Nat : [agent EXCEPT !.errors = @ + n] =
                             [agent EXCEPT !.errors = @ + n, !.retries = @ + 0]
         /\ \A n \in Nat : [agent EXCEPT !.retries = @ + n] =
                             [agent EXCEPT !.errors = @ + 0, !.retries = @ + n]
  <1>1. /\ agent \in [requests : Nat, retries : Nat, errors : Nat, event : [Events -> Nat]]
        /\ agent.errors \in Nat /\ agent.retries \in Nat
    BY DEF CountInv, CountsTyped
  <1>2. agent.errors + 0 = agent.errors /\ agent.retries + 0 = agent.retries
    BY <1>1
  <1> QED BY <1>1, <1>2

LEMMA ArrivesKeeps == ASSUME CountInv, NEW r \in Requests, Arrives(r) PROVE CountInv'
  <1>1. PICK s, pc, events, layer :
          /\ s \in Surfaces /\ pc \in {"answer", "upstream", "events"}
          /\ Goes(r, pc, s, events, layer)
          /\ \/ pc # "events" /\ events = <<>> /\ layer \in {"l0", "l3"}
                                            /\ (pc = "upstream" => layer = "l3")
             \/ pc = "events" /\ events = <<"l1a_miss">> /\ layer = "miss"
             \/ pc = "events" /\ events = <<"l1a_hit", "l1_hit">> /\ layer = "l1a"
             \/ pc = "events" /\ events = L1bEvents /\ layer = "l1b"
             \/ pc = "events" /\ events = MissEvents(s) /\ layer = "miss"
    BY DEF Arrives
  <1> DEFINE x == [pc |-> pc, surface |-> s, todo |-> events, layer |-> layer, attempt |-> 0]
  <1>2. events \in Seq(Events) /\ layer \in Layers
    <2>1. <<>> \in Seq(Events)
      OBVIOUS
    <2>2. L1bEvents \in Seq(Events)
      BY DEF L1bEvents, Events
    <2>3. MissEvents(s) \in Seq(Events)
      <3>1. <<"l1a_miss", "l1b_miss", "l1_miss">> \in Seq(Events)
        BY DEF Events
      <3>2. <<"l1a_miss", "l1b_miss">> \in Seq(Events)
        BY DEF Events
      <3> QED BY <3>1, <3>2 DEF MissEvents
    <2>4. <<"l1a_miss">> \in Seq(Events) /\ <<"l1a_hit", "l1_hit">> \in Seq(Events)
      BY DEF Events
    <2>5. layer \in Layers
      BY <1>1 DEF Layers
    <2> QED BY <1>1, <2>1, <2>4, <2>5, <2>2, <2>3
  <1>3. x \in SeenRecords
    BY <1>1, <1>2 DEF SeenRecords, Progresses
  <1>4. pc = "events" => Ahead(x) /\ (Len(events) # 1 \/ layer = "miss")
    <2>1. CASE events = <<"l1a_miss">> /\ layer = "miss" /\ pc = "events"
      BY <1>2, <2>1 DEF Ahead
    <2>2. CASE events = <<"l1a_hit", "l1_hit">> /\ layer = "l1a" /\ pc = "events"
      BY <1>2, <2>2 DEF Ahead, HitOf
    <2>3. CASE events = L1bEvents /\ layer = "l1b" /\ pc = "events"
      BY <1>2, <2>3 DEF Ahead, HitOf, L1bEvents
    <2>4. CASE events = MissEvents(s) /\ layer = "miss" /\ pc = "events"
      BY <1>2, <2>4 DEF Ahead, MissEvents
    <2> QED BY <1>1, <2>1, <2>2, <2>3, <2>4
  <1>5. OnItsWay(x)
    BY <1>1, <1>2, <1>4 DEF OnItsWay
  <1>6. seen' = [seen EXCEPT ![r] = x] /\ seen[r].pc = "idle"
    BY <1>1 DEF Goes, Arrives
  <1>7. agent' = [agent EXCEPT !.errors = @ + 0, !.retries = @ + 0] /\ UNCHANGED <<counts, health>>
    BY AgentAdds DEF Arrives
  <1>8. /\ x.pc \in {"events", "upstream", "answer"}
        /\ x.pc = "events" => Len(x.todo) # 1 \/ x.layer = "miss"
        /\ x.pc = "answer" => x.layer \notin {"l1a", "l1b"}
        /\ 0 + Calls(x) <= Calls(seen[r]) + 0
    BY <1>1, <1>4, <1>6 DEF Calls
  <1> HIDE DEF x
  <1> QED BY <1>3, <1>5, <1>6, <1>7, <1>8, QuietProgress

LEMMA GoesBelowKeeps == ASSUME CountInv, NEW r \in Requests, GoesBelow(r) PROVE CountInv'
  <1>1. seen[r] \in SeenRecords /\ seen[r].surface \in Surfaces \cup {"none", "gateway"}
    BY DEF CountInv, CountsTyped, SeenRecords
  <1>2. agent' = [agent EXCEPT !.errors = @ + 0, !.retries = @ + 0] /\ UNCHANGED <<counts, health>>
    BY AgentAdds DEF GoesBelow
  <1>3. CASE seen[r].surface = "proxy" /\ Goes(r, "answer", "proxy", <<>>, "l2")
    <2> DEFINE x == [pc |-> "answer", surface |-> "proxy", todo |-> <<>>, layer |-> "l2",
                     attempt |-> 0]
    <2>1. x \in SeenRecords /\ OnItsWay(x)
      BY <1>1, <1>3 DEF SeenRecords, OnItsWay, Progresses, Layers
    <2>2. seen' = [seen EXCEPT ![r] = x] /\ seen[r].pc = "below"
      BY <1>3 DEF Goes, GoesBelow
    <2>3. x.pc = "answer" /\ x.layer = "l2" /\ 0 + Calls(x) <= Calls(seen[r]) + 0
      BY <2>2 DEF Calls
    <2> HIDE DEF x
    <2> QED BY <1>2, <2>1, <2>2, <2>3, QuietProgress
  <1>4. CASE Goes(r, "missed", seen[r].surface, <<"l1_miss">>, "miss")
    <2> DEFINE x == [pc |-> "missed", surface |-> seen[r].surface, todo |-> <<"l1_miss">>,
                     layer |-> "miss", attempt |-> 0]
    <2>1. x \in SeenRecords /\ OnItsWay(x)
      BY <1>1 DEF SeenRecords, OnItsWay, Progresses, Layers, Events
    <2>2. seen' = [seen EXCEPT ![r] = x] /\ seen[r].pc = "below"
      BY <1>4 DEF Goes, GoesBelow
    <2>3. x.pc = "missed" /\ 0 + Calls(x) <= Calls(seen[r]) + 0
      BY <2>2 DEF Calls
    <2> HIDE DEF x
    <2> QED BY <1>2, <2>1, <2>2, <2>3, QuietProgress
  <1> QED BY <1>3, <1>4 DEF GoesBelow

LEMMA TriageKeeps == ASSUME CountInv, NEW r \in Requests, Triage(r) PROVE CountInv'
  <1>1. PICK n \in {0, 1}, pc \in {"upstream", "answer"}, layer \in {"l2", "l3"} :
          Failures(n) /\ Goes(r, pc, "gateway", <<>>, layer)
    BY DEF Triage
  <1> DEFINE x == [pc |-> pc, surface |-> "gateway", todo |-> <<>>, layer |-> layer, attempt |-> 0]
  <1>2. x \in SeenRecords /\ OnItsWay(x) /\ HasMissed(x)
    BY DEF SeenRecords, OnItsWay, HasMissed, Progresses, Layers
  <1>3. seen' = [seen EXCEPT ![r] = x] /\ seen[r].pc = "triage" /\ UNCHANGED <<counts, health>>
    BY <1>1 DEF Goes, Triage
  <1>4. agent' = [agent EXCEPT !.errors = @ + n, !.retries = @ + 0] /\ n \in Nat
    <2>1. n \in Nat /\ agent' = [agent EXCEPT !.errors = @ + n]
      BY <1>1 DEF Failures
    <2> QED BY <2>1, AgentAdds
  <1>5. /\ x.pc \in {"upstream", "answer"} /\ x.layer \in {"l2", "l3"}
        /\ 0 + Calls(x) <= Calls(seen[r]) + n
    BY <1>3 DEF Calls
  <1> HIDE DEF x
  <1> QED BY <1>2, <1>3, <1>4, <1>5, QuietProgress

LEMMA DroppedKeeps == ASSUME CountInv, NEW r \in Requests, Dropped(r) PROVE CountInv'
  <1> DEFINE x == [seen[r] EXCEPT !.pc = "dropped"]
  <1>1. seen \in [Requests -> SeenRecords] /\ seen[r] \in SeenRecords /\ OnItsWay(seen[r])
    BY DEF CountInv, CountsTyped
  <1>2. /\ x \in SeenRecords /\ x.pc = "dropped" /\ x.layer = seen[r].layer
        /\ seen[r].pc \in {"below", "triage", "upstream"} /\ seen[r].attempt \in Nat
    BY <1>1 DEF SeenRecords, Progresses, Dropped
  <1>3. seen' = [seen EXCEPT ![r] = x] /\ UNCHANGED <<counts, health>>
    BY <1>1 DEF Dropped
  <1>4. agent' = [agent EXCEPT !.errors = @ + 0, !.retries = @ + 0]
    BY AgentAdds DEF Dropped
  <1> HIDE DEF x
  <1>5. OnItsWay(x) /\ HasMissed(x)
    BY <1>1, <1>2 DEF OnItsWay, HasMissed
  <1>6. 0 + Calls(x) <= Calls(seen[r]) + 0
    BY <1>2 DEF Calls
  <1> QED BY <1>2, <1>3, <1>4, <1>5, <1>6, QuietProgress

LEMMA UpstreamTryKeeps == ASSUME CountInv, NEW r \in Requests, UpstreamTry(r) PROVE CountInv'
  <1> DEFINE n == seen[r].attempt + 1
             again == [seen[r] EXCEPT !.attempt = n]
             ends  == [again EXCEPT !.pc = "answer"]
  <1>1. /\ seen[r] \in SeenRecords /\ OnItsWay(seen[r]) /\ seen[r].pc = "upstream"
        /\ seen[r].attempt \in Nat /\ UNCHANGED <<counts, health>>
    BY DEF CountInv, CountsTyped, SeenRecords, UpstreamTry
  <1>2. /\ ends \in SeenRecords /\ ends.pc = "answer" /\ ends.layer = seen[r].layer
        /\ again \in SeenRecords /\ again.pc = "upstream" /\ again.layer = seen[r].layer
        /\ again.attempt = n
    <2>1. /\ again \in SeenRecords /\ again.pc = "upstream" /\ again.layer = seen[r].layer
          /\ again.attempt = n
      BY <1>1 DEF SeenRecords
    <2> HIDE DEF n, again
    <2> QED BY <2>1 DEF SeenRecords, Progresses
  <1> HIDE DEF again, ends
  <1>3. ends # again /\ n - 1 \in Nat /\ n - 1 = seen[r].attempt /\ n \in Nat
    BY <1>1, <1>2
  <1> HIDE DEF n
  <1>4. PICK errors \in Nat, retries \in Nat, x \in {again, ends} :
          /\ agent' = [agent EXCEPT !.errors = @ + errors, !.retries = @ + retries]
          /\ seen' = [seen EXCEPT ![r] = x]
          /\ retries + (IF x = again THEN n ELSE 0) <= n - 1 + errors
    <2>1. CASE /\ agent' = [agent EXCEPT !.retries = @ + (n - 1)]
               /\ seen' = [seen EXCEPT ![r] = ends]
      <3>1. n - 1 \in Nat /\ n - 1 + 0 <= n - 1 + 0 /\ ends # again
        BY <1>3
      <3>2. agent' = [agent EXCEPT !.errors = @ + 0, !.retries = @ + (n - 1)]
        BY <2>1, <3>1, AgentAdds
      <3> QED BY <2>1, <3>1, <3>2
    <2>2. CASE /\ \E stale \in {0, 1} : Failures(2 + stale)
               /\ seen' = [seen EXCEPT ![r] = ends]
      <3>1. PICK stale \in {0, 1} : agent' = [agent EXCEPT !.errors = @ + (2 + stale)]
        BY <2>2 DEF Failures
      <3>2. agent' = [agent EXCEPT !.errors = @ + (2 + stale), !.retries = @ + 0]
        BY <3>1, AgentAdds
      <3>3. 2 + stale \in Nat /\ 0 + 0 <= n - 1 + (2 + stale) /\ ends # again
        BY <1>3
      <3> QED BY <2>2, <3>2, <3>3
    <2>3. CASE n < Attempts /\ Failures(1) /\ seen' = [seen EXCEPT ![r] = again]
      <3>1. agent' = [agent EXCEPT !.errors = @ + 1, !.retries = @ + 0]
        BY <2>3, AgentAdds DEF Failures
      <3>2. 0 + n <= n - 1 + 1
        BY <1>3
      <3> QED BY <2>3, <3>1, <3>2
    <2>4. CASE /\ n = Attempts
               /\ \E stale \in {0, 1} :
                    agent' = [agent EXCEPT !.errors = @ + 2 + stale, !.retries = @ + (Attempts - 1)]
               /\ seen' = [seen EXCEPT ![r] = ends]
      <3>1. PICK stale \in {0, 1} :
              agent' = [agent EXCEPT !.errors = @ + 2 + stale, !.retries = @ + (n - 1)]
        BY <2>4
      <3>2. agent.errors \in Nat
        BY DEF CountInv, CountsTyped
      <3>3. agent.errors + 2 + stale = agent.errors + (2 + stale)
        BY <3>2
      <3>4. agent' = [agent EXCEPT !.errors = @ + (2 + stale), !.retries = @ + (n - 1)]
        BY <3>1, <3>3
      <3>5. n - 1 \in Nat /\ 2 + stale \in Nat /\ n - 1 + 0 <= n - 1 + (2 + stale) /\ ends # again
        BY <1>3
      <3> QED BY <2>4, <3>4, <3>5
    <2> QED BY <2>1, <2>2, <2>3, <2>4 DEF UpstreamTry, n, again, ends
  <1>5. /\ x \in SeenRecords /\ x.pc \in {"answer", "upstream"} /\ OnItsWay(x) /\ HasMissed(x)
        /\ x.layer \notin {"l1a", "l1b"}
    <2>1. x.layer \in {"miss", "l2", "l3"} /\ x.pc \in {"answer", "upstream"}
      BY <1>1, <1>2 DEF OnItsWay
    <2> QED BY <1>2, <2>1 DEF OnItsWay, HasMissed, Layers
  <1>6. retries + Calls(x) <= Calls(seen[r]) + errors
    <2>1. Calls(seen[r]) = n - 1 /\ Calls(again) = n /\ Calls(ends) = 0
      BY <1>1, <1>2, <1>3 DEF Calls
    <2> QED BY <1>4, <1>3, <2>1
  <1> QED BY <1>1, <1>4, <1>5, <1>6, QuietProgress

LEMMA RecordEventKeeps == ASSUME CountInv, NEW r \in Requests, RecordEvent(r) PROVE CountInv'
  <1> DEFINE e == Head(seen[r].todo)
             last == Len(seen[r].todo) = 1
             next == IF ~last THEN "events"
                     ELSE IF seen[r].layer # "miss" \/ seen[r].surface = "mcp"
                       THEN "answer" ELSE "below"
             x == [seen[r] EXCEPT !.todo = Tail(@), !.pc = next]
  <1>1. /\ seen \in [Requests -> SeenRecords] /\ seen[r] \in SeenRecords /\ Ahead(seen[r])
        /\ seen[r].pc = "events"
        /\ agent \in [requests : Nat, retries : Nat, errors : Nat, event : [Events -> Nat]]
    BY DEF CountInv, CountsTyped, OnItsWay, RecordEvent
  <1>2. /\ seen[r].todo \in Seq(Events) /\ Len(seen[r].todo) \in Nat \ {0}
        /\ seen[r].layer \in {"l1a", "l1b", "miss"} /\ e = seen[r].todo[1] /\ e \in Events
    BY <1>1 DEF Ahead
  <1>3. /\ Tail(seen[r].todo) \in Seq(Events) /\ Len(Tail(seen[r].todo)) = Len(seen[r].todo) - 1
        /\ \A i \in 1 .. Len(seen[r].todo) - 1 : Tail(seen[r].todo)[i] = seen[r].todo[i + 1]
    BY <1>2
  <1>4. next \in Progresses /\ (next = "events" <=> ~last)
        /\ next \in {"events", "answer", "below"}
        /\ (next = "below" => seen[r].layer = "miss")
    BY DEF Progresses
  <1>5. /\ x \in SeenRecords /\ x.pc = next /\ x.todo = Tail(seen[r].todo)
        /\ x.layer = seen[r].layer /\ x.surface = seen[r].surface
    BY <1>1, <1>3, <1>4 DEF SeenRecords
  <1>6. seen' = [seen EXCEPT ![r] = x]
    BY <1>1 DEF RecordEvent
  <1>7. agent' = [agent EXCEPT !.event[e] = @ + 1] /\ UNCHANGED <<counts, health>>
    BY DEF RecordEvent
  <1>8. last => (next = "below" <=> seen[r].layer = "miss" /\ seen[r].surface # "mcp")
    OBVIOUS
  <1> HIDE DEF x, next, e
  <1>9. OnItsWay(x)
    <2>1. CASE last
      BY <1>2, <1>4, <1>5, <2>1 DEF OnItsWay, Layers
    <2>2. CASE ~last
      <3>1. Len(x.todo) >= 1 /\ Len(x.todo) + 1 = Len(seen[r].todo)
        <4>1. Len(x.todo) = Len(seen[r].todo) - 1
          BY <1>3, <1>5
        <4>2. \A a, b : a \in Nat \ {0} /\ a # 1 /\ b = a - 1 => b >= 1 /\ b + 1 = a
          OBVIOUS
        <4>3. Len(seen[r].todo) \in Nat \ {0} /\ Len(seen[r].todo) # 1
          BY <1>2, <2>2
        <4> QED BY ONLY <4>1, <4>2, <4>3
      <3>2. x.layer # "miss" => \A i \in 1 .. Len(x.todo) :
              x.todo[i] = IF i = Len(x.todo) THEN "l1_hit"
                          ELSE IF i + 1 = Len(x.todo) THEN HitOf(x.layer) ELSE "l1a_miss"
        <4> SUFFICES ASSUME x.layer # "miss", NEW i \in 1 .. Len(x.todo)
                     PROVE  x.todo[i] = IF i = Len(x.todo) THEN "l1_hit"
                               ELSE IF i + 1 = Len(x.todo) THEN HitOf(x.layer) ELSE "l1a_miss"
          OBVIOUS
        <4>1. x.todo[i] = seen[r].todo[i + 1] /\ i + 1 \in 1 .. Len(seen[r].todo)
          BY <1>2, <1>3, <1>5, <3>1
        <4>2. seen[r].todo[i + 1] = IF i + 1 = Len(seen[r].todo) THEN "l1_hit"
                               ELSE IF i + 1 + 1 = Len(seen[r].todo) THEN HitOf(seen[r].layer)
                                    ELSE "l1a_miss"
          BY <1>1, <1>5, <4>1 DEF Ahead
        <4>3. /\ i + 1 = Len(seen[r].todo) <=> i = Len(x.todo)
              /\ i + 1 + 1 = Len(seen[r].todo) <=> i + 1 = Len(x.todo)
          BY <1>2, <1>3, <1>5, <3>1
        <4> QED BY <1>5, <4>1, <4>2, <4>3
      <3>3. x.layer = "miss" => \A i \in 1 .. Len(x.todo) :
              \/ x.todo[i] \in {"l1a_miss", "l1b_miss"}
              \/ i = Len(x.todo) /\ x.todo[i] = "l1_miss" /\ x.surface = "mcp"
        <4> SUFFICES ASSUME x.layer = "miss", NEW i \in 1 .. Len(x.todo)
                     PROVE  \/ x.todo[i] \in {"l1a_miss", "l1b_miss"}
                            \/ i = Len(x.todo) /\ x.todo[i] = "l1_miss" /\ x.surface = "mcp"
          OBVIOUS
        <4>1. x.todo[i] = seen[r].todo[i + 1] /\ i + 1 \in 1 .. Len(seen[r].todo)
          BY <1>2, <1>3, <1>5, <3>1
        <4>2. \/ seen[r].todo[i + 1] \in {"l1a_miss", "l1b_miss"}
              \/ /\ i + 1 = Len(seen[r].todo) /\ seen[r].todo[i + 1] = "l1_miss"
                 /\ seen[r].surface = "mcp"
          BY <1>1, <1>5, <4>1 DEF Ahead
        <4>3. i + 1 = Len(seen[r].todo) <=> i = Len(x.todo)
          BY <1>2, <1>3, <1>5, <3>1
        <4> QED BY <1>5, <4>1, <4>2, <4>3
      <3> QED BY <1>2, <1>3, <1>4, <1>5, <2>2, <3>1, <3>2, <3>3 DEF OnItsWay, Ahead
    <2> QED BY <2>1, <2>2
  <1>10. /\ agent' \in [requests : Nat, retries : Nat, errors : Nat, event : [Events -> Nat]]
         /\ agent'.requests = agent.requests /\ agent'.retries = agent.retries
         /\ agent'.errors = agent.errors
         /\ agent'.event = [agent.event EXCEPT ![e] = @ + 1]
    <2>1. [agent.event EXCEPT ![e] = @ + 1] \in [Events -> Nat]
      BY <1>1, <1>2
    <2>2. agent' = [agent EXCEPT !.event = [agent.event EXCEPT ![e] = @ + 1]]
      BY <1>7
    <2> QED BY <1>1, <2>1, <2>2
  <1>11. counts' \in [total : Nat, deflected : Nat, layer : [Layers -> Nat]]
    BY <1>7 DEF CountInv, CountsTyped
  <1>12. CountsTyped'
    BY <1>5, <1>6, <1>7, <1>9, <1>10, <1>11, TypesKeep
  <1>13. AnswersCounted'
    BY <1>1, <1>4, <1>5, <1>6, <1>7, <1>10, AnswersKeep
  <1>14. RetriesCounted'
    <2>1. agent.errors \in Nat /\ agent.retries \in Nat
      BY <1>1
    <2>2. agent'.errors = agent.errors + 0 /\ agent'.retries = agent.retries + 0
      BY <1>10, <2>1
    <2>3. 0 + Calls(x) <= Calls(seen[r]) + 0
      BY <1>1, <1>4, <1>5 DEF Calls
    <2> QED BY <1>5, <1>6, <2>2, <2>3, RetriesKeep
  <1>15. EventsCounted'
    \* Which of the numbers the event is about.
    <2>1. /\ e = "l1a_hit" <=> HasHit(x, "l1a") /\ ~HasHit(seen[r], "l1a")
          /\ e = "l1b_hit" <=> HasHit(x, "l1b") /\ ~HasHit(seen[r], "l1b")
          /\ e = "l1_hit" <=> HasBeenHit(x) /\ ~HasBeenHit(seen[r])
          /\ e = "l1_miss" => HasMissed(x) /\ ~HasMissed(seen[r])
          /\ HasHit(seen[r], "l1a") => HasHit(x, "l1a")
          /\ HasHit(seen[r], "l1b") => HasHit(x, "l1b")
          /\ ~HasBeenHit(seen[r]) /\ ~HasMissed(seen[r])
      <3>1. Len(x.todo) = Len(seen[r].todo) - 1
        BY <1>3, <1>5
      <3>2. CASE seen[r].layer # "miss"
        <4>1. e = IF last THEN "l1_hit"
                  ELSE IF Len(seen[r].todo) = 2 THEN HitOf(seen[r].layer) ELSE "l1a_miss"
          <5>1. 1 \in 1 .. Len(seen[r].todo) /\ (1 = Len(seen[r].todo) <=> last)
                /\ (1 + 1 = Len(seen[r].todo) <=> Len(seen[r].todo) = 2)
            BY <1>2
          <5>2. seen[r].todo[1] = IF 1 = Len(seen[r].todo) THEN "l1_hit"
                  ELSE IF 1 + 1 = Len(seen[r].todo) THEN HitOf(seen[r].layer) ELSE "l1a_miss"
            BY <1>1, <3>2, <5>1 DEF Ahead
          <5> QED BY <1>2, <5>1, <5>2
        <4>2. Len(x.todo) = 1 <=> Len(seen[r].todo) = 2
          BY <1>2, <3>1
        <4>3. x.pc = IF last THEN "answer" ELSE "events"
          BY <1>4, <1>5, <3>2
        <4>4. last => Len(seen[r].todo) # 2
          BY <1>2
        <4>5. x.pc = "events" <=> ~last
          BY <4>3
        <4>6. seen[r].layer \in {"l1a", "l1b"} /\ x.layer = seen[r].layer
              /\ seen[r].pc = "events"
          BY <1>1, <1>2, <1>5, <3>2
        <4> HIDE DEF last
        <4>7. CASE last
          <5>1. e = "l1_hit" /\ x.pc = "answer" /\ (Len(seen[r].todo) = 1)
            BY <4>1, <4>3, <4>7 DEF last
          <5>2. \A l \in {"l1a", "l1b"} : HasHit(x, l) <=> HasHit(seen[r], l)
            <6>1. \A l \in {"l1a", "l1b"} : HasHit(x, l) <=> x.layer = l
              BY <5>1 DEF HasHit
            <6>2. \A l \in {"l1a", "l1b"} : HasHit(seen[r], l) <=> seen[r].layer = l
              BY <4>6, <5>1 DEF HasHit
            <6> QED BY <4>6, <6>1, <6>2
          <5>3. HasBeenHit(x) /\ ~HasBeenHit(seen[r]) /\ ~HasMissed(seen[r])
            BY <4>6, <5>1 DEF HasBeenHit, HasMissed
          <5> QED BY <5>1, <5>2, <5>3
        <4>8. CASE Len(seen[r].todo) = 2
          <5>1. e = HitOf(x.layer) /\ x.pc = "events" /\ Len(x.todo) = 1
                /\ Len(seen[r].todo) # 1
            BY <4>1, <4>2, <4>3, <4>4, <4>6, <4>8
          <5> QED BY <4>6, <5>1 DEF HitOf, HasHit, HasBeenHit, HasMissed
        <4>9. CASE ~last /\ Len(seen[r].todo) # 2
          <5>1. e = "l1a_miss" /\ x.pc = "events" /\ Len(x.todo) # 1 /\ Len(seen[r].todo) # 1
            BY <4>1, <4>2, <4>3, <4>9 DEF last
          <5> QED BY <4>6, <5>1 DEF HasHit, HasBeenHit, HasMissed
        <4> QED BY <4>7, <4>8, <4>9
      <3>3. CASE seen[r].layer = "miss"
        <4>1. \/ e \in {"l1a_miss", "l1b_miss"}
              \/ e = "l1_miss" /\ last /\ seen[r].surface = "mcp"
          <5>1. 1 \in 1 .. Len(seen[r].todo) /\ (1 = Len(seen[r].todo) <=> last)
            BY <1>2
          <5>2. \/ seen[r].todo[1] \in {"l1a_miss", "l1b_miss"}
                \/ /\ 1 = Len(seen[r].todo) /\ seen[r].todo[1] = "l1_miss"
                   /\ seen[r].surface = "mcp"
            BY <1>1, <3>3, <5>1 DEF Ahead
          <5> QED BY <1>2, <5>1, <5>2
        <4>2. last /\ seen[r].surface = "mcp" => x.pc = "answer"
          BY <1>4, <1>5, <1>8
        <4> QED BY <1>1, <1>5, <3>3, <4>1, <4>2 DEF HasHit, HasBeenHit, HasMissed
      <3> QED BY <3>2, <3>3
    <2>2. /\ Cardinality(Hits("l1a")) \in Nat /\ Cardinality(Hits("l1b")) \in Nat
          /\ Cardinality(AllHits) \in Nat /\ Cardinality(Missed) \in Nat
          /\ Cardinality(Hits("l1a")') =
               Cardinality(Hits("l1a")) + Gains(HasHit(seen[r], "l1a"), HasHit(x, "l1a"))
          /\ Cardinality(Hits("l1b")') =
               Cardinality(Hits("l1b")) + Gains(HasHit(seen[r], "l1b"), HasHit(x, "l1b"))
          /\ Cardinality(AllHits') =
               Cardinality(AllHits) + Gains(HasBeenHit(seen[r]), HasBeenHit(x))
          /\ Cardinality(Missed') =
               Cardinality(Missed) + Gains(HasMissed(seen[r]), HasMissed(x))
      <3>1. \A l \in {"l1a", "l1b"} : HasHit(seen[r], l) => HasHit(x, l)
        BY <2>1
      <3> QED BY <1>5, <1>6, <2>1, <3>1, EventsChange
    <2>3. {"l1a_hit", "l1b_hit", "l1_hit", "l1_miss"} \subseteq Events
      BY DEF Events
    <2>4. \A d \in Events : agent'.event[d] = IF d = e THEN agent.event[d] + 1 ELSE agent.event[d]
      BY <1>1, <1>2, <1>10
    <2>5. /\ agent.event["l1a_hit"] = Cardinality(Hits("l1a"))
          /\ agent.event["l1b_hit"] = Cardinality(Hits("l1b"))
          /\ agent.event["l1_hit"] = Cardinality(AllHits)
          /\ agent.event["l1_miss"] <= Cardinality(Missed)
          /\ agent.event["l1_miss"] \in Nat
      BY <1>1, <2>3 DEF CountInv, EventsCounted
    <2>6. agent'.event["l1a_hit"] = Cardinality(Hits("l1a")')
      BY <2>1, <2>2, <2>3, <2>4, <2>5 DEF Gains
    <2>7. agent'.event["l1b_hit"] = Cardinality(Hits("l1b")')
      BY <2>1, <2>2, <2>3, <2>4, <2>5 DEF Gains
    <2>8. agent'.event["l1_hit"] = Cardinality(AllHits')
      BY <2>1, <2>2, <2>3, <2>4, <2>5 DEF Gains
    <2>9. agent'.event["l1_miss"] <= Cardinality(Missed')
      <3>1. CASE e = "l1_miss"
        BY <2>1, <2>2, <2>3, <2>4, <2>5, <3>1 DEF Gains
      <3>2. CASE e # "l1_miss"
        BY <2>2, <2>3, <2>4, <2>5, <3>2 DEF Gains
      <3> QED BY <3>1, <3>2
    <2> QED BY <2>6, <2>7, <2>8, <2>9 DEF EventsCounted
  <1> QED BY <1>7, <1>12, <1>13, <1>14, <1>15 DEF CountInv, HealthCounted

LEMMA RecordMissKeeps == ASSUME CountInv, NEW r \in Requests, RecordMiss(r) PROVE CountInv'
  <1>1. PICK pc \in {"triage", "answer"}, s \in {"gateway", seen[r].surface},
             layer \in {"l2", "l3"} : Goes(r, pc, s, <<>>, layer)
    BY DEF RecordMiss
  <1> DEFINE x == [pc |-> pc, surface |-> s, todo |-> <<>>, layer |-> layer, attempt |-> 0]
  <1>2. /\ seen \in [Requests -> SeenRecords] /\ seen[r] \in SeenRecords /\ seen[r].pc = "missed"
        /\ seen[r].layer = "miss" /\ seen[r].surface \in Surfaces \cup {"none", "gateway"}
        /\ agent \in [requests : Nat, retries : Nat, errors : Nat, event : [Events -> Nat]]
    BY DEF CountInv, CountsTyped, SeenRecords, OnItsWay, RecordMiss
  <1>3. x \in SeenRecords
    BY <1>2 DEF SeenRecords, Progresses, Layers
  <1>4. seen' = [seen EXCEPT ![r] = x]
    BY <1>1 DEF Goes
  <1>5. x.pc \in {"triage", "answer"} /\ x.layer \in {"l2", "l3"}
    OBVIOUS
  <1> HIDE DEF x
  <1>6. OnItsWay(x) /\ HasMissed(x) /\ ~HasBeenHit(x) /\ \A l \in {"l1a", "l1b"} : ~HasHit(x, l)
    BY <1>5 DEF OnItsWay, HasMissed, HasBeenHit, HasHit, Layers
  <1>7. /\ ~HasMissed(seen[r]) /\ ~HasBeenHit(seen[r])
        /\ \A l \in {"l1a", "l1b"} : ~HasHit(seen[r], l)
    BY <1>2 DEF HasMissed, HasBeenHit, HasHit
  <1>8. /\ agent' = [agent EXCEPT !.event = [agent.event EXCEPT !["l1_miss"] = @ + 1]]
        /\ UNCHANGED <<counts, health>> /\ "l1_miss" \in Events
    BY DEF RecordMiss, Events
  <1>9. /\ agent' \in [requests : Nat, retries : Nat, errors : Nat, event : [Events -> Nat]]
        /\ agent'.requests = agent.requests /\ agent'.retries = agent.retries
        /\ agent'.errors = agent.errors
        /\ agent'.event = [agent.event EXCEPT !["l1_miss"] = @ + 1]
    <2>1. [agent.event EXCEPT !["l1_miss"] = @ + 1] \in [Events -> Nat]
      BY <1>2, <1>8
    <2> QED BY <1>2, <1>8, <2>1
  <1>10. counts' \in [total : Nat, deflected : Nat, layer : [Layers -> Nat]]
    BY <1>8 DEF CountInv, CountsTyped
  <1>11. CountsTyped'
    BY <1>3, <1>4, <1>6, <1>8, <1>9, <1>10, TypesKeep
  <1>12. AnswersCounted'
    BY <1>2, <1>3, <1>4, <1>5, <1>8, <1>9, AnswersKeep
  <1>13. RetriesCounted'
    <2>1. agent.errors \in Nat /\ agent.retries \in Nat
      BY <1>2
    <2>2. agent'.errors = agent.errors + 0 /\ agent'.retries = agent.retries + 0
      BY <1>9, <2>1
    <2>3. 0 + Calls(x) <= Calls(seen[r]) + 0
      BY <1>2, <1>5 DEF Calls
    <2> QED BY <1>3, <1>4, <2>2, <2>3, RetriesKeep
  <1>14. EventsCounted'
    <2>1. /\ Cardinality(Hits("l1a")) \in Nat /\ Cardinality(Hits("l1b")) \in Nat
          /\ Cardinality(AllHits) \in Nat /\ Cardinality(Missed) \in Nat
          /\ Cardinality(Hits("l1a")') = Cardinality(Hits("l1a")) + 0
          /\ Cardinality(Hits("l1b")') = Cardinality(Hits("l1b")) + 0
          /\ Cardinality(AllHits') = Cardinality(AllHits) + 0
          /\ Cardinality(Missed') = Cardinality(Missed) + 1
      BY <1>3, <1>4, <1>6, <1>7, EventsChange DEF Gains
    <2>2. {"l1a_hit", "l1b_hit", "l1_hit"} \subseteq Events
      BY DEF Events
    <2>3. /\ agent'.event["l1a_hit"] = agent.event["l1a_hit"]
          /\ agent'.event["l1b_hit"] = agent.event["l1b_hit"]
          /\ agent'.event["l1_hit"] = agent.event["l1_hit"]
          /\ agent'.event["l1_miss"] = agent.event["l1_miss"] + 1
          /\ agent.event["l1_miss"] \in Nat
      BY <1>2, <1>8, <1>9, <2>2
    <2> QED BY <2>1, <2>3 DEF CountInv, EventsCounted
  <1> QED BY <1>8, <1>11, <1>12, <1>13, <1>14 DEF CountInv, HealthCounted

LEMMA RecordPromptKeeps == ASSUME CountInv, NEW r \in Requests, RecordPrompt(r) PROVE CountInv'
  <1> DEFINE x == [seen[r] EXCEPT !.pc = "answered"]
  <1>1. /\ seen \in [Requests -> SeenRecords] /\ seen[r] \in SeenRecords /\ OnItsWay(seen[r])
        /\ seen[r].pc = "answer" /\ seen[r].layer \in Layers
        /\ agent \in [requests : Nat, retries : Nat, errors : Nat, event : [Events -> Nat]]
        /\ counts \in [total : Nat, deflected : Nat, layer : [Layers -> Nat]]
    BY DEF CountInv, CountsTyped, OnItsWay, RecordPrompt
  <1>2. x \in SeenRecords /\ x.pc = "answered" /\ x.layer = seen[r].layer
    BY <1>1 DEF SeenRecords, Progresses
  <1>3. seen' = [seen EXCEPT ![r] = x] /\ health' = health
    BY <1>1 DEF RecordPrompt
  <1> DEFINE fin == seen[r].layer
  <1>4. /\ counts' = [total |-> counts.total + 1,
                      deflected |-> counts.deflected + (IF fin \in Deflected THEN 1 ELSE 0),
                      layer |-> [counts.layer EXCEPT ![fin] = @ + 1]]
        /\ agent' = [agent EXCEPT !.requests = @ + 1]
    BY DEF RecordPrompt, Recorded
  <1> HIDE DEF x
  <1>5. OnItsWay(x)
    BY <1>1, <1>2 DEF OnItsWay
  <1>6. /\ agent' \in [requests : Nat, retries : Nat, errors : Nat, event : [Events -> Nat]]
        /\ agent'.requests = agent.requests + 1 /\ agent'.retries = agent.retries
        /\ agent'.errors = agent.errors /\ agent'.event = agent.event
    BY <1>1, <1>4
  <1>7. /\ counts' \in [total : Nat, deflected : Nat, layer : [Layers -> Nat]]
        /\ counts'.total = counts.total + 1
        /\ counts'.deflected = counts.deflected + (IF fin \in Deflected THEN 1 ELSE 0)
        /\ counts'.layer = [counts.layer EXCEPT ![fin] = @ + 1]
    <2>1. [counts.layer EXCEPT ![fin] = @ + 1] \in [Layers -> Nat]
      BY <1>1
    <2>2. /\ counts.total + 1 \in Nat
          /\ counts.deflected + (IF fin \in Deflected THEN 1 ELSE 0) \in Nat
      BY <1>1
    <2> HIDE DEF fin
    <2> QED BY <1>4, <2>1, <2>2
  <1>8. CountsTyped'
    BY <1>2, <1>3, <1>5, <1>6, <1>7, TypesKeep
  <1>9. RetriesCounted'
    <2>1. agent.errors \in Nat /\ agent.retries \in Nat
      BY <1>1
    <2>2. agent'.errors = agent.errors + 0 /\ agent'.retries = agent.retries + 0
      BY <1>6, <2>1
    <2>3. 0 + Calls(x) <= Calls(seen[r]) + 0
      BY <1>1, <1>2 DEF Calls
    <2> QED BY <1>2, <1>3, <2>2, <2>3, RetriesKeep
  <1>10. EventsCounted'
    <2>1. /\ \A k \in {"l1a", "l1b"} : HasHit(seen[r], k) <=> HasHit(x, k)
          /\ HasBeenHit(seen[r]) <=> HasBeenHit(x)
          /\ HasMissed(seen[r]) => HasMissed(x)
      <3>1. \A k \in {"l1a", "l1b"} : HasHit(seen[r], k) <=> HasHit(x, k)
        BY <1>1, <1>2 DEF HasHit
      <3>2. HasBeenHit(seen[r]) <=> HasBeenHit(x)
        BY <1>1, <1>2 DEF HasBeenHit
      <3>3. HasMissed(seen[r]) => HasMissed(x)
        BY <1>1, <1>2 DEF HasMissed
      <3> QED BY <3>1, <3>2, <3>3
    <2> QED BY <1>2, <1>3, <1>6, <2>1, EventsKeep
  <1>11. AnswersCounted'
    <2>1. /\ \A q : q # r => (q \in Answered <=> q \in Answered')
          /\ \A q, l : q # r => (q \in InLayer(l) <=> q \in InLayer(l)')
          /\ r \in Answered' <=> x.pc = "answered"
          /\ \A l : r \in InLayer(l)' <=> x.pc = "answered" /\ x.layer = l
      <3>1. \A q : q # r => (q \in Answered <=> q \in Answered')
        BY <1>2, <1>3, SetsChange
      <3>2. \A q, l : q # r => (q \in InLayer(l) <=> q \in InLayer(l)')
        BY <1>2, <1>3, SetsChange
      <3>3. r \in Answered' <=> x.pc = "answered"
        BY <1>2, <1>3, SetsChange
      <3>4. \A l : r \in InLayer(l)' <=> x.pc = "answered" /\ x.layer = l
        <4>1. seen'[r] = x
          BY <1>1, <1>3
        <4> QED BY <4>1 DEF InLayer, Answered
      <3> QED BY <3>1, <3>2, <3>3, <3>4
    <2>2. r \notin Answered /\ \A l : r \notin InLayer(l)
      BY <1>1 DEF Answered, InLayer
    <2>3. IsFiniteSet(Answered) /\ \A l : IsFiniteSet(InLayer(l))
      BY SetsAreFinite
    <2>4. Cardinality(Answered') = Cardinality(Answered) + 1 /\ Cardinality(Answered) \in Nat
      BY <1>2, <2>1, <2>2, <2>3, OneMoreOrLess
    <2>5. ASSUME NEW l \in Layers
          PROVE  /\ Cardinality(InLayer(l)) \in Nat
                 /\ l = fin => Cardinality(InLayer(l)') = Cardinality(InLayer(l)) + 1
                 /\ l # fin => Cardinality(InLayer(l)') = Cardinality(InLayer(l))
      <3>1. /\ r \notin InLayer(l) /\ IsFiniteSet(InLayer(l))
            /\ \A q : q # r => (q \in InLayer(l) <=> q \in InLayer(l)')
            /\ r \in InLayer(l)' <=> l = fin
        BY <1>2, <2>1, <2>2, <2>3
      <3> HIDE DEF fin
      <3> QED BY <3>1, OneMoreOrLess
    <2>6. ASSUME NEW l \in Layers
          PROVE  counts'.layer[l] = Cardinality(InLayer(l)')
      <3>1. counts.layer[l] = Cardinality(InLayer(l))
        BY DEF CountInv, AnswersCounted
      <3>2. counts'.layer[l] = IF l = fin THEN counts.layer[l] + 1 ELSE counts.layer[l]
        BY <1>1, <1>7
      <3> HIDE DEF fin
      <3> QED BY <2>5, <3>1, <3>2
    <2>7. counts'.total = Cardinality(Answered') /\ agent'.requests = counts'.total
      BY <1>6, <1>7, <2>4 DEF CountInv, AnswersCounted
    <2>8. counts'.deflected + counts'.layer["l3"] + counts'.layer["miss"] = counts'.total
      <3>1. counts.deflected + counts.layer["l3"] + counts.layer["miss"] = counts.total
        BY DEF CountInv, AnswersCounted
      <3>2. /\ "l3" \in Layers /\ "miss" \in Layers
            /\ counts.layer["l3"] \in Nat /\ counts.layer["miss"] \in Nat
            /\ counts.deflected \in Nat /\ counts.total \in Nat
        BY <1>1 DEF Layers
      <3>3. /\ counts'.layer["l3"] = counts.layer["l3"] + (IF fin = "l3" THEN 1 ELSE 0)
            /\ counts'.layer["miss"] = counts.layer["miss"] + (IF fin = "miss" THEN 1 ELSE 0)
        BY <1>1, <1>7, <3>2
      <3>4. fin \in Deflected <=> fin \notin {"l3", "miss"}
        BY <1>1 DEF Layers, Deflected
      <3>5. counts'.deflected = counts.deflected + (IF fin \in Deflected THEN 1 ELSE 0)
        BY <1>7
      <3>6. counts'.total = counts.total + 1
        BY <1>7
      <3> HIDE DEF fin
      <3> QED BY <3>1, <3>2, <3>3, <3>4, <3>5, <3>6
    <2> QED BY <2>6, <2>7, <2>8 DEF AnswersCounted
  <1>12. HealthCounted'
    <2>1. counts.total \in Nat /\ counts.deflected \in Nat /\ health.total \in Nat
          /\ health.deflected \in Nat
      BY <1>1 DEF CountInv, CountsTyped
    <2>2. /\ counts'.total = counts.total + 1
          /\ counts'.deflected \in {counts.deflected, counts.deflected + 1}
      BY <1>7, <2>1
    <2> QED BY <1>3, <2>1, <2>2 DEF CountInv, HealthCounted
  <1> QED BY <1>8, <1>9, <1>10, <1>11, <1>12 DEF CountInv

LEMMA HealthKeeps == ASSUME CountInv, HealthStarts \/ HealthEnds PROVE CountInv'
  <1>1. UNCHANGED <<seen, counts, agent>>
    BY DEF HealthStarts, HealthEnds
  <1>2. /\ counts.total \in Nat /\ counts.deflected \in Nat
        /\ health \in [pc : {"idle", "read", "told"}, total : Nat, deflected : Nat]
    BY DEF CountInv, CountsTyped
  <1>3. health' \in [pc : {"idle", "read", "told"}, total : Nat, deflected : Nat] /\ HealthCounted'
    <2>1. CASE HealthStarts
      BY <1>2, <2>1 DEF HealthStarts, HealthCounted
    <2>2. CASE HealthEnds
      <3>1. /\ health.pc = "read"
            /\ health' = [health EXCEPT !.pc = "told", !.deflected = counts.deflected]
            /\ counts' = counts
        BY <2>2 DEF HealthEnds
      <3>2. /\ health'.pc = "told" /\ health'.total = health.total
            /\ health'.deflected = counts.deflected
            /\ health' \in [pc : {"idle", "read", "told"}, total : Nat, deflected : Nat]
        BY <1>2, <3>1
      <3>3. health.total <= counts.total /\ health.total \in Nat
        BY <1>2, <3>1 DEF CountInv, HealthCounted
      <3>4. health.total <= counts.deflected + (counts.total - counts.deflected)
        BY <1>2, <3>3
      <3> QED BY <3>1, <3>2, <3>4 DEF HealthCounted
    <2> QED BY <2>1, <2>2
  <1>4. CountsTyped'
    BY <1>1, <1>3 DEF CountInv, CountsTyped, Begun
  <1>5. AnswersCounted'
    BY <1>1 DEF CountInv, AnswersCounted, Answered, InLayer
  <1>6. EventsCounted'
    BY <1>1 DEF CountInv, EventsCounted, Hits, AllHits, Missed
  <1>7. RetriesCounted'
    BY <1>1 DEF CountInv, RetriesCounted, Failed
  <1> QED BY <1>3, <1>4, <1>5, <1>6, <1>7 DEF CountInv

LEMMA CountKeeps == CountInv /\ [VisibilityNext]_visibilityVars => CountInv'
  <1> SUFFICES ASSUME CountInv, [VisibilityNext]_visibilityVars PROVE CountInv'
    OBVIOUS
  <1>1. CASE UNCHANGED visibilityVars
    BY <1>1 DEF visibilityVars, CountInv, CountsTyped, AnswersCounted, EventsCounted,
         RetriesCounted, HealthCounted, Begun, Answered, InLayer, Hits, AllHits, Missed, Failed
  <1>2. CASE VisibilityNext
    BY <1>2, ArrivesKeeps, RecordEventKeeps, GoesBelowKeeps, RecordMissKeeps, TriageKeeps,
       UpstreamTryKeeps, DroppedKeeps, RecordPromptKeeps, HealthKeeps DEF VisibilityNext
  <1> QED BY <1>1, <1>2

\* Once nobody is on the way the recorded hits are the answers from the caches.
LEMMA CountsAgreeAtRest == CountInv => CountsAgree
  <1> SUFFICES ASSUME CountInv PROVE CountsAgree
    OBVIOUS
  <1>1. ASSUME Waiting = {}
        PROVE  /\ agent.event["l1a_hit"] = counts.layer["l1a"]
               /\ agent.event["l1b_hit"] = counts.layer["l1b"]
               /\ agent.event["l1_hit"] = counts.layer["l1a"] + counts.layer["l1b"]
               /\ agent.event["l1_hit"] + agent.event["l1_miss"] <=
                    agent.requests + Cardinality({r \in Requests : seen[r].pc = "dropped"})
    <2> DEFINE Vanished == {r \in Requests : seen[r].pc = "dropped"}
    <2>1. \A r \in Requests : seen[r].pc \in {"idle", "answered", "dropped"} /\ OnItsWay(seen[r])
      BY <1>1 DEF Waiting, CountInv, CountsTyped
    <2>2. /\ Hits("l1a") = InLayer("l1a") /\ Hits("l1b") = InLayer("l1b")
          /\ AllHits = InLayer("l1a") \cup InLayer("l1b")
          /\ InLayer("l1a") \cap InLayer("l1b") = {}
          /\ AllHits \cup Missed \subseteq Answered \cup Vanished /\ AllHits \cap Missed = {}
          /\ Answered \cap Vanished = {}
      <3>1. Hits("l1a") = InLayer("l1a") /\ Hits("l1b") = InLayer("l1b")
        BY <2>1 DEF Hits, InLayer, Answered, HasHit
      <3>2. AllHits = InLayer("l1a") \cup InLayer("l1b")
        BY <2>1 DEF AllHits, InLayer, Answered, HasBeenHit
      <3>3. InLayer("l1a") \cap InLayer("l1b") = {} /\ Answered \cap Vanished = {}
        BY DEF InLayer, Answered
      <3>4. AllHits \cup Missed \subseteq Answered \cup Vanished /\ AllHits \cap Missed = {}
        BY <2>1 DEF AllHits, Missed, Answered, HasBeenHit, HasMissed
      <3> QED BY <3>1, <3>2, <3>3, <3>4
    <2>3. /\ IsFiniteSet(InLayer("l1a")) /\ IsFiniteSet(InLayer("l1b")) /\ IsFiniteSet(AllHits)
          /\ IsFiniteSet(Missed) /\ IsFiniteSet(Answered) /\ IsFiniteSet(Vanished)
      <3>1. IsFiniteSet(Begun) /\ Vanished \subseteq Begun
        BY DEF CountInv, CountsTyped, Begun
      <3> QED BY <3>1, SetsAreFinite, FS_Subset
    <2> HIDE DEF Vanished
    <2>4. ASSUME NEW S, NEW T, IsFiniteSet(S), IsFiniteSet(T), S \cap T = {}
          PROVE  /\ IsFiniteSet(S \cup T) /\ Cardinality(S) \in Nat /\ Cardinality(T) \in Nat
                 /\ Cardinality(S \cup T) = Cardinality(S) + Cardinality(T)
      <3>1. Cardinality(S) \in Nat /\ Cardinality(T) \in Nat /\ Cardinality({}) = 0
        BY <2>4, FS_CardinalityType, FS_EmptySet
      <3>2. /\ IsFiniteSet(S \cup T)
            /\ Cardinality(S \cup T) = Cardinality(S) + Cardinality(T) - Cardinality(S \cap T)
        BY <2>4, FS_Union
      <3>3. Cardinality(S \cap T) = 0
        BY <2>4, <3>1
      <3> QED BY <3>1, <3>2, <3>3
    <2>5. /\ Cardinality(InLayer("l1a")) \in Nat /\ Cardinality(InLayer("l1b")) \in Nat
          /\ Cardinality(AllHits) = Cardinality(InLayer("l1a")) + Cardinality(InLayer("l1b"))
      BY <2>2, <2>3, <2>4
    <2>6. /\ IsFiniteSet(AllHits \cup Missed) /\ Cardinality(AllHits) \in Nat
          /\ Cardinality(Missed) \in Nat
          /\ Cardinality(AllHits \cup Missed) = Cardinality(AllHits) + Cardinality(Missed)
      BY <2>2, <2>3, <2>4
    <2>7. /\ IsFiniteSet(Answered \cup Vanished) /\ Cardinality(Answered) \in Nat
          /\ Cardinality(Vanished) \in Nat
          /\ Cardinality(Answered \cup Vanished) = Cardinality(Answered) + Cardinality(Vanished)
      BY <2>2, <2>3, <2>4
    <2>8. Cardinality(AllHits \cup Missed) <= Cardinality(Answered \cup Vanished)
      BY <2>2, <2>7, FS_Subset
    <2>9. /\ agent.event["l1a_hit"] = Cardinality(InLayer("l1a"))
          /\ agent.event["l1b_hit"] = Cardinality(InLayer("l1b"))
          /\ agent.event["l1_hit"] = Cardinality(AllHits)
          /\ agent.event["l1_miss"] <= Cardinality(Missed) /\ agent.event["l1_miss"] \in Nat
          /\ agent.requests = Cardinality(Answered)
          /\ counts.layer["l1a"] = Cardinality(InLayer("l1a"))
          /\ counts.layer["l1b"] = Cardinality(InLayer("l1b"))
      <3>1. {"l1a", "l1b"} \subseteq Layers /\ "l1_miss" \in Events
        BY DEF Layers, Events
      <3> QED BY <2>2, <3>1 DEF CountInv, CountsTyped, EventsCounted, AnswersCounted
    <2>10. agent.event["l1_hit"] + agent.event["l1_miss"] <= agent.requests + Cardinality(Vanished)
      BY <2>6, <2>7, <2>8, <2>9
    <2> QED BY <2>5, <2>9, <2>10 DEF Vanished
  <1>2. agent.retries <= agent.errors
    <2>1. agent.retries \in Nat /\ agent.errors \in Nat /\ Cardinality(Failed) \in Nat
          /\ agent.retries + Cardinality(Failed) <= agent.errors
      BY FS_CardinalityType DEF CountInv, CountsTyped, RetriesCounted
    <2> QED BY <2>1
  <1> QED BY <1>1, <1>2 DEF CountInv, AnswersCounted, HealthCounted, CountsAgree, InLayer

\* Whatever requests, drops and reports come when, the reports agree with the
\* traffic and with each other.
THEOREM ReportsAgree == VisibilitySpec => []CountsAgree
  <1>1. VisibilityInit => CountInv
    BY CountStarts
  <1>2. CountInv /\ [VisibilityNext]_visibilityVars => CountInv'
    BY CountKeeps
  <1>3. CountInv => CountsAgree
    BY CountsAgreeAtRest
  <1> QED BY <1>1, <1>2, <1>3, PTL DEF VisibilitySpec
-----------------------------------------------------------------------------
(* Start-up, shutdown and the PID file.                                    *)
\* Nobody but the owner of the port writes the PID file, so ServerFindable rests
\* on the port having one owner at a time.
Owned ==
  \A p, q \in Pids : proc[p] \in PortHolders /\ proc[q] \in PortHolders => p = q
LifeInv ==
  /\ proc \in [Pids -> {"none"} \cup Servers \cup Bystanders]
  /\ Owned /\ ServerFindable

\* The invariant of the processes holds when nothing runs.
LEMMA LifeStarts == LifeInit => LifeInv
  BY DEF LifeInit, LifeInv, Owned, ServerFindable, PortHolders

\* A process that does not get hold of the port, nor serves, disturbs nothing.
LEMMA QuietChange ==
  ASSUME LifeInv, NEW p \in Pids, NEW what, Become(p, what), pidFile' = pidFile,
         what \in ({"none"} \cup Servers \cup Bystanders) \ {"serving"},
         what \in PortHolders => proc[p] \in PortHolders,
         \A q \in Pids \ {p} : q \in hidden => q \in hidden'
  PROVE  LifeInv'
  <1>1. /\ proc' \in [Pids -> {"none"} \cup Servers \cup Bystanders]
        /\ proc'[p] = what
        /\ \A q \in Pids \ {p} : proc'[q] = proc[q]
    BY DEF LifeInv, Become
  <1>2. Owned'
    BY <1>1 DEF LifeInv, Owned
  <1>3. ServerFindable'
    BY <1>1 DEF LifeInv, ServerFindable
  <1> QED BY <1>1, <1>2, <1>3 DEF LifeInv

\* The owner of the port begins to serve, and its number is in the file or it
\* is known to be hidden.
LEMMA BeginsToServe ==
  ASSUME LifeInv, NEW p \in Pids, Become(p, "serving"), proc[p] \in PortHolders,
         pidFile' = p \/ p \in hidden'
  PROVE  LifeInv'
  <1>1. /\ proc' \in [Pids -> {"none"} \cup Servers \cup Bystanders]
        /\ proc'[p] = "serving"
        /\ \A q \in Pids \ {p} : proc'[q] = proc[q] /\ proc[q] \notin PortHolders
    BY DEF LifeInv, Become, Owned, Servers, PortHolders
  <1>2. Owned'
    BY <1>1 DEF Owned
  <1>3. ServerFindable'
    BY <1>1 DEF ServerFindable, PortHolders
  <1> QED BY <1>1, <1>2, <1>3 DEF LifeInv

\* Every start, stop and kill keeps the port with one owner, and the PID file with it.
LEMMA LifeKeeps == LifeInv /\ [LifeNext]_lifeVars => LifeInv'
  <1> SUFFICES ASSUME LifeInv, [LifeNext]_lifeVars PROVE LifeInv'
    OBVIOUS
  <1> USE DEF Servers, PortHolders, Bystanders
  <1>1. ASSUME NEW p \in Pids, StartServer(p) \/ RestartStarts(p) PROVE LifeInv'
    BY <1>1, QuietChange DEF StartServer, RestartStarts, Launch
  <1>2. ASSUME NEW p \in Pids,
               StartFails(p) \/ Crash(p) \/ BystanderEnds(p) \/ Dies(p)
        PROVE  LifeInv'
    BY <1>2, QuietChange DEF StartFails, Crash, BystanderEnds, Dies, Gone
  <1>3. ASSUME NEW p \in Pids, Reuse(p) PROVE LifeInv'
    <2>1. PICK what \in Bystanders : Become(p, what)
      BY <1>3 DEF Reuse
    <2> QED BY <1>3, <2>1, QuietChange DEF Reuse
  <1>4. ASSUME NEW p \in Pids, Bind(p) PROVE LifeInv'
    <2>1. \A q \in Pids : proc[q] \notin PortHolders
      BY <1>4 DEF Bind, PortTaken
    <2>2. /\ proc' = [proc EXCEPT ![p] = "bound"]
          /\ UNCHANGED <<pidFile, hidden>>
      BY <1>4 DEF Bind, Become
    <2> QED BY <2>1, <2>2 DEF LifeInv, Owned, ServerFindable
  <1>5. ASSUME NEW p \in Pids, CreatePidFile(p) PROVE LifeInv'
    <2>1. /\ proc[p] = "bound" /\ proc' = [proc EXCEPT ![p] = "writing"]
      BY <1>5 DEF CreatePidFile, Become
    <2>2. /\ proc' \in [Pids -> {"none"} \cup Servers \cup Bystanders]
          /\ \A q \in Pids \ {p} : proc'[q] = proc[q] /\ proc[q] \notin PortHolders
          /\ proc'[p] = "writing"
      BY <2>1 DEF LifeInv, Owned
    <2> QED BY <2>2 DEF LifeInv, Owned, ServerFindable
  <1>6. ASSUME NEW p \in Pids, WritePidFile(p) \/ WritePidFileFails(p) PROVE LifeInv'
    BY <1>6, BeginsToServe DEF WritePidFile, WritePidFileFails, Serve
  <1>7. CASE StopSignals
    <2>1. UNCHANGED <<pidFile, hidden>>
      BY <1>7 DEF StopSignals
    <2>2. CASE stop.pid \in Pids /\ proc[stop.pid] \in Servers /\ proc' # proc
      <3>1. PICK what \in {"dying", "ending"} :
              Become(stop.pid, what) /\ (what = "dying" => proc[stop.pid] \in PortHolders)
        BY <1>7, <2>2 DEF StopSignals
      <3> QED BY <2>1, <2>2, <3>1, QuietChange
    <2>3. CASE stop.pid \notin Pids /\ proc' # proc
      <3>1. PICK what : proc' = [proc EXCEPT ![stop.pid] = what]
        BY <1>7, <2>3, Zenon DEF StopSignals, Become
      <3>2. proc' = proc
        BY <2>3, <3>1 DEF LifeInv
      <3> QED BY <2>3, <3>2
    <2>4. CASE proc' = proc
      BY <2>1, <2>4 DEF LifeInv, Owned, ServerFindable
    <2> QED BY <1>7, <2>2, <2>3, <2>4 DEF StopSignals
  <1>8. CASE StopRemoves
    BY <1>8 DEF StopRemoves, LifeInv, Owned, ServerFindable
  <1>9. CASE \/ RunStop \/ StopChecks \/ StopPolls \/ RestartStops \/ RestartGoesOn
             \/ \E p \in Pids : RunDemo(p)
             \/ UNCHANGED lifeVars
    <2>1. UNCHANGED <<proc, pidFile, hidden>>
      BY <1>9 DEF RunStop, StopChecks, StopPolls, RestartStops, RestartGoesOn, RunDemo,
                  lifeVars
    <2> QED BY <2>1 DEF LifeInv, Owned, ServerFindable
  <1> QED BY <1>1, <1>2, <1>3, <1>4, <1>5, <1>6, <1>7, <1>8, <1>9 DEF LifeNext, StopSteps

\* `isartor stop` finds the server that serves (main.rs:439), with the exceptions
\* that ServerFindable names, whatever crashes, failed starts, overlapping stops
\* and reused numbers go before.
THEOREM ServersAreFindable == LifeSpec => []ServerFindable
  <1>1. LifeInv => ServerFindable
    BY DEF LifeInv
  <1> QED BY <1>1, LifeStarts, LifeKeeps, PTL DEF LifeSpec

-----------------------------------------------------------------------------
(* The update of the binary.                                               *)
Fetching  == {"tag", "redirect", "compare", "download", "move"}
Replacing == {"copy", "copying", "restore"}

Binaries == Complete \cup {"partial", "none"}
UpdateResults  == {"none", "failed", "current", "dry run", "updated", "killed"}
Updates  == [pc : {"idle", "clean"} \cup Fetching \cup Replacing, result : UpdateResults,
             forced : Forced \cup {FALSE}, dry : DryRuns \cup {FALSE},
             bypass : Proxied \cup {FALSE}, from : Complete]

\* BinaryKept alone is not inductive: while the new binary is copied the good
\* copy is the backup, before that and after it the one that is executed.
UpdateInv ==
  /\ exe \in Binaries /\ bak \in Binaries /\ update \in Updates
  /\ update.pc \in Fetching => exe = update.from
  /\ update.pc \in Replacing => bak \in Complete
  /\ update.pc = "clean" => exe = "new"
  /\ update.result \in {"updated", "current"} => exe = "new"
  /\ update.result = "dry run" => exe = update.from
  /\ update.pc # "idle" => update.result = "none"
  /\ BinaryKept

\* The invariant of the update holds before it starts.
LEMMA UpdateStarts == UpdateInit => UpdateInv
  BY DEF UpdateInit, UpdateInv, NoUpdate, Updates, Binaries, UpdateResults, Complete,
         Fetching, Replacing, BinaryKept

\* What the end of a command does, whatever its result.
LEMMA EndedUpdate ==
  ASSUME UpdateInv, NEW result \in UpdateResults, UpdateEnds(result)
  PROVE  /\ update' \in Updates /\ update'.pc = "idle"
         /\ update'.result = result /\ update'.from = update.from
  BY DEF UpdateInv, UpdateEnds, Updates

\* What a step within a command does.
LEMMA SteppedUpdate ==
  ASSUME UpdateInv, NEW pc \in {"idle", "clean"} \cup Fetching \cup Replacing, UpdateStep(pc)
  PROVE  /\ update' \in Updates /\ update'.pc = pc
         /\ update'.result = update.result /\ update'.from = update.from
  BY DEF UpdateInv, UpdateStep, Updates

\* Every step of the update keeps the binary that was last in place.
LEMMA UpdateKeeps == UpdateInv /\ [UpdateNext]_updateVars => UpdateInv'
  <1> SUFFICES ASSUME UpdateInv, [UpdateNext]_updateVars PROVE UpdateInv'
    OBVIOUS
  <1> USE DEF UpdateInv, BinaryKept
  <1>1. CASE RunUpdate
    <2>1. exe \in Complete /\ UNCHANGED <<exe, bak>>
      BY <1>1 DEF RunUpdate
    <2>2. PICK forced \in Forced, dry \in DryRuns, proxied \in Proxied :
            update' = [pc |-> "tag", result |-> "none", forced |-> forced, dry |-> dry,
                       bypass |-> proxied, from |-> exe]
      BY <1>1 DEF RunUpdate
    <2>3. update' \in Updates
      BY <2>1, <2>2 DEF Updates, Fetching, UpdateResults
    <2>4. update'.pc = "tag" /\ update'.result = "none" /\ update'.from = exe
      BY <2>2
    <2> QED BY <2>1, <2>3, <2>4 DEF Fetching, Replacing
  <1>2. CASE FindTag \/ FollowRedirect \/ FetchRelease
    <2>1. UNCHANGED <<exe, bak>> /\ update.pc \in Fetching
      BY <1>2 DEF FindTag, FollowRedirect, FetchRelease, Fetching
    <2>2. \/ \E pc \in Fetching : UpdateStep(pc)
          \/ UpdateEnds("failed")
      BY <1>2 DEF FindTag, FollowRedirect, FetchRelease, Fetching
    <2>3. CASE UpdateEnds("failed")
      BY <2>1, <2>3, EndedUpdate DEF UpdateResults, Fetching, Replacing
    <2>4. ASSUME NEW pc \in Fetching, UpdateStep(pc) PROVE UpdateInv'
      BY <2>1, <2>4, SteppedUpdate DEF Fetching, Replacing
    <2> QED BY <2>2, <2>3, <2>4
  <1>3. CASE CompareVersions
    <2>1. UNCHANGED <<exe, bak>> /\ update.pc = "compare" /\ exe = update.from
      BY <1>3 DEF CompareVersions, Fetching
    <2>2. \/ UpdateEnds("current") /\ update.from = "new"
          \/ UpdateEnds("failed") \/ UpdateEnds("dry run")
          \/ UpdateStep("download")
      BY <1>3 DEF CompareVersions
    <2>3. CASE UpdateStep("download")
      <3>1. update' \in Updates /\ update'.pc = "download"
            /\ update'.result = update.result /\ update'.from = update.from
        BY <2>3, SteppedUpdate DEF Fetching
      <3> QED BY <2>1, <3>1 DEF Fetching, Replacing
    <2>4. ASSUME NEW result \in {"failed", "dry run"}, UpdateEnds(result) PROVE UpdateInv'
      BY <2>1, <2>4, EndedUpdate DEF UpdateResults, Fetching, Replacing
    <2>5. CASE UpdateEnds("current") /\ update.from = "new"
      BY <2>1, <2>5, EndedUpdate DEF UpdateResults, Fetching, Replacing
    <2> QED BY <2>2, <2>3, <2>4, <2>5
  <1>4. CASE MoveAside
    <2>1. update.pc = "move" /\ exe \in Complete /\ update.result = "none"
      BY <1>4 DEF MoveAside, Fetching, Updates
    <2>2. CASE bak' = exe /\ exe' = "none" /\ UpdateStep("copy")
      <3>1. update' \in Updates /\ update'.pc = "copy" /\ update'.result = update.result
        BY <2>2, SteppedUpdate DEF Replacing
      <3> QED BY <2>1, <2>2, <3>1 DEF Fetching, Replacing, Binaries, Complete
    <2>3. CASE UpdateEnds("failed") /\ UNCHANGED <<exe, bak>>
      BY <2>1, <2>3, EndedUpdate DEF UpdateResults, Fetching, Replacing
    <2> QED BY <1>4, <2>2, <2>3 DEF MoveAside
  <1>5. CASE StartCopy \/ FinishCopy
    <2>1. /\ bak' = bak /\ bak \in Complete /\ exe' \in Binaries
          /\ update.result = "none"
      BY <1>5 DEF StartCopy, FinishCopy, Replacing, Binaries, Complete
    <2>2. \/ \E pc \in {"copying", "restore"} : UpdateStep(pc)
          \/ UpdateStep("clean") /\ exe' = "new"
      BY <1>5 DEF StartCopy, FinishCopy
    <2>3. CASE UpdateStep("clean") /\ exe' = "new"
      BY <2>1, <2>3, SteppedUpdate DEF Fetching, Replacing
    <2>4. ASSUME NEW pc \in {"copying", "restore"}, UpdateStep(pc) PROVE UpdateInv'
      BY <2>1, <2>4, SteppedUpdate DEF Fetching, Replacing
    <2> QED BY <2>2, <2>3, <2>4
  <1>6. CASE RestoreBackup
    <2>1. UpdateEnds("failed") /\ bak \in Complete
      BY <1>6 DEF RestoreBackup, Replacing
    <2>2. /\ exe' \in Binaries /\ bak' \in Binaries
          /\ exe' \in Complete \/ bak' \in Complete
      BY <1>6, <2>1 DEF RestoreBackup, Binaries, Complete
    <2> QED BY <2>1, <2>2, EndedUpdate DEF UpdateResults, Fetching, Replacing
  <1>7. CASE RemoveBackup
    <2>1. UpdateEnds("updated") /\ exe' = "new" /\ bak' \in Binaries
      BY <1>7 DEF RemoveBackup, Binaries
    <2> QED BY <2>1, EndedUpdate DEF UpdateResults, Fetching, Replacing, Binaries, Complete
  <1>8. CASE KillUpdate
    BY <1>8, EndedUpdate DEF KillUpdate, UpdateResults, Fetching, Replacing
  <1>9. CASE UNCHANGED updateVars
    BY <1>9 DEF updateVars
  <1> QED BY <1>1, <1>2, <1>3, <1>4, <1>5, <1>6, <1>7, <1>8, <1>9 DEF UpdateNext

\* No sequence of updates, failures and kills (cli/update.rs, self_replace)
\* loses the last complete binary.
THEOREM LastBinaryIsKept == UpdateSpec => []BinaryKept
  <1>1. UpdateInv => BinaryKept
    BY DEF UpdateInv
  <1> QED BY <1>1, UpdateStarts, UpdateKeeps, PTL DEF UpdateSpec

\* `isartor update` tells the truth: when it says that it has updated or that
\* nothing is to be done, the new release is installed (cli/update.rs, handle_update).
THEOREM UpdateTypeCorrect == UpdateSpec => []UpdateTypeOK
  <1>1. UpdateInv => UpdateTypeOK
    BY DEF UpdateInv, UpdateTypeOK, Updates, Binaries, UpdateResults, Fetching, Replacing
  <1> QED BY <1>1, UpdateStarts, UpdateKeeps, PTL DEF UpdateSpec

-----------------------------------------------------------------------------
(* Induction over the lines of a text.                                     *)

\* A set of numbers has a least one.
LEMMA LeastNumber ==
  ASSUME NEW T \in SUBSET Nat, T # {}
  PROVE  \E x \in T : \A y \in T : ~ (y < x)
  <1>1. IsWellFoundedOn(OpToRel(<, Nat), Nat)
    BY NatLessThanWellFounded
  <1>2. PICK x \in T : \A y \in T : ~ (<<y, x>> \in OpToRel(<, Nat))
    BY <1>1, WFMin, Zenon
  <1>3. ASSUME NEW y \in T PROVE ~ (y < x)
    <2>1. ~ (<<y, x>> \in OpToRel(<, Nat))
      BY <1>2
    <2>2. <<y, x>>[1] = y /\ <<y, x>>[2] = x /\ <<y, x>> \in Nat \X Nat
      OBVIOUS
    <2> QED BY <2>1, <2>2, Zenon DEF OpToRel
  <1> QED BY <1>3

\* What holds of 0, and of i + 1 if it holds of i, holds up to n.
LEMMA UpTo ==
  ASSUME NEW n \in Nat, NEW T, 0 \in T, \A i \in 1 .. n : i - 1 \in T => i \in T
  PROVE  \A i \in 0 .. n : i \in T
  <1> DEFINE Bad == {i \in 0 .. n : i \notin T}
  <1>1. ASSUME Bad # {} PROVE FALSE
    <2>0. Bad \in SUBSET Nat
      OBVIOUS
    <2>1. PICK x \in Bad : \A y \in Bad : ~ (y < x)
      <3> HIDE DEF Bad
      <3> QED BY <1>1, <2>0, LeastNumber
    <2>2. x # 0 /\ x \in 1 .. n
      BY <2>1
    <2>3. x - 1 \in T
      BY <2>1, <2>2
    <2> QED BY <2>1, <2>2, <2>3
  <1> QED BY <1>1

\* The recursive functions over the lines of a text are what they say.
LEMMA LoopUnfolds ==
  ASSUME NEW lines, Len(lines) \in Nat
  PROVE  /\ MinifyLoop(lines)[0] = LoopStart
         /\ \A i \in 1 .. Len(lines) :
              MinifyLoop(lines)[i] = MinifyLine(MinifyLoop(lines)[i - 1], lines[i])
  <1> DEFINE T == {n \in 0 .. Len(lines) :
                     \E g : g = [i \in 0 .. n |-> IF i = 0 THEN LoopStart
                                                  ELSE MinifyLine(g[i - 1], lines[i])]}
  <1>1. 0 \in T
    <2> DEFINE g == [i \in 0 .. 0 |-> LoopStart]
    <2>1. g = [i \in 0 .. 0 |-> IF i = 0 THEN LoopStart ELSE MinifyLine(g[i - 1], lines[i])]
      OBVIOUS
    <2> HIDE DEF g
    <2> QED BY <2>1
  <1>2. ASSUME NEW n \in 1 .. Len(lines), n - 1 \in T PROVE n \in T
    <2>1. PICK g : g = [i \in 0 .. n - 1 |-> IF i = 0 THEN LoopStart
                                             ELSE MinifyLine(g[i - 1], lines[i])]
      BY <1>2
    <2> DEFINE h == [i \in 0 .. n |-> IF i = n THEN MinifyLine(g[n - 1], lines[n]) ELSE g[i]]
    <2>2. ASSUME NEW i \in 0 .. n
          PROVE  h[i] = IF i = 0 THEN LoopStart ELSE MinifyLine(h[i - 1], lines[i])
      <3>1. CASE i = n
        BY <3>1
      <3>2. CASE i < n
        <4>1. h[i] = g[i] /\ i \in 0 .. n - 1 /\ (i # 0 => h[i - 1] = g[i - 1])
          BY <3>2
        <4> QED BY <2>1, <4>1
      <3> QED BY <3>1, <3>2
    <2>3. h = [i \in 0 .. n |-> IF i = 0 THEN LoopStart ELSE MinifyLine(h[i - 1], lines[i])]
      BY <2>2
    <2> HIDE DEF h
    <2> QED BY <2>3
  <1>3. Len(lines) \in T
    <2> HIDE DEF T
    <2>1. \A n \in 1 .. Len(lines) : n - 1 \in T => n \in T
      BY <1>2
    <2>2. \A n \in 0 .. Len(lines) : n \in T
      BY <1>1, <2>1, UpTo
    <2> QED BY <2>2
  <1>4. MinifyLoop(lines) =
          [i \in 0 .. Len(lines) |-> IF i = 0 THEN LoopStart
             ELSE MinifyLine(MinifyLoop(lines)[i - 1], lines[i])]
    BY <1>3, Zenon DEF MinifyLoop
  <1> QED BY <1>4

\* The same for the lines that are kept.
LEMMA KeptUnfolds ==
  ASSUME NEW lines, NEW wanted, Len(lines) \in Nat
  PROVE  /\ Kept(lines, wanted)[0] = <<>>
         /\ \A i \in 1 .. Len(lines) :
              Kept(lines, wanted)[i] = AppendIf(i \in wanted, Kept(lines, wanted)[i - 1],
                                                lines[i])
  <1> DEFINE T == {n \in 0 .. Len(lines) :
                     \E g : g = [i \in 0 .. n |-> IF i = 0 THEN <<>> ELSE
                                                  AppendIf(i \in wanted, g[i - 1], lines[i])]}
  <1>1. 0 \in T
    <2> DEFINE g == [i \in 0 .. 0 |-> <<>>]
    <2>1. g = [i \in 0 .. 0 |-> IF i = 0 THEN <<>>
                                ELSE AppendIf(i \in wanted, g[i - 1], lines[i])]
      OBVIOUS
    <2> HIDE DEF g
    <2> QED BY <2>1
  <1>2. ASSUME NEW n \in 1 .. Len(lines), n - 1 \in T PROVE n \in T
    <2>1. PICK g : g = [i \in 0 .. n - 1 |-> IF i = 0 THEN <<>>
                                             ELSE AppendIf(i \in wanted, g[i - 1], lines[i])]
      BY <1>2
    <2> DEFINE h == [i \in 0 .. n |-> IF i = n THEN AppendIf(n \in wanted, g[n - 1], lines[n])
                                ELSE g[i]]
    <2>2. ASSUME NEW i \in 0 .. n
          PROVE  h[i] = IF i = 0 THEN <<>> ELSE AppendIf(i \in wanted, h[i - 1], lines[i])
      <3>1. CASE i = n
        BY <3>1
      <3>2. CASE i < n
        <4>1. h[i] = g[i] /\ i \in 0 .. n - 1 /\ (i # 0 => h[i - 1] = g[i - 1])
          BY <3>2
        <4> QED BY <2>1, <4>1
      <3> QED BY <3>1, <3>2
    <2>3. h = [i \in 0 .. n |-> IF i = 0 THEN <<>>
                                ELSE AppendIf(i \in wanted, h[i - 1], lines[i])]
      BY <2>2
    <2> HIDE DEF h
    <2> QED BY <2>3
  <1>3. Len(lines) \in T
    <2> HIDE DEF T
    <2>1. \A n \in 1 .. Len(lines) : n - 1 \in T => n \in T
      BY <1>2
    <2>2. \A n \in 0 .. Len(lines) : n \in T
      BY <1>1, <2>1, UpTo
    <2> QED BY <2>2
  <1>4. Kept(lines, wanted) =
          [i \in 0 .. Len(lines) |-> IF i = 0 THEN <<>>
             ELSE AppendIf(i \in wanted, Kept(lines, wanted)[i - 1], lines[i])]
    BY <1>3, Zenon DEF Kept
  <1> QED BY <1>4

-----------------------------------------------------------------------------
(* The minifier.                                                           *)

KeptLines == {"text", "blank", "close", "opening", "closing"}

Loops == [block : BOOLEAN, kept : Seq(KeptLines)]

NoBlankPair(lines) ==
  \A i \in 1 .. Len(lines) - 1 : ~ (lines[i] = "blank" /\ lines[i + 1] = "blank")

\* What is kept of a text that grows by a line it does not grow by, or by it.
LEMMA KeptOfPrefix ==
  ASSUME NEW S, NEW lines \in Seq(S), NEW x \in S
  PROVE  NotBlank(Append(lines, x)) = AppendIf(x # "blank", NotBlank(lines), x)
  <1> DEFINE n == Len(lines)
             longer == Append(lines, x)
             T == {i \in 0 .. n : Kept(longer, InkOf(longer))[i] = Kept(lines, InkOf(lines))[i]}
  <1>1. /\ n \in Nat /\ Len(longer) = n + 1 /\ longer[n + 1] = x
        /\ \A i \in 1 .. n : longer[i] = lines[i]
    OBVIOUS
  <1>2. /\ \A i \in 1 .. n : i \in InkOf(longer) <=> i \in InkOf(lines)
        /\ n + 1 \in InkOf(longer) <=> x # "blank"
    BY <1>1 DEF InkOf
  <1> HIDE DEF n, longer
  <1>3. 0 \in T
    BY <1>1, KeptUnfolds DEF n
  <1>4. \A i \in 1 .. n : i - 1 \in T => i \in T
    <2> SUFFICES ASSUME NEW i \in 1 .. n, i - 1 \in T PROVE i \in T
      OBVIOUS
    <2>1. Kept(longer, InkOf(longer))[i] =
            AppendIf(i \in InkOf(longer), Kept(longer, InkOf(longer))[i - 1], longer[i])
      BY <1>1, KeptUnfolds
    <2>2. Kept(lines, InkOf(lines))[i] =
            AppendIf(i \in InkOf(lines), Kept(lines, InkOf(lines))[i - 1], lines[i])
      BY <1>1, KeptUnfolds DEF n
    <2> QED BY <1>1, <1>2, <2>1, <2>2 DEF AppendIf
  <1>5. n \in T
    <2> HIDE DEF T
    <2>1. \A i \in 0 .. n : i \in T
      BY <1>1, <1>3, <1>4, UpTo
    <2> QED BY <1>1, <2>1
  <1>6. Kept(longer, InkOf(longer))[n + 1] =
          AppendIf(n + 1 \in InkOf(longer), Kept(longer, InkOf(longer))[n], longer[n + 1])
    <2>1. n + 1 \in 1 .. Len(longer) /\ n + 1 - 1 = n
      BY <1>1
    <2> QED BY <1>1, <2>1, KeptUnfolds
  <1> QED BY <1>1, <1>2, <1>5, <1>6 DEF NotBlank, n, longer, AppendIf

\* The lines the loop keeps, but for blank ones.
Passing(lines) ==
  {i \in InkOf(lines) : ~MinifyLoop(lines)[i - 1].block /\ lines[i] \in KeptLines}

\* The loop, after any number of lines.
LEMMA LoopKeeps ==
  ASSUME NEW lines \in Seq(AllKinds)
  PROVE  \A i \in 0 .. Len(lines) :
           /\ MinifyLoop(lines)[i] \in Loops
           /\ NoBlankPair(MinifyLoop(lines)[i].kept)
           /\ NotBlank(MinifyLoop(lines)[i].kept) = Kept(lines, Passing(lines))[i]
  <1> DEFINE loop == MinifyLoop(lines)
             said == Kept(lines, Passing(lines))
             T == {i \in 0 .. Len(lines) :
                     /\ loop[i] \in Loops
                     /\ NoBlankPair(loop[i].kept)
                     /\ NotBlank(loop[i].kept) = said[i]}
  <1>0. Len(lines) \in Nat
    OBVIOUS
  <1>1. 0 \in T
    <2>1. loop[0] = LoopStart /\ said[0] = <<>>
      BY <1>0, LoopUnfolds, KeptUnfolds
    <2>2. NotBlank(<<>>) = <<>>
      BY KeptUnfolds DEF NotBlank
    <2>3. NoBlankPair(<<>>)
      BY DEF NoBlankPair
    <2>4. /\ LoopStart.block = FALSE /\ LoopStart.kept = <<>>
      BY DEF LoopStart
    <2>5. LoopStart \in Loops /\ 0 \in 0 .. Len(lines)
      BY <1>0 DEF LoopStart, Loops
    <2> HIDE DEF loop, said
    <2> QED BY <2>1, <2>2, <2>3, <2>4, <2>5, Zenon
  <1>2. \A i \in 1 .. Len(lines) : i - 1 \in T => i \in T
    <2> SUFFICES ASSUME NEW i \in 1 .. Len(lines), i - 1 \in T PROVE i \in T
      OBVIOUS
    <2> DEFINE was == loop[i - 1]
               is  == loop[i]
               line == lines[i]
    <2>1. /\ is = MinifyLine(was, line)
          /\ said[i] = AppendIf(i \in Passing(lines), said[i - 1], line)
      BY <1>0, LoopUnfolds, KeptUnfolds
    <2>2. /\ was \in Loops /\ was.block \in BOOLEAN
          /\ was.kept \in Seq(KeptLines) /\ NoBlankPair(was.kept)
          /\ NotBlank(was.kept) = said[i - 1] /\ line \in AllKinds
      BY DEF Loops
    <2>3. i \in Passing(lines) <=> line # "blank" /\ line \in KeptLines /\ ~was.block
      BY DEF Passing, InkOf
    <2> HIDE DEF loop, said
    <2> SUFFICES /\ is \in Loops /\ NoBlankPair(is.kept)
                 /\ NotBlank(is.kept) =
                      AppendIf(line # "blank" /\ line \in KeptLines /\ ~was.block,
                               NotBlank(was.kept), line)
      BY <2>1, <2>2, <2>3
    <2>4. CASE was.block \/ line \notin KeptLines
      <3>1. is.kept = was.kept /\ is \in Loops
        <4>1. CASE was.block
          <5>1. is = [was EXCEPT !.block = line \notin Closers]
            BY <2>1, <4>1 DEF MinifyLine
          <5>2. (line \notin Closers) \in BOOLEAN
            OBVIOUS
          <5> QED BY <2>2, <5>1, <5>2 DEF Loops
        <4>2. CASE ~was.block /\ line \in {"open", "trailed"}
          <5>1. is = [was EXCEPT !.block = TRUE]
            BY <2>1, <4>2 DEF MinifyLine
          <5> QED BY <2>2, <5>1 DEF Loops
        <4>3. CASE ~was.block /\ line \in {"comment", "framed", "rule"}
          BY <2>1, <2>2, <4>3 DEF MinifyLine
        <4> QED BY <2>2, <2>4, <4>1, <4>2, <4>3 DEF AllKinds, KeptLines
      <3> QED BY <2>2, <2>4, <3>1 DEF AppendIf
    <2>5. CASE ~was.block /\ line \in KeptLines
      <3>0. is = KeepLine(was, line)
        BY <2>1, <2>5 DEF MinifyLine, KeptLines
      <3>2. CASE is = was /\ line = "blank"
        BY <2>2, <3>2 DEF AppendIf
      <3>3. CASE /\ is = [was EXCEPT !.kept = Append(@, line)]
                 /\ line = "blank" /\ was.kept # <<>> => was.kept[Len(was.kept)] # "blank"
        <4>0. Append(was.kept, line) \in Seq(KeptLines)
          BY <2>2, <2>5
        <4>1. is.kept = Append(was.kept, line) /\ is \in Loops
          BY <2>2, <3>3, <4>0 DEF Loops
        <4>2. NotBlank(is.kept) = AppendIf(line # "blank", NotBlank(was.kept), line)
          BY <2>2, <2>5, <4>1, KeptOfPrefix
        <4>3. NoBlankPair(is.kept)
          <5> DEFINE n == Len(was.kept)
          <5>1. /\ n \in Nat /\ Len(is.kept) = n + 1 /\ is.kept[n + 1] = line
                /\ \A k \in 1 .. n : is.kept[k] = was.kept[k]
            BY <2>2, <2>5, <4>1
          <5>2. n > 0 /\ line = "blank" => was.kept[n] # "blank"
            BY <2>2, <3>3
          <5>3. \A k \in 1 .. n - 1 : ~ (was.kept[k] = "blank" /\ was.kept[k + 1] = "blank")
            BY <2>2 DEF NoBlankPair
          <5> HIDE DEF n
          <5>5. ASSUME NEW k \in 1 .. n, is.kept[k] = "blank" PROVE is.kept[k + 1] # "blank"
            <6>1. CASE k = n
              BY <5>1, <5>2, <5>5, <6>1
            <6>2. CASE k < n
              <7>1. k \in 1 .. n - 1 /\ k + 1 \in 1 .. n
                BY <5>1, <6>2
              <7>2. is.kept[k] = was.kept[k] /\ is.kept[k + 1] = was.kept[k + 1]
                BY <5>1, <7>1
              <7> QED BY <5>3, <5>5, <7>1, <7>2
            <6> QED BY <5>1, <6>1, <6>2
          <5> QED BY <5>1, <5>5 DEF NoBlankPair
        <4> QED BY <2>5, <4>1, <4>2, <4>3 DEF AppendIf
      <3> QED BY <3>0, <3>2, <3>3 DEF KeepLine, Last
    <2> QED BY <2>4, <2>5
  <1> HIDE DEF T
  <1>3. \A i \in 0 .. Len(lines) : i \in T
    BY <1>0, <1>1, <1>2, UpTo
  <1> QED BY <1>3 DEF T

\* What the loop takes for a comment is one or is below a line with text behind its
\* comment, and a comment that begins a line is taken for one.
LEMMA LoopSeesComments ==
  ASSUME NEW lines \in Seq(AllKinds)
  PROVE  \A i \in 1 .. Len(lines) :
           /\ MinifyLoop(lines)[i - 1].block => Below({"open", "trailed"}, lines, i)
           /\ Below({"open"}, lines, i) => MinifyLoop(lines)[i - 1].block
  <1> DEFINE loop == MinifyLoop(lines)
             \* the same, of what is above line i + 1
             Under(kinds, i) ==
               \E j \in 1 .. i : lines[j] \in kinds /\ \A k \in j + 1 .. i : lines[k] \notin Closers
             T == {i \in 0 .. Len(lines) :
                     /\ loop[i].block => Under({"open", "trailed"}, i)
                     /\ Under({"open"}, i) => loop[i].block}
  <1>0. Len(lines) \in Nat
    OBVIOUS
  <1>1. 0 \in T
    BY <1>0, LoopUnfolds DEF LoopStart
  <1>2. \A i \in 1 .. Len(lines) : i - 1 \in T => i \in T
    <2> SUFFICES ASSUME NEW i \in 1 .. Len(lines), i - 1 \in T PROVE i \in T
      OBVIOUS
    <2> DEFINE was == loop[i - 1]
               line == lines[i]
    <2>1. /\ loop[i] = MinifyLine(was, line) /\ was \in Loops /\ line \in AllKinds
          /\ i - 1 \in Nat
      BY <1>0, LoopUnfolds, LoopKeeps
    <2>2. /\ was.block => Under({"open", "trailed"}, i - 1)
          /\ Under({"open"}, i - 1) => was.block
      OBVIOUS
    <2>3. \A kinds : Under(kinds, i) <=>
                       line \in kinds \/ (line \notin Closers /\ Under(kinds, i - 1))
      <3> SUFFICES ASSUME NEW kinds
                   PROVE  Under(kinds, i) <=>
                            line \in kinds \/ (line \notin Closers /\ Under(kinds, i - 1))
        OBVIOUS
      <3>1. Under(kinds, i) => line \in kinds \/ (line \notin Closers /\ Under(kinds, i - 1))
        OBVIOUS
      <3>2. line \in kinds => Under(kinds, i)
        OBVIOUS
      <3>3. ASSUME line \notin Closers, Under(kinds, i - 1) PROVE Under(kinds, i)
        <4>1. PICK j \in 1 .. i - 1 :
                lines[j] \in kinds /\ \A k \in j + 1 .. i - 1 : lines[k] \notin Closers
          BY <3>3
        <4>2. \A k \in j + 1 .. i : lines[k] \notin Closers
          BY <3>3, <4>1
        <4> QED BY <4>1, <4>2
      <3> QED BY <3>1, <3>2, <3>3
    <2>4. loop[i].block <=> IF was.block THEN line \notin Closers ELSE line \in {"open", "trailed"}
      <3>1. KeepLine(was, line).block = was.block
        BY <2>1 DEF KeepLine, Loops
      <3> HIDE DEF loop
      <3> QED BY <2>1, <3>1 DEF MinifyLine, Loops
    <2> HIDE DEF Under, loop
    <2>5. "open" \notin Closers
      BY DEF Closers
    <2> QED BY <2>2, <2>3, <2>4, <2>5
  <1> HIDE DEF T
  <1>3. \A i \in 0 .. Len(lines) : i \in T
    BY <1>0, <1>1, <1>2, UpTo
  <1> QED BY <1>0, <1>3 DEF T, Below

LEMMA KeptAreKnown == \A lines \in Seq(KeptLines) : lines \in Seq(AllKinds)
  BY DEF KeptLines, AllKinds

\* Minifying what has been minified changes nothing.
LEMMA MinifiedIsStable ==
  ASSUME NEW lines \in Seq(KeptLines), NoBlankPair(lines)
  PROVE  Minified(lines) = lines
  <1> DEFINE n == Len(lines)
             loop == MinifyLoop(lines)
             T == {i \in 0 .. n : loop[i].block = FALSE /\ loop[i].kept = SubSeq(lines, 1, i)}
  <1>0. n \in Nat
    OBVIOUS
  <1>1. 0 \in T
    <2>1. loop[0].block = FALSE /\ loop[0].kept = <<>>
      BY <1>0, LoopUnfolds DEF LoopStart
    <2>2. SubSeq(lines, 1, 0) = <<>> /\ 0 \in 0 .. n
      BY <1>0
    <2> HIDE DEF loop, n
    <2> QED BY <2>1, <2>2
  <1>2. \A i \in 1 .. n : i - 1 \in T => i \in T
    <2> SUFFICES ASSUME NEW i \in 1 .. n, i - 1 \in T PROVE i \in T
      OBVIOUS
    <2> DEFINE was == loop[i - 1]
               line == lines[i]
    <2>1. loop[i] = MinifyLine(was, line) /\ line \in KeptLines
      BY <1>0, LoopUnfolds
    <2>2. was.block = FALSE /\ was.kept = SubSeq(lines, 1, i - 1)
      OBVIOUS
    <2>3. loop[i] = KeepLine(was, line)
      BY <2>1, <2>2 DEF MinifyLine, KeptLines
    <2>4. ~ (line = "blank" /\ was.kept # <<>> /\ Last(was.kept) = "blank")
      BY <2>1, <2>2 DEF Last, NoBlankPair
    <2>5. loop[i].kept = Append(was.kept, line) /\ loop[i].block = FALSE
      <3>1. was \in Loops
        BY <1>0, LoopKeeps, KeptAreKnown
      <3> QED BY <2>2, <2>3, <2>4, <3>1 DEF KeepLine, Loops
    <2>6. Append(SubSeq(lines, 1, i - 1), line) = SubSeq(lines, 1, i)
      OBVIOUS
    <2> HIDE DEF loop
    <2> QED BY <2>2, <2>5, <2>6
  <1> HIDE DEF T
  <1>3. \A i \in 0 .. n : i \in T
    BY <1>0, <1>1, <1>2, UpTo
  <1>4. loop[n].kept = SubSeq(lines, 1, n)
    BY <1>0, <1>3 DEF T
  <1>5. SubSeq(lines, 1, n) = lines
    OBVIOUS
  <1> QED BY <1>4, <1>5 DEF Minified

\* What the minifier makes of a text, of any length, says the same but for what is
\* on a line with a comment or below one with text behind its comment
\* (stages/log_crunch.rs, minify).
THEOREM MinifiedSaysTheSame ==
  ASSUME NEW lines \in Seq(AllKinds)
  PROVE  /\ SaysOf(Minified(lines), lines, AtRisk(lines))
         /\ NoBlankPair(Minified(lines))
         /\ Minified(Minified(lines)) = Minified(lines)
  <1> DEFINE loop == MinifyLoop(lines)
             kept == Passing(lines)
  <1>1. /\ Len(lines) \in 0 .. Len(lines) /\ kept \in SUBSET InkOf(lines)
        /\ \A i \in kept : i \in 1 .. Len(lines) /\ ~loop[i - 1].block
                           /\ lines[i] \in KeptLines \ {"blank"}
        /\ \A i \in 1 .. Len(lines) : lines[i] \in AllKinds
    BY DEF Passing, InkOf
  <1>2. /\ NotBlank(Minified(lines)) = Kept(lines, kept)[Len(lines)]
        /\ NoBlankPair(Minified(lines)) /\ Minified(lines) \in Seq(KeptLines)
    BY <1>1, LoopKeeps DEF Minified, Loops
  <1>3. ASSUME NEW i \in Saying(lines) \ AtRisk(lines) PROVE i \in kept
    <2>1. /\ i \in 1 .. Len(lines) /\ lines[i] \in {"text", "close", "opening", "closing"}
          /\ ~InComment(lines, i) /\ ~Below({"trailed"}, lines, i)
      BY <1>3 DEF Saying, AtRisk
    <2>2. ~Below({"open", "trailed"}, lines, i)
      BY <2>1 DEF InComment, Below
    <2> QED BY <2>1, <2>2, LoopSeesComments DEF Passing, InkOf, KeptLines
  <1>4. ASSUME NEW i \in kept \ Saying(lines) PROVE Below({"opening"}, lines, i)
    <2>1. i \in 1 .. Len(lines) /\ ~loop[i - 1].block /\ InComment(lines, i)
      BY <1>1, <1>4 DEF Saying, KeptLines
    <2>2. ~Below({"open"}, lines, i)
      BY <2>1, LoopSeesComments
    <2> QED BY <2>1, <2>2 DEF InComment, Below
  <1>5. SaysOf(Minified(lines), lines, AtRisk(lines))
    <2> HIDE DEF kept
    <2> QED BY <1>1, <1>2, <1>3, <1>4 DEF SaysOf
  <1> QED BY <1>2, <1>5, MinifiedIsStable

-----------------------------------------------------------------------------
(* The optimiser.                                                          *)

Seen == [lines : Seq(LineKinds), turn : 0 .. MaxTurns]
Optimised == [was : Seq(LineKinds), is : Seq(LineKinds \cup {"reference"}),
              strategy : {"none", "dedup", "log_crunch"}]

CompressionInv ==
  /\ draft \in Seq(LineKinds) /\ Len(draft) <= MaxTextLines
  /\ seenBy \in [Sessions -> Seen]
  /\ sent.was \in Seq(LineKinds) /\ sent.strategy \in {"none", "dedup", "log_crunch"}
  /\ sent.strategy = "log_crunch" => sent.is = Minified(sent.was)
  /\ sent.strategy = "dedup" =>
       \E s \in Sessions \ {"none"} : seenBy[s].lines = sent.was /\ seenBy[s].turn > 1
  /\ sent.strategy = "none" => sent.is = sent.was

LEMMA CompressionInvInit == CompressionInit => CompressionInv
  BY LinesAssumption DEF CompressionInit, CompressionInv, NotSent, Unseen, Seen

LEMMA CompressionInvStep ==
  ASSUME CompressionInv, [CompressionNext]_compressionVars
  PROVE  CompressionInv'
  <1>1. CASE Draft
    BY <1>1, LinesAssumption DEF Draft, CompressionInv, NotSent
  <1>2. CASE OptimizeText
    <2>1. PICK s \in Sessions, long \in BOOLEAN, marked \in Marked :
            LET instruction == IsInstruction(long, marked)
                o == Execute(s, draft, instruction)
            IN  /\ s # "none" => seenBy[s].turn < MaxTurns
                /\ sent' = [was |-> draft, is |-> o.lines, strategy |-> o.strategy]
                /\ IF instruction THEN CheckAndUpdate(s, draft) ELSE UNCHANGED seenBy
      BY <1>2 DEF OptimizeText
    <2> DEFINE o == Execute(s, draft, IsInstruction(long, marked))
    <2>2. sent'.was = draft /\ sent'.is = o.lines /\ sent'.strategy = o.strategy
      BY <2>1
    <2>3. draft' = draft /\ draft \in Seq(LineKinds) /\ Len(draft) <= MaxTextLines
      BY <1>2 DEF OptimizeText, CompressionInv
    <2>4. seenBy' \in [Sessions -> Seen]
      <3>1. CASE seenBy' = seenBy
        BY <3>1 DEF CompressionInv
      <3>2. CASE IsInstruction(long, marked) /\ s # "none"
        <4>1. seenBy \in [Sessions -> Seen] /\ seenBy[s].turn \in 0 .. MaxTurns - 1
          BY <2>1, <3>2, LinesAssumption DEF CompressionInv, Seen
        <4>2. PICK turn \in {seenBy[s].turn + 1, 1} :
                \/ seenBy' = seenBy
                \/ seenBy' = [seenBy EXCEPT ![s] = [lines |-> draft, turn |-> turn]]
          BY <2>1, <3>2 DEF CheckAndUpdate
        <4>3. [lines |-> draft, turn |-> turn] \in Seen
          BY <2>3, <4>1, <4>2, LinesAssumption DEF Seen
        <4> QED BY <4>1, <4>2, <4>3
      <3> QED BY <2>1, <3>1, <3>2 DEF CheckAndUpdate
    <2>5. CASE o = Outcome(draft, "none")
      BY <2>2, <2>3, <2>4, <2>5 DEF Outcome, CompressionInv
    <2>6. CASE o = Outcome(Minified(draft), "log_crunch")
      BY <2>2, <2>3, <2>4, <2>6 DEF Outcome, CompressionInv
    <2>7. CASE /\ o = Outcome(<<"reference">>, "dedup") /\ Dedup /\ Repeated(s, draft)
               /\ IsInstruction(long, marked)
      <3>1. s \in Sessions \ {"none"} /\ seenBy[s].turn > 0 /\ seenBy[s].lines = draft
        BY <2>7 DEF Repeated
      <3>2. seenBy' = [seenBy EXCEPT ![s] = [lines |-> draft, turn |-> seenBy[s].turn + 1]]
        BY <2>1, <2>7, <3>1 DEF CheckAndUpdate
      <3>3. seenBy'[s].lines = draft /\ seenBy'[s].turn > 1
        <4>1. seenBy \in [Sessions -> Seen] /\ seenBy[s].turn \in Nat
          BY <3>1, LinesAssumption DEF CompressionInv, Seen
        <4>2. seenBy'[s] = [lines |-> draft, turn |-> seenBy[s].turn + 1]
          BY <3>1, <3>2, <4>1
        <4> QED BY <3>1, <4>1, <4>2
      <3>4. sent'.was = draft /\ sent'.strategy = "dedup"
        <4>1. o = Outcome(<<"reference">>, "dedup")
          BY <2>7
        <4> HIDE DEF o
        <4>2. o.strategy = "dedup"
          BY <4>1 DEF Outcome
        <4> QED BY <2>2, <4>2
      <3>5. \E t \in Sessions \ {"none"} : seenBy'[t].lines = sent'.was /\ seenBy'[t].turn > 1
        BY <3>1, <3>3, <3>4
      <3> HIDE DEF o
      <3> QED BY <2>3, <2>4, <3>4, <3>5 DEF CompressionInv
    <2> QED BY <2>5, <2>6, <2>7 DEF Execute
  <1>3. CASE UNCHANGED compressionVars
    BY <1>3 DEF compressionVars, CompressionInv
  <1> QED BY <1>1, <1>2, <1>3 DEF CompressionNext

\* Whatever the sessions and the texts, what is sent instead of an instruction
\* text says the same (compression/pipeline.rs, execute).
THEOREM CompressionIsFaithful == CompressionSpec => []CompressionKeeps
  <1>1. CompressionInv => CompressionKeeps
    <2> SUFFICES ASSUME CompressionInv PROVE CompressionKeeps
      OBVIOUS
    <2>1. sent.was \in Seq(LineKinds) /\ LineKinds \subseteq AllKinds
      BY LinesAssumption DEF CompressionInv
    <2>2. \A i \in 1 .. Len(sent.was) : sent.was[i] \in AllKinds
      BY <2>1
    <2>3. sent.was \in Seq(AllKinds)
      BY <2>1, <2>2, IsASeq
    <2> QED BY <2>3, MinifiedSaysTheSame DEF CompressionInv, CompressionKeeps, NoBlankPair
  <1> QED BY <1>1, CompressionInvInit, CompressionInvStep, PTL DEF CompressionSpec

\* Every variable of the optimiser holds a value of its type.
THEOREM CompressionTypes == CompressionSpec => []CompressionTypeOK
  <1>1. CompressionInv => CompressionTypeOK
    BY DEF CompressionInv, CompressionTypeOK, Seen
  <1> QED BY <1>1, CompressionInvInit, CompressionInvStep, PTL DEF CompressionSpec

-----------------------------------------------------------------------------
(* Copilot.                                                                *)

LoginPCs == {"idle", "reuse", "request", "check", "sleep", "poll", "validate", "save"}
Logins == [pc : LoginPCs, waited : 0 .. ExpiresIn + 1, skip : BOOLEAN,
           via : {"none", "oauth", "pat"}, result : {"none", "failed", "expired", "connected"}]
Chats == [pc : {"idle", "exchange", "complete"}, result : {"none", "failed", "text"}]

\* Whoever signs in does so in one of two ways, and a chat that has exchanged the
\* token had one, which is not forgotten afterwards.
CopilotInv ==
  /\ login \in Logins
  /\ login.pc # "idle" => login.via # "none"
  /\ saved \in {"none", "oauth", "pat", "garbage"}
  /\ token \in {"none", "good", "revoked"}
  /\ chat \in Chats
  /\ chat.pc = "complete" \/ chat.result = "text" => token # "none"

LEMMA CopilotStarts == CopilotInit => CopilotInv
  BY CopilotAssumption DEF CopilotInit, CopilotInv, NoLogin, NoChat, Logins, LoginPCs, Chats

LEMMA CopilotKeeps ==
  ASSUME CopilotInv, [CopilotNext]_copilotVars
  PROVE  CopilotInv'
  <1> USE CopilotAssumption DEF CopilotInv
  <1>1. ASSUME NEW to \in LoginPCs \ {"idle"}, login.via # "none", LoginGoes(to)
        PROVE  login' \in Logins /\ login'.via # "none"
    BY <1>1 DEF LoginGoes, Logins
  <1>2. ASSUME NEW result \in {"failed", "expired", "connected"}, LoginEnds(result)
        PROVE  login' \in Logins /\ login'.pc = "idle"
    BY <1>2 DEF LoginEnds, Logins, LoginPCs
  <1>3. CASE RunLogin
    BY <1>3 DEF RunLogin, Logins, LoginPCs, ShouldReuseSaved
  <1>4. CASE ReuseSaved \/ RequestCode \/ CheckDeadline
    BY <1>1, <1>2, <1>4 DEF ReuseSaved, RequestCode, CheckDeadline, LoginPCs
  <1>5. CASE SleepInterval
    <2>1. PICK waited \in 0 .. ExpiresIn + 1 :
            login' = [login EXCEPT !.pc = "poll", !.waited = waited]
      <3>1. /\ login.waited \in 0 .. ExpiresIn + 1
            /\ login' = [login EXCEPT !.pc = "poll", !.waited =
                           IF login.waited > ExpiresIn THEN login.waited ELSE login.waited + 1]
        BY <1>5 DEF SleepInterval, Logins
      <3>2. (IF login.waited > ExpiresIn THEN login.waited ELSE login.waited + 1)
              \in 0 .. ExpiresIn + 1
        BY <3>1
      <3> QED BY <3>1, <3>2
    <2> QED BY <1>5, <2>1 DEF SleepInterval, Logins, LoginPCs
  <1>6. CASE PollToken \/ Validate
    BY <1>1, <1>2, <1>6 DEF PollToken, Validate, LoginPCs
  <1>7. CASE SaveCredential
    BY <1>2, <1>7 DEF SaveCredential, Logins
  <1>8. CASE StartChat
    BY <1>8 DEF StartChat, Chats
  <1>9. CASE ExchangeSession
    <2>1. /\ UNCHANGED <<login, saved, token>>
          /\ \/ chat' = [pc |-> "idle", result |-> "failed"]
             \/ chat' = [chat EXCEPT !.pc = "complete"] /\ token = "good"
      BY <1>9 DEF ExchangeSession, ExchangeOutcomes
    <2> QED BY <2>1 DEF Chats
  <1>10. CASE CompleteChat
    BY <1>10 DEF CompleteChat, Chats
  <1>11. CASE Revoke \/ UNCHANGED copilotVars
    BY <1>11 DEF Revoke, copilotVars
  <1> QED BY <1>3, <1>4, <1>5, <1>6, <1>7, <1>8, <1>9, <1>10, <1>11
     DEF CopilotNext, LoginSteps

\* What the start-up, stop and restart leave in each variable.
Stops == [pc : {"idle", "check", "signal", "wait", "remove"}, pid : Pids \cup {NoFile},
          polls : 0 .. MaxPolls, failed : BOOLEAN]
LifeTyped ==
  /\ pidFile \in Pids \cup {NoFile, NoNumber}
  /\ stop \in Stops
  /\ restart \in {"idle", "stop", "start"}
  /\ demo \in [Pids -> {"off", "due", "done", "failed"}]
  /\ starts \in 0 .. MaxStarts /\ hidden \subseteq Pids

LEMMA LifeTypedStarts == LifeInit => LifeTyped
  BY LifeAssumption DEF LifeInit, LifeTyped, Stops

LEMMA LifeTypedKeeps ==
  ASSUME LifeTyped, [LifeNext]_lifeVars
  PROVE  LifeTyped'
  <1> USE LifeAssumption DEF LifeTyped
  <1>1. ASSUME NEW failed \in BOOLEAN, StopEnds(failed) PROVE stop' \in Stops
    BY <1>1 DEF StopEnds, Stops
  <1>2. ASSUME BeginStop PROVE stop' \in Stops
    BY <1>1, <1>2 DEF BeginStop, Stops
  <1>3. ASSUME NEW p \in Pids, Gone(p)
        PROVE  demo' \in [Pids -> {"off", "due", "done", "failed"}] /\ hidden' \subseteq Pids
    BY <1>3 DEF Gone
  <1>4. ASSUME NEW p \in Pids, Serve(p)
        PROVE  /\ demo' \in [Pids -> {"off", "due", "done", "failed"}]
               /\ UNCHANGED <<stop, restart, starts>>
    BY <1>4 DEF Serve
  <1>5. ASSUME NEW p \in Pids, Launch(p) PROVE starts' \in 0 .. MaxStarts
    BY <1>5 DEF Launch
  <1>6. ASSUME NEW p \in Pids,
               StartServer(p) \/ StartFails(p) \/ Bind(p) \/ CreatePidFile(p) \/ RunDemo(p)
        PROVE  LifeTyped'
    BY <1>3, <1>5, <1>6 DEF StartServer, StartFails, Bind, CreatePidFile, RunDemo
  <1>7. ASSUME NEW p \in Pids, WritePidFile(p) \/ WritePidFileFails(p) PROVE LifeTyped'
    BY <1>4, <1>7 DEF WritePidFile, WritePidFileFails
  <1>8. ASSUME NEW p \in Pids,
               Crash(p) \/ Reuse(p) \/ BystanderEnds(p) \/ Dies(p) \/ RestartStarts(p)
        PROVE  LifeTyped'
    BY <1>3, <1>5, <1>8 DEF Crash, Reuse, BystanderEnds, Dies, RestartStarts
  <1>9. CASE RunStop \/ RestartStops \/ RestartGoesOn
    BY <1>2, <1>9 DEF RunStop, RestartStops, RestartGoesOn
  <1>10. CASE StopChecks
    <2>1. PICK pc \in {"signal", "remove"}, failed \in BOOLEAN :
            stop' = [stop EXCEPT !.pc = pc, !.failed = failed]
      BY <1>10 DEF StopChecks
    <2> QED BY <1>10, <2>1 DEF StopChecks, Stops
  <1>11. CASE StopSignals
    <2>1. stop' \in Stops
      BY <1>1, <1>11 DEF StopSignals, Stops
    <2>2. demo' \in [Pids -> {"off", "due", "done", "failed"}]
      BY <1>11 DEF StopSignals
    <2> QED BY <1>11, <2>1, <2>2 DEF StopSignals
  <1>12. CASE StopPolls
    <2>1. stop' \in Stops
      <3>1. CASE StopEnds(FALSE)
        BY <1>1, <3>1
      <3>2. CASE stop' = [stop EXCEPT !.pc = "remove"]
        BY <3>2 DEF Stops
      <3>3. CASE stop.polls # MaxPolls /\ stop' = [stop EXCEPT !.polls = @ + 1]
        <4>1. stop.polls + 1 \in 0 .. MaxPolls
          BY <3>3 DEF Stops
        <4> QED BY <3>3, <4>1 DEF Stops
      <3> QED BY <1>12, <3>1, <3>2, <3>3 DEF StopPolls
    <2> QED BY <1>12, <2>1 DEF StopPolls
  <1>13. CASE StopRemoves
    BY <1>1, <1>13 DEF StopRemoves, Stops
  <1>14. CASE UNCHANGED lifeVars
    BY <1>14 DEF lifeVars
  <1> QED BY <1>6, <1>7, <1>8, <1>9, <1>10, <1>11, <1>12, <1>13, <1>14 DEF LifeNext, StopSteps

\* Streaming.
StreamTyped ==
  /\ provider \in [Questions -> Bodies] /\ cache \in [Questions -> Bodies]
  /\ filler \in [Questions -> BOOLEAN]
  /\ reply.to \in Questions \cup {<<"none", FALSE>>} /\ reply.body \in Bodies

LEMMA StreamTypedStarts == StreamInit => StreamTyped
  BY DEF StreamInit, StreamTyped, NoBody, Body, Bodies

LEMMA StreamTypedKeeps ==
  ASSUME StreamTyped, [StreamNext]_streamVars
  PROVE  StreamTyped'
  <1>1. NoBody \in Bodies
    BY DEF NoBody, Body, Bodies
  <1>2. ASSUME NEW q \in Questions, NEW streaming \in BOOLEAN, NEW b \in Bodies
        PROVE  FormFor(q, streaming, b) \in Bodies
    BY DEF FormFor, CachedToSse, Body, Bodies
  <1>3. ASSUME NEW q \in Questions, NEW streaming \in BOOLEAN, NEW b \in Bodies,
               Reply(q, streaming, b)
        PROVE  reply'.to \in Questions \cup {<<"none", FALSE>>} /\ reply'.body \in Bodies
    BY <1>3 DEF Reply
  <1>4. ASSUME NEW q \in Questions, StreamMiss(q) PROVE StreamTyped'
    <2>1. PICK streaming \in BOOLEAN : \E b \in ProviderBodies(q, streaming) :
            /\ provider' = [provider EXCEPT ![q] = b]
            /\ filler' = [filler EXCEPT ![q] = streaming]
            /\ cache' = [cache EXCEPT ![q] = b]
            /\ Reply(q, streaming, FormFor(q, streaming, b))
      BY <1>4, Zenon DEF StreamMiss, Stored
    <2>2. PICK b \in ProviderBodies(q, streaming) :
            /\ provider' = [provider EXCEPT ![q] = b]
            /\ filler' = [filler EXCEPT ![q] = streaming]
            /\ cache' = [cache EXCEPT ![q] = b]
            /\ Reply(q, streaming, FormFor(q, streaming, b))
      BY <2>1
    <2>3. b \in Bodies
      BY DEF ProviderBodies, PassedThrough, BuiltHere, Body, Bodies
    <2> QED BY <1>2, <1>3, <2>2, <2>3 DEF StreamTyped
  <1>5. ASSUME NEW q \in Questions, StreamError(q) PROVE StreamTyped'
    BY <1>1, <1>3, <1>5 DEF StreamError, StreamTyped
  <1>6. ASSUME NEW q \in Questions, StreamHit(q) PROVE StreamTyped'
    <2>1. PICK streaming \in BOOLEAN : Reply(q, streaming, FormFor(q, streaming, cache[q]))
      BY <1>6, Zenon DEF StreamHit
    <2> QED BY <1>2, <1>3, <1>6, <2>1 DEF StreamHit, StreamTyped
  <1>7. ASSUME NEW q \in Questions, StreamEvicts(q) PROVE StreamTyped'
    BY <1>1, <1>7 DEF StreamEvicts, StreamTyped
  <1>8. CASE UNCHANGED streamVars
    BY <1>8 DEF streamVars, StreamTyped
  <1> QED BY <1>4, <1>5, <1>6, <1>7, <1>8 DEF StreamNext

\* The embedded model.  The first token is kept whatever the bound.
Bounded(g) == g.made <= g.bound \/ g.made <= 1
InferenceTyped ==
  /\ \A r \in Callers : gen[r].pc \in Computing <=> holder = r
  /\ \A r \in Callers : Bounded(gen[r])

LEMMA InferenceTypedStarts == InferenceInit => InferenceTyped
  BY CallersAssumption DEF InferenceInit, InferenceTyped, NoGeneration, Computing, Bounded

\* A step of the generation of one request.
LEMMA GenerationStep ==
  ASSUME InferenceInv, InferenceTyped, NEW r \in Callers, NEW g,
         gen' = [gen EXCEPT ![r] = g], Bounded(g),
         \/ holder' = holder /\ (g.pc \in Computing <=> gen[r].pc \in Computing)
         \/ holder = Nobody /\ holder' = r /\ g.pc \in Computing
         \/ holder = r /\ holder' = Nobody /\ g.pc \notin Computing
  PROVE  InferenceTyped'
  <1>1. gen'[r] = g /\ \A q \in Callers \ {r} : gen'[q] = gen[q]
    BY DEF InferenceInv
  <1>2. \A q \in Callers : Bounded(gen'[q])
    BY <1>1 DEF InferenceTyped
  <1>3. \A q \in Callers : gen'[q].pc \in Computing <=> holder' = q
    BY <1>1, CallersAssumption DEF InferenceTyped
  <1> QED BY <1>2, <1>3 DEF InferenceTyped, Bounded

LEMMA InferenceTypedKeeps ==
  ASSUME InferenceInv, InferenceTyped, [InferenceNext]_inferenceVars
  PROVE  InferenceTyped'
  <1>0. /\ gen \in [Callers -> Generations]
        /\ \A r \in Callers : (gen[r].pc \in Computing <=> holder = r) /\ Bounded(gen[r])
        /\ \A r \in Callers : ask[r] = "idle" => gen[r].pc = "none"
    BY DEF InferenceInv, InferenceTyped
  <1>1. ASSUME NEW r \in Callers, NEW bound \in Nat, Spawns(r, bound), UNCHANGED holder,
               gen[r].pc \in {"none", "ended"}
        PROVE  InferenceTyped'
    <2> DEFINE g == [pc |-> "spawned", bound |-> bound, made |-> 0, ok |-> FALSE]
    <2>1. gen' = [gen EXCEPT ![r] = g] /\ g.pc = "spawned" /\ g.made = 0
      BY <1>1 DEF Spawns
    <2> HIDE DEF g
    <2>2. Bounded(g) /\ g.pc \notin Computing /\ gen[r].pc \notin Computing
      BY <1>1, <2>1 DEF Bounded, Computing
    <2> QED BY <1>1, <2>1, <2>2, GenerationStep
  <1>2. ASSUME NEW r \in Callers, LockModel(r) PROVE InferenceTyped'
    <2> DEFINE g == [gen[r] EXCEPT !.pc = "prefill"]
    <2>1. g.pc = "prefill" /\ Bounded(g) /\ gen' = [gen EXCEPT ![r] = g]
      BY <1>0, <1>2 DEF LockModel, Bounded, Generations
    <2> HIDE DEF g
    <2> QED BY <1>2, <2>1, GenerationStep DEF LockModel, Computing
  <1>3. ASSUME NEW r \in Callers, Prefill(r) PROVE InferenceTyped'
    <2>1. PICK next \in {"decode", "done"} :
            gen' = [gen EXCEPT ![r].pc = next, ![r].made = 1]
      BY <1>3 DEF Prefill
    <2> DEFINE g == [gen[r] EXCEPT !.pc = next, !.made = 1]
    <2>2. g.pc = next /\ g.made = 1 /\ gen' = [gen EXCEPT ![r] = g]
      BY <1>0, <2>1 DEF Generations
    <2> HIDE DEF g
    <2>3. Bounded(g) /\ g.pc \in Computing /\ gen[r].pc \in Computing /\ UNCHANGED holder
      BY <1>3, <2>2 DEF Bounded, Computing, Prefill
    <2> QED BY <2>2, <2>3, GenerationStep
  <1>4. ASSUME NEW r \in Callers, Decode(r), gen' = [gen EXCEPT ![r].made = @ + 1]
        PROVE  InferenceTyped'
    <2> DEFINE g == [gen[r] EXCEPT !.made = gen[r].made + 1]
    <2>1. gen[r] \in Generations /\ gen[r].pc = "decode" /\ gen[r].made < gen[r].bound
      BY <1>0, <1>4 DEF Decode
    <2>2. /\ gen[r].made \in Nat /\ gen[r].bound \in Nat
          /\ g.pc = "decode" /\ g.made = gen[r].made + 1 /\ g.bound = gen[r].bound
      BY <2>1, TokensAssumption DEF Generations
    <2>3. gen' = [gen EXCEPT ![r] = g]
      BY <1>0, <1>4
    <2> HIDE DEF g
    <2>4. Bounded(g) /\ g.pc \in Computing /\ gen[r].pc \in Computing /\ UNCHANGED holder
      BY <1>4, <2>1, <2>2 DEF Bounded, Computing, Decode
    <2> QED BY <2>3, <2>4, GenerationStep
  <1>5. ASSUME NEW r \in Callers, gen[r].pc \in Computing, UNCHANGED holder,
               gen' = [gen EXCEPT ![r].pc = "done"]
        PROVE  InferenceTyped'
    <2> DEFINE g == [gen[r] EXCEPT !.pc = "done"]
    <2>1. g.pc = "done" /\ Bounded(g) /\ gen' = [gen EXCEPT ![r] = g]
      BY <1>0, <1>5 DEF Bounded, Generations
    <2> HIDE DEF g
    <2> QED BY <1>5, <2>1, GenerationStep DEF Computing
  <1>6. ASSUME NEW r \in Callers, DecodedAll(r) \/ Decode(r) PROVE InferenceTyped'
    BY <1>4, <1>5, <1>6 DEF DecodedAll, Decode, Computing
  <1>7. ASSUME NEW r \in Callers, gen[r].pc \in Computing, holder' = Nobody, NEW ok \in BOOLEAN,
               gen' = [gen EXCEPT ![r] = [gen[r] EXCEPT !.pc = "ended", !.ok = ok]]
        PROVE  InferenceTyped'
    <2> DEFINE g == [gen[r] EXCEPT !.pc = "ended", !.ok = ok]
    <2>1. g.pc = "ended" /\ Bounded(g) /\ holder = r
      BY <1>0, <1>7 DEF Bounded, Generations
    <2>2. gen' = [gen EXCEPT ![r] = g]
      BY <1>7
    <2> HIDE DEF g
    <2> QED BY <1>7, <2>1, <2>2, GenerationStep DEF Computing
  <1>8. ASSUME NEW r \in Callers, Unlock(r) PROVE InferenceTyped'
    BY <1>0, <1>7, <1>8 DEF Unlock, Computing
  <1>9. ASSUME NEW r \in Callers, PassFails(r) PROVE InferenceTyped'
    <2>1. gen' = [gen EXCEPT ![r] = [gen[r] EXCEPT !.pc = "ended", !.ok = gen[r].ok]]
      BY <1>0, <1>9 DEF PassFails, Generations
    <2>2. gen[r].ok \in BOOLEAN
      BY <1>0 DEF Generations
    <2> QED BY <1>7, <1>9, <2>1, <2>2 DEF PassFails, Computing
  <1>10. ASSUME NEW r \in Callers, Classifies(r) PROVE InferenceTyped'
    BY <1>0, <1>1, <1>10, TokensAssumption DEF Classifies
  <1>11. ASSUME UNCHANGED <<gen, holder>> PROVE InferenceTyped'
    BY <1>11 DEF InferenceTyped, Bounded
  <1>12. ASSUME NEW r \in Callers, Classified(r) PROVE InferenceTyped'
    <2>1. Spawns(r, AnswerTokens) \/ UNCHANGED gen
      BY <1>12, SMTT(30) DEF Classified
    <2> QED BY <1>1, <1>11, <1>12, <2>1, TokensAssumption DEF Classified
  <1>13. ASSUME NEW r \in Callers, AnsweredLocally(r) \/ CallerGone(r) PROVE InferenceTyped'
    BY <1>11, <1>13 DEF AnsweredLocally, CallerGone
  <1>14. CASE UNCHANGED inferenceVars
    BY <1>11, <1>14 DEF inferenceVars
  <1> QED BY <1>2, <1>3, <1>6, <1>8, <1>9, <1>10, <1>12, <1>13, <1>14
       DEF InferenceNext, InferenceSteps

\* Every variable of the embedded model holds a value of its type.
LEMMA InferenceTypes == InferenceInv /\ InferenceTyped => InferenceTypeOK
  <1> SUFFICES ASSUME InferenceInv, InferenceTyped PROVE InferenceTypeOK
    OBVIOUS
  <1>1. ASSUME NEW r \in Callers
        PROVE  /\ gen[r].pc \in {"none", "spawned", "prefill", "decode", "done", "ended"}
               /\ gen[r].made \in 0 .. 1 + AnswerTokens + ClassifyTokens
    <2>1. gen[r] \in Generations /\ Bounded(gen[r])
      BY DEF InferenceInv, InferenceTyped
    <2> QED BY <2>1, TokensAssumption DEF Generations, Stages, Computing, Bounded
  <1>2. \A i \in DOMAIN kv : kv[i].of \in Callers /\ kv[i].at \in Nat
    <2> DEFINE Cell == [of : Callers, at : Nat]
    <2>1. kv \in Seq(Cell)
      BY DEF InferenceInv
    <2> HIDE DEF Cell
    <2>2. \A i \in DOMAIN kv : kv[i] \in Cell
      BY <2>1
    <2> QED BY <2>2 DEF Cell
  <1> QED BY <1>1, <1>2 DEF InferenceInv, InferenceTyped, InferenceTypeOK, AskStates, Computing

-----------------------------------------------------------------------------
(* The counters: the list of recent requests.                              *)
\* Beside what CountInv says.
RecentTyped == recent \in Seq(Layers) /\ Len(recent) <= Recent

LEMMA RecentStarts == VisibilityInit => RecentTyped
  BY RecentAssumption DEF VisibilityInit, RecentTyped

LEMMA RecentKeeps ==
  ASSUME CountInv, RecentTyped, [VisibilityNext]_visibilityVars
  PROVE  RecentTyped'
  <1>1. ASSUME NEW r \in Requests, RecordPrompt(r) PROVE RecentTyped'
    <2> DEFINE l == seen[r].layer
               n == IF Len(recent) < Recent THEN Len(recent) + 1 ELSE Recent
               longer == <<l>> \o recent
    <2>1. l \in Layers
      BY <1>1 DEF RecordPrompt, CountInv, CountsTyped, OnItsWay
    <2>2. recent' = SubSeq(longer, 1, n)
      BY <1>1 DEF RecordPrompt, Recorded
    <2>3. longer \in Seq(Layers) /\ Len(longer) = Len(recent) + 1 /\ Len(recent) \in Nat
      BY <2>1 DEF RecentTyped
    <2>4. n \in 0 .. Len(longer) /\ n <= Recent
      BY <2>3, RecentAssumption DEF RecentTyped
    <2> HIDE DEF longer, n
    <2> QED BY <2>2, <2>3, <2>4, RecentAssumption DEF RecentTyped
  <1>2. recent' = recent => RecentTyped'
    BY DEF RecentTyped
  <1>3. ASSUME NEW r \in Requests,
               \/ Arrives(r) \/ RecordEvent(r) \/ GoesBelow(r) \/ RecordMiss(r)
               \/ Triage(r) \/ UpstreamTry(r) \/ Dropped(r)
        PROVE  recent' = recent
    BY <1>3 DEF Arrives, RecordEvent, GoesBelow, RecordMiss, Triage, UpstreamTry, Dropped
  <1>4. HealthStarts \/ HealthEnds \/ UNCHANGED visibilityVars => recent' = recent
    BY DEF HealthStarts, HealthEnds, visibilityVars
  <1> QED BY <1>1, <1>2, <1>3, <1>4 DEF VisibilityNext

LEMMA VisibilityTypes == CountInv /\ RecentTyped => VisibilityTypeOK
  <1> SUFFICES ASSUME CountInv, RecentTyped PROVE VisibilityTypeOK
    OBVIOUS
  <1>1. counts.deflected \in Nat /\ counts.total \in Nat /\ counts.layer \in [Layers -> Nat]
    BY DEF CountInv, CountsTyped
  <1>2. counts.layer["l3"] \in Nat /\ counts.layer["miss"] \in Nat
    BY <1>1 DEF Layers
  <1>3. counts.deflected \in 0 .. counts.total
    BY <1>1, <1>2 DEF CountInv, AnswersCounted
  <1>4. \A i \in DOMAIN recent : recent[i] \in Layers
    BY DEF RecentTyped
  <1>5. \A r \in Requests : seen[r].pc \in Progresses
    BY DEF CountInv, CountsTyped, SeenRecords
  <1>6. agent.event \in [Events -> Nat] /\ health.pc \in {"idle", "read", "told"}
    BY DEF CountInv, CountsTyped
  <1> QED BY <1>1, <1>3, <1>4, <1>5, <1>6 DEF RecentTyped, VisibilityTypeOK, Progresses

-----------------------------------------------------------------------------
(* The request log: the names of its files.                                *)
\* Names lead to files that are there, and no two of them to the same one.
LogNamed ==
  /\ \A e \in Exchanges : body[e].file \in 0 .. Len(files)
  /\ names \in [Names -> 0 .. Len(files)]
  /\ \A m, n \in Names : names[m] # 0 /\ names[m] = names[n] => m = n

LEMMA LogNamedStarts == LogInit => LogNamed
  <1> SUFFICES ASSUME LogInit PROVE LogNamed
    OBVIOUS
  <1>1. Len(files) = 1
    BY DEF LogInit
  <1> QED BY <1>1 DEF LogInit, LogNamed

LEMMA LogNamedKeeps ==
  ASSUME LogInv, LogNamed, [LogNext]_logVars
  PROVE  LogNamed'
  <1>1. /\ body \in [Exchanges -> BodyRecords] /\ files \in Seq(Seq(Pieces))
        /\ names \in [Names -> 0 .. Len(files)] /\ Len(files) \in Nat
        /\ 0 \in Names
    BY RotationsAssumption DEF LogInv, LogTyped, LogNamed, Names
  \* No file is added: it is enough to look at the names and at one task.
  <1>2. ASSUME Len(files') = Len(files), names' = names,
               \A e \in Exchanges : body'[e].file \in 0 .. Len(files)
        PROVE  LogNamed'
    BY <1>2 DEF LogNamed
  <1>3. ASSUME NEW e \in Exchanges, NEW pc, BodyGoes(e, pc)
        PROVE  \A d \in Exchanges : body'[d].file \in 0 .. Len(files)
    <2>1. body' = [body EXCEPT ![e] = [body[e] EXCEPT !.pc = pc]]
      BY <1>3 DEF BodyGoes
    <2>2. [body[e] EXCEPT !.pc = pc].file = body[e].file
      BY <1>1 DEF BodyRecords
    <2> QED BY <1>1, <2>1, <2>2 DEF LogNamed
  <1>4. ASSUME NEW e \in Exchanges, BodyEnds(e) \/ BodyDropped(e) \/ LogFails(e) \/ StatLog(e)
        PROVE  LogNamed'
    <2>1. UNCHANGED <<names, files>> /\ \E pc : BodyGoes(e, pc)
      BY <1>4 DEF BodyEnds, BodyDropped, LogFails, StatLog
    <2> QED BY <1>2, <1>3, <2>1
  <1>5. ASSUME NEW e \in Exchanges, RemoveOldest(e) PROVE LogNamed'
    <2>1. files' = files /\ names' = [names EXCEPT ![Rotations] = 0]
      BY <1>5 DEF RemoveOldest
    <2>2. \A d \in Exchanges : body'[d].file = body[d].file
      BY <1>1, <1>5 DEF RemoveOldest, BodyRecords
    <2>3. \A n \in Names : names'[n] = IF n = Rotations THEN 0 ELSE names[n]
      BY <1>1, <2>1
    <2>4. names' \in [Names -> 0 .. Len(files)]
      <3>1. 0 \in 0 .. Len(files)
        BY <1>1
      <3> QED BY <1>1, <2>1, <3>1
    <2>5. \A m, n \in Names : names'[m] # 0 /\ names'[m] = names'[n] => m = n
      BY <2>3 DEF LogNamed
    <2> QED BY <2>1, <2>2, <2>4, <2>5 DEF LogNamed
  <1>6. ASSUME NEW e \in Exchanges, ShiftName(e) PROVE LogNamed'
    <2> DEFINE k == body[e].name
    <2>1. files' = files
          /\ (names' = names \/ names' = [names EXCEPT ![k + 1] = names[k], ![k] = 0])
      BY <1>6 DEF ShiftName
    <2>2. \A d \in Exchanges : body'[d].file = body[d].file
      <3>1. \/ body' = [body EXCEPT ![e].pc = "open"]
            \/ body' = [body EXCEPT ![e].name = k - 1]
        BY <1>6 DEF ShiftName
      <3>2. CASE body' = [body EXCEPT ![e].pc = "open"]
        BY <1>1, <3>2 DEF BodyRecords
      <3>3. CASE body' = [body EXCEPT ![e].name = k - 1]
        BY <1>1, <3>3 DEF BodyRecords
      <3> QED BY <3>1, <3>2, <3>3
    <2>3. k \in Names
      BY <1>1 DEF BodyRecords
    <2> HIDE DEF k
    <2>4. CASE names' = names
      BY <1>2, <2>1, <2>2, <2>4 DEF LogNamed
    <2>5. CASE names' = [names EXCEPT ![k + 1] = names[k], ![k] = 0]
      <3>1. k + 1 # k /\ names[k] \in 0 .. Len(files)
        BY <1>1, <2>3 DEF Names
      <3>2. \A n \in Names : names'[n] = IF n = k THEN 0 ELSE IF n = k + 1 THEN names[k] ELSE names[n]
        BY <1>1, <2>5, <3>1
      <3>3. names' \in [Names -> 0 .. Len(files)]
        <4>1. 0 \in 0 .. Len(files)
          BY <1>1
        <4> QED BY <1>1, <2>5, <3>1, <4>1
      <3>4. \A m, n \in Names : names'[m] # 0 /\ names'[m] = names'[n] => m = n
        BY <2>3, <3>2 DEF LogNamed
      <3> QED BY <2>1, <2>2, <3>3, <3>4 DEF LogNamed
    <2> QED BY <2>1, <2>4, <2>5
  <1>7. ASSUME NEW e \in Exchanges, OpenLog(e) PROVE LogNamed'
    <2>1. CASE names[0] = 0
      <3> DEFINE n == Len(files) + 1
      <3>1. /\ files' = Append(files, <<>>) /\ names' = [names EXCEPT ![0] = n]
            /\ body' = [body EXCEPT ![e].pc = "write", ![e].file = n]
        BY <1>7, <2>1 DEF OpenLog
      <3>2. Len(files') = n /\ n \in Nat /\ n # 0
        BY <1>1, <3>1
      <3> HIDE DEF n
      <3>3. \A i \in 0 .. Len(files) : i \in 0 .. n /\ i # n
        BY <1>1 DEF n
      <3>4. \A d \in Exchanges : body'[d].file = IF d = e THEN n ELSE body[d].file
        BY <1>1, <3>1 DEF BodyRecords
      <3>5. \A d \in Exchanges : body'[d].file \in 0 .. n
        BY <3>2, <3>3, <3>4 DEF LogNamed
      <3>6. names' \in [Names -> 0 .. n]
        BY <1>1, <3>1, <3>2, <3>3
      <3>7. \A i, j \in Names : names'[i] # 0 /\ names'[i] = names'[j] => i = j
        BY <1>1, <3>1, <3>3 DEF LogNamed
      <3> QED BY <3>2, <3>5, <3>6, <3>7 DEF LogNamed
    <2>2. CASE names[0] # 0
      <3>1. /\ UNCHANGED <<names, files>>
            /\ body' = [body EXCEPT ![e].pc = "write", ![e].file = names[0]]
        BY <1>7, <2>2 DEF OpenLog
      <3>2. \A d \in Exchanges : body'[d].file = IF d = e THEN names[0] ELSE body[d].file
        BY <1>1, <3>1 DEF BodyRecords
      <3> QED BY <1>1, <1>2, <3>1, <3>2 DEF LogNamed
    <2> QED BY <2>1, <2>2
  <1>8. ASSUME NEW e \in Exchanges, WritePiece(e) PROVE LogNamed'
    <2>1. names' = names /\ Len(files') = Len(files) /\ \E pc : BodyGoes(e, pc)
      BY <1>1, <1>8 DEF WritePiece
    <2> QED BY <1>2, <1>3, <2>1
  <1>9. CASE ShowTail \/ StartFollow \/ PollLength \/ EmitNew \/ UNCHANGED logVars
    <2>1. UNCHANGED <<body, names, files>>
      BY <1>9 DEF ShowTail, StartFollow, PollLength, EmitNew, logVars
    <2> QED BY <2>1 DEF LogNamed
  <1> QED BY <1>4, <1>5, <1>6, <1>7, <1>8, <1>9 DEF LogNext

LEMMA LogTypes == LogInv /\ LogNamed => LogTypeOK
  <1> SUFFICES ASSUME LogInv, LogNamed PROVE LogTypeOK
    OBVIOUS
  <1>1. \A e \in Exchanges : body[e].pc \in BodyPCs /\ body[e].name \in Names
    BY DEF LogInv, LogTyped, BodyRecords
  <1>2. follower.pc \in {"off", "shown", "poll", "read", "ended"}
    BY DEF LogInv, LogTyped, Followers
  <1> QED BY <1>1, <1>2 DEF LogNamed, LogTypeOK, BodyPCs, Writing

-----------------------------------------------------------------------------
(* The MCP servers: the sessions.                                          *)
\* Nobody knows of a session that was not made.
WrittenPairs == Prompts \X McpTexts
SessionsMade ==
  /\ \A p \in Posts : /\ post[p].status \in {0, 200, 202, 400, 404}
                       /\ post[p].session \in 0 .. issued
  /\ registry \subseteq 1 .. issued /\ told \subseteq 1 .. issued
  /\ stdio.lines \in 0 .. MaxLines
  /\ stored \subseteq WrittenPairs

LEMMA SessionsMadeStarts == McpInit => SessionsMade
  <1> SUFFICES ASSUME McpInit PROVE SessionsMade
    OBVIOUS
  <1>1. \A p \in Posts : post[p].status = 0 /\ post[p].session = 0
    BY DEF McpInit, IdlePost
  <1>2. stdio.lines = 0
    BY DEF McpInit, StdioStart
  <1>3. 0 \in 0 .. MaxLines
    BY MaxLinesAssumption
  <1>4. registry = {} /\ issued = 0 /\ told = {} /\ stored = {}
    BY DEF McpInit
  <1>5. 0 \in 0 .. issued
    BY <1>4
  <1> QED BY <1>1, <1>2, <1>3, <1>4, <1>5 DEF SessionsMade

LEMMA SessionsMadeKeeps ==
  ASSUME McpInv, SessionsMade, [McpNext]_mcpVars
  PROVE  SessionsMade'
  <1>1. post \in [Posts -> PostRecords] /\ issued \in Nat /\ stdio \in StdioRecords
    BY DEF McpInv
  \* A task that stays with its session.
  <1>2. ASSUME NEW p \in Posts, NEW y, post' = [post EXCEPT ![p] = y],
               y.session = post[p].session, y.status \in {0, 200, 202, 400, 404},
               UNCHANGED <<registry, issued, stdio>>, told' \subseteq 1 .. issued,
               stored' \subseteq WrittenPairs
        PROVE  SessionsMade'
    BY <1>1, <1>2 DEF SessionsMade
  <1>3. ASSUME NEW m \in Messages, CacheEffect(m) PROVE stored' \subseteq WrittenPairs
    BY <1>3, MessageTypes DEF CacheEffect, SessionsMade, WrittenPairs
  <1>4. ASSUME NEW p \in Posts, PostArrives(p) PROVE SessionsMade'
    <2>1. UNCHANGED <<told, stdio, stored>>
      BY <1>4 DEF PostArrives
    <2>2. ASSUME NEW b, NEW status \in {202, 400, 404}, Refuse(p, b, status),
                 UNCHANGED <<registry, issued>>
          PROVE  SessionsMade'
      <3>1. post' = [post EXCEPT ![p].pc = "done", ![p].batch = b, ![p].status = status]
        BY <2>2 DEF Refuse
      <3>2. post'[p].session = post[p].session /\ post'[p].status = status
        BY <1>1, <3>1 DEF PostRecords
      <3>3. \A q \in Posts : q # p => post'[q] = post[q]
        BY <1>1, <3>1
      <3>4. \A q \in Posts : /\ post'[q].status \in {0, 200, 202, 400, 404}
                             /\ post'[q].session \in 0 .. issued
        BY <3>2, <3>3 DEF SessionsMade
      <3> QED BY <2>1, <2>2, <3>4 DEF SessionsMade
    <2>3. ASSUME NEW b, NEW s \in 1 .. issued',
                 post' = [post EXCEPT ![p].pc = "handle", ![p].batch = b, ![p].session = s],
                 issued' \in {issued, issued + 1}, registry' \subseteq 1 .. issued'
          PROVE  SessionsMade'
      <3>1. \A i \in 0 .. issued : i \in 0 .. issued'
        BY <1>1, <2>3
      <3>2. \A i \in 1 .. issued : i \in 1 .. issued'
        BY <1>1, <2>3
      <3>3. s \in 0 .. issued'
        BY <1>1, <2>3
      <3>4. post'[p].session = s /\ post'[p].status = post[p].status
        BY <1>1, <2>3 DEF PostRecords
      <3>5. \A q \in Posts : q # p => post'[q] = post[q]
        BY <1>1, <2>3
      <3>6. \A q \in Posts : /\ post'[q].status \in {0, 200, 202, 400, 404}
                             /\ post'[q].session \in 0 .. issued'
        BY <3>1, <3>3, <3>4, <3>5 DEF SessionsMade
      <3>7. told' \subseteq 1 .. issued'
        BY <2>1, <3>2 DEF SessionsMade
      <3> QED BY <2>1, <2>3, <3>6, <3>7 DEF SessionsMade
    <2>4. PICK b \in Batches, s \in told \cup {0} :
            IF \A i \in DOMAIN b : ~IsRequest(b[i])
              THEN Refuse(p, b, 202) /\ UNCHANGED <<registry, issued>>
            ELSE IF Initializes(b)
              THEN /\ issued < MaxSessions
                   /\ issued' = issued + 1
                   /\ registry' = registry \cup {issued + 1}
                   /\ post' = [post EXCEPT ![p].pc = "handle", ![p].batch = b,
                                           ![p].session = issued + 1]
              ELSE /\ IF s \in registry
                        THEN post' = [post EXCEPT ![p].pc = "handle", ![p].batch = b,
                                                  ![p].session = s]
                        ELSE Refuse(p, b, IF s = 0 THEN 400 ELSE 404)
                   /\ UNCHANGED <<registry, issued>>
      BY <1>4 DEF PostArrives
    <2>5. CASE \A i \in DOMAIN b : ~IsRequest(b[i])
      <3>1. Refuse(p, b, 202) /\ UNCHANGED <<registry, issued>>
        BY <2>4, <2>5
      <3> QED BY <2>2, <3>1
    <2>6. CASE (\E i \in DOMAIN b : IsRequest(b[i])) /\ Initializes(b)
      <3>1. /\ issued' = issued + 1 /\ registry' = registry \cup {issued + 1}
            /\ post' = [post EXCEPT ![p].pc = "handle", ![p].batch = b,
                                    ![p].session = issued + 1]
        BY <2>4, <2>6
      <3>2. issued + 1 \in 1 .. issued' /\ registry' \subseteq 1 .. issued'
        BY <1>1, <3>1 DEF SessionsMade
      <3> QED BY <2>3, <3>1, <3>2
    <2>7. CASE (\E i \in DOMAIN b : IsRequest(b[i])) /\ ~Initializes(b)
      <3>1. UNCHANGED <<registry, issued>>
        BY <2>4, <2>7
      <3>2. CASE s \in registry
        <4>1. post' = [post EXCEPT ![p].pc = "handle", ![p].batch = b, ![p].session = s]
          BY <2>4, <2>7, <3>2
        <4>2. s \in 1 .. issued' /\ registry' \subseteq 1 .. issued'
          BY <3>1, <3>2 DEF SessionsMade
        <4> QED BY <2>3, <3>1, <4>1, <4>2
      <3>3. CASE s \notin registry
        <4>1. Refuse(p, b, IF s = 0 THEN 400 ELSE 404)
          BY <2>4, <2>7, <3>3
        <4> QED BY <2>2, <3>1, <4>1
      <3> QED BY <3>2, <3>3
    <2> QED BY <2>5, <2>6, <2>7
  <1>5. ASSUME NEW p \in Posts, NEW result, Replied(p, result),
               UNCHANGED <<registry, issued, told, stdio, stored>>
        PROVE  SessionsMade'
    <2> DEFINE y == post'[p]
    <2>1. /\ \A q \in Posts : q # p => post'[q] = post[q]
          /\ y.session = post[p].session /\ y.status = post[p].status
      BY <1>1, <1>5 DEF Replied, PostRecords
    <2> QED BY <1>5, <2>1 DEF SessionsMade
  <1>6. ASSUME NEW p \in Posts, HandleLocally(p) PROVE SessionsMade'
    BY <1>5, <1>6 DEF HandleLocally
  <1>7. ASSUME NEW p \in Posts, HandleCall(p) PROVE SessionsMade'
    <2>1. Current(p) \in Messages
      <3>0. /\ post[p].pc = "handle" /\ post[p].next <= Len(post[p].batch)
            /\ post[p].next \in Nat \ {0} /\ Progress(post[p])
        BY <1>1, <1>7 DEF HandleCall, MoreToDo, McpInv, PostRecords
      <3>a. post[p].batch \in Batches
        BY <3>0 DEF Progress
      <3>1. post[p].batch \in Batches /\ post[p].next \in 1 .. Len(post[p].batch)
        BY <3>0, <3>a, BatchesAssumption
      <3> QED BY <3>1, MessageTypes DEF Current
    <2> DEFINE y == [post[p] EXCEPT !.pc = "called", !.held = Asked(Current(p))]
    <2>2. post' = [post EXCEPT ![p] = y] /\ UNCHANGED <<registry, issued, told, stdio>>
      BY <1>7 DEF HandleCall
    <2>3. y.session = post[p].session /\ y.status = post[p].status
      BY <1>1 DEF PostRecords
    <2>4. stored' \subseteq WrittenPairs
      BY <1>3, <1>7, <2>1 DEF HandleCall
    <2> HIDE DEF y
    <2> QED BY <1>2, <2>2, <2>3, <2>4 DEF SessionsMade
  <1>8. ASSUME NEW p \in Posts, HandleReturn(p) PROVE SessionsMade'
    BY <1>5, <1>8 DEF HandleReturn
  <1>9. ASSUME NEW p \in Posts, PostAnswers(p) PROVE SessionsMade'
    <2> DEFINE status == IF post[p].replies = <<>> THEN 202 ELSE 200
               y == [post[p] EXCEPT !.pc = "done", !.status = status]
    <2>1. post' = [post EXCEPT ![p] = y] /\ UNCHANGED <<registry, issued, stdio, stored>>
      BY <1>9 DEF PostAnswers
    <2>2. y.session = post[p].session /\ y.status = status
      BY <1>1 DEF PostRecords
    <2>3. post[p].session \in 1 .. issued
      <3>1. post[p].pc = "handle"
        BY <1>9 DEF PostAnswers
      <3>2. Progress(post[p])
        BY DEF McpInv
      <3>3. post[p].session \in 0 .. issued
        BY DEF SessionsMade
      <3>4. post[p].session # 0
        BY <3>1, <3>2 DEF Progress
      <3> QED BY <1>1, <3>3, <3>4
    <2>4. told' \subseteq 1 .. issued
      BY <1>9, <2>3 DEF PostAnswers, SessionsMade
    <2> HIDE DEF y
    <2> QED BY <1>2, <2>1, <2>2, <2>4 DEF SessionsMade
  <1>10. ASSUME NEW p \in Posts, PostCancelled(p) PROVE SessionsMade'
    <2> DEFINE y == [post[p] EXCEPT !.pc = "cancelled"]
    <2>1. post' = [post EXCEPT ![p] = y] /\ UNCHANGED <<registry, issued, told, stdio, stored>>
      BY <1>10 DEF PostCancelled
    <2>2. y.session = post[p].session /\ y.status = post[p].status
      BY <1>1 DEF PostRecords
    <2> HIDE DEF y
    <2> QED BY <1>2, <2>1, <2>2 DEF SessionsMade
  <1>11. ASSUME NEW s \in registry, DeleteSession(s) PROVE SessionsMade'
    BY <1>11 DEF DeleteSession, SessionsMade
  <1>12. CASE StdioReads
    <2>1. stdio'.lines = stdio.lines + 1 /\ stdio.lines < MaxLines
      BY <1>1, <1>12 DEF StdioReads, StdioRecords
    <2>2. stdio'.lines \in 0 .. MaxLines
      BY <2>1, MaxLinesAssumption DEF SessionsMade
    <2> QED BY <1>12, <2>2 DEF StdioReads, SessionsMade
  <1>13. CASE GatewayHandles \/ StdioAnswered \/ StdioFails \/ StdioWrites \/ StdioEnds
    <2>1. stdio'.lines = stdio.lines
      BY <1>1, <1>13 DEF GatewayHandles, StdioAnswered, StdioFails, StdioWrites, StdioEnds,
                         StdioRecords
    <2>2. UNCHANGED <<post, registry, issued, told>>
      BY <1>13 DEF GatewayHandles, StdioAnswered, StdioFails, StdioWrites, StdioEnds
    <2>3. GatewayHandles => stdio.line \in Messages /\ CacheEffect(stdio.line)
      BY MessageTypes DEF GatewayHandles, McpInv, StdioTruthful
    <2>4. stored' \subseteq WrittenPairs
      BY <1>3, <1>13, <2>3 DEF StdioAnswered, StdioFails, StdioWrites, StdioEnds, SessionsMade
    <2> QED BY <2>1, <2>2, <2>4 DEF SessionsMade
  <1>14. ASSUME NEW q \in Prompts, Forgets(q) PROVE SessionsMade'
    <2>1. UNCHANGED <<post, registry, issued, told, stdio, stored>>
      BY <1>14 DEF Forgets
    <2> QED BY <2>1 DEF SessionsMade
  <1>15. CASE GatewayRestarts
    <2>1. \A p \in Posts : /\ post'[p].session = post[p].session
                           /\ post'[p].status = post[p].status
      BY <1>1, <1>15 DEF GatewayRestarts, PostRecords
    <2>2. registry' = {} /\ UNCHANGED <<issued, told, stdio, stored>>
      BY <1>15 DEF GatewayRestarts
    <2> QED BY <2>1, <2>2 DEF SessionsMade
  <1>16. CASE UNCHANGED mcpVars
    BY <1>16 DEF mcpVars, SessionsMade
  <1> QED BY <1>4, <1>6, <1>7, <1>8, <1>9, <1>10, <1>11, <1>12, <1>13, <1>14, <1>15, <1>16
       DEF McpNext

LEMMA McpTypes == McpInv /\ SessionsMade => McpTypeOK
  <1> SUFFICES ASSUME McpInv, SessionsMade PROVE McpTypeOK
    OBVIOUS
  <1>1. \A p \in Posts : /\ post[p].pc \in PostPCs /\ post[p].batch \in Batches \cup {<<>>}
                         /\ post[p].held \in Results
    BY DEF McpInv, PostRecords
  <1>2. /\ stdio.pc \in {"read", "ask", "asked", "write", "ended"}
        /\ stdio.line \in Lines \cup {NoMessage}
    BY DEF McpInv, StdioRecords
  <1>3. table \in [Prompts -> McpTexts]
    BY DEF McpInv
  <1> QED BY <1>1, <1>2, <1>3 DEF SessionsMade, McpTypeOK, WrittenPairs

-----------------------------------------------------------------------------
(* The specification that the run checks.                                  *)
\* A step is a step of one part and changes nothing of another.
LEMMA StepsOfParts ==
  ASSUME [ServicesNext]_servicesVars
  PROVE  /\ [McpNext]_mcpVars /\ [LifeNext]_lifeVars /\ [UpdateNext]_updateVars
         /\ [ConfigNext]_configVars /\ [CopilotNext]_copilotVars
         /\ [VisibilityNext]_visibilityVars /\ [LogNext]_logVars /\ [StreamNext]_streamVars
         /\ [CompressionNext]_compressionVars /\ [InferenceNext]_inferenceVars
  <1>1. CASE UNCHANGED servicesVars
    BY <1>1 DEF servicesVars
  <1>2. CASE ServicesNext
    BY <1>2 DEF ServicesNext, Others
  <1> QED BY <1>1, <1>2

\* One part moves in a behaviour of MCServices and the others rest where they
\* start, so the behaviour is one of every part.  This is how MCServices is built,
\* and only serves to bring the theorems on the parts to the formulas of the run.
LEMMA ServicesAreTheParts ==
  ServicesSpec =>
    /\ McpSpec /\ LifeSpec /\ UpdateSpec /\ ConfigSpec /\ CopilotSpec
    /\ VisibilitySpec /\ LogSpec /\ StreamSpec /\ CompressionSpec /\ InferenceSpec
  <1>1. ServicesInit => /\ McpInit /\ LifeInit /\ UpdateInit /\ ConfigInit /\ CopilotInit
                        /\ VisibilityInit /\ LogInit /\ StreamInit /\ CompressionInit
                        /\ InferenceInit
    BY DEF ServicesInit
  <1>2. [ServicesNext]_servicesVars =>
          /\ [McpNext]_mcpVars /\ [LifeNext]_lifeVars /\ [UpdateNext]_updateVars
          /\ [ConfigNext]_configVars /\ [CopilotNext]_copilotVars
          /\ [VisibilityNext]_visibilityVars /\ [LogNext]_logVars /\ [StreamNext]_streamVars
          /\ [CompressionNext]_compressionVars /\ [InferenceNext]_inferenceVars
    BY StepsOfParts
  <1> QED BY <1>1, <1>2, PTL
       DEF ServicesSpec, McpSpec, LifeSpec, UpdateSpec, ConfigSpec, CopilotSpec,
           VisibilitySpec, LogSpec, StreamSpec, CompressionSpec, InferenceSpec

\* Every variable of every part holds a value of its type, and what the types say
\* beyond that: a port has one owner, a file one name, no session outlives its
\* number, an update tells the truth, a chat with an answer had a token.
THEOREM ServicesAreTyped == ServicesSpec => []ServicesTypeOK
  <1> DEFINE Before == /\ McpInv /\ SessionsMade /\ LifeInv /\ LifeTyped
                       /\ ConfigInv /\ CopilotInv /\ CountInv /\ RecentTyped /\ LogInv /\ LogNamed
                       /\ StreamTyped /\ InferenceInv /\ InferenceTyped
  <1>1. ServicesInit => Before
    BY McpStarts, SessionsMadeStarts, LifeStarts, LifeTypedStarts,
       ConfigStarts, CopilotStarts, CountStarts, RecentStarts, LogStarts, LogNamedStarts, StreamTypedStarts,
       InferenceStarts, InferenceTypedStarts
       DEF ServicesInit
  <1>2. Before /\ [ServicesNext]_servicesVars => Before'
    BY StepsOfParts, McpKeeps, SessionsMadeKeeps, LifeKeeps, LifeTypedKeeps,
       ConfigKeeps, CopilotKeeps, CountKeeps, RecentKeeps, LogKeeps, LogNamedKeeps, StreamTypedKeeps,
       InferenceKeeps, InferenceTypedKeeps
  <1>3. Before /\ UpdateTypeOK /\ CompressionTypeOK => ServicesTypeOK
    <2> SUFFICES ASSUME Before, UpdateTypeOK, CompressionTypeOK PROVE ServicesTypeOK
      OBVIOUS
    <2>1. LifeTypeOK
      BY DEF LifeInv, LifeTyped, Owned, LifeTypeOK, Stops
    <2>2. CopilotTypeOK
      BY DEF CopilotInv, CopilotTypeOK, Logins, LoginPCs, Chats
    <2>3. StreamTypeOK
      BY DEF StreamTyped, StreamTypeOK
    <2> QED BY <2>1, <2>2, <2>3, ConfigTypes, McpTypes, VisibilityTypes, LogTypes, InferenceTypes
         DEF ServicesTypeOK
  <1> HIDE DEF Before
  <1> QED BY <1>1, <1>2, <1>3, ServicesAreTheParts, UpdateTypeCorrect, CompressionTypes, PTL
       DEF ServicesSpec

\* Every safety property that the run checks, part by part, for every value of the
\* constants: what a client of MCP is told, what is answered in which form, whom a
\* key is shown to, what the reports and the log say, and what becomes of
\* binaries, processes and texts.
THEOREM ServicesAreSafe ==
  ServicesSpec =>
    [](/\ ToldIsTrue /\ BatchAnswered /\ ServerFindable /\ BinaryKept /\ KeyGoesHome
       /\ CountsAgree /\ LoggedOnce /\ FollowNeverRepeats /\ FormAsAsked /\ CompressionKeeps
       /\ OwnContext)
  BY ServicesAreTheParts, ClientsAreToldTheTruth, BatchesAreAnswered, ServersAreFindable,
     LastBinaryIsKept, KeysGoHome, ReportsAgree, RecordsAreSingle, FollowingShowsOnce,
     FormsAreAsAsked, CompressionIsFaithful, ContextsAreOwn, PTL
=============================================================================
