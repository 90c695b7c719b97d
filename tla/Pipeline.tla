------------------------------ MODULE Pipeline ------------------------------
(***************************************************************************)
(* The pipeline orchestrator: the layers as trait objects behind the       *)
(* adaptive concurrency limiter.  A request holds its permit from          *)
(* admission to release; every early return gives it back.                 *)
(*                                                                         *)
(* A step is the code between two awaits.  The caller may drop the future  *)
(* at any await; an error of a layer never fails the request.              *)
(***************************************************************************)
EXTENDS Integers, Sequences, FiniteSets, SemanticStore

CONSTANTS
  Requests,
  Prompts,
  NoScope,         \* the trait's store has no sessions
  Capacity,        \* max_capacity of the vector store
  MinConcurrency, MaxConcurrency, TargetLatency, Durations, WindowSize, U64

ASSUME CapacityAssumption == Capacity \in Nat \ {0} /\ Ttl \in Nat

VARIABLES
  prompt,                                  \* original_prompt
  stage,                                   \* where execute_pipeline is
  vec,                                     \* whether request_vector is set
  layer,                                   \* resolved_by_layer
  answer,                                  \* the message
  store, inserts,                          \* the vector store
  phase, ticket, inFlight, limit, window   \* the limiter

L == INSTANCE ConcurrencyLimiter WITH Calls <- Requests

\* The limiter is configured as its module requires.
ASSUME ConfigAssumption == L!LimiterAssumption /\ L!WidthAssumption

limiter == <<phase, ticket, inFlight, limit, window>>
results == <<layer, answer>>
vars == <<prompt, stage, vec, layer, answer, store, inserts, limiter>>

Answers  == [origin : Requests, by : {"slm", "llm", "error"}]
NoAnswer == [origin |-> "none", by |-> "none"]

\* The stages at which the permit is in scope.
Working == {"embed", "search", "classify", "execute", "rerank", "complete", "cache"}

GotoStage(r, s) == stage' = [stage EXCEPT ![r] = s]
Resolve(r, l, a) ==
  layer' = [layer EXCEPT ![r] = l] /\ answer' = [answer EXCEPT ![r] = a]

Init ==
  /\ prompt \in [Requests -> Prompts]
  /\ stage = [r \in Requests |-> "start"]
  /\ vec = [r \in Requests |-> FALSE]
  /\ layer = [r \in Requests |-> 0]
  /\ answer = [r \in Requests |-> NoAnswer]
  /\ store = {} /\ inserts = 0
  /\ L!Init

-----------------------------------------------------------------------------
(* Step 0: try_acquire, whose atomics interleave with other threads.       *)

Acquire(r) ==
  /\ stage[r] = "start"
  /\ \/ L!Probe(r) /\ UNCHANGED stage
     \/ L!Admit(r) /\ GotoStage(r, "embed")
     \/ L!Refuse(r) /\ GotoStage(r, "shed")
  /\ UNCHANGED <<prompt, vec, results, store, inserts>>

Shed(r) ==
  /\ stage[r] = "shed"
  /\ L!Undo(r)
  /\ GotoStage(r, "done")
  /\ UNCHANGED <<prompt, vec, results, store, inserts>>

-----------------------------------------------------------------------------
(* Step 1: embed and search.                                               *)

Embed(r) ==
  /\ stage[r] = "embed"
  /\ \/ vec' = [vec EXCEPT ![r] = TRUE] /\ GotoStage(r, "search")
     \/ UNCHANGED vec /\ GotoStage(r, "classify")
  /\ UNCHANGED <<prompt, results, store, inserts, limiter>>

\* Mutant: a hit returns with its permit.
MutantSearchHitReturns(r) ==
  /\ stage[r] = "search"
  /\ \E e \in BestMatch(store, prompt[r], NoScope, 0) : Resolve(r, 1, e.answer)
  /\ GotoStage(r, "done")
  /\ UNCHANGED <<prompt, vec, store, inserts, limiter>>

\* Mutant: the answer of a hit is stored again under the new prompt.
MutantSearchHit(r) ==
  /\ stage[r] = "search"
  /\ \E e \in BestMatch(store, prompt[r], NoScope, 0) : Resolve(r, 1, e.answer)
  /\ GotoStage(r, "cache")
  /\ UNCHANGED <<prompt, vec, store, inserts, limiter>>

\* The permit is released at once; the answer is not stored again.
SearchHit(r) ==
  /\ stage[r] = "search"
  /\ \E e \in BestMatch(store, prompt[r], NoScope, 0) : Resolve(r, 1, e.answer)
  /\ L!Release(r)
  /\ GotoStage(r, "release")
  /\ UNCHANGED <<prompt, vec, store, inserts>>

\* No match, or the store fails.
SearchMiss(r) ==
  /\ stage[r] = "search"
  /\ GotoStage(r, "classify")
  /\ UNCHANGED <<prompt, vec, results, store, inserts, limiter>>

-----------------------------------------------------------------------------
(* Step 2: classify and execute locally; step 2.5: rerank; step 3.         *)

\* A classifier error counts as not simple.
Classify(r) ==
  /\ stage[r] = "classify"
  /\ \E s \in {"execute", "rerank"} : GotoStage(r, s)
  /\ UNCHANGED <<prompt, vec, results, store, inserts, limiter>>

Execute(r) ==
  /\ stage[r] = "execute"
  /\ \/ Resolve(r, 2, [origin |-> r, by |-> "slm"]) /\ GotoStage(r, "cache")
     \/ UNCHANGED results /\ GotoStage(r, "rerank")
  /\ UNCHANGED <<prompt, vec, store, inserts, limiter>>

\* If the reranker fails the first documents are used: it goes on either way.
Rerank(r) ==
  /\ stage[r] = "rerank"
  /\ GotoStage(r, "complete")
  /\ UNCHANGED <<prompt, vec, results, store, inserts, limiter>>

\* An error becomes the text of the response.
Complete(r) ==
  /\ stage[r] = "complete"
  /\ \E by \in {"llm", "error"} : Resolve(r, 3, [origin |-> r, by |-> by])
  /\ GotoStage(r, "cache")
  /\ UNCHANGED <<prompt, vec, store, inserts, limiter>>

-----------------------------------------------------------------------------
(* cache_response and release.                                             *)

NewEntry(r) ==
  [input |-> prompt[r], answer |-> answer[r], scope |-> NoScope, created |-> 0,
   slot |-> inserts]

\* The insertion may fail; then the permit is released.
CacheResponse(r) ==
  /\ stage[r] = "cache"
  /\ \/ /\ vec[r]
        /\ store' = Insert(store, NewEntry(r), 0, Capacity)
        /\ inserts' = inserts + 1
     \/ UNCHANGED <<store, inserts>>
  /\ L!Release(r)
  /\ GotoStage(r, "release")
  /\ UNCHANGED <<prompt, vec, results>>

\* The second half of release: record_latency.
Finish(r) ==
  /\ stage[r] = "release"
  /\ \E latency \in Durations : L!Record(r, latency)
  /\ GotoStage(r, "done")
  /\ UNCHANGED <<prompt, vec, results, store, inserts>>

-----------------------------------------------------------------------------
(* The caller drops the future at an await.                                *)

CancelWork(r) ==
  /\ stage[r] \in Working
  /\ L!DropPermit(r)
  /\ GotoStage(r, "cancelled")
  /\ UNCHANGED <<prompt, vec, results, store, inserts>>

CancelRelease(r) ==
  /\ stage[r] = "release"
  /\ L!DropRelease(r)
  /\ GotoStage(r, "abandoned")
  /\ UNCHANGED <<prompt, vec, results, store, inserts>>

Step(r) ==
  \/ Acquire(r) \/ Shed(r) \/ Embed(r) \/ SearchHit(r) \/ SearchMiss(r)
  \/ Classify(r) \/ Execute(r) \/ Rerank(r) \/ Complete(r)
  \/ CacheResponse(r) \/ Finish(r)

Quiescent ==
  /\ \A r \in Requests : stage[r] \in {"done", "cancelled", "abandoned"}
  /\ UNCHANGED vars

Next ==
  \/ \E r \in Requests : Step(r) \/ CancelWork(r) \/ CancelRelease(r)
  \/ Quiescent

Spec == Init /\ [][Next]_vars
-----------------------------------------------------------------------------
(* Properties.                                                             *)

Stages == Working \cup {"start", "shed", "release", "done", "cancelled", "abandoned"}

\* Every variable holds a value of its type; the limiter has its own invariant.
TypeOK ==
  /\ prompt \in [Requests -> Prompts]
  /\ stage \in [Requests -> Stages]
  /\ vec \in [Requests -> BOOLEAN]
  /\ layer \in [Requests -> 0 .. 3]
  /\ answer \in [Requests -> Answers \cup {NoAnswer}]
  /\ store \subseteq [input : Prompts, answer : Answers, scope : {NoScope},
                      created : {0}, slot : Nat]
  /\ Cardinality(store) <= Capacity
  /\ inserts \in Nat

AtWork    == {r \in Requests : stage[r] \in Working}
Occupying == AtWork \cup {r \in Requests : stage[r] = "shed" \/ phase[r] = "probe"}
Abandoned == {r \in Requests : stage[r] = "abandoned"}

\* A difference, as the counter of the limiter holds it.
Wrapped(n) == IF n < 0 THEN n + U64 ELSE n

\* Through every early return, error, refusal and cancellation a request gives
\* its place back, once: it holds a permit exactly while it works, and the
\* counter counts the requests that work or ask, less one for each abandoned
\* release, which gives its place back twice.  As long as none is abandoned, no
\* more requests work than the ceiling allows (pipeline/orchestrator.rs:71,
\* :169, :274, :434).
PermitsGivenBack ==
  /\ \A r \in Requests : stage[r] \in Working <=> phase[r] = "inside"
  /\ inFlight = Wrapped(Cardinality(Occupying) - Cardinality(Abandoned))
  /\ Abandoned = {} => Cardinality(AtWork) <= MaxConcurrency

\* A cached answer was produced for a prompt similar to the one it answers:
\* hits are not stored again, so similarity does not drift from hit to hit.
HitsAreOneHop ==
  \A r \in Requests : layer[r] = 1 =>
    Score(prompt[r], prompt[answer[r].origin]) >= Threshold
=============================================================================
