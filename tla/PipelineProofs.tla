--------------------------- MODULE PipelineProofs ----------------------------
(***************************************************************************)
(* Proofs about Pipeline, for every number of requests, every similarity   *)
(* score and every configuration of store and limiter.                     *)
(***************************************************************************)
EXTENDS Pipeline, FiniteSetTheorems, TLAPS

\* What is proved of the limiter, for the requests as its callers.
P == INSTANCE ConcurrencyLimiterProofs WITH Calls <- Requests

-----------------------------------------------------------------------------
(* What is known of the limiter.                                            *)

\* The limiter is configured as its proofs require.
LEMMA LimiterReady == P!LimiterAssumption /\ P!WidthAssumption
  BY ConfigAssumption
     DEF ConfigAssumption, L!LimiterAssumption, L!WidthAssumption, P!LimiterAssumption,
         P!WidthAssumption, L!IsFiniteSet, P!IsFiniteSet, L!Cardinality, P!Cardinality

\* The limiter the pipeline calls is the one they are about.
LEMMA SameLimiter == [L!PatientNext]_(L!limiterVars) => [P!PatientNext]_(P!limiterVars)
  BY DEF L!PatientNext, P!PatientNext, L!PatientStep, P!PatientStep, L!Probe,
         P!Probe, L!Admit, P!Admit, L!Refuse, P!Refuse, L!Undo, P!Undo, L!Release,
         P!Release, L!DropPermit, P!DropPermit, L!Record, P!Record, L!Trim, P!Trim,
         L!MinSamples, P!MinSamples, L!Percentile, P!Percentile, L!Rank, P!Rank,
         L!Reduced, P!Reduced, L!Increased, P!Increased, L!Move, P!Move,
         L!Incremented, P!Incremented, L!Decremented, P!Decremented, L!limiterVars,
         P!limiterVars, L!Cardinality, P!Cardinality, L!IsFiniteSet, P!IsFiniteSet

LEMMA SameCardinality ==
  \A S : /\ P!Cardinality(S) = Cardinality(S) /\ (P!IsFiniteSet(S) <=> IsFiniteSet(S))
        /\ L!Cardinality(S) = Cardinality(S) /\ (L!IsFiniteSet(S) <=> IsFiniteSet(S))
  BY DEF P!Cardinality, L!Cardinality, Cardinality, P!IsFiniteSet, L!IsFiniteSet, IsFiniteSet

LEMMA LimiterInit == Init => P!CountInv
  <1>1. Init => P!Init
    BY DEF Init, L!Init, P!Init
  <1>2. P!Init => P!CountInv
    BY LimiterReady, P!CountInit DEF P!CountInit, P!LimiterAssumption, P!WidthAssumption
  <1> QED BY <1>1, <1>2

LEMMA LimiterStep ==
  ASSUME P!CountInv, [L!PatientNext]_(L!limiterVars)
  PROVE  P!CountInv'
  <1>1. [P!PatientNext]_(P!limiterVars)
    BY SameLimiter
  <1> QED BY <1>1, LimiterReady, P!CountStep
          DEF P!CountStep, P!LimiterAssumption, P!WidthAssumption

-----------------------------------------------------------------------------
(* Every permit is given back.                                             *)

\* Every step of the pipeline but the end of an abandoned release is a step of
\* a patient caller of the limiter, or leaves the limiter alone.
LEMMA PatientlyCalled ==
  ASSUME [Next]_vars, \A r \in Requests : ~CancelRelease(r)
  PROVE  [L!PatientNext]_(L!limiterVars)
  <1>1. ASSUME NEW r \in Requests, Acquire(r) \/ Shed(r) \/ SearchHit(r)
                                   \/ CacheResponse(r) \/ CancelWork(r)
        PROVE  L!PatientNext
    <2>1. L!PatientStep(r)
      BY <1>1 DEF Acquire, Shed, SearchHit, CacheResponse, CancelWork, L!PatientStep
    <2> QED BY <2>1 DEF L!PatientNext
  <1>2. ASSUME NEW r \in Requests, Finish(r)
        PROVE  L!PatientNext
    <2>1. L!PatientStep(r)
      BY <1>2 DEF Finish, L!PatientStep
    <2> QED BY <2>1 DEF L!PatientNext
  <1>3. ASSUME NEW r \in Requests,
               Embed(r) \/ SearchMiss(r) \/ Classify(r) \/ Execute(r) \/ Rerank(r)
               \/ Complete(r)
        PROVE  UNCHANGED L!limiterVars
    BY <1>3 DEF Embed, SearchMiss, Classify, Execute, Rerank, Complete, limiter, L!limiterVars
  <1>4. CASE UNCHANGED vars
    BY <1>4 DEF vars, limiter, L!limiterVars
  <1> QED BY <1>1, <1>2, <1>3, <1>4 DEF Next, Step, Quiescent

\* Where a request stands in the limiter, by where it stands in the pipeline.
Place(r) ==
  /\ stage[r] = "start" => phase[r] \in {"out", "probe"}
  /\ stage[r] = "shed" => phase[r] = "refused"
  /\ stage[r] \in Working => phase[r] = "inside"
  /\ stage[r] = "release" => phase[r] = "recording"
  /\ stage[r] \in {"done", "cancelled", "abandoned"} => phase[r] = "out"

\* The permits, the counter, and, as long as no release has been abandoned, the
\* invariant of the limiter, whose tickets bound the work.
PermitInv ==
  /\ stage \in [Requests -> Stages] /\ phase \in [Requests -> L!Phases]
  /\ \A r \in Requests : Place(r)
  /\ inFlight = Wrapped(Cardinality(Occupying) - Cardinality(Abandoned))
  /\ Abandoned = {} => P!CountInv

LEMMA PermitInit == Init => PermitInv
  <1> SUFFICES ASSUME Init PROVE PermitInv
    OBVIOUS
  <1>1. Occupying = {} /\ Abandoned = {}
    BY DEF Init, L!Init, Occupying, AtWork, Abandoned, Working
  <1>2. Cardinality(Occupying) = 0 /\ Cardinality(Abandoned) = 0
    BY <1>1, FS_EmptySet
  <1>3. P!CountInv
    BY LimiterInit
  <1>4. /\ stage \in [Requests -> Stages] /\ phase \in [Requests -> L!Phases]
        /\ \A r \in Requests : Place(r)
    BY DEF Init, L!Init, Stages, L!Phases, Place, Working
  <1>5. inFlight = 0
    BY DEF Init, L!Init
  <1> QED BY <1>2, <1>3, <1>4, <1>5 DEF PermitInv, Wrapped

\* How many requests occupy a place, and how many releases were abandoned.
LEMMA Counts ==
  /\ IsFiniteSet(Occupying) /\ Cardinality(Occupying) \in 0 .. U64 - 1
  /\ IsFiniteSet(Abandoned) /\ Cardinality(Abandoned) \in 0 .. U64 - 1
  /\ \A r \in Requests : r \notin Occupying => Cardinality(Occupying) + 1 < U64
  /\ \A r \in Requests : r \notin Abandoned => Cardinality(Abandoned) + 1 < U64
  <1>1. Occupying \subseteq Requests /\ Abandoned \subseteq Requests
        /\ IsFiniteSet(Requests) /\ Cardinality(Requests) \in Nat
        /\ U64 \in Nat /\ Cardinality(Requests) < U64
    BY ConfigAssumption, SameCardinality, FS_CardinalityType
       DEF ConfigAssumption, L!WidthAssumption, Occupying, AtWork, Abandoned
  <1>2. ASSUME NEW S \in SUBSET Requests
        PROVE  /\ IsFiniteSet(S) /\ Cardinality(S) \in 0 .. U64 - 1
               /\ \A r \in Requests : r \notin S => Cardinality(S) + 1 < U64
    <2>1. IsFiniteSet(S) /\ Cardinality(S) \in Nat /\ Cardinality(S) <= Cardinality(Requests)
      BY <1>1, FS_Subset, FS_CardinalityType
    <2>2. ASSUME NEW r \in Requests, r \notin S PROVE Cardinality(S) + 1 < U64
      <3>1. S \cup {r} \subseteq Requests
        BY <2>2
      <3>2. Cardinality(S \cup {r}) = Cardinality(S) + 1
        BY <2>1, <2>2, FS_AddElement
      <3>3. Cardinality(S \cup {r}) <= Cardinality(Requests)
        BY <1>1, <3>1, FS_Subset
      <3> QED BY <1>1, <2>1, <3>2, <3>3
    <2> QED BY <1>1, <2>1, <2>2
  <1> QED BY <1>1, <1>2

\* A place that is taken, one that is given back, and one that is given back
\* twice, in the wrapping counter.
LEMMA Takes ==
  ASSUME PermitInv, NEW r \in Requests, r \notin Occupying,
         Occupying' = Occupying \cup {r}, Abandoned' = Abandoned,
         inFlight' = L!Incremented(inFlight)
  PROVE  inFlight' = Wrapped(Cardinality(Occupying') - Cardinality(Abandoned'))
  <1>1. Cardinality(Occupying') = Cardinality(Occupying) + 1
    BY Counts, FS_AddElement
  <1>2. U64 \in Nat
    BY ConfigAssumption DEF ConfigAssumption, L!WidthAssumption
  <1> QED BY <1>1, <1>2, Counts DEF PermitInv, Wrapped, L!Incremented

LEMMA Gives ==
  ASSUME PermitInv, NEW r \in Occupying,
         Occupying' = Occupying \ {r}, Abandoned' = Abandoned,
         inFlight' = L!Decremented(inFlight)
  PROVE  inFlight' = Wrapped(Cardinality(Occupying') - Cardinality(Abandoned'))
  <1>1. Cardinality(Occupying') = Cardinality(Occupying) - 1
    BY Counts, FS_RemoveElement
  <1>2. U64 \in Nat
    BY ConfigAssumption DEF ConfigAssumption, L!WidthAssumption
  <1>3. Cardinality(Occupying) # 0
    BY Counts, FS_EmptySet
  <1> QED BY <1>1, <1>2, <1>3, Counts DEF PermitInv, Wrapped, L!Decremented

LEMMA GivesTwice ==
  ASSUME PermitInv, NEW r \in Requests, r \notin Abandoned,
         Occupying' = Occupying, Abandoned' = Abandoned \cup {r},
         inFlight' = L!Decremented(inFlight)
  PROVE  inFlight' = Wrapped(Cardinality(Occupying') - Cardinality(Abandoned'))
  <1>1. Cardinality(Abandoned') = Cardinality(Abandoned) + 1
    BY Counts, FS_AddElement
  <1>2. U64 \in Nat
    BY ConfigAssumption DEF ConfigAssumption, L!WidthAssumption
  <1> QED BY <1>1, <1>2, Counts DEF PermitInv, Wrapped, L!Decremented

\* The limiter's own invariant survives whatever is not an abandoned release.
LEMMA LimiterKept ==
  ASSUME PermitInv, [Next]_vars
  PROVE  Abandoned' = {} => P!CountInv'
  <1> SUFFICES ASSUME Abandoned' = {} PROVE P!CountInv'
    OBVIOUS
  <1>1. \A r \in Requests : ~CancelRelease(r)
    BY DEF CancelRelease, GotoStage, Abandoned, PermitInv
  <1>2. [L!PatientNext]_(L!limiterVars)
    BY <1>1, PatientlyCalled
  <1>3. Abandoned = {}
    <2> SUFFICES ASSUME NEW q \in Requests PROVE stage[q] # "abandoned" \/ stage'[q] = "abandoned"
      BY DEF Abandoned
    <2> USE DEF PermitInv, GotoStage, Working
    <2>1. ASSUME NEW r \in Requests, Step(r) \/ CancelWork(r) \/ CancelRelease(r)
          PROVE  stage[q] # "abandoned" \/ stage'[q] = "abandoned"
      BY <2>1 DEF Step, Acquire, Shed, Embed, SearchHit, SearchMiss, Classify, Execute,
                  Rerank, Complete, CacheResponse, Finish, CancelWork, CancelRelease
    <2>2. CASE UNCHANGED vars
      BY <2>2 DEF vars
    <2> QED BY <2>1, <2>2 DEF Next, Quiescent
  <1> QED BY <1>2, <1>3, LimiterStep DEF PermitInv

\* The counter when nobody takes or gives back a place.
LEMMA KeepsPlace ==
  ASSUME PermitInv, Occupying' = Occupying, Abandoned' = Abandoned, inFlight' = inFlight
  PROVE  inFlight' = Wrapped(Cardinality(Occupying') - Cardinality(Abandoned'))
  BY DEF PermitInv, Wrapped

LEMMA PermitStep ==
  ASSUME PermitInv, [Next]_vars
  PROVE  PermitInv'
  <1> DEFINE Exact  == inFlight' = Wrapped(Cardinality(Occupying') - Cardinality(Abandoned'))
             Placed == /\ stage' \in [Requests -> Stages] /\ phase' \in [Requests -> L!Phases]
                       /\ \A r \in Requests : Place(r)'
  <1>0. /\ stage \in [Requests -> Stages] /\ phase \in [Requests -> L!Phases]
        /\ \A r \in Requests : Place(r)
    BY DEF PermitInv
  <1> USE <1>0 DEF Place, Stages, Working, L!Phases, GotoStage, L!Move, Occupying, AtWork, Abandoned
  <1>1. ASSUME NEW r \in Requests, Acquire(r)
        PROVE  Placed /\ Exact
    <2>1. CASE L!Probe(r) /\ UNCHANGED stage
      <3>1. Placed
        BY <1>1, <2>1 DEF Acquire, L!Probe
      <3>2. r \notin Occupying /\ Occupying' = Occupying \cup {r} /\ Abandoned' = Abandoned
        BY <1>1, <2>1 DEF Acquire, L!Probe
      <3>3. inFlight' = L!Incremented(inFlight)
        BY <2>1 DEF L!Probe
      <3> QED BY <3>1, <3>2, <3>3, Takes
    <2>2. CASE \/ L!Admit(r) /\ GotoStage(r, "embed")
               \/ L!Refuse(r) /\ GotoStage(r, "shed")
      <3>1. Placed
        BY <1>1, <2>2 DEF Acquire, L!Admit, L!Refuse
      <3>2. Occupying' = Occupying /\ Abandoned' = Abandoned /\ inFlight' = inFlight
        BY <1>1, <2>2 DEF Acquire, L!Admit, L!Refuse
      <3> QED BY <3>1, <3>2, KeepsPlace
    <2> QED BY <1>1, <2>1, <2>2 DEF Acquire
  <1>2. ASSUME NEW r \in Requests, Shed(r) \/ SearchHit(r) \/ CacheResponse(r) \/ CancelWork(r)
        PROVE  Placed /\ Exact
    <2>1. Placed
      BY <1>2 DEF Shed, SearchHit, CacheResponse, CancelWork, L!Undo, L!Release, L!DropPermit
    <2>2. r \in Occupying /\ Occupying' = Occupying \ {r} /\ Abandoned' = Abandoned
      BY <1>2 DEF Shed, SearchHit, CacheResponse, CancelWork, L!Undo, L!Release, L!DropPermit
    <2>3. inFlight' = L!Decremented(inFlight)
      BY <1>2 DEF Shed, SearchHit, CacheResponse, CancelWork, L!Undo, L!Release, L!DropPermit
    <2> QED BY <2>1, <2>2, <2>3, Gives
  <1>3. ASSUME NEW r \in Requests,
               Embed(r) \/ SearchMiss(r) \/ Classify(r) \/ Execute(r) \/ Rerank(r) \/ Complete(r)
        PROVE  Placed /\ Exact
    <2> USE DEF Embed, SearchMiss, Classify, Execute, Rerank, Complete, limiter
    <2>1. Placed
      BY <1>3
    <2>2. Occupying' = Occupying /\ Abandoned' = Abandoned /\ inFlight' = inFlight
      BY <1>3
    <2> QED BY <2>1, <2>2, KeepsPlace
  <1>4. ASSUME NEW r \in Requests, Finish(r)
        PROVE  Placed /\ Exact
    <2>1. phase[r] = "recording" /\ phase' = [phase EXCEPT ![r] = "out"] /\ inFlight' = inFlight
      BY <1>4 DEF Finish, L!Record
    <2>2. Placed
      BY <1>4, <2>1 DEF Finish
    <2>3. Occupying' = Occupying /\ Abandoned' = Abandoned
      BY <1>4, <2>1 DEF Finish
    <2> QED BY <2>1, <2>2, <2>3, KeepsPlace
  <1>5. ASSUME NEW r \in Requests, CancelRelease(r)
        PROVE  Placed /\ Exact
    <2> USE DEF CancelRelease, L!DropRelease
    <2>1. Placed
      BY <1>5
    <2>2. r \notin Abandoned /\ Occupying' = Occupying /\ Abandoned' = Abandoned \cup {r}
      BY <1>5
    <2>3. inFlight' = L!Decremented(inFlight)
      BY <1>5
    <2> QED BY <2>1, <2>2, <2>3, GivesTwice
  <1>6. ASSUME UNCHANGED vars
        PROVE  Placed /\ Exact
    <2> USE DEF vars, limiter
    <2>1. Placed
      BY <1>6
    <2>2. Occupying' = Occupying /\ Abandoned' = Abandoned /\ inFlight' = inFlight
      BY <1>6
    <2> QED BY <2>1, <2>2, KeepsPlace
  <1>7. Placed /\ Exact
    BY <1>1, <1>2, <1>3, <1>4, <1>5, <1>6 DEF Next, Step, Quiescent
  <1>8. (Abandoned = {})' => P!CountInv'
    BY LimiterKept
  <1> HIDE DEF Place, Stages, Working, L!Phases, Occupying, AtWork, Abandoned
  <1> QED BY <1>7, <1>8 DEF PermitInv, Wrapped

\* No more requests work than the ceiling allows: they hold the tickets below it.
LEMMA WorkBounded ==
  ASSUME PermitInv, Abandoned = {}
  PROVE  Cardinality(AtWork) <= MaxConcurrency
  <1>1. AtWork \subseteq P!Early(MaxConcurrency)
    BY DEF PermitInv, AtWork, Place, P!CountInv, P!InsideEarly, P!Inside, P!Early, P!Counted
  <1>2. MaxConcurrency \in Nat /\ IsFiniteSet(Requests)
    BY ConfigAssumption, SameCardinality
       DEF ConfigAssumption, L!LimiterAssumption, L!WidthAssumption
  <1>3. IsFiniteSet(P!Early(MaxConcurrency))
    <2>1. P!Early(MaxConcurrency) \subseteq Requests
      BY DEF P!Early, P!Counted
    <2> QED BY <1>2, <2>1, FS_Subset
  <1>4. Cardinality(P!Early(MaxConcurrency)) <= MaxConcurrency
    BY <1>2, SameCardinality DEF PermitInv, P!CountInv, P!TicketsSpread
  <1> QED BY <1>1, <1>2, <1>3, <1>4, FS_Subset, FS_CardinalityType

\* However requests interleave, fail, are refused, dropped or served early, a
\* request holds a permit exactly while it works, gives it back once, and the
\* counter says how many are at it, but for the releases that were abandoned and
\* gave a place back twice; while there are none, the ceiling holds
\* (pipeline/orchestrator.rs, execute_pipeline; concurrency.rs, release and Drop).
THEOREM PermitsAreGivenBack == Spec => []PermitsGivenBack
  <1>1. PermitInv => PermitsGivenBack
    <2> SUFFICES ASSUME PermitInv PROVE PermitsGivenBack
      OBVIOUS
    <2>1. \A r \in Requests : stage[r] \in Working <=> phase[r] = "inside"
      BY DEF PermitInv, Place, Stages, Working
    <2> QED BY <2>1, WorkBounded DEF PermitsGivenBack, PermitInv
  <1>2. PermitInv /\ [Next]_vars => PermitInv'
    BY PermitStep
  <1> QED BY <1>1, <1>2, PermitInit, PTL DEF Spec

-----------------------------------------------------------------------------
(* Semantic hits.                                                          *)

\* A request that is about to store its answer produced it itself, and so did
\* the request whose answer a store entry holds.
OriginsOK ==
  /\ stage \in [Requests -> Stages] /\ layer \in [Requests -> 0 .. 3]
  /\ answer \in [Requests -> Answers \cup {NoAnswer}]
  /\ \A r \in Requests : stage[r] = "cache" =>
       answer[r] \in Answers /\ answer[r].origin = r /\ layer[r] # 1
  /\ \A e \in store : e.answer \in Answers /\ e.input = prompt[e.answer.origin]
  /\ HitsAreOneHop

LEMMA OriginsInit == Init => OriginsOK
  BY DEF Init, OriginsOK, Stages, HitsAreOneHop

LEMMA OriginsStep ==
  ASSUME OriginsOK, [Next]_vars
  PROVE  OriginsOK'
  <1> USE DEF OriginsOK, HitsAreOneHop, GotoStage, Stages, Working
  <1>1. ASSUME NEW r \in Requests, Acquire(r)
        PROVE  OriginsOK'
    BY <1>1 DEF Acquire, results
  <1>2. ASSUME NEW r \in Requests, Shed(r) \/ SearchMiss(r) \/ Classify(r) \/ Rerank(r)
                                   \/ Finish(r) \/ CancelWork(r) \/ CancelRelease(r)
        PROVE  OriginsOK'
    BY <1>2 DEF Shed, SearchMiss, Classify, Rerank, Finish, CancelWork, CancelRelease, results
  <1>3. ASSUME NEW r \in Requests, Embed(r)
        PROVE  OriginsOK'
    BY <1>3 DEF Embed, results
  <1>4. ASSUME NEW r \in Requests, SearchHit(r)
        PROVE  OriginsOK'
    <2>1. PICK e \in BestMatch(store, prompt[r], NoScope, 0) : Resolve(r, 1, e.answer)
      BY <1>4 DEF SearchHit
    <2>2. e \in store /\ Score(prompt[r], e.input) >= Threshold
      BY DEF BestMatch, Candidates, Live
    <2>3. e.answer \in Answers /\ Score(prompt[r], prompt[e.answer.origin]) >= Threshold
      BY <2>2
    <2>4. stage' = [stage EXCEPT ![r] = "release"] /\ prompt' = prompt /\ store' = store
      BY <1>4 DEF SearchHit
    <2> QED BY <2>1, <2>3, <2>4 DEF Resolve
  <1>5. ASSUME NEW r \in Requests, Execute(r)
        PROVE  OriginsOK'
    BY <1>5 DEF Execute, Resolve, Answers, results
  <1>6. ASSUME NEW r \in Requests, Complete(r)
        PROVE  OriginsOK'
    BY <1>6 DEF Complete, Resolve, Answers
  <1>7. ASSUME NEW r \in Requests, CacheResponse(r)
        PROVE  OriginsOK'
    <2>1. store' \subseteq store \cup {NewEntry(r)}
      BY <1>7 DEF CacheResponse, Insert, Live
    <2>2. NewEntry(r).answer \in Answers
          /\ NewEntry(r).input = prompt[NewEntry(r).answer.origin]
      BY <1>7 DEF CacheResponse, NewEntry
    <2>3. \A e \in store' : e.answer \in Answers /\ e.input = prompt[e.answer.origin]
      BY <2>1, <2>2
    <2> QED BY <1>7, <2>3 DEF CacheResponse, results
  <1>8. CASE UNCHANGED vars
    BY <1>8 DEF vars
  <1> QED BY <1>1, <1>2, <1>3, <1>4, <1>5, <1>6, <1>7, <1>8 DEF Next, Step, Quiescent

\* A semantic hit is never more than one similarity step away from the prompt
\* its answer was produced for (orchestrator.rs, step 1b and cache_response).
THEOREM HitsStayOneHop == Spec => []HitsAreOneHop
  <1>1. Init => OriginsOK
    BY OriginsInit
  <1>2. OriginsOK /\ [Next]_vars => OriginsOK'
    BY OriginsStep
  <1>3. OriginsOK => HitsAreOneHop
    BY DEF OriginsOK
  <1> QED BY <1>1, <1>2, <1>3, PTL DEF Spec
=============================================================================
