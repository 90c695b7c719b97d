----------------------- MODULE ConcurrencyLimiterProofs -----------------------
(***************************************************************************)
(* Proofs about ConcurrencyLimiter, for any number of callers, any limits, *)
(* latencies and window size.                                              *)
(***************************************************************************)
EXTENDS ConcurrencyLimiter, FiniteSetTheorems, WellFoundedInduction, TLAPS

USE LimiterAssumption

-----------------------------------------------------------------------------
(* Types and the range of the limit.                                       *)

\* What record_latency makes of the window keeps its size.
LEMMA TrimType ==
  ASSUME NEW w \in Seq(Durations), Len(w) <= WindowSize, NEW d \in Durations
  PROVE  /\ Trim(Append(w, d)) \in Seq(Durations)
         /\ Len(Trim(Append(w, d))) <= WindowSize
  BY DEF Trim

\* The new limit is in range if the old one was.
LEMMA AdaptInRange ==
  ASSUME NEW n \in Nat, MinConcurrency <= n, n <= MaxConcurrency
  PROVE  /\ Reduced(n) \in MinConcurrency .. MaxConcurrency
         /\ Increased(n) \in MinConcurrency .. MaxConcurrency
  <1>1. (n * 9) \div 10 \in Nat /\ (n * 9) \div 10 <= n
    OBVIOUS
  <1> QED BY <1>1 DEF Reduced, Increased

\* The wrapped counter is a u64.
LEMMA WrapType ==
  ASSUME NEW n \in 0 .. U64 - 1
  PROVE  Incremented(n) \in 0 .. U64 - 1 /\ Decremented(n) \in 0 .. U64 - 1
  BY WidthAssumption DEF Incremented, Decremented

LimiterInv == TypeOK /\ LimitInRange

LEMMA LimiterInit == Init => LimiterInv
  BY WidthAssumption, FS_CardinalityType DEF Init, LimiterInv, TypeOK, LimitInRange, Phases

LEMMA LimiterStep ==
  ASSUME LimiterInv, [Next]_limiterVars
  PROVE  LimiterInv'
  <1> USE DEF LimiterInv, TypeOK, LimitInRange, Phases, Move
  <1>1. ASSUME NEW c \in Calls, Probe(c)
        PROVE  LimiterInv'
    <2>1. inFlight' \in 0 .. U64 - 1
      BY <1>1, WrapType DEF Probe
    <2>2. ticket' \in [Calls -> 0 .. U64 - 1]
      BY <1>1 DEF Probe
    <2>3. phase' \in [Calls -> Phases] /\ limit' = limit /\ window' = window
      BY <1>1 DEF Probe
    <2> QED BY <2>1, <2>2, <2>3
  <1>2. ASSUME NEW c \in Calls, Admit(c) \/ Refuse(c)
        PROVE  LimiterInv'
    BY <1>2 DEF Admit, Refuse
  <1>3. ASSUME NEW c \in Calls, Undo(c) \/ Release(c) \/ DropPermit(c) \/ DropRelease(c)
        PROVE  LimiterInv'
    <2>1. inFlight' \in 0 .. U64 - 1
      BY <1>3, WrapType DEF Undo, Release, DropPermit, DropRelease
    <2> QED BY <1>3, <2>1 DEF Undo, Release, DropPermit, DropRelease
  <1>4. ASSUME NEW c \in Calls, NEW latency \in Durations, Record(c, latency)
        PROVE  LimiterInv'
    <2> DEFINE w == Trim(Append(window, latency))
    <2>1. window' = w /\ w \in Seq(Durations) /\ Len(w) <= WindowSize
      BY <1>4, TrimType DEF Record
    <2>2. limit' \in {limit, Reduced(limit), Increased(limit)}
      BY <1>4 DEF Record
    <2>3. limit' \in MinConcurrency .. MaxConcurrency
      <3>1. Reduced(limit) \in MinConcurrency .. MaxConcurrency
            /\ Increased(limit) \in MinConcurrency .. MaxConcurrency
        BY AdaptInRange
      <3> QED BY <2>2, <3>1
    <2>4. phase' \in [Calls -> Phases] /\ ticket' = ticket /\ inFlight' = inFlight
      BY <1>4 DEF Record
    <2> QED BY <2>1, <2>3, <2>4
  <1>5. CASE UNCHANGED limiterVars
    BY <1>5 DEF limiterVars
  <1> QED BY <1>1, <1>2, <1>3, <1>4, <1>5 DEF Next, PatientStep

\* The limiter is well typed and its limit never leaves the configured range,
\* even when releases are abandoned (pipeline/concurrency.rs, record_latency).
THEOREM LimitStaysInRange == Spec => [](TypeOK /\ LimitInRange)
  BY LimiterInit, LimiterStep, PTL DEF Spec, LimiterInv

-----------------------------------------------------------------------------
(* Counting.                                                               *)

\* The calls counted so far that found fewer than n others.
Early(n) == {c \in Counted : ticket[c] < n}

\* Of the calls in flight, at most n found fewer than n others before them:
\* whatever order they entered in, the youngest saw all the older ones.
TicketsSpread == \A n \in Nat : Cardinality(Early(n)) <= n

\* A call inside found the limit, and so the ceiling, above its ticket.
InsideEarly == \A c \in Inside : ticket[c] < MaxConcurrency

CountInv == TypeOK /\ LimitInRange /\ InFlightExact /\ TicketsSpread /\ InsideEarly

LEMMA CountedFinite ==
  /\ IsFiniteSet(Counted) /\ Cardinality(Counted) \in Nat
  /\ Cardinality(Counted) < U64
  /\ \A n : IsFiniteSet(Early(n)) /\ Cardinality(Early(n)) \in Nat
  <1>1. Counted \subseteq Calls /\ \A n : Early(n) \subseteq Counted
    BY DEF Counted, Early
  <1>2. IsFiniteSet(Counted) /\ Cardinality(Counted) <= Cardinality(Calls)
    BY <1>1, WidthAssumption, FS_Subset
  <1>3. \A n : IsFiniteSet(Early(n))
    BY <1>1, <1>2, FS_Subset
  <1>4. Cardinality(Calls) \in Nat /\ Cardinality(Counted) \in Nat
    BY <1>2, WidthAssumption, FS_CardinalityType
  <1> QED BY <1>2, <1>3, <1>4, WidthAssumption, FS_CardinalityType

\* A call that leaves, and one that only moves on, keeps the tickets spread.
LEMMA TicketsShrink ==
  ASSUME TicketsSpread, ticket' = ticket, Counted' \subseteq Counted
  PROVE  TicketsSpread'
  <1> SUFFICES ASSUME NEW n \in Nat PROVE Cardinality(Early(n)') <= n
    BY DEF TicketsSpread
  <1>1. Early(n)' \subseteq Early(n)
    BY DEF Early
  <1>2. Cardinality(Early(n)') <= Cardinality(Early(n)) /\ Cardinality(Early(n)') \in Nat
    BY <1>1, CountedFinite, FS_Subset, FS_CardinalityType
  <1>3. Cardinality(Early(n)) <= n /\ Cardinality(Early(n)) \in Nat
    BY CountedFinite DEF TicketsSpread
  <1> QED BY <1>2, <1>3

LEMMA CountInit == Init => CountInv
  <1> SUFFICES ASSUME Init PROVE CountInv
    OBVIOUS
  <1>1. Counted = {} /\ \A n : Early(n) = {}
    BY DEF Init, Counted, Early
  <1>2. InFlightExact /\ TicketsSpread
    BY <1>1, FS_EmptySet DEF Init, InFlightExact, TicketsSpread
  <1>3. InsideEarly
    BY DEF Init, InsideEarly, Inside
  <1> QED BY <1>2, <1>3, LimiterInit DEF CountInv, LimiterInv

\* A call that starts asking is counted, behind everyone counted before it.
LEMMA ProbeCounts ==
  ASSUME CountInv, NEW c \in Calls, Probe(c)
  PROVE  InFlightExact' /\ TicketsSpread'
  <1>0. phase \in [Calls -> Phases] /\ ticket \in [Calls -> 0 .. U64 - 1]
        /\ inFlight = Cardinality(Counted) /\ c \notin Counted
    BY DEF CountInv, TypeOK, InFlightExact, Probe, Counted
  <1>1. Counted' = Counted \cup {c}
    BY <1>0 DEF Probe, Move, Counted
  <1>2. Cardinality(Counted') = inFlight + 1 /\ inFlight \in Nat
    BY <1>0, <1>1, CountedFinite, FS_AddElement
  <1>3. inFlight + 1 < U64
    <2>1. Counted' \subseteq Calls
      BY DEF Counted
    <2>2. Cardinality(Counted') <= Cardinality(Calls)
      BY <2>1, WidthAssumption, FS_Subset
    <2> QED BY <1>2, <2>2, WidthAssumption, FS_CardinalityType
  <1>4. InFlightExact'
    BY <1>2, <1>3, WidthAssumption DEF Probe, Incremented, InFlightExact
  <1>5. ASSUME NEW n \in Nat PROVE Cardinality(Early(n)') <= n
    <2>1. ticket'[c] = inFlight /\ \A d \in Counted : ticket'[d] = ticket[d]
      BY <1>0 DEF Probe, Counted
    <2>2. CASE n <= inFlight
      <3>1. Early(n)' = Early(n)
        BY <1>1, <1>2, <2>1, <2>2 DEF Early
      <3> QED BY <3>1 DEF CountInv, TicketsSpread
    <2>3. CASE n > inFlight
      <3>1. Early(n)' \subseteq Counted'
        BY DEF Early
      <3>2. IsFiniteSet(Counted')
        BY <1>1, CountedFinite, FS_AddElement
      <3>3. Cardinality(Early(n)') <= Cardinality(Counted') /\ Cardinality(Early(n)') \in Nat
        BY <3>1, <3>2, FS_Subset, FS_CardinalityType
      <3> QED BY <1>2, <2>3, <3>3
    <2> QED BY <1>2, <2>2, <2>3
  <1>6. TicketsSpread'
    BY <1>5 DEF TicketsSpread
  <1> QED BY <1>4, <1>6

\* A call that leaves is no longer counted.
LEMMA LeaveCounts ==
  ASSUME CountInv, NEW c \in Calls, Undo(c) \/ Release(c) \/ DropPermit(c)
  PROVE  InFlightExact' /\ TicketsSpread'
  <1>0. phase \in [Calls -> Phases] /\ inFlight = Cardinality(Counted)
    BY DEF CountInv, TypeOK, InFlightExact
  <1>1. c \in Counted /\ Counted' = Counted \ {c} /\ ticket' = ticket
        /\ inFlight' = Decremented(inFlight)
    BY <1>0 DEF Undo, Release, DropPermit, Move, Counted
  <1>2. Cardinality(Counted') = inFlight - 1 /\ inFlight \in Nat
    BY <1>0, <1>1, CountedFinite, FS_RemoveElement
  <1>3. inFlight # 0
    BY <1>0, <1>1, CountedFinite, FS_EmptySet
  <1>4. InFlightExact'
    BY <1>1, <1>2, <1>3 DEF Decremented, InFlightExact
  <1>5. TicketsSpread'
    BY <1>1, TicketsShrink DEF CountInv
  <1> QED BY <1>4, <1>5

\* Only Admit lets a call inside, and only below the limit.
LEMMA InsideStep ==
  ASSUME CountInv, [PatientNext]_limiterVars
  PROVE  InsideEarly'
  <1> USE DEF CountInv, TypeOK, InsideEarly, Inside, Move
  <1>1. ASSUME NEW c \in Calls, Admit(c)
        PROVE  InsideEarly'
    BY <1>1 DEF Admit, LimitInRange
  <1>2. ASSUME NEW c \in Calls, Probe(c)
        PROVE  InsideEarly'
    BY <1>2 DEF Probe
  <1>3. ASSUME NEW c \in Calls, Refuse(c) \/ Undo(c) \/ Release(c) \/ DropPermit(c)
        PROVE  InsideEarly'
    BY <1>3 DEF Refuse, Undo, Release, DropPermit
  <1>4. ASSUME NEW c \in Calls, NEW latency \in Durations, Record(c, latency)
        PROVE  InsideEarly'
    BY <1>4 DEF Record
  <1>5. ASSUME UNCHANGED limiterVars
        PROVE  InsideEarly'
    BY <1>5 DEF limiterVars
  <1> QED BY <1>1, <1>2, <1>3, <1>4, <1>5 DEF PatientNext, PatientStep

LEMMA CountStep ==
  ASSUME CountInv, [PatientNext]_limiterVars
  PROVE  CountInv'
  <1>1. LimiterInv'
    BY LimiterStep DEF CountInv, LimiterInv, Next, PatientNext
  <1>2. ASSUME ticket' = ticket, inFlight' = inFlight, Counted' = Counted
        PROVE  InFlightExact' /\ TicketsSpread'
    BY <1>2, TicketsShrink DEF CountInv, InFlightExact
  <1>3. ASSUME NEW c \in Calls, Admit(c) \/ Refuse(c)
        PROVE  InFlightExact' /\ TicketsSpread'
    <2>1. Counted' = Counted
      BY <1>3 DEF Admit, Refuse, Move, Counted, CountInv, TypeOK
    <2> QED BY <1>2, <1>3, <2>1 DEF Admit, Refuse
  <1>4. ASSUME NEW c \in Calls, NEW latency \in Durations, Record(c, latency)
        PROVE  InFlightExact' /\ TicketsSpread'
    <2>1. Counted' = Counted
      BY <1>4 DEF Record, Move, Counted, CountInv, TypeOK
    <2> QED BY <1>2, <1>4, <2>1 DEF Record
  <1>5. ASSUME UNCHANGED limiterVars
        PROVE  InFlightExact' /\ TicketsSpread'
    <2>1. Counted' = Counted
      BY <1>5 DEF limiterVars, Counted
    <2> QED BY <1>2, <1>5, <2>1 DEF limiterVars
  <1>6. InFlightExact' /\ TicketsSpread'
    BY <1>3, <1>4, <1>5, ProbeCounts, LeaveCounts DEF PatientNext, PatientStep
  <1> QED BY <1>1, <1>6, InsideStep DEF CountInv, LimiterInv

LEMMA Counting == PatientSpec => []CountInv
  <1>1. Init => CountInv
    BY CountInit
  <1>2. CountInv /\ [PatientNext]_limiterVars => CountInv'
    BY CountStep
  <1> QED BY <1>1, <1>2, PTL DEF PatientSpec

\* The in-flight counter is exact as long as no release is abandoned
\* (concurrency.rs, try_acquire, release and Drop).
THEOREM CounterIsExact == PatientSpec => []InFlightExact
  BY Counting, PTL DEF CountInv

\* Then no more calls are ever inside than the ceiling allows, in every
\* interleaving of the two atomics of try_acquire with limit changes, and the
\* limit stays between floor and ceiling.
THEOREM CeilingHolds == PatientSpec => []AdmissionBounded
  <1>1. CountInv => AdmissionBounded
    <2> SUFFICES ASSUME CountInv PROVE Cardinality(Inside) <= MaxConcurrency
      BY DEF AdmissionBounded, CountInv
    <2>1. Inside \subseteq Early(MaxConcurrency)
      BY DEF CountInv, InsideEarly, Inside, Counted, Early
    <2>2. Cardinality(Inside) <= Cardinality(Early(MaxConcurrency))
          /\ Cardinality(Inside) \in Nat
      BY <2>1, CountedFinite, FS_Subset, FS_CardinalityType
    <2>3. Cardinality(Early(MaxConcurrency)) <= MaxConcurrency
          /\ Cardinality(Early(MaxConcurrency)) \in Nat
      BY CountedFinite DEF CountInv, TicketsSpread
    <2> QED BY <2>2, <2>3
  <1> QED BY <1>1, Counting, PTL

-----------------------------------------------------------------------------
(* The percentile of the window.                                           *)

\* Every set of naturals has a least element.
LEMMA Least ==
  ASSUME NEW T \in SUBSET Nat, T # {}
  PROVE  \E x \in T : \A y \in T : x <= y
  <1>1. IsWellFoundedOn(OpToRel(<, Nat), Nat)
    BY NatLessThanWellFounded
  <1>2. PICK x \in T : \A y \in T : ~ (<<y, x>> \in OpToRel(<, Nat))
    BY <1>1, WFMin, Zenon
  <1>3. ASSUME NEW y \in T PROVE ~ (y < x)
    <2>1. ~ (<<y, x>> \in OpToRel(<, Nat))
      BY <1>2
    <2>2. <<y, x>>[1] = y /\ <<y, x>>[2] = x /\ <<y, x>> \in Nat \X Nat
      OBVIOUS
    <2> QED BY <2>1, <2>2, Zenon DEF OpToRel
  <1> QED BY <1>3

\* How many samples are below d, and how many are at most d.
Below(w, d)  == {i \in DOMAIN w : w[i] < d}
AtMost(w, d) == {i \in DOMAIN w : w[i] <= d}

\* Samples are naturals.
LEMMA Sampled ==
  ASSUME NEW w \in Seq(Durations)
  PROVE  \A i \in DOMAIN w : w[i] \in Nat
  <1>1. \A i \in 1 .. Len(w) : w[i] \in Durations
    OBVIOUS
  <1>2. DOMAIN w = 1 .. Len(w)
    OBVIOUS
  <1>3. Durations \subseteq Nat
    OBVIOUS
  <1> QED BY <1>1, <1>2, <1>3

\* Counting samples.
LEMMA Samples ==
  ASSUME NEW w \in Seq(Durations), NEW I \in SUBSET (DOMAIN w)
  PROVE  IsFiniteSet(I) /\ Cardinality(I) \in 0 .. Len(w) /\ Cardinality(DOMAIN w) = Len(w)
  <1>1. DOMAIN w = 1 .. Len(w) /\ Len(w) \in Nat
    OBVIOUS
  <1>2. IsFiniteSet(DOMAIN w) /\ Cardinality(DOMAIN w) = Len(w)
    BY <1>1, FS_Interval
  <1> QED BY <1>1, <1>2, FS_Subset, FS_CardinalityType

\* Of any samples, one is the longest: the one with the fewest others above it.
LEMMA Longest ==
  ASSUME NEW w \in Seq(Durations), NEW I \in SUBSET (DOMAIN w), I # {}
  PROVE  \E i \in I : \A j \in I : w[j] <= w[i]
  <1> DEFINE Above(i) == {j \in I : w[i] < w[j]}
             Counts == {Cardinality(Above(i)) : i \in I}
  <1>1. \A i \in DOMAIN w : w[i] \in Nat
    BY Sampled
  <1>2. \A i : IsFiniteSet(Above(i)) /\ Cardinality(Above(i)) \in Nat
    <2>1. \A i : Above(i) \in SUBSET (DOMAIN w)
      OBVIOUS
    <2>2. \A J \in SUBSET (DOMAIN w) : IsFiniteSet(J)
      BY Samples
    <2> HIDE DEF Above
    <2> QED BY <2>1, <2>2, FS_CardinalityType
  <1>3. Counts \in SUBSET Nat /\ Counts # {}
    BY <1>2
  <1>4. PICK n \in Counts : \A m \in Counts : n <= m
    <2> HIDE DEF Counts
    <2> QED BY <1>3, Least
  <1>5. PICK i \in I : n = Cardinality(Above(i))
    OBVIOUS
  <1>6. ASSUME NEW j \in I, w[i] < w[j]
        PROVE  FALSE
    <2>1. Above(j) \subseteq Above(i)
      BY <1>1, <1>6
    <2>2. j \in Above(i) /\ j \notin Above(j)
      BY <1>1, <1>6
    <2>3. Cardinality(Above(i)) <= Cardinality(Above(j))
      BY <1>4, <1>5, <1>6
    <2> HIDE DEF Above
    <2>4. /\ Cardinality(Above(j)) <= Cardinality(Above(i))
          /\ Cardinality(Above(i)) = Cardinality(Above(j)) => Above(i) = Above(j)
      BY <1>2, <2>1, FS_Subset
    <2>5. Above(i) # Above(j)
      BY <2>2
    <2> QED BY <1>2, <2>3, <2>4, <2>5
  <1> QED BY <1>1, <1>6

\* The index is one of the window.
LEMMA RankInWindow ==
  ASSUME NEW w \in Seq(Durations), w # <<>>
  PROVE  /\ Rank(w) \in 0 .. Len(w) - 1
         /\ Len(w) >= MinSamples => Rank(w) <= Len(w) - 2
  <1> DEFINE n == Len(w)
  <1>1. n \in Nat /\ n > 0
    OBVIOUS
  <1> HIDE DEF n
  <1>2. (n * 95) \div 100 \in Nat /\ (n * 95) \div 100 <= n - 1
    BY <1>1
  <1>3. n >= 10 => (n * 95) \div 100 # 0
    BY <1>1
  <1> QED BY <1>1, <1>2, <1>3 DEF Rank, MinSamples, n

\* The percentile is well defined: at its index the sorted window has a value that
\* no more samples are below than the index says.
LEMMA PercentileExists ==
  ASSUME NEW w \in Seq(Durations), w # <<>>
  PROVE  /\ Percentile(w) \in {w[i] : i \in DOMAIN w}
         /\ Cardinality(Below(w, Percentile(w))) <= Rank(w)
         /\ Cardinality(AtMost(w, Percentile(w))) > Rank(w)
  <1> DEFINE V == {w[i] : i \in DOMAIN w}
             H == {d \in V : Cardinality(AtMost(w, d)) > Rank(w)}
  <1>1. Rank(w) \in 0 .. Len(w) - 1 /\ Len(w) \in Nat
    BY RankInWindow
  <1>2. V \subseteq Nat /\ DOMAIN w # {}
    <2>1. \A i \in DOMAIN w : w[i] \in Nat
      BY Sampled
    <2> QED BY <2>1
  <1>3. \A d : AtMost(w, d) \in SUBSET (DOMAIN w) /\ Below(w, d) \in SUBSET (DOMAIN w)
    BY DEF AtMost, Below
  <1>4. \A d : Cardinality(AtMost(w, d)) \in Nat /\ Cardinality(Below(w, d)) \in Nat
    BY <1>3, Samples
  <1>5. H # {}
    <2>1. PICK i \in DOMAIN w : \A j \in DOMAIN w : w[j] <= w[i]
      BY <1>2, Longest
    <2>2. AtMost(w, w[i]) = DOMAIN w
      BY <2>1 DEF AtMost
    <2>3. Cardinality(AtMost(w, w[i])) = Len(w)
      BY <2>2, Samples
    <2> QED BY <1>1, <2>3
  <1>6. PICK d \in H : \A e \in H : d <= e
    <2>1. H \in SUBSET Nat
      BY <1>2
    <2> HIDE DEF H
    <2> QED BY <1>5, <2>1, Least
  <1>7. Cardinality(Below(w, d)) <= Rank(w)
    <2>1. CASE Below(w, d) = {}
      BY <1>1, <2>1, FS_EmptySet
    <2>2. CASE Below(w, d) # {}
      <3>1. PICK i \in Below(w, d) : \A j \in Below(w, d) : w[j] <= w[i]
        BY <1>3, <2>2, Longest
      <3>2. w[i] \in V /\ w[i] < d
        BY <3>1 DEF Below
      <3>3. w[i] \notin H
        <4>1. w[i] \in Nat /\ d \in Nat
          BY <1>2, <3>2
        <4>2. ~(d <= w[i])
          BY <3>2, <4>1
        <4> QED BY <1>6, <4>2
      <3>4. Cardinality(AtMost(w, w[i])) <= Rank(w)
        BY <1>1, <1>4, <3>2, <3>3
      <3>5. Below(w, d) \subseteq AtMost(w, w[i])
        BY <3>1 DEF Below, AtMost
      <3>6. Cardinality(Below(w, d)) <= Cardinality(AtMost(w, w[i]))
        <4>1. IsFiniteSet(AtMost(w, w[i]))
          BY <1>3, Samples
        <4> QED BY <3>5, <4>1, FS_Subset
      <3> QED BY <1>1, <1>4, <3>4, <3>6
    <2> QED BY <2>1, <2>2
  <1>8. \E x \in V : Cardinality(Below(w, x)) <= Rank(w) /\ Cardinality(AtMost(w, x)) > Rank(w)
    BY <1>6, <1>7
  <1>9. Percentile(w) = CHOOSE x \in V :
          Cardinality(Below(w, x)) <= Rank(w) /\ Cardinality(AtMost(w, x)) > Rank(w)
    BY DEF Percentile, Below, AtMost
  <1> QED BY <1>8, <1>9

\* A percentile above d has two samples above d, once there are enough samples.
LEMMA TwoAbove ==
  ASSUME NEW w \in Seq(Durations), Len(w) >= MinSamples, NEW d \in Nat, Percentile(w) > d
  PROVE  Cardinality({i \in DOMAIN w : w[i] > d}) >= 2
  <1> DEFINE A == {i \in DOMAIN w : w[i] > d}
             B == AtMost(w, d)
  <1>1. w # <<>> /\ Len(w) \in Nat
    BY DEF MinSamples
  <1>2. Rank(w) \in Int /\ Rank(w) <= Len(w) - 2
    BY <1>1, RankInWindow
  <1>3. /\ IsFiniteSet(A) /\ IsFiniteSet(B) /\ Cardinality(A) \in Nat /\ Cardinality(B) \in Nat
        /\ Cardinality(DOMAIN w) = Len(w)
    BY Samples DEF AtMost
  <1>4. Cardinality(B) <= Rank(w)
    <2>1. Percentile(w) \in Nat /\ Cardinality(Below(w, Percentile(w))) <= Rank(w)
      BY <1>1, PercentileExists, Sampled
    <2>2. B \subseteq Below(w, Percentile(w))
      BY <2>1, Sampled DEF AtMost, Below
    <2>3. IsFiniteSet(Below(w, Percentile(w))) /\ Cardinality(Below(w, Percentile(w))) \in Nat
      BY Samples DEF Below
    <2>4. Cardinality(B) <= Cardinality(Below(w, Percentile(w)))
      BY <2>2, <2>3, FS_Subset
    <2> QED BY <1>2, <1>3, <2>1, <2>3, <2>4
  <1>5. A \cup B = DOMAIN w /\ A \cap B = {}
    <2>1. \A i \in DOMAIN w : w[i] <= d <=> ~(w[i] > d)
      <3>1. \A i \in DOMAIN w : w[i] \in Nat
        BY Sampled
      <3> QED BY <3>1
    <2> QED BY <2>1 DEF AtMost
  <1>6. Len(w) = Cardinality(A) + Cardinality(B)
    <2> HIDE DEF A, B
    <2>1. Cardinality(A \cup B) = Cardinality(A) + Cardinality(B) - Cardinality(A \cap B)
      BY <1>3, FS_Union
    <2>2. Cardinality(A \cap B) = 0
      BY <1>5, FS_EmptySet
    <2>3. Cardinality(A \cup B) = Len(w)
      BY <1>3, <1>5
    <2> QED BY <1>3, <2>1, <2>2, <2>3
  <1> HIDE DEF A, B
  <1>7. Cardinality(A) >= 2
    BY <1>1, <1>2, <1>3, <1>4, <1>6
  <1> QED BY <1>7 DEF A

\* A single slow call never lowers the limit (record_latency takes the 95th
\* percentile of ten or more samples).
THEOREM OutliersAreTolerated == Spec => OutlierTolerated
  <1>1. ASSUME LimiterInv, [Next]_limiterVars, limit' < limit
        PROVE  Cardinality({i \in DOMAIN window' : window'[i] > TargetLatency}) >= 2
    <2>1. limit \in Nat /\ limit <= MaxConcurrency /\ window \in Seq(Durations)
          /\ Len(window) <= WindowSize
      BY <1>1 DEF LimiterInv, TypeOK, LimitInRange
    <2>2. limit' # limit
      BY <1>1, <2>1
    <2>3. PICK c \in Calls, latency \in Durations : Record(c, latency)
      BY <1>1, <2>2 DEF Next, PatientStep, limiterVars, Probe, Admit, Refuse, Undo, Release,
         DropPermit, DropRelease
    <2> DEFINE w == Trim(Append(window, latency))
    <2>4. w \in Seq(Durations)
      BY <2>1, TrimType
    <2>5. /\ window' = w
          /\ limit' = IF Len(w) < MinSamples THEN limit
                      ELSE IF Percentile(w) > TargetLatency THEN Reduced(limit)
                      ELSE Increased(limit)
      BY <2>3 DEF Record
    <2> HIDE DEF w
    <2>6. ~(Increased(limit) < limit)
      BY <2>1 DEF Increased
    <2>7. Len(w) >= MinSamples /\ Percentile(w) > TargetLatency
      <3>1. Len(w) \in Nat
        BY <2>4
      <3> QED BY <1>1, <2>2, <2>5, <2>6, <3>1 DEF MinSamples
    <2> QED BY <2>4, <2>5, <2>7, TwoAbove
  <1>2. LimiterInv /\ [Next]_limiterVars =>
          [limit' < limit =>
             Cardinality({i \in DOMAIN window' : window'[i] > TargetLatency}) >= 2]_limiterVars
    BY <1>1
  <1> QED BY <1>2, LimiterInit, LimiterStep, PTL DEF Spec, OutlierTolerated
=============================================================================
