------------------------- MODULE ConcurrencyLimiter -------------------------
(***************************************************************************)
(* The adaptive concurrency limiter of Layer 0.  Calls ask for a permit    *)
(* with two atomics (an increment, then a load of the limit) and undo the  *)
(* increment when they are shed; a permit is either released, which        *)
(* records the call's latency and adapts the limit, or dropped.            *)
(*                                                                         *)
(* One action per atomic operation or critical section.  A call slot may   *)
(* be used again and again.                                                *)
(***************************************************************************)
EXTENDS Integers, Sequences, FiniteSets

CONSTANTS
  Calls,           \* callers that may be in the limiter at the same time
  MinConcurrency, MaxConcurrency,
  TargetLatency,
  Durations,       \* the latencies that are measured
  WindowSize,
  U64              \* number of values of a u64

ASSUME LimiterAssumption ==
  /\ MinConcurrency \in Nat /\ MaxConcurrency \in Nat
  /\ MinConcurrency <= MaxConcurrency
  /\ TargetLatency \in Nat /\ Durations \subseteq Nat
  /\ WindowSize \in Nat

\* The counter is wide enough for all callers, and the limit for its update.
ASSUME WidthAssumption ==
  /\ IsFiniteSet(Calls)
  /\ U64 \in Nat /\ Cardinality(Calls) < U64 /\ 9 * MaxConcurrency < U64

VARIABLES
  phase,     \* "out", "probe", "refused", "inside" or "recording"
  ticket,    \* in_flight as the call found it
  inFlight,  \* in_flight
  limit,     \* concurrency_limit
  window     \* latency_window

limiterVars == <<phase, ticket, inFlight, limit, window>>

MinSamples == 10

\* fetch_add and fetch_sub wrap around.
Incremented(n) == IF n = U64 - 1 THEN 0 ELSE n + 1
Decremented(n) == IF n = 0 THEN U64 - 1 ELSE n - 1

Move(c, to) == phase' = [phase EXCEPT ![c] = to]

Init ==
  /\ phase = [c \in Calls |-> "out"]
  /\ ticket = [c \in Calls |-> 0]
  /\ inFlight = 0
  /\ limit = MaxConcurrency
  /\ window = <<>>

-----------------------------------------------------------------------------
(* try_acquire                                                             *)

Probe(c) ==
  /\ phase[c] = "out"
  /\ ticket' = [ticket EXCEPT ![c] = inFlight]
  /\ inFlight' = Incremented(inFlight)
  /\ Move(c, "probe")
  /\ UNCHANGED <<limit, window>>

\* Mutant: off by one at the limit.
MutantAdmit(c) ==
  /\ phase[c] = "probe" /\ ticket[c] <= limit
  /\ Move(c, "inside")
  /\ UNCHANGED <<ticket, inFlight, limit, window>>

Admit(c) ==
  /\ phase[c] = "probe" /\ ticket[c] < limit
  /\ Move(c, "inside")
  /\ UNCHANGED <<ticket, inFlight, limit, window>>

Refuse(c) ==
  /\ phase[c] = "probe" /\ ticket[c] >= limit
  /\ Move(c, "refused")
  /\ UNCHANGED <<ticket, inFlight, limit, window>>

\* Mutant: the increment of a shed call is not undone.
MutantUndo(c) ==
  /\ phase[c] = "refused"
  /\ Move(c, "out")
  /\ UNCHANGED <<ticket, inFlight, limit, window>>

Undo(c) ==
  /\ phase[c] = "refused"
  /\ inFlight' = Decremented(inFlight)
  /\ Move(c, "out")
  /\ UNCHANGED <<ticket, limit, window>>

-----------------------------------------------------------------------------
(* release and record_latency                                              *)

\* Up to the await of the window's write lock.
Release(c) ==
  /\ phase[c] = "inside"
  /\ inFlight' = Decremented(inFlight)
  /\ Move(c, "recording")
  /\ UNCHANGED <<ticket, limit, window>>

Trim(w) == IF Len(w) > WindowSize THEN Tail(w) ELSE w

\* Mutant: the index is not made zero-based.
MutantRank(w) == (Len(w) * 95) \div 100

\* The index of the 95th percentile in the sorted window.
Rank(w) ==
  IF (Len(w) * 95) \div 100 = 0 THEN 0 ELSE (Len(w) * 95) \div 100 - 1

\* The value at that index of the sorted window.
Percentile(w) ==
  CHOOSE d \in {w[i] : i \in DOMAIN w} :
    /\ Cardinality({i \in DOMAIN w : w[i] < d}) <= Rank(w)
    /\ Cardinality({i \in DOMAIN w : w[i] <= d}) > Rank(w)

Reduced(n) ==
  IF (n * 9) \div 10 < MinConcurrency THEN MinConcurrency ELSE (n * 9) \div 10

\* Mutant: the increase stops one short of the ceiling.
MutantIncreased(n) == IF n + 1 >= MaxConcurrency THEN n ELSE n + 1

Increased(n) == IF n + 1 > MaxConcurrency THEN MaxConcurrency ELSE n + 1

\* The critical section, after which the permit is forgotten.
Record(c, latency) ==
  LET w == Trim(Append(window, latency))
  IN  /\ phase[c] = "recording"
      /\ window' = w
      /\ limit' = IF Len(w) < MinSamples THEN limit
                  ELSE IF Percentile(w) > TargetLatency THEN Reduced(limit)
                  ELSE Increased(limit)
      /\ Move(c, "out")
      /\ UNCHANGED <<ticket, inFlight>>

-----------------------------------------------------------------------------
(* Drop                                                                    *)

\* The permit goes out of scope without release.
DropPermit(c) ==
  /\ phase[c] = "inside"
  /\ inFlight' = Decremented(inFlight)
  /\ Move(c, "out")
  /\ UNCHANGED <<ticket, limit, window>>

\* The future of `release` is dropped while it waits for the lock: it owns the
\* permit, and mem::forget has not run.
DropRelease(c) ==
  /\ phase[c] = "recording"
  /\ inFlight' = Decremented(inFlight)
  /\ Move(c, "out")
  /\ UNCHANGED <<ticket, limit, window>>

-----------------------------------------------------------------------------
\* What a caller does that never abandons a release.
PatientStep(c) ==
  \/ Probe(c) \/ Admit(c) \/ Refuse(c) \/ Undo(c) \/ Release(c) \/ DropPermit(c)
  \/ \E latency \in Durations : Record(c, latency)

PatientNext == \E c \in Calls : PatientStep(c)
Next == \E c \in Calls : PatientStep(c) \/ DropRelease(c)

PatientSpec == Init /\ [][PatientNext]_limiterVars
Spec == Init /\ [][Next]_limiterVars
-----------------------------------------------------------------------------
(* Properties.                                                             *)

Phases == {"out", "probe", "refused", "inside", "recording"}
Counted == {c \in Calls : phase[c] \in {"probe", "refused", "inside"}}
Inside  == {c \in Calls : phase[c] = "inside"}

\* Every variable holds a value of its type and the window never outgrows its
\* size.
TypeOK ==
  /\ phase \in [Calls -> Phases]
  /\ ticket \in [Calls -> 0 .. U64 - 1]
  /\ inFlight \in 0 .. U64 - 1
  /\ limit \in Nat
  /\ window \in Seq(Durations) /\ Len(window) <= WindowSize

\* The limit stays between floor and ceiling, whatever is measured
\* (src/pipeline/concurrency.rs:25 and :29).
LimitInRange == MinConcurrency <= limit /\ limit <= MaxConcurrency

\* The in-flight counter counts exactly the calls that hold a permit or are
\* still asking, in every interleaving of increments, refusals and releases.
\* As a run under Spec: what the comment at concurrency.rs:178 promises
\* ("Prevent Drop from double-decrementing").
InFlightExact == inFlight = Cardinality(Counted)

\* However increments, loads and limit changes interleave, never more calls
\* are inside than the ceiling allows (concurrency.rs:29, "safety valve"), and
\* the limit they are compared with stays in its range.
AdmissionBounded == LimitInRange /\ Cardinality(Inside) <= MaxConcurrency

\* A single slow call never lowers the limit: the 95th percentile of ten or
\* more samples ignores the largest one.
OutlierTolerated ==
  [][limit' < limit =>
       Cardinality({i \in DOMAIN window' : window'[i] > TargetLatency}) >= 2]_limiterVars

Healthy(c) == \E d \in Durations : d <= TargetLatency /\ Record(c, d)
Slow(c)    == \E d \in Durations : d > TargetLatency /\ Record(c, d)

\* If from some time on no call is slow and calls keep completing, the limit
\* climbs back to the ceiling, however low it fell (concurrency.rs:133).
Recovers ==
  /\ WindowSize >= MinSamples
  /\ <>[][\A c \in Calls : ~Slow(c)]_limiterVars
  /\ []<><<\E c \in Calls : Healthy(c)>>_<<limiterVars>>
  => <>[](limit = MaxConcurrency)
=============================================================================
