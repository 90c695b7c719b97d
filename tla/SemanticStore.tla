--------------------------- MODULE SemanticStore ----------------------------
(***************************************************************************)
(* The vector cache of Layer 1b.  An entry keeps the text that was         *)
(* embedded (`input`), the answer, the session scope, the time it was      *)
(* inserted and its place in insertion order (`slot`, the position in the  *)
(* Vec).  Cosine similarity is the constant Score: nothing is assumed of   *)
(* it.  The RwLock makes search and insert atomic.                         *)
(***************************************************************************)
LOCAL INSTANCE Naturals
LOCAL INSTANCE FiniteSets

CONSTANTS Score(_, _),   \* cosine similarity of two embedded texts
          Threshold,     \* similarity_threshold
          Ttl            \* cache_ttl_secs

Live(store, now) == {e \in store : now - e.created <= Ttl}

\* Mutant: entries of every session are searched.
MutantCandidates(store, input, scope, now) ==
  {e \in Live(store, now) : Score(input, e.input) >= Threshold}

\* The entries a search may return: fresh, of the same scope, similar enough.
Candidates(store, input, scope, now) ==
  {e \in Live(store, now) : /\ e.scope = scope
                            /\ Score(input, e.input) >= Threshold}

\* The best candidate; `score > *s` is strict, so the oldest of the best wins.
BestMatch(store, input, scope, now) ==
  LET cand == Candidates(store, input, scope, now)
      best == {e \in cand : \A f \in cand :
                              Score(input, f.input) <= Score(input, e.input)}
  IN  {e \in best : \A f \in best : e.slot <= f.slot}

Oldest(store) == {e \in store : \A f \in store : e.slot <= f.slot}

\* Mutant: off by one at the capacity.
MutantInsert(store, entry, now, capacity) ==
  LET live == Live(store, now)
      room == IF Cardinality(live) > capacity THEN live \ Oldest(live) ELSE live
  IN  room \cup {entry}

\* Drop what has expired, then the oldest if the store is still full, and push.
Insert(store, entry, now, capacity) ==
  LET live == Live(store, now)
      room == IF Cardinality(live) >= capacity THEN live \ Oldest(live) ELSE live
  IN  room \cup {entry}
=============================================================================
