------------------------------ MODULE LruCache ------------------------------
(***************************************************************************)
(* The bounded exact-match cache of Layer 1a.  A cache is a sequence of    *)
(* [key, val] records, least recently used first; the write lock every     *)
(* call takes makes each operator one atomic step.  The operators carry no *)
(* state of their own: the modules that use the cache own the variable.    *)
(***************************************************************************)
LOCAL INSTANCE Naturals
LOCAL INSTANCE Sequences

\* The entries stored under key k (none or one: Put never duplicates a key).
Entries(cache, k) == {i \in DOMAIN cache : cache[i].key = k}

Cached(cache, k) == Entries(cache, k) # {}

\* What the cache holds, under whatever key.
Values(cache) == {cache[i].val : i \in DOMAIN cache}

CachedValue(cache, k) == cache[CHOOSE i \in Entries(cache, k) : TRUE].val

\* The cache without its i-th entry.
Drop(cache, i) ==
  [j \in 1 .. Len(cache) - 1 |-> IF j < i THEN cache[j] ELSE cache[j + 1]]

\* `get`: a hit moves the entry to the most recently used end.
Promote(cache, k) ==
  LET i == CHOOSE n \in Entries(cache, k) : TRUE
  IN  Append(Drop(cache, i), cache[i])

\* Mutant: off by one at the capacity.
MutantPut(cache, k, v, capacity) ==
  LET entry == [key |-> k, val |-> v]
  IN  IF Cached(cache, k)
        THEN Append(Drop(cache, CHOOSE i \in Entries(cache, k) : TRUE), entry)
        ELSE IF Len(cache) <= capacity
               THEN Append(cache, entry)
               ELSE Append(Drop(cache, 1), entry)

\* `put`: overwrite and promote, or insert and evict the least recently used.
Put(cache, k, v, capacity) ==
  LET entry == [key |-> k, val |-> v]
  IN  IF Cached(cache, k)
        THEN Append(Drop(cache, CHOOSE i \in Entries(cache, k) : TRUE), entry)
        ELSE IF Len(cache) < capacity
               THEN Append(cache, entry)
               ELSE Append(Drop(cache, 1), entry)
=============================================================================
