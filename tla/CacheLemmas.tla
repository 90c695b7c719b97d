---------------------------- MODULE CacheLemmas -----------------------------
(***************************************************************************)
(* Facts about the operators of the two caches, for every cache, key,      *)
(* value and capacity; the proofs about the gateway and the CONNECT proxy  *)
(* rest on them.                                                           *)
(***************************************************************************)
EXTENDS Naturals, Sequences, FiniteSets, LruCache, SemanticStore, FiniteSetTheorems,
        WellFoundedInduction, TLAPS

-----------------------------------------------------------------------------
(* The LRU operators only ever move entries around.                        *)

\* Removing an entry leaves entries of the same kind, one fewer
\* (src/layer1/layer1a_cache.rs, the LRU list).
LEMMA DropType ==
  ASSUME NEW S, NEW cache \in Seq(S), NEW i \in DOMAIN cache
  PROVE  Drop(cache, i) \in Seq(S) /\ Len(Drop(cache, i)) = Len(cache) - 1
  BY DEF Drop

\* A hit returns an entry of the cache, and promoting it keeps the cache's
\* entries (ExactMatchCache::get).
LEMMA HitReturnsEntry ==
  ASSUME NEW S, NEW cache \in Seq(S), NEW k, Cached(cache, k)
  PROVE  /\ \E e \in S : e.key = k /\ e.val = CachedValue(cache, k)
         /\ Promote(cache, k) \in Seq(S) /\ Len(Promote(cache, k)) = Len(cache)
  <1> DEFINE i == CHOOSE n \in Entries(cache, k) : TRUE
  <1>1. i \in DOMAIN cache /\ cache[i].key = k
    BY DEF Cached, Entries
  <1>2. cache[i] \in S
    BY <1>1
  <1>3. CachedValue(cache, k) = cache[i].val
    BY DEF CachedValue
  <1>4. Promote(cache, k) = Append(Drop(cache, i), cache[i])
    BY DEF Promote
  <1>5. Drop(cache, i) \in Seq(S) /\ Len(Drop(cache, i)) = Len(cache) - 1
    BY <1>1, DropType
  <1>6. Promote(cache, k) \in Seq(S) /\ Len(Promote(cache, k)) = Len(cache)
    <2> HIDE DEF i
    <2> QED BY <1>2, <1>4, <1>5
  <1> QED BY <1>1, <1>2, <1>3, <1>6

\* Storing keeps the cache's entries, adds the one stored, and never exceeds
\* the capacity (ExactMatchCache::put).
LEMMA PutType ==
  ASSUME NEW S, NEW cache \in Seq(S), NEW capacity \in Nat \ {0}, NEW k, NEW v,
         [key |-> k, val |-> v] \in S
  PROVE  /\ Put(cache, k, v, capacity) \in Seq(S)
         /\ Len(cache) <= capacity => Len(Put(cache, k, v, capacity)) <= capacity
  <1> DEFINE entry == [key |-> k, val |-> v]
             i == CHOOSE n \in Entries(cache, k) : TRUE
  <1>1. CASE Cached(cache, k)
    <2>1. i \in DOMAIN cache
      BY <1>1 DEF Cached, Entries
    <2>2. Put(cache, k, v, capacity) = Append(Drop(cache, i), entry)
      BY <1>1 DEF Put
    <2>3. Drop(cache, i) \in Seq(S) /\ Len(Drop(cache, i)) = Len(cache) - 1
      BY <2>1, DropType
    <2> HIDE DEF i
    <2> QED BY <2>2, <2>3
  <1>2. CASE ~Cached(cache, k) /\ Len(cache) < capacity
    <2>1. Put(cache, k, v, capacity) = Append(cache, entry)
      BY <1>2 DEF Put
    <2>2. /\ Append(cache, entry) \in Seq(S)
          /\ Len(Append(cache, entry)) = Len(cache) + 1
      OBVIOUS
    <2> HIDE DEF entry
    <2> QED BY <1>2, <2>1, <2>2
  <1>3. CASE ~Cached(cache, k) /\ ~(Len(cache) < capacity)
    <2>1. Put(cache, k, v, capacity) = Append(Drop(cache, 1), entry)
      BY <1>3 DEF Put
    <2>2. 1 \in DOMAIN cache
      BY <1>3
    <2>3. Drop(cache, 1) \in Seq(S) /\ Len(Drop(cache, 1)) = Len(cache) - 1
      BY <2>2, DropType
    <2> QED BY <2>1, <2>3
  <1> QED BY <1>1, <1>2, <1>3

\* The vector cache never holds an entry that was not inserted
\* (VectorCache::insert).
LEMMA InsertKeeps ==
  ASSUME NEW store, NEW entry, NEW time, NEW capacity
  PROVE  Insert(store, entry, time, capacity) \subseteq store \cup {entry}
  BY DEF Insert, Live
-----------------------------------------------------------------------------
(* The values a cache holds.                                               *)

\* Every cache is a sequence of its own entries.
LEMMA OwnEntries ==
  ASSUME NEW S, NEW cache \in Seq(S)
  PROVE  cache \in Seq({cache[i] : i \in DOMAIN cache})
  <1> DEFINE own == {cache[i] : i \in DOMAIN cache}
  <1>1. Len(cache) \in Nat /\ DOMAIN cache = 1 .. Len(cache) /\ cache = [i \in 1 .. Len(cache) |-> cache[i]]
    OBVIOUS
  <1>2. \A i \in 1 .. Len(cache) : cache[i] \in own
    BY <1>1
  <1>3. cache \in [1 .. Len(cache) -> own]
    BY <1>1, <1>2
  <1> HIDE DEF own
  <1> QED BY <1>1, <1>3

LEMMA ValuesOfKind ==
  ASSUME NEW S, NEW cache \in Seq(S)
  PROVE  Values(cache) \subseteq {e.val : e \in S}
  BY DEF Values

\* A hit returns a value of the cache and promoting it loses none
\* (ExactMatchCache::get).
LEMMA PromoteValues ==
  ASSUME NEW S, NEW cache \in Seq(S), NEW k, Cached(cache, k)
  PROVE  /\ CachedValue(cache, k) \in Values(cache)
         /\ Values(Promote(cache, k)) = Values(cache)
  <1> DEFINE i == CHOOSE n \in Entries(cache, k) : TRUE
             own == {cache[n] : n \in DOMAIN cache}
             short == Drop(cache, i)
             after == Promote(cache, k)
  <1>1. i \in DOMAIN cache /\ after = Append(short, cache[i]) /\ CachedValue(cache, k) = cache[i].val
    BY DEF Cached, Entries, Promote, CachedValue
  <1>2. CachedValue(cache, k) \in Values(cache)
    BY <1>1 DEF Values
  <1>3. cache \in Seq(own)
    BY OwnEntries
  <1>4. after \in Seq(own)
    <2> HIDE DEF own, after
    <2> QED BY <1>3, HitReturnsEntry DEF after
  <1>5. Values(after) \subseteq Values(cache)
    <2>1. Values(after) \subseteq {e.val : e \in own}
      <3> HIDE DEF own, after
      <3> QED BY <1>4, ValuesOfKind
    <2>2. {e.val : e \in own} = Values(cache)
      BY DEF Values
    <2> QED BY <2>1, <2>2
  <1>6. /\ Len(cache) \in Nat /\ DOMAIN cache = 1 .. Len(cache)
        /\ short \in Seq(S) /\ Len(short) = Len(cache) - 1
        /\ \A j \in 1 .. Len(cache) - 1 : short[j] = IF j < i THEN cache[j] ELSE cache[j + 1]
    <2>1. short \in Seq(S) /\ Len(short) = Len(cache) - 1
      <3> HIDE DEF i
      <3> QED BY <1>1, DropType
    <2>2. \A j \in 1 .. Len(cache) - 1 : short[j] = IF j < i THEN cache[j] ELSE cache[j + 1]
      <3> HIDE DEF i
      <3> QED BY DEF Drop
    <2> QED BY <2>1, <2>2
  <1> HIDE DEF i, short, own
  <1>7. /\ DOMAIN after = 1 .. Len(cache) /\ after[Len(cache)] = cache[i]
        /\ \A j \in 1 .. Len(cache) - 1 : after[j] = short[j]
    <2> DEFINE last == cache[i]
    <2>1. last \in S /\ after = Append(short, last) /\ Len(short) + 1 = Len(cache)
      BY <1>1, <1>6
    <2> HIDE DEF after, last
    <2>2. /\ DOMAIN Append(short, last) = 1 .. Len(short) + 1
          /\ Append(short, last)[Len(short) + 1] = last
          /\ \A j \in 1 .. Len(short) : Append(short, last)[j] = short[j]
      <3>1. short \in Seq(S) /\ last \in S
        BY <1>6, <2>1
      <3> QED BY <3>1
    <2>3. Len(short) = Len(cache) - 1
      BY <1>6
    <2> QED BY <2>1, <2>2, <2>3 DEF last
  <1> HIDE DEF after
  <1>8. ASSUME NEW n \in DOMAIN cache PROVE \E j \in DOMAIN after : after[j] = cache[n]
    <2>1. n \in Nat /\ i \in Nat /\ n \in 1 .. Len(cache) /\ i \in 1 .. Len(cache)
      BY <1>1, <1>6
    <2>2. CASE n = i
      <3>1. Len(cache) \in 1 .. Len(cache)
        BY <1>6, <2>1
      <3> QED BY <1>7, <2>2, <3>1
    <2>3. CASE n < i
      <3>1. n \in 1 .. Len(cache) - 1 /\ n \in 1 .. Len(cache)
        BY <1>6, <2>1, <2>3
      <3>2. after[n] = cache[n]
        BY <1>6, <1>7, <2>3, <3>1
      <3> QED BY <1>7, <3>1, <3>2
    <2>4. CASE n > i
      <3>1. n - 1 \in 1 .. Len(cache) - 1 /\ n - 1 \in 1 .. Len(cache) /\ ~(n - 1 < i)
        BY <1>6, <2>1, <2>4
      <3>2. after[n - 1] = cache[n - 1 + 1] /\ n - 1 + 1 = n
        BY <1>6, <1>7, <2>1, <3>1
      <3> QED BY <1>7, <3>1, <3>2
    <2> QED BY <2>1, <2>2, <2>3, <2>4
  <1>9. Values(cache) \subseteq Values(after)
    BY <1>8 DEF Values
  <1> QED BY <1>2, <1>5, <1>9 DEF after

\* Storing adds the value stored and no other (ExactMatchCache::put).
LEMMA PutValues ==
  ASSUME NEW S, NEW cache \in Seq(S), NEW capacity \in Nat \ {0}, NEW k, NEW v
  PROVE  /\ v \in Values(Put(cache, k, v, capacity))
         /\ Values(Put(cache, k, v, capacity)) \subseteq Values(cache) \cup {v}
  <1> DEFINE entry == [key |-> k, val |-> v]
             own == {cache[n] : n \in DOMAIN cache} \cup {entry}
             after == Put(cache, k, v, capacity)
             i == CHOOSE n \in Entries(cache, k) : TRUE
  <1>1. cache \in Seq(own)
    <2>1. cache \in Seq({cache[n] : n \in DOMAIN cache})
      BY OwnEntries
    <2>2. {cache[n] : n \in DOMAIN cache} \subseteq own
      OBVIOUS
    <2> HIDE DEF own
    <2> DEFINE mine == {cache[n] : n \in DOMAIN cache}
    <2> HIDE DEF mine
    <2>3. cache \in Seq(mine) /\ mine \subseteq own
      BY <2>1, <2>2 DEF mine
    <2> QED BY <2>3
  <1>2. after \in Seq(own)
    <2>1. entry \in own
      OBVIOUS
    <2> HIDE DEF own
    <2> QED BY <1>1, <2>1, PutType
  <1>3. Values(after) \subseteq Values(cache) \cup {v}
    <2>1. Values(after) \subseteq {e.val : e \in own}
      <3> HIDE DEF own, after
      <3> QED BY <1>2, ValuesOfKind
    <2>2. ASSUME NEW e \in own PROVE e.val \in Values(cache) \cup {v}
      <3>1. CASE e = entry
        BY <3>1
      <3>2. CASE e \in {cache[n] : n \in DOMAIN cache}
        BY <3>2 DEF Values
      <3> QED BY <3>1, <3>2
    <2> HIDE DEF own, after
    <2> QED BY <2>1, <2>2
  <1>4. ASSUME NEW short \in Seq(own)
        PROVE  v \in Values(Append(short, entry))
    <2>1. /\ Len(short) + 1 \in DOMAIN Append(short, entry)
          /\ Append(short, entry)[Len(short) + 1] = entry
      <3> HIDE DEF own, entry
      <3> QED OBVIOUS
    <2>2. entry.val = v
      OBVIOUS
    <2> HIDE DEF entry
    <2> QED BY <2>1, <2>2 DEF Values
  <1>5. v \in Values(after)
    <2>1. CASE Cached(cache, k)
      <3>1. i \in DOMAIN cache
        BY <2>1 DEF Cached, Entries
      <3>2. after = Append(Drop(cache, i), entry)
        BY <2>1 DEF Put
      <3> HIDE DEF i, own, after, entry
      <3>3. Drop(cache, i) \in Seq(own)
        BY <1>1, <3>1, DropType
      <3> QED BY <1>4, <3>2, <3>3
    <2>2. CASE ~Cached(cache, k) /\ Len(cache) < capacity
      <3>1. after = Append(cache, entry)
        BY <2>2 DEF Put
      <3> HIDE DEF own, after, entry
      <3> QED BY <1>1, <1>4, <3>1
    <2>3. CASE ~Cached(cache, k) /\ ~(Len(cache) < capacity)
      <3>1. after = Append(Drop(cache, 1), entry) /\ 1 \in DOMAIN cache
        BY <2>3 DEF Put
      <3> HIDE DEF own, after, entry
      <3>2. Drop(cache, 1) \in Seq(own)
        BY <1>1, <3>1, DropType
      <3> QED BY <1>4, <3>1, <3>2
    <2> QED BY <2>1, <2>2, <2>3
  <1> QED BY <1>3, <1>5

-----------------------------------------------------------------------------
(* No key twice.                                                           *)

KeysDistinct(cache) ==
  \A i, j \in DOMAIN cache : cache[i].key = cache[j].key => i = j

\* Removing the entry of a key removes the key (the LRU list holds it once).
LEMMA DropDistinct ==
  ASSUME NEW S, NEW cache \in Seq(S), KeysDistinct(cache), NEW i \in DOMAIN cache
  PROVE  /\ KeysDistinct(Drop(cache, i))
         /\ \A j \in DOMAIN Drop(cache, i) : Drop(cache, i)[j].key # cache[i].key
         /\ \A k : ~Cached(cache, k) => ~Cached(Drop(cache, i), k)
  <1> DEFINE short == Drop(cache, i)
             place == [j \in 1 .. Len(cache) - 1 |-> IF j < i THEN j ELSE j + 1]
  <1>1. i \in 1 .. Len(cache) /\ Len(cache) \in Nat /\ DOMAIN cache = 1 .. Len(cache)
    OBVIOUS
  <1>2. DOMAIN short = 1 .. Len(cache) - 1
    BY DEF Drop
  <1>3. \A j \in DOMAIN short : place[j] \in DOMAIN cache /\ place[j] # i
    BY <1>1, <1>2
  <1>4. \A j, k \in DOMAIN short : place[j] = place[k] => j = k
    BY <1>1, <1>2
  <1>5. \A j \in DOMAIN short : short[j] = cache[place[j]]
    BY DEF Drop
  <1> HIDE DEF short, place
  <1>6. KeysDistinct(short)
    BY <1>3, <1>4, <1>5 DEF KeysDistinct
  <1>7. \A j \in DOMAIN short : short[j].key # cache[i].key
    BY <1>3, <1>5 DEF KeysDistinct
  <1>8. \A k : ~Cached(cache, k) => ~Cached(short, k)
    BY <1>3, <1>5 DEF Cached, Entries
  <1> QED BY <1>6, <1>7, <1>8 DEF short

\* An entry whose key is not in the cache may be appended.
LEMMA AppendDistinct ==
  ASSUME NEW S, NEW cache \in Seq(S), KeysDistinct(cache), NEW entry,
         \A j \in DOMAIN cache : cache[j].key # entry.key
  PROVE  KeysDistinct(Append(cache, entry))
  BY DEF KeysDistinct

\* A hit keeps the keys distinct (ExactMatchCache::get).
LEMMA PromoteDistinct ==
  ASSUME NEW S, NEW cache \in Seq(S), KeysDistinct(cache), NEW k, Cached(cache, k)
  PROVE  KeysDistinct(Promote(cache, k))
  <1> DEFINE i == CHOOSE n \in Entries(cache, k) : TRUE
  <1>1. i \in DOMAIN cache
    BY DEF Cached, Entries
  <1>2. Promote(cache, k) = Append(Drop(cache, i), cache[i])
    BY DEF Promote
  <1> HIDE DEF i
  <1> QED BY <1>1, <1>2, DropType, DropDistinct, AppendDistinct

\* Storing keeps the keys distinct (ExactMatchCache::put).
LEMMA PutDistinct ==
  ASSUME NEW S, NEW cache \in Seq(S), KeysDistinct(cache), NEW k, NEW v,
         NEW capacity \in Nat \ {0}
  PROVE  KeysDistinct(Put(cache, k, v, capacity))
  <1> DEFINE entry == [key |-> k, val |-> v]
             i == CHOOSE n \in Entries(cache, k) : TRUE
  <1>1. CASE Cached(cache, k)
    <2>1. i \in DOMAIN cache /\ cache[i].key = k
      BY <1>1 DEF Cached, Entries
    <2>2. Put(cache, k, v, capacity) = Append(Drop(cache, i), entry)
      BY <1>1 DEF Put
    <2> HIDE DEF i
    <2> QED BY <2>1, <2>2, DropType, DropDistinct, AppendDistinct
  <1>2. CASE ~Cached(cache, k) /\ Len(cache) < capacity
    <2>1. Put(cache, k, v, capacity) = Append(cache, entry)
      BY <1>2 DEF Put
    <2>2. \A j \in DOMAIN cache : cache[j].key # entry.key
      BY <1>2 DEF Cached, Entries
    <2> QED BY <2>1, <2>2, AppendDistinct
  <1>3. CASE ~Cached(cache, k) /\ ~(Len(cache) < capacity)
    <2>1. Put(cache, k, v, capacity) = Append(Drop(cache, 1), entry)
      BY <1>3 DEF Put
    <2>2. 1 \in DOMAIN cache
      BY <1>3
    <2>3. ~Cached(Drop(cache, 1), k)
      BY <1>3, <2>2, DropDistinct
    <2>4. \A j \in DOMAIN Drop(cache, 1) : Drop(cache, 1)[j].key # entry.key
      BY <2>3 DEF Cached, Entries
    <2> QED BY <2>1, <2>2, <2>4, DropType, DropDistinct, AppendDistinct
  <1> QED BY <1>1, <1>2, <1>3

-----------------------------------------------------------------------------
(* What is stored stays until the cache is full.                           *)

\* Removing an entry keeps the keys of the others.
LEMMA DropKeepsOthers ==
  ASSUME NEW S, NEW cache \in Seq(S), NEW i \in DOMAIN cache,
         NEW k, Cached(cache, k), k # cache[i].key
  PROVE  Cached(Drop(cache, i), k)
  <1>1. PICK n \in DOMAIN cache : cache[n].key = k
    BY DEF Cached, Entries
  <1> DEFINE m == IF n < i THEN n ELSE n - 1
  <1>2. /\ n \in 1 .. Len(cache) /\ i \in 1 .. Len(cache) /\ n # i /\ Len(cache) \in Nat
        /\ n \in Nat /\ i \in Nat
    BY <1>1
  <1>3. m \in 1 .. Len(cache) - 1 /\ (IF m < i THEN m ELSE m + 1) = n
    <2>1. CASE n < i
      BY <1>2, <2>1
    <2>2. CASE n > i
      BY <1>2, <2>2
    <2> QED BY <1>2, <2>1, <2>2
  <1> HIDE DEF m
  <1>4. m \in DOMAIN Drop(cache, i) /\ Drop(cache, i)[m] = cache[n]
    BY <1>3 DEF Drop
  <1> QED BY <1>1, <1>4 DEF Cached, Entries

\* An appended entry keeps what was there and adds its key.
LEMMA AppendKeeps ==
  ASSUME NEW S, NEW cache \in Seq(S), NEW entry
  PROVE  /\ Cached(Append(cache, entry), entry.key)
         /\ \A k : Cached(cache, k) => Cached(Append(cache, entry), k)
         /\ Len(Append(cache, entry)) = Len(cache) + 1
  <1> DEFINE longer == Append(cache, entry)
  <1>1. /\ Len(longer) = Len(cache) + 1 /\ Len(cache) \in Nat
        /\ DOMAIN longer = 1 .. Len(cache) + 1 /\ DOMAIN cache = 1 .. Len(cache)
        /\ longer[Len(cache) + 1] = entry /\ \A j \in 1 .. Len(cache) : longer[j] = cache[j]
    OBVIOUS
  <1>2. Len(cache) + 1 \in DOMAIN longer /\ DOMAIN cache \subseteq DOMAIN longer
    BY <1>1
  <1> HIDE DEF longer
  <1>3. Cached(longer, entry.key)
    BY <1>1, <1>2 DEF Cached, Entries
  <1>4. ASSUME NEW k, Cached(cache, k) PROVE Cached(longer, k)
    BY <1>1, <1>2, <1>4 DEF Cached, Entries
  <1> QED BY <1>1, <1>3, <1>4 DEF longer

\* A hit forgets nothing (ExactMatchCache::get).
LEMMA PromoteKeeps ==
  ASSUME NEW S, NEW cache \in Seq(S), NEW k, Cached(cache, k), NEW other, Cached(cache, other)
  PROVE  Cached(Promote(cache, k), other)
  <1> DEFINE i == CHOOSE n \in Entries(cache, k) : TRUE
  <1>1. i \in DOMAIN cache /\ Promote(cache, k) = Append(Drop(cache, i), cache[i])
    BY DEF Cached, Entries, Promote
  <1> HIDE DEF i
  <1>2. Drop(cache, i) \in Seq(S)
    BY <1>1, DropType
  <1>3. CASE other = cache[i].key
    BY <1>1, <1>2, <1>3, AppendKeeps
  <1>4. CASE other # cache[i].key
    BY <1>1, <1>2, <1>4, DropKeepsOthers, AppendKeeps
  <1> QED BY <1>3, <1>4

\* What is stored can be found, a full cache stays full, and one that is not
\* forgets nothing (ExactMatchCache::put).
LEMMA PutKeeps ==
  ASSUME NEW S, NEW cache \in Seq(S), NEW k, NEW v, NEW capacity \in Nat \ {0},
         Len(cache) <= capacity
  PROVE  /\ Cached(Put(cache, k, v, capacity), k)
         /\ Len(cache) = capacity => Len(Put(cache, k, v, capacity)) = capacity
         /\ \A other : Cached(cache, other) =>
              \/ Cached(Put(cache, k, v, capacity), other)
              \/ Len(Put(cache, k, v, capacity)) = capacity
         /\ Cached(cache, k) \/ Len(cache) < capacity =>
              \A other : Cached(cache, other) => Cached(Put(cache, k, v, capacity), other)
  <1> DEFINE entry == [key |-> k, val |-> v]
             i == CHOOSE n \in Entries(cache, k) : TRUE
  <1>1. entry.key = k /\ Len(cache) \in Nat
    OBVIOUS
  <1>2. CASE Cached(cache, k)
    <2>1. i \in DOMAIN cache /\ cache[i].key = k
      BY <1>2 DEF Cached, Entries
    <2>2. Put(cache, k, v, capacity) = Append(Drop(cache, i), entry)
      BY <1>2 DEF Put
    <2> HIDE DEF i, entry
    <2>3. Drop(cache, i) \in Seq(S) /\ Len(Drop(cache, i)) = Len(cache) - 1
      BY <2>1, DropType
    <2>4. /\ Cached(Put(cache, k, v, capacity), k)
          /\ Len(Put(cache, k, v, capacity)) = Len(cache) - 1 + 1
          /\ \A other : Cached(Drop(cache, i), other) => Cached(Put(cache, k, v, capacity), other)
      BY <1>1, <2>2, <2>3, AppendKeeps
    <2>5. ASSUME NEW other, Cached(cache, other) PROVE Cached(Put(cache, k, v, capacity), other)
      <3>1. CASE other = k
        BY <2>4, <3>1
      <3>2. CASE other # k
        BY <2>1, <2>4, <2>5, <3>2, DropKeepsOthers
      <3> QED BY <3>1, <3>2
    <2> QED BY <1>1, <2>4, <2>5
  <1>3. CASE ~Cached(cache, k) /\ Len(cache) < capacity
    <2>1. Put(cache, k, v, capacity) = Append(cache, entry)
      BY <1>3 DEF Put
    <2> HIDE DEF entry
    <2> QED BY <1>1, <1>3, <2>1, AppendKeeps
  <1>4. CASE ~Cached(cache, k) /\ ~(Len(cache) < capacity)
    <2>1. Put(cache, k, v, capacity) = Append(Drop(cache, 1), entry)
      BY <1>4 DEF Put
    <2> HIDE DEF entry
    <2>2. 1 \in DOMAIN cache
      BY <1>4
    <2>3. Drop(cache, 1) \in Seq(S) /\ Len(Drop(cache, 1)) = Len(cache) - 1
      BY <2>2, DropType
    <2>4. /\ Cached(Put(cache, k, v, capacity), k)
          /\ Len(Put(cache, k, v, capacity)) = Len(cache) - 1 + 1
      BY <1>1, <2>1, <2>3, AppendKeeps
    <2>5. Len(Put(cache, k, v, capacity)) = capacity
      BY <1>1, <1>4, <2>4
    <2>6. ~(Cached(cache, k) \/ Len(cache) < capacity)
      BY <1>4
    <2> QED BY <2>4, <2>5, <2>6
  <1> QED BY <1>2, <1>3, <1>4

\* A cache whose keys are among some that it has room for, one of which it lacks,
\* is not full.
LEMMA RoomForMissing ==
  ASSUME NEW S, NEW cache \in Seq(S), KeysDistinct(cache), NEW keys, IsFiniteSet(keys),
         \A i \in DOMAIN cache : cache[i].key \in keys,
         NEW k \in keys, ~Cached(cache, k)
  PROVE  Len(cache) < Cardinality(keys)
  <1> DEFINE places == 1 .. Len(cache)
             others == keys \ {k}
             keyAt == [i \in places |-> cache[i].key]
  <1>1. Len(cache) \in Nat /\ DOMAIN cache = places
    OBVIOUS
  <1>2. \A i \in places : cache[i].key \in others
    BY <1>1 DEF Cached, Entries
  <1>3. keyAt \in Injection(places, others)
    BY <1>1, <1>2 DEF Injection, IsInjective, KeysDistinct
  <1>4. IsFiniteSet(others) /\ Cardinality(others) = Cardinality(keys) - 1
    BY FS_RemoveElement
  <1> HIDE DEF others, keyAt
  <1>5. Cardinality(places) <= Cardinality(others)
    BY <1>3, <1>4, FS_Injection
  <1>6. Cardinality(places) = Len(cache)
    <2>1. Cardinality(places) = IF 1 > Len(cache) THEN 0 ELSE Len(cache) - 1 + 1
      BY <1>1, FS_Interval
    <2> QED BY <1>1, <2>1
  <1>7. Cardinality(keys) \in Nat
    BY FS_CardinalityType
  <1> QED BY <1>1, <1>4, <1>5, <1>6, <1>7

\* So storing one of these keys forgets none of them (ExactMatchCache::put).
LEMMA PutForgetsNothing ==
  ASSUME NEW S, NEW cache \in Seq(S), KeysDistinct(cache), NEW keys, IsFiniteSet(keys),
         \A i \in DOMAIN cache : cache[i].key \in keys,
         NEW capacity \in Nat \ {0}, Cardinality(keys) <= capacity, Len(cache) <= capacity,
         NEW k \in keys, NEW v, NEW other, Cached(cache, other)
  PROVE  Cached(Put(cache, k, v, capacity), other)
  <1>1. CASE Cached(cache, k)
    BY <1>1, PutKeeps
  <1>2. CASE ~Cached(cache, k)
    <2>1. Len(cache) < Cardinality(keys) /\ Cardinality(keys) \in Nat /\ Len(cache) \in Nat
      BY <1>2, RoomForMissing, FS_CardinalityType
    <2>2. Len(cache) < capacity
      BY <2>1
    <2> QED BY <2>2, PutKeeps
  <1> QED BY <1>1, <1>2

-----------------------------------------------------------------------------
(* The vector cache stays within its capacity.                             *)

\* A store that holds something has an oldest entry, so evicting it makes room
\* (VectorCache::insert, the first entry of the Vec).
LEMMA OldestExists ==
  ASSUME NEW store, store # {}, \A e \in store : e.slot \in Nat
  PROVE  Oldest(store) # {} /\ Oldest(store) \subseteq store
  <1> DEFINE slots == {e.slot : e \in store}
  <1>1. slots \subseteq Nat /\ slots # {}
    OBVIOUS
  <1>2. PICK x \in slots : \A y \in slots : ~(<<y, x>> \in OpToRel(<, Nat))
    BY <1>1, NatLessThanWellFounded, WFMin
  <1>3. \A y \in slots : ~(y < x)
    BY <1>1, <1>2 DEF OpToRel
  <1>4. PICK e \in store : e.slot = x
    OBVIOUS
  <1>5. ASSUME NEW f \in store PROVE e.slot <= f.slot
    <2>1. f.slot \in slots /\ f.slot \in Nat /\ x \in Nat
      BY <1>1
    <2>2. ~(f.slot < x)
      BY <1>3, <2>1
    <2> HIDE DEF slots
    <2> QED BY <1>4, <2>1, <2>2
  <1>6. e \in Oldest(store)
    BY <1>5 DEF Oldest
  <1> QED BY <1>6 DEF Oldest

\* Whatever the store held, it holds no more than its capacity afterwards
\* (VectorCache::insert).
LEMMA InsertBounded ==
  ASSUME NEW store, IsFiniteSet(store), \A e \in store : e.slot \in Nat,
         NEW capacity \in Nat \ {0}, Cardinality(store) <= capacity,
         NEW entry, NEW time
  PROVE  /\ IsFiniteSet(Insert(store, entry, time, capacity))
         /\ Cardinality(Insert(store, entry, time, capacity)) <= capacity
  <1> DEFINE live == Live(store, time)
             room == IF Cardinality(live) >= capacity THEN live \ Oldest(live) ELSE live
  <1>1. live \in SUBSET store
    BY DEF Live
  <1>2. IsFiniteSet(live) /\ Cardinality(live) <= Cardinality(store)
        /\ Cardinality(live) \in Nat /\ Cardinality(store) \in Nat
    BY <1>1, FS_Subset, FS_CardinalityType
  <1>3. IsFiniteSet(room) /\ Cardinality(room) \in Nat /\ Cardinality(room) + 1 <= capacity
    <2>1. CASE Cardinality(live) >= capacity
      <3>1. live # {}
        BY <1>2, <2>1, FS_EmptySet
      <3>2. PICK e \in live : e \in Oldest(live)
        BY <1>1, <3>1, OldestExists
      <3>3. IsFiniteSet(live \ {e}) /\ Cardinality(live \ {e}) = Cardinality(live) - 1
        BY <1>2, <3>2, FS_RemoveElement
      <3>4. room \in SUBSET (live \ {e})
        BY <2>1, <3>2
      <3>5. IsFiniteSet(room) /\ Cardinality(room) <= Cardinality(live \ {e})
        BY <3>3, <3>4, FS_Subset
      <3>6. Cardinality(room) \in Nat
        BY <3>5, FS_CardinalityType
      <3> HIDE DEF room, live
      <3> QED BY <1>2, <3>3, <3>5, <3>6
    <2>2. CASE ~(Cardinality(live) >= capacity)
      <3>1. room = live
        BY <2>2
      <3> HIDE DEF room, live
      <3> QED BY <1>2, <2>2, <3>1
    <2> QED BY <2>1, <2>2
  <1>4. Insert(store, entry, time, capacity) = room \cup {entry}
    BY DEF Insert
  <1> HIDE DEF room
  <1>5. /\ IsFiniteSet(room \cup {entry})
        /\ Cardinality(room \cup {entry}) = IF entry \in room THEN Cardinality(room)
                                             ELSE Cardinality(room) + 1
    BY <1>3, FS_AddElement
  <1> QED BY <1>3, <1>4, <1>5
=============================================================================
