-------------------------- MODULE QueryCacheProofs --------------------------
(***************************************************************************)
(* The result cache, for any keys, ttl values and capacity, and the age of *)
(* an answer of execute_query, for any number of callers, queries and      *)
(* calls of clear_cache.                                                   *)
(*                                                                         *)
(* The cache's invariant says that the map and the list have the same      *)
(* keys, in the order of their last use.  The requests change the cache    *)
(* only by its own operations, so it holds with them, too.                 *)
(*                                                                         *)
(* The properties of the requests speak of answers.  Their invariant       *)
(* follows a result from the reading of the database through the request   *)
(* and the cache: whatever was cleared since the reading was cleared       *)
(* within one deadline of it, since a request keeps its result for no      *)
(* longer and a clear empties the cache.                                   *)
(***************************************************************************)
EXTENDS QueryCache, DataTheorems

-----------------------------------------------------------------------------
(* The map and the list of a cache *)

\* The map and the list of c have the same keys, each listed once, in order of last use.
Coherent(c) ==
    /\ c = [entries |-> c.entries, order |-> c.order]
    /\ c.entries = [k \in DOMAIN c.entries |-> c.entries[k]]
    /\ c.order \in Seq(Keys)
    /\ ToSet(c.order) = DOMAIN c.entries
    /\ IsInjective(c.order)

Recency(c, u) ==
    \A i, j \in DOMAIN c.order : i < j <=> <<c.order[i], c.order[j]>> \in u

\* The part of c with the keys of T.
IsPart(d, c, T) ==
    /\ DOMAIN d.entries = T
    /\ \A k \in T : k \in DOMAIN c.entries /\ d.entries[k] = c.entries[k]

LEMMA RemoveKeeps ==
  ASSUME NEW c, Coherent(c), NEW u, Recency(c, u), NEW k
  PROVE  /\ Coherent(remove(c, k))
         /\ Recency(remove(c, k), u)
         /\ IsPart(remove(c, k), c, DOMAIN c.entries \ {k})
<1> DEFINE d == remove(c, k)
           r == RemoveFirst(c.order, k)
<1>1. /\ d = [entries |-> d.entries, order |-> r]
      /\ d.order = r
      /\ DOMAIN d.entries = DOMAIN c.entries \ {k}
      /\ d.entries = [j \in DOMAIN d.entries |-> d.entries[j]]
      /\ \A j \in DOMAIN c.entries \ {k} : d.entries[j] = c.entries[j]
  BY DEF remove, Restrict
<1>2. /\ r \in Seq(Keys)
      /\ IsInjective(r)
      /\ ToSet(r) = ToSet(c.order) \ {k}
      /\ \A i, j \in DOMAIN r : \E a, b \in DOMAIN c.order :
           r[i] = c.order[a] /\ r[j] = c.order[b] /\ (i < j <=> a < b)
  BY RemoveFirstKeeps DEF Coherent
<1> HIDE DEF d, r
<1>3. Coherent(d)
  BY <1>1, <1>2 DEF Coherent
<1>4. Recency(d, u)
  BY <1>1, <1>2 DEF Recency
<1>5. IsPart(d, c, DOMAIN c.entries \ {k})
  BY <1>1 DEF IsPart
<1> QED
  BY <1>3, <1>4, <1>5 DEF d

\* A key used now is in front of all others.
Use(u, k) == {p \in u : p[1] # k /\ p[2] # k} \cup ({k} \X (Keys \ {k}))

\* A new key in front, used last.
LEMMA FrontKeeps ==
  ASSUME NEW c, Coherent(c), NEW u, Recency(c, u), NEW k \in Keys, k \notin ToSet(c.order),
         NEW d, NEW es, es = [j \in DOMAIN es |-> es[j]], DOMAIN es = DOMAIN c.entries \cup {k},
         d = [entries |-> es, order |-> Cons(k, c.order)]
  PROVE  Coherent(d) /\ Recency(d, Use(u, k))
<1> DEFINE s == c.order
           r == Cons(k, s)
<1>0. s \in Seq(Keys) /\ IsInjective(s) /\ Len(s) \in Nat /\ DOMAIN s = 1 .. Len(s)
  BY LenProperties DEF Coherent
<1>1. /\ r \in Seq(Keys)
      /\ IsInjective(r)
      /\ ToSet(r) = ToSet(s) \cup {k}
      /\ DOMAIN r = 1 .. Len(s) + 1
      /\ r[1] = k
      /\ \A i \in 2 .. Len(s) + 1 : i - 1 \in DOMAIN s /\ r[i] = s[i - 1]
  <2> HIDE DEF s
  <2> QED
    BY <1>0, ConsKeeps DEF s
<1>2. d.order = r /\ d.entries = es
  OBVIOUS
<1>3. Coherent(d)
  BY <1>1, <1>2 DEF Coherent
<1>4. \A i \in DOMAIN s : s[i] \in Keys /\ s[i] # k
  BY <1>0 DEF ToSet, Coherent
<1>5. ASSUME NEW i \in DOMAIN r, NEW j \in DOMAIN r
      PROVE  i < j <=> <<r[i], r[j]>> \in Use(u, k)
  <2>0. /\ i \in Int /\ i >= 1 /\ (i # 1 => i \in 2 .. Len(s) + 1)
        /\ j \in Int /\ j >= 1 /\ (j # 1 => j \in 2 .. Len(s) + 1)
    BY <1>0, <1>1
  <2>1. CASE i = 1 /\ j = 1
    BY <2>1, <1>1 DEF Use
  <2>2. CASE i = 1 /\ j # 1
    <3>1. r[i] = k /\ r[j] \in Keys \ {k} /\ i < j
      BY <1>1, <1>4, <2>0, <2>2
    <3> QED
      BY <3>1 DEF Use
  <2>3. CASE i # 1 /\ j = 1
    <3>1. r[j] = k /\ r[i] # k /\ ~(i < j)
      BY <1>1, <1>4, <2>0, <2>3
    <3> QED
      BY <3>1 DEF Use
  <2>4. CASE i # 1 /\ j # 1
    <3>1. /\ i - 1 \in DOMAIN s /\ r[i] = s[i - 1] /\ r[i] # k
          /\ j - 1 \in DOMAIN s /\ r[j] = s[j - 1] /\ r[j] # k
      BY <1>1, <1>4, <2>0, <2>4
    <3>2. i < j <=> i - 1 < j - 1
      BY <2>0
    <3>3. i - 1 < j - 1 <=> <<r[i], r[j]>> \in u
      BY <3>1 DEF Recency
    <3>4. <<r[i], r[j]>> \in Use(u, k) <=> <<r[i], r[j]>> \in u
      BY <3>1 DEF Use
    <3> QED
      BY <3>2, <3>3, <3>4
  <2> QED
    BY <2>1, <2>2, <2>3, <2>4
<1>6. Recency(d, Use(u, k))
  BY <1>2, <1>5 DEF Recency
<1> QED
  BY <1>3, <1>6

\* A hit moves its key to the front of the list, and leaves the entries alone.
LEMMA MoveKeeps ==
  ASSUME NEW c, Coherent(c), NEW u, Recency(c, u), NEW k \in DOMAIN c.entries
  PROVE  /\ Coherent(moveToFront(c, k))
         /\ Recency(moveToFront(c, k), Use(u, k))
         /\ moveToFront(c, k).entries = c.entries
<1> DEFINE b == remove(c, k)
           d == [entries |-> c.entries, order |-> Cons(k, b.order)]
<1>1. k \in Keys /\ Contains(c.order, k)
  <2>1. PICK i \in 1 .. Len(c.order) : c.order[i] = k
    BY LenProperties DEF Coherent, ToSet
  <2> QED
    BY <2>1, ElementOfSeq DEF Contains, Coherent
<1>2. moveToFront(c, k) = d
  BY <1>1 DEF moveToFront, remove, Coherent
<1>3. Coherent(b) /\ Recency(b, u) /\ DOMAIN b.entries = DOMAIN c.entries \ {k}
  BY RemoveKeeps DEF IsPart
<1>4. k \notin ToSet(b.order)
  BY <1>3 DEF Coherent
<1>5. /\ c.entries = [j \in DOMAIN c.entries |-> c.entries[j]]
      /\ DOMAIN c.entries = DOMAIN b.entries \cup {k}
  BY <1>3 DEF Coherent
<1> HIDE DEF b
<1>6. Coherent(d) /\ Recency(d, Use(u, k))
  BY <1>1, <1>3, <1>4, <1>5, FrontKeeps
<1> QED
  BY <1>2, <1>6

\* The first n keys of the list and their entries.
LEMMA KeptKeeps ==
  ASSUME NEW c, Coherent(c), NEW u, Recency(c, u), NEW n \in 0 .. Len(c.order)
  PROVE  /\ Coherent(Kept(c, n))
         /\ Recency(Kept(c, n), u)
         /\ DOMAIN Kept(c, n).entries =
              DOMAIN c.entries \ {c.order[i] : i \in n + 1 .. Len(c.order)}
         /\ IsFiniteSet(DOMAIN Kept(c, n).entries)
         /\ Cardinality(DOMAIN Kept(c, n).entries) = n
<1> DEFINE s == c.order
           r == SubSeq(s, 1, n)
           gone == {s[i] : i \in n + 1 .. Len(s)}
           d == Kept(c, n)
<1>1. /\ d = [entries |-> d.entries, order |-> r]
      /\ d.order = r
      /\ DOMAIN d.entries = DOMAIN c.entries \ gone
      /\ d.entries = [j \in DOMAIN d.entries |-> d.entries[j]]
  BY DEF Kept, Restrict
<1>2. /\ r \in Seq(Keys)
      /\ IsInjective(r)
      /\ Len(r) = n
      /\ DOMAIN r = 1 .. n
      /\ \A i \in 1 .. n : i \in DOMAIN s /\ r[i] = s[i]
      /\ ToSet(r) = ToSet(s) \ gone
  <2>1. s \in Seq(Keys) /\ IsInjective(s) /\ n \in 0 .. Len(s)
    BY DEF Coherent
  <2> HIDE DEF s
  <2> QED
    BY <2>1, PrefixKeeps
<1> HIDE DEF d, r, gone
<1>3. Coherent(d)
  BY <1>1, <1>2 DEF Coherent
<1>4. Recency(d, u)
  BY <1>1, <1>2 DEF Recency
<1>5. IsFiniteSet(ToSet(r)) /\ Cardinality(ToSet(r)) = n
  BY <1>2, CountInjective
<1> QED
  BY <1>1, <1>3, <1>4, <1>5 DEF d, gone, Coherent

\* Set evicts nothing while there is room, and all but MaxSize - 1 keys otherwise.
LEMMA EvictKeeps ==
  ASSUME NEW c, Coherent(c), NEW u, Recency(c, u)
  PROVE  \E n \in 0 .. Len(c.order) :
           /\ evict(c) = Kept(c, n)
           /\ n < MaxSize
           /\ n = Len(c.order) \/ n = MaxSize - 1
<1> DEFINE L == Len(c.order)
           Ends(n) == n = 0 \/ Cardinality(DOMAIN Kept(c, n).entries) < MaxSize
           Chosen(n) == Ends(n) /\ \A m \in n + 1 .. L : ~Ends(m)
           w == IF L < MaxSize THEN L ELSE MaxSize - 1
<1>1. L \in Nat /\ MaxSize \in Nat \ {0}
  BY CacheAssumption, LenProperties DEF Coherent
<1>2. \A n \in 0 .. L : Ends(n) <=> n < MaxSize
  <2> TAKE n \in 0 .. L
  <2>1. Cardinality(DOMAIN Kept(c, n).entries) = n
    BY KeptKeeps
  <2> QED
    BY <1>1, <2>1
<1> HIDE DEF L, Ends
<1>3. w \in 0 .. L /\ Chosen(w)
  BY <1>1, <1>2
<1> DEFINE n == CHOOSE n \in 0 .. L : Chosen(n)
<1>4. n \in 0 .. L /\ Chosen(n)
  BY <1>3
<1>5. evict(c) = Kept(c, n)
  BY DEF evict, L, Ends
<1> HIDE DEF n
<1>6. n < MaxSize /\ (n = L \/ n = MaxSize - 1)
  BY <1>1, <1>2, <1>4
<1> QED
  BY <1>4, <1>5, <1>6 DEF L

\* A sweep removes the keys of the expired entries, one after the other.
LEMMA SweepKeeps ==
  ASSUME Coherent(cache), Recency(cache, used), cleanup
  PROVE  /\ Coherent(cache')
         /\ Recency(cache', used)
         /\ IsPart(cache', cache, {k \in Stored : ~IsExpired(cache.entries[k])})
<1> DEFINE E == {k \in Stored : IsExpired(cache.entries[k])}
           Parts == [entries : {Restrict(cache.entries, T) : T \in SUBSET Stored},
                     order : Seq(Keys)]
           V == {c \in Parts : Coherent(c) /\ Recency(c, used)}
           ch == [U \in SUBSET E |-> CHOOSE x \in U : TRUE]
           step == [p \in E \X V |-> remove(p[2], p[1])]
<1>1. IsFiniteSet(E)
  <2>1. IsFiniteSet(Stored)
    BY CountInjective DEF Coherent, Stored
  <2> QED
    BY <2>1, FS_Subset
<1>2. cache \in V
  <2>1. cache.entries = Restrict(cache.entries, Stored)
    BY DEF Coherent, Restrict, Stored
  <2> QED
    BY <2>1 DEF Coherent
<1>3. \A U \in SUBSET E : U # {} => ch[U] \in U
  OBVIOUS
<1>4. ASSUME NEW c \in V, NEW k PROVE remove(c, k) \in V
  <2>1. Coherent(remove(c, k)) /\ Recency(remove(c, k), used)
    BY RemoveKeeps
  <2>2. PICK T \in SUBSET Stored : c.entries = Restrict(cache.entries, T)
    OBVIOUS
  <2>3. Restrict(c.entries, DOMAIN c.entries \ {k}) = Restrict(cache.entries, T \ {k})
    BY <2>2 DEF Restrict
  <2>4. remove(c, k) = [entries |-> Restrict(cache.entries, T \ {k}), order |-> remove(c, k).order]
    BY <2>3 DEF remove
  <2>5. remove(c, k).order \in Seq(Keys)
    BY <2>1 DEF Coherent
  <2> QED
    BY <2>1, <2>4, <2>5
<1>5. step \in [E \X V -> V]
  BY <1>4
<1> HIDE DEF V
<1>6. PICK g \in [SUBSET E -> V] : IsFold(g, E, cache, ch, step)
  <2> HIDE DEF E, step, ch
  <2> QED
    BY <1>1, <1>2, <1>3, <1>5, FoldExists
<1>7. \A U \in SUBSET E :
        g[U] = IF U = {} THEN cache
               ELSE remove(g[U \ {CHOOSE x \in U : TRUE}], CHOOSE x \in U : TRUE)
  <2> TAKE U \in SUBSET E
  <2>1. g[U] = IF U = {} THEN cache ELSE step[<<ch[U], g[U \ {ch[U]}]>>]
    <3> HIDE DEF E, ch, step
    <3> QED
      BY <1>6, FoldValue
  <2>2. CASE U = {}
    BY <2>1, <2>2
  <2>3. CASE U # {}
    <3>1. ch[U] \in E /\ U \ {ch[U]} \in SUBSET E
      BY <1>3, <2>3
    <3>2. <<ch[U], g[U \ {ch[U]}]>> \in E \X V
      <4> HIDE DEF E, ch, step
      <4> QED
        BY <3>1
    <3>3. g[U] = remove(g[U \ {ch[U]}], ch[U])
      BY <2>1, <2>3, <3>2
    <3> QED
      BY <2>3, <3>3
  <2> QED
    BY <2>2, <2>3
<1> DEFINE h == CHOOSE iter : iter = [s \in SUBSET E |->
                    IF s = {} THEN cache
                    ELSE remove(iter[s \ {CHOOSE x \in s : TRUE}], CHOOSE x \in s : TRUE)]
<1>8. h = [s \in SUBSET E |->
             IF s = {} THEN cache
             ELSE remove(h[s \ {CHOOSE x \in s : TRUE}], CHOOSE x \in s : TRUE)]
  <2>1. g = [s \in SUBSET E |->
               IF s = {} THEN cache
               ELSE remove(g[s \ {CHOOSE x \in s : TRUE}], CHOOSE x \in s : TRUE)]
    BY <1>7
  <2> HIDE DEF E
  <2> QED
    BY <2>1
<1>9. cache' = h[E]
  BY DEF cleanup, FoldSet, MapThenFoldSet
<1> HIDE DEF h
<1> DEFINE P == {U \in SUBSET E : h[U] \in V /\ DOMAIN h[U].entries = Stored \ U}
<1>10. {} \in P
  BY <1>2, <1>8 DEF Stored
<1>11. ASSUME NEW U \in SUBSET E, U # {}, U \ {ch[U]} \in P PROVE U \in P
  <2> DEFINE W == U \ {ch[U]}
  <2>1. ch[U] \in U /\ h[W] \in V /\ DOMAIN h[W].entries = Stored \ W
    BY <1>3, <1>11
  <2>2. h[U] = remove(h[W], ch[U])
    BY <1>8, <1>11
  <2>3. h[U] \in V
    BY <1>4, <2>1, <2>2
  <2>4. DOMAIN h[U].entries = DOMAIN h[W].entries \ {ch[U]}
    BY <2>2 DEF remove, Restrict
  <2> HIDE DEF ch
  <2>5. DOMAIN h[U].entries = Stored \ U
    BY <2>1, <2>4
  <2> QED
    BY <2>3, <2>5
<1>12. E \in P
  <2> HIDE DEF P, E, ch
  <2>1. SUBSET E \subseteq P
    BY <1>1, <1>3, <1>10, <1>11, SetInduction
  <2> QED
    BY <2>1
<1>13. cache' \in V /\ DOMAIN cache'.entries = Stored \ E
  BY <1>9, <1>12
<1>14. IsPart(cache', cache, Stored \ E)
  <2>1. PICK T \in SUBSET Stored : cache'.entries = Restrict(cache.entries, T)
    BY <1>13 DEF V
  <2> QED
    BY <1>13, <2>1 DEF IsPart, Restrict, Stored
<1>15. Stored \ E = {k \in Stored : ~IsExpired(cache.entries[k])}
  OBVIOUS
<1> QED
  BY <1>13, <1>14, <1>15 DEF V

-----------------------------------------------------------------------------
(* The steps of the cache *)

CInv ==
    /\ Coherent(cache)
    /\ Recency(cache, used)
    /\ SizeBound

LEMMA CacheSize ==
  ASSUME NEW c, Coherent(c)
  PROVE  /\ IsFiniteSet(DOMAIN c.entries)
         /\ Cardinality(DOMAIN c.entries) = Len(c.order)
BY CountInjective DEF Coherent

LEMMA EmptyCoherent ==
  ASSUME NEW c, c = [entries |-> <<>>, order |-> <<>>], NEW u
  PROVE  Coherent(c) /\ Recency(c, u) /\ DOMAIN c.entries = {}
<1>1. c.entries = <<>> /\ c.order = <<>>
  OBVIOUS
<1>2. DOMAIN <<>> = {} /\ <<>> = [k \in {} |-> <<>>[k]] /\ <<>> \in Seq(Keys)
  OBVIOUS
<1> QED
  BY <1>1, <1>2 DEF Coherent, Recency, ToSet, IsInjective

\* What has fewer entries than a cache within the bound is within the bound.
LEMMA SmallerFits ==
  ASSUME Coherent(cache), SizeBound, NEW c, DOMAIN c.entries \subseteq Stored
  PROVE  Cardinality(DOMAIN c.entries) <= MaxSize
<1>1. /\ IsFiniteSet(Stored) /\ Cardinality(DOMAIN c.entries) <= Cardinality(Stored)
      /\ Cardinality(DOMAIN c.entries) \in Nat /\ Cardinality(Stored) \in Nat
  BY CacheSize, FS_Subset, FS_CardinalityType DEF Stored
<1> QED
  BY <1>1, CacheAssumption DEF SizeBound

LEMMA UsedIsUse ==
  ASSUME NEW k, Used(k)
  PROVE  used' = Use(used, k)
BY DEF Used, Use

LEMMA CacheInit == Init => CInv
<1> SUFFICES ASSUME Init PROVE CInv
  OBVIOUS
<1>1. Coherent(cache) /\ Recency(cache, used) /\ Stored = {}
  BY EmptyCoherent DEF Init, Stored
<1>2. SizeBound
  BY <1>1, FS_EmptySet, CacheAssumption DEF SizeBound
<1> QED
  BY <1>1, <1>2 DEF CInv

LEMMA GetInv ==
  ASSUME CInv, NEW k \in Keys, Get(k)
  PROVE  CInv'
<1>1. CASE UNCHANGED <<cache, used>>
  BY <1>1 DEF CInv, Coherent, Recency, SizeBound, Stored
<1>2. CASE cache' = remove(cache, k) /\ UNCHANGED used
  <2>1. Coherent(cache') /\ Recency(cache', used') /\ DOMAIN cache'.entries \subseteq Stored
    BY <1>2, RemoveKeeps DEF CInv, IsPart, Stored
  <2>2. SizeBound'
    BY <2>1, SmallerFits DEF CInv, SizeBound, Stored
  <2> QED
    BY <2>1, <2>2 DEF CInv
<1>3. CASE k \in Stored /\ cache' = moveToFront(cache, k) /\ Used(k)
  <2>1. Coherent(cache') /\ Recency(cache', used') /\ DOMAIN cache'.entries \subseteq Stored
    BY <1>3, MoveKeeps, UsedIsUse DEF CInv, Stored
  <2>2. SizeBound'
    BY <2>1, SmallerFits DEF CInv, SizeBound, Stored
  <2> QED
    BY <2>1, <2>2 DEF CInv
<1> QED
  BY <1>1, <1>2, <1>3 DEF Get, Live

\* What Set makes of the cache: the key without its old entry, the others that are
\* kept, and the key in front.
LEMMA SetSteps ==
  ASSUME CInv, NEW k \in Keys, NEW data, NEW ttl, Set(k, data, ttl)
  PROVE  \E old, n :
           /\ Coherent(old) /\ Recency(old, used)
           /\ IsPart(old, cache, Stored \ {k})
           /\ n \in 0 .. Len(old.order)
           /\ n < MaxSize
           /\ n = Len(old.order) \/ n = MaxSize - 1
           /\ Coherent(cache') /\ Recency(cache', used')
           /\ DOMAIN Kept(old, n).entries = Stored' \ {k}
           /\ k \in Stored'
<1> DEFINE entry == [data |-> data, created |-> now,
                     ttl |-> IF ttl = 0 THEN DefaultTTL ELSE ttl]
           old == IF k \in Stored THEN remove(cache, k) ELSE cache
           room == evict(old)
           es == [j \in DOMAIN room.entries \cup {k} |->
                    IF j = k THEN entry ELSE room.entries[j]]
<1>1. cache' = [entries |-> es, order |-> Cons(k, room.order)] /\ used' = Use(used, k)
  BY UsedIsUse DEF Set
<1>2. Coherent(old) /\ Recency(old, used) /\ IsPart(old, cache, Stored \ {k})
  BY RemoveKeeps DEF CInv, IsPart, Stored
<1> HIDE DEF old
<1>3. PICK n \in 0 .. Len(old.order) :
        /\ room = Kept(old, n)
        /\ n < MaxSize
        /\ n = Len(old.order) \/ n = MaxSize - 1
  BY <1>2, EvictKeeps
<1>4. Coherent(room) /\ Recency(room, used) /\ DOMAIN room.entries \subseteq Stored \ {k}
  BY <1>2, <1>3, KeptKeeps DEF IsPart
<1> HIDE DEF room
<1>5. k \notin ToSet(room.order)
  BY <1>4 DEF Coherent
<1>6. es = [j \in DOMAIN es |-> es[j]] /\ DOMAIN es = DOMAIN room.entries \cup {k}
  OBVIOUS
<1> HIDE DEF es
<1>7. Coherent(cache') /\ Recency(cache', used')
  BY <1>1, <1>4, <1>5, <1>6, FrontKeeps
<1>8. DOMAIN room.entries = Stored' \ {k} /\ k \in Stored'
  BY <1>1, <1>4, <1>6 DEF Stored
<1> QED
  BY <1>2, <1>3, <1>7, <1>8

LEMMA SetInv ==
  ASSUME CInv, NEW k \in Keys, NEW data, NEW ttl, Set(k, data, ttl)
  PROVE  CInv'
<1>1. PICK old, n :
           /\ Coherent(old) /\ Recency(old, used)
           /\ n \in 0 .. Len(old.order)
           /\ n < MaxSize
           /\ Coherent(cache') /\ Recency(cache', used')
           /\ DOMAIN Kept(old, n).entries = Stored' \ {k}
           /\ k \in Stored'
  BY SetSteps
<1>2. IsFiniteSet(Stored' \ {k}) /\ Cardinality(Stored' \ {k}) = n
  BY <1>1, KeptKeeps
<1>3. Stored' = (Stored' \ {k}) \cup {k}
  BY <1>1
<1>4. Cardinality(Stored') = n + 1
  BY <1>2, <1>3, FS_AddElement
<1>5. n + 1 <= MaxSize
  BY <1>1, CacheAssumption
<1> QED
  BY <1>1, <1>4, <1>5 DEF CInv, SizeBound

LEMMA CacheStep == CInv /\ [CacheNext]_cacheVars => CInv'
<1> SUFFICES ASSUME CInv, [CacheNext]_cacheVars PROVE CInv'
  OBVIOUS
<1>1. CASE \E k \in Keys : Get(k)
  BY <1>1, GetInv
<1>2. ASSUME NEW k \in Keys, Invalidate(k) PROVE CInv'
  <2>1. Coherent(cache') /\ Recency(cache', used') /\ DOMAIN cache'.entries \subseteq Stored
    BY <1>2, RemoveKeeps DEF Invalidate, CInv, IsPart, Stored
  <2>2. SizeBound'
    BY <2>1, SmallerFits DEF CInv, SizeBound, Stored
  <2> QED
    BY <2>1, <2>2 DEF CInv
<1>3. CASE \E k \in Keys, data \in Data, ttl \in TTLs : Set(k, data, ttl)
  BY <1>3, SetInv
<1>4. CASE Clear
  <2>1. Coherent(cache') /\ Recency(cache', used') /\ DOMAIN cache'.entries \subseteq Stored
    BY <1>4, EmptyCoherent DEF Clear
  <2>2. SizeBound'
    BY <2>1, SmallerFits DEF CInv, SizeBound, Stored
  <2> QED
    BY <2>1, <2>2 DEF CInv
<1>5. CASE cleanup
  <2>1. Coherent(cache') /\ Recency(cache', used') /\ DOMAIN cache'.entries \subseteq Stored
    BY <1>5, SweepKeeps DEF CInv, IsPart, cleanup
  <2>2. SizeBound'
    BY <2>1, SmallerFits DEF CInv, SizeBound, Stored
  <2> QED
    BY <2>1, <2>2 DEF CInv
<1>6. CASE UNCHANGED <<cache, used>>
  BY <1>6 DEF CInv, Coherent, Recency, SizeBound, Stored
<1> QED
  BY <1>1, <1>2, <1>3, <1>4, <1>5, <1>6 DEF CacheNext, Tick, cacheVars

LEMMA CacheInvariant == CacheSpec => []CInv
<1> QED
  BY CacheInit, CacheStep, PTL DEF CacheSpec

\* The map and the list of the cache never diverge (cache.go:67-190).
THEOREM MapMatchesList == CacheSpec => []OrderMatchesEntries
<1>1. CInv => OrderMatchesEntries
  BY DEF CInv, Coherent, OrderMatchesEntries, Stored
<1> QED
  BY <1>1, CacheInvariant, PTL

\* The list is the order of last use of what is stored (cache.go:192-215).
THEOREM ListIsRecency == CacheSpec => []OrderIsRecency
<1>1. CInv => OrderIsRecency
  BY DEF CInv, Recency, OrderIsRecency
<1> QED
  BY <1>1, CacheInvariant, PTL

\* The capacity is never exceeded (cache.go:117).
THEOREM CapacityHolds == CacheSpec => []SizeBound
<1>1. CInv => SizeBound
  BY DEF CInv
<1> QED
  BY <1>1, CacheInvariant, PTL

\* When Set evicts a key that is not its own, the cache was full and every other
\* stored key was used after it.
LEMMA EvictedIsOldest ==
  ASSUME CInv, NEW k \in Keys, NEW data, NEW ttl, Set(k, data, ttl),
         NEW x \in Stored, x \notin Stored'
  PROVE  /\ Cardinality(Stored) = MaxSize
         /\ \A j \in Stored \ {x} : <<j, x>> \in used
<1>1. PICK old, n :
           /\ Coherent(old) /\ Recency(old, used)
           /\ IsPart(old, cache, Stored \ {k})
           /\ n \in 0 .. Len(old.order)
           /\ n < MaxSize
           /\ n = Len(old.order) \/ n = MaxSize - 1
           /\ DOMAIN Kept(old, n).entries = Stored' \ {k}
           /\ k \in Stored'
  BY SetSteps
<1>2. /\ DOMAIN old.entries = Stored \ {k} /\ x # k
      /\ DOMAIN Kept(old, n).entries =
           DOMAIN old.entries \ {old.order[i] : i \in n + 1 .. Len(old.order)}
  BY <1>1, KeptKeeps DEF IsPart
<1>3. PICK i \in n + 1 .. Len(old.order) : old.order[i] = x
  BY <1>1, <1>2
<1>4. /\ Len(old.order) \in Nat /\ MaxSize \in Nat \ {0}
      /\ DOMAIN old.order = 1 .. Len(old.order)
  BY <1>1, CacheAssumption, LenProperties DEF Coherent
<1>5. n = MaxSize - 1 /\ Len(old.order) >= MaxSize
  BY <1>1, <1>3, <1>4
<1>6. /\ IsFiniteSet(Stored) /\ Cardinality(Stored) = Len(cache.order) /\ Len(cache.order) \in Nat
      /\ Cardinality(Stored) <= MaxSize
  BY CacheSize, LenProperties DEF CInv, Coherent, SizeBound, Stored
<1>7. Cardinality(Stored \ {k}) = Len(old.order)
  BY <1>1, <1>2, CacheSize
<1>8. k \notin Stored
  <2>1. CASE k \in Stored
    <3>1. Cardinality(Stored \ {k}) = Cardinality(Stored) - 1
      BY <2>1, <1>6, FS_RemoveElement
    <3> QED
      BY <3>1, <1>4, <1>5, <1>6, <1>7
  <2> QED
    BY <2>1
<1>9. Stored \ {k} = Stored
  BY <1>8
<1>10. Cardinality(Stored) = MaxSize /\ Len(old.order) = MaxSize
  <2>1. Cardinality(Stored) = Len(old.order)
    BY <1>7, <1>9
  <2> QED
    BY <2>1, <1>4, <1>5, <1>6
<1>11. i = Len(old.order)
  BY <1>1, <1>3, <1>4, <1>5, <1>10
<1>12. ASSUME NEW j \in Stored \ {x} PROVE <<j, x>> \in used
  <2>1. PICK a \in DOMAIN old.order : old.order[a] = j
    BY <1>1, <1>2, <1>9 DEF Coherent, ToSet
  <2>2. a < i /\ i \in DOMAIN old.order
    BY <1>3, <1>4, <1>11, <2>1
  <2> QED
    BY <1>1, <1>3, <2>1, <2>2 DEF Recency
<1> QED
  BY <1>10, <1>12

\* A live entry leaves the cache only by Invalidate, Clear or an eviction of the key
\* used longest ago from a full cache (cache.go:89, 117, 192, 234).
THEOREM LiveEntriesAreKept == CacheSpec => LiveEntriesStay
<1>1. ASSUME CInv, [CacheNext]_cacheVars, NEW x \in Keys
      PROVE  Live(x) /\ x \notin Stored' =>
               \/ Clear \/ Invalidate(x)
               \/ /\ Cardinality(Stored) = MaxSize
                  /\ \A j \in Stored \ {x} : <<j, x>> \in used
  <2> SUFFICES ASSUME Live(x), x \notin Stored',
                      ~Clear, ~Invalidate(x)
               PROVE  /\ Cardinality(Stored) = MaxSize
                      /\ \A j \in Stored \ {x} : <<j, x>> \in used
    OBVIOUS
  <2>0. x \in Stored /\ ~IsExpired(cache.entries[x]) /\ Coherent(cache) /\ Recency(cache, used)
    BY <1>1 DEF Live, CInv
  <2>1. ~(cache' = cache)
    BY <2>0 DEF Stored
  <2>2. ASSUME NEW k \in Keys, Get(k) PROVE FALSE
    <3>1. CASE cache' = remove(cache, k) /\ IsExpired(cache.entries[k])
      BY <3>1, <2>0, RemoveKeeps DEF IsPart, Stored
    <3>2. CASE cache' = moveToFront(cache, k) /\ Live(k)
      BY <3>2, <2>0, MoveKeeps DEF Live, Stored
    <3> QED
      BY <2>1, <2>2, <3>1, <3>2 DEF Get
  <2>3. ASSUME NEW k \in Keys, Invalidate(k) PROVE FALSE
    <3>1. k # x
      BY <2>3
    <3> QED
      BY <2>0, <2>3, <3>1, RemoveKeeps DEF Invalidate, IsPart, Stored
  <2>4. ASSUME cleanup PROVE FALSE
    BY <2>0, <2>4, SweepKeeps DEF IsPart, Stored
  <2>5. PICK k \in Keys, data \in Data, ttl \in TTLs : Set(k, data, ttl)
    BY <1>1, <2>1, <2>2, <2>3, <2>4 DEF CacheNext, Tick, cacheVars
  <2> QED
    BY <1>1, <2>0, <2>5, EvictedIsOldest
<1>2. CInv /\ [CacheNext]_cacheVars =>
        [\A k \in Keys :
           Live(k) /\ k \notin Stored' =>
             \/ Clear \/ Invalidate(k)
             \/ /\ Cardinality(Stored) = MaxSize
                /\ \A j \in Stored \ {k} : <<j, k>> \in used]_cacheVars
  BY <1>1
<1> QED
  BY <1>2, CacheInvariant, PTL DEF CacheSpec, LiveEntriesStay

-----------------------------------------------------------------------------
(* The requests *)

\* Every clear_cache that the result does not know of came soon after its reading.
Recent(data) ==
    \A n \in 1 .. Len(clears) : n > data.clears => clears[n] <= data.readAt + Timeout

\* A result that some execution read.
IsResult(data) ==
    /\ data \in Data
    /\ data.readAt <= now
    /\ data.clears <= Len(clears)

EntryOK(k, e) ==
    /\ IsResult(e.data)
    /\ e.ttl = e.data.ttl
    /\ e.created \in Nat
    /\ k \notin Deaf => Recent(e.data) /\ e.created <= e.data.readAt + Timeout

Executing(q) ==
    /\ q.key \in Keys
    /\ q.ttl \in TTLs
    /\ q.since \in 0 .. Len(clears)
    /\ q.submitted \in 0 .. now
    /\ q.key \notin Deaf => now <= q.submitted + Timeout

Executed(q) ==
    /\ Executing(q)
    /\ IsResult(q.result)
    /\ q.key \notin Deaf => Recent(q.result)
    /\ q.result.ttl = q.ttl
    /\ q.result.readAt >= q.submitted
    /\ q.result.clears >= q.since

AnsweredOK(q) ==
    /\ q.since \in 0 .. Len(clears)
    /\ q.answered \in Nat
    /\ q.result # NoResult => q.result \in Data
    /\ q.result # NoResult /\ q.key \notin Deaf =>
         /\ q.answered <= q.result.readAt + q.result.ttl + Timeout
         /\ \A n \in q.result.clears + 1 .. q.since :
              clears[n] <= q.result.readAt + Timeout

RequestOK(q) ==
    /\ q.phase \in {"idle", "executing", "executed", "answered"}
    /\ q.phase = "executing" => Executing(q)
    /\ q.phase = "executed"  => Executed(q)
    /\ q.phase = "answered"  => AnsweredOK(q)

TimesOK ==
    /\ now \in Nat /\ now <= MaxTime
    /\ clears \in Seq(Nat) /\ Len(clears) <= MaxClears
    /\ \A n \in 1 .. Len(clears) : clears[n] <= now

IInv ==
    /\ TimesOK
    /\ \A k \in Stored : EntryOK(k, cache.entries[k])
    /\ DOMAIN req = Requests
    /\ \A r \in Requests : RequestOK(req[r])

-----------------------------------------------------------------------------

LEMMA ConstantFacts ==
    /\ \A ttl \in TTLs : ttl \in Nat /\ ttl # 0
    /\ Timeout \in Nat /\ MaxTime \in Nat /\ MaxClears \in Nat
    /\ \A data \in Data : data.readAt \in Nat /\ data.clears \in Nat /\ data.ttl \in TTLs
    /\ \A t, n, ttl : t \in 0 .. MaxTime /\ n \in 0 .. MaxClears /\ ttl \in TTLs
                        => [readAt |-> t, clears |-> n, ttl |-> ttl] \in Data
    /\ NoResult \notin Data
BY CacheAssumption, QueryAssumption

\* Removing, moving and evicting never changes an entry.
Shrinks(c, d) ==
    /\ DOMAIN d.entries \subseteq DOMAIN c.entries
    /\ \A k \in DOMAIN d.entries : d.entries[k] = c.entries[k]

LEMMA RemoveShrinks ==
  ASSUME NEW c, NEW k
  PROVE  Shrinks(c, remove(c, k))
BY DEF Shrinks, remove, Restrict

LEMMA MoveShrinks ==
  ASSUME NEW k
  PROVE  Shrinks(cache, moveToFront(cache, k))
BY DEF Shrinks, moveToFront

LEMMA EvictShrinks ==
  ASSUME NEW c
  PROVE  Shrinks(c, evict(c))
<1>1. \A n : Shrinks(c, Kept(c, n))
  BY DEF Shrinks, Kept, Restrict
<1> QED
  BY <1>1 DEF evict

-----------------------------------------------------------------------------
(* What the operations of the cache do to its entries *)

\* A lookup only removes and moves entries.
LEMMA GetKeeps ==
  ASSUME NEW k, \A j \in Stored : EntryOK(j, cache.entries[j]), Get(k), UNCHANGED clears
  PROVE  (\A j \in Stored : EntryOK(j, cache.entries[j]))' /\ now' = now
<1>1. now' = now
  BY DEF Get
<1>2. Shrinks(cache, cache')
  <2>1. CASE cache' = cache
    BY <2>1 DEF Shrinks
  <2>2. CASE cache' = remove(cache, k)
    BY <2>2, RemoveShrinks
  <2>3. CASE cache' = moveToFront(cache, k)
    BY <2>3, MoveShrinks
  <2> QED
    BY <2>1, <2>2, <2>3 DEF Get
<1>3. ASSUME NEW j, NEW e, EntryOK(j, e) PROVE EntryOK(j, e)'
  BY <1>1, <1>3 DEF EntryOK, IsResult, Recent
<1> QED
  BY <1>1, <1>2, <1>3 DEF Shrinks, Stored

\* What is stored by Set is the new entry, and what was stored before.
LEMMA SetKeeps ==
  ASSUME NEW k, NEW data, NEW ttl \in TTLs,
         \A j \in Stored : EntryOK(j, cache.entries[j]),
         EntryOK(k, [data |-> data, created |-> now, ttl |-> ttl]),
         Set(k, data, ttl), UNCHANGED clears
  PROVE  (\A j \in Stored : EntryOK(j, cache.entries[j]))' /\ now' = now
<1> DEFINE entry == [data |-> data, created |-> now, ttl |-> IF ttl = 0 THEN DefaultTTL ELSE ttl]
           old == IF k \in Stored THEN remove(cache, k) ELSE cache
           room == evict(old)
<1>1. entry = [data |-> data, created |-> now, ttl |-> ttl]
  BY ConstantFacts
<1>2. /\ now' = now
      /\ cache'.entries = [j \in DOMAIN room.entries \cup {k} |->
                             IF j = k THEN entry ELSE room.entries[j]]
  BY DEF Set
<1>3. Shrinks(cache, room)
  <2>1. Shrinks(cache, old)
    BY RemoveShrinks DEF Shrinks
  <2> QED
    BY <2>1, EvictShrinks DEF Shrinks
<1>4. ASSUME NEW j, NEW e, EntryOK(j, e) PROVE EntryOK(j, e)'
  BY <1>2, <1>4 DEF EntryOK, IsResult, Recent
<1>5. ASSUME NEW j \in Stored'
      PROVE  EntryOK(j, cache'.entries[j])
  <2>1. /\ DOMAIN cache'.entries = {k} \cup DOMAIN room.entries
        /\ cache'.entries[j] = IF j = k THEN entry ELSE room.entries[j]
    BY <1>2, <1>5 DEF Stored
  <2>2. j = k \/ j \in DOMAIN room.entries
    BY <1>5, <2>1 DEF Stored
  <2> QED
    BY <1>1, <1>3, <2>1, <2>2 DEF Shrinks, Stored
<1> QED
  BY <1>2, <1>4, <1>5

-----------------------------------------------------------------------------

LEMMA InitInv == QInit => IInv
<1> SUFFICES ASSUME QInit PROVE IInv
  OBVIOUS
<1>1. TimesOK
  BY ConstantFacts DEF QInit, Init, TimesOK
<1>2. Stored = {}
  BY DEF QInit, Init, Stored
<1>3. \A r \in Requests : req[r] = Idle
  BY DEF QInit
<1>4. RequestOK(Idle)
  BY DEF RequestOK, Idle
<1> QED
  BY <1>1, <1>2, <1>3, <1>4 DEF IInv, QInit

\* While neither time passes nor a clear happens, a request whose record is
\* replaced is the only one to look at.
LEMMA OneRequest ==
  ASSUME IInv, NEW r \in Requests, NEW q, RequestOK(q),
         req' = [req EXCEPT ![r] = q],
         now' = now, UNCHANGED clears,
         (\A k \in Stored : EntryOK(k, cache.entries[k]))'
  PROVE  IInv'
<1>1. TimesOK'
  BY DEF IInv, TimesOK
<1>2. ASSUME NEW p, RequestOK(p) PROVE RequestOK(p)'
  BY <1>2 DEF RequestOK, Executing, Executed, AnsweredOK, IsResult, Recent
<1>3. /\ DOMAIN req' = Requests
      /\ \A s \in Requests : RequestOK(req'[s])
  BY DEF IInv
<1> QED
  BY <1>1, <1>2, <1>3 DEF IInv

\* The same with the cache untouched.
LEMMA CacheUntouched ==
  ASSUME IInv, UNCHANGED <<cacheVars, clears>>
  PROVE  /\ now' = now
         /\ (\A k \in Stored : EntryOK(k, cache.entries[k]))'
BY DEF IInv, cacheVars, Stored, EntryOK, IsResult, Recent

LEMMA ArrivingOK ==
  ASSUME IInv, NEW k \in Keys, NEW useCache, NEW ttl \in TTLs
  PROVE  RequestOK(Arriving(k, useCache, ttl))
BY ConstantFacts DEF IInv, TimesOK, Arriving, RequestOK, Executing

LEMMA SubmitHitInv ==
  ASSUME IInv, NEW r \in Requests, NEW k \in Keys, NEW ttl \in TTLs, SubmitHit(r, k, ttl)
  PROVE  IInv'
<1> DEFINE e == cache.entries[k]
           q == [Arriving(k, TRUE, ttl) EXCEPT !.phase = "answered", !.result = e.data]
<1>1. /\ Get(k) /\ UNCHANGED clears
      /\ k \in Stored /\ ~IsExpired(e)
      /\ req' = [req EXCEPT ![r] = q]
  BY DEF SubmitHit, Live
<1>2. EntryOK(k, e)
  BY <1>1 DEF IInv
<1>3. /\ q.phase = "answered" /\ q.since = Len(clears) /\ q.answered = now
      /\ q.result = e.data /\ q.key = k
  BY DEF Arriving
<1>4. /\ e.data \in Data /\ e.data.readAt \in Nat /\ e.data.ttl \in Nat /\ e.data.ttl # 0
      /\ e.created \in Nat /\ now \in Nat /\ Timeout \in Nat
      /\ e.ttl = e.data.ttl
      /\ k \notin Deaf => e.created <= e.data.readAt + Timeout
  BY <1>2, ConstantFacts DEF EntryOK, IsResult, IInv, TimesOK
<1>5. now - e.created <= e.ttl
  BY <1>1, <1>4 DEF IsExpired
<1>6. k \notin Deaf => now <= e.data.readAt + e.data.ttl + Timeout
  <2> HIDE DEF e
  <2> QED
    BY <1>4, <1>5
<1>7. k \notin Deaf =>
        \A n \in e.data.clears + 1 .. Len(clears) : clears[n] <= e.data.readAt + Timeout
  BY <1>2, ConstantFacts DEF EntryOK, IsResult, Recent, IInv, TimesOK
<1>8. Len(clears) \in 0 .. Len(clears)
  BY DEF IInv, TimesOK
<1>9. RequestOK(q)
  <2> HIDE DEF q, e
  <2> QED
    BY <1>3, <1>4, <1>6, <1>7, <1>8 DEF RequestOK, AnsweredOK
<1> HIDE DEF q
<1> QED
  BY <1>1, <1>9, GetKeeps, OneRequest DEF IInv

LEMMA SubmitMissInv ==
  ASSUME IInv, NEW r \in Requests, NEW k \in Keys, NEW ttl \in TTLs,
         NEW useCache \in BOOLEAN, SubmitMiss(r, k, useCache, ttl)
  PROVE  IInv'
<1>1. /\ now' = now
      /\ (\A j \in Stored : EntryOK(j, cache.entries[j]))'
  <2>1. CASE useCache
    BY <2>1, GetKeeps DEF SubmitMiss, IInv
  <2>2. CASE ~useCache
    BY <2>2, CacheUntouched DEF SubmitMiss
  <2> QED
    BY <2>1, <2>2
<1>2. req' = [req EXCEPT ![r] = Arriving(k, useCache, ttl)] /\ UNCHANGED clears
  BY DEF SubmitMiss
<1> QED
  BY <1>1, <1>2, ArrivingOK, OneRequest

LEMMA ExecuteInv ==
  ASSUME IInv, NEW r \in Requests, Execute(r)
  PROVE  IInv'
<1> DEFINE d == [readAt |-> now, clears |-> Len(clears), ttl |-> req[r].ttl]
           q == [req[r] EXCEPT !.phase = "executed", !.ran = TRUE, !.result = d]
<1>1. /\ req[r].phase = "executing" /\ Executing(req[r])
      /\ UNCHANGED <<cacheVars, clears>>
  BY DEF Execute, IInv, RequestOK
<1>2. req' = [req EXCEPT ![r] = q]
  BY DEF Execute, IInv
<1>3. d \in Data
  BY <1>1, ConstantFacts DEF IInv, TimesOK, Executing
<1>4. IsResult(d) /\ Recent(d)
  BY <1>3, ConstantFacts DEF IInv, TimesOK, IsResult, Recent
<1>5. /\ q.phase = "executed" /\ q.result = d /\ q.ttl = req[r].ttl
      /\ q.since = req[r].since /\ q.submitted = req[r].submitted /\ q.key = req[r].key
  OBVIOUS
<1>6. Executed(q)
  BY <1>1, <1>4, <1>5 DEF Executed, Executing, IInv, TimesOK
<1>7. RequestOK(q)
  BY <1>5, <1>6 DEF RequestOK
<1> HIDE DEF q
<1> QED
  BY <1>1, <1>2, <1>7, CacheUntouched, OneRequest

LEMMA FailInv ==
  ASSUME IInv, NEW r \in Requests, Fail(r)
  PROVE  IInv'
<1> DEFINE q == [req[r] EXCEPT !.phase = "answered", !.answered = now, !.result = NoResult]
<1>1. /\ req[r].phase \in {"executing", "executed"} /\ Executing(req[r])
      /\ UNCHANGED <<cacheVars, clears>>
  BY DEF Fail, IInv, RequestOK, Executed
<1>2. req' = [req EXCEPT ![r] = q]
  BY DEF Fail, IInv
<1>3. q.phase = "answered" /\ q.result = NoResult /\ q.since = req[r].since
      /\ q.answered = now
  OBVIOUS
<1>4. RequestOK(q)
  BY <1>1, <1>3 DEF RequestOK, AnsweredOK, Executing, IInv, TimesOK
<1> HIDE DEF q
<1> QED
  BY <1>1, <1>2, <1>4, CacheUntouched, OneRequest

LEMMA StoreInv ==
  ASSUME IInv, NEW r \in Requests, Store(r)
  PROVE  IInv'
<1> DEFINE d == req[r].result
           q == [req[r] EXCEPT !.phase = "answered", !.answered = now]
<1>1. /\ Executed(req[r])
      /\ UNCHANGED clears
      /\ req' = [req EXCEPT ![r] = q]
  BY DEF Store, IInv, RequestOK
<1>2. /\ d \in Data /\ d.readAt \in Nat /\ d.clears \in Nat /\ d.ttl \in Nat
      /\ now \in Nat /\ Timeout \in Nat
      /\ req[r].submitted \in Nat /\ req[r].since \in 0 .. Len(clears) /\ Len(clears) \in Nat
      /\ d.readAt >= req[r].submitted
      /\ req[r].key \notin Deaf => now <= req[r].submitted + Timeout
      /\ d.ttl = req[r].ttl /\ d.clears >= req[r].since
  BY <1>1, ConstantFacts DEF Executed, Executing, IsResult, IInv, TimesOK
<1>3. req[r].key \notin Deaf => now <= d.readAt + Timeout
  <2> HIDE DEF d
  <2> QED
    BY <1>2
<1>4. /\ now' = now
      /\ (\A j \in Stored : EntryOK(j, cache.entries[j]))'
  <2>1. CASE req[r].useCache
    <3>1. EntryOK(req[r].key, [data |-> d, created |-> now, ttl |-> req[r].ttl])
      BY <1>1, <1>2, <1>3 DEF EntryOK, Executed
    <3>2. Set(req[r].key, d, req[r].ttl) /\ req[r].ttl \in TTLs
      BY <1>1, <2>1 DEF Store, Executed, Executing
    <3> QED
      BY <1>1, <3>1, <3>2, SetKeeps DEF IInv
  <2>2. CASE ~req[r].useCache
    BY <1>1, <2>2, CacheUntouched DEF Store
  <2> QED
    BY <2>1, <2>2
<1>5. /\ q.phase = "answered" /\ q.result = d /\ q.since = req[r].since /\ q.answered = now
      /\ q.key = req[r].key
  OBVIOUS
<1>6. RequestOK(q)
  <2>1. req[r].key \notin Deaf => now <= d.readAt + d.ttl + Timeout
    <3> HIDE DEF d
    <3> QED
      BY <1>2, <1>3
  <2>2. d.clears + 1 .. req[r].since = {}
    <3> HIDE DEF d
    <3> QED
      BY <1>2
  <2> HIDE DEF d, q
  <2> QED
    BY <1>2, <1>5, <2>1, <2>2 DEF RequestOK, AnsweredOK
<1> HIDE DEF q
<1> QED
  BY <1>1, <1>4, <1>6, OneRequest

\* A clear is one more that a result in progress does not know of; it happens before
\* the deadline of that request.
LEMMA ClearInv ==
  ASSUME IInv, clearCache
  PROVE  IInv'
<1>1. /\ now' = now /\ UNCHANGED req
      /\ clears' = Append(clears, now)
      /\ Stored' = {}
      /\ Len(clears) < MaxClears
  BY DEF clearCache, Clear, Stored
<1>2. /\ clears \in Seq(Nat) /\ now \in Nat /\ Len(clears) \in Nat
      /\ MaxClears \in Nat
  BY ConstantFacts DEF IInv, TimesOK
<1>3. /\ clears' \in Seq(Nat) /\ Len(clears') = Len(clears) + 1
      /\ clears'[Len(clears) + 1] = now
      /\ \A n \in 1 .. Len(clears) : clears'[n] = clears[n]
  BY <1>1, <1>2
<1>4. TimesOK'
  BY <1>1, <1>2, <1>3 DEF IInv, TimesOK
<1>5. ASSUME NEW r \in Requests PROVE RequestOK(req[r])'
  <2> DEFINE q == req[r]
  <2>0. RequestOK(q)
    BY DEF IInv
  <2>1. CASE q.phase = "executing"
    BY <1>1, <1>2, <1>3, <2>0, <2>1 DEF RequestOK, Executing
  <2>2. CASE q.phase = "executed"
    <3>1. Executed(q)
      BY <2>0, <2>2 DEF RequestOK
    <3>2. /\ q.result \in Data /\ q.result.readAt \in Nat /\ q.result.clears \in Nat
          /\ q.submitted \in Nat /\ Timeout \in Nat /\ q.result.readAt >= q.submitted
          /\ q.key \notin Deaf => now <= q.submitted + Timeout
      BY <3>1, ConstantFacts DEF Executed, Executing, IsResult
    <3>3. q.key \notin Deaf => now <= q.result.readAt + Timeout
      <4> HIDE DEF q
      <4> QED
        BY <1>2, <3>2
    <3>4. q.key \notin Deaf => Recent(q.result)'
      BY <1>1, <1>2, <1>3, <3>1, <3>3 DEF Recent, Executed, IsResult
    <3>5. Executing(q)'
      BY <1>1, <1>2, <1>3, <3>1 DEF Executed, Executing
    <3> QED
      BY <1>1, <1>2, <1>3, <2>2, <3>1, <3>2, <3>4, <3>5 DEF Executed, IsResult, RequestOK
  <2>3. CASE q.phase = "answered"
    <3>1. AnsweredOK(q)
      BY <2>0, <2>3 DEF RequestOK
    <3>2. q.since \in 0 .. Len(clears)'
      BY <1>2, <1>3, <3>1 DEF AnsweredOK
    <3>3. ASSUME q.result # NoResult, q.key \notin Deaf, NEW n \in q.result.clears + 1 .. q.since
          PROVE  clears'[n] <= q.result.readAt + Timeout
      <4>1. n \in 1 .. Len(clears)
        <5>1. q.result.clears \in Nat /\ q.since \in Nat /\ q.since <= Len(clears)
          BY <1>2, <3>1, <3>3, ConstantFacts DEF AnsweredOK
        <5> HIDE DEF q
        <5> QED
          BY <1>2, <3>3, <5>1
      <4> QED
        BY <1>3, <3>1, <3>3, <4>1 DEF AnsweredOK
    <3>4. AnsweredOK(q)'
      BY <1>1, <3>1, <3>2, <3>3 DEF AnsweredOK
    <3> QED
      BY <1>1, <2>3, <3>4 DEF RequestOK
  <2> QED
    BY <1>1, <2>0, <2>1, <2>2, <2>3 DEF RequestOK
<1> QED
  BY <1>1, <1>4, <1>5 DEF IInv

LEMMA TickInv ==
  ASSUME IInv, QTick
  PROVE  IInv'
<1>1. /\ now' = now + 1 /\ now < MaxTime
      /\ UNCHANGED <<cache, req, clears>>
  BY DEF QTick, Tick
<1>2. now \in Nat /\ MaxTime \in Nat /\ Timeout \in Nat
  BY ConstantFacts DEF IInv, TimesOK
<1>3. TimesOK'
  BY <1>1, <1>2 DEF IInv, TimesOK
<1>4. ASSUME NEW data, IsResult(data) PROVE IsResult(data)' /\ (Recent(data) => Recent(data)')
  BY <1>1, <1>2, <1>4, ConstantFacts DEF IsResult, Recent
<1>5. (\A k \in Stored : EntryOK(k, cache.entries[k]))'
  BY <1>1, <1>2, <1>4, ConstantFacts DEF IInv, EntryOK, IsResult, Recent, Stored
<1>6. ASSUME NEW r \in Requests PROVE RequestOK(req[r])'
  <2> DEFINE q == req[r]
  <2>0. RequestOK(q)
    BY DEF IInv
  <2>1. ASSUME Executing(q), q.phase \in {"executing", "executed"} PROVE Executing(q)'
    <3>1. q.key \notin Deaf => now - q.submitted < Timeout
      BY <2>1 DEF QTick
    <3> QED
      BY <1>1, <1>2, <2>1, <3>1 DEF Executing
  <2>2. CASE q.phase = "executing"
    BY <1>1, <2>0, <2>1, <2>2 DEF RequestOK
  <2>3. CASE q.phase = "executed"
    BY <1>1, <1>4, <2>0, <2>1, <2>3 DEF RequestOK, Executed
  <2>4. CASE q.phase \in {"idle", "answered"}
    BY <1>1, <2>0, <2>4 DEF RequestOK, AnsweredOK
  <2> QED
    BY <2>0, <2>2, <2>3, <2>4 DEF RequestOK
<1> QED
  BY <1>1, <1>3, <1>5, <1>6 DEF IInv

LEMMA CleanupInv ==
  ASSUME IInv, CInv, Cleanup
  PROVE  IInv'
<1>1. UNCHANGED <<now, req, clears>>
  BY DEF Cleanup, cleanup
<1>2. Shrinks(cache, cache')
  BY SweepKeeps DEF CInv, Cleanup, IsPart, Shrinks, Stored
<1>3. ASSUME NEW j, NEW e, EntryOK(j, e) PROVE EntryOK(j, e)'
  BY <1>1, <1>3 DEF EntryOK, IsResult, Recent
<1>4. (\A k \in Stored : EntryOK(k, cache.entries[k]))'
  BY <1>2, <1>3 DEF IInv, Shrinks, Stored
<1>5. ASSUME NEW r \in Requests PROVE RequestOK(req[r])'
  BY <1>1 DEF IInv, RequestOK, Executing, Executed, AnsweredOK, IsResult, Recent
<1> QED
  BY <1>1, <1>4, <1>5 DEF IInv, TimesOK

\* The requests use the cache by its operations only.
LEMMA StepCache == IInv /\ [QNext]_vars => [CacheNext]_cacheVars
<1> SUFFICES ASSUME IInv, [QNext]_vars PROVE [CacheNext]_cacheVars
  OBVIOUS
<1>1. CASE \E r \in Requests, k \in Keys, ttl \in TTLs :
             \/ SubmitHit(r, k, ttl)
             \/ \E useCache \in BOOLEAN : SubmitMiss(r, k, useCache, ttl)
  BY <1>1 DEF SubmitHit, SubmitMiss, CacheNext
<1>2. CASE \E r \in Requests : Execute(r) \/ Fail(r)
  BY <1>2 DEF Execute, Fail
<1>3. ASSUME NEW r \in Requests, Store(r) PROVE [CacheNext]_cacheVars
  <2>1. req[r].key \in Keys /\ req[r].result \in Data /\ req[r].ttl \in TTLs
    BY <1>3 DEF IInv, RequestOK, Executed, Executing, IsResult, Store
  <2> QED
    BY <1>3, <2>1 DEF Store, CacheNext
<1>4. CASE clearCache \/ QTick \/ Cleanup
  BY <1>4 DEF clearCache, QTick, Cleanup, CacheNext
<1> QED
  BY <1>1, <1>2, <1>3, <1>4 DEF QNext, vars

LEMMA StepInv == IInv /\ CInv /\ [QNext]_vars => IInv'
<1> SUFFICES ASSUME IInv, CInv, [QNext]_vars PROVE IInv'
  OBVIOUS
<1>1. CASE \E r \in Requests, k \in Keys, ttl \in TTLs : SubmitHit(r, k, ttl)
  BY <1>1, SubmitHitInv
<1>2. CASE \E r \in Requests, k \in Keys, ttl \in TTLs :
             \E useCache \in BOOLEAN : SubmitMiss(r, k, useCache, ttl)
  BY <1>2, SubmitMissInv
<1>3. CASE \E r \in Requests : Execute(r) \/ Fail(r) \/ Store(r)
  BY <1>3, ExecuteInv, FailInv, StoreInv
<1>4. CASE clearCache \/ QTick \/ Cleanup
  BY <1>4, ClearInv, TickInv, CleanupInv
<1>5. CASE UNCHANGED vars
  <2>1. UNCHANGED <<cache, now, req, clears>>
    BY <1>5 DEF vars, cacheVars
  <2> QED
    BY <2>1 DEF IInv, TimesOK, Stored, EntryOK, RequestOK, Executing, Executed, AnsweredOK,
                IsResult, Recent
<1> QED
  BY <1>1, <1>2, <1>3, <1>4, <1>5 DEF QNext

\* The invariant of every behaviour.
LEMMA Invariant == QSpec => [](IInv /\ CInv)
<1>1. QInit => IInv /\ CInv
  BY InitInv, CacheInit DEF QInit
<1>2. (IInv /\ CInv) /\ [QNext]_vars => (IInv /\ CInv)'
  BY StepInv, StepCache, CacheStep
<1> QED
  BY <1>1, <1>2, PTL DEF QSpec

\* Seen through the cache's variables, the requests are callers of the cache: all
\* that holds of the cache holds under them (handlers_sprint4.go:352-368).
THEOREM CacheIsUsedAsMeant == QSpec => CacheSpec
<1>1. QInit => Init
  BY DEF QInit
<1> QED
  BY <1>1, StepCache, Invariant, PTL DEF QSpec, CacheSpec

-----------------------------------------------------------------------------

\* What is cached was returned by an execution that succeeded, and within its deadline
\* where the adapter heeds it (cache.go:103, handlers_sprint4.go:362).
THEOREM OnlyResultsAreCached == QSpec => []CachedAtOnce
<1>1. IInv => CachedAtOnce
  BY ConstantFacts DEF IInv, CachedAtOnce, EntryOK, IsResult
<1> QED
  BY <1>1, Invariant, PTL

\* Where the adapter heeds the deadline, no answer is older than its ttl plus one deadline
\* (handlers_sprint4.go:352-368).
THEOREM AgeIsBounded == QSpec => []BoundedAge
<1>1. ASSUME IInv, NEW r \in Requests, Answered(r), req[r].key \notin Deaf
      PROVE  req[r].answered - req[r].result.readAt <= req[r].result.ttl + Timeout
  <2>1. AnsweredOK(req[r]) /\ req[r].result # NoResult
    BY <1>1 DEF IInv, RequestOK, Answered
  <2> QED
    BY <1>1, <2>1, ConstantFacts DEF AnsweredOK
<1>2. IInv => BoundedAge
  BY <1>1 DEF BoundedAge
<1> QED
  BY <1>2, Invariant, PTL

\* clear_cache forgets what was read more than one deadline before it, where the adapter
\* heeds the deadline (handlers_sprint4.go:306, 368).
THEOREM ClearsForget == QSpec => []ClearForgetsOld
<1>1. IInv => ClearForgetsOld
  BY DEF IInv, RequestOK, AnsweredOK, ClearForgetsOld, Answered
<1> QED
  BY <1>1, Invariant, PTL
=============================================================================
