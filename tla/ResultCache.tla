----------------------------- MODULE ResultCache -----------------------------
(***************************************************************************)
(* internal/cache: the LRU cache of query results, with a time to live per *)
(* entry.  The cache keeps two structures in step, a map of entries and a  *)
(* list of their keys, most recently used first; Get and Set work on both. *)
(*                                                                         *)
(* Every action is one critical section of Cache.mu.  The hit and miss     *)
(* counters, which the cache never reads, are left out.  Keys stand for    *)
(* the SHA-256 of a database and its query (GenerateKey).                  *)
(***************************************************************************)
EXTENDS Integers, SequencesExt

CONSTANTS
    Keys,       \* cache keys
    Data,       \* query results
    TTLs,       \* the ttl arguments of Set; 0 asks for the default
    MaxSize,    \* capacity, in entries
    DefaultTTL,
    MaxTime     \* bound on the clock

ASSUME CacheAssumption ==
    /\ TTLs \subseteq Nat
    /\ MaxSize \in Nat \ {0}
    /\ DefaultTTL \in Nat \ {0}
    /\ MaxTime \in Nat

VARIABLES
    cache,   \* the fields entries (a map) and order (a list of keys) of Cache
    now,     \* the clock
    used     \* history: the pairs <<j, k>> of keys such that j was used after k last was

cacheVars == <<cache, now, used>>

Entry == [data : Data, created : 0 .. MaxTime, ttl : (TTLs \ {0}) \cup {DefaultTTL}]

Stored == DOMAIN cache.entries

Init ==
    /\ cache = [entries |-> <<>>, order |-> <<>>]
    /\ now = 0
    /\ used = {}

-----------------------------------------------------------------------------
(* Helpers that hold the lock, on a cache c *)

IsExpired(e) == e.ttl # 0 /\ now - e.created > e.ttl

\* Mutant: a refreshed or expired key stays in the list.
removeEntryOnly(c, k) == [c EXCEPT !.entries = Restrict(@, DOMAIN @ \ {k})]

remove(c, k) ==
    [entries |-> Restrict(c.entries, DOMAIN c.entries \ {k}),
     order   |-> RemoveFirst(c.order, k)]

\* Mutant: a hit does not count as a use.
moveNowhere(c, k) == c

\* Mutant: a hit starts the time to live again.
moveAndRenew(c, k) ==
    [entries |-> [c.entries EXCEPT ![k].created = now],
     order   |-> Cons(k, RemoveFirst(c.order, k))]

moveToFront(c, k) ==
    IF Contains(c.order, k) THEN [c EXCEPT !.order = Cons(k, RemoveFirst(@, k))] ELSE c

\* Mutant: the comparison lets the cache grow by one entry.
evictLate(c) ==
    IF Cardinality(DOMAIN c.entries) > MaxSize THEN remove(c, Last(c.order)) ELSE c

\* Mutant: the comparison evicts an entry too early.
evictEarly(c) ==
    IF Cardinality(DOMAIN c.entries) >= MaxSize - 1 /\ c.order # <<>>
    THEN remove(c, Last(c.order)) ELSE c

\* What is left of c when all but the first n keys of the list are removed.
Kept(c, n) ==
    [entries |-> Restrict(c.entries, DOMAIN c.entries \ {c.order[i] : i \in n + 1 .. Len(c.order)}),
     order   |-> SubSeq(c.order, 1, n)]

\* The loop of Set: the oldest key is removed while the cache is at capacity.
evict(c) ==
    LET Ends(n) == n = 0 \/ Cardinality(DOMAIN Kept(c, n).entries) < MaxSize
    IN  Kept(c, CHOOSE n \in 0 .. Len(c.order) :
                  Ends(n) /\ \A m \in n + 1 .. Len(c.order) : ~Ends(m))

Used(k) == used' = {p \in used : p[1] # k /\ p[2] # k} \cup ({k} \X (Keys \ {k}))

-----------------------------------------------------------------------------
(* Operations *)

Live(k) == k \in Stored /\ ~IsExpired(cache.entries[k])

Get(k) ==
    /\ \/ /\ k \notin Stored
          /\ UNCHANGED <<cache, used>>
       \/ /\ k \in Stored
          /\ IsExpired(cache.entries[k])
          /\ cache' = remove(cache, k)
          /\ UNCHANGED used
       \/ /\ Live(k)
          /\ cache' = moveToFront(cache, k)
          /\ Used(k)
    /\ UNCHANGED now

Set(k, data, ttl) ==
    LET entry == [data |-> data, created |-> now,
                  ttl |-> IF ttl = 0 THEN DefaultTTL ELSE ttl]
        old   == IF k \in Stored THEN remove(cache, k) ELSE cache
        room  == evict(old)
    IN /\ cache' = [entries |-> [j \in DOMAIN room.entries \cup {k} |->
                                   IF j = k THEN entry ELSE room.entries[j]],
                    order   |-> Cons(k, room.order)]
       /\ Used(k)
       /\ UNCHANGED now

Invalidate(k) == cache' = remove(cache, k) /\ UNCHANGED <<now, used>>

\* Clear, and InvalidateDatabase, which also empties the whole cache.
Clear ==
    /\ cache' = [entries |-> <<>>, order |-> <<>>]
    /\ UNCHANGED <<now, used>>

-----------------------------------------------------------------------------
(* Time, and the cleanup goroutine *)

Tick == now < MaxTime /\ now' = now + 1 /\ UNCHANGED <<cache, used>>

\* The sweep of one tick, from Lock to Unlock.
cleanup ==
    LET expired == {k \in Stored : IsExpired(cache.entries[k])}
    IN /\ cache' = FoldSet(LAMBDA k, c : remove(c, k), cache, expired)
       /\ UNCHANGED <<now, used>>

CacheNext ==
    \/ \E k \in Keys : Get(k) \/ Invalidate(k)
    \/ \E k \in Keys, data \in Data, ttl \in TTLs : Set(k, data, ttl)
    \/ Clear
    \/ Tick
    \/ cleanup

CacheSpec == Init /\ [][CacheNext]_cacheVars

-----------------------------------------------------------------------------
(* Properties *)

\* The map and the list never diverge: each stored key is listed once, and
\* nothing else is.  A key listed without an entry would make Set evict nothing
\* and the list grow without bound; an entry not listed could never be evicted.
OrderMatchesEntries ==
    /\ ToSet(cache.order) = Stored
    /\ IsInjective(cache.order)

\* The list is exactly the order of last use of the stored keys, whichever
\* mixture of hits, refreshes, expiries, sweeps and evictions came before.
OrderIsRecency ==
    \A i, j \in DOMAIN cache.order : i < j <=> <<cache.order[i], cache.order[j]>> \in used

\* The capacity is never exceeded.
SizeBound == Cardinality(Stored) <= MaxSize

\* A live entry leaves the cache only when a caller invalidates or replaces it,
\* or when the cache was full and no stored key was used longer ago.
LiveEntriesStay ==
    [][\A k \in Keys :
         Live(k) /\ k \notin Stored' =>
           \/ Clear \/ Invalidate(k)
           \/ /\ Cardinality(Stored) = MaxSize
              /\ \A j \in Stored \ {k} : <<j, k>> \in used]_cacheVars
=============================================================================
