----------------------------- MODULE QueryCache -----------------------------
(***************************************************************************)
(* The execute_query tool with its cache (internal/mcp): a request looks   *)
(* its query up, runs it against the database on a miss and stores the     *)
(* result, as three separate steps with the cache lock released between    *)
(* them.  Requests of an embedding program or of the HTTP API run          *)
(* concurrently, with each other and with clear_cache.                     *)
(*                                                                         *)
(* A result is identified by what the properties need of it: when and      *)
(* after how many clear_cache calls the database was read, and the ttl of  *)
(* the request that read it.                                               *)
(***************************************************************************)
EXTENDS ResultCache

CONSTANTS
    Requests,   \* concurrent callers of execute_query
    Writes,     \* the cache keys whose query modifies data; {} when ReadOnly
    NoResult,
    Timeout,    \* the deadline of an execution, in ticks
    Deaf,       \* the cache keys of databases whose adapter does not heed the deadline
    MaxClears   \* bound on clear_cache calls

ASSUME QueryAssumption ==
    /\ Writes \subseteq Keys
    /\ Deaf \subseteq Keys
    /\ Timeout \in Nat
    /\ MaxClears \in Nat
    /\ 0 \notin TTLs
    /\ Data = [readAt : 0 .. MaxTime, clears : 0 .. MaxClears, ttl : TTLs]
    /\ NoResult \notin Data

VARIABLES
    req,     \* what each caller's current request is about and how far it is
    clears   \* history: the times of the clear_cache calls so far

vars == <<cacheVars, req, clears>>

Request ==
    [phase     : {"executing", "executed", "answered"},
     key       : Keys,
     useCache  : BOOLEAN,
     ttl       : TTLs,
     submitted : 0 .. MaxTime,
     since     : 0 .. MaxClears,       \* history: clears before it was submitted
     ran       : BOOLEAN,              \* history: it reached the database
     answered  : 0 .. MaxTime,         \* history: when it was answered
     result    : Data \cup {NoResult}]

Idle == [phase |-> "idle"]

QInit ==
    /\ Init
    /\ req = [r \in Requests |-> Idle]
    /\ clears = <<>>

-----------------------------------------------------------------------------

\* The request as it arrives: the defaults filled in, nothing done yet.
Arriving(k, useCache, ttl) ==
    [phase |-> "executing", key |-> k, useCache |-> useCache, ttl |-> ttl,
     submitted |-> now, since |-> Len(clears), ran |-> FALSE, answered |-> now,
     result |-> NoResult]

\* A request and its cache lookup: answered at once on a hit ...
SubmitHit(r, k, ttl) ==
    /\ req[r].phase \in {"idle", "answered"}
    /\ Live(k)
    /\ Get(k)
    /\ req' = [req EXCEPT ![r] = [Arriving(k, TRUE, ttl) EXCEPT
                                    !.phase = "answered",
                                    !.result = cache.entries[k].data]]
    /\ UNCHANGED clears

\* ... and sent to the database on a miss, or with use_cache false.
SubmitMiss(r, k, useCache, ttl) ==
    /\ req[r].phase \in {"idle", "answered"}
    /\ IF useCache THEN ~Live(k) /\ Get(k) ELSE UNCHANGED cacheVars
    /\ req' = [req EXCEPT ![r] = Arriving(k, useCache, ttl)]
    /\ UNCHANGED clears

\* The database reads, or writes, and returns its result.
Execute(r) ==
    /\ req[r].phase = "executing"
    /\ req' = [req EXCEPT ![r].phase = "executed",
                          ![r].ran = TRUE,
                          ![r].result = [readAt |-> now, clears |-> Len(clears),
                                         ttl |-> req[r].ttl]]
    /\ UNCHANGED <<cacheVars, clears>>

\* Mutant: a failed execution is cached like a successful one.
FailCached(r) ==
    /\ req[r].phase \in {"executing", "executed"}
    /\ Set(req[r].key, NoResult, req[r].ttl)
    /\ req' = [req EXCEPT ![r].phase = "answered", ![r].answered = now,
                          ![r].result = NoResult]
    /\ UNCHANGED clears

\* Planning or execution fails, or the deadline passes: the caller gets the error.
Fail(r) ==
    /\ req[r].phase \in {"executing", "executed"}
    /\ req' = [req EXCEPT ![r].phase = "answered", ![r].answered = now,
                          ![r].result = NoResult]
    /\ UNCHANGED <<cacheVars, clears>>

\* The result is cached, unless use_cache is false, and returned.
Store(r) ==
    /\ req[r].phase = "executed"
    /\ IF req[r].useCache THEN Set(req[r].key, req[r].result, req[r].ttl)
                          ELSE UNCHANGED cacheVars
    /\ req' = [req EXCEPT ![r].phase = "answered", ![r].answered = now]
    /\ UNCHANGED clears

\* Mutant: the entries stay.
clearCacheNothing ==
    /\ Len(clears) < MaxClears
    /\ clears' = Append(clears, now)
    /\ UNCHANGED <<cacheVars, req>>

\* clear_cache; with a database it clears every database's entries, too.
clearCache ==
    /\ Len(clears) < MaxClears
    /\ Clear
    /\ clears' = Append(clears, now)
    /\ UNCHANGED req

\* Time passes.  An adapter that heeds the context of its query returns by the deadline.
\* Cassandra's does not look at it (cassandra.go:127), Redis's not during a command, and
\* nothing looks at it after them (server.go:415): their results come late, as successes.
QTick ==
    /\ \A r \in Requests : req[r].phase \in {"executing", "executed"}
                             => \/ req[r].key \in Deaf
                                \/ now - req[r].submitted < Timeout
    /\ Tick
    /\ UNCHANGED <<req, clears>>

Cleanup == cleanup /\ UNCHANGED <<req, clears>>

QNext ==
    \/ \E r \in Requests, k \in Keys, ttl \in TTLs :
         \/ SubmitHit(r, k, ttl)
         \/ \E useCache \in BOOLEAN : SubmitMiss(r, k, useCache, ttl)
    \/ \E r \in Requests : Execute(r) \/ Fail(r) \/ Store(r)
    \/ clearCache
    \/ QTick
    \/ Cleanup

QSpec == QInit /\ [][QNext]_vars

-----------------------------------------------------------------------------
(* Properties *)

\* What is cached was returned by an execution that succeeded, and, if its adapter heeds
\* the deadline, was cached before it: a hit does not renew it (cache.go:103), and a
\* failure leaves nothing.
CachedAtOnce ==
    \A k \in Stored :
      LET e == cache.entries[k]
      IN  /\ e.data # NoResult /\ e.ttl = e.data.ttl
          /\ k \notin Deaf => e.created <= e.data.readAt + Timeout

Answered(r) == req[r].phase = "answered" /\ req[r].result # NoResult

\* Where the adapter heeds the deadline, no answer is older than the ttl under which it
\* was cached plus the deadline of one execution, however often the entry was hit,
\* refreshed or moved.  Without it nothing bounds the execution, nor the answer's age.
BoundedAge ==
    \A r \in Requests :
      Answered(r) /\ req[r].key \notin Deaf =>
        req[r].answered - req[r].result.readAt <= req[r].result.ttl + Timeout

\* clear_cache cannot recall a query that is executing, whose result is stored
\* after it.  But it forgets everything else: a request submitted after a clear
\* is never answered with what was read more than one deadline before it, where the
\* adapter heeds the deadline.
ClearForgetsOld ==
    \A r \in Requests : Answered(r) /\ req[r].key \notin Deaf =>
      \A n \in req[r].result.clears + 1 .. req[r].since :
        clears[n] <= req[r].result.readAt + Timeout

\* "Execute a query and return results." (tools.go:28): a write that is
\* answered as successful was executed.
WritesAreExecuted ==
    \A r \in Requests : Answered(r) /\ req[r].key \in Writes => req[r].ran
=============================================================================
