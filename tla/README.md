# QueryBridge in TLA+

QueryBridge is one Go program through which an AI assistant, a web client or an
embedding program queries a dozen kinds of databases. It speaks MCP over stdio
(`cmd/server`), HTTP (`cmd/api`), and can be embedded (`pkg/querybridge`). This directory
holds TLA+ models of the parts of it that keep state, the configurations that
model-check them with TLC, and theorems about them checked by TLAPS.

    tlc -config Scheduler.cfg MCScheduler           # a run
    tlapm SchedulerProofs.tla                       # the proofs of a module

`PROJECT.json` lists the runs, the mutants (a plausible bug for every property, which TLC
must find), the source lines of every definition, the findings and the hazards.

## 1. The system

### Components

| component | state | operations | hard behaviour | what makes it correct |
|---|---|---|---|---|
| scheduler (`internal/scheduler`) | map of jobs, map of timers, context | AddJob, RemoveJob, PauseJob, ResumeJob, Stop, timer callback `runJob`, ListJobs | the callback drops the lock while the query runs and re-arms afterwards; IDs collide; jobs are found by a name that need not be unique | one live timer per job; no enabled job without a next execution; removed and stopped jobs are quiet |
| result cache (`internal/cache`) | map of entries, LRU list, counters | Get, Set, Invalidate, InvalidateDatabase, Clear, sweeper goroutine | two structures kept in step under expiry, refresh, eviction and sweeps | they agree; capacity; LRU order; only the least recently used entry is evicted |
| execute_query with cache (`internal/mcp/handlers_sprint4.go`) | the cache, the request in progress | lookup, execution, store, clear_cache | three critical sections with the database in between, concurrent callers | bounded age; clearing forgets; writes are executed |
| rate limiter (`internal/ratelimit`) | bucket per client, stop channel | Allow, Remaining, Reset, Stop, sweeper goroutine, HTTP middleware | lazy refill, deletion of idle buckets, ticker against stop | never more than burst plus rate; deletion is not observable |
| query history (`internal/history`) | list, next ID, JSON file | Record, Clear, List, Get, Stats, NewStore | crash inside save, failed write, restart | IDs in order; restart resumes; nothing is lost |
| query templates (`internal/template`) | map, JSON file | Save, Get, List, Delete, IncrementUsage, ApplyParameters | crash inside save; a template looked up twice by name around an execution; duplicate names | usage counted on the template executed; substitution touches only placeholders |
| schema registry and relationship graph (`internal/schema`) | adapters, schemas, field rules, graph edges | registration, refresh, lookup, path search | registration again; lookups under separate locks | the graph mirrors the registered schemas; a path found is a shortest path |
| planner, validator, optimizer (`internal/query`) | none of their own | Plan, Execute, read-only checks | many lock acquisitions per plan | a plan refers to one consistent schema |
| cross-database join (`internal/query/crossjoin.go`) | none | the hash join of two results | name clashes, nulls, join kinds | equal to the reference join |
| streaming and export (`internal/stream`) | output file | CSV, JSONL, Parquet, Excel writers, batches | a stream that fails half way, write errors seen late | a successful export is complete |
| MCP server (`internal/mcp/server.go`) | stdin and stdout | request loop, tool dispatch | cancellation only between blocking reads | one response per request, in order |
| HTTP API (`internal/api`, `cmd/api`) | history, HTTP server | handlers, history recording, Shutdown | history recorded after the query, result ignored; main ends before Shutdown has drained | every executed query is recorded; requests in progress are answered |
| embedding API (`pkg/querybridge`) | planner and registry | a facade | closing while in use | as the parts it wraps |
| authentication (`internal/auth`) | users by ID, user IDs by key | CreateUser, ValidateAPIKey, tokens, roles | two maps updated by several operations | the maps agree |
| metadata (`internal/metadata`) | an SQLite table | set, get annotations | uniqueness over a nullable column | one annotation per object |
| audit log, metrics | a file; counters | append; count | - | - |
| adapters (`internal/adapter`, 13 files) | connection pools | DiscoverSchema, Execute, Stream, Explain, Ping | answers that break off, discoveries of many statements, pages while rows change, pools at their limit | an answer is whole or an error; pages lose nothing; a schema is true; connections come back |
| configuration, start-up (`internal/config`, `cmd`) | none | flags, YAML, wiring | - | - |

### How they interact

`cmd/server` and `cmd/api` build a registry, connect adapters, and hand planner and validator to
an MCP `Server`. A tool call goes through `handleCallTool` (`internal/mcp/server.go:211`) to a
handler, and from there to planner, registry and adapter. `execute_query` is wrapped by the cache.
The scheduler gets an executor function that runs planner and adapter, and calls it from
goroutines started by its timers. The HTTP API calls the same tools and records each query in the history. The rate limiter,
authentication, metrics and audit log are libraries that no `main` of the repository wires in.

Shared state is always guarded by one mutex per component; there is no transaction over
two components. So the interesting interleavings are (a) between the critical sections of one
operation, (b) between components, and (c) between memory and the files.

## 2. Modules

| module | models | notes |
|---|---|---|
| `Scheduler` | `internal/scheduler/scheduler.go` | one action per critical section of `Scheduler.mu` |
| `MCScheduler` | - | instances |
| `SchedulerProofs` | - | theorems |
| `ResultCache` | `internal/cache/cache.go` | the helpers `remove`, `moveToFront`, `evict` are functions of a cache |
| `QueryCache` | `executeQueryWithCache`, `clearCache`, `executeQuery` | extends `ResultCache`: the composition of cache, callers and database |
| `MCResultCache`, `MCQueryCache` | - | instances |
| `QueryCacheProofs` | - | theorems |
| `IdealLimiter` | - | the abstract specification: a level per client, refilled at every tick |
| `RateLimiter` | `internal/ratelimit/ratelimit.go` | lazy refill, sweeper, stop channel |
| `MCRateLimiter`, `RateLimiterProofs` | - | instances; theorems |
| `History` | `internal/history/store.go` | memory, file, crash, failed write |
| `ApiServer` | `internal/api`, `cmd/api/main.go` | extends `History`: concurrent handlers, signal, Shutdown, exit of main, restart |
| `ApiServerProofs` | - | theorems of `History` and of the server that uses it |
| `TemplateStoreProofs` | - | theorems |
| `McpServerProofs` | - | theorems of `QueryTools` and of `StdioServer` |
| `DataTheorems` | - | lemmas on finite sets, folds, sums and lists without duplicates, which the proofs of several components cite |
| `StdioServer` | `ServeStdio`, `cmd/server/main.go` | the line loop, its context, and the client's ends of the pipes |
| `TemplateStore` | `internal/template`, `executeTemplate` | memory, file, and executions around which a template is looked up twice |
| `SchemaRegistry` | `internal/schema`, `Plan`, the discovery of `postgres.go`, `annotateSchema`, `executeQuery` | the database and its registered schema, the relationship graph, a refresh and a query in progress |
| `SchemaRegistryProofs` | - | theorems |
| `Queries` | `adapter.go`: Query, Result, RowStream | what the adapters share, and the database: a statement, its possible answers, a reading of one |
| `SqlAdapters` | `postgres.go`, `mysql.go`, `sqlite.go`, `sqlserver.go`, `clickhouse.go` | operators: the statement of a query, what Execute and Stream make of a reading, the outcomes of each metadata query |
| `StoreAdapters` | the seven other adapters | the same operators |
| `Adapters` | the interface `adapter.Adapter` | each operation, of a kind of adapter |
| `CrossJoin` | `internal/query/crossjoin.go` | the hash join, and a reference join (`JoinedPairs`, `IsJoin`) |
| `Exporter` | `internal/stream` | the four writers with failing streams and full disks, and the batches |
| `QueryTools` | the tools of `server.go`, `handlers_sprint4.go`, `handlers_v3.go` that reach a database | composes the four above: callers, pools, faults, pages, rows that change |
| `MCApiServer`, `MCTemplateStore`, `MCSchemaRegistry`, `MCQueryTools` | - | instances |

An operator named `SomethingElse` under a comment "Mutant:" is a wrong version of the
definition that follows it. No specification uses it; it documents which bug the properties
catch.

### Scheduler

`jobs` and `timers` are the two maps, keyed by ID; a job object (`Jobs`, the `*Job` pointers) has
its own `jobID` and `enabled`, because an execution keeps the object it started with even when
another is registered under its ID meanwhile. `due[t]` is the ID an armed timer will run.
`FireTimer` is the Go runtime starting the callback, `pending` counts callbacks that wait for
the lock, `DropRun`/`StartRun` are the first critical section of `runJob`, `running` the
executions between the sections, `FinishRun` the second. `findJob` returns a set: Go's map
iteration may return any job of that name. Callers use a job object once: the only caller in the
repository, `scheduleQuery`, allocates one for each call. PauseJob, ResumeJob and Stop have
no caller in the repository but are exported and modelled.

*Bounds.* One callback of an ID waits for the lock at a time (`MaxPending`: 1), and two executions of
one object overlap (`MaxRunning`: 2): one in progress, and a second started by pause and resume.
Two jobs of one name on two IDs, and three timers, suffice for replacement during execution, for the
ambiguous name, and for a timer that is armed while another is. What the bounds cut off is in the theorems,
which hold for any number of jobs, IDs and timers, and any value of the two bounds.

*Fairness.* Weak fairness on timers, on a goroutine that waits for the mutex, and on the end of an execution:
it runs under `context.WithTimeout(s.ctx, 5*time.Minute)` (`scheduler.go:220`). None on callers. The liveness
properties are of the form "if callers are eventually quiet, then", since a caller that pauses and resumes for ever
can postpone any execution.

### ResultCache and QueryCache

`cache` is the pair of the map `entries` and the list `order`. `used` is a history variable, the pairs of keys of which the first was
used after the second, against which the list is checked. `evict` is what the loop of `Set` leaves, by the number of keys it keeps. In `QueryCache` a request goes through
`SubmitHit`, or `SubmitMiss`, `Execute` and `Store`, or `Fail`. A result is represented by when it was
read, and after how many calls of clear_cache. `executeQuery` sets a deadline
(30 seconds, or the request's; `server.go:405`), and an adapter that heeds it answers by then, with an error if need be: `QTick` lets no such request
outlive `Timeout`. But Cassandra's `Execute` does not use its context (`cassandra.go:127`), Redis's client does not look at it during a command, and `executeQuery` does not look at
it after `Execute`: a result that comes late is a success, and is cached. `Deaf` is the set of queries of such databases, for which `QTick` has no deadline. What the properties say of time they
say of the others; what `CachedAtOnce` says of failures and of the ttl holds of all.

*Bounds.* `ResultCache` has four keys for three slots, both ttl kinds, and time enough for an entry to expire twice over. `QueryCache` has one key of a database that heeds the deadline, and two callers: entries of different keys interact
only through eviction, which `ResultCache` covers. Two ttl values matter, since a
hit may be answered with an entry another caller stored with a longer ttl. A second key is that of a deaf database. `OneLateAnswer`, a constraint of the
configuration, keeps of the behaviours with that key those in which it is asked once, at first, answers after its deadline, and nothing is cleared meanwhile: then its result competes with the others for the one place of the
cache. The behaviours without it are all there, and what the constraint cuts off is in the theorems.

### RateLimiter

Tokens are counted in units of `1/Token` token, `Rate` units per tick: the code's float64 arithmetic without its rounding. The ticker's channel has
capacity one (`ticked`), so a tick may be received late, and even after `stopCh` was closed.
`Remaining` credits the idle time by its own lines (`ratelimit.go:113`), as in the code, not by those of `Allow`.
`granted` and `since` are history variables, and so is `answer`: what the last call of a client was, and what it returned. `IdealLimiter` knows nothing of
buckets; `Level(k)`, what a client would have on its next request, is the refinement mapping. Its level rises only by a tick, which serves all clients alike, and by a reset, which is
visible in `answer`. So a sweep, which leaves `answer` alone, has to be a stutter: the sweep of a bucket that is not full is no step of the ideal limiter (the mutant `SweepEarly`), and neither
is a `Remaining` that says another number than `Allow` would grant (`RemainingUncapped`).

*Bounds.* Two keys, a burst of two tokens of two units, six ticks, an interval of three: a bucket is
emptied, partly refilled, swept, and created again within the bound.

### History

An entry is its ID. `save` is two steps, because `os.WriteFile` truncates and then writes; it can fail at both, and a
`Crash` is possible at any step. `saved` is a history variable: what the last successful
save wrote. `Record` and `Clear` hold the lock until the file is written, so other
operations do not interleave with it.

`History` has no run of its own: `ApiServer` adds the callers, and its run checks the properties of both.

### ApiServer

A request goes through *executing* (CallTool, no lock held), *executed*, *saving* (inside `Record` or `Clear`, with `Store.mu`
held: `holder` owns the `pc` of `History`), *saved*, *answered*. `shutdown` is the goroutine that waits for the signal. It calls
`http.Server.Shutdown`, which first closes the listener; from then on `ListenAndServe` has returned in `main`, and
`Exit` is enabled whatever the handlers are doing. `Restart` is a new process on the same file.
`epoch` counts clears and restarts, so that an answered query can be told from one that was legitimately forgotten.

*Bounds.* Two requests, a cap of two and four IDs: the list overflows; two epochs: clear and restart in either
order, or one of them twice. A third request adds only another waiter for the same lock.

*Fairness.* Weak for the steps of a goroutine (an execution has a deadline, `server.go:405`), strong for taking the
lock of the history, since Go's mutex hands itself to a waiter that has starved for a
millisecond. None for clients, signals and restarts.

### StdioServer

One line at a time: `Check` (the `select` on the context), `Read*` (a blocking read), `Handle`. `Signal` and `Cancel` are
the goroutine of `cmd/server/main.go`. The client's ends of the pipes (`Send`, `CloseStdin`, `CloseStdout`) are
external: they are there because the loop ends by EOF or by a failed write. A line is *timed*, *untimed* or *garbage*: a timed request ends, because it reaches no database, or because
it runs under a deadline (execute_query, `server.go:405`, and resources/read, which calls it); an untimed one is a tool that calls a database without one (stream_query, export_query, multi_source_query,
cross_db_join, explain_query, execute_template, describe_databases, annotate_schema). It may last for ever (annotate_schema on SQLite does, see below), or panic, which ends the process (`Panic`).
At a database that ignores the deadline, execute_query too is to be taken for an untimed request.

*Fairness.* Weak, for the loop, the signal goroutine, and the end of timed requests; none for untimed ones, and none for the client. So `EveryLineAnswered` and `ClientGone` have two parts: what holds
whatever untimed calls do, up to the first of them, and what holds of all lines if no untimed call lasts for ever (`UntimedCallsEnd`), a hypothesis of the property and not of the specification.

### TemplateStore

A template is found by ID, else by name; `find` is a set, since a map iteration may return any template of the name.
`IDs` are the IDs that `generateID` can produce, each from one name (`NameOf`); saving a name again picks any of
them, so the repetition of an ID (nanoseconds modulo 10000) is a case of `Save`. `executeTemplate` is `Lookup`, `Execute` or `Fail`, and
`IncrementUsage`, which looks the key up again. The file is modelled as in `History`. Descriptions, times, and the
text substitution of parameters (an outcome: it works or fails) are left out.

*Bounds.* Three IDs, two of them of one name, two callers, two successful executions, one restart: enough to delete and
save again between the two lookups of an execution, or to start from any state of the file, with a template of another name next to it.

### SchemaRegistry

One database. `live` is its schema, which other programs change at any step; `schema` and `edges` are what
the registry and its graph hold. The stdio loop refreshes them in annotate_schema: `DiscoverTables`, then for each table
`DiscoverColumns` and `DiscoverForeignKeys`, each one SQL statement without a transaction around them, then `Register`.
Meanwhile a scheduled query, on a goroutine of its own, goes through `Plan`, `SelectColumns` and `Validate`, each with its own
acquisition of the registry's lock, and `Execute`. An edge of the graph is its target table; the order of a table's edges is kept, as
the path search depends on it. `past` is a history variable, from which `Seen`, the schemas of the time of planning, is taken. Types, indexes,
primary keys, joins, aggregations and collections (MongoDB) are left out. `FindPath` has no caller in the program besides
its tests; it is an operator on the graph, checked in every reachable state.

*Bounds.* Three versions of a schema in which tables, columns and foreign keys come and go (one of them from a table to itself), two changes, two
refreshes: a refresh is torn by a change between any two statements, and a query is planned across two registrations. One query, since planning writes
nothing that another reads.

### Queries, adapters and QueryTools

The adapters keep no state besides their pool of connections, so they are operators, and `QueryTools` has the state: the rows of the databases (`store`),
the connections in use (`conns`), the registered schemas, and one call for each caller. A call goes through *waiting* (for a connection, in
`database/sql` or in the driver), *open* (the database has answered, its rows are being read) and *done*, or *panicked*; a discovery through *discovering*,
one statement after another, and for SQLite *indexes*, where the rows of one statement are open while another is needed.
`Send`, `Refuse`, `Expire` are the ends of the wait; `Read`, `ReadBatch`, `Break`, `ExportRows` those of the reading. A call with several queries
(multi_source_query, cross_db_join) repeats this for each (`After`).

A row is its ID, and has three columns: the ID, an instant in half seconds (so that cutting a time off to the second is a case), and a text that may be null. What a result shows of it (`Row`) depends on the kind:
the columns of the query, with values as the adapter converts them; for Elasticsearch the whole document with `_id` and `_index`; for Neo4j the node as one value, a map, unless raw text names its properties; for Redis
key, type, value and ttl. The columns of a result (`ResultColumns`) are those of its rows where the adapter takes them from there, so that a result without rows has none, and those of the query otherwise.
The key of Redis that has the name of the queried table is `MainKey`: the name is the pattern of its scan (`redis.go:154`), so no other key is returned. The names with dots in them, and what they are split into, are `Dotted`.
A statement is a disjunction of conjunctions, an order, a limit and an offset. `Answers` is the set of answers that a database may give: without
a total order there are several. A reading is what an adapter saw of an answer: all of it, a part and then an error, a part and then a document that cannot be decoded (*garbled*, MongoDB), a refusal, or nothing because no answer came.
`Execute` and `Stream` say of each adapter whether that is a result or an error. A discovery is a sequence of metadata queries (`Parts`), and each of them has a set
of outcomes under a fault: an error, the whole, or what the adapter takes for the whole.

`AskNext` is a client that follows `HasMore` and `NextCursor`, or advances the offset by the limit, and repeats a page that failed. `Insert` and `Delete` are other users of
the database. `kept` is a history variable, the rows that were there all the time.

*Bounds.* A workload is chosen at the start: what one to three callers ask, the pool, how many faults and changes may happen. There are nine families (`MCQueryTools`): each tool
on each kind with a fault; each kind's discovery with a fault, next to another caller; each format on a full disk or a failing stream; pages by cursor with two changes; pages by offset, of every kind
that knows offsets; callers that compete for a pool of one or two; joins by type, key and alias; joins with nodes of Neo4j, by a path that exists in a node, by one that does not, and by the node itself; several sources.
Five rows in pages of one to three: a last page that is full, short or empty, and a change before, between and behind the rows of a page. One fault, since a call ends at
its first error; where it does not (a discovery whose outcome is optional), the outcomes of later statements are independent of it. `MaxPages`
(5) cuts off a client that would go on for ever. Two connections at most: what matters is whether one is free.

*Fairness.* A goroutine that can go on does: strong fairness of its steps, written out in `Fairness` because `Callers` depends on the workload. It is weak fairness except for the wait for a connection, which
`database/sql` hands to its waiters in the order of their requests. That databases answer at all is an assumption: only execute_query has a deadline
(`server.go:405`), and Cassandra's adapter does not look at it. None on clients and other users.

## 3. Runs

| run | shows |
|---|---|
| Scheduler | `TimersTracked`, `NeverLost`, `ForkOnlyByCaller`, and the liveness properties `EnabledJobsKeepRunning`, `UnscheduledJobsDieOut` |
| RateLimiter | `RateBound`, `ImplementsIdeal` |
| ResultCache | `OrderMatchesEntries`, `OrderIsRecency`, `SizeBound`, `LiveEntriesStay` |
| QueryCache | `BoundedAge`, `ClearForgetsOld`, `CachedAtOnce` |
| QueryCacheWrite | finding 1 |
| ApiServer | `AnsweredIsListed`, `IDsConsecutive`, `ResumesWhatWasSaved`, `RequestsEnd`, `SignalEnds` |
| ApiHistory | finding 2 |
| StdioServer | `EveryLineAnswered`, `OneLateLine`, `ClientGone` |
| StdioSignal | finding 3 |
| TemplateStore | `FileIsCurrent`, `UsageIsEarned`, `ResumesWhatWasSaved` |
| SchemaRegistry | `PlansAreJudged`, `AnswersFitOneVersion`, `RefreshIsExact`, `KeysAreLinked`, `PathsAreShortest` |
| QueryTools | `CursorPagesLoseNothing`, `OffsetPagesPartition`, `AnswersAreWhole`, `ExportedFileIsTheResult`, `DiscoveredSchemaIsReal`, `JoinIsTheReference`, and the liveness property `CallsEnd` |

### Findings

Each is a run in which TLC refutes what a comment or a tool description says.

1. Writes go through the result cache: outside read-only mode a repeated INSERT is answered from the cache and not executed.
2. An ordinary SIGTERM can lose the whole history: `main` exits as soon as the listener is closed (`cmd/api/main.go:92`), maybe while a handler is between the truncation and the write of the file, and an unreadable file is an empty history.
3. The stdio server does not react to a signal while it waits for a line (`server.go:104`), even if every call of a database ends; `OneLateLine` shows that it then handles at most one more.

### Behaviour to know of

What the models do because the code does, and no comment denies strongly enough to call it a finding:

- `runJob` re-arms the timer of a job that was removed while it executed (`scheduler.go:238`), and after `Stop`. `UnscheduledJobsDieOut` shows that for removed and disabled jobs this ends by itself; the entry in `timers` stays.
- The sweeper of the limiter deletes buckets by age only (`ratelimit.go:141`), although its comment says "full". With a `CleanupInterval` shorter than the time to fill a bucket a client gets a second burst; the default (5 minutes, 60 requests a minute, burst 10) is long enough. The instance and the theorems assume it (`SweepIsLate`).
- A query in flight during clear_cache stores its older result afterwards. `ClearForgetsOld` bounds how old it can be.
- A result that Cassandra's adapter returns after the deadline is answered and cached as a success (`cassandra.go:132`), so nothing bounds its age, or how long after a clear_cache it comes back.
- One call without a deadline that does not end holds up every later line of the stdio server, and its end.
- clear_cache with a database clears the entries of all databases (`handlers_sprint4.go:306`).
- The usage of an execution may be counted on another template of the same name, and is lost when there is none (`template.go:151`); so `UsageIsEarned` is stated for sets of templates that lookups cannot leave (`Closed`: the templates of one name, or of two names of which one is also an ID of the other's), and as an inequality.
- A schema registered again adds its edges to the graph once more, and edges of foreign keys that are gone stay (`relationships.go:70`). So `KeysAreLinked` goes in one direction only, and a path may lead over a key that no longer exists.
- A refresh during a change of the database may register a schema the database never had; `RefreshIsExact` holds for the others.
- A query without columns may be rejected although it fits the schema before and after a refresh, if the refresh falls between the selection of its columns and the validation. If its table has no safe column, it becomes `SELECT *`, and what protects the caller is `StripDeniedFields`.
- Requests in progress when `cmd/api` gets a signal are cut off.

And of the tools that reach a database, where the conditions of the properties of `QueryTools` say so:

- The discovery of an SQLite schema queries the columns of an index while the rows of the list of indexes are open (`sqlite.go:226`). With the default pool of one connection (`sqlite.go:30`)
  a table with an index makes the discovery wait for itself, at start-up and in annotate_schema, and every other call without a deadline with it. `CallsEnd` excepts this.
- The cursor's condition is appended with AND and restricts only the last of the conditions joined by OR (`postgres.go:582`); with a descending or another order, or a cursor column that is not selected, the pages of a cursor lose rows.
  A cursor that is a time is cut off to the second (`postgres.go:719`), so rows come twice, and with a limit smaller than the rows of that second the pages never end. `CursorPagesLoseNothing` is stated for the queries for which it holds (`FollowsCursor`).
- Only PostgreSQL and MongoDB set `HasMore` by a full page, Elasticsearch sets it whenever the page has fewer rows than match (`elasticsearch.go:262`), which never ends when an offset is used; the others never set it.
- SQL Server, ClickHouse, MongoDB, Elasticsearch and CouchDB do not look at an error after the last row of Execute, or at the status of the response, and return what they have as a success. Redis drops the
  errors of all the commands that read a key (`redis.go:183`), so rows without values are a success; only an error of the scan is returned. The stream of MongoDB ends as a success at a document that cannot be decoded, because `Err` does not return
  the error kept (`mongodb.go:340`). `AnswersAreWhole` and `ExportedFileIsTheResult` except these (`Lenient`).
- A structured query of Redis returns at most the one key that is called like the table (`redis.go:154`).
- The discoveries of Redis, Neo4j, Cassandra's columns, Elasticsearch's mappings and InfluxDB pass over errors: after a fault the registered schema is smaller than the database. Neo4j's panics when the count of a label is refused (`neo4j.go:96`), which nothing recovers.
  annotate_schema passes over the error of any discovery and keeps the old schema.
- A CSV export to a full disk may succeed, since the error of the last Flush is not looked at (`exporter.go:93`). A Parquet export without rows writes no file, and one that fails leaves the file of the export before it.
- A structured query of SQL Server names a table that does not exist, since schema and name are quoted as one identifier; only raw queries work.
- A list for `in` or `not_in` is one argument, which `database/sql` does not pass to the drivers of MySQL and SQLite. An operator that an adapter does not know is taken for equality, among them `not_in` and `ilike` by several; Elasticsearch's leaves the filter out.
- cross_db_join compares values as Go does: a time that one database returns as text does not join one that another returns as `time.Time`, nor an integer of SQL a float of JSON. If both sources have one alias,
  the columns of the right one overwrite the left's, and multi_source_query keeps only the last result. A key that is a map or a list in some row (a document, a node) panics (`crossjoin.go:88`). A side without rows
  may have no columns, and then the rows of the other side without a partner have no nulls for them. `CallsEnd` excepts the two panics, where they can be (`MayPanic`), and nothing else but the discovery of SQLite's indexes.

## 4. Proofs

TLC's runs are small instances; these theorems hold for every value of the constants that
satisfies the module's ASSUME. Those say of the constants what the code does: capacities and ages are
numbers, and what is enumerated or summed (tables, job objects, IDs, requests, rows) is finite. Each invariant was checked by TLC on the run's
instance before it was proved.

**DataTheorems**. The provers have no induction rule they could instantiate, but induction over a finite set is the well-foundedness of the
strict subset ordering: among the subsets for which a claim fails there would be a smallest (`SmallestSet`, `SetInduction`; `ChoiceInduction` when the order of a fold
matters, `PlaceInduction` for the places of a list). A fold of the community modules is a recursive function that its definition chooses;
`FoldExists` and `FoldUnique` say that there is exactly one, so that it can be computed with. From these follow what a sum over a
set is and how it changes with one summand (`SumIsFold`, `SumStep`, `SumChange`), and what the list of the cache is after a removal, an insertion in
front, and a cut (`RemoveFirstKeeps`, `ConsKeeps`, `PrefixKeeps`). Of a list that is put together from one list per place it says that it has the values of a
function, each as often as the function (`Enumerates`, `FlattenEnumerates`, `EnumerateCounts`). A recursive function over the
numbers exists and takes the values that its definition says (`IteratesExist`), and so does one that goes from case to case until it is done, if it comes to an end from everywhere (`FollowExists`).

**SchedulerProofs**: `TypeCorrect`, `TimersAreTracked`, `NoJobIsLost`, `OnlyCallersFork`. The inductive invariant adds
to the properties that a registered object is registered under its own ID (`OwnID`), that an
executing object has an ID (`RunningHasID`), and that the map of timers holds distinct
timers (`TimersDistinct`). Without these, re-arming could overwrite the entry of another job, and an
armed timer would be lost. The lemma `ScheduleJobEffect` states once what `scheduleJob` does; AddJob, ResumeJob and FinishRun cite it.
`OnlyCallersFork` counts the chains of an ID: its armed timer, its waiting callbacks, and the executions of all objects that have that ID (a sum). A firing timer, a callback that
starts and an execution that ends each hand one on: `OneExecution` says how the sum changes, and `OwnID` that it is the sum of the right ID.

**RateLimiterProofs**: `TypeCorrect` for every configuration; `RateIsBounded` and `LimiterImplementsIdeal` under `SweepIsLate`, i.e.
`(CleanupInterval + 1) * Rate >= Full`: the
code does not check this of a configuration, and the sweeper needs it, as said above. The argument is a potential: tokens
granted plus the level never exceed a burst plus what time has refilled. For the refinement, every step is mapped to the step of the ideal limiter with the same mark; the sweep is mapped to a stutter, since by
`SweepIsLate` a bucket that is stale when it is swept would be full.

**ApiServerProofs**, of the history: `TypeCorrect`, `IDsAreConsecutive`, `RestartResumes`. A restart computes `nextID` from the file, so the invariant says
of the file what it says of memory; the empty list, which does not tell its `nextID`, needs the
separate conjunct that it is 1. Of the server: `HistoryIsImplemented` (`ASpec => Spec`: every step of the server is one of `History` or leaves it alone, so the theorems above hold of
the server) and `AnsweredAreListed`, for any number of handlers and any cap. The entry with an ID is `nextID - ID` places from the front, as IDs are
consecutive; the invariant says that it is in the list if that is no more than the cap (`Listed`), that requests recorded since the last clear or restart have different IDs, and that a save belongs to the request that
holds the lock (`HolderOK`), without which its end would answer another one.

**TemplateStoreProofs**: `FilesAreCurrent` and `RestartLoadsLastSave`: a readable file is what was last saved (`FileIsSaved`). The assumption on `None` and `Torn` says
only that they are no maps of templates. `UsageIsEarnedInAll` and `UsageIsEarnedByFamily`: an execution is counted by a second lookup, possibly for another template, so no single template's count can be
an invariant. It is stated for the sets of templates that a key cannot leave (`Closed`: all of them; those of one name): their usage in memory, and in the file that a restart
would bring back, and in what a save in progress writes, plus the executions of theirs that wait to be counted, is at most the executions there were (`UInv`). Nothing is assumed of names: if a template is
named like the ID of another (names are free text, and one may have the form `name_NNNN` of `generateID`, `template.go:225`), an execution by that key may be counted for either, and a closed set has both. `UsageIsEarnedByName`
is what follows for a name that is no ID.

**QueryCacheProofs**, of the cache: `MapMatchesList`, `ListIsRecency`, `CapacityHolds`, `LiveEntriesAreKept`, for any keys, capacity and ttl values. The invariant (`Coherent`, `Recency`) is of a
cache as a value, so that the helpers `remove`, `moveToFront`, `evict` and `cleanup` have a lemma each, which say what they keep; the sweep is a fold of `remove`. The list's being
the order of last use makes its last key the one to evict. `CacheIsUsedAsMeant` (`QSpec => CacheSpec`): every step of a concurrent caller of execute_query or
clear_cache is an operation of the cache or leaves it alone, so the four hold of them.

Of the callers: `OnlyResultsAreCached`, `AgeIsBounded`, `ClearsForget`, for any number of callers, queries and calls of clear_cache, any
capacity and ttl values, and any choice of the databases that do not heed their deadline (`Deaf`), of which nothing is claimed about time. The properties speak of answers; the invariant follows a result from the reading of the database through the request
into the cache and out of it. What it says of a result of the other databases on all this way (`Recent`) is that every clear that it does not know of came within one deadline of the
reading: a request keeps its result no longer, and what is in the cache at a clear is dropped. The assumptions are those of the two modules on their constants.

**SchemaRegistryProofs**: `PlanningIsSound`, `AnswersAreOfOneVersion`, `RefreshesAreExact`, for any schemas, denylist, requests and refreshes. A plan
keeps the columns it selected, so the invariant says where they are from (`Selected`): from a schema between the beginning of the plan and the step in
progress. Registrations append to `past`, and `PlanIsKept` is the lemma that this disturbs no plan. For the refresh it says that while `changes` is what it was
at the first statement, the tables read are those of the database, and the keys those of the tables read (`RefreshOK`). Assumed of the database is that a foreign key
joins two tables that exist. `KeysCanBeFollowed`: however often a schema is registered, the graph has an edge in both directions for each foreign key of the current one; registering folds over the keys, and no edge is ever dropped.

`ShortestPathsAreFound`: on every graph that registrations can leave behind, with whatever tables, `FindPath` finds a chain of relationships when there is one, and none is shorter. A search is a queue and
a set of visited tables; each step visits one more table or shortens the queue (`SearchInduction`), so the recursion of `FindPath` has a value (`FindPathFollows`). While it runs, the queue holds
chains of length d, then d + 1, every table within d relationships is visited or queued, and so is every neighbour of a visited table (`Explored`); `ExploredOnwards` shows that a step keeps this, for the d
of the first node. What comes first in the queue is therefore nearest, and when the queue is empty everything that can be reached has been visited. Nothing is assumed but the type of the graph.

**McpServerProofs**, of the tools: `AnswersAreComplete`, `ExportsAreResults`, `DiscoveriesAreReal`, for any requests, rows, pool, number of faults and changes of rows. One invariant, `ToolsInv`, says what is
true of each call by itself (`GoodCall`), since callers share only the databases and the faults: of a call that reads, that what it has read and what is still to be read make up what the database gave
(`CallOK`), and that each result kept so far is whole; of an export, that there is no file before the end (`ExportOK`); of a discovery, that every part of every table found is either as in
the database or still to be asked (`FoundOK`), as far as the adapter is sure of it (`Sure`: all of it while no fault has happened, some parts even then). The adapters come in
by what their operators return: `ExecuteIsWhole`, `StreamIsWhole`, `ListingOK`, `PartOK` go through the twelve. `MovesOK` then says once that a step of one caller keeps the invariant of all. A request is assumed to be one the handlers make (`IsRequest`: one read for each
tool but the two that combine databases, two for a join, a limit and an offset that are no negative numbers, pages only of execute_query, conditions and orders that are lists).

`JoinsAreReference`, for any rows, columns, keys and types of join: `CrossJoinOK` says of `CrossJoin` alone that its result is the reference's, each joined row as often as there are pairs that make it.
A row of the left makes the rows of its own pairs (`IndexOK`, `MergedOK`), these together make those of all pairs (`RowByRow`), and the right join is the left join from the other side
(`RightJoinOK`). A key may be a path: the proof uses no more of `GetColumnValue` than that it is a function of the row. It is assumed of a configuration that the rows have its columns and the aliases differ; `JoinInv` and `JoinConfigOK` show that cross_db_join joins nothing else (all rows of a result have the columns of the result, whatever the adapter, and a join that panics has no answer), and the
property has the hypothesis on the aliases.

`CursorsLoseNothing`, for any rows, queries, insertions, deletions, faults and callers. What the database answers is an initial part of a list that has the rows asked for, each once and in order
(`ArrangementsAreArranged`, `PageOfAnswer`): of the rows beyond the cursor, only those are missing that come after a full page. `CursorInv` says of a caller that follows the cursor that each row that was there all the
time and is asked for is on a page already or beyond the cursor (`SeenUpTo`); by ID, no row of a page is beyond it, so none comes twice. The cursor of the next page is at most the value of
the last row (`CursorOfPage`), which is enough even when a time is cut off to the second. Insertions and deletions only make the set smaller for which this is claimed (`CursorWeakens`). The
hypotheses of the property (`FollowsCursor`) are what this needs of a query: conditions that PostgreSQL's adapter translates as they are, joined by AND (with an OR, the cursor's condition joins the last
group only, `postgres.go:582`), and a column that has a different number or time in each row.

And of the loop on stdin: `AtMostOneLateLine`, where the invariant adds that a late line was read after the cancellation.

*Only model-checked*: the liveness properties, which are out of the provers' reach, and the refinement of whole behaviours that rests on them.
The mutants are model-checked by their nature.

## 5. Abstractions

Logging, counters that are only displayed, names, messages and data of queries are left out. A mutex is the atomicity of
an action. Time is a discrete clock where ages matter (cache, limiter) and nondeterminism where they do not (scheduler).
Data races: `ListJobs` and `List` of templates return pointers that are read after the lock was released; the fields concerned are left out of the models.

Of the adapters: joins, aggregations and raw commands of Redis go to the database as text, and are left out. Documents hold explicit nulls, so that a missing field is a null; the nodes of Neo4j, which have none, lack the property. A list as a value is left out: a map stands for what Go cannot hash. An adapter that is called lenient
is so for every error of the tool, although some of its errors (a break of MongoDB's stream) are returned. The columns
of CSV and Excel files are those of the first row. The rows change during a call only before the database answers: an answer is a snapshot. A discovery and a change of the tables interleave in `SchemaRegistry`
only, a discovery and its faults in `QueryTools`.

## 6. Not modelled

- `Validator`, `Optimizer`, and the substitution of parameters: matching and replacing of text without state. A model would repeat the lists of words.
- `internal/auth`, and the middleware of the limiter: nothing in the repository wires them in, so there is no caller whose order of calls could be modelled.
- `internal/audit`, `internal/metrics`: they write what nothing reads back. `internal/metadata`: single SQL statements.
- `internal/config`, `cmd`: flags, files, wiring. `cmd/server`'s loop over the configured databases is the initial state of `QueryTools`.
- `pkg/querybridge`: a facade.
- Resources (register_resource, resources/read): a map under a lock, and `executeQuery` without the cache.
- List and Stats of the history, List of templates: they read.

## 7. Plan

1. Abstract specifications: a scheduler that knows only "a job runs, then waits", to be implemented by `Scheduler`; an LRU map with expiry for `ResultCache`.
2. List of the history with its filters and paging.

Runs that ask questions of one state space are kept together, as those of `Scheduler`, `ApiServer` and `QueryTools` are: a new component should join the run of
the component it interacts with where it can.
