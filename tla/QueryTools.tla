----------------------------- MODULE QueryTools -----------------------------
(***************************************************************************)
(* The tools of the MCP server that reach a database (internal/mcp), with  *)
(* the adapters they use: execute_query without its cache (QueryCache has  *)
(* it), stream_query, export_query, multi_source_query, cross_db_join,     *)
(* explain_query, describe_databases, describe_tables, and the discovery   *)
(* of a schema by annotate_schema.                                         *)
(*                                                                         *)
(* There is a database of each kind, which has the kind for its name; all  *)
(* hold the same rows.  Each of some callers makes one request: the stdio  *)
(* loop, the handlers of the HTTP API, and the executions of schedules run *)
(* at the same time.  A caller of execute_query may follow the pages of    *)
(* its answer.                                                             *)
(***************************************************************************)
EXTENDS Adapters, CrossJoin, Exporter

CONSTANTS
    Workloads, \* what is asked, and what may go wrong
    MaxPages   \* the pages that a caller asks for

\* The tables of a database.
Catalog ==
    [main  |-> [columns |-> Columns, key |-> {"id"}, refs |-> {}, indexes |-> {"by_at"},
                count |-> {"rows"}],
     other |-> [columns |-> {"id", "main_id"}, key |-> {"id", "main_id"},
                refs |-> {"main_id"}, indexes |-> {}, count |-> {"rows"}]]

Tables == <<"main", "other">>

\* Room for the callers of any workload.
Slots == 1..3

IsFilter(f) ==
    f = [column |-> f.column, operator |-> f.operator, value |-> f.value, logic |-> f.logic]

\* A limit or an offset that is not positive is none.
IsQuery(q) ==
    /\ DOMAIN q = {"columns", "filters", "order", "limit", "offset", "cursor", "cursorColumn",
                   "raw"}
    /\ q.limit \in Nat /\ q.offset \in Nat
    /\ q.filters \in Seq(Range(q.filters)) /\ \A f \in Range(q.filters) : IsFilter(f)
    /\ q.order \in Seq(Range(q.order))

\* A tool reads one database, except for the two that combine several; only the pages
\* of execute_query are followed.
IsRequest(r) ==
    /\ r.reads \in Seq(Range(r.reads)) \ {<<>>}
    /\ \A n \in DOMAIN r.reads : r.reads[n].kind \in Kinds /\ IsQuery(r.reads[n].query)
    /\ r.tool \in {"multi_source_query", "cross_db_join"} \/ Len(r.reads) = 1
    /\ r.tool = "cross_db_join" => Len(r.reads) = 2
    /\ r.tool = "execute_query" \/ r.paging = "none"
    /\ r.size \in Nat

ASSUME QueryToolsAssumption ==
    /\ MaxPages \in Nat
    /\ \A w \in Workloads :
         /\ DOMAIN w.requests \subseteq Slots
         /\ w.max \in Nat /\ w.faults \in Nat /\ w.changes \in Nat
         /\ w.rows \subseteq Ids /\ IsFiniteSet(w.rows)
         /\ \A c \in DOMAIN w.requests : IsRequest(w.requests[c])

\* A query of a database, and a request for the results of some.
Ask(kind, alias, query) == [kind |-> kind, alias |-> alias, query |-> query]

Request(tool, reads) == [tool |-> tool, reads |-> reads, size |-> 2, format |-> "csv",
                         paging |-> "none", type |-> "inner", keys |-> <<"id", "id">>]

VARIABLES
    \* the databases
    store,   \* the rows they hold
    kept,    \* the rows they held all the time
    conns,   \* for each kind, the connections in use
    \* the program
    schema,  \* for each kind, the registered schema
    call,    \* the call of each caller
    file,    \* the file that each caller exports to
    \* bounds
    work,    \* the workload
    faults,  \* the faults that may still happen
    changes  \* the changes of rows that may still happen

vars == <<store, kept, conns, schema, call, file, work, faults, changes>>

Callers == DOMAIN work.requests

Ask1(c) == work.requests[c].reads[call[c].n]
Kind(c) == Ask1(c).kind
Tool(c) == work.requests[c].tool

Whole(kind) ==
    LET listed == IF kind = "couchdb" THEN {Main} ELSE Range(Tables)
    IN  [t \in listed |-> [p \in Range(Parts(kind)) |-> Catalog[t][p]]]

Waiting(request) ==
    [phase |-> "waiting", n |-> 1, query |-> request.reads[1].query, left |-> <<>>,
     got |-> <<>>, total |-> 0, whole |-> [n \in DOMAIN request.reads |-> <<>>],
     results |-> <<>>, answer |-> Failed, pages |-> <<>>, found |-> <<>>, todo |-> <<>>]

Init ==
    /\ work \in Workloads
    /\ store = work.rows /\ kept = work.rows
    /\ conns = [k \in Kinds |-> 0]
    /\ schema = [k \in Kinds |-> Whole(k)]
    /\ call = [c \in Callers |-> Waiting(work.requests[c])]
    /\ file = [c \in Callers |-> NoFile]
    /\ faults = work.faults /\ changes = work.changes

-----------------------------------------------------------------------------
(* Connections and faults *)

Free(kind) == Pool(kind, work.max) = 0 \/ conns[kind] < Pool(kind, work.max)

\* Mutant: the connection of a call that fails stays open.
ReleasedOnSuccess(n, ok) == IF ok THEN n - 1 ELSE n

\* The rows are closed however the call ends.
Released(n, ok) == n - 1

Happens(fault) ==
    \/ fault = "none" /\ UNCHANGED faults
    \/ fault # "none" /\ faults > 0 /\ faults' = faults - 1

\* execute_query has a deadline, which Cassandra's adapter does not look at.
Limited(c) == Tool(c) = "execute_query" /\ Kind(c) # "cassandra"

-----------------------------------------------------------------------------
(* Results *)

\* What the adapter returns for a reading, to the tool that asked.
Returned(c, r) ==
    CASE Tool(c) \in {"execute_query", "multi_source_query", "cross_db_join"} ->
           Execute(Kind(c), call[c].query, r)
      [] Tool(c) \in {"stream_query", "export_query"} -> Stream(Kind(c), call[c].query, r)
      [] Tool(c) = "explain_query" -> PostgresExplain(r)

Alias(ask) == IF ask.alias = "" THEN ask.kind ELSE ask.alias

Cells(kind, columns, i) == [column \in columns |-> Convert(kind, column, Field(i, column))]

\* Elasticsearch returns whole documents, Neo4j a node as a map that lacks what is null,
\* unless raw text names its properties, and Redis the same columns for every query.
Row(kind, query, i) ==
    CASE kind = "elasticsearch" ->
           [column \in Columns \cup {"_id", "_index"} |->
              CASE column = "_id" -> <<"text", i>>
                [] column = "_index" -> <<"text", Main>>
                [] OTHER -> Convert(kind, column, Field(i, column))]
      [] kind = "neo4j" /\ ~query.raw ->
           [n |-> <<"map", Cells(kind, {p \in Columns : Field(i, p) # Null}, i)>>]
      [] kind = "redis" ->
           [key |-> <<"text", i>>, type |-> <<"text", "string">>,
            value |-> <<"text", Group[i]>>, ttl |-> <<"text", "no expiry">>]
      [] OTHER -> Cells(kind, query.columns, i)

Rows(ask, rows) == [n \in DOMAIN rows |-> Row(ask.kind, ask.query, rows[n])]

\* Where the columns are those of the rows, there are none without rows; but Elasticsearch
\* always has its own two.
ResultColumns(ask, rows) ==
    CASE rows # <<>> -> DOMAIN Row(ask.kind, ask.query, rows[1])
      [] rows = <<>> /\ ask.kind = "elasticsearch" -> {"_id", "_index"}
      [] rows = <<>> /\ ask.kind \in {"neo4j", "couchdb", "influxdb"} -> {}
      [] rows = <<>> /\ ask.kind = "redis" -> {"key", "type", "value", "ttl"}
      [] OTHER -> ask.query.columns

JoinConfig(request, results) ==
    LET left == request.reads[1]
        right == request.reads[2]
    IN  [left |-> Rows(left, results[1].rows), right |-> Rows(right, results[2].rows),
         leftColumns |-> ResultColumns(left, results[1].rows),
         rightColumns |-> ResultColumns(right, results[2].rows),
         leftKey |-> request.keys[1], rightKey |-> request.keys[2], type |-> request.type,
         leftAlias |-> Alias(left), rightAlias |-> Alias(right)]

\* One result for each alias: the last.
MultiSource(request, results) ==
    [a \in {Alias(request.reads[n]) : n \in DOMAIN results} |->
       results[CHOOSE n \in DOMAIN results :
                 /\ Alias(request.reads[n]) = a
                 /\ \A m \in DOMAIN results : Alias(request.reads[m]) = a => m =< n].rows]

Answer(request, results) ==
    CASE request.tool = "multi_source_query" ->
           Page(MultiSource(request, results), FALSE, Null)
      [] request.tool = "cross_db_join" -> CrossJoin(JoinConfig(request, results))
      [] OTHER -> Last(results)

\* The call after its current query returned p: it fails, asks the next query, panics,
\* or is answered.
After(c, p) ==
    LET request == work.requests[c]
        results == Append(call[c].results, p)
        read == [call[c] EXCEPT !.left = <<>>, !.got = <<>>, !.results = results]
        answered(a) == [read EXCEPT !.phase = "done", !.answer = a,
                          !.pages = IF a.ok THEN Append(@, a.rows) ELSE @]
    IN  CASE ~p.ok -> [read EXCEPT !.phase = "done", !.answer = Failed]
          [] p.ok /\ call[c].n < Len(request.reads) ->
               [read EXCEPT !.phase = "waiting", !.n = @ + 1,
                            !.query = request.reads[call[c].n + 1].query]
          [] p.ok /\ call[c].n >= Len(request.reads) /\ request.tool = "cross_db_join"
             /\ CrossJoinPanics(JoinConfig(request, results)) ->
               [read EXCEPT !.phase = "panicked"]
          [] OTHER -> answered(Answer(request, results))

-----------------------------------------------------------------------------
(* Queries *)

Becomes(c, new) == call' = [call EXCEPT ![c] = new]

Reads(c) == Tool(c) \notin {"describe_databases", "describe_tables", "annotate_schema"}

\* Raw text is not checked, and other queries need a registered table.
Planned(c) == call[c].query.raw \/ Main \in DOMAIN schema[Kind(c)]

Reject(c) ==
    /\ call[c].phase = "waiting" /\ Reads(c) /\ ~Planned(c)
    /\ Becomes(c, After(c, Failed))
    /\ UNCHANGED <<store, kept, conns, schema, file, work, faults, changes>>

\* Only PostgreSQL's adapter explains.  Others are said not to.
Unsupported(c) ==
    /\ call[c].phase = "waiting" /\ Tool(c) = "explain_query" /\ Planned(c)
    /\ Kind(c) # "postgres"
    /\ Becomes(c, After(c, Page(<<>>, FALSE, Null)))
    /\ UNCHANGED <<store, kept, conns, schema, file, work, faults, changes>>

Asks(c) ==
    /\ call[c].phase = "waiting" /\ Reads(c) /\ Planned(c)
    /\ Tool(c) = "explain_query" => Kind(c) = "postgres"

\* The database answers with the rows that it holds now.
Send(c) ==
    /\ Asks(c) /\ Free(Kind(c))
    /\ \E s \in {Statement(Kind(c), call[c].query)} :
         /\ s.valid
         /\ \E rows \in Answers(s, store) :
              Becomes(c, [call[c] EXCEPT !.phase = "open", !.left = rows,
                            !.total = Cardinality({i \in store : Matches(s, i)}),
                            !.whole[call[c].n] = rows])
    /\ conns' = [conns EXCEPT ![Kind(c)] = @ + 1]
    /\ UNCHANGED <<store, kept, schema, file, work, faults, changes>>

Refuse(c) ==
    /\ Asks(c) /\ Free(Kind(c))
    /\ Happens(IF Statement(Kind(c), call[c].query).valid THEN "refused" ELSE "none")
    /\ \E end \in {"refused", "unreached"} :
         Becomes(c, After(c, Returned(c, Reading(<<>>, 0, end))))
    /\ UNCHANGED <<store, kept, conns, schema, file, work, changes>>

\* The deadline passes before there is a connection or an answer.
Expire(c) ==
    /\ Asks(c) /\ Limited(c)
    /\ Becomes(c, After(c, Returned(c, Reading(<<>>, 0, "unreached"))))
    /\ UNCHANGED <<store, kept, conns, schema, file, work, faults, changes>>

\* Whether stream_query reads from the database batch by batch; other adapters'
\* streams hold the result of Execute.
Batched(c) == Tool(c) = "stream_query" /\ Kind(c) \in SqlKinds \cup {"mongodb"}

Close(c, p) ==
    /\ Becomes(c, After(c, p))
    /\ conns' = [conns EXCEPT ![Kind(c)] = Released(@, p.ok)]

\* The rows are read to their end.
Read(c) ==
    /\ call[c].phase = "open" /\ ~Batched(c) /\ Tool(c) # "export_query"
    /\ Close(c, Returned(c, Reading(call[c].left, call[c].total, "whole")))
    /\ UNCHANGED <<store, kept, schema, file, work, faults, changes>>

ReadBatch(c) ==
    LET batch == NextBatch(call[c].left, work.requests[c].size)
        got == call[c].got \o batch.rows
    IN
    /\ call[c].phase = "open" /\ Batched(c)
    /\ IF batch.more
       THEN /\ Becomes(c, [call[c] EXCEPT !.left = batch.left, !.got = got])
            /\ UNCHANGED conns
       ELSE Close(c, Returned(c, Reading(got, call[c].total, "whole")))
    /\ UNCHANGED <<store, kept, schema, file, work, faults, changes>>

\* The answer breaks off, for instance because the deadline passes.
Break(c) ==
    /\ call[c].phase = "open" /\ Tool(c) # "export_query"
    /\ faults > 0 /\ faults' = faults - 1
    /\ \E some \in Prefixes(call[c].left), end \in Breaks(Kind(c)) :
         Close(c, Returned(c, Reading(call[c].got \o some, call[c].total, end)))
    /\ UNCHANGED <<store, kept, schema, file, work, changes>>

\* Whether the stream fails before anything is exported: it holds a result.
NoStream(c, p) == ~p.ok /\ Kind(c) \notin SqlKinds \cup {"mongodb"}

\* An export, in which the database's answer breaks off, or the disk is full.
ExportRows(c) ==
    /\ call[c].phase = "open" /\ Tool(c) = "export_query"
    /\ \E fault \in {"none", "full"} \cup Breaks(Kind(c)), some \in Prefixes(call[c].left) :
         LET end == IF fault \in Breaks(Kind(c)) THEN fault ELSE "whole"
             p == Returned(c, Reading(some, call[c].total, end))
             rows == Rows(Ask1(c), IF p.ok THEN p.rows ELSE some)
             disk == IF fault = "full" THEN "full" ELSE "room"
         IN
         /\ Happens(fault) /\ (end = "whole" => some = call[c].left)
         /\ \E e \in IF NoStream(c, p) THEN {NotExported(file[c])}
                     ELSE Export(work.requests[c].format, rows, ~p.ok, disk, file[c]) :
              /\ file' = [file EXCEPT ![c] = e.file]
              /\ Close(c, IF e.ok THEN Page(<<>>, FALSE, Null) ELSE Failed)
    /\ UNCHANGED <<store, kept, schema, work, changes>>

-----------------------------------------------------------------------------
(* describe_databases, describe_tables and annotate_schema *)

\* A database that does not answer the ping is shown with its error.
DescribeDatabases(c) ==
    /\ call[c].phase = "waiting" /\ Tool(c) = "describe_databases" /\ Free(Kind(c))
    /\ \E fault \in {"none", "refused"} :
         /\ Happens(fault)
         /\ Becomes(c, After(c, Page(<<fault = "none", Cardinality(DOMAIN schema[Kind(c)])>>,
                                    FALSE, Null)))
    /\ UNCHANGED <<store, kept, conns, schema, file, work, changes>>

\* The registry answers.
DescribeTables(c) ==
    /\ call[c].phase = "waiting" /\ Tool(c) = "describe_tables"
    /\ Becomes(c, After(c, Page(<<DOMAIN schema[Kind(c)]>>, FALSE, Null)))
    /\ UNCHANGED <<store, kept, conns, schema, file, work, faults, changes>>

\* What is still to be asked of the tables that were found.
Todo(kind, found) ==
    LET OfTable(t) == IF t \in found
                      THEN [n \in DOMAIN Parts(kind) |-> <<t, Parts(kind)[n]>>] ELSE <<>>
    IN  OfTable(Tables[1]) \o OfTable(Tables[2])

\* An error of the discovery does not show: the annotation is saved.
Annotated(c) == After(c, Page(<<>>, FALSE, Null))

DiscoverTables(c) ==
    /\ call[c].phase = "waiting" /\ Tool(c) = "annotate_schema" /\ Free(Kind(c))
    /\ \E fault \in {"none", "refused", "broken"} :
         /\ Happens(fault)
         /\ \E o \in Listing(Kind(c), Range(Tables), fault) :
              Becomes(c, IF o = <<>> THEN Annotated(c)
                         ELSE [call[c] EXCEPT !.phase = "discovering",
                                 !.found = [t \in o[1] |-> [p \in {} |-> {}]],
                                 !.todo = Todo(Kind(c), o[1])])
    /\ UNCHANGED <<store, kept, conns, schema, file, work, changes>>

\* The call after the first part of todo was found to be o[1], or could not be.
Found(c, o) ==
    LET t == Head(call[c].todo)[1]
        p == Head(call[c].todo)[2]
    IN  IF o = <<>> THEN Annotated(c)
        ELSE [call[c] EXCEPT !.phase = "discovering", !.todo = Tail(@),
                             !.found[t] = [q \in DOMAIN @ \cup {p} |->
                                             IF q = p THEN o[1] ELSE @[q]]]

\* The rows of SQLite's list of indexes stay open.
Nested(c) ==
    /\ Kind(c) = "sqlite" /\ Head(call[c].todo)[2] = "indexes"
    /\ Catalog[Head(call[c].todo)[1]].indexes # {}

DiscoverPart(c) ==
    /\ call[c].phase = "discovering" /\ call[c].todo # <<>> /\ Free(Kind(c))
    /\ \E fault \in {"none", "refused", "broken"} :
         LET t == Head(call[c].todo)[1]
             p == Head(call[c].todo)[2]
         IN
         /\ Happens(fault)
         /\ IF Nested(c) /\ fault # "refused"
            THEN /\ Becomes(c, [call[c] EXCEPT !.phase = "indexes"])
                 /\ conns' = [conns EXCEPT ![Kind(c)] = @ + 1]
            ELSE /\ IF Panics(Kind(c), p, fault)
                    THEN Becomes(c, [call[c] EXCEPT !.phase = "panicked"])
                    ELSE \E o \in Part(Kind(c), p, Catalog[t][p], fault) :
                           Becomes(c, Found(c, o))
                 /\ UNCHANGED conns
    /\ UNCHANGED <<store, kept, schema, file, work, changes>>

\* The columns of the indexes need a second connection.  The list may break off
\* after that.
DiscoverIndexColumns(c) ==
    /\ call[c].phase = "indexes" /\ Free(Kind(c))
    /\ \E fault \in {"none", "refused", "broken"} :
         LET indexes == Catalog[Head(call[c].todo)[1]].indexes IN
         /\ Happens(fault)
         /\ \E o \in SqliteIndexColumns(indexes, fault)
                     \cup (IF fault = "broken" THEN SqliteIndexes(indexes, fault) ELSE {}) :
              Becomes(c, Found(c, o))
    /\ conns' = [conns EXCEPT ![Kind(c)] = Released(@, TRUE)]
    /\ UNCHANGED <<store, kept, schema, file, work, changes>>

\* The schema is complete and replaces the registered one.
RegisterSchema(c) ==
    /\ call[c].phase = "discovering" /\ call[c].todo = <<>>
    /\ schema' = [schema EXCEPT ![Kind(c)] = call[c].found]
    /\ Becomes(c, Annotated(c))
    /\ UNCHANGED <<store, kept, conns, file, work, faults, changes>>

-----------------------------------------------------------------------------
(* The client that follows pages, and the other users of the databases *)

\* The kinds whose answers say whether there is more.
SayMore == {"postgres", "mongodb", "elasticsearch"}

WantsMore(c) ==
    LET a == call[c].answer IN
    IF work.requests[c].paging = "cursor" THEN a.more /\ a.next # Null
    ELSE IF Kind(c) \in SayMore THEN a.more ELSE Len(a.rows) = call[c].query.limit

NextQuery(c) ==
    IF ~call[c].answer.ok THEN call[c].query
    ELSE IF work.requests[c].paging = "cursor"
    THEN [call[c].query EXCEPT !.cursor = call[c].answer.next]
    ELSE [call[c].query EXCEPT !.offset = @ + call[c].query.limit]

\* A caller asks for the next page, or for a page again that failed.
AskNext(c) ==
    /\ call[c].phase = "done" /\ work.requests[c].paging # "none"
    /\ Len(call[c].pages) < MaxPages /\ (call[c].answer.ok => WantsMore(c))
    /\ Becomes(c, [Waiting(work.requests[c]) EXCEPT !.query = NextQuery(c),
                                                  !.pages = call[c].pages])
    /\ UNCHANGED <<store, kept, conns, schema, file, work, faults, changes>>

Insert ==
    /\ changes > 0 /\ changes' = changes - 1
    /\ \E i \in Ids \ store : store' = store \cup {i}
    /\ UNCHANGED <<kept, conns, schema, call, file, work, faults>>

Delete ==
    /\ changes > 0 /\ changes' = changes - 1
    /\ \E i \in store : store' = store \ {i} /\ kept' = kept \ {i}
    /\ UNCHANGED <<conns, schema, call, file, work, faults>>

Step(c) ==
    \/ Reject(c) \/ Unsupported(c) \/ Send(c) \/ Refuse(c) \/ Expire(c) \/ Read(c)
    \/ ReadBatch(c) \/ Break(c) \/ ExportRows(c) \/ DescribeDatabases(c)
    \/ DescribeTables(c) \/ DiscoverTables(c) \/ DiscoverPart(c)
    \/ DiscoverIndexColumns(c) \/ RegisterSchema(c)

Next == Insert \/ Delete \/ \E c \in Callers : Step(c) \/ AskNext(c)

\* Whether a call can go on: ENABLED Step(c).  It waits only for connections.
Able(c) ==
    /\ c \in Callers /\ call[c].phase \notin {"done", "panicked"}
    /\ \/ Free(Kind(c))
       \/ call[c].phase = "open"
       \/ call[c].phase = "discovering" /\ call[c].todo = <<>>
       \/ /\ call[c].phase = "waiting"
          /\ Tool(c) = "describe_tables" \/ (Reads(c) /\ (~Asks(c) \/ Limited(c)))

Goes(c) == c \in Callers /\ call[c].phase \notin {"done", "panicked"} /\ call'[c] # call[c]

\* A goroutine that can go on does, also if it waits for a connection, since a pool
\* serves its waiters in turn: SF_vars(Step(c)), written out.  Clients and other users
\* may stop.
Fairness == \A c \in Slots : []<>Able(c) => []<><<Goes(c)>>_vars

Spec == Init /\ [][Next]_vars /\ Fairness

-----------------------------------------------------------------------------
(* Properties *)

Answered(c, tools) == Tool(c) \in tools /\ call[c].phase = "done" /\ call[c].answer.ok

Finished(c) == Answered(c, {"execute_query"}) /\ ~WantsMore(c)

\* The query of the first page, and the rows it asks for.
Asked(c) == work.requests[c].reads[1].query

Wanted(c, i) == Matches(Written(Asked(c)), i)

Pages(c) == FlattenSeq(call[c].pages)

\* No two rows with one value, and none without.
Distinguishes(column) ==
    \A i, j \in Ids : Field(i, column) # Null
                        /\ (Field(i, column) = Field(j, column) => i = j)

\* What a cursor needs: a first page that is not raw text, conditions with known operators
\* that are joined by AND only, the ascending order of the cursor's column, which is among
\* the columns, and a number or a time.
FollowsCursor(q) ==
    LET column == q.cursorColumn IN
    /\ ~q.raw /\ q.cursor = Null /\ q.offset = 0
    /\ column \in q.columns \cap {"id", "at"} /\ Distinguishes(column)
    /\ \A f \in Range(q.filters) : f.logic # "or" /\ f.operator \in Operators
    /\ q.order \in {<<>>, <<[column |-> column, direction |-> "asc"]>>}

\* A caller that has followed the cursor of PostgreSQL to the last page has seen
\* every row that it asked for and that was there all the time, whatever was inserted
\* and deleted meanwhile; and none twice, unless the cursor is a time, which is
\* cut off to the second (postgres.go:581, 719).
CursorPagesLoseNothing ==
    \A c \in Callers :
      (/\ work.requests[c].paging = "cursor" /\ Kind(c) = "postgres"
       /\ FollowsCursor(Asked(c)) /\ Finished(c)) =>
        /\ \A i \in kept : Wanted(c, i) => i \in Range(Pages(c))
        /\ Asked(c).cursorColumn = "id" => IsInjective(Pages(c))

\* The adapters that look at Offset.
Offsets == {"postgres", "mysql", "sqlite", "clickhouse", "mongodb", "elasticsearch"}

\* A condition that an adapter of this kind takes as it is.
Understands(kind, f) ==
    IF kind \in SqlKinds THEN f.operator \in Operators \ {"ilike", "in", "not_in"}
    ELSE /\ f.operator \in {"eq", "like", "gt", "gte", "lt", "lte"}
         /\ f.value # Null /\ f.logic # "or"

\* What paging by offset needs: a first page with a limit that is not raw text, conditions
\* that are understood, and a total order by numbers and times.
FollowsOffset(kind, q) ==
    /\ ~q.raw /\ q.cursor = Null /\ q.offset = 0 /\ q.limit > 0
    /\ \A f \in Range(q.filters) : Understands(kind, f)
    /\ kind = "mongodb" =>
         \A m, n \in DOMAIN q.filters : q.filters[m].column = q.filters[n].column => m = n
    /\ \A n \in DOMAIN q.order : q.order[n].column \in {"id", "at"}
    /\ \E n \in DOMAIN q.order : Distinguishes(q.order[n].column)

\* A caller that advances the offset by the limit has seen, after every page, a first
\* part of the rows it asked for, in the order it asked for; and when there is no more,
\* all of them; if no answer failed for a fault, and no row changed.
OffsetPagesPartition ==
    \A c \in Callers :
      (/\ work.requests[c].paging = "offset" /\ Kind(c) \in Offsets
       /\ changes = work.changes /\ faults = work.faults
       /\ FollowsOffset(Kind(c), Asked(c))) =>
        \A rows \in Arrangements(Asked(c).order, {i \in store : Wanted(c, i)}) :
          /\ Pages(c) \in Prefixes(rows)
          /\ Finished(c) => Pages(c) = rows

\* The adapters whose Execute, or whose Stream, takes an answer that breaks off for
\* the whole one, or a refusal for an empty one.
Lenient(tool) ==
    {"elasticsearch", "couchdb", "redis", "mongodb"}
      \cup (IF tool \in {"stream_query", "export_query"} THEN {} ELSE {"sqlserver", "clickhouse"})

\* Behind a successful answer are all the rows that the database had to give to each
\* of its queries: a connection that breaks, a deadline that passes, or one of
\* several queries that fails is an error.
AnswersAreWhole ==
    \A c \in Callers :
      Answered(c, {"execute_query", "stream_query", "multi_source_query", "cross_db_join"}) =>
        \A n \in DOMAIN call[c].results :
          \/ work.requests[c].reads[n].kind \in Lenient(Tool(c))
          \/ call[c].results[n].rows = call[c].whole[n]

\* The file of a successful export holds the result, record by record; except that a
\* CSV file may lack the end when the disk was full (exporter.go:93), and that
\* there is no Parquet file without rows (parquet.go:57).
ExportedFileIsTheResult ==
    \A c \in Callers :
      Answered(c, {"export_query"}) /\ Kind(c) \notin Lenient("export_query") =>
        LET rows == Rows(work.requests[c].reads[1], call[c].whole[1])
            format == work.requests[c].format
        IN  \/ file[c] = File(rows)
            \/ format = "parquet" /\ rows = <<>> /\ file[c] = NoFile
            \/ /\ format = "csv" /\ faults < work.faults
               /\ file[c] \in {File(s) : s \in Prefixes(rows)}

\* What is registered after a discovery is true of the database: all of it if
\* nothing failed, up to the indexes that PostgreSQL's driver cannot scan.  For a
\* database with SQL, a statement that failed never costs a table or a column,
\* and only PostgreSQL's keys may be lost.
DiscoveredSchemaIsReal ==
    \A k \in Kinds :
      LET Same(parts) ==
            /\ DOMAIN schema[k] = DOMAIN Whole(k)
            /\ \A t \in DOMAIN schema[k] : \A p \in parts \cap Range(Parts(k)) :
                 schema[k][t][p] = Catalog[t][p]
      IN  /\ faults = work.faults =>
               Same(Range(Parts(k)) \ (IF k = "postgres" THEN {"indexes"} ELSE {}))
          /\ k \in SqlKinds =>
               Same({"columns", "refs"} \cup (IF k = "postgres" THEN {} ELSE {"key"}))

\* Every connection is held by a discovery that needs another one.
HeldByDiscovery(kind) ==
    Pool(kind, work.max) # 0
      /\ Cardinality({c \in Callers : Kind(c) = kind /\ call[c].phase = "indexes"})
           = Pool(kind, work.max)

\* What a panic takes: Neo4j's discovery and a fault (neo4j.go:96), or a join by a key
\* that is a map in some row (crossjoin.go:88, 145, 175).
MayPanic(c) ==
    \/ Tool(c) = "annotate_schema" /\ Kind(c) = "neo4j" /\ faults < work.faults
    \/ /\ Tool(c) = "cross_db_join"
       /\ \E n \in 1..2, i \in Ids :
            LET ask == work.requests[c].reads[n]
            IN  IsMap(GetColumnValue(Row(ask.kind, ask.query, i), work.requests[c].keys[n]))

\* Every call is answered, except for a panic, and except that calls without a deadline
\* stop where the discovery of SQLite's indexes waits for itself (sqlite.go:226).
CallsEnd ==
    \A c \in Slots :
      (c \in Callers /\ call[c].phase # "done") ~>
        (c \in Callers /\ (\/ call[c].phase = "done"
                           \/ call[c].phase = "panicked" /\ MayPanic(c)
                           \/ ~Limited(c) /\ HeldByDiscovery(Kind(c))))

\* cross_db_join returns the pairs of rows whose keys agree, each once, and for a
\* left or right join the rows without a partner; if the aliases are different.
JoinIsTheReference ==
    \A c \in Callers :
      Answered(c, {"cross_db_join"}) =>
        LET cfg == JoinConfig(work.requests[c], call[c].results)
        IN  cfg.leftAlias # cfg.rightAlias => IsJoin(cfg, call[c].answer.rows)
=============================================================================
