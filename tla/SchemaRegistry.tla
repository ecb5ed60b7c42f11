--------------------------- MODULE SchemaRegistry ---------------------------
(***************************************************************************)
(* The schema registry with its relationship graph (internal/schema), the  *)
(* planner (internal/query) and the discovery of schemas by an SQL         *)
(* adapter, for one database.                                              *)
(*                                                                         *)
(* The stdio loop refreshes the registered schema in annotate_schema: it   *)
(* discovers the schema with one statement after another, while others     *)
(* change the database, and registers the outcome.  Meanwhile a scheduled  *)
(* execution plans a query: it takes the registry's lock once to select    *)
(* columns and once more to validate, and then runs what it planned.       *)
(*                                                                         *)
(* A schema is a function from its tables to their columns, and a set of   *)
(* foreign keys, pairs of tables.  Types, keys and indexes are left out.   *)
(***************************************************************************)
EXTENDS Naturals, SequencesExt

CONSTANTS
    Tables,
    Columns,
    Denied,     \* the columns of the denylist
    Shapes,     \* the schemas that the database itself may have
    Requests,   \* the queries that are planned
    MaxChanges, \* bound on changes of the database
    MaxRefresh  \* bound on refreshes

Schema == [tables : UNION {[T -> SUBSET Columns] : T \in SUBSET Tables},
           keys   : SUBSET (Tables \X Tables)]

\* filters stands for the columns of WHERE and ORDER BY, which are checked alike.
Request == [raw : BOOLEAN, table : Tables, columns : SUBSET Columns,
            filters : SUBSET Columns]

ASSUME RegistryAssumption ==
    /\ IsFiniteSet(Tables)
    /\ Denied \subseteq Columns
    /\ Shapes \subseteq Schema
    /\ \A s \in Shapes : s.keys \subseteq (DOMAIN s.tables) \X (DOMAIN s.tables)
    /\ Requests \subseteq Request
    /\ MaxChanges \in Nat
    /\ MaxRefresh \in Nat

VARIABLES
    live,    \* the schema of the database itself
    schema,  \* the registered one: r.schemas[database]
    edges,   \* r.graph.edges: the targets of each table's relationships
    refresh, \* annotate_schema: what it has discovered so far
    plan,    \* the execution: its request, how far it is, and history: the
             \* part of past it has seen, and the database it ran on
    past,    \* history: the schemas registered so far, the current one last
    changes  \* history: the number of changes of the database

vars == <<live, schema, edges, refresh, plan, past, changes>>

Safe(s, t) == s.tables[t] \ Denied

-----------------------------------------------------------------------------
(* The relationship graph *)

Linked(g, key) == [g EXCEPT ![key[1]] = Append(@, key[2])]

\* Mutant: the reverse relationship is left out.
AddSchemaOneWay(keys, g) ==
    FoldLeft(LAMBDA h, key : Linked(h, key), g, keys)

\* A relationship and its reverse for each foreign key, whether or not they
\* are there already; those of an earlier schema stay.
AddSchema(keys, g) ==
    FoldLeft(LAMBDA h, key : Linked(Linked(h, key), <<key[2], key[1]>>), g, keys)

\* A node of the queue of FindPath, and the nodes that a node leads to.
Node == [table : Tables, path : Seq(Tables \X Tables)]

Onward(curr) ==
    [i \in DOMAIN edges[curr.table] |->
       [table |-> edges[curr.table][i],
        path  |-> Append(curr.path, <<curr.table, edges[curr.table][i]>>)]]

\* Mutant: the new nodes are visited first.
FindPathDeep(from, to) ==
    LET Visit[s \in [queue : Seq(Node), visited : SUBSET Tables]] ==
          IF s.queue = <<>> THEN <<>>
          ELSE LET curr == Head(s.queue)
                   rest == Tail(s.queue)
               IN  IF curr.table \in s.visited THEN Visit[[queue |-> rest, visited |-> s.visited]]
                   ELSE IF curr.table = to THEN curr.path
                   ELSE Visit[[queue   |-> Onward(curr) \o rest,
                               visited |-> s.visited \cup {curr.table}]]
    IN Visit[[queue |-> <<[table |-> from, path |-> <<>>]>>, visited |-> {}]]

\* Breadth-first search; the empty path is also the answer when there is none.
FindPath(from, to) ==
    LET Visit[s \in [queue : Seq(Node), visited : SUBSET Tables]] ==
          IF s.queue = <<>> THEN <<>>
          ELSE LET curr == Head(s.queue)
                   rest == Tail(s.queue)
               IN  IF curr.table \in s.visited THEN Visit[[queue |-> rest, visited |-> s.visited]]
                   ELSE IF curr.table = to THEN curr.path
                   ELSE Visit[[queue   |-> rest \o Onward(curr),
                               visited |-> s.visited \cup {curr.table}]]
    IN Visit[[queue |-> <<[table |-> from, path |-> <<>>]>>, visited |-> {}]]

-----------------------------------------------------------------------------
(* Start-up registers what was discovered; nothing runs before. *)

Init ==
    /\ live \in Shapes
    /\ schema = live
    /\ edges = AddSchema(SetToSeq(live.keys), [t \in Tables |-> <<>>])
    /\ refresh = [phase |-> "idle", runs |-> 0]
    /\ plan = [phase |-> "idle"]
    /\ past = <<live>>
    /\ changes = 0

\* Other programs change the database.
Change ==
    /\ changes < MaxChanges
    /\ live' \in Shapes \ {live}
    /\ changes' = changes + 1
    /\ UNCHANGED <<schema, edges, refresh, plan, past>>

-----------------------------------------------------------------------------
(* annotate_schema: the annotation is saved, then the schema discovered *)

\* SHOW TABLES, or the like.  `at' is history: the changes so far.
DiscoverTables ==
    /\ refresh.phase = "idle" /\ refresh.runs < MaxRefresh
    /\ refresh' = [phase |-> "columns", runs |-> refresh.runs + 1, at |-> changes,
                   todo |-> DOMAIN live.tables, keysOf |-> {}, tables |-> <<>>, keys |-> {}]
    /\ UNCHANGED <<live, schema, edges, plan, past, changes>>

\* One table after another, in a fixed order.  A table dropped meanwhile has no
\* columns and no foreign keys, which is not an error.
DiscoverColumns ==
    /\ refresh.phase = "columns" /\ refresh.todo # {}
    /\ LET t == CHOOSE t \in refresh.todo : TRUE IN
       refresh' = [refresh EXCEPT
                     !.phase = "keys",
                     !.todo = @ \ {t},
                     !.keysOf = {t},
                     !.tables = [u \in DOMAIN @ \cup {t} |->
                         IF u # t THEN @[u]
                         ELSE IF t \in DOMAIN live.tables THEN live.tables[t] ELSE {}]]
    /\ UNCHANGED <<live, schema, edges, plan, past, changes>>

DiscoverForeignKeys ==
    /\ refresh.phase = "keys"
    /\ refresh' = [refresh EXCEPT
                     !.phase = "columns",
                     !.keysOf = {},
                     !.keys = @ \cup {k \in live.keys : k[1] \in refresh.keysOf}]
    /\ UNCHANGED <<live, schema, edges, plan, past, changes>>

\* A statement fails: the registered schema stays.
DiscoveryFails ==
    /\ refresh.phase \in {"columns", "keys"}
    /\ refresh' = [phase |-> "idle", runs |-> refresh.runs]
    /\ UNCHANGED <<live, schema, edges, plan, past, changes>>

\* Mutant: tables that are no longer found are kept.
RegisterMerged ==
    /\ refresh.phase = "columns" /\ refresh.todo = {}
    /\ schema' = [tables |-> refresh.tables @@ schema.tables, keys |-> refresh.keys]
    /\ \E keys \in SetToSeqs(refresh.keys) : edges' = AddSchema(keys, edges)
    /\ past' = Append(past, schema')
    /\ refresh' = [phase |-> "idle", runs |-> refresh.runs]
    /\ UNCHANGED <<live, plan, changes>>

\* The tables are taken in the order of a map iteration.
Register ==
    /\ refresh.phase = "columns" /\ refresh.todo = {}
    /\ schema' = [tables |-> refresh.tables, keys |-> refresh.keys]
    /\ \E keys \in SetToSeqs(refresh.keys) : edges' = AddSchema(keys, edges)
    /\ past' = Append(past, schema')
    /\ refresh' = [phase |-> "idle", runs |-> refresh.runs]
    /\ UNCHANGED <<live, plan, changes>>

-----------------------------------------------------------------------------
(* Planning and executing a query *)

\* One query: planning changes nothing that another one reads.  The schema is
\* there since start-up, and the denylist never changes.
Plan(request) ==
    /\ plan.phase = "idle"
    /\ plan' = [phase |-> IF \/ request.columns \cap Denied # {}
                             \/ request.filters \cap Denied # {}
                          THEN "rejected" ELSE "planning",
                request |-> request, columns |-> request.columns,
                first |-> Len(past), last |-> Len(past), answer |-> {}, on |-> {}]
    /\ UNCHANGED <<live, schema, edges, refresh, past, changes>>

\* Without columns the safe ones of the table are selected; that the table is
\* not there is no error yet.
SelectColumns ==
    /\ plan.phase = "planning"
    /\ plan' = [plan EXCEPT
                  !.phase = "selected",
                  !.columns = IF @ # {} \/ plan.request.table \notin DOMAIN schema.tables
                              THEN @ ELSE Safe(schema, plan.request.table)]
    /\ UNCHANGED <<live, schema, edges, refresh, past, changes>>

\* Mutant: the filters are not looked at.
ValidColumnsOnly ==
    \/ plan.request.raw
    \/ /\ plan.request.table \in DOMAIN schema.tables
       /\ plan.columns \subseteq Safe(schema, plan.request.table)

\* ValidateQuery: everything the query names is in the schema, and not denied.
Valid ==
    \/ plan.request.raw
    \/ /\ plan.request.table \in DOMAIN schema.tables
       /\ plan.columns \cup plan.request.filters \subseteq Safe(schema, plan.request.table)

Validate ==
    /\ plan.phase = "selected"
    /\ plan' = [plan EXCEPT !.phase = IF Valid THEN "accepted" ELSE "rejected",
                            !.last = Len(past)]
    /\ UNCHANGED <<live, schema, edges, refresh, past, changes>>

\* Mutant: every column is returned to the caller.
StripNothing(columns) == columns

StripDeniedFields(columns) == columns \ Denied

\* The database runs SELECT columns, or SELECT * if there are none.
Execute ==
    /\ plan.phase = "accepted"
    /\ ~plan.request.raw
    /\ LET t == plan.request.table IN
         /\ t \in DOMAIN live.tables
         /\ plan.columns \cup plan.request.filters \subseteq live.tables[t]
         /\ plan' = [plan EXCEPT
                       !.phase = "answered", !.on = {live},
                       !.answer = StripDeniedFields(IF plan.columns = {} THEN live.tables[t]
                                                                        ELSE plan.columns)]
    /\ UNCHANGED <<live, schema, edges, refresh, past, changes>>

\* The database reports an error, the deadline passes, or the query is raw and
\* its result is whatever the database returns.
EndOtherwise ==
    /\ plan.phase = "accepted"
    /\ plan' = [plan EXCEPT !.phase = "ended"]
    /\ UNCHANGED <<live, schema, edges, refresh, past, changes>>

Next ==
    \/ Change
    \/ DiscoverTables
    \/ DiscoverColumns
    \/ DiscoverForeignKeys
    \/ DiscoveryFails
    \/ Register
    \/ \E request \in Requests : Plan(request)
    \/ SelectColumns
    \/ Validate
    \/ Execute
    \/ EndOtherwise

Spec == Init /\ [][Next]_vars

-----------------------------------------------------------------------------
(* Properties *)

\* The schemas that were registered at some time while the query was planned.
Seen == {past[i] : i \in plan.first .. plan.last}

\* What a caller may expect of a request on a given schema.
Fits(s, request) ==
    /\ (request.columns \cup request.filters) \cap Denied = {}
    /\ \/ request.raw
       \/ /\ request.table \in DOMAIN s.tables
          /\ request.columns \cup request.filters \subseteq s.tables[request.table]

\* Although planning takes the lock several times, its outcome is right for one
\* of the schemas of that time: an accepted query fits one of them, a rejected
\* one does not.  Only a query whose columns were selected from a schema that
\* was replaced before the validation may be rejected although it fits both.
PlansAreJudged ==
    /\ plan.phase \in {"accepted", "answered", "ended"} =>
         \E s \in Seen : Fits(s, plan.request)
    /\ plan.phase = "rejected" =>
         \/ \E s \in Seen : ~Fits(s, plan.request)
         \/ plan.request.columns = {} /\ plan.first < plan.last

\* An answer has the columns that were asked for; if none were, it has all safe
\* columns of one version of the table, registered while the query was planned
\* or live when it ran, and never a mixture of two.
AnswersFitOneVersion ==
    plan.phase = "answered" =>
      IF plan.request.columns # {} THEN plan.answer = plan.request.columns
      ELSE \E s \in Seen \cup plan.on :
             /\ plan.request.table \in DOMAIN s.tables
             /\ plan.answer = Safe(s, plan.request.table)

\* A refresh during which nobody changed the database registers it as it is,
\* tables that were dropped before included.
RefreshIsExact ==
    [][refresh.phase # "idle" /\ past' # past =>
         refresh.at < changes \/ schema' = live]_vars

\* However often schemas were registered, a foreign key of the current one can
\* be followed in both directions.
KeysAreLinked ==
    \A key \in schema.keys :
      /\ \E i \in DOMAIN edges[key[1]] : edges[key[1]][i] = key[2]
      /\ \E i \in DOMAIN edges[key[2]] : edges[key[2]][i] = key[1]

\* The tables within n relationships of a table.
Within(from) ==
    LET W[n \in Nat] ==
          IF n = 0 THEN {from}
          ELSE W[n - 1] \cup UNION {{edges[t][i] : i \in DOMAIN edges[t]} : t \in W[n - 1]}
    IN W

\* FindPath returns a chain of relationships, as short as any, whenever there
\* is one, on every graph that registrations can leave behind.
PathsAreShortest ==
    \A from, to \in Tables :
      LET path == FindPath(from, to) IN
      from # to =>
        IF path = <<>> THEN to \notin Within(from)[Cardinality(Tables)]
        ELSE /\ path[1][1] = from
             /\ path[Len(path)][2] = to
             /\ \A i \in 2 .. Len(path) : path[i][1] = path[i - 1][2]
             /\ \A i \in DOMAIN path : \E j \in DOMAIN edges[path[i][1]] :
                                          edges[path[i][1]][j] = path[i][2]
             /\ to \notin Within(from)[Len(path) - 1]
=============================================================================
