---------------------------- MODULE MCQueryTools ----------------------------
(***************************************************************************)
(* Small instances of QueryTools for TLC.                                  *)
(***************************************************************************)
EXTENDS QueryTools

\* Five rows; their times differ, some by less than a second.
FiveIds == 1..5
Times == [i \in FiveIds |-> <<2, 3, 5, 7, 8>>[i]]
Groups == [i \in FiveIds |-> <<"a", "b", Null, "A", "b">>[i]]

\* Names with dots: a property of Neo4j's node n, and a path that ends before its last part.
Paths == [name \in {"n.grp", "n.grp.x"} |->
            IF name = "n.grp" THEN <<"n", "grp">> ELSE <<"n", "grp", "x">>]

MCWorkload(max, nfaults, nchanges, rows, requests) ==
    [max |-> max, faults |-> nfaults, changes |-> nchanges, rows |-> rows,
     requests |-> requests]

Where(column, operator, value, logic) ==
    [column |-> column, operator |-> operator, value |-> value, logic |-> logic]
Asc(column) == [column |-> column, direction |-> "asc"]
Desc(column) == [column |-> column, direction |-> "desc"]

By(column) == Query(Columns, <<>>, <<Asc(column)>>, 0, Null, FALSE)
ByRaw(column) == [By(column) EXCEPT !.raw = TRUE]

ReadAll(kind) == <<Ask(kind, "", IF kind = "sqlserver" THEN ByRaw("id") ELSE By("id"))>>

\* Every kind of database with a fault in the way of every tool.
FaultyTools ==
    {MCWorkload(0, 1, 0, 1..3, <<Request(tool, ReadAll(k))>>) : k \in Kinds,
       tool \in {"execute_query", "stream_query", "explain_query", "describe_databases"}}
    \cup {MCWorkload(0, 1, 0, 1..3, <<Request("execute_query", <<Ask("sqlserver", "", By("id"))>>)>>)}
    \cup {MCWorkload(0, 0, 0, 1..3, <<Request("execute_query",
             <<Ask(k, "", [By("id") EXCEPT !.filters = <<Where("id", "in", {1, 2}, "and")>>])>>)>>) :
             k \in {"postgres", "mysql", "sqlite", "mongodb"}}
Discoveries ==
    {MCWorkload(2, 1, 0, 1..2, <<Request("annotate_schema", ReadAll(k)),
                                 Request(tool, ReadAll(k))>>) :
       k \in Kinds, tool \in {"execute_query", "describe_tables"}}
Exports ==
    {MCWorkload(0, 1, 0, rows, <<[Request("export_query", ReadAll(k)) EXCEPT !.format = f]>>) :
       k \in {"postgres", "cassandra", "redis"}, f \in Formats \cup {"xml"}, rows \in {{}, 1..3}}

\* Pages by cursor.
CursorQueries ==
    {[Query(columns, fs, order, limit, column, FALSE) EXCEPT !.cursorColumn = column] :
       columns \in {Columns}, column \in {"id", "at"}, limit \in {1, 2},
       order \in {<<>>},
       fs \in {<<>>, <<Where("grp", "ne", "b", "and")>>}}
    \cup {Query({"grp"}, <<>>, <<>>, 2, "id", FALSE),
          Query(Columns, <<>>, <<Desc("id")>>, 2, "id", FALSE),
          Query(Columns, <<Where("grp", "is_null", Null, "and"), Where("id", "gt", 1, "or")>>,
                <<Asc("id")>>, 2, "id", FALSE)}
Cursors ==
    {MCWorkload(1, 0, 2, 1..4, <<[Request("execute_query", <<Ask("postgres", "", q)>>)
                                    EXCEPT !.paging = "cursor"]>>) : q \in CursorQueries}

\* Pages by offset.
OffsetQueries ==
    {Query(Columns, fs, order, limit, Null, FALSE) :
       limit \in {2, 3},
       order \in {<<Desc("at")>>, <<Asc("id")>>},
       fs \in {<<>>, <<Where("grp", "eq", "b", "and")>>,
               <<Where("id", "lt", 5, "and"), Where("at", "gte", 3, "and")>>}}
PagingKinds == Offsets
OffsetPages ==
    {MCWorkload(0, 0, 1, 1..4, <<[Request("execute_query", <<Ask(k, "", q)>>)
                                    EXCEPT !.paging = "offset"]>>) :
       k \in PagingKinds, q \in OffsetQueries}

\* Callers that compete for connections.
Competing ==
    {MCWorkload(1, 1, 0, 1..2, <<Request("stream_query", ReadAll("mysql")),
                                 Request("multi_source_query", ReadAll("mysql") \o ReadAll("mysql")),
                                 Request("execute_query", ReadAll("mysql"))>>)}
    \cup {MCWorkload(max, 0, 0, 1..2, <<Request("annotate_schema", ReadAll("sqlite")),
                                        Request(tool, ReadAll("sqlite")),
                                        Request(other, ReadAll("sqlite"))>>) :
           max \in {0, 2}, tool \in {"annotate_schema", "stream_query"},
           other \in {"execute_query", "export_query"}}

\* Joins and several sources.
Sides == {By("id"), Query({"id", "grp", "at"}, <<Where("grp", "eq", "b", "and")>>,
                          <<Asc("id")>>, 0, Null, FALSE)}
Joins ==
    {MCWorkload(0, 0, 1, 1..3,
       <<[Request("cross_db_join", <<Ask(k, a, By("at")), Ask(l, "r", q)>>)
            EXCEPT !.keys = <<key, key>>, !.type = type]>>) :
       k \in {"sqlite", "postgres"}, l \in {"mysql", "mongodb", "elasticsearch"},
       a \in {"", "r"}, q \in Sides, key \in {"id", "at", "grp"},
       type \in {"", "left", "right"}}

\* Joins with the nodes of Neo4j: by a property, by one that no node has, and by the node.
NodeJoins ==
    {MCWorkload(0, 0, 1, 1..3,
       <<[Request("cross_db_join", <<Ask("postgres", "", By("id")), Ask("neo4j", "", By("id"))>>)
            EXCEPT !.keys = <<"grp", key>>, !.type = type]>>) :
       key \in {"n.grp", "n.grp.x", "n"}, type \in {"", "left", "right", "full"}}
    \cup {MCWorkload(0, 0, 1, 1..3,
       <<[Request("cross_db_join", <<Ask("neo4j", "", query), Ask("neo4j", "r", By("at"))>>)
            EXCEPT !.keys = <<key, "n.grp">>, !.type = type]>>) :
       query \in {By("id"), ByRaw("id")}, key \in {"n.grp", "grp", "n"},
       type \in {"", "left", "right"}}
Sources ==
    {MCWorkload(1, 1, 1, 1..2,
       <<Request("multi_source_query", <<Ask("postgres", a, By("id")), Ask(k, b, By("at"))>>)>>) :
       k \in {"mysql", "cassandra"}, a \in {"", "x"}, b \in {"", "x"}}
    \cup {MCWorkload(0, 0, 0, 1..2,
       <<[Request("cross_db_join", <<Ask("sqlite", "", By("id")), Ask("mysql", "", By("id"))>>)
            EXCEPT !.type = type, !.keys = <<key, key>>]>>) :
          type \in {"full", ""}, key \in {"id", ""}}

AllWorkloads ==
    FaultyTools \cup Discoveries \cup Exports \cup Cursors \cup OffsetPages \cup Competing
      \cup Joins \cup NodeJoins \cup Sources
=============================================================================
