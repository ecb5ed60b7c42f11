---------------------------- MODULE SqlAdapters ----------------------------
(***************************************************************************)
(* The adapters over database/sql: PostgreSQL, MySQL, SQLite, SQL Server   *)
(* and ClickHouse.  For each of them                                       *)
(*   Pool(max)              the connections its pool may open, 0: any      *)
(*   Parts                  what DiscoverSchema asks of each table         *)
(*   Tables ... RowCount    the outcomes of each metadata query            *)
(*   Operators, Statement(q) the statement that buildQuery makes           *)
(*   Convert(column, v)     a value as it appears in a row, with its type  *)
(*   Execute(q, r)          what Execute returns after reading r           *)
(*   Stream(r), RowStream(r) what is read through a RowStream              *)
(* An unknown operator is taken for equality by all of them.               *)
(***************************************************************************)
EXTENDS Queries

\* A list is one argument, which database/sql does not pass on.
Lists(filters) == \E n \in DOMAIN filters : filters[n].operator \in {"in", "not_in"}

\* The condition of an adapter that knows some operators.
Translated(filters, operators) ==
    Disjuncts([i \in DOMAIN filters |->
                 [filters[i] EXCEPT !.operator = IF @ \in operators THEN @ ELSE "eq"]])

-----------------------------------------------------------------------------
(* PostgreSQL *)

PostgresPool(max) == IF max =< 0 THEN 10 ELSE max

PostgresParts == <<"columns", "key", "refs", "indexes", "count">>

PostgresTables(names, fault)     == Strict(names, fault)
\* Mutant: the error after the last row is not looked at.
PostgresColumnsUnchecked(columns, fault) ==
    IF fault = "broken" THEN {<<some>> : some \in SUBSET columns} ELSE Strict(columns, fault)

PostgresColumns(columns, fault)  == Strict(columns, fault)
PostgresForeignKeys(refs, fault) == Strict(refs, fault)

\* A query that is refused means that there is no key.
PostgresPrimaryKey(key, fault) ==
    IF fault = "refused" THEN {<<{}>>} ELSE Strict(key, fault)

\* Errors are passed over, and so is an index that does not scan.
PostgresIndexes(indexes, fault) ==
    IF fault = "refused" THEN {<<{}>>} ELSE {<<some>> : some \in SUBSET indexes}

PostgresRowCount(count, fault) == IF fault = "none" THEN {<<count>>} ELSE {<<{}>>}

PostgresOperators == Operators

\* The cursor's condition follows the filters' with AND: it restricts only the
\* last of the conditions joined by OR.
PostgresCursor(groups, q) ==
    LET after == [column |-> q.cursorColumn, operator |-> "gt", value |-> q.cursor,
                  logic |-> "and"]
    IN  CASE q.cursor = Null \/ q.cursorColumn = Null -> groups
          [] OTHER -> IF groups = <<>> THEN <<<<after>>>>
                      ELSE [groups EXCEPT ![Len(groups)] = Append(@, after)]

\* Mutant: the order of a query with a cursor is left to the database.
PostgresStatementUnordered(q) ==
    IF q.raw THEN Written(q)
    ELSE Sql(PostgresCursor(Translated(q.filters, PostgresOperators), q),
             q.order, q.limit, q.offset)

PostgresStatement(q) ==
    IF q.raw THEN Written(q)
    ELSE Sql(PostgresCursor(Translated(q.filters, PostgresOperators), q),
             IF q.order = <<>> /\ q.cursorColumn # Null
             THEN <<[column |-> q.cursorColumn, direction |-> "asc"]>> ELSE q.order,
             q.limit, q.offset)

\* A time is formatted to the second.
PostgresConvert(column, v) ==
    CASE column = "at" -> <<"text", 2 * (v \div 2)>>
      [] column = "id" -> <<"integer", v>>
      [] OTHER -> <<"text", v>>

\* A full page has a successor, and a cursor if it has the cursor's column.
PostgresExecute(q, r) ==
    LET full == q.limit > 0 /\ Len(r.rows) = q.limit
        next == IF full /\ q.cursorColumn \in q.columns
                THEN PostgresConvert(q.cursorColumn,
                                     Field(Last(r.rows), q.cursorColumn))[2]
                ELSE Null
    IN  IF r.end = "whole" THEN Page(r.rows, full, next) ELSE Failed

PostgresRowStream(r) == IF r.end = "broken" THEN Failed ELSE Page(r.rows, FALSE, Null)

PostgresStream(r) == IF r.end = "refused" THEN Failed ELSE PostgresRowStream(r)

\* The plan's lines are read like rows.
PostgresExplain(r) == IF r.end = "whole" THEN Page(<<>>, FALSE, Null) ELSE Failed

-----------------------------------------------------------------------------
(* MySQL *)

MySqlPool(max) == IF max = 0 THEN 10 ELSE max

MySqlParts == <<"columns", "key", "refs", "indexes", "count">>

MySqlTables(names, fault)     == Strict(names, fault)
MySqlColumns(columns, fault)  == Strict(columns, fault)
MySqlPrimaryKey(key, fault)   == Strict(key, fault)
MySqlForeignKeys(refs, fault) == Strict(refs, fault)
MySqlIndexes(indexes, fault)  == Strict(indexes, fault)
MySqlRowCount(count, fault)   == IF fault = "none" THEN {<<count>>} ELSE {<<{}>>}

MySqlOperators == Operators

\* Mutant: LIMIT without OFFSET.
MySqlStatementNoOffset(q) ==
    IF q.raw THEN Written(q)
    ELSE Sql(Translated(q.filters, MySqlOperators), q.order, q.limit, 0)

\* Cursors are not known.  OFFSET needs LIMIT.
MySqlStatement(q) ==
    IF q.raw THEN Written(q)
    ELSE [Sql(Translated(q.filters, MySqlOperators), q.order, q.limit, q.offset)
            EXCEPT !.valid = ~Lists(q.filters) /\ (q.offset = 0 \/ q.limit > 0)]

MySqlConvert(column, v) ==
    CASE column = "at" -> <<"time", v>>
      [] column = "id" -> <<"integer", v>>
      [] OTHER -> <<"text", v>>

\* Mutant: the error after the last row is not looked at.
MySqlExecuteUnchecked(r) == IF r.end = "refused" THEN Failed ELSE Page(r.rows, FALSE, Null)

\* HasMore and NextCursor are never set.
MySqlExecute(r) == IF r.end = "whole" THEN Page(r.rows, FALSE, Null) ELSE Failed

MySqlRowStream(r) == IF r.end = "broken" THEN Failed ELSE Page(r.rows, FALSE, Null)

MySqlStream(r) == IF r.end = "refused" THEN Failed ELSE MySqlRowStream(r)

-----------------------------------------------------------------------------
(* SQLite *)

SqlitePool(max) == IF max = 0 THEN 1 ELSE max

SqliteParts == <<"columns", "key", "indexes", "count">>

SqliteTables(names, fault)    == Strict(names, fault)
SqliteColumns(columns, fault) == Strict(columns, fault)
SqlitePrimaryKey(key, fault)  == Strict(key, fault)
SqliteRowCount(count, fault)  == IF fault = "none" THEN {<<count>>} ELSE {<<{}>>}

SqliteIndexes(indexes, fault) == Strict(indexes, fault)

\* While the list of indexes is open, the columns of each index are queried.  An
\* index whose columns cannot be queried is left out.
SqliteIndexColumns(indexes, fault) ==
    IF fault = "refused" THEN {<<some>> : some \in SUBSET indexes} ELSE {<<indexes>>}

SqliteOperators == Operators \ {"ilike", "not_in"}

SqliteStatement(q) ==
    IF q.raw THEN Written(q)
    ELSE [Sql(Translated(q.filters, SqliteOperators), q.order, q.limit, q.offset)
            EXCEPT !.valid = ~Lists(q.filters) /\ (q.offset = 0 \/ q.limit > 0)]

SqliteConvert(column, v) ==
    CASE column = "at" -> <<"time", v>>
      [] column = "id" -> <<"integer", v>>
      [] OTHER -> <<"text", v>>

SqliteExecute(r) == IF r.end = "whole" THEN Page(r.rows, FALSE, Null) ELSE Failed

SqliteRowStream(r) == IF r.end = "broken" THEN Failed ELSE Page(r.rows, FALSE, Null)

SqliteStream(r) == IF r.end = "refused" THEN Failed ELSE SqliteRowStream(r)

-----------------------------------------------------------------------------
(* SQL Server *)

SqlServerPool(max) == IF max = 0 THEN 10 ELSE max

SqlServerParts == <<"columns", "key", "indexes", "count">>

SqlServerTables(names, fault)    == Strict(names, fault)
SqlServerColumns(columns, fault) == Strict(columns, fault)
SqlServerPrimaryKey(key, fault)  == Strict(key, fault)
SqlServerIndexes(indexes, fault) == Strict(indexes, fault)
SqlServerRowCount(count, fault)  == IF fault = "none" THEN {<<count>>} ELSE {<<{}>>}

SqlServerOperators == Operators \ {"ilike", "in", "not_in"}

\* Without ORDER BY there is TOP and no OFFSET.  The registered name of a table
\* is schema.table, which is quoted as one identifier: there is no such table.
SqlServerStatement(q) ==
    IF q.raw THEN Written(q)
    ELSE [Sql(Translated(q.filters, SqlServerOperators), q.order, q.limit,
              IF q.order = <<>> THEN 0 ELSE q.offset)
            EXCEPT !.valid = FALSE]

SqlServerConvert(column, v) ==
    CASE column = "at" -> <<"time", v>>
      [] column = "id" -> <<"integer", v>>
      [] OTHER -> <<"text", v>>

\* The error after the last row is not looked at.
SqlServerExecute(r) == IF r.end = "refused" THEN Failed ELSE Page(r.rows, FALSE, Null)

SqlServerRowStream(r) == IF r.end = "broken" THEN Failed ELSE Page(r.rows, FALSE, Null)

SqlServerStream(r) == IF r.end = "refused" THEN Failed ELSE SqlServerRowStream(r)

-----------------------------------------------------------------------------
(* ClickHouse *)

ClickHousePool(max) == IF max = 0 THEN 10 ELSE max

ClickHouseParts == <<"columns", "count">>

ClickHouseTables(names, fault)    == Strict(names, fault)
ClickHouseColumns(columns, fault) == Strict(columns, fault)
ClickHouseRowCount(count, fault)  == IF fault = "none" THEN {<<count>>} ELSE {<<{}>>}

ClickHouseOperators == Operators \ {"ilike", "not_in"}

ClickHouseStatement(q) ==
    IF q.raw THEN Written(q)
    ELSE Sql(Translated(q.filters, ClickHouseOperators), q.order, q.limit, q.offset)

ClickHouseConvert(column, v) ==
    CASE column = "at" -> <<"time", v>>
      [] column = "id" -> <<"integer", v>>
      [] OTHER -> <<"text", v>>

\* The error after the last row is not looked at.
ClickHouseExecute(r) == IF r.end = "refused" THEN Failed ELSE Page(r.rows, FALSE, Null)

ClickHouseRowStream(r) == IF r.end = "broken" THEN Failed ELSE Page(r.rows, FALSE, Null)

ClickHouseStream(r) == IF r.end = "refused" THEN Failed ELSE ClickHouseRowStream(r)
=============================================================================
