------------------------------ MODULE Adapters ------------------------------
(***************************************************************************)
(* The interface adapter.Adapter: each operation, of the kind of adapter   *)
(* that a database has.                                                    *)
(***************************************************************************)
EXTENDS SqlAdapters, StoreAdapters

SqlKinds == {"postgres", "mysql", "sqlite", "sqlserver", "clickhouse"}

Kinds == SqlKinds \cup {"mongodb", "elasticsearch", "redis", "cassandra", "neo4j",
                        "couchdb", "influxdb"}

\* The connections that may be open at a time; 0: any number.
Pool(kind, max) ==
    CASE kind = "postgres"   -> PostgresPool(max)
      [] kind = "mysql"      -> MySqlPool(max)
      [] kind = "sqlite"     -> SqlitePool(max)
      [] kind = "sqlserver"  -> SqlServerPool(max)
      [] kind = "clickhouse" -> ClickHousePool(max)
      [] kind = "mongodb"    -> MongoPool(max)
      [] kind = "redis"      -> RedisPool(max)
      [] OTHER -> 0

\* What is asked of each table, one statement after another.
Parts(kind) ==
    CASE kind = "postgres"      -> PostgresParts
      [] kind = "mysql"         -> MySqlParts
      [] kind = "sqlite"        -> SqliteParts
      [] kind = "sqlserver"     -> SqlServerParts
      [] kind = "clickhouse"    -> ClickHouseParts
      [] kind = "mongodb"       -> MongoParts
      [] kind = "elasticsearch" -> ElasticParts
      [] kind = "cassandra"     -> CassandraParts
      [] kind = "neo4j"         -> Neo4jParts
      [] OTHER -> <<>>

\* The outcomes of asking for the names of the tables.
Listing(kind, names, fault) ==
    CASE kind = "postgres"      -> PostgresTables(names, fault)
      [] kind = "mysql"         -> MySqlTables(names, fault)
      [] kind = "sqlite"        -> SqliteTables(names, fault)
      [] kind = "sqlserver"     -> SqlServerTables(names, fault)
      [] kind = "clickhouse"    -> ClickHouseTables(names, fault)
      [] kind = "mongodb"       -> MongoCollections(names, fault)
      [] kind = "elasticsearch" -> ElasticIndices(names, fault)
      [] kind = "redis"         -> RedisDiscovery(names, fault)
      [] kind = "cassandra"     -> CassandraTables(names, fault)
      [] kind = "neo4j"         -> Neo4jLabels(names, fault)
      [] kind = "couchdb"       -> CouchDiscovery(fault)
      [] kind = "influxdb"      -> InfluxMeasurements(names, fault)

\* The outcomes of asking for a part of a table, which is v.
Part(kind, part, v, fault) ==
    CASE part = "columns" ->
           (CASE kind = "postgres"      -> PostgresColumns(v, fault)
              [] kind = "mysql"         -> MySqlColumns(v, fault)
              [] kind = "sqlite"        -> SqliteColumns(v, fault)
              [] kind = "sqlserver"     -> SqlServerColumns(v, fault)
              [] kind = "clickhouse"    -> ClickHouseColumns(v, fault)
              [] kind = "mongodb"       -> MongoFields(v, fault)
              [] kind = "elasticsearch" -> ElasticMapping(v, fault)
              [] kind = "cassandra"     -> CassandraColumns(v, fault))
      [] part = "key" ->
           (CASE kind = "postgres"  -> PostgresPrimaryKey(v, fault)
              [] kind = "mysql"     -> MySqlPrimaryKey(v, fault)
              [] kind = "sqlite"    -> SqlitePrimaryKey(v, fault)
              [] kind = "sqlserver" -> SqlServerPrimaryKey(v, fault))
      [] part = "refs" ->
           (CASE kind = "postgres" -> PostgresForeignKeys(v, fault)
              [] kind = "mysql"    -> MySqlForeignKeys(v, fault))
      [] part = "indexes" ->
           (CASE kind = "postgres"  -> PostgresIndexes(v, fault)
              [] kind = "mysql"     -> MySqlIndexes(v, fault)
              [] kind = "sqlite"    -> SqliteIndexes(v, fault)
              [] kind = "sqlserver" -> SqlServerIndexes(v, fault))
      [] part = "count" ->
           (CASE kind = "postgres"   -> PostgresRowCount(v, fault)
              [] kind = "mysql"      -> MySqlRowCount(v, fault)
              [] kind = "sqlite"     -> SqliteRowCount(v, fault)
              [] kind = "sqlserver"  -> SqlServerRowCount(v, fault)
              [] kind = "clickhouse" -> ClickHouseRowCount(v, fault)
              [] kind = "neo4j"      -> Neo4jRowCount(v, fault))

\* Whether the program panics when a part is asked for.
Panics(kind, part, fault) == kind = "neo4j" /\ Neo4jPanics(part, fault)

\* How an answer may end early.
Breaks(kind) == IF kind = "mongodb" THEN {"broken", "garbled"} ELSE {"broken"}

\* The statement made of a query.
Statement(kind, q) ==
    CASE kind = "postgres"      -> PostgresStatement(q)
      [] kind = "mysql"         -> MySqlStatement(q)
      [] kind = "sqlite"        -> SqliteStatement(q)
      [] kind = "sqlserver"     -> SqlServerStatement(q)
      [] kind = "clickhouse"    -> ClickHouseStatement(q)
      [] kind = "mongodb"       -> MongoStatement(q)
      [] kind = "elasticsearch" -> ElasticStatement(q)
      [] kind = "redis"         -> RedisStatement(q)
      [] kind = "cassandra"     -> CassandraStatement(q)
      [] kind = "neo4j"         -> Neo4jStatement(q)
      [] kind = "couchdb"       -> CouchStatement(q)
      [] kind = "influxdb"      -> InfluxStatement(q)

\* What Execute returns for a query and a reading of its answer.  Without an answer
\* there is an error.
Execute(kind, q, r) ==
    IF r.end = "unreached" THEN Failed ELSE
    CASE kind = "postgres"      -> PostgresExecute(q, r)
      [] kind = "mysql"         -> MySqlExecute(r)
      [] kind = "sqlite"        -> SqliteExecute(r)
      [] kind = "sqlserver"     -> SqlServerExecute(r)
      [] kind = "clickhouse"    -> ClickHouseExecute(r)
      [] kind = "mongodb"       -> MongoExecute(q, r)
      [] kind = "elasticsearch" -> ElasticExecute(r)
      [] kind = "redis"         -> RedisExecute(r)
      [] kind = "cassandra"     -> CassandraExecute(r)
      [] kind = "neo4j"         -> Neo4jExecute(r)
      [] kind = "couchdb"       -> CouchExecute(r)
      [] kind = "influxdb"      -> InfluxExecute(r)

\* What is read through the RowStream of Stream.
Stream(kind, q, r) ==
    IF r.end = "unreached" THEN Failed ELSE
    CASE kind = "postgres"      -> PostgresStream(r)
      [] kind = "mysql"         -> MySqlStream(r)
      [] kind = "sqlite"        -> SqliteStream(r)
      [] kind = "sqlserver"     -> SqlServerStream(r)
      [] kind = "clickhouse"    -> ClickHouseStream(r)
      [] kind = "mongodb"       -> MongoStream(r)
      [] kind = "elasticsearch" -> ElasticStream(r)
      [] kind = "redis"         -> RedisStream(r)
      [] kind = "cassandra"     -> CassandraStream(r)
      [] kind = "neo4j"         -> Neo4jStream(r)
      [] kind = "couchdb"       -> CouchStream(r)
      [] kind = "influxdb"      -> InfluxStream(r)

\* A value of a row, with its Go type, as far as a join of two databases tells.
Convert(kind, column, v) ==
    IF v = Null THEN Null ELSE
    CASE kind = "postgres"      -> PostgresConvert(column, v)
      [] kind = "mysql"         -> MySqlConvert(column, v)
      [] kind = "sqlite"        -> SqliteConvert(column, v)
      [] kind = "sqlserver"     -> SqlServerConvert(column, v)
      [] kind = "clickhouse"    -> ClickHouseConvert(column, v)
      [] kind = "mongodb"       -> MongoConvert(column, v)
      [] kind = "elasticsearch" -> ElasticConvert(column, v)
      [] OTHER -> <<"text", v>>
=============================================================================
