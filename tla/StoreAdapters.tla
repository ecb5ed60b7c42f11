--------------------------- MODULE StoreAdapters ---------------------------
(***************************************************************************)
(* The adapters that do not use database/sql: MongoDB, Elasticsearch,      *)
(* Redis, Cassandra, Neo4j, CouchDB and InfluxDB.  The names of the        *)
(* operators are those of SqlAdapters.  Except for MongoDB's, a row stream *)
(* holds the result of Execute in memory and never reports an error.       *)
(*                                                                         *)
(* Raw text is for Cassandra, Neo4j and InfluxDB; raw commands of Redis    *)
(* are left out.  Filters are on the group, a text: the values that        *)
(* Cassandra, Neo4j and InfluxDB are given are always quoted.              *)
(***************************************************************************)
EXTENDS Queries

CONSTANT
    MainKey \* the row whose key in Redis is the name of the table; Null: none is

AsEquality(f) == [f EXCEPT !.operator = "eq"]

\* Conditions kept in a map by column: a later one replaces an earlier one.
LastPerColumn(filters) ==
    {filters[k] : k \in {k \in DOMAIN filters :
                            \A h \in DOMAIN filters :
                              filters[h].column = filters[k].column => h =< k}}

-----------------------------------------------------------------------------
(* MongoDB *)

MongoPool(max) == IF max =< 0 THEN 10 ELSE max

MongoParts == <<"columns">>

\* The collections, or an error.
MongoCollections(names, fault) == Strict(names, fault)

\* The fields of a sample.  A refused sample is replaced by a find, which may
\* be refused too; one that breaks off shows no field.
MongoFields(fields, fault) ==
    CASE fault = "none"    -> {<<fields>>}
      [] fault = "refused" -> {<<fields>>, <<>>}
      [] fault = "broken"  -> {<<{}>>}

\* Logic is not looked at, and unknown operators are equality.
MongoStatement(q) ==
    LET Filter(f) == IF f.operator \in {"ne", "gt", "gte", "lt", "lte", "in"}
                     THEN f ELSE AsEquality(f)
    IN  Documents(Conjunction({Filter(f) : f \in LastPerColumn(q.filters)}),
                  q.order, q.limit, q.offset)

MongoConvert(column, v) ==
    CASE column = "at" -> <<"text", 2 * (v \div 2)>>
      [] column = "id" -> <<"integer", v>>
      [] OTHER -> <<"text", v>>

\* The error of cursor.All is not looked at, and All delivers nothing then.
MongoExecute(q, r) ==
    CASE r.end = "refused" -> Failed
      [] r.end \in {"broken", "garbled"} -> Page(<<>>, FALSE, Null)
      [] r.end = "whole"   -> Page(r.rows, q.limit > 0 /\ Len(r.rows) = q.limit, Null)

\* The error of the cursor is looked at, but not that of a document that cannot be decoded
\* ("garbled"), which ends the stream.
MongoRowStream(r) == IF r.end = "broken" THEN Failed ELSE Page(r.rows, FALSE, Null)

MongoStream(r) == IF r.end = "refused" THEN Failed ELSE MongoRowStream(r)

-----------------------------------------------------------------------------
(* Elasticsearch *)

ElasticParts == <<"columns">>

ElasticIndices(names, fault) == Strict(names, fault)

\* The error is not looked at.
ElasticMapping(fields, fault) == IF fault = "none" THEN {<<fields>>} ELSE {<<{}>>}

\* Other operators are left out, and so are LOGIC and the cursor.
ElasticStatement(q) ==
    LET kept == {f \in Range(q.filters) :
                   f.operator \in {"eq", "like", "gt", "gte", "lt", "lte"}}
    IN  Documents(Conjunction(kept), q.order, IF q.limit > 0 THEN q.limit ELSE 10, q.offset)

\* JSON has one type for numbers.
ElasticConvert(column, v) ==
    IF column = "id" THEN <<"float", v>> ELSE <<"text", v>>

\* The status is not looked at: a refusal has no hits.  HasMore counts the rows
\* of this page only.
ElasticExecute(r) ==
    CASE r.end = "refused" -> Page(<<>>, FALSE, Null)
      [] r.end = "broken"  -> Failed
      [] r.end = "whole"   -> Page(r.rows, Len(r.rows) < r.total, Null)

ElasticStream(r) == ElasticExecute(r)

-----------------------------------------------------------------------------
(* Redis *)

RedisPool(max) == IF max = 0 THEN 10 ELSE max

\* The types of the keys scanned, and all keys; the scan ends at the first error.
RedisDiscovery(names, fault) == {<<w[1] \cup {Main}>> : w \in Optional(names, fault)}

\* A scan of the keys from the start, without filters, order or offset.  The table's name
\* is the pattern, so only the key of that name matches.
RedisStatement(q) ==
    Sql(<<<<[column |-> "id", operator |-> "eq", value |-> MainKey, logic |-> "and"]>>>>,
        <<>>, IF q.limit = 0 THEN 100 ELSE q.limit, 0)

\* An error of the scan is returned.  Those of the commands that read the keys are not
\* looked at: their rows have no values, and are not among the rows that were read.
RedisExecute(r) == IF r.end = "refused" THEN Failed ELSE Page(r.rows, FALSE, Null)

RedisStream(r) == RedisExecute(r)

-----------------------------------------------------------------------------
(* Cassandra *)

CassandraParts == <<"columns">>

\* The schema is returned together with the iterator's error.
CassandraTables(names, fault) == Strict(names, fault)

CassandraColumns(columns, fault) == Optional(columns, fault)

CassandraStatement(q) ==
    IF q.raw THEN Written(q)
    ELSE Sql(Conjunction({AsEquality(f) : f \in Range(q.filters)}), <<>>, q.limit, 0)

\* The rows are returned together with the iterator's error.
CassandraExecute(r) == IF r.end = "whole" THEN Page(r.rows, FALSE, Null) ELSE Failed

CassandraStream(r) == CassandraExecute(r)

-----------------------------------------------------------------------------
(* Neo4j *)

Neo4jParts == <<"count">>

\* Errors end the list of labels.
Neo4jLabels(names, fault) == Optional(names, fault)

\* The count of a label's nodes is 0 if it breaks off.
Neo4jRowCount(rows, fault) == Optional(rows, fault)

\* The error is not looked at: without a result there is nothing to call Next of.
Neo4jPanics(part, fault) == part = "count" /\ fault = "refused"

Neo4jStatement(q) ==
    IF q.raw THEN Written(q)
    ELSE Sql(Conjunction({AsEquality(f) : f \in Range(q.filters)}), <<>>, q.limit, 0)

Neo4jExecute(r) == IF r.end = "whole" THEN Page(r.rows, FALSE, Null) ELSE Failed

Neo4jStream(r) == Neo4jExecute(r)

-----------------------------------------------------------------------------
(* CouchDB *)

\* One collection, _all_docs.  The status is not looked at: a refusal is an error
\* only when there is no response.
CouchDiscovery(fault) == {<<{Main}>>} \cup (IF fault = "refused" THEN {<<>>} ELSE {})

\* _find without sort and skip; the selector is a map by column.
CouchStatement(q) ==
    Documents(Conjunction({AsEquality(f) : f \in LastPerColumn(q.filters)}), <<>>,
              IF q.limit = 0 THEN 25 ELSE q.limit, 0)

\* Neither the status nor the errors of reading and decoding are looked at.
CouchExecute(r) ==
    IF r.end = "whole" THEN Page(r.rows, FALSE, Null) ELSE Page(<<>>, FALSE, Null)

CouchStream(r) == CouchExecute(r)

-----------------------------------------------------------------------------
(* InfluxDB *)

\* Errors end the list of measurements.
InfluxMeasurements(names, fault) == Optional(names, fault)

\* The last hour's records, in no order.
InfluxStatement(q) ==
    IF q.raw THEN Written(q)
    ELSE Sql(Conjunction({AsEquality(f) : f \in Range(q.filters)}), <<>>, q.limit, 0)

InfluxExecute(r) == IF r.end = "whole" THEN Page(r.rows, FALSE, Null) ELSE Failed

InfluxStream(r) == InfluxExecute(r)
=============================================================================
