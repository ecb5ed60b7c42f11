----------------------------- MODULE CrossJoin -----------------------------
(***************************************************************************)
(* internal/query/crossjoin.go: the hash join of two results.  A row is a  *)
(* function of its columns; a value is compared as Go compares interfaces, *)
(* by type and value, and Null is nil; others are pairs of a type and a    *)
(* value, which of a "map" is a function.  A column of the result is a     *)
(* pair <<alias, column>>.                                                 *)
(***************************************************************************)
EXTENDS Queries

CONSTANT Dotted \* the parts of each name with dots

IsMap(v) == v # Null /\ v[1] = "map"

Split(column) == IF column \in DOMAIN Dotted THEN Dotted[column] ELSE <<column>>

\* A column of this name, or else the end of the path through nested maps; nil if a map
\* lacks the next part, or the value before it is not a map.
GetColumnValue(row, column) ==
    IF column \in DOMAIN row THEN row[column]
    ELSE FoldLeft(LAMBDA current, part :
                    IF IsMap(current) /\ part \in DOMAIN current[2] THEN current[2][part]
                    ELSE Null,
                  <<"map", row>>, Split(column))

\* Go has no hash of a map: a row that has one for its key panics when the row is indexed
\* or looked up.
Unhashable(rows, key) == \E n \in DOMAIN rows : IsMap(GetColumnValue(rows[n], key))

\* The rows of each value of the key, in their order; nil has none.
BuildHashIndex(rows, key) ==
    [v \in {GetColumnValue(rows[n], key) : n \in DOMAIN rows} \ {Null} |->
       FlattenSeq([n \in DOMAIN rows |->
                     IF GetColumnValue(rows[n], key) = v THEN <<rows[n]>> ELSE <<>>])]

BuildMergedColumns(leftColumns, rightColumns, leftAlias, rightAlias) ==
    ({leftAlias} \X leftColumns) \cup ({rightAlias} \X rightColumns)

\* The right row is written last: it wins where the aliases are the same.
MergeRows(left, right, leftAlias, rightAlias) ==
    [c \in BuildMergedColumns(DOMAIN left, DOMAIN right, leftAlias, rightAlias) |->
       IF c[1] = rightAlias /\ c[2] \in DOMAIN right THEN right[c[2]] ELSE left[c[2]]]

\* The rows of the left with those of the right, where the index has some.
Merged(row, index, key, leftAlias, rightAlias) ==
    LET v == GetColumnValue(row, key)
    IN  IF v \in DOMAIN index
        THEN [n \in DOMAIN index[v] |-> MergeRows(row, index[v][n], leftAlias, rightAlias)]
        ELSE <<>>

InnerJoin(leftRows, rightIndex, leftKey, leftAlias, rightAlias) ==
    FlattenSeq([n \in DOMAIN leftRows |->
                  Merged(leftRows[n], rightIndex, leftKey, leftAlias, rightAlias)])

\* Mutant: a row whose key is nil is dropped, as in the inner join.
LeftJoinNoNil(leftRows, rightIndex, rightColumns, leftKey, leftAlias, rightAlias) ==
    InnerJoin(leftRows, rightIndex, leftKey, leftAlias, rightAlias)

LeftJoin(leftRows, rightIndex, rightColumns, leftKey, leftAlias, rightAlias) ==
    LET nils == [c \in rightColumns |-> Null]
        WithNils(row) ==
          LET merged == Merged(row, rightIndex, leftKey, leftAlias, rightAlias)
          IN  IF merged # <<>> THEN merged
              ELSE <<MergeRows(row, nils, leftAlias, rightAlias)>>
    IN  FlattenSeq([n \in DOMAIN leftRows |-> WithNils(leftRows[n])])

\* An inner join unless another is asked for; the right join is the left join
\* of the swapped results.
CrossJoin(cfg) ==
    IF cfg.leftKey = "" \/ cfg.rightKey = "" THEN Failed ELSE
    CASE cfg.type \in {"", "inner"} ->
           Page(InnerJoin(cfg.left, BuildHashIndex(cfg.right, cfg.rightKey), cfg.leftKey,
                          cfg.leftAlias, cfg.rightAlias), FALSE, Null)
      [] cfg.type = "left" ->
           Page(LeftJoin(cfg.left, BuildHashIndex(cfg.right, cfg.rightKey),
                         cfg.rightColumns, cfg.leftKey, cfg.leftAlias, cfg.rightAlias),
                FALSE, Null)
      [] cfg.type = "right" ->
           Page(LeftJoin(cfg.right, BuildHashIndex(cfg.left, cfg.leftKey),
                         cfg.leftColumns, cfg.rightKey, cfg.rightAlias, cfg.leftAlias),
                FALSE, Null)
      [] OTHER -> Failed

\* The right rows are indexed before the type is looked at.
CrossJoinPanics(cfg) ==
    /\ cfg.leftKey # "" /\ cfg.rightKey # ""
    /\ \/ Unhashable(cfg.right, cfg.rightKey)
       \/ cfg.type \in {"", "inner", "left", "right"} /\ Unhashable(cfg.left, cfg.leftKey)

-----------------------------------------------------------------------------
(* The reference: pairs of rows that agree on a value, and rows without one. *)

\* Two rows, by their positions.
Agree(cfg, m, n) ==
    LET v == GetColumnValue(cfg.left[m], cfg.leftKey)
    IN  v # Null /\ v = GetColumnValue(cfg.right[n], cfg.rightKey)

AgreeingPairs(cfg) ==
    {p \in (DOMAIN cfg.left) \X (DOMAIN cfg.right) : Agree(cfg, p[1], p[2])}

\* The positions of the rows that are joined; 0: none.
JoinedPairs(cfg) ==
    LET lone(kind, rows, side) ==
          IF cfg.type # kind THEN {}
          ELSE {n \in DOMAIN rows : \A p \in AgreeingPairs(cfg) : p[side] # n}
    IN  AgreeingPairs(cfg) \cup (lone("left", cfg.left, 1) \X {0})
                           \cup ({0} \X lone("right", cfg.right, 2))

\* The row made of a pair, for aliases that differ.
JoinedRow(cfg, p) ==
    LET Value(rows, n, column) == IF n = 0 THEN Null ELSE rows[n][column]
    IN  [c \in BuildMergedColumns(cfg.leftColumns, cfg.rightColumns,
                                  cfg.leftAlias, cfg.rightAlias) |->
           IF c[1] = cfg.leftAlias THEN Value(cfg.left, p[1], c[2])
           ELSE Value(cfg.right, p[2], c[2])]

\* Whether rows are exactly those pairs: each once, value for value.
IsJoin(cfg, rows) ==
    LET Occurrences(row) == Cardinality({n \in DOMAIN rows : rows[n] = row})
    IN  /\ Len(rows) = Cardinality(JoinedPairs(cfg))
        /\ \A p \in JoinedPairs(cfg) :
             Occurrences(JoinedRow(cfg, p))
               = Cardinality({o \in JoinedPairs(cfg) : JoinedRow(cfg, o) = JoinedRow(cfg, p)})
=============================================================================
