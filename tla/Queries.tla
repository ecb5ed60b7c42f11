------------------------------ MODULE Queries ------------------------------
(***************************************************************************)
(* What the adapters of internal/adapter have in common: the query they    *)
(* are given, the statement they make of it, and what a database answers.  *)
(*                                                                         *)
(* The rows of the one table that is queried are represented by their IDs. *)
(* A row has three columns: its ID, an instant in half seconds, and a      *)
(* group, which may be null.  Joins, aggregations and raw text go to the   *)
(* database as they are and are left out.                                  *)
(***************************************************************************)
EXTENDS Integers, SequencesExt

CONSTANTS
    Ids,   \* the rows that may exist
    At,    \* the instant of each
    Group, \* the group of each
    Null   \* no value, no cursor, no column

Columns == {"id", "at", "grp"}

ASSUME QueriesAssumption ==
    /\ Ids \subseteq Nat
    /\ At \in [Ids -> Nat]
    /\ DOMAIN Group = Ids
    /\ Null \notin Nat /\ Null \notin Columns

\* The table that is queried; Redis calls it _keys, and CouchDB _all_docs.
Main == "main"

Field(i, column) ==
    CASE column = "id"  -> i
      [] column = "at"  -> At[i]
      [] column = "grp" -> Group[i]

\* The operators a Filter may name.
Operators == {"eq", "ne", "gt", "gte", "lt", "lte", "like", "ilike", "in", "not_in",
              "is_null", "is_not_null"}

\* A query for a first page; raw: it is text, which says the same.
Query(columns, filters, order, limit, cursorColumn, raw) ==
    [columns |-> columns, filters |-> filters, order |-> order, limit |-> limit,
     offset |-> 0, cursor |-> Null, cursorColumn |-> cursorColumn, raw |-> raw]

-----------------------------------------------------------------------------
(* Statements *)

Caseless(v) == IF v = "A" THEN "a" ELSE v

\* The comparison that an operator stands for, of two values that are not null.
Compares(operator, v, w) ==
    CASE operator \in {"eq", "like"} -> v = w
      [] operator = "ne"     -> v # w
      [] operator = "gt"     -> v > w
      [] operator = "gte"    -> v >= w
      [] operator = "lt"     -> v < w
      [] operator = "lte"    -> v =< w
      [] operator = "ilike"  -> Caseless(v) = Caseless(w)
      [] operator = "in"     -> v \in w
      [] operator = "not_in" -> v \notin w

\* SQL: a comparison with null does not hold.
SqlHolds(f, i) ==
    LET v == Field(i, f.column) IN
    CASE f.operator = "is_null"     -> v = Null
      [] f.operator = "is_not_null" -> v # Null
      [] OTHER -> v # Null /\ f.value # Null /\ Compares(f.operator, v, f.value)

\* Documents: null is a value like others.
DocumentHolds(f, i) ==
    LET v == Field(i, f.column) IN
    CASE f.operator = "eq" -> v = f.value
      [] f.operator = "ne" -> v # f.value
      [] OTHER -> v # Null /\ f.value # Null /\ Compares(f.operator, v, f.value)

\* Conditions joined by AND and OR without parentheses: AND binds more tightly.
Disjuncts(filters) ==
    FoldLeft(LAMBDA groups, f :
               IF groups = <<>> \/ f.logic = "or"
               THEN Append(groups, <<f>>)
               ELSE [groups EXCEPT ![Len(groups)] = Append(@, f)],
             <<>>, filters)

Conjunction(conditions) == IF conditions = {} THEN <<>> ELSE <<SetToSeq(conditions)>>

\* groups: an OR of ANDs, empty for no condition; limit 0: none; valid: the
\* database knows the table and the syntax; documents: how null compares.
Sql(groups, order, limit, offset) ==
    [groups |-> groups, order |-> order, limit |-> limit, offset |-> offset,
     valid |-> TRUE, documents |-> FALSE]

Documents(groups, order, limit, offset) ==
    [Sql(groups, order, limit, offset) EXCEPT !.documents = TRUE]

Written(q) == Sql(Disjuncts(q.filters), q.order, q.limit, q.offset)

-----------------------------------------------------------------------------
(* The database *)

Matches(s, i) ==
    \/ s.groups = <<>>
    \/ \E g \in Range(s.groups) : \A f \in Range(g) :
          IF s.documents THEN DocumentHolds(f, i) ELSE SqlHolds(f, i)

\* Row i may come before row j.
InOrder(order, i, j) ==
    \/ \A k \in DOMAIN order : Field(i, order[k].column) = Field(j, order[k].column)
    \/ \E k \in DOMAIN order :
         /\ \A h \in 1..(k - 1) : Field(i, order[h].column) = Field(j, order[h].column)
         /\ LET v == Field(i, order[k].column)
                w == Field(j, order[k].column)
            IN  IF order[k].direction = "desc" THEN v > w ELSE v < w

\* The rows in every order that the statement allows.
Arrangements(order, rows) ==
    FoldSet(LAMBDA i, sequences :
              UNION {{InsertAt(s, k, i) :
                        k \in {k \in 1..(Len(s) + 1) :
                                \A j \in DOMAIN s : IF j < k THEN InOrder(order, s[j], i)
                                                   ELSE InOrder(order, i, s[j])}} :
                     s \in sequences},
            {<<>>}, rows)

\* The answers the database may give: rows without an order come in any order.
Answers(s, table) ==
    {SubSeq(all, s.offset + 1,
            IF s.limit = 0 \/ s.offset + s.limit > Len(all) THEN Len(all)
            ELSE s.offset + s.limit) :
       all \in Arrangements(s.order, {i \in table : Matches(s, i)})}

-----------------------------------------------------------------------------
(* Results *)

\* A reading of an answer: the rows read, how many rows match, and whether the answer
\* is "whole" or "broken" off, the database "refused", or it was "unreached".
Reading(rows, total, end) == [rows |-> rows, total |-> total, end |-> end]

Page(rows, more, next) == [ok |-> TRUE, rows |-> rows, more |-> more, next |-> next]

Failed == [ok |-> FALSE, rows |-> <<>>, more |-> FALSE, next |-> Null]

-----------------------------------------------------------------------------
(* Discovery: the outcomes of a metadata query whose whole answer is v.  An *)
(* outcome is <<>> for an error, or <<w>>.                                  *)

\* Any fault is an error.
Strict(v, fault) == IF fault = "none" THEN {<<v>>} ELSE {<<>>}

\* A fault leaves out what was not read.
Optional(v, fault) ==
    CASE fault = "none"    -> {<<v>>}
      [] fault = "refused" -> {<<{}>>}
      [] fault = "broken"  -> {<<w>> : w \in SUBSET v}
=============================================================================
