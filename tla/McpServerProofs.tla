-------------------------- MODULE McpServerProofs --------------------------
(***************************************************************************)
(* The MCP server, for any requests, rows, faults and callers: the tools   *)
(* that reach a database, and the loop on stdin.                           *)
(*                                                                         *)
(* The callers of the tools share the databases only, so the invariant     *)
(* ToolsInv says of each call by itself what it has: of a call that reads, *)
(* that the rows read and the rows left are those of the database; of an   *)
(* export, that there is no file before its end; of a discovery, that what *)
(* is found is true or still to be asked.  A step of one caller (Moves)    *)
(* leaves the others alone, except that a fault may happen, after which    *)
(* less is asked of all (CallWeakens).  JoinInv adds what a join was made  *)
(* of; that the hash join itself is right is CrossJoinOK.  CursorInv and   *)
(* OffsetInv add what the pages of a query have shown so far, by cursor    *)
(* and by offset; of the adapters they need only what their statement for  *)
(* a page asks (CursorStatement, OffsetStatement) and what their answer    *)
(* says of more (CursorOfPage, OffsetPage).                                *)
(***************************************************************************)
EXTENDS QueryTools, StdioServer, DataTheorems

-----------------------------------------------------------------------------
(* Lists of anything *)

LEMMA ListAppend ==
  ASSUME NEW s, IsList(s), NEW e
  PROVE  /\ IsList(Append(s, e))
         /\ Len(s) \in Nat /\ Len(Append(s, e)) = Len(s) + 1
         /\ DOMAIN s = 1 .. Len(s) /\ DOMAIN Append(s, e) = 1 .. Len(s) + 1
         /\ \A i \in 1 .. Len(s) : Append(s, e)[i] = s[i]
         /\ Append(s, e)[Len(s) + 1] = e
<1> DEFINE S == Range(s) \cup {e}
           r == Append(s, e)
<1>1. s \in Seq(S) /\ e \in S
  <2>1. s \in Seq(Range(s)) /\ Range(s) \subseteq S
    BY DEF IsList
  <2> HIDE DEF S
  <2>2. s \in [1 .. Len(s) -> S] /\ Len(s) \in Nat
    BY <2>1, LenProperties
  <2>3. e \in S
    BY DEF S
  <2> QED
    BY <2>2, <2>3
<1> HIDE DEF S
<1>2. /\ r \in Seq(S) /\ Len(s) \in Nat /\ Len(r) = Len(s) + 1
      /\ DOMAIN s = 1 .. Len(s) /\ DOMAIN r = 1 .. Len(s) + 1
      /\ \A i \in 1 .. Len(s) : r[i] = s[i]
      /\ r[Len(s) + 1] = e
  BY <1>1, AppendProperties, LenProperties
<1>3. r \in Seq(Range(r))
  <2> HIDE DEF r
  <2>1. r \in [1 .. Len(s) + 1 -> Range(r)] /\ Len(s) + 1 \in Nat
    BY <1>2 DEF Range
  <2> QED
    BY <2>1
<1> QED
  BY <1>2, <1>3 DEF IsList

-----------------------------------------------------------------------------
(* The calls *)

Fields == {"phase", "n", "query", "left", "got", "total", "whole", "results", "answer",
           "pages", "found", "todo"}

\* The tools whose answers are judged.
ReadTools == {"execute_query", "stream_query", "multi_source_query", "cross_db_join"}

\* A result has the rows that there were, or comes of an adapter that takes a part for the whole.
IsWhole(request, n, p, rows) ==
    request.reads[n].kind \in Lenient(request.tool) \/ p.rows = rows

\* What the call x for a request has of the answers.
CallOK(x, request) ==
    /\ DOMAIN x = Fields
    /\ x.phase \in {"waiting", "open", "done", "panicked"}
    /\ DOMAIN x.whole = DOMAIN request.reads
    /\ x.n \in DOMAIN request.reads /\ IsQuery(x.query)
    /\ x.phase \notin {"done", "panicked"} => IsList(x.results) /\ Len(x.results) = x.n - 1
    /\ x.phase = "waiting" => x.got = <<>>
    /\ x.phase = "open" =>
         /\ x.got \in Seq(Ids) /\ x.left \in Seq(Ids)
         /\ x.got \o x.left = x.whole[x.n]
         /\ request.tool # "stream_query" => x.got = <<>>
         /\ request.reads[x.n].kind \notin SqlKinds \cup {"mongodb"} => x.got = <<>>
    /\ request.tool \in ReadTools /\ (x.phase # "done" \/ x.answer.ok) =>
         \A m \in DOMAIN x.results :
           m \in DOMAIN request.reads /\ IsWhole(request, m, x.results[m], x.whole[m])

LEMMA RequestFacts ==
  ASSUME NEW r, IsRequest(r)
  PROVE  Len(r.reads) \in Nat /\ Len(r.reads) >= 1 /\ DOMAIN r.reads = 1 .. Len(r.reads)
BY LenProperties DEF IsRequest

LEMMA WaitingOK ==
  ASSUME NEW r, IsRequest(r), NEW q, IsQuery(q), NEW pages
  PROVE  /\ CallOK(Waiting(r), r)
         /\ CallOK([Waiting(r) EXCEPT !.query = q, !.pages = pages], r)
<1>1. 1 \in DOMAIN r.reads /\ IsQuery(r.reads[1].query)
  BY RequestFacts DEF IsRequest
<1>2. IsList(<<>>) /\ Len(<<>>) = 0 /\ DOMAIN <<>> = {}
  BY DEF IsList
<1> QED
  BY <1>1, <1>2 DEF CallOK, Waiting, Fields

\* A call whose current query was answered.
LEMMA AfterOK ==
  ASSUME NEW c \in Callers, IsRequest(work.requests[c]), CallOK(call[c], work.requests[c]),
         call[c].phase \notin {"done", "panicked"}, NEW p,
         p.ok /\ Tool(c) \in ReadTools =>
           IsWhole(work.requests[c], call[c].n, p, call[c].whole[call[c].n])
  PROVE  CallOK(After(c, p), work.requests[c])
<1> DEFINE x == call[c]
           r == work.requests[c]
           results == Append(x.results, p)
           read == [x EXCEPT !.left = <<>>, !.got = <<>>, !.results = results]
           next == [read EXCEPT !.phase = "waiting", !.n = @ + 1,
                                !.query = r.reads[x.n + 1].query]
           a == Answer(r, results)
           done == [read EXCEPT !.phase = "done", !.answer = a,
                                !.pages = IF a.ok THEN Append(@, a.rows) ELSE @]
           failed == [read EXCEPT !.phase = "done", !.answer = Failed]
           panicked == [read EXCEPT !.phase = "panicked"]
<1>1. /\ DOMAIN x = Fields /\ DOMAIN x.whole = DOMAIN r.reads /\ x.n \in DOMAIN r.reads
      /\ IsQuery(x.query) /\ \A n \in DOMAIN r.reads : IsQuery(r.reads[n].query)
      /\ IsList(x.results) /\ Len(x.results) = x.n - 1
  BY DEF CallOK, IsRequest
<1>2. /\ Len(r.reads) \in Nat /\ DOMAIN r.reads = 1 .. Len(r.reads)
      /\ x.n \in Int /\ 1 <= x.n /\ x.n <= Len(r.reads)
  BY <1>1, RequestFacts
<1>3. /\ IsList(results) /\ Len(results) = x.n /\ DOMAIN results = 1 .. x.n
      /\ \A m \in 1 .. x.n - 1 : m \in DOMAIN x.results /\ results[m] = x.results[m]
      /\ results[x.n] = p
  <2>1. /\ IsList(results) /\ Len(x.results) \in Nat
        /\ DOMAIN x.results = 1 .. Len(x.results) /\ DOMAIN results = 1 .. Len(x.results) + 1
        /\ \A i \in 1 .. Len(x.results) : results[i] = x.results[i]
        /\ results[Len(x.results) + 1] = p /\ Len(results) = Len(x.results) + 1
    BY <1>1, ListAppend
  <2> HIDE DEF results, x, r
  <2> QED
    BY <1>1, <1>2, <2>1
<1>4. p.ok /\ Tool(c) \in ReadTools =>
        \A m \in DOMAIN results : m \in DOMAIN r.reads /\ IsWhole(r, m, results[m], x.whole[m])
  <2> SUFFICES ASSUME p.ok, Tool(c) \in ReadTools, NEW m \in DOMAIN results
               PROVE  m \in DOMAIN r.reads /\ IsWhole(r, m, results[m], x.whole[m])
    OBVIOUS
  <2>1. CASE m = x.n
    BY <1>1, <1>3, <2>1
  <2>2. CASE m # x.n
    <3>1. m \in DOMAIN x.results /\ results[m] = x.results[m]
      BY <1>2, <1>3, <2>2
    <3> QED
      BY <3>1 DEF CallOK, Tool
  <2> QED
    BY <2>1, <2>2
<1> HIDE DEF results, r, x, a
<1>5. CASE ~p.ok
  <2>1. After(c, p) = failed
    BY <1>5 DEF After, x, r, results
  <2>2. CallOK(failed, r)
    BY <1>1 DEF CallOK, Fields, Failed
  <2> QED
    BY <2>1, <2>2 DEF r
<1>6. CASE p.ok /\ x.n < Len(r.reads)
  <2>1. After(c, p) = next
    BY <1>2, <1>6 DEF After, x, r, results
  <2>2. x.n + 1 \in DOMAIN r.reads /\ Len(results) = x.n + 1 - 1
    BY <1>2, <1>3, <1>6
  <2>3. /\ DOMAIN next = Fields /\ next.phase = "waiting" /\ next.n = x.n + 1
        /\ next.query = r.reads[x.n + 1].query /\ next.got = <<>>
        /\ next.results = results /\ next.whole = x.whole
    BY <1>1 DEF Fields
  <2> HIDE DEF next, read, done, failed
  <2>4. \A m \in DOMAIN next.results :
          r.tool \in ReadTools =>
            m \in DOMAIN r.reads /\ IsWhole(r, m, next.results[m], next.whole[m])
    BY <1>4, <1>6, <2>3 DEF Tool, r
  <2>5. /\ next.n \in DOMAIN r.reads /\ IsList(next.results)
        /\ Len(next.results) = next.n - 1
        /\ DOMAIN next.whole = DOMAIN r.reads /\ IsQuery(next.query)
    <3>1. IsQuery(next.query) /\ next.n \in DOMAIN r.reads /\ DOMAIN next.whole = DOMAIN r.reads
      BY <1>1, <2>2, <2>3
    <3>2. IsList(next.results)
      BY <1>3, <2>3
    <3>3. Len(next.results) = next.n - 1
      BY <1>2, <1>3, <2>3
    <3> QED
      BY <3>1, <3>2, <3>3
  <2>6. CallOK(next, r)
    BY <2>3, <2>4, <2>5 DEF CallOK
  <2> QED
    BY <2>1, <2>6 DEF r
<1>7. CASE p.ok /\ ~(x.n < Len(r.reads))
  <2>1. After(c, p) \in {done, panicked}
    BY <1>2, <1>7 DEF After, x, r, results, a
  <2>2. ASSUME NEW y \in {done, panicked}
        PROVE  /\ DOMAIN y = Fields /\ y.phase \in {"done", "panicked"} /\ y.results = results
               /\ y.whole = x.whole /\ y.n = x.n /\ y.query = x.query
    BY <1>1 DEF Fields
  <2> HIDE DEF done, panicked, read
  <2>3. ASSUME NEW y \in {done, panicked} PROVE CallOK(y, r)
    BY <1>1, <1>3, <1>4, <1>7, <2>2 DEF CallOK, Tool, r
  <2> QED
    BY <2>1, <2>3 DEF r
<1> QED
  BY <1>5, <1>6, <1>7

-----------------------------------------------------------------------------
(* What a database may answer *)

\* The sequences with one more row.
Inserted(order, i, sequences) ==
    UNION {{InsertAt(s, k, i) :
              k \in {k \in 1..(Len(s) + 1) :
                      \A j \in DOMAIN s : IF j < k THEN InOrder(order, s[j], i)
                                         ELSE InOrder(order, i, s[j])}} :
           s \in sequences}

LEMMA InsertedAreLists ==
  ASSUME NEW order, NEW i \in Ids, NEW sequences \in SUBSET Seq(Ids)
  PROVE  Inserted(order, i, sequences) \in SUBSET Seq(Ids)
<1> SUFFICES ASSUME NEW s \in sequences, NEW k \in 1..(Len(s) + 1)
             PROVE  InsertAt(s, k, i) \in Seq(Ids)
  BY DEF Inserted
<1>1. /\ s \in Seq(Ids) /\ Len(s) \in Nat /\ k \in Nat /\ k - 1 \in Int /\ k - 1 <= Len(s)
      /\ \A j \in 1 .. Len(s) : s[j] \in Ids
  BY LenProperties, ElementOfSeq
<1>2. SubSeq(s, 1, k - 1) \in Seq(Ids)
  <2>1. \A j \in 1 .. k - 1 : s[j] \in Ids
    BY <1>1
  <2> QED
    BY <1>1, <2>1, SubSeqProperties
<1>3. SubSeq(s, k, Len(s)) \in Seq(Ids)
  <2>1. \A j \in k .. Len(s) : s[j] \in Ids
    BY <1>1
  <2> QED
    BY <1>1, <2>1, SubSeqProperties
<1>4. <<i>> \in Seq(Ids)
  OBVIOUS
<1>5. (SubSeq(s, 1, k - 1) \o <<i>>) \o SubSeq(s, k, Len(s)) \in Seq(Ids)
  <2>1. SubSeq(s, 1, k - 1) \o <<i>> \in Seq(Ids)
    BY <1>2, <1>4, ConcatProperties
  <2> QED
    BY <1>3, <2>1, ConcatProperties
<1> QED
  BY <1>5 DEF InsertAt

\* s has the rows of S, each once, in an order that is allowed.
IsArrangement(order, S, s) ==
    /\ s \in Seq(Ids) /\ Range(s) = S /\ IsInjective(s)
    /\ \A a, b \in DOMAIN s : a < b => InOrder(order, s[a], s[b])

LEMMA InsertedIsArranged ==
  ASSUME NEW order, NEW i \in Ids, NEW S, i \notin S, NEW s, IsArrangement(order, S, s),
         NEW k \in 1 .. Len(s) + 1,
         \A j \in DOMAIN s : IF j < k THEN InOrder(order, s[j], i)
                             ELSE InOrder(order, i, s[j])
  PROVE  IsArrangement(order, S \cup {i}, InsertAt(s, k, i))
<1> DEFINE n == Len(s)
           before == SubSeq(s, 1, k - 1)
           after == SubSeq(s, k, n)
           t == InsertAt(s, k, i)
<1>1. /\ s \in Seq(Ids) /\ n \in Nat /\ DOMAIN s = 1 .. n /\ k \in 1 .. n + 1
      /\ \A j \in 1 .. n : s[j] \in Ids
  BY LenProperties, ElementOfSeq DEF IsArrangement
<1>2. /\ before \in Seq(Ids) /\ Len(before) = k - 1
      /\ \A j \in 1 .. k - 1 : before[j] = s[j]
  <2>1. k - 1 \in Int /\ k - 1 <= n /\ 1 <= (k - 1) + 1 /\ \A j \in 1 .. k - 1 : s[j] \in Ids
    BY <1>1
  <2> QED
    BY <1>1, <2>1, SubSeqProperties
<1>3. /\ after \in Seq(Ids) /\ Len(after) = n - k + 1
      /\ \A j \in 1 .. n - k + 1 : after[j] = s[k + j - 1]
  <2>1. k \in Int /\ k <= n + 1 /\ \A j \in k .. n : s[j] \in Ids
    BY <1>1
  <2> QED
    BY <1>1, <2>1, SubSeqProperties
<1>4. t = (before \o <<i>>) \o after
  BY DEF InsertAt
<1> HIDE DEF before, after, n, t
<1>5. /\ before \o <<i>> \in Seq(Ids) /\ Len(before \o <<i>>) = k
      /\ \A j \in 1 .. k : (before \o <<i>>)[j] = IF j = k THEN i ELSE s[j]
  <2>1. <<i>> \in Seq(Ids) /\ Len(<<i>>) = 1 /\ <<i>>[1] = i
    OBVIOUS
  <2>2. k \in Nat /\ (k - 1) + 1 = k /\ k - (k - 1) = 1 /\ \A j \in 1 .. k - 1 : j # k
    BY <1>1
  <2> DEFINE one == <<i>>
  <2> HIDE DEF one
  <2>3. /\ before \o one \in Seq(Ids) /\ Len(before \o one) = (k - 1) + 1
        /\ \A j \in 1 .. (k - 1) + 1 :
             (before \o one)[j] = IF j <= k - 1 THEN before[j] ELSE one[j - (k - 1)]
    BY <1>2, <2>1, ConcatProperties DEF one
  <2>4. \A j \in 1 .. k : (before \o one)[j] = IF j = k THEN i ELSE s[j]
    <3> SUFFICES ASSUME NEW j \in 1 .. k PROVE (before \o one)[j] = IF j = k THEN i ELSE s[j]
      OBVIOUS
    <3>1. CASE j = k
      BY <2>1, <2>2, <2>3, <3>1 DEF one
    <3>2. CASE j # k
      <4>1. j \in 1 .. k - 1
        BY <2>2, <3>2
      <4> QED
        BY <1>2, <2>2, <2>3, <3>2, <4>1
    <3> QED
      BY <3>1, <3>2
  <2> QED
    BY <2>2, <2>3, <2>4 DEF one
<1>6. /\ t \in Seq(Ids) /\ Len(t) = n + 1
      /\ \A j \in 1 .. n + 1 : t[j] = IF j < k THEN s[j] ELSE IF j = k THEN i ELSE s[j - 1]
  <2> DEFINE u == before \o <<i>>
  <2>1. /\ u \in Seq(Ids) /\ Len(u) = k
        /\ \A j \in 1 .. k : u[j] = IF j = k THEN i ELSE s[j]
    BY <1>5
  <2> HIDE DEF u
  <2>2. t = u \o after
    BY <1>4 DEF u
  <2>3. /\ t \in Seq(Ids) /\ Len(t) = Len(u) + Len(after)
        /\ \A j \in 1 .. Len(u) + Len(after) :
             t[j] = IF j <= Len(u) THEN u[j] ELSE after[j - Len(u)]
    BY <1>3, <2>1, <2>2, ConcatProperties
  <2>4. Len(u) + Len(after) = n + 1
    BY <1>1, <1>3, <2>1
  <2>5. \A j \in 1 .. n + 1 : j <= k => j \in 1 .. k
    BY <1>1
  <2>6. \A j \in 1 .. n + 1 : j > k => j - k \in 1 .. n - k + 1 /\ k + (j - k) - 1 = j - 1
    BY <1>1
  <2>7. ASSUME NEW j \in 1 .. n + 1
        PROVE  t[j] = IF j < k THEN s[j] ELSE IF j = k THEN i ELSE s[j - 1]
    <3>1. CASE j <= k
      <4>1. t[j] = u[j] /\ u[j] = IF j = k THEN i ELSE s[j]
        BY <2>1, <2>3, <2>4, <2>5, <3>1
      <4> QED
        BY <1>1, <3>1, <4>1
    <3>2. CASE j > k
      <4>1. t[j] = after[j - k]
        BY <1>1, <2>1, <2>3, <2>4, <3>2
      <4>2. after[j - k] = s[j - 1]
        BY <1>3, <2>6, <3>2
      <4> QED
        BY <1>1, <3>2, <4>1, <4>2
    <3> QED
      BY <1>1, <3>1, <3>2
  <2> QED
    BY <2>3, <2>4, <2>7
<1>7. DOMAIN t = 1 .. n + 1
  BY <1>6, LenProperties
<1> DEFINE at(j) == IF j < k THEN j ELSE j - 1
<1>8. \A j \in 1 .. n + 1 : j # k => at(j) \in 1 .. n /\ t[j] = s[at(j)] /\ t[j] \in S
  <2> SUFFICES ASSUME NEW j \in 1 .. n + 1, j # k
               PROVE  at(j) \in 1 .. n /\ t[j] = s[at(j)] /\ t[j] \in S
    OBVIOUS
  <2>1. at(j) \in 1 .. n /\ t[j] = s[at(j)]
    BY <1>1, <1>6
  <2>2. s[at(j)] \in S
    BY <1>1, <2>1 DEF IsArrangement, Range
  <2> QED
    BY <2>1, <2>2
<1>9. k \in 1 .. n + 1 /\ t[k] = i
  BY <1>1, <1>6
<1>10. Range(t) = S \cup {i}
  <2>1. Range(t) \subseteq S \cup {i}
    BY <1>7, <1>8, <1>9 DEF Range
  <2>2. ASSUME NEW x \in S PROVE x \in Range(t)
    <3>1. PICK a \in 1 .. n : s[a] = x
      BY <1>1 DEF IsArrangement, Range
    <3>2. CASE a < k
      <4>1. a \in 1 .. n + 1 /\ t[a] = x
        BY <1>1, <1>6, <3>1, <3>2
      <4> QED
        BY <1>7, <4>1 DEF Range
    <3>3. CASE ~(a < k)
      <4>1. a + 1 \in 1 .. n + 1 /\ ~(a + 1 < k) /\ a + 1 # k /\ (a + 1) - 1 = a
        BY <1>1, <3>1, <3>3
      <4>2. t[a + 1] = x
        BY <1>6, <3>1, <4>1
      <4> QED
        BY <1>7, <4>1, <4>2 DEF Range
    <3> QED
      BY <3>2, <3>3
  <2>3. i \in Range(t)
    BY <1>7, <1>9 DEF Range
  <2> QED
    BY <2>1, <2>2, <2>3
<1>11. IsInjective(t)
  <2> SUFFICES ASSUME NEW a \in 1 .. n + 1, NEW b \in 1 .. n + 1, t[a] = t[b] PROVE a = b
    BY <1>7 DEF IsInjective
  <2>1. CASE a = k \/ b = k
    BY <1>8, <1>9, <2>1
  <2>2. CASE a # k /\ b # k
    <3>1. at(a) \in 1 .. n /\ at(b) \in 1 .. n /\ s[at(a)] = s[at(b)]
      BY <1>8, <2>2
    <3>2. at(a) = at(b)
      <4> HIDE DEF at
      <4> QED
        BY <1>1, <3>1 DEF IsArrangement, IsInjective
    <3> QED
      BY <1>1, <2>2, <3>2
  <2> QED
    BY <2>1, <2>2
<1>12. ASSUME NEW a \in 1 .. n + 1, NEW b \in 1 .. n + 1, a < b
       PROVE  InOrder(order, t[a], t[b])
  <2>1. CASE a = k
    <3>1. at(b) = b - 1 /\ b - 1 \in 1 .. n /\ ~(b - 1 < k)
      BY <1>1, <1>12, <2>1
    <3>2. t[a] = i /\ t[b] = s[b - 1]
      BY <1>1, <1>6, <1>12, <2>1
    <3> QED
      BY <1>1, <3>1, <3>2
  <2>2. CASE b = k
    <3>1. a \in 1 .. n /\ a < k
      BY <1>1, <1>12, <2>2
    <3>2. t[a] = s[a] /\ t[b] = i
      BY <1>6, <1>9, <2>2, <3>1
    <3> QED
      BY <1>1, <3>1, <3>2
  <2>3. CASE a # k /\ b # k
    <3>1. at(a) < at(b)
      BY <1>1, <1>12, <2>3
    <3>2. at(a) \in 1 .. n /\ at(b) \in 1 .. n /\ t[a] = s[at(a)] /\ t[b] = s[at(b)]
      BY <1>8, <2>3
    <3> HIDE DEF at
    <3> QED
      BY <1>1, <3>1, <3>2 DEF IsArrangement
  <2> QED
    BY <2>1, <2>2, <2>3
<1> QED
  BY <1>6, <1>7, <1>10, <1>11, <1>12 DEF IsArrangement, t

LEMMA ArrangementsAreArranged ==
  ASSUME NEW order, NEW S, IsFiniteSet(S), S \subseteq Ids
  PROVE  \A s \in Arrangements(order, S) : IsArrangement(order, S, s)
<1> DEFINE V == SUBSET Seq(Ids)
           ch == [U \in SUBSET S |-> CHOOSE x \in U : TRUE]
           step == [p \in S \X V |-> Inserted(order, p[1], p[2])]
<1>1. \A U \in SUBSET S : U # {} => ch[U] \in U
  OBVIOUS
<1>2. {<<>>} \in V
  OBVIOUS
<1>3. step \in [S \X V -> V]
  BY InsertedAreLists
<1> HIDE DEF V
<1>4. PICK g \in [SUBSET S -> V] : IsFold(g, S, {<<>>}, ch, step)
  <2> HIDE DEF step, ch
  <2> QED
    BY <1>1, <1>2, <1>3, FoldExists
<1>5. \A U \in SUBSET S :
        g[U] = IF U = {} THEN {<<>>}
               ELSE Inserted(order, CHOOSE x \in U : TRUE, g[U \ {CHOOSE x \in U : TRUE}])
  <2> TAKE U \in SUBSET S
  <2>1. g[U] = IF U = {} THEN {<<>>} ELSE step[<<ch[U], g[U \ {ch[U]}]>>]
    <3> HIDE DEF ch, step
    <3> QED
      BY <1>4, FoldValue
  <2>2. CASE U = {}
    BY <2>1, <2>2
  <2>3. CASE U # {}
    <3>1. ch[U] \in S /\ U \ {ch[U]} \in SUBSET S
      BY <1>1, <2>3
    <3>2. <<ch[U], g[U \ {ch[U]}]>> \in S \X V
      <4> HIDE DEF ch, step
      <4> QED
        BY <3>1
    <3>3. g[U] = Inserted(order, ch[U], g[U \ {ch[U]}])
      BY <2>1, <2>3, <3>2
    <3> QED
      BY <2>3, <3>3
  <2> QED
    BY <2>2, <2>3
<1> DEFINE h == CHOOSE iter : iter = [s \in SUBSET S |->
                  IF s = {} THEN {<<>>}
                  ELSE Inserted(order, CHOOSE x \in s : TRUE, iter[s \ {CHOOSE x \in s : TRUE}])]
<1>6. h = [s \in SUBSET S |->
             IF s = {} THEN {<<>>}
             ELSE Inserted(order, CHOOSE x \in s : TRUE, h[s \ {CHOOSE x \in s : TRUE}])]
  <2>1. g = [s \in SUBSET S |->
               IF s = {} THEN {<<>>}
               ELSE Inserted(order, CHOOSE x \in s : TRUE, g[s \ {CHOOSE x \in s : TRUE}])]
    BY <1>5
  <2> QED
    BY <2>1
<1>7. Arrangements(order, S) = h[S]
  BY DEF Arrangements, FoldSet, MapThenFoldSet, Inserted
<1> HIDE DEF h
<1>8. h[{}] = {<<>>} /\ \A U \in SUBSET S : U # {} => h[U] = Inserted(order, ch[U], h[U \ {ch[U]}])
  BY <1>6
<1> DEFINE P == {U \in SUBSET S : \A s \in h[U] : IsArrangement(order, U, s)}
<1>9. {} \in P
  <2>1. <<>> \in Seq(Ids) /\ DOMAIN <<>> = {} /\ Range(<<>>) = {}
    BY DEF Range
  <2>2. IsArrangement(order, {}, <<>>)
    BY <2>1 DEF IsArrangement, IsInjective
  <2> QED
    BY <1>8, <2>2
<1>10. ASSUME NEW U \in SUBSET S, U # {}, U \ {ch[U]} \in P PROVE U \in P
  <2> DEFINE i == ch[U]
             W == U \ {i}
  <2>1. i \in Ids /\ i \in U /\ i \notin W /\ W \cup {i} = U
    BY <1>1, <1>10
  <2>2. h[U] = Inserted(order, i, h[W])
    BY <1>8, <1>10
  <2>3. \A s \in h[W] : IsArrangement(order, W, s)
    BY <1>10
  <2> HIDE DEF i, W, ch, h
  <2>4. ASSUME NEW t \in h[U] PROVE IsArrangement(order, U, t)
    <3>1. PICK s \in h[W] :
            \E k \in 1 .. (Len(s) + 1) :
              /\ \A j \in DOMAIN s : IF j < k THEN InOrder(order, s[j], i)
                                   ELSE InOrder(order, i, s[j])
              /\ t = InsertAt(s, k, i)
      BY <2>2 DEF Inserted
    <3>2. PICK k \in 1 .. (Len(s) + 1) :
            /\ \A j \in DOMAIN s : IF j < k THEN InOrder(order, s[j], i)
                                 ELSE InOrder(order, i, s[j])
            /\ t = InsertAt(s, k, i)
      BY <3>1
    <3>3. IsArrangement(order, W \cup {i}, InsertAt(s, k, i))
      BY <2>1, <2>3, <3>2, InsertedIsArranged
    <3> QED
      BY <2>1, <3>2, <3>3
  <2> QED
    BY <2>4
<1>11. SUBSET S \subseteq P
  <2> HIDE DEF P, ch
  <2> QED
    BY <1>1, <1>9, <1>10, SetInduction
<1> QED
  BY <1>7, <1>11

LEMMA AnswersAreLists ==
  ASSUME NEW s, s.limit \in Nat, s.offset \in Nat,
         NEW table, IsFiniteSet(table), table \subseteq Ids, NEW rows \in Answers(s, table)
  PROVE  rows \in Seq(Ids)
<1> DEFINE last(all) == IF s.limit = 0 \/ s.offset + s.limit > Len(all) THEN Len(all)
                        ELSE s.offset + s.limit
           S == {i \in table : Matches(s, i)}
<1>1. PICK all \in Arrangements(s.order, S) : rows = SubSeq(all, s.offset + 1, last(all))
  BY DEF Answers
<1>2. all \in Seq(Ids)
  <2>1. IsFiniteSet(S) /\ S \subseteq Ids
    BY FS_Subset
  <2> HIDE DEF S
  <2> QED
    BY <1>1, <2>1, ArrangementsAreArranged DEF IsArrangement
<1> HIDE DEF S
<1>3. /\ Len(all) \in Nat /\ last(all) \in Int /\ last(all) <= Len(all) /\ s.offset + 1 \in Int
      /\ \A j \in 1 .. Len(all) : all[j] \in Ids
  BY <1>2, LenProperties, ElementOfSeq
<1>4. \A j \in s.offset + 1 .. last(all) : all[j] \in Ids
  <2> HIDE DEF last
  <2> QED
    BY <1>3
<1> HIDE DEF last
<1> QED
  BY <1>1, <1>3, <1>4, SubSeqProperties

-----------------------------------------------------------------------------
(* The invariant *)

\* No fault has happened.
Intact == faults = work.faults

\* The tools that ask queries.
Querying(tool) == tool \notin {"describe_databases", "describe_tables", "annotate_schema"}

\* The file of a successful export, when the result is s; intact: no fault has happened.
FileOK(f, request, s, intact) ==
    LET rows == Rows(request.reads[1], s) IN
    \/ f = File(rows)
    \/ request.format = "parquet" /\ rows = <<>> /\ f = NoFile
    \/ request.format = "csv" /\ ~intact /\ f \in {File(some) : some \in Prefixes(rows)}

\* The call x that exports to the file f.
ExportOK(x, f, request, intact) ==
    /\ x.n = 1
    /\ x.phase # "done" => f = NoFile
    /\ x.phase = "open" => x.left = x.whole[1]
    /\ x.phase = "done" /\ x.answer.ok /\ request.reads[1].kind \notin Lenient("export_query") =>
         FileOK(f, request, x.whole[1], intact)

\* Whether all tables are found, and the parts of a table that are found as they are.
Complete(k, intact) == intact \/ k \in SqlKinds

Sure(k, intact) ==
    {p \in Range(Parts(k)) :
       \/ intact /\ (k = "postgres" => p # "indexes")
       \/ k \in SqlKinds /\ (p \in {"columns", "refs"} \/ (p = "key" /\ k # "postgres"))}

\* What was found of a database, and the parts that are still to be asked.
FoundOK(k, found, todo, intact) ==
    /\ IsList(todo) /\ DOMAIN found \subseteq Range(Tables)
    /\ Complete(k, intact) => DOMAIN found = DOMAIN Whole(k)
    /\ \A i \in DOMAIN todo :
         /\ todo[i] = <<todo[i][1], todo[i][2]>>
         /\ todo[i][1] \in DOMAIN found /\ todo[i][2] \in Range(Parts(k))
    /\ \A t \in DOMAIN found : \A p \in Sure(k, intact) :
         \/ p \in DOMAIN found[t] /\ found[t][p] = Catalog[t][p]
         \/ <<t, p>> \in Range(todo)

\* The call x that discovers.
DiscoveryOK(x, request, intact) ==
    /\ DOMAIN x = Fields /\ x.n \in DOMAIN request.reads
    /\ x.phase \in {"waiting", "discovering", "indexes", "done", "panicked"}
    /\ x.phase \in {"discovering", "indexes"} =>
         FoundOK(request.reads[x.n].kind, x.found, x.todo, intact)
    /\ x.phase = "indexes" =>
         x.todo # <<>> /\ Head(x.todo)[2] = "indexes" /\ request.reads[x.n].kind = "sqlite"

GoodCall(x, f, request, intact) ==
    /\ Querying(request.tool) => CallOK(x, request)
    /\ request.tool = "export_query" => ExportOK(x, f, request, intact)
    /\ ~Querying(request.tool) => DiscoveryOK(x, request, intact)

ToolsInv ==
    /\ work \in Workloads
    /\ faults \in Nat /\ faults <= work.faults
    /\ store \subseteq Ids /\ IsFiniteSet(store)
    /\ DOMAIN call = Callers /\ DOMAIN file = Callers /\ DOMAIN schema = Kinds
    /\ \A c \in Callers : GoodCall(call[c], file[c], work.requests[c], Intact)
    /\ \A k \in Kinds : FoundOK(k, schema[k], <<>>, Intact)

-----------------------------------------------------------------------------
(* The adapters *)

LEMMA StatementBounds ==
  ASSUME NEW kind \in Kinds, NEW q, IsQuery(q)
  PROVE  Statement(kind, q).limit \in Nat /\ Statement(kind, q).offset \in Nat
<1> USE DEF IsQuery, Sql, Documents, Written
<1>1. CASE kind \in {"postgres", "mysql", "sqlite"}
  BY <1>1 DEF Statement, PostgresStatement, MySqlStatement, SqliteStatement
<1>2. CASE kind \in {"sqlserver", "clickhouse"}
  BY <1>2 DEF Statement, SqlServerStatement, ClickHouseStatement
<1>3. CASE kind \in {"mongodb", "elasticsearch", "redis", "couchdb"}
  BY <1>3 DEF Statement, MongoStatement, ElasticStatement, RedisStatement, CouchStatement
<1>4. CASE kind \in {"cassandra", "neo4j", "influxdb"}
  BY <1>4 DEF Statement, CassandraStatement, Neo4jStatement, InfluxStatement
<1> QED
  BY <1>1, <1>2, <1>3, <1>4 DEF Kinds, SqlKinds

\* How an answer may end.
Ends(kind) == {"whole", "refused", "unreached"} \cup Breaks(kind)

LEMMA ExecuteIsWhole ==
  ASSUME NEW kind \in Kinds \ Lenient("execute_query"), NEW q, NEW rows, NEW total,
         NEW end \in Ends(kind), Execute(kind, q, Reading(rows, total, end)).ok
  PROVE  end = "whole" /\ Execute(kind, q, Reading(rows, total, end)).rows = rows
<1> DEFINE r == Reading(rows, total, end)
<1> USE DEF Failed, Page
<1>1. r.rows = rows /\ r.end = end
  BY DEF Reading
<1> HIDE DEF r
<1>2. CASE kind = "postgres"
  BY <1>1, <1>2 DEF Execute, PostgresExecute, r
<1>3. CASE kind \in {"mysql", "sqlite"}
  BY <1>1, <1>3 DEF Execute, MySqlExecute, SqliteExecute, r
<1>4. CASE kind \in {"cassandra", "neo4j", "influxdb"}
  BY <1>1, <1>4 DEF Execute, CassandraExecute, Neo4jExecute, InfluxExecute, r
<1> QED
  BY <1>2, <1>3, <1>4 DEF Kinds, SqlKinds, Lenient

LEMMA StreamIsWhole ==
  ASSUME NEW kind \in Kinds \ Lenient("stream_query"), NEW q, NEW rows, NEW total,
         NEW end \in Ends(kind),
         Stream(kind, q, Reading(rows, total, end)).ok
  PROVE  end = "whole" /\ Stream(kind, q, Reading(rows, total, end)).rows = rows
<1> DEFINE r == Reading(rows, total, end)
<1> USE DEF Failed, Page
<1>1. r.rows = rows /\ r.end = end /\ end \in {"whole", "broken", "refused", "unreached"}
  BY DEF Reading, Ends, Breaks, Lenient
<1> HIDE DEF r
<1>2. CASE kind = "postgres"
  <2>1. Stream(kind, q, r) = IF end = "unreached" THEN Failed ELSE PostgresStream(r)
    BY <1>1, <1>2 DEF Stream
  <2> QED
    BY <1>1, <2>1 DEF PostgresStream, PostgresRowStream, r
<1>3. CASE kind = "mysql"
  <2>1. Stream(kind, q, r) = IF end = "unreached" THEN Failed ELSE MySqlStream(r)
    BY <1>1, <1>3 DEF Stream
  <2> QED
    BY <1>1, <2>1 DEF MySqlStream, MySqlRowStream, r
<1>4. CASE kind = "sqlite"
  <2>1. Stream(kind, q, r) = IF end = "unreached" THEN Failed ELSE SqliteStream(r)
    BY <1>1, <1>4 DEF Stream
  <2> QED
    BY <1>1, <2>1 DEF SqliteStream, SqliteRowStream, r
<1>5. CASE kind = "sqlserver"
  <2>1. Stream(kind, q, r) = IF end = "unreached" THEN Failed ELSE SqlServerStream(r)
    BY <1>1, <1>5 DEF Stream
  <2> QED
    BY <1>1, <2>1 DEF SqlServerStream, SqlServerRowStream, r
<1>6. CASE kind = "clickhouse"
  <2>1. Stream(kind, q, r) = IF end = "unreached" THEN Failed ELSE ClickHouseStream(r)
    BY <1>1, <1>6 DEF Stream
  <2> QED
    BY <1>1, <2>1 DEF ClickHouseStream, ClickHouseRowStream, r
<1>7. CASE kind \in {"cassandra", "neo4j", "influxdb"}
  BY <1>1, <1>7 DEF Stream, CassandraStream, CassandraExecute, Neo4jStream, Neo4jExecute,
                    InfluxStream, InfluxExecute, r
<1> QED
  BY <1>2, <1>3, <1>4, <1>5, <1>6, <1>7 DEF Kinds, SqlKinds, Lenient

\* What a tool is given is whole, unless the adapter takes a part for the whole.
LEMMA ReturnedIsWhole ==
  ASSUME NEW c, Kind(c) \in Kinds \ Lenient(Tool(c)),
         Tool(c) \in ReadTools \cup {"export_query"},
         NEW rows, NEW total, NEW end \in Ends(Kind(c)), Returned(c, Reading(rows, total, end)).ok
  PROVE  end = "whole" /\ Returned(c, Reading(rows, total, end)).rows = rows
<1>1. CASE Tool(c) \in {"execute_query", "multi_source_query", "cross_db_join"}
  <2>1. Returned(c, Reading(rows, total, end))
          = Execute(Kind(c), call[c].query, Reading(rows, total, end))
    BY <1>1 DEF Returned
  <2>2. Kind(c) \in Kinds \ Lenient("execute_query")
    BY <1>1 DEF Lenient
  <2> QED
    BY <2>1, <2>2, ExecuteIsWhole
<1>2. CASE Tool(c) \in {"stream_query", "export_query"}
  <2>1. Returned(c, Reading(rows, total, end))
          = Stream(Kind(c), call[c].query, Reading(rows, total, end))
    BY <1>2 DEF Returned
  <2>2. Kind(c) \in Kinds \ Lenient("stream_query")
    BY <1>2 DEF Lenient
  <2> QED
    BY <2>1, <2>2, StreamIsWhole
<1> QED
  BY <1>1, <1>2 DEF ReadTools

LEMMA ListingOK ==
  ASSUME NEW kind \in Kinds, NEW fault \in {"none", "refused", "broken"},
         NEW o \in Listing(kind, Range(Tables), fault), o # <<>>
  PROVE  /\ o[1] \subseteq Range(Tables)
         /\ fault = "none" \/ kind \in SqlKinds => o[1] = DOMAIN Whole(kind)
<1> DEFINE names == Range(Tables)
<1>1. Main \in names /\ DOMAIN Whole(kind) = IF kind = "couchdb" THEN {Main} ELSE names
  <2>1. Tables[1] = "main" /\ 1 \in DOMAIN Tables
    BY DEF Tables
  <2> QED
    BY <2>1 DEF Range, Main, Whole
<1> HIDE DEF names
<1> USE DEF Strict, Optional
<1>2. o \in Listing(kind, names, fault)
  BY DEF names
<1>3. CASE kind \in SqlKinds
  <2>1. o \in Strict(names, fault)
    BY <1>2, <1>3 DEF Listing, SqlKinds, PostgresTables, MySqlTables, SqliteTables,
                      SqlServerTables, ClickHouseTables
  <2> QED
    BY <1>1, <1>3, <2>1 DEF names, SqlKinds
<1>4. CASE kind \in {"mongodb", "elasticsearch", "cassandra"}
  <2>1. o \in Strict(names, fault)
    BY <1>2, <1>4 DEF Listing, MongoCollections, ElasticIndices, CassandraTables
  <2> QED
    BY <1>1, <1>4, <2>1 DEF names, SqlKinds
<1>5. CASE kind \in {"neo4j", "influxdb"}
  <2>1. o \in Optional(names, fault)
    BY <1>2, <1>5 DEF Listing, Neo4jLabels, InfluxMeasurements
  <2> QED
    BY <1>1, <1>5, <2>1 DEF names, SqlKinds
<1>6. CASE kind = "redis"
  <2>1. PICK w \in Optional(names, fault) : o = <<w[1] \cup {Main}>>
    BY <1>2, <1>6 DEF Listing, RedisDiscovery
  <2> QED
    BY <1>1, <1>6, <2>1 DEF names, SqlKinds
<1>7. CASE kind = "couchdb"
  <2>1. o = <<{Main}>>
    BY <1>2, <1>7 DEF Listing, CouchDiscovery
  <2> QED
    BY <1>1, <1>7, <2>1 DEF names, SqlKinds
<1> QED
  BY <1>3, <1>4, <1>5, <1>6, <1>7 DEF Kinds

LEMMA PartOK ==
  ASSUME NEW kind \in Kinds, NEW p \in Range(Parts(kind)), NEW v,
         NEW fault \in {"none", "refused", "broken"},
         NEW o \in Part(kind, p, v, fault), o # <<>>, p \in Sure(kind, fault = "none")
  PROVE  o[1] = v
<1> USE DEF Strict, Optional
<1>1. CASE kind = "postgres"
  <2>1. p \in {"columns", "key", "refs", "count"} /\ (fault = "none" \/ p \in {"columns", "refs"})
    BY <1>1 DEF Sure, Parts, PostgresParts, Range
  <2> QED
    BY <1>1, <2>1 DEF Part, PostgresColumns, PostgresPrimaryKey, PostgresForeignKeys,
                      PostgresRowCount
<1>2. CASE kind = "mysql"
  <2>1. /\ p \in {"columns", "key", "refs", "indexes", "count"}
        /\ fault = "none" \/ p \in {"columns", "key", "refs"}
    BY <1>2 DEF Sure, Parts, MySqlParts, Range
  <2> QED
    BY <1>2, <2>1 DEF Part, MySqlColumns, MySqlPrimaryKey, MySqlForeignKeys, MySqlIndexes,
                      MySqlRowCount
<1>3. CASE kind = "sqlite"
  <2>1. /\ p \in {"columns", "key", "indexes", "count"}
        /\ fault = "none" \/ p \in {"columns", "key"}
    BY <1>3 DEF Sure, Parts, SqliteParts, Range
  <2> QED
    BY <1>3, <2>1 DEF Part, SqliteColumns, SqlitePrimaryKey, SqliteIndexes, SqliteRowCount
<1>4. CASE kind = "sqlserver"
  <2>1. /\ p \in {"columns", "key", "indexes", "count"}
        /\ fault = "none" \/ p \in {"columns", "key"}
    BY <1>4 DEF Sure, Parts, SqlServerParts, Range
  <2> QED
    BY <1>4, <2>1 DEF Part, SqlServerColumns, SqlServerPrimaryKey, SqlServerIndexes,
                      SqlServerRowCount
<1>5. CASE kind = "clickhouse"
  <2>1. p \in {"columns", "count"} /\ (fault = "none" \/ p = "columns")
    BY <1>5 DEF Sure, Parts, ClickHouseParts, Range
  <2> QED
    BY <1>5, <2>1 DEF Part, ClickHouseColumns, ClickHouseRowCount
<1>6. CASE kind \in {"mongodb", "elasticsearch", "cassandra"}
  <2>1. Parts(kind) = <<"columns">>
    BY <1>6 DEF Parts, MongoParts, ElasticParts, CassandraParts
  <2>2. p = "columns"
    BY <2>1 DEF Range
  <2>3. fault = "none"
    BY <1>6 DEF Sure, SqlKinds
  <2> QED
    BY <1>6, <2>2, <2>3 DEF Part, MongoFields, ElasticMapping, CassandraColumns
<1>7. CASE kind = "neo4j"
  <2>1. p = "count" /\ fault = "none"
    BY <1>7 DEF Sure, Parts, Neo4jParts, Range, SqlKinds
  <2> QED
    BY <1>7, <2>1 DEF Part, Neo4jRowCount
<1>8. CASE kind \in {"redis", "couchdb", "influxdb"}
  <2>1. Parts(kind) = <<>>
    BY <1>8 DEF Parts
  <2>2. Range(<<>>) = {}
    BY DEF Range
  <2> QED
    BY <2>1, <2>2
<1> QED
  BY <1>1, <1>2, <1>3, <1>4, <1>5, <1>6, <1>7, <1>8 DEF Kinds, SqlKinds

-----------------------------------------------------------------------------
(* The end of a query *)

LEMMA CallersAsk ==
  ASSUME ToolsInv, NEW c \in Callers
  PROVE  /\ IsRequest(work.requests[c])
         /\ GoodCall(call[c], file[c], work.requests[c], Intact)
BY QueryToolsAssumption DEF ToolsInv, Callers

\* A tool that combines no databases is done after one query.
LEMMA AfterOne ==
  ASSUME NEW c, DOMAIN call[c] = Fields, call[c].n = 1, Len(work.requests[c].reads) = 1,
         Tool(c) # "cross_db_join", NEW p
  PROVE  /\ DOMAIN After(c, p) = Fields /\ After(c, p).phase = "done" /\ After(c, p).n = 1
         /\ After(c, p).whole = call[c].whole
         /\ (/\ IsList(call[c].results)
             /\ Tool(c) # "multi_source_query" /\ After(c, p).answer.ok) => p.ok
<1> DEFINE x == call[c]
           r == work.requests[c]
           results == Append(x.results, p)
           read == [x EXCEPT !.left = <<>>, !.got = <<>>, !.results = results]
           a == Answer(r, results)
           done == [read EXCEPT !.phase = "done", !.answer = a,
                                !.pages = IF a.ok THEN Append(@, a.rows) ELSE @]
           failed == [read EXCEPT !.phase = "done", !.answer = Failed]
<1>1. IsList(x.results) => results[Len(results)] = p
  BY ListAppend
<1>2. Tool(c) \notin {"multi_source_query", "cross_db_join"} => a = results[Len(results)]
  BY DEF Answer, Last, Tool
<1> HIDE DEF results, r, x, a
<1>3. CASE ~p.ok
  <2>1. After(c, p) = failed
    BY <1>3 DEF After, x, r, results
  <2>2. /\ DOMAIN failed = Fields /\ failed.phase = "done" /\ failed.n = 1
        /\ failed.whole = x.whole /\ ~failed.answer.ok
    BY DEF Fields, Failed, x
  <2> HIDE DEF failed, done, read
  <2> QED
    BY <2>1, <2>2 DEF x
<1>4. CASE p.ok
  <2>1. After(c, p) = done
    BY <1>4 DEF After, x, r, results, a, Tool
  <2>2. /\ DOMAIN done = Fields /\ done.phase = "done" /\ done.n = 1
        /\ done.whole = x.whole /\ done.answer = a
    BY DEF Fields, x
  <2> HIDE DEF failed, done, read
  <2> QED
    BY <1>1, <1>2, <1>4, <2>1, <2>2 DEF x
<1> QED
  BY <1>3, <1>4

LEMMA AfterGood ==
  ASSUME NEW c \in Callers, NEW f, NEW i, IsRequest(work.requests[c]),
         GoodCall(call[c], f, work.requests[c], i), call[c].phase \notin {"done", "panicked"},
         Querying(Tool(c)), NEW p, NEW g, NEW j,
         p.ok /\ Tool(c) \in ReadTools =>
           IsWhole(work.requests[c], call[c].n, p, call[c].whole[call[c].n]),
         p.ok /\ Tool(c) = "export_query" /\ Kind(c) \notin Lenient("export_query") =>
           FileOK(g, work.requests[c], call[c].whole[1], j)
  PROVE  GoodCall(After(c, p), g, work.requests[c], j)
<1> DEFINE r == work.requests[c]
<1>1. CallOK(call[c], r) /\ r.tool = Tool(c)
  BY DEF GoodCall, Tool
<1>2. CallOK(After(c, p), r)
  BY <1>1, AfterOK
<1>3. ASSUME Tool(c) = "export_query" PROVE ExportOK(After(c, p), g, r, j)
  <2>1. /\ call[c].n = 1 /\ Len(r.reads) = 1 /\ DOMAIN call[c] = Fields
        /\ IsList(call[c].results)
    BY <1>1, <1>3 DEF GoodCall, ExportOK, IsRequest, CallOK
  <2>2. /\ After(c, p).phase = "done" /\ After(c, p).n = 1
        /\ After(c, p).whole = call[c].whole /\ (After(c, p).answer.ok => p.ok)
    BY <1>3, <2>1, AfterOne
  <2>3. Kind(c) = r.reads[1].kind
    BY <2>1 DEF Kind, Ask1
  <2> QED
    BY <1>3, <2>2, <2>3 DEF ExportOK
<1> QED
  BY <1>1, <1>2, <1>3 DEF GoodCall

LEMMA DiscoveryEnds ==
  ASSUME NEW c, IsRequest(work.requests[c]), NEW i, ~Querying(Tool(c)),
         DiscoveryOK(call[c], work.requests[c], i), NEW p, NEW g, NEW j
  PROVE  GoodCall(After(c, p), g, work.requests[c], j)
<1> DEFINE r == work.requests[c]
<1>1. /\ DOMAIN call[c] = Fields /\ call[c].n \in DOMAIN r.reads
      /\ Len(r.reads) = 1 /\ DOMAIN r.reads = 1 .. Len(r.reads) /\ r.tool = Tool(c)
  BY RequestFacts DEF DiscoveryOK, IsRequest, Querying, Tool
<1>2. call[c].n = 1 /\ 1 \in DOMAIN r.reads
  BY <1>1
<1>3. /\ DOMAIN After(c, p) = Fields /\ After(c, p).phase = "done" /\ After(c, p).n = 1
  <2>1. Tool(c) # "cross_db_join"
    BY DEF Querying
  <2> QED
    BY <1>1, <1>2, <2>1, AfterOne
<1> QED
  BY <1>1, <1>2, <1>3 DEF GoodCall, DiscoveryOK, Querying

-----------------------------------------------------------------------------
(* A step of one caller *)

\* A fault that happens takes something from what is asked, and nothing else does.
LEMMA FoundWeakens ==
  ASSUME NEW k, NEW found, NEW todo, NEW i, NEW j, FoundOK(k, found, todo, i), j => i
  PROVE  FoundOK(k, found, todo, j)
<1>1. (Complete(k, j) => Complete(k, i)) /\ Sure(k, j) \subseteq Sure(k, i)
  BY DEF Complete, Sure
<1> QED
  BY <1>1 DEF FoundOK

LEMMA CallWeakens ==
  ASSUME NEW x, NEW f, NEW r, NEW i, NEW j, GoodCall(x, f, r, i), j => i
  PROVE  GoodCall(x, f, r, j)
<1>1. ExportOK(x, f, r, i) => ExportOK(x, f, r, j)
  BY DEF ExportOK, FileOK
<1>2. DiscoveryOK(x, r, i) => DiscoveryOK(x, r, j)
  BY FoundWeakens DEF DiscoveryOK
<1> QED
  BY <1>1, <1>2 DEF GoodCall

\* A step of caller c keeps what is known of it, and what is not its own.
Moves(c) ==
    /\ \E new : Becomes(c, new) /\ GoodCall(new, file'[c], work.requests[c], Intact')
    /\ work' = work /\ store' = store
    /\ faults' \in Nat /\ faults' <= faults
    /\ DOMAIN file' = Callers /\ \A d \in Callers \ {c} : file'[d] = file[d]
    /\ \/ schema' = schema
       \/ DOMAIN schema' = Kinds /\ \A k \in Kinds : FoundOK(k, schema'[k], <<>>, Intact')

LEMMA FaultsFall ==
  ASSUME ToolsInv, work' = work, faults' \in Nat, faults' <= faults
  PROVE  (Intact' => Intact) /\ faults' <= work.faults
BY QueryToolsAssumption DEF ToolsInv, Intact

LEMMA MovesOK ==
  ASSUME ToolsInv, NEW c \in Callers, Moves(c)
  PROVE  ToolsInv'
<1>1. (Intact' => Intact) /\ faults' <= work.faults
  BY FaultsFall DEF Moves
<1>2. PICK new : Becomes(c, new) /\ GoodCall(new, file'[c], work.requests[c], Intact')
  BY DEF Moves
<1>3. Callers' = Callers /\ DOMAIN call' = Callers /\ call'[c] = new
  BY <1>2 DEF Moves, Becomes, ToolsInv, Callers
<1>4. ASSUME NEW d \in Callers PROVE GoodCall(call'[d], file'[d], work.requests[d], Intact')
  <2>1. CASE d = c
    BY <1>2, <1>3, <2>1
  <2>2. CASE d # c
    <3>1. call'[d] = call[d] /\ file'[d] = file[d]
      BY <1>2, <1>4, <2>2 DEF Moves, Becomes, ToolsInv
    <3>2. GoodCall(call[d], file[d], work.requests[d], Intact)
      BY <1>4 DEF ToolsInv
    <3>3. GoodCall(call[d], file[d], work.requests[d], Intact')
      BY <1>1, <3>2, CallWeakens
    <3> QED
      BY <3>1, <3>3
  <2> QED
    BY <2>1, <2>2
<1>5. DOMAIN schema' = Kinds /\ \A k \in Kinds : FoundOK(k, schema'[k], <<>>, Intact')
  <2>1. CASE schema' = schema
    <3>1. DOMAIN schema = Kinds /\ \A k \in Kinds : FoundOK(k, schema[k], <<>>, Intact)
      BY DEF ToolsInv
    <3>2. \A k \in Kinds : FoundOK(k, schema[k], <<>>, Intact')
      BY <1>1, <3>1, FoundWeakens
    <3> QED
      BY <2>1, <3>1, <3>2
  <2> QED
    BY <2>1 DEF Moves
<1> QED
  <2>1. /\ work' \in Workloads /\ faults' \in Nat /\ faults' <= work'.faults
        /\ store' \subseteq Ids /\ IsFiniteSet(store')
    BY <1>1 DEF ToolsInv, Moves
  <2>2. work' = work /\ DOMAIN file' = Callers
    BY DEF Moves
  <2> QED
    BY <1>3, <1>4, <1>5, <2>1, <2>2 DEF ToolsInv

LEMMA OnlyCallMoves ==
  ASSUME ToolsInv, NEW c \in Callers, NEW new, Becomes(c, new),
         UNCHANGED <<store, schema, file, work>>, faults' \in Nat, faults' <= faults,
         GoodCall(new, file[c], work.requests[c], Intact')
  PROVE  Moves(c)
<1>1. DOMAIN file' = Callers /\ file'[c] = file[c]
  BY DEF ToolsInv
<1> QED
  BY <1>1 DEF Moves

LEMMA FaultHappens ==
  ASSUME ToolsInv, NEW fault, Happens(fault), work' = work
  PROVE  /\ faults' \in Nat /\ faults' <= faults
         /\ Intact' => Intact /\ fault = "none"
BY QueryToolsAssumption DEF ToolsInv, Happens, Intact

\* A query that returned p, without a file: p is whole, if it counts.
LEMMA QueryEnds ==
  ASSUME ToolsInv, NEW c \in Callers, call[c].phase \notin {"done", "panicked"},
         Querying(Tool(c)), NEW p,
         p.ok /\ Tool(c) \in ReadTools =>
           IsWhole(work.requests[c], call[c].n, p, call[c].whole[call[c].n]),
         p.ok /\ Tool(c) = "export_query" => Kind(c) \in Lenient("export_query"),
         Becomes(c, After(c, p)),
         UNCHANGED <<store, schema, file, work>>, faults' \in Nat, faults' <= faults
  PROVE  Moves(c)
<1>1. IsRequest(work.requests[c]) /\ GoodCall(call[c], file[c], work.requests[c], Intact)
  BY CallersAsk
<1>2. GoodCall(After(c, p), file[c], work.requests[c], Intact')
  BY <1>1, AfterGood
<1> QED
  BY <1>2, OnlyCallMoves

\* A query that is not answered.
LEMMA NothingRead ==
  ASSUME ToolsInv, NEW c \in Callers, Tool(c) \in ReadTools \cup {"export_query"},
         NEW rows, NEW total, NEW end \in Ends(Kind(c)) \ {"whole"},
         Returned(c, Reading(rows, total, end)).ok
  PROVE  Kind(c) \in Lenient(Tool(c))
<1>1. Kind(c) \in Kinds
  <2>1. call[c].n \in DOMAIN work.requests[c].reads
    BY CallersAsk DEF GoodCall, CallOK, Querying, ReadTools, Tool
  <2> QED
    BY <2>1, CallersAsk DEF IsRequest, Kind, Ask1
<1> QED
  BY <1>1, ReturnedIsWhole

LEMMA RejectOK ==
  ASSUME ToolsInv, NEW c \in Callers, Reject(c)
  PROVE  Moves(c)
<1>1. call[c].phase \notin {"done", "panicked"} /\ Querying(Tool(c)) /\ ~Failed.ok
  BY DEF Reject, Reads, Querying, Failed
<1>2. faults' \in Nat /\ faults' <= faults
  BY DEF Reject, ToolsInv
<1> QED
  BY <1>1, <1>2, QueryEnds DEF Reject

LEMMA UnsupportedOK ==
  ASSUME ToolsInv, NEW c \in Callers, Unsupported(c)
  PROVE  Moves(c)
<1>1. /\ call[c].phase \notin {"done", "panicked"} /\ Querying(Tool(c)) /\ Tool(c) \notin ReadTools
      /\ Tool(c) # "export_query"
  BY DEF Unsupported, Querying, ReadTools
<1>2. faults' \in Nat /\ faults' <= faults
  BY DEF Unsupported, ToolsInv
<1>3. Becomes(c, After(c, Page(<<>>, FALSE, Null))) /\ UNCHANGED <<store, schema, file, work>>
  BY DEF Unsupported
<1> QED
  BY <1>1, <1>2, <1>3, QueryEnds

LEMMA NoAnswerOK ==
  ASSUME ToolsInv, NEW c \in Callers, call[c].phase \notin {"done", "panicked"}, Querying(Tool(c)),
         NEW rows, NEW total, NEW end \in Ends(Kind(c)) \ {"whole"},
         Becomes(c, After(c, Returned(c, Reading(rows, total, end)))),
         UNCHANGED <<store, schema, file, work>>, faults' \in Nat, faults' <= faults
  PROVE  Moves(c)
<1> DEFINE p == Returned(c, Reading(rows, total, end))
<1>1. p.ok /\ Tool(c) \in ReadTools \cup {"export_query"} => Kind(c) \in Lenient(Tool(c))
  BY NothingRead
<1>2. p.ok /\ Tool(c) \in ReadTools =>
        IsWhole(work.requests[c], call[c].n, p, call[c].whole[call[c].n])
  BY <1>1 DEF IsWhole, Kind, Ask1, Tool
<1>3. p.ok /\ Tool(c) = "export_query" => Kind(c) \in Lenient("export_query")
  BY <1>1
<1>4. Becomes(c, After(c, p))
  OBVIOUS
<1> HIDE DEF p
<1> QED
  BY <1>2, <1>3, <1>4, QueryEnds

LEMMA RefuseOK ==
  ASSUME ToolsInv, NEW c \in Callers, Refuse(c)
  PROVE  Moves(c)
<1>1. call[c].phase \notin {"done", "panicked"} /\ Querying(Tool(c))
  BY DEF Refuse, Asks, Reads, Querying
<1>2. faults' \in Nat /\ faults' <= faults
  BY FaultHappens DEF Refuse
<1>3. PICK end \in {"refused", "unreached"} :
        Becomes(c, After(c, Returned(c, Reading(<<>>, 0, end))))
  BY DEF Refuse
<1>4. UNCHANGED <<store, schema, file, work>> /\ end \in Ends(Kind(c)) \ {"whole"}
  BY DEF Refuse, Ends
<1> QED
  BY <1>1, <1>2, <1>3, <1>4, NoAnswerOK

LEMMA ExpireOK ==
  ASSUME ToolsInv, NEW c \in Callers, Expire(c)
  PROVE  Moves(c)
<1>1. call[c].phase \notin {"done", "panicked"} /\ Querying(Tool(c))
  BY DEF Expire, Asks, Reads, Querying
<1>2. faults' \in Nat /\ faults' <= faults
  BY DEF Expire, ToolsInv
<1>3. /\ Becomes(c, After(c, Returned(c, Reading(<<>>, 0, "unreached"))))
      /\ UNCHANGED <<store, schema, file, work>> /\ "unreached" \in Ends(Kind(c)) \ {"whole"}
  BY DEF Expire, Ends
<1> QED
  BY <1>1, <1>2, <1>3, NoAnswerOK

-----------------------------------------------------------------------------
(* Reading the rows *)

LEMMA SendOK ==
  ASSUME ToolsInv, NEW c \in Callers, Send(c)
  PROVE  Moves(c)
<1> DEFINE x == call[c]
           r == work.requests[c]
           s == Statement(Kind(c), x.query)
           total == Cardinality({i \in store : Matches(s, i)})
           new(rows) == [x EXCEPT !.phase = "open", !.left = rows, !.total = total,
                                  !.whole[x.n] = rows]
<1>1. /\ x.phase = "waiting" /\ Querying(Tool(c)) /\ r.tool = Tool(c)
  BY DEF Send, Asks, Reads, Querying, Tool
<1>2. IsRequest(r) /\ GoodCall(x, file[c], r, Intact)
  BY CallersAsk
<1>3. CallOK(x, r)
  BY <1>1, <1>2 DEF GoodCall
<1>4. PICK rows \in Answers(s, store) : Becomes(c, new(rows))
  BY DEF Send
<1>5. rows \in Seq(Ids)
  <2>1. Kind(c) \in Kinds /\ IsQuery(x.query)
    BY <1>2, <1>3 DEF CallOK, IsRequest, Kind, Ask1
  <2>2. s.limit \in Nat /\ s.offset \in Nat
    BY <2>1, StatementBounds
  <2>3. store \subseteq Ids /\ IsFiniteSet(store)
    BY DEF ToolsInv
  <2> HIDE DEF s, new, total
  <2> QED
    BY <1>4, <2>2, <2>3, AnswersAreLists
<1> DEFINE y == new(rows)
<1> HIDE DEF s, x, r, total
<1>6. /\ DOMAIN y = Fields /\ y.phase = "open" /\ y.n = x.n /\ y.query = x.query
      /\ y.results = x.results /\ y.got = <<>> /\ y.left = rows
      /\ DOMAIN y.whole = DOMAIN r.reads /\ y.whole[x.n] = rows /\ x.n \in DOMAIN r.reads
      /\ \A m \in DOMAIN r.reads \ {x.n} : y.whole[m] = x.whole[m]
  BY <1>1, <1>3 DEF CallOK, Fields
<1> HIDE DEF y, new
<1>7. y.got \in Seq(Ids) /\ y.got \o y.left = y.whole[y.n]
  BY <1>5, <1>6
<1>8. ASSUME r.tool \in ReadTools, NEW m \in DOMAIN y.results
      PROVE  m \in DOMAIN r.reads /\ IsWhole(r, m, y.results[m], y.whole[m])
  <2>1. m \in DOMAIN r.reads /\ IsWhole(r, m, x.results[m], x.whole[m])
    BY <1>1, <1>3, <1>6, <1>8 DEF CallOK
  <2>2. m # x.n
    <3>1. IsList(x.results) /\ Len(x.results) = x.n - 1 /\ m \in DOMAIN x.results
      BY <1>1, <1>3, <1>6, <1>8 DEF CallOK
    <3>2. DOMAIN x.results = 1 .. Len(x.results) /\ Len(x.results) \in Nat
      BY <3>1, ListAppend
    <3>3. x.n \in Nat
      BY <1>2, <1>6, RequestFacts
    <3> QED
      BY <3>1, <3>2, <3>3
  <2> QED
    BY <1>6, <2>1, <2>2
<1>9. CallOK(y, r)
  BY <1>1, <1>3, <1>5, <1>6, <1>7, <1>8 DEF CallOK
<1>10. r.tool = "export_query" => ExportOK(y, file[c], r, Intact')
  BY <1>1, <1>2, <1>6 DEF GoodCall, ExportOK
<1>11. GoodCall(y, file[c], r, Intact')
  BY <1>1, <1>9, <1>10 DEF GoodCall
<1>12. faults' \in Nat /\ faults' <= faults /\ UNCHANGED <<store, schema, file, work>>
  BY DEF Send, ToolsInv
<1> QED
  BY <1>4, <1>11, <1>12, OnlyCallMoves DEF y, r

\* The answer of a call whose rows are being read.
LEMMA OpenCall ==
  ASSUME ToolsInv, NEW c \in Callers, call[c].phase = "open"
  PROVE  /\ Querying(Tool(c)) /\ CallOK(call[c], work.requests[c])
         /\ IsRequest(work.requests[c])
         /\ call[c].got \in Seq(Ids) /\ call[c].left \in Seq(Ids)
         /\ call[c].got \o call[c].left = call[c].whole[call[c].n]
         /\ ~Batched(c) => call[c].left = call[c].whole[call[c].n]
<1>1. IsRequest(work.requests[c]) /\ GoodCall(call[c], file[c], work.requests[c], Intact)
  BY CallersAsk
<1>2. Querying(Tool(c))
  BY <1>1 DEF GoodCall, DiscoveryOK, Tool
<1>3. CallOK(call[c], work.requests[c])
  BY <1>1, <1>2 DEF GoodCall, Tool
<1>4. /\ call[c].got \in Seq(Ids) /\ call[c].left \in Seq(Ids)
      /\ call[c].got \o call[c].left = call[c].whole[call[c].n]
      /\ ~Batched(c) => call[c].got = <<>>
  BY <1>3 DEF CallOK, Batched, Kind, Ask1, Tool
<1>5. <<>> \o call[c].left = call[c].left
  BY <1>4
<1> QED
  BY <1>1, <1>2, <1>3, <1>4, <1>5

\* A call whose rows were read to the end.
LEMMA AllReadOK ==
  ASSUME ToolsInv, NEW c \in Callers, call[c].phase = "open", Tool(c) # "export_query",
         NEW total,
         Becomes(c, After(c, Returned(c, Reading(call[c].whole[call[c].n], total, "whole")))),
         UNCHANGED <<store, schema, file, work>>, faults' \in Nat, faults' <= faults
  PROVE  Moves(c)
<1> DEFINE rows == call[c].whole[call[c].n]
           p == Returned(c, Reading(rows, total, "whole"))
<1>1. Querying(Tool(c)) /\ Kind(c) \in Kinds
  BY OpenCall DEF CallOK, IsRequest, Kind, Ask1
<1>2. p.ok /\ Tool(c) \in ReadTools => IsWhole(work.requests[c], call[c].n, p, rows)
  <2> SUFFICES ASSUME p.ok, Tool(c) \in ReadTools, Kind(c) \notin Lenient(Tool(c))
               PROVE  p.rows = rows
    BY DEF IsWhole, Kind, Ask1, Tool
  <2>1. Kind(c) \in Kinds \ Lenient(Tool(c)) /\ Tool(c) \in ReadTools \cup {"export_query"}
    BY <1>1
  <2>2. "whole" \in Ends(Kind(c))
    BY DEF Ends
  <2> HIDE DEF rows
  <2> QED
    BY <2>1, <2>2, ReturnedIsWhole
<1> HIDE DEF p
<1>3. Becomes(c, After(c, p))
  BY DEF p
<1> QED
  BY <1>1, <1>2, <1>3, QueryEnds

LEMMA ReadOK ==
  ASSUME ToolsInv, NEW c \in Callers, Read(c)
  PROVE  Moves(c)
<1>1. /\ call[c].phase = "open" /\ Tool(c) # "export_query" /\ ~Batched(c)
      /\ Becomes(c, After(c, Returned(c, Reading(call[c].left, call[c].total, "whole"))))
      /\ UNCHANGED <<store, schema, file, work>> /\ faults' \in Nat /\ faults' <= faults
  BY DEF Read, Close, ToolsInv
<1>2. call[c].left = call[c].whole[call[c].n]
  BY <1>1, OpenCall
<1> QED
  BY <1>1, <1>2, AllReadOK

LEMMA BreakOK ==
  ASSUME ToolsInv, NEW c \in Callers, Break(c)
  PROVE  Moves(c)
<1>1. /\ call[c].phase = "open" /\ Tool(c) # "export_query"
      /\ UNCHANGED <<store, schema, file, work>> /\ faults' \in Nat /\ faults' <= faults
  BY DEF Break, ToolsInv
<1>2. PICK end, rows :
        /\ end \in Breaks(Kind(c))
        /\ Becomes(c, After(c, Returned(c, Reading(rows, call[c].total, end))))
  BY DEF Break, Close
<1>3. /\ Querying(Tool(c)) /\ end \in Ends(Kind(c)) \ {"whole"}
      /\ call[c].phase \notin {"done", "panicked"}
  BY <1>1, <1>2, OpenCall DEF Ends, Breaks
<1> QED
  BY <1>1, <1>2, <1>3, NoAnswerOK

LEMMA BatchOK ==
  ASSUME NEW left \in Seq(Ids), NEW size \in Nat
  PROVE  LET b == NextBatch(left, size) IN
         /\ b.rows \in Seq(Ids) /\ b.left \in Seq(Ids) /\ b.rows \o b.left = left
         /\ ~b.more => b.rows = left
<1> DEFINE n == IF Len(left) < size THEN Len(left) ELSE size
           b == NextBatch(left, size)
<1>1. Len(left) \in Nat /\ n \in Nat /\ n <= Len(left) /\ (n # size => n = Len(left))
  BY LenProperties
<1>2. /\ b.rows = SubSeq(left, 1, n) /\ b.left = SubSeq(left, n + 1, Len(left))
      /\ b.more = (n = size)
  BY DEF NextBatch
<1> HIDE DEF n, b
<1> DEFINE s == SubSeq(left, 1, n)
           t == SubSeq(left, n + 1, Len(left))
<1>3. \A i \in 1 .. Len(left) : left[i] \in Ids
  BY ElementOfSeq
<1>4. s \in Seq(Ids)
  <2>1. \A i \in 1 .. n : left[i] \in Ids
    BY <1>1, <1>3
  <2> QED
    BY <1>1, <2>1, SubSeqProperties
<1>5. t \in Seq(Ids)
  <2>1. \A i \in n + 1 .. Len(left) : left[i] \in Ids
    BY <1>1, <1>3
  <2> QED
    BY <1>1, <2>1, SubSeqProperties
<1>6. SubSeq(left, 1, Len(left)) = left
  BY SubSeqFull
<1>7. s \o t = left
  <2>1. /\ 1 \in 1 .. Len(left) + 1 /\ n \in 0 .. Len(left)
        /\ Len(left) \in n .. Len(left) /\ 1 - 1 = 0
    BY <1>1
  <2> QED
    BY <1>6, <2>1, ConcatAdjacentSubSeq
<1>8. n # size => s = left
  BY <1>1, <1>6
<1> QED
  BY <1>2, <1>4, <1>5, <1>7, <1>8 DEF b

LEMMA JoinAgain ==
  \A s, t, u \in Seq(Ids) : (s \o t) \o u = s \o (t \o u)
BY ConcatAssociative

LEMMA ReadBatchOK ==
  ASSUME ToolsInv, NEW c \in Callers, ReadBatch(c)
  PROVE  Moves(c)
<1> DEFINE x == call[c]
           r == work.requests[c]
           b == NextBatch(x.left, r.size)
           got == x.got \o b.rows
           more == [x EXCEPT !.left = b.left, !.got = got]
<1>1. /\ x.phase = "open" /\ Batched(c) /\ Tool(c) = "stream_query" /\ r.tool = "stream_query"
      /\ Kind(c) \in SqlKinds \cup {"mongodb"}
      /\ UNCHANGED <<store, schema, file, work>> /\ faults' \in Nat /\ faults' <= faults
  BY DEF ReadBatch, Batched, ToolsInv, Tool
<1>2. /\ CallOK(x, r) /\ IsRequest(r)
      /\ x.got \in Seq(Ids) /\ x.left \in Seq(Ids) /\ x.got \o x.left = x.whole[x.n]
  BY <1>1, OpenCall
<1>3. /\ b.rows \in Seq(Ids) /\ b.left \in Seq(Ids) /\ b.rows \o b.left = x.left
      /\ ~b.more => b.rows = x.left
  <2>1. r.size \in Nat
    BY <1>2 DEF IsRequest
  <2> HIDE DEF x, r
  <2> QED
    BY <1>2, <2>1, BatchOK
<1>4. CASE ~b.more
  <2>1. got = x.whole[x.n]
    BY <1>2, <1>3, <1>4
  <2>2. Becomes(c, After(c, Returned(c, Reading(got, x.total, "whole"))))
    BY <1>4 DEF ReadBatch, Close
  <2>3. Becomes(c, After(c, Returned(c, Reading(call[c].whole[call[c].n], x.total, "whole"))))
    BY <2>1, <2>2
  <2> QED
    BY <1>1, <2>3, AllReadOK
<1>5. CASE b.more
  <2>1. Becomes(c, more)
    BY <1>5 DEF ReadBatch
  <2> HIDE DEF x, r, b
  <2>2. got \in Seq(Ids) /\ got \o b.left = x.whole[x.n]
    <3>1. x.got \in Seq(Ids) /\ b.rows \in Seq(Ids) /\ b.left \in Seq(Ids)
      BY <1>2, <1>3
    <3> HIDE DEF more, got
    <3>2. x.got \o b.rows \in Seq(Ids)
      BY <3>1, ConcatProperties
    <3>3. (x.got \o b.rows) \o b.left = x.got \o (b.rows \o b.left)
      BY <3>1, JoinAgain
    <3> QED
      BY <1>2, <1>3, <3>2, <3>3 DEF got
  <2> HIDE DEF got
  <2>3. /\ DOMAIN more = Fields /\ more.phase = "open" /\ more.n = x.n /\ more.query = x.query
        /\ more.results = x.results /\ more.got = got /\ more.left = b.left
        /\ more.whole = x.whole
    BY <1>1, <1>2 DEF CallOK, Fields
  <2> HIDE DEF more
  <2>4. CallOK(more, r)
    <3>1. r.reads[x.n].kind \in SqlKinds \cup {"mongodb"}
      BY <1>1 DEF Kind, Ask1, x, r
    <3>2. /\ more.got \in Seq(Ids) /\ more.left \in Seq(Ids)
          /\ more.got \o more.left = more.whole[more.n]
      BY <1>3, <2>2, <2>3
    <3> QED
      BY <1>1, <1>2, <2>3, <3>1, <3>2 DEF CallOK
  <2>5. GoodCall(more, file[c], r, Intact')
    BY <1>1, <2>4 DEF GoodCall, Querying
  <2> QED
    BY <1>1, <2>1, <2>5, OnlyCallMoves DEF r
<1> QED
  BY <1>4, <1>5

-----------------------------------------------------------------------------
(* Exports *)

\* All rows of a result have the same columns.
LEMMA RowsAreAlike ==
  ASSUME NEW kind, NEW query, NEW i, NEW j
  PROVE  /\ DOMAIN Row(kind, query, i) = DOMAIN Row(kind, query, j)
         /\ Row(kind, query, i)
              = [c \in DOMAIN Row(kind, query, i) |-> Row(kind, query, i)[c]]
<1>1. \A columns, k : /\ DOMAIN Cells(kind, columns, k) = columns
                      /\ Cells(kind, columns, k)
                           = [c \in columns |-> Cells(kind, columns, k)[c]]
  BY DEF Cells
<1>2. CASE kind = "elasticsearch"
  <2> DEFINE Hit(k) == [column \in Columns \cup {"_id", "_index"} |->
                          CASE column = "_id" -> <<"text", k>>
                            [] column = "_index" -> <<"text", Main>>
                            [] OTHER -> Convert(kind, column, Field(k, column))]
  <2>1. \A k : Row(kind, query, k) = Hit(k)
    BY <1>2 DEF Row
  <2>2. \A k : /\ DOMAIN Hit(k) = Columns \cup {"_id", "_index"}
               /\ Hit(k) = [column \in Columns \cup {"_id", "_index"} |-> Hit(k)[column]]
    OBVIOUS
  <2> HIDE DEF Hit
  <2> QED
    BY <2>1, <2>2
<1>3. CASE kind = "neo4j" /\ ~query.raw
  <2> DEFINE V(k) == <<"map", Cells(kind, {p \in Columns : Field(k, p) # Null}, k)>>
  <2>1. \A k : Row(kind, query, k) = [n |-> V(k)]
    BY <1>3 DEF Row
  <2> HIDE DEF V
  <2> QED
    BY <2>1
<1>4. CASE kind = "redis"
  <2>1. \A k : Row(kind, query, k) = [key |-> <<"text", k>>, type |-> <<"text", "string">>,
                                      value |-> <<"text", Group[k]>>,
                                      ttl |-> <<"text", "no expiry">>]
    BY <1>4 DEF Row
  <2> QED
    BY <2>1
<1>5. CASE kind \notin {"elasticsearch", "redis"} /\ ~(kind = "neo4j" /\ ~query.raw)
  <2>1. \A k : Row(kind, query, k) = Cells(kind, query.columns, k)
    BY <1>5 DEF Row
  <2> QED
    BY <1>1, <2>1
<1> QED
  BY <1>2, <1>3, <1>4, <1>5

LEMMA RecordsOfRows ==
  ASSUME NEW ask, NEW s \in Seq(Ids)
  PROVE  Records(Rows(ask, s)) = Rows(ask, s)
<1> DEFINE rows == Rows(ask, s)
<1>1. \A n \in DOMAIN rows : rows[n] = Row(ask.kind, ask.query, s[n])
  BY DEF Rows
<1>2. ASSUME NEW n \in DOMAIN rows
      PROVE  rows[n] = [c \in DOMAIN rows[1] |-> IF c \in DOMAIN rows[n] THEN rows[n][c] ELSE Null]
  <2>1. 1 \in DOMAIN rows
    <3>1. DOMAIN rows = 1 .. Len(s) /\ Len(s) \in Nat
      BY LenProperties DEF Rows
    <3> QED
      BY <3>1
  <2>2. DOMAIN rows[n] = DOMAIN rows[1]
    BY <1>1, <2>1, RowsAreAlike
  <2>3. rows[n] = [c \in DOMAIN rows[n] |-> rows[n][c]]
    BY <1>1, RowsAreAlike
  <2> HIDE DEF rows
  <2> QED
    BY <2>2, <2>3
<1>3. rows = [n \in DOMAIN rows |-> rows[n]]
  BY DEF Rows
<1> HIDE DEF rows
<1>4. Records(rows) = rows
  BY <1>2, <1>3 DEF Records
<1> QED
  BY <1>4 DEF rows

LEMMA ExportedOK ==
  ASSUME NEW format, NEW rows, Records(rows) = rows, NEW disk \in {"room", "full"},
         NEW e \in Export(format, rows, FALSE, disk, NoFile), e.ok
  PROVE  \/ e.file = File(rows)
         \/ format = "parquet" /\ rows = <<>> /\ e.file = NoFile
         \/ format = "csv" /\ disk = "full" /\ e.file \in {File(some) : some \in Prefixes(rows)}
<1> USE DEF Exported, NotExported
<1>1. CASE format = "csv"
  BY <1>1 DEF Export, ExportCSV
<1>2. CASE format = "jsonl"
  BY <1>2 DEF Export, ExportJSONL
<1>3. CASE format = "excel"
  BY <1>3 DEF Export, ExportExcel
<1>4. CASE format = "parquet"
  BY <1>4 DEF Export, ExportParquet
<1>5. CASE format \notin {"csv", "jsonl", "excel", "parquet"}
  <2>1. format # "csv" /\ format # "jsonl" /\ format # "excel" /\ format # "parquet"
    BY <1>5
  <2>2. Export(format, rows, FALSE, disk, NoFile) = {NotExported(NoFile)}
    BY <2>1 DEF Export
  <2>3. e = NotExported(NoFile)
    BY <2>2
  <2>4. ~e.ok
    BY <2>3
  <2> QED
    BY <2>4
<1> QED
  BY <1>1, <1>2, <1>3, <1>4, <1>5

LEMMA ExportRowsOK ==
  ASSUME ToolsInv, NEW c \in Callers, ExportRows(c)
  PROVE  Moves(c)
<1> DEFINE x == call[c]
           r == work.requests[c]
           Cut == Breaks(Kind(c))
           End(fault) == IF fault \in Cut THEN fault ELSE "whole"
           P(fault, some) == Returned(c, Reading(some, x.total, End(fault)))
           R(fault, some) == Rows(Ask1(c), IF P(fault, some).ok THEN P(fault, some).rows ELSE some)
           Disk(fault) == IF fault = "full" THEN "full" ELSE "room"
<1>1. x.phase = "open" /\ Tool(c) = "export_query" /\ r.tool = "export_query" /\ Querying(Tool(c))
  BY DEF ExportRows, Tool, Querying
<1>2. /\ GoodCall(x, file[c], r, Intact) /\ IsRequest(r)
      /\ x.n = 1 /\ file[c] = NoFile /\ x.left = x.whole[1] /\ x.left \in Seq(Ids)
      /\ Kind(c) \in Kinds /\ Ask1(c) = r.reads[1]
  <2>1. /\ CallOK(x, r) /\ IsRequest(r) /\ x.left \in Seq(Ids)
    BY <1>1, OpenCall
  <2>2. GoodCall(x, file[c], r, Intact)
    BY CallersAsk
  <2>3. x.n = 1 /\ file[c] = NoFile /\ x.left = x.whole[1]
    BY <1>1, <2>2 DEF GoodCall, ExportOK
  <2> QED
    BY <2>1, <2>2, <2>3 DEF CallOK, IsRequest, Kind, Ask1
<1>3. PICK fault \in {"none", "full"} \cup Cut, some \in Prefixes(x.left) :
        /\ Happens(fault) /\ (End(fault) = "whole" => some = x.left)
        /\ \E e \in IF NoStream(c, P(fault, some)) THEN {NotExported(file[c])}
                    ELSE Export(r.format, R(fault, some), ~P(fault, some).ok, Disk(fault),
                                file[c]) :
              /\ file' = [file EXCEPT ![c] = e.file]
              /\ Becomes(c, After(c, IF e.ok THEN Page(<<>>, FALSE, Null) ELSE Failed))
  BY DEF ExportRows, Close
<1> DEFINE p == P(fault, some)
<1>4. PICK e \in IF NoStream(c, p) THEN {NotExported(file[c])}
                 ELSE Export(r.format, R(fault, some), ~p.ok, Disk(fault), file[c]) :
        /\ file' = [file EXCEPT ![c] = e.file]
        /\ Becomes(c, After(c, IF e.ok THEN Page(<<>>, FALSE, Null) ELSE Failed))
  BY <1>3
<1> DEFINE q == IF e.ok THEN Page(<<>>, FALSE, Null) ELSE Failed
<1>5. UNCHANGED <<store, schema, work>>
  BY DEF ExportRows
<1>6. faults' \in Nat /\ faults' <= faults /\ (Intact' => fault = "none")
  BY <1>3, <1>5, FaultHappens
<1>7. ASSUME p.ok, Kind(c) \notin Lenient("export_query")
      PROVE  p.rows = x.left
  <2>1. Kind(c) \in Kinds \ Lenient(Tool(c)) /\ Tool(c) \in ReadTools \cup {"export_query"}
    BY <1>1, <1>2, <1>7
  <2>2. End(fault) \in Ends(Kind(c))
    BY DEF Ends, Breaks
  <2>3. Returned(c, Reading(some, x.total, End(fault))).ok
    BY <1>7
  <2> HIDE DEF End, P, R
  <2>4. End(fault) = "whole" /\ Returned(c, Reading(some, x.total, End(fault))).rows = some
    BY <2>1, <2>2, <2>3, ReturnedIsWhole
  <2> QED
    BY <1>3, <2>4 DEF P
<1> HIDE DEF p, P, R, x, r, End, Cut
<1>8. ASSUME e.ok, Kind(c) \notin Lenient("export_query")
      PROVE  FileOK(e.file, r, x.whole[1], Intact')
  <2>1. e \in Export(r.format, R(fault, some), ~p.ok, Disk(fault), NoFile)
    BY <1>2, <1>4, <1>8 DEF NotExported
  <2>2. p.ok
    <3>1. CASE ~p.ok
      <4>1. e \in Export(r.format, R(fault, some), TRUE, Disk(fault), NoFile)
        BY <2>1, <3>1
      <4>2. ~e.ok
        BY <4>1 DEF Export, ExportCSV, ExportJSONL, ExportExcel, ExportParquet, NotExported
      <4> QED
        BY <1>8, <4>2
    <3> QED
      BY <3>1
  <2>3. p.rows = x.left
    BY <1>7, <1>8, <2>2
  <2> DEFINE rows == Rows(r.reads[1], x.whole[1])
  <2>4. R(fault, some) = rows
    BY <1>2, <2>2, <2>3 DEF R, p
  <2>5. Records(rows) = rows
    BY <1>2, RecordsOfRows
  <2>6. e \in Export(r.format, rows, FALSE, Disk(fault), NoFile)
    BY <2>1, <2>2, <2>4
  <2> HIDE DEF rows
  <2>7. Disk(fault) \in {"room", "full"}
    OBVIOUS
  <2> HIDE DEF Disk, q
  <2>8. \/ e.file = File(rows)
        \/ r.format = "parquet" /\ rows = <<>> /\ e.file = NoFile
        \/ /\ r.format = "csv" /\ Disk(fault) = "full"
           /\ e.file \in {File(part) : part \in Prefixes(rows)}
    BY <1>8, <2>5, <2>6, <2>7, ExportedOK
  <2>9. Disk(fault) = "full" => ~Intact'
    BY <1>6 DEF Disk
  <2> QED
    BY <2>8, <2>9 DEF FileOK, rows
<1>9. q.ok => e.ok
  BY DEF Failed
<1>10. file'[c] = e.file /\ DOMAIN file' = Callers /\ \A d \in Callers \ {c} : file'[d] = file[d]
  BY <1>4 DEF ToolsInv
<1> HIDE DEF q
<1>11. q.ok /\ Tool(c) = "export_query" /\ Kind(c) \notin Lenient("export_query") =>
         FileOK(e.file, r, x.whole[1], Intact')
  BY <1>8, <1>9
<1>12. Tool(c) \notin ReadTools /\ x.phase \notin {"done", "panicked"}
  BY <1>1 DEF ReadTools
<1>13. GoodCall(After(c, q), e.file, r, Intact')
  BY <1>1, <1>2, <1>11, <1>12, AfterGood DEF x, r
<1>14. Becomes(c, After(c, q))
  BY <1>4 DEF q
<1> QED
  BY <1>5, <1>6, <1>10, <1>13, <1>14 DEF Moves, r

-----------------------------------------------------------------------------
(* Discoveries *)

LEMMA PartsAreAList == \A kind \in Kinds : IsList(Parts(kind))
<1> TAKE kind \in Kinds
<1> DEFINE All == {"columns", "key", "refs", "indexes", "count"}
<1>1. Parts(kind) \in Seq(All)
  <2>1. /\ <<"columns", "key", "refs", "indexes", "count">> \in Seq(All)
        /\ <<"columns", "key", "indexes", "count">> \in Seq(All)
        /\ <<"columns", "count">> \in Seq(All) /\ <<"columns">> \in Seq(All)
        /\ <<"count">> \in Seq(All) /\ <<>> \in Seq(All)
    OBVIOUS
  <2>2. /\ PostgresParts \in Seq(All) /\ MySqlParts \in Seq(All) /\ SqliteParts \in Seq(All)
        /\ SqlServerParts \in Seq(All) /\ ClickHouseParts \in Seq(All) /\ MongoParts \in Seq(All)
        /\ ElasticParts \in Seq(All) /\ CassandraParts \in Seq(All) /\ Neo4jParts \in Seq(All)
    BY <2>1 DEF PostgresParts, MySqlParts, SqliteParts, SqlServerParts, ClickHouseParts,
                MongoParts, ElasticParts, CassandraParts, Neo4jParts
  <2> HIDE DEF All
  <2>3. CASE kind \in SqlKinds
    BY <2>2, <2>3 DEF Parts, SqlKinds
  <2>4. CASE kind \in {"mongodb", "elasticsearch", "cassandra", "neo4j"}
    BY <2>2, <2>4 DEF Parts
  <2>5. CASE kind \in {"redis", "couchdb", "influxdb"}
    BY <2>1, <2>5 DEF Parts
  <2> QED
    BY <2>3, <2>4, <2>5 DEF Kinds
<1> HIDE DEF All
<1> QED
  BY <1>1, ListOf

\* Every part of every table that was found is asked for.
LEMMA TodoOK ==
  ASSUME NEW kind \in Kinds, NEW found, found \subseteq Range(Tables)
  PROVE  /\ Todo(kind, found) \in Seq(found \X Range(Parts(kind)))
         /\ \A t \in found, p \in Range(Parts(kind)) : <<t, p>> \in Range(Todo(kind, found))
<1> DEFINE parts == Parts(kind)
           E == found \X Range(parts)
           OfTable(t) == IF t \in found THEN [n \in DOMAIN parts |-> <<t, parts[n]>>] ELSE <<>>
<1>1. DOMAIN parts = 1 .. Len(parts) /\ Len(parts) \in Nat
  BY PartsAreAList, LenProperties DEF IsList
<1>2. \A t : OfTable(t) \in Seq(E)
  <2> TAKE t
  <2>1. CASE t \in found
    <3>1. \A n \in DOMAIN parts : <<t, parts[n]>> \in E
      BY <2>1 DEF Range
    <3>2. OfTable(t) \in [1 .. Len(parts) -> E]
      BY <1>1, <2>1, <3>1
    <3> HIDE DEF OfTable, E
    <3> QED
      BY <1>1, <3>2
  <2>2. CASE t \notin found
    BY <2>2
  <2> QED
    BY <2>1, <2>2
<1>3. Todo(kind, found) = OfTable(Tables[1]) \o OfTable(Tables[2])
  BY DEF Todo
<1>4. ASSUME NEW t \in found, NEW p \in Range(parts) PROVE <<t, p>> \in Range(OfTable(t))
  <2>1. PICK n \in DOMAIN parts : p = parts[n]
    BY DEF Range
  <2>2. n \in DOMAIN OfTable(t) /\ OfTable(t)[n] = <<t, p>>
    BY <2>1
  <2> HIDE DEF OfTable
  <2> QED
    BY <2>2 DEF Range
<1>5. Range(Tables) = {Tables[1], Tables[2]}
  BY DEF Tables, Range
<1>6. \A t : OfTable(t) \in Seq(E)
  BY <1>2
<1> HIDE DEF OfTable, E, parts
<1> DEFINE a == OfTable(Tables[1])
           b == OfTable(Tables[2])
<1>7. a \in Seq(E) /\ b \in Seq(E)
  BY <1>6
<1>8. /\ a \o b \in Seq(E) /\ Len(a) \in Nat /\ Len(b) \in Nat
      /\ DOMAIN a = 1 .. Len(a) /\ DOMAIN b = 1 .. Len(b) /\ DOMAIN (a \o b) = 1 .. Len(a) + Len(b)
      /\ \A i \in 1 .. Len(a) + Len(b) : (a \o b)[i] = IF i <= Len(a) THEN a[i] ELSE b[i - Len(a)]
  <2> HIDE DEF a, b
  <2>1. /\ a \o b \in Seq(E) /\ Len(a \o b) = Len(a) + Len(b)
        /\ \A i \in 1 .. Len(a) + Len(b) : (a \o b)[i] = IF i <= Len(a) THEN a[i] ELSE b[i - Len(a)]
    BY <1>7, ConcatProperties
  <2> QED
    BY <1>7, <2>1, LenProperties
<1>9. Range(a) \subseteq Range(a \o b) /\ Range(b) \subseteq Range(a \o b)
  <2> HIDE DEF a, b
  <2>1. \A i \in DOMAIN a : i \in DOMAIN (a \o b) /\ (a \o b)[i] = a[i]
    BY <1>8
  <2>2. \A i \in DOMAIN b : Len(a) + i \in DOMAIN (a \o b) /\ (a \o b)[Len(a) + i] = b[i]
    BY <1>8
  <2> QED
    BY <2>1, <2>2 DEF Range
<1> QED
  BY <1>3, <1>4, <1>5, <1>8, <1>9 DEF E, parts

LEMMA DiscoveryEndsOK ==
  ASSUME ToolsInv, NEW c \in Callers, ~Querying(Tool(c)), NEW p, Becomes(c, After(c, p)),
         UNCHANGED <<store, schema, file, work>>, faults' \in Nat, faults' <= faults
  PROVE  Moves(c)
<1>1. IsRequest(work.requests[c]) /\ DiscoveryOK(call[c], work.requests[c], Intact)
  BY CallersAsk DEF GoodCall, Tool
<1>2. GoodCall(After(c, p), file[c], work.requests[c], Intact')
  BY <1>1, DiscoveryEnds
<1> QED
  BY <1>2, OnlyCallMoves

LEMMA DescribeOK ==
  ASSUME ToolsInv, NEW c \in Callers, DescribeDatabases(c) \/ DescribeTables(c)
  PROVE  Moves(c)
<1>1. PICK p : Becomes(c, After(c, p))
  BY DEF DescribeDatabases, DescribeTables
<1>2. ~Querying(Tool(c)) /\ UNCHANGED <<store, schema, file, work>>
  BY DEF DescribeDatabases, DescribeTables, Querying
<1>3. faults' \in Nat /\ faults' <= faults
  <2>1. CASE DescribeDatabases(c)
    BY <1>2, <2>1, FaultHappens DEF DescribeDatabases
  <2>2. CASE DescribeTables(c)
    BY <2>2 DEF DescribeTables, ToolsInv
  <2> QED
    BY <2>1, <2>2
<1> QED
  BY <1>1, <1>2, <1>3, DiscoveryEndsOK

LEMMA NothingFound ==
  ASSUME NEW kind \in Kinds, NEW tables, tables \subseteq Range(Tables), NEW i,
         Complete(kind, i) => tables = DOMAIN Whole(kind)
  PROVE  FoundOK(kind, [t \in tables |-> [p \in {} |-> {}]], Todo(kind, tables), i)
<1> DEFINE found == [t \in tables |-> [p \in {} |-> {}]]
           todo == Todo(kind, tables)
<1>1. /\ todo \in Seq(tables \X Range(Parts(kind)))
      /\ \A t \in tables, p \in Range(Parts(kind)) : <<t, p>> \in Range(todo)
  BY TodoOK
<1>2. DOMAIN found = tables
  OBVIOUS
<1> HIDE DEF found, todo
<1>3. IsList(todo)
  BY <1>1, ListOf
<1>4. \A n \in DOMAIN todo : todo[n] \in tables \X Range(Parts(kind))
  BY <1>1, ElementOfSeq, LenProperties
<1>5. \A n \in DOMAIN todo :
        /\ todo[n] = <<todo[n][1], todo[n][2]>>
        /\ todo[n][1] \in tables /\ todo[n][2] \in Range(Parts(kind))
  BY <1>4
<1>6. Sure(kind, i) \subseteq Range(Parts(kind))
  BY DEF Sure
<1>7. FoundOK(kind, found, todo, i)
  BY <1>1, <1>2, <1>3, <1>5, <1>6 DEF FoundOK
<1> QED
  BY <1>7 DEF found, todo

LEMMA ListTail ==
  ASSUME NEW s, IsList(s), s # <<>>
  PROVE  /\ IsList(Tail(s)) /\ 1 \in DOMAIN s /\ Head(s) = s[1]
         /\ \A i \in DOMAIN Tail(s) : i + 1 \in DOMAIN s /\ Tail(s)[i] = s[i + 1]
         /\ \A i \in DOMAIN s \ {1} : i - 1 \in DOMAIN Tail(s) /\ Tail(s)[i - 1] = s[i]
<1> DEFINE S == Range(s)
           t == Tail(s)
<1>1. s \in Seq(S)
  BY DEF IsList
<1> HIDE DEF S
<1>2. /\ t \in Seq(S) /\ Len(t) = Len(s) - 1
      /\ \A i \in 1 .. Len(t) : t[i] = s[i + 1]
  BY <1>1, HeadTailProperties
<1>3. /\ Len(s) \in Nat /\ Len(s) # 0 /\ Len(t) \in Nat
      /\ DOMAIN s = 1 .. Len(s) /\ DOMAIN t = 1 .. Len(t)
  BY <1>1, <1>2, LenProperties, EmptySeq
<1>4. Head(s) = s[1]
  BY <1>1
<1> HIDE DEF t
<1>5. IsList(t)
  BY <1>2, ListOf
<1>6. \A i \in DOMAIN s \ {1} : i - 1 \in DOMAIN t /\ t[i - 1] = s[i]
  <2> TAKE i \in DOMAIN s \ {1}
  <2>1. i - 1 \in 1 .. Len(t) /\ (i - 1) + 1 = i
    BY <1>2, <1>3
  <2> QED
    BY <1>2, <1>3, <2>1
<1>7. \A i \in DOMAIN t : i + 1 \in DOMAIN s /\ t[i] = s[i + 1]
  BY <1>2, <1>3
<1> QED
  BY <1>3, <1>4, <1>5, <1>6, <1>7 DEF t

\* g is found with the part p of the table t, which is v.
PartAdded(found, t, p, v, g) ==
    /\ DOMAIN g = DOMAIN found /\ \A u \in DOMAIN found \ {t} : g[u] = found[u]
    /\ g[t] = [q \in DOMAIN found[t] \cup {p} |-> IF q = p THEN v ELSE found[t][q]]

LEMMA PartFound ==
  \A k, found, todo, i, t, p, v, g :
    /\ FoundOK(k, found, todo, i) /\ todo # <<>> /\ Head(todo) = <<t, p>>
    /\ p \in Sure(k, i) => v = Catalog[t][p]
    /\ PartAdded(found, t, p, v, g)
    => FoundOK(k, g, Tail(todo), i)
<1> TAKE k, found, todo, i, t, p, v, g
<1> HAVE /\ FoundOK(k, found, todo, i) /\ todo # <<>> /\ Head(todo) = <<t, p>>
         /\ p \in Sure(k, i) => v = Catalog[t][p]
         /\ PartAdded(found, t, p, v, g)
<1>a. /\ DOMAIN g = DOMAIN found /\ \A u \in DOMAIN found \ {t} : g[u] = found[u]
      /\ g[t] = [q \in DOMAIN found[t] \cup {p} |-> IF q = p THEN v ELSE found[t][q]]
  BY DEF PartAdded
<1>1. /\ IsList(Tail(todo)) /\ 1 \in DOMAIN todo /\ todo[1] = <<t, p>>
      /\ \A n \in DOMAIN Tail(todo) : n + 1 \in DOMAIN todo /\ Tail(todo)[n] = todo[n + 1]
      /\ \A n \in DOMAIN todo \ {1} : n - 1 \in DOMAIN Tail(todo) /\ Tail(todo)[n - 1] = todo[n]
  BY ListTail DEF FoundOK
<1> DEFINE rest == Tail(todo)
<1> HIDE DEF rest
<1>2. \A n \in DOMAIN rest :
        /\ rest[n] = <<rest[n][1], rest[n][2]>>
        /\ rest[n][1] \in DOMAIN g /\ rest[n][2] \in Range(Parts(k))
  BY <1>a, <1>1 DEF FoundOK, rest
<1>3. ASSUME NEW u \in DOMAIN g, NEW q \in Sure(k, i)
      PROVE  \/ q \in DOMAIN g[u] /\ g[u][q] = Catalog[u][q]
             \/ <<u, q>> \in Range(rest)
  <2>1. CASE u = t /\ q = p
    BY <1>a, <1>3, <2>1
  <2>2. CASE <<u, q>> # <<t, p>> /\ <<u, q>> \in Range(todo)
    <3>1. PICK n \in DOMAIN todo : todo[n] = <<u, q>>
      BY <2>2 DEF Range
    <3>2. n # 1
      BY <1>1, <2>2, <3>1
    <3>3. n - 1 \in DOMAIN rest /\ rest[n - 1] = <<u, q>>
      BY <1>1, <3>1, <3>2 DEF rest
    <3> QED
      BY <3>3 DEF Range
  <2>3. CASE ~(u = t /\ q = p) /\ q \in DOMAIN found[u] /\ found[u][q] = Catalog[u][q]
    <3>1. CASE u = t
      BY <1>a, <2>3, <3>1
    <3>2. CASE u # t
      BY <1>a, <1>3, <2>3, <3>2
    <3> QED
      BY <3>1, <3>2
  <2>4. \/ q \in DOMAIN found[u] /\ found[u][q] = Catalog[u][q]
        \/ <<u, q>> \in Range(todo)
    BY <1>a, <1>3 DEF FoundOK
  <2> QED
    BY <2>1, <2>2, <2>3, <2>4
<1>4. IsList(rest)
  BY <1>1 DEF rest
<1>5. DOMAIN g \subseteq Range(Tables) /\ (Complete(k, i) => DOMAIN g = DOMAIN Whole(k))
  BY <1>a DEF FoundOK
<1> QED
  BY <1>2, <1>3, <1>4, <1>5 DEF FoundOK, rest

\* What is known of a call that discovers.
LEMMA DiscoveringCall ==
  ASSUME ToolsInv, NEW c \in Callers, call[c].phase \in {"discovering", "indexes"}
  PROVE  /\ ~Querying(Tool(c)) /\ Kind(c) \in Kinds
         /\ DiscoveryOK(call[c], work.requests[c], Intact)
         /\ FoundOK(Kind(c), call[c].found, call[c].todo, Intact)
         /\ call[c].phase = "indexes" =>
              call[c].todo # <<>> /\ Head(call[c].todo)[2] = "indexes" /\ Kind(c) = "sqlite"
<1>1. IsRequest(work.requests[c]) /\ GoodCall(call[c], file[c], work.requests[c], Intact)
  BY CallersAsk
<1>2. ~Querying(Tool(c))
  BY <1>1 DEF GoodCall, CallOK, Tool
<1>3. DiscoveryOK(call[c], work.requests[c], Intact)
  BY <1>1, <1>2 DEF GoodCall, Tool
<1> QED
  BY <1>1, <1>2, <1>3 DEF DiscoveryOK, IsRequest, Kind, Ask1

LEMMA HeadOfTodo ==
  ASSUME ToolsInv, NEW c \in Callers, call[c].phase \in {"discovering", "indexes"},
         call[c].todo # <<>>
  PROVE  /\ Head(call[c].todo) = <<Head(call[c].todo)[1], Head(call[c].todo)[2]>>
         /\ Head(call[c].todo)[2] \in Range(Parts(Kind(c)))
<1>1. FoundOK(Kind(c), call[c].found, call[c].todo, Intact)
  BY DiscoveringCall
<1>2. 1 \in DOMAIN call[c].todo /\ Head(call[c].todo) = call[c].todo[1]
  BY <1>1, ListTail DEF FoundOK
<1> QED
  BY <1>1, <1>2 DEF FoundOK

\* The outcome o of a part keeps what was found right, if o is right where that is sure.
LEMMA FoundIsGood ==
  ASSUME ToolsInv, NEW c \in Callers, call[c].phase \in {"discovering", "indexes"},
         call[c].todo # <<>>, Intact' => Intact, NEW o,
         o # <<>> /\ Head(call[c].todo)[2] \in Sure(Kind(c), Intact') =>
           o[1] = Catalog[Head(call[c].todo)[1]][Head(call[c].todo)[2]]
  PROVE  GoodCall(Found(c, o), file[c], work.requests[c], Intact')
<1> DEFINE x == call[c]
           r == work.requests[c]
           t == Head(x.todo)[1]
           p == Head(x.todo)[2]
<1>1. /\ ~Querying(Tool(c)) /\ Kind(c) \in Kinds /\ DiscoveryOK(x, r, Intact)
      /\ FoundOK(Kind(c), x.found, x.todo, Intact)
  BY DiscoveringCall
<1>2. CASE o = <<>>
  <2>1. Found(c, o) = After(c, Page(<<>>, FALSE, Null))
    BY <1>2 DEF Found, Annotated
  <2>2. IsRequest(r)
    BY CallersAsk
  <2> QED
    BY <1>1, <2>1, <2>2, DiscoveryEnds
<1>3. CASE o # <<>>
  <2> DEFINE y == [x EXCEPT !.phase = "discovering", !.todo = Tail(@),
                            !.found[t] = [q \in DOMAIN @ \cup {p} |->
                                            IF q = p THEN o[1] ELSE @[q]]]
  <2>1. Found(c, o) = y
    BY <1>3 DEF Found
  <2>2. FoundOK(Kind(c), x.found, x.todo, Intact')
    BY <1>1, FoundWeakens
  <2>3. t \in DOMAIN x.found
    <3>1. 1 \in DOMAIN x.todo /\ x.todo[1] = Head(x.todo)
      BY <2>2, ListTail DEF FoundOK
    <3> QED
      BY <2>2, <3>1 DEF FoundOK
  <2>4. Head(x.todo) = <<t, p>>
    BY HeadOfTodo
  <2>5. x.todo # <<>> /\ (p \in Sure(Kind(c), Intact') => o[1] = Catalog[t][p])
    BY <1>3
  <2> HIDE DEF x, r, t, p
  <2>6. /\ DOMAIN y = Fields /\ y.phase = "discovering" /\ y.n = x.n /\ y.todo = Tail(x.todo)
        /\ PartAdded(x.found, t, p, o[1], y.found)
    BY <1>1, <2>3 DEF DiscoveryOK, Fields, PartAdded
  <2> HIDE DEF y
  <2>7. FoundOK(Kind(c), y.found, Tail(x.todo), Intact')
    BY <2>2, <2>4, <2>5, <2>6, PartFound
  <2>8. Kind(c) = r.reads[x.n].kind /\ r.tool = Tool(c) /\ x.n \in DOMAIN r.reads
    BY <1>1 DEF DiscoveryOK, Kind, Ask1, Tool, x, r
  <2>9. DiscoveryOK(y, r, Intact')
    BY <2>6, <2>7, <2>8 DEF DiscoveryOK
  <2> QED
    BY <1>1, <2>1, <2>8, <2>9 DEF GoodCall, Querying, r
<1> QED
  BY <1>2, <1>3

LEMMA DiscoverTablesOK ==
  ASSUME ToolsInv, NEW c \in Callers, DiscoverTables(c)
  PROVE  Moves(c)
<1> DEFINE x == call[c]
           r == work.requests[c]
           y(o) == [x EXCEPT !.phase = "discovering", !.found = [t \in o[1] |-> [p \in {} |-> {}]],
                             !.todo = Todo(Kind(c), o[1])]
<1>1. /\ x.phase = "waiting" /\ Tool(c) = "annotate_schema"
      /\ ~Querying(Tool(c)) /\ r.tool = Tool(c)
      /\ UNCHANGED <<store, schema, file, work>>
  BY DEF DiscoverTables, Querying, Tool
<1>2. PICK fault \in {"none", "refused", "broken"} :
        /\ Happens(fault)
        /\ \E o \in Listing(Kind(c), Range(Tables), fault) :
              Becomes(c, IF o = <<>> THEN Annotated(c) ELSE y(o))
  BY DEF DiscoverTables
<1>3. PICK o \in Listing(Kind(c), Range(Tables), fault) :
        Becomes(c, IF o = <<>> THEN Annotated(c) ELSE y(o))
  BY <1>2
<1>4. faults' \in Nat /\ faults' <= faults /\ (Intact' => Intact /\ fault = "none")
  BY <1>1, <1>2, FaultHappens
<1>5. CASE o = <<>>
  <2>1. Becomes(c, After(c, Page(<<>>, FALSE, Null)))
    BY <1>3, <1>5 DEF Annotated
  <2> QED
    BY <1>1, <1>4, <2>1, DiscoveryEndsOK
<1>6. CASE o # <<>>
  <2>1. DiscoveryOK(x, r, Intact) /\ IsRequest(r)
    BY <1>1, CallersAsk DEF GoodCall, Querying
  <2>2. Kind(c) \in Kinds /\ Kind(c) = r.reads[x.n].kind
    BY <2>1 DEF DiscoveryOK, IsRequest, Kind, Ask1
  <2>3. /\ o[1] \subseteq Range(Tables)
        /\ fault = "none" \/ Kind(c) \in SqlKinds => o[1] = DOMAIN Whole(Kind(c))
    <3> HIDE DEF y
    <3> QED
      BY <1>6, <2>2, ListingOK
  <2>4. Complete(Kind(c), Intact') => o[1] = DOMAIN Whole(Kind(c))
    BY <1>4, <2>3 DEF Complete
  <2> DEFINE k == Kind(c)
             tables == o[1]
             i == Intact'
  <2>5. /\ k \in Kinds /\ tables \subseteq Range(Tables)
        /\ (Complete(k, i) => tables = DOMAIN Whole(k))
    BY <2>2, <2>3, <2>4
  <2>6. FoundOK(k, [t \in tables |-> [p \in {} |-> {}]], Todo(k, tables), i)
    <3> HIDE DEF k, tables, i, y
    <3> QED
      BY <2>5, NothingFound
  <2>7. /\ DOMAIN y(o) = Fields /\ y(o).phase = "discovering" /\ y(o).n = x.n
        /\ y(o).found = [t \in o[1] |-> [p \in {} |-> {}]] /\ y(o).todo = Todo(Kind(c), o[1])
    <3> HIDE DEF x
    <3> QED
      BY <2>1 DEF DiscoveryOK, Fields
  <2>8. DiscoveryOK(y(o), r, Intact')
    <3> HIDE DEF y, x, r
    <3> QED
      BY <2>1, <2>2, <2>6, <2>7 DEF DiscoveryOK
  <2>9. GoodCall(y(o), file[c], r, Intact')
    <3> HIDE DEF y, x, r
    <3> QED
      BY <1>1, <2>8 DEF GoodCall, Querying
  <2>10. Becomes(c, y(o))
    BY <1>3, <1>6
  <2> HIDE DEF y
  <2> QED
    BY <1>1, <1>4, <2>9, <2>10, OnlyCallMoves
<1> QED
  BY <1>5, <1>6

\* A call that discovers, after the outcome o of a part.
LEMMA OutcomeOK ==
  ASSUME ToolsInv, NEW c \in Callers, call[c].phase \in {"discovering", "indexes"},
         call[c].todo # <<>>, NEW o, Becomes(c, Found(c, o)),
         o # <<>> /\ Head(call[c].todo)[2] \in Sure(Kind(c), Intact') =>
           o[1] = Catalog[Head(call[c].todo)[1]][Head(call[c].todo)[2]],
         UNCHANGED <<store, schema, file, work>>, faults' \in Nat, faults' <= faults,
         Intact' => Intact
  PROVE  Moves(c)
<1>1. GoodCall(Found(c, o), file[c], work.requests[c], Intact')
  BY FoundIsGood
<1> QED
  BY <1>1, OnlyCallMoves

LEMMA DiscoverPartOK ==
  ASSUME ToolsInv, NEW c \in Callers, DiscoverPart(c)
  PROVE  Moves(c)
<1> DEFINE x == call[c]
           r == work.requests[c]
           t == Head(x.todo)[1]
           p == Head(x.todo)[2]
           y == [x EXCEPT !.phase = "indexes"]
           z == [x EXCEPT !.phase = "panicked"]
<1>1. /\ x.phase = "discovering" /\ x.todo # <<>> /\ UNCHANGED <<store, schema, file, work>>
  BY DEF DiscoverPart
<1>2. PICK fault \in {"none", "refused", "broken"} :
        /\ Happens(fault)
        /\ IF Nested(c) /\ fault # "refused" THEN Becomes(c, y)
           ELSE \/ Becomes(c, z)
                \/ \E o \in Part(Kind(c), p, Catalog[t][p], fault) : Becomes(c, Found(c, o))
  BY DEF DiscoverPart
<1>3. faults' \in Nat /\ faults' <= faults /\ (Intact' => Intact /\ fault = "none")
  BY <1>1, <1>2, FaultHappens
<1>4. /\ ~Querying(Tool(c)) /\ Kind(c) \in Kinds /\ DiscoveryOK(x, r, Intact)
      /\ FoundOK(Kind(c), x.found, x.todo, Intact) /\ p \in Range(Parts(Kind(c)))
      /\ r.tool = Tool(c) /\ Kind(c) = r.reads[x.n].kind
  BY <1>1, DiscoveringCall, HeadOfTodo DEF Tool, Kind, Ask1
<1>5. CASE Nested(c) /\ fault # "refused"
  <2>1. Becomes(c, y) /\ Kind(c) = "sqlite" /\ p = "indexes"
    BY <1>2, <1>5 DEF Nested
  <2>2. FoundOK(Kind(c), x.found, x.todo, Intact')
    BY <1>3, <1>4, FoundWeakens
  <2>3. /\ DOMAIN y = Fields /\ y.phase = "indexes" /\ y.n = x.n /\ y.todo = x.todo
        /\ y.found = x.found
    BY <1>4 DEF DiscoveryOK, Fields
  <2>4. DiscoveryOK(y, r, Intact')
    <3> HIDE DEF y, r
    <3> QED
      BY <1>1, <1>4, <2>1, <2>2, <2>3 DEF DiscoveryOK
  <2>5. GoodCall(y, file[c], r, Intact')
    <3> HIDE DEF y, r
    <3> QED
      BY <1>4, <2>4 DEF GoodCall, Querying
  <2> HIDE DEF y
  <2> QED
    BY <1>1, <1>3, <2>1, <2>5, OnlyCallMoves
<1>6. CASE Becomes(c, z)
  <2>1. DOMAIN z = Fields /\ z.phase = "panicked" /\ z.n = x.n
    BY <1>4 DEF DiscoveryOK, Fields
  <2>2. DiscoveryOK(z, r, Intact')
    <3> HIDE DEF z, r
    <3> QED
      BY <1>4, <2>1 DEF DiscoveryOK
  <2>3. GoodCall(z, file[c], r, Intact')
    <3> HIDE DEF z, r
    <3> QED
      BY <1>4, <2>2 DEF GoodCall, Querying
  <2> HIDE DEF z
  <2> QED
    BY <1>1, <1>3, <1>6, <2>3, OnlyCallMoves
<1>7. CASE ~(Nested(c) /\ fault # "refused") /\ ~Becomes(c, z)
  <2>1. PICK o \in Part(Kind(c), p, Catalog[t][p], fault) : Becomes(c, Found(c, o))
    BY <1>2, <1>7
  <2>2. ASSUME o # <<>>, p \in Sure(Kind(c), Intact') PROVE o[1] = Catalog[t][p]
    <3>1. p \in Sure(Kind(c), fault = "none")
      BY <1>3, <2>2 DEF Sure
    <3> DEFINE v == Catalog[t][p]
    <3>2. o \in Part(Kind(c), p, v, fault)
      BY <2>1
    <3> HIDE DEF v, p
    <3>3. o[1] = v
      BY <1>4, <2>2, <3>1, <3>2, PartOK
    <3> QED
      BY <3>3 DEF v
  <2> QED
    BY <1>1, <1>3, <2>1, <2>2, OutcomeOK
<1> QED
  BY <1>5, <1>6, <1>7

LEMMA DiscoverIndexColumnsOK ==
  ASSUME ToolsInv, NEW c \in Callers, DiscoverIndexColumns(c)
  PROVE  Moves(c)
<1> DEFINE x == call[c]
           t == Head(x.todo)[1]
           p == Head(x.todo)[2]
           indexes == Catalog[t].indexes
<1>1. x.phase = "indexes" /\ UNCHANGED <<store, schema, file, work>>
  BY DEF DiscoverIndexColumns
<1>2. PICK fault \in {"none", "refused", "broken"} :
        /\ Happens(fault)
        /\ \E o \in SqliteIndexColumns(indexes, fault)
                    \cup (IF fault = "broken" THEN SqliteIndexes(indexes, fault) ELSE {}) :
              Becomes(c, Found(c, o))
  BY DEF DiscoverIndexColumns
<1>3. faults' \in Nat /\ faults' <= faults /\ (Intact' => Intact /\ fault = "none")
  BY <1>1, <1>2, FaultHappens
<1>4. x.todo # <<>> /\ p = "indexes" /\ Kind(c) = "sqlite"
  BY <1>1, DiscoveringCall
<1>5. PICK o \in SqliteIndexColumns(indexes, fault)
                 \cup (IF fault = "broken" THEN SqliteIndexes(indexes, fault) ELSE {}) :
        Becomes(c, Found(c, o))
  BY <1>2
<1>6. ASSUME p \in Sure(Kind(c), Intact') PROVE o[1] = Catalog[t][p]
  <2>1. fault = "none"
    <3> HIDE DEF p
    <3> QED
      BY <1>3, <1>4, <1>6 DEF Sure
  <2>2. o = <<Catalog[t].indexes>>
    BY <1>5, <2>1 DEF SqliteIndexColumns
  <2> HIDE DEF t, p
  <2> QED
    BY <1>4, <2>2
<1> QED
  BY <1>1, <1>3, <1>4, <1>5, <1>6, OutcomeOK

LEMMA RegisterSchemaOK ==
  ASSUME ToolsInv, NEW c \in Callers, RegisterSchema(c)
  PROVE  Moves(c)
<1> DEFINE x == call[c]
           r == work.requests[c]
<1>1. /\ x.phase = "discovering" /\ x.todo = <<>> /\ UNCHANGED <<store, file, work, faults>>
      /\ schema' = [schema EXCEPT ![Kind(c)] = x.found]
      /\ Becomes(c, After(c, Page(<<>>, FALSE, Null)))
  BY DEF RegisterSchema, Annotated
<1>2. Intact' = Intact /\ faults' \in Nat /\ faults' <= faults
  BY <1>1 DEF Intact, ToolsInv
<1>3. /\ ~Querying(Tool(c)) /\ DiscoveryOK(x, r, Intact)
      /\ FoundOK(Kind(c), x.found, <<>>, Intact) /\ IsRequest(r)
  BY <1>1, DiscoveringCall, CallersAsk
<1>4. GoodCall(After(c, Page(<<>>, FALSE, Null)), file[c], r, Intact')
  BY <1>3, DiscoveryEnds
<1>5. DOMAIN schema' = Kinds /\ \A k \in Kinds : FoundOK(k, schema'[k], <<>>, Intact')
  <2>1. DOMAIN schema = Kinds /\ \A k \in Kinds : FoundOK(k, schema[k], <<>>, Intact)
    BY DEF ToolsInv
  <2>2. ASSUME NEW k \in Kinds PROVE FoundOK(k, schema'[k], <<>>, Intact)
    <3>1. CASE k = Kind(c)
      <4>1. schema'[k] = x.found
        BY <1>1, <2>1, <3>1
      <4> QED
        BY <1>3, <3>1, <4>1
    <3>2. CASE k # Kind(c)
      <4>1. schema'[k] = schema[k]
        BY <1>1, <2>1, <3>2
      <4> QED
        BY <2>1, <4>1
    <3> QED
      BY <3>1, <3>2
  <2> QED
    BY <1>1, <1>2, <2>1, <2>2
<1>6. DOMAIN file' = Callers /\ file' = file
  BY <1>1 DEF ToolsInv
<1> QED
  BY <1>1, <1>2, <1>4, <1>5, <1>6 DEF Moves

-----------------------------------------------------------------------------
(* The client, the other users of the databases, and every step *)

LEMMA AskNextOK ==
  ASSUME ToolsInv, NEW c \in Callers, AskNext(c)
  PROVE  Moves(c)
<1> DEFINE r == work.requests[c]
           y == [Waiting(r) EXCEPT !.query = NextQuery(c), !.pages = call[c].pages]
<1>1. r.paging # "none" /\ Becomes(c, y) /\ UNCHANGED <<store, schema, file, work, faults>>
  BY DEF AskNext
<1>2. IsRequest(r) /\ GoodCall(call[c], file[c], r, Intact)
  BY CallersAsk
<1>3. r.tool = "execute_query" /\ Querying(r.tool)
  BY <1>1, <1>2 DEF IsRequest, Querying
<1>4. IsQuery(call[c].query)
  BY <1>2, <1>3 DEF GoodCall, CallOK
<1>5. IsQuery(NextQuery(c))
  BY <1>4 DEF NextQuery, IsQuery
<1>6. CallOK(y, r)
  BY <1>2, <1>5, WaitingOK
<1>7. faults' \in Nat /\ faults' <= faults
  BY <1>1 DEF ToolsInv
<1> HIDE DEF y
<1>8. GoodCall(y, file[c], r, Intact')
  BY <1>3, <1>6 DEF GoodCall
<1> QED
  BY <1>1, <1>7, <1>8, OnlyCallMoves

\* Another user of the databases changes rows only.
LEMMA ChangeOK ==
  ASSUME ToolsInv, Insert \/ Delete \/ UNCHANGED vars
  PROVE  ToolsInv'
<1>1. UNCHANGED <<schema, call, file, work, faults>>
  BY DEF Insert, Delete, vars
<1>2. store' \subseteq Ids /\ IsFiniteSet(store')
  <2>1. CASE Insert
    <3>1. PICK i \in Ids \ store : store' = store \cup {i}
      BY <2>1 DEF Insert
    <3> QED
      BY <3>1, FS_AddElement DEF ToolsInv
  <2>2. CASE Delete
    <3>1. PICK i \in store : store' = store \ {i}
      BY <2>2 DEF Delete
    <3> QED
      BY <3>1, FS_RemoveElement DEF ToolsInv
  <2>3. CASE UNCHANGED vars
    BY <2>3 DEF ToolsInv, vars
  <2> QED
    BY <2>1, <2>2, <2>3
<1>3. Callers' = Callers /\ Intact' = Intact
  BY <1>1 DEF Callers, Intact
<1> QED
  BY <1>1, <1>2, <1>3 DEF ToolsInv

\* What is registered at first is the whole schema.
LEMMA WholeIsFound ==
  ASSUME NEW k \in Kinds, NEW i
  PROVE  FoundOK(k, Whole(k), <<>>, i)
<1> DEFINE listed == IF k = "couchdb" THEN {Main} ELSE Range(Tables)
<1>1. listed \subseteq Range(Tables)
  <2>1. Tables[1] = "main" /\ 1 \in DOMAIN Tables
    BY DEF Tables
  <2> QED
    BY <2>1 DEF Range, Main
<1>2. Whole(k) = [t \in listed |-> [p \in Range(Parts(k)) |-> Catalog[t][p]]]
  BY DEF Whole
<1>3. IsList(<<>>) /\ DOMAIN <<>> = {}
  BY DEF IsList
<1>4. Sure(k, i) \subseteq Range(Parts(k))
  BY DEF Sure
<1> HIDE DEF listed
<1> QED
  BY <1>1, <1>2, <1>3, <1>4 DEF FoundOK

LEMMA ToolsInit == Init => ToolsInv
<1> SUFFICES ASSUME Init PROVE ToolsInv
  OBVIOUS
<1>1. /\ work \in Workloads /\ faults = work.faults /\ faults \in Nat
      /\ store \subseteq Ids /\ IsFiniteSet(store)
      /\ DOMAIN call = Callers /\ DOMAIN file = Callers /\ DOMAIN schema = Kinds
  BY QueryToolsAssumption DEF Init
<1>2. \A k \in Kinds : FoundOK(k, schema[k], <<>>, Intact)
  BY WholeIsFound DEF Init
<1>3. ASSUME NEW c \in Callers PROVE GoodCall(call[c], file[c], work.requests[c], Intact)
  <2> DEFINE r == work.requests[c]
  <2>1. IsRequest(r) /\ call[c] = Waiting(r) /\ file[c] = NoFile
    BY QueryToolsAssumption DEF Init, Callers
  <2>2. /\ DOMAIN call[c] = Fields /\ call[c].phase = "waiting" /\ call[c].n = 1
        /\ 1 \in DOMAIN r.reads
    <3> HIDE DEF r
    <3> QED
      BY <2>1, RequestFacts DEF Waiting, Fields
  <2>3. IsQuery(r.reads[1].query)
    BY <2>1, <2>2 DEF IsRequest
  <2>4. CallOK(call[c], r)
    BY <2>1, <2>3, WaitingOK
  <2>5. ExportOK(call[c], file[c], r, Intact)
    BY <2>1, <2>2 DEF ExportOK
  <2>6. DiscoveryOK(call[c], r, Intact)
    BY <2>2 DEF DiscoveryOK
  <2> QED
    BY <2>4, <2>5, <2>6 DEF GoodCall
<1> QED
  BY <1>1, <1>2, <1>3 DEF ToolsInv

LEMMA ToolsStep == ToolsInv /\ [Next]_vars => ToolsInv'
<1> SUFFICES ASSUME ToolsInv, [Next]_vars PROVE ToolsInv'
  OBVIOUS
<1>1. CASE Insert \/ Delete \/ UNCHANGED vars
  BY <1>1, ChangeOK
<1>2. ASSUME NEW c \in Callers, AskNext(c) PROVE ToolsInv'
  BY <1>2, AskNextOK, MovesOK
<1>3. ASSUME NEW c \in Callers, Step(c) PROVE ToolsInv'
  <2>1. CASE Reject(c) \/ Unsupported(c) \/ Refuse(c) \/ Expire(c)
    BY <2>1, RejectOK, UnsupportedOK, RefuseOK, ExpireOK, MovesOK
  <2>2. CASE Send(c) \/ Read(c) \/ ReadBatch(c) \/ Break(c) \/ ExportRows(c)
    BY <2>2, SendOK, ReadOK, ReadBatchOK, BreakOK, ExportRowsOK, MovesOK
  <2>3. CASE DescribeDatabases(c) \/ DescribeTables(c) \/ DiscoverTables(c)
    BY <2>3, DescribeOK, DiscoverTablesOK, MovesOK
  <2>4. CASE DiscoverPart(c) \/ DiscoverIndexColumns(c) \/ RegisterSchema(c)
    BY <2>4, DiscoverPartOK, DiscoverIndexColumnsOK, RegisterSchemaOK, MovesOK
  <2> QED
    BY <1>3, <2>1, <2>2, <2>3, <2>4 DEF Step
<1> QED
  BY <1>1, <1>2, <1>3 DEF Next

LEMMA ToolsStay == Spec => []ToolsInv
BY ToolsInit, ToolsStep, PTL DEF Spec

-----------------------------------------------------------------------------
(* The hash join *)

\* Rows with these columns.
AreRows(rows, columns) ==
    IsList(rows) /\ \A n \in DOMAIN rows : rows[n] = [c \in columns |-> rows[n][c]]

\* What is joined, and the same from the other side.
IsConfig(cfg) ==
    /\ AreRows(cfg.left, cfg.leftColumns) /\ AreRows(cfg.right, cfg.rightColumns)
    /\ cfg.leftAlias # cfg.rightAlias

Swapped(cfg) ==
    [left |-> cfg.right, right |-> cfg.left, leftColumns |-> cfg.rightColumns,
     rightColumns |-> cfg.leftColumns, leftKey |-> cfg.rightKey, rightKey |-> cfg.leftKey,
     leftAlias |-> cfg.rightAlias, rightAlias |-> cfg.leftAlias]

\* The pairs of a row of the left, and the rows of the left without one.
PairsOf(cfg, m) == {p \in AgreeingPairs(cfg) : p[1] = m}
Lone(cfg) == {m \in DOMAIN cfg.left : \A p \in AgreeingPairs(cfg) : p[1] # m}

\* The rows that some pairs make.
RowsOf(cfg, pairs) == [p \in pairs |-> JoinedRow(cfg, p)]

\* s is a list of the rows that the pairs make.
ListsRows(s, cfg, pairs) == IsList(s) /\ Enumerates(s, RowsOf(cfg, pairs))

\* The index has, for a value, the rows with this value.
LEMMA IndexOK ==
  ASSUME NEW rows, IsList(rows), NEW key, NEW v \in DOMAIN BuildHashIndex(rows, key)
  PROVE  LET own == {n \in DOMAIN rows : GetColumnValue(rows[n], key) = v}
         IN  /\ IsList(BuildHashIndex(rows, key)[v])
             /\ Enumerates(BuildHashIndex(rows, key)[v], [n \in own |-> rows[n]])
<1> DEFINE V == Range(rows)
           L == Len(rows)
           own == {n \in DOMAIN rows : GetColumnValue(rows[n], key) = v}
           ss == [n \in DOMAIN rows |->
                    IF GetColumnValue(rows[n], key) = v THEN <<rows[n]>> ELSE <<>>]
           F == [n \in own |-> rows[n]]
           owner == [n \in own |-> n]
<1>1. L \in Nat /\ DOMAIN rows = 1 .. L /\ \A n \in 1 .. L : rows[n] \in V
  BY LenProperties DEF IsList, Range
<1>2. BuildHashIndex(rows, key)[v] = FlattenSeq(ss)
  BY DEF BuildHashIndex
<1>3. ss \in Seq(Seq(V)) /\ Len(ss) = L
  <2>1. \A n \in 1 .. L : <<rows[n]>> \in Seq(V) /\ <<>> \in Seq(V)
    BY <1>1
  <2>2. \A n \in 1 .. L : ss[n] \in Seq(V)
    BY <1>1, <2>1
  <2>3. ss = [n \in 1 .. L |-> ss[n]]
    BY <1>1
  <2>4. ss \in [1 .. L -> Seq(V)]
    <3> HIDE DEF ss, L
    <3> QED
      BY <2>2, <2>3
  <2> HIDE DEF ss, L, V
  <2> QED
    BY <1>1, <2>4
<1>4. owner \in [DOMAIN F -> 1 .. Len(ss)]
  <2>1. own \subseteq 1 .. L
    BY <1>1
  <2>2. DOMAIN F = own
    OBVIOUS
  <2> QED
    BY <1>3, <2>1, <2>2
<1>5. ASSUME NEW i \in 1 .. Len(ss)
      PROVE  Enumerates(ss[i], [x \in {y \in DOMAIN F : owner[y] = i} |-> F[x]])
  <2> DEFINE G == [x \in {y \in DOMAIN F : owner[y] = i} |-> F[x]]
  <2>1. i \in DOMAIN rows
    BY <1>1, <1>3
  <2>2. CASE GetColumnValue(rows[i], key) = v
    <3>1. DOMAIN G = {i} /\ G[i] = rows[i]
      BY <2>1, <2>2
    <3>2. ss[i] = <<rows[i]>>
      BY <2>1, <2>2
    <3>3. Enumerates(<<rows[i]>>, G)
      <4> HIDE DEF G
      <4> QED
        BY <3>1, EnumerateOne
    <3> QED
      BY <3>2, <3>3
  <2>3. CASE GetColumnValue(rows[i], key) # v
    <3>1. DOMAIN G = {}
      BY <2>3
    <3>2. ss[i] = <<>>
      BY <2>1, <2>3
    <3>3. Enumerates(<<>>, G)
      <4> HIDE DEF G
      <4> QED
        BY <3>1, EnumerateNothing
    <3> QED
      BY <3>2, <3>3
  <2> QED
    BY <2>2, <2>3
<1> HIDE DEF V, ss, F, owner
<1>6. Enumerates(FlattenSeq(ss), F)
  BY <1>3, <1>4, <1>5, FlattenEnumerates
<1>7. IsList(FlattenSeq(ss))
  BY <1>3, FlattenIsList, ListOf
<1> QED
  BY <1>2, <1>6, <1>7 DEF F

\* A row of the left with those of the right makes the rows of its pairs.
LEMMA MergedOK ==
  ASSUME NEW cfg, IsConfig(cfg), NEW m \in DOMAIN cfg.left
  PROVE  ListsRows(Merged(cfg.left[m], BuildHashIndex(cfg.right, cfg.rightKey), cfg.leftKey,
                          cfg.leftAlias, cfg.rightAlias),
                   cfg, PairsOf(cfg, m))
<1> DEFINE row == cfg.left[m]
           v == GetColumnValue(row, cfg.leftKey)
           index == BuildHashIndex(cfg.right, cfg.rightKey)
           la == cfg.leftAlias
           ra == cfg.rightAlias
           out == Merged(row, index, cfg.leftKey, la, ra)
           G == RowsOf(cfg, PairsOf(cfg, m))
           own == {n \in DOMAIN cfg.right : GetColumnValue(cfg.right[n], cfg.rightKey) = v}
           F == [n \in own |-> cfg.right[n]]
<1>1. /\ DOMAIN row = cfg.leftColumns
      /\ \A n \in DOMAIN cfg.right : DOMAIN cfg.right[n] = cfg.rightColumns
  BY DEF IsConfig, AreRows
<1>2. DOMAIN G = PairsOf(cfg, m)
  BY DEF RowsOf
<1>3. DOMAIN index = {GetColumnValue(cfg.right[n], cfg.rightKey) : n \in DOMAIN cfg.right} \ {Null}
  BY DEF BuildHashIndex
<1>4. CASE v \in DOMAIN index
  <2>1. v # Null
    BY <1>3, <1>4
  <2>3. \A n \in own : <<m, n>> \in PairsOf(cfg, m)
    BY <2>1 DEF PairsOf, AgreeingPairs, Agree
  <2>4. ASSUME NEW p \in PairsOf(cfg, m) PROVE p[2] \in own /\ p = <<m, p[2]>>
    <3>1. p \in (DOMAIN cfg.left) \X (DOMAIN cfg.right) /\ p[1] = m /\ Agree(cfg, p[1], p[2])
      BY DEF PairsOf, AgreeingPairs
    <3>2. p[2] \in DOMAIN cfg.right /\ p = <<m, p[2]>>
      BY <3>1
    <3>3. GetColumnValue(cfg.right[p[2]], cfg.rightKey) = v
      BY <3>1, <3>2 DEF Agree
    <3> QED
      BY <3>2, <3>3
  <2> DEFINE s == index[v]
             h == [n \in own |-> <<m, n>>]
  <2>5. IsList(s) /\ Enumerates(s, F)
    BY <1>4, IndexOK DEF IsConfig, AreRows
  <2>6. out = [i \in DOMAIN s |-> MergeRows(row, s[i], la, ra)]
    BY <1>4 DEF Merged
  <2>7. DOMAIN s = 1 .. Len(s) /\ Len(s) \in Nat
    BY <2>5, LenProperties DEF IsList
  <2>8. out = [i \in 1 .. Len(s) |-> out[i]]
    BY <2>6, <2>7
  <2>9. IsList(out) /\ Len(out) = Len(s)
    <3> HIDE DEF out, s
    <3> QED
      BY <2>7, <2>8, ListOfLength
  <2>10. ASSUME NEW n \in own PROVE MergeRows(row, cfg.right[n], la, ra) = G[<<m, n>>]
    <3>1. DOMAIN cfg.right[n] = cfg.rightColumns /\ n # 0 /\ m # 0
      <4>1. DOMAIN cfg.left = 1 .. Len(cfg.left) /\ DOMAIN cfg.right = 1 .. Len(cfg.right)
        BY LenProperties DEF IsConfig, AreRows, IsList
      <4>2. n # 0 /\ m # 0
        BY <4>1
      <4> QED
        BY <1>1, <4>2
    <3>2. G[<<m, n>>] = JoinedRow(cfg, <<m, n>>)
      BY <2>3 DEF RowsOf
    <3>3. la # ra
      BY DEF IsConfig
    <3>4. MergeRows(row, cfg.right[n], la, ra) = JoinedRow(cfg, <<m, n>>)
      <4> DEFINE p == <<m, n>>
      <4>1. p[1] = m /\ p[2] = n
        OBVIOUS
      <4>2. \A c \in BuildMergedColumns(cfg.leftColumns, cfg.rightColumns, la, ra) :
              IF c[1] = la THEN ~(c[1] = ra) ELSE c[1] = ra /\ c[2] \in cfg.rightColumns
        BY <3>3 DEF BuildMergedColumns
      <4> HIDE DEF p
      <4> QED
        BY <1>1, <3>1, <4>1, <4>2 DEF MergeRows, JoinedRow
    <3> QED
      BY <3>2, <3>4
  <2>11. h \in [DOMAIN F -> DOMAIN G]
    BY <1>2, <2>3
  <2>12. \A x, y \in DOMAIN F : h[x] = h[y] => x = y
    OBVIOUS
  <2>13. \A z \in DOMAIN G : \E x \in DOMAIN F : h[x] = z
    BY <1>2, <2>4
  <2>14. \A i \in 1 .. Len(s) : \A x \in DOMAIN F : s[i] = F[x] => out[i] = G[h[x]]
    BY <2>6, <2>7, <2>10
  <2>15. Enumerates(out, G)
    <3> HIDE DEF out, s, F, G, h
    <3> QED
      BY <2>5, <2>9, <2>11, <2>12, <2>13, <2>14, EnumerateAgain
  <2> QED
    BY <2>9, <2>15 DEF ListsRows
<1>5. CASE v \notin DOMAIN index
  <2>1. out = <<>>
    BY <1>5 DEF Merged
  <2>2. PairsOf(cfg, m) = {}
    <3>1. SUFFICES ASSUME NEW p \in PairsOf(cfg, m) PROVE FALSE
      OBVIOUS
    <3>2. p[2] \in DOMAIN cfg.right /\ Agree(cfg, m, p[2])
      BY DEF PairsOf, AgreeingPairs
    <3>3. GetColumnValue(cfg.right[p[2]], cfg.rightKey) = v /\ v # Null
      BY <3>2 DEF Agree
    <3> QED
      BY <1>3, <1>5, <3>2, <3>3
  <2>3. Enumerates(<<>>, G)
    <3> HIDE DEF G
    <3> QED
      BY <1>2, <2>2, EnumerateNothing
  <2>4. IsList(<<>>)
    BY DEF IsList
  <2> HIDE DEF out, G
  <2> QED
    BY <2>1, <2>3, <2>4 DEF ListsRows, G, out
<1> QED
  BY <1>4, <1>5

\* The rows of all pairs, from those of each row of the left.
LEMMA RowByRow ==
  ASSUME NEW cfg, IsConfig(cfg), NEW pairs, \A p \in pairs : p[1] \in DOMAIN cfg.left,
         NEW ss, ss = [m \in DOMAIN cfg.left |-> ss[m]],
         \A m \in DOMAIN cfg.left : ListsRows(ss[m], cfg, {p \in pairs : p[1] = m})
  PROVE  ListsRows(FlattenSeq(ss), cfg, pairs)
<1> DEFINE L == Len(cfg.left)
           F == RowsOf(cfg, pairs)
           V == {F[x] : x \in DOMAIN F}
           owner == [p \in pairs |-> p[1]]
           Of(m) == {p \in pairs : p[1] = m}
<1>1. DOMAIN cfg.left = 1 .. L /\ L \in Nat
  BY LenProperties DEF IsConfig, AreRows, IsList
<1>2. DOMAIN F = pairs /\ \A p \in pairs : F[p] = JoinedRow(cfg, p)
  BY DEF RowsOf
<1>3. \A m \in 1 .. L : IsList(ss[m]) /\ Enumerates(ss[m], RowsOf(cfg, Of(m)))
  BY <1>1 DEF ListsRows
<1> HIDE DEF F
<1>4. ASSUME NEW m \in 1 .. L PROVE ss[m] \in Seq(V)
  <2> DEFINE G == RowsOf(cfg, Of(m))
             W == {G[x] : x \in DOMAIN G}
             s == ss[m]
             U == Range(s)
  <2>1. s \in Seq(U) /\ Enumerates(s, G)
    BY <1>3 DEF IsList
  <2>2. DOMAIN G = Of(m) /\ \A p \in Of(m) : G[p] = JoinedRow(cfg, p)
    BY DEF RowsOf
  <2>3. s \in Seq(W)
    <3> HIDE DEF G, s, U
    <3> QED
      BY <2>1, EnumerateValues
  <2>4. W \subseteq V
    <3> HIDE DEF G
    <3> QED
      BY <1>2, <2>2
  <2>5. s \in Seq(V)
    <3> HIDE DEF W, V, s
    <3>1. Len(s) \in Nat /\ s \in [1 .. Len(s) -> W]
      BY <2>3, LenProperties
    <3>2. s \in [1 .. Len(s) -> V]
      BY <2>4, <3>1
    <3> QED
      BY <3>1, <3>2
  <2> QED
    BY <2>5
<1>5. ss \in Seq(Seq(V)) /\ Len(ss) = L
  <2>1. ss = [m \in 1 .. L |-> ss[m]]
    BY <1>1
  <2> HIDE DEF V, L
  <2>2. ss \in [1 .. L -> Seq(V)]
    BY <1>4, <2>1
  <2> QED
    BY <1>1, <2>2
<1>6. owner \in [DOMAIN F -> 1 .. Len(ss)]
  BY <1>1, <1>2, <1>5
<1>7. ASSUME NEW i \in 1 .. Len(ss)
      PROVE  Enumerates(ss[i], [x \in {y \in DOMAIN F : owner[y] = i} |-> F[x]])
  <2>1. {y \in DOMAIN F : owner[y] = i} = Of(i)
    BY <1>2
  <2>2. [x \in Of(i) |-> F[x]] = RowsOf(cfg, Of(i))
    BY <1>2 DEF RowsOf
  <2>3. Enumerates(ss[i], RowsOf(cfg, Of(i)))
    BY <1>3, <1>5
  <2> HIDE DEF owner
  <2> QED
    BY <2>1, <2>2, <2>3
<1>8. Enumerates(FlattenSeq(ss), F)
  <2> HIDE DEF V, owner
  <2> QED
    BY <1>5, <1>6, <1>7, FlattenEnumerates
<1>9. IsList(FlattenSeq(ss))
  <2> HIDE DEF V
  <2> QED
    BY <1>5, FlattenIsList, ListOf
<1> QED
  BY <1>8, <1>9 DEF ListsRows, F

LEMMA InnerJoinOK ==
  ASSUME NEW cfg, IsConfig(cfg)
  PROVE  ListsRows(InnerJoin(cfg.left, BuildHashIndex(cfg.right, cfg.rightKey), cfg.leftKey,
                             cfg.leftAlias, cfg.rightAlias),
                   cfg, AgreeingPairs(cfg))
<1> DEFINE index == BuildHashIndex(cfg.right, cfg.rightKey)
           ss == [m \in DOMAIN cfg.left |->
                    Merged(cfg.left[m], index, cfg.leftKey, cfg.leftAlias, cfg.rightAlias)]
<1>1. \A m \in DOMAIN cfg.left : ListsRows(ss[m], cfg, {p \in AgreeingPairs(cfg) : p[1] = m})
  BY MergedOK DEF PairsOf
<1>2. \A p \in AgreeingPairs(cfg) : p[1] \in DOMAIN cfg.left
  BY DEF AgreeingPairs
<1>3. ss = [m \in DOMAIN cfg.left |-> ss[m]]
  OBVIOUS
<1>4. ListsRows(FlattenSeq(ss), cfg, AgreeingPairs(cfg))
  <2> HIDE DEF ss
  <2> QED
    BY <1>1, <1>2, <1>3, RowByRow
<1> QED
  BY <1>4 DEF InnerJoin

LEMMA LeftJoinOK ==
  ASSUME NEW cfg, IsConfig(cfg)
  PROVE  ListsRows(LeftJoin(cfg.left, BuildHashIndex(cfg.right, cfg.rightKey),
                            cfg.rightColumns, cfg.leftKey, cfg.leftAlias, cfg.rightAlias),
                   cfg, AgreeingPairs(cfg) \cup (Lone(cfg) \X {0}))
<1> DEFINE index == BuildHashIndex(cfg.right, cfg.rightKey)
           la == cfg.leftAlias
           ra == cfg.rightAlias
           nils == [c \in cfg.rightColumns |-> Null]
           merged(m) == Merged(cfg.left[m], index, cfg.leftKey, la, ra)
           ss == [m \in DOMAIN cfg.left |->
                    IF merged(m) # <<>> THEN merged(m)
                    ELSE <<MergeRows(cfg.left[m], nils, la, ra)>>]
           pairs == AgreeingPairs(cfg) \cup (Lone(cfg) \X {0})
<1>1. \A p \in pairs : p[1] \in DOMAIN cfg.left
  BY DEF AgreeingPairs, Lone
<1>2. ASSUME NEW m \in DOMAIN cfg.left
      PROVE  ListsRows(ss[m], cfg, {p \in pairs : p[1] = m})
  <2> DEFINE Of == {p \in pairs : p[1] = m}
             G == RowsOf(cfg, PairsOf(cfg, m))
  <2>1. IsList(merged(m)) /\ Enumerates(merged(m), G)
    BY MergedOK DEF ListsRows
  <2>2. DOMAIN G = PairsOf(cfg, m)
    BY DEF RowsOf
  <2>3. CASE merged(m) # <<>>
    <3>1. PairsOf(cfg, m) # {}
      <4> DEFINE s == merged(m)
      <4>1. Len(s) \in Nat /\ s \in Seq(Range(s))
        BY <2>1, LenProperties DEF IsList
      <4>2. Len(s) # 0
        <5> HIDE DEF s
        <5> QED
          BY <4>1, <2>3, EmptySeq DEF s
      <4>3. PICK q \in [1 .. Len(s) -> DOMAIN G] : TRUE
        BY <2>1 DEF Enumerates
      <4>4. q[1] \in DOMAIN G
        BY <4>1, <4>2, <4>3
      <4> QED
        BY <2>2, <4>4
    <3>2. m \notin Lone(cfg)
      BY <3>1 DEF Lone, PairsOf
    <3>3. Of = PairsOf(cfg, m)
      BY <3>2 DEF PairsOf
    <3>4. ss[m] = merged(m)
      BY <2>3
    <3> QED
      BY <2>1, <3>3, <3>4 DEF ListsRows
  <2>4. CASE merged(m) = <<>>
    <3>1. PairsOf(cfg, m) = {}
      <4>1. \A x \in DOMAIN G : \E i \in 1 .. Len(merged(m)) : TRUE
        BY <2>1 DEF Enumerates
      <4>2. 1 .. Len(merged(m)) = {}
        BY <2>4
      <4> QED
        BY <2>2, <4>1, <4>2
    <3>2. m \in Lone(cfg)
      BY <3>1 DEF Lone, PairsOf
    <3>3. Of = {<<m, 0>>}
      BY <3>1, <3>2 DEF PairsOf
    <3> DEFINE H == RowsOf(cfg, Of)
               new == MergeRows(cfg.left[m], nils, la, ra)
    <3>4. DOMAIN H = {<<m, 0>>} /\ H[<<m, 0>>] = JoinedRow(cfg, <<m, 0>>)
      BY <3>3 DEF RowsOf
    <3>5. new = JoinedRow(cfg, <<m, 0>>)
      <4> DEFINE p == <<m, 0>>
      <4>1. p[1] = m /\ p[2] = 0
        OBVIOUS
      <4>2. m # 0
        BY LenProperties DEF IsConfig, AreRows, IsList
      <4>3. \A c \in BuildMergedColumns(cfg.leftColumns, cfg.rightColumns, la, ra) :
              IF c[1] = la THEN ~(c[1] = ra) ELSE c[1] = ra /\ c[2] \in cfg.rightColumns
        BY DEF BuildMergedColumns, IsConfig
      <4>4. DOMAIN cfg.left[m] = cfg.leftColumns /\ DOMAIN nils = cfg.rightColumns
        BY DEF IsConfig, AreRows
      <4>5. \A c \in cfg.rightColumns : nils[c] = Null
        OBVIOUS
      <4> HIDE DEF p, nils
      <4>6. new = JoinedRow(cfg, p)
        BY <4>1, <4>2, <4>3, <4>4, <4>5 DEF MergeRows, JoinedRow
      <4> QED
        BY <4>6 DEF p
    <3>6. ss[m] = <<new>>
      BY <2>4
    <3>7. Enumerates(<<new>>, H)
      <4> HIDE DEF H, new
      <4> QED
        BY <3>4, <3>5, EnumerateOne
    <3>8. IsList(<<new>>)
      <4>1. <<new>> \in Seq({new})
        OBVIOUS
      <4> QED
        BY <4>1, ListOf
    <3> HIDE DEF ss, new
    <3> QED
      BY <3>6, <3>7, <3>8 DEF ListsRows
  <2> QED
    BY <2>3, <2>4
<1>3. ss = [m \in DOMAIN cfg.left |-> ss[m]]
  OBVIOUS
<1>4. ListsRows(FlattenSeq(ss), cfg, pairs)
  <2> HIDE DEF ss, pairs
  <2> QED
    BY <1>1, <1>2, <1>3, RowByRow
<1> QED
  BY <1>4 DEF LeftJoin

\* A right join is the left join from the other side.
LEMMA RightJoinOK ==
  ASSUME NEW cfg, IsConfig(cfg), cfg.type = "right"
  PROVE  ListsRows(LeftJoin(cfg.right, BuildHashIndex(cfg.left, cfg.leftKey),
                            cfg.leftColumns, cfg.rightKey, cfg.rightAlias, cfg.leftAlias),
                   cfg, JoinedPairs(cfg))
<1> DEFINE sw == Swapped(cfg)
           pairs == AgreeingPairs(sw) \cup (Lone(sw) \X {0})
           F == RowsOf(sw, pairs)
           G == RowsOf(cfg, JoinedPairs(cfg))
           h == [p \in pairs |-> <<p[2], p[1]>>]
           out == LeftJoin(cfg.right, BuildHashIndex(cfg.left, cfg.leftKey),
                           cfg.leftColumns, cfg.rightKey, cfg.rightAlias, cfg.leftAlias)
<1>1. /\ sw.left = cfg.right /\ sw.right = cfg.left
      /\ sw.leftColumns = cfg.rightColumns /\ sw.rightColumns = cfg.leftColumns
      /\ sw.leftKey = cfg.rightKey /\ sw.rightKey = cfg.leftKey
      /\ sw.leftAlias = cfg.rightAlias /\ sw.rightAlias = cfg.leftAlias
  BY DEF Swapped
<1> HIDE DEF sw
<1>2. IsConfig(sw)
  BY <1>1 DEF IsConfig
<1>3. IsList(out) /\ Enumerates(out, F)
  BY <1>1, <1>2, LeftJoinOK DEF ListsRows
<1>4. DOMAIN F = pairs /\ DOMAIN G = JoinedPairs(cfg)
  BY DEF RowsOf
<1>5. \A m, n : Agree(sw, n, m) <=> Agree(cfg, m, n)
  BY <1>1 DEF Agree
<1>6. \A m, n : <<n, m>> \in AgreeingPairs(sw) <=> <<m, n>> \in AgreeingPairs(cfg)
  BY <1>1, <1>5 DEF AgreeingPairs
<1>7. Lone(sw) = {n \in DOMAIN cfg.right : \A p \in AgreeingPairs(cfg) : p[2] # n}
  <2>1. ASSUME NEW n PROVE (\E p \in AgreeingPairs(sw) : p[1] = n)
                             <=> (\E p \in AgreeingPairs(cfg) : p[2] = n)
    <3>1. ASSUME NEW p \in AgreeingPairs(sw), p[1] = n
          PROVE  \E o \in AgreeingPairs(cfg) : o[2] = n
      <4>1. p = <<p[1], p[2]>>
        BY DEF AgreeingPairs
      <4>2. <<p[2], p[1]>> \in AgreeingPairs(cfg)
        BY <1>6, <4>1
      <4> QED
        BY <3>1, <4>2
    <3>2. ASSUME NEW p \in AgreeingPairs(cfg), p[2] = n
          PROVE  \E o \in AgreeingPairs(sw) : o[1] = n
      <4>1. p = <<p[1], p[2]>>
        BY DEF AgreeingPairs
      <4>2. <<p[2], p[1]>> \in AgreeingPairs(sw)
        BY <1>6, <4>1
      <4> QED
        BY <3>2, <4>2
    <3> QED
      BY <3>1, <3>2
  <2> QED
    BY <1>1, <2>1 DEF Lone
<1>8. JoinedPairs(cfg) = AgreeingPairs(cfg) \cup ({0} \X Lone(sw))
  BY <1>7 DEF JoinedPairs
<1>9. \A p \in pairs : p = <<p[1], p[2]>>
  BY DEF AgreeingPairs
<1>10. ASSUME NEW p \in pairs PROVE <<p[2], p[1]>> \in JoinedPairs(cfg)
  <2>1. CASE p \in AgreeingPairs(sw)
    BY <1>6, <1>8, <1>9, <2>1
  <2>2. CASE p \in Lone(sw) \X {0}
    BY <1>8, <2>2
  <2> QED
    BY <2>1, <2>2
<1>11. ASSUME NEW o \in JoinedPairs(cfg) PROVE \E p \in pairs : <<p[2], p[1]>> = o
  <2>1. o = <<o[1], o[2]>>
    BY <1>8 DEF AgreeingPairs
  <2>2. <<o[2], o[1]>> \in pairs
    <3>1. CASE o \in AgreeingPairs(cfg)
      BY <1>6, <2>1, <3>1
    <3>2. CASE o \in {0} \X Lone(sw)
      BY <3>2
    <3> QED
      BY <1>8, <3>1, <3>2
  <2> QED
    BY <2>1, <2>2
<1>12. ASSUME NEW p \in pairs PROVE F[p] = G[<<p[2], p[1]>>]
  <2>1. F[p] = JoinedRow(sw, p) /\ G[<<p[2], p[1]>>] = JoinedRow(cfg, <<p[2], p[1]>>)
    BY <1>10 DEF RowsOf
  <2> DEFINE o == <<p[2], p[1]>>
  <2>2. o[1] = p[2] /\ o[2] = p[1]
    OBVIOUS
  <2>3. \A c \in BuildMergedColumns(cfg.leftColumns, cfg.rightColumns,
                                    cfg.leftAlias, cfg.rightAlias) :
          IF c[1] = cfg.leftAlias THEN ~(c[1] = cfg.rightAlias) ELSE c[1] = cfg.rightAlias
    BY DEF BuildMergedColumns, IsConfig
  <2>4. BuildMergedColumns(sw.leftColumns, sw.rightColumns, sw.leftAlias, sw.rightAlias)
          = BuildMergedColumns(cfg.leftColumns, cfg.rightColumns, cfg.leftAlias, cfg.rightAlias)
    BY <1>1 DEF BuildMergedColumns
  <2> HIDE DEF o
  <2>5. JoinedRow(sw, p) = JoinedRow(cfg, o)
    BY <1>1, <2>2, <2>3, <2>4 DEF JoinedRow
  <2> QED
    BY <2>1, <2>5 DEF o
<1>13. h \in [DOMAIN F -> DOMAIN G]
  BY <1>4, <1>10
<1>14. \A x, y \in DOMAIN F : h[x] = h[y] => x = y
  BY <1>4, <1>9
<1>15. \A z \in DOMAIN G : \E x \in DOMAIN F : h[x] = z
  BY <1>4, <1>11
<1>16. \A i \in 1 .. Len(out) : \A x \in DOMAIN F : out[i] = F[x] => out[i] = G[h[x]]
  BY <1>4, <1>12
<1> HIDE DEF F, G, h, out
<1>17. Enumerates(out, G)
  BY <1>3, <1>13, <1>14, <1>15, <1>16, EnumerateAgain
<1> QED
  BY <1>3, <1>17 DEF ListsRows, G, out

\* What is returned is the join.
LEMMA CrossJoinOK ==
  ASSUME NEW cfg, IsConfig(cfg), CrossJoin(cfg).ok
  PROVE  IsJoin(cfg, CrossJoin(cfg).rows)
<1> DEFINE rows == CrossJoin(cfg).rows
           F == RowsOf(cfg, JoinedPairs(cfg))
<1>0. \A x : Page(x, FALSE, Null).rows = x /\ Failed.ok = FALSE
  BY DEF Page, Failed
<1>1. ListsRows(rows, cfg, JoinedPairs(cfg))
  <2>1. CASE cfg.type \in {"", "inner"}
    <3>1. JoinedPairs(cfg) = AgreeingPairs(cfg)
      BY <2>1 DEF JoinedPairs
    <3>2. rows = InnerJoin(cfg.left, BuildHashIndex(cfg.right, cfg.rightKey), cfg.leftKey,
                           cfg.leftAlias, cfg.rightAlias)
      BY <1>0, <2>1 DEF CrossJoin
    <3> QED
      BY <3>1, <3>2, InnerJoinOK
  <2>2. CASE cfg.type = "left"
    <3>1. JoinedPairs(cfg) = AgreeingPairs(cfg) \cup (Lone(cfg) \X {0})
      BY <2>2 DEF JoinedPairs, Lone
    <3>2. rows = LeftJoin(cfg.left, BuildHashIndex(cfg.right, cfg.rightKey),
                          cfg.rightColumns, cfg.leftKey, cfg.leftAlias, cfg.rightAlias)
      BY <1>0, <2>2 DEF CrossJoin
    <3> QED
      BY <3>1, <3>2, LeftJoinOK
  <2>3. CASE cfg.type = "right"
    <3>1. rows = LeftJoin(cfg.right, BuildHashIndex(cfg.left, cfg.leftKey),
                          cfg.leftColumns, cfg.rightKey, cfg.rightAlias, cfg.leftAlias)
      BY <1>0, <2>3 DEF CrossJoin
    <3> QED
      BY <2>3, <3>1, RightJoinOK
  <2>4. cfg.type \in {"", "inner", "left", "right"}
    BY <1>0 DEF CrossJoin
  <2> QED
    BY <2>1, <2>2, <2>3, <2>4
<1>2. DOMAIN F = JoinedPairs(cfg) /\ \A p \in JoinedPairs(cfg) : F[p] = JoinedRow(cfg, p)
  BY DEF RowsOf
<1>3. rows \in Seq(Range(rows)) /\ Enumerates(rows, F)
  BY <1>1 DEF ListsRows, IsList
<1> HIDE DEF rows, F
<1>4. /\ Len(rows) = Cardinality(DOMAIN F)
      /\ \A v : Cardinality({i \in DOMAIN rows : rows[i] = v})
                  = Cardinality({x \in DOMAIN F : F[x] = v})
  BY <1>3, EnumerateCounts
<1>5. \A v : {x \in DOMAIN F : F[x] = v} = {o \in JoinedPairs(cfg) : JoinedRow(cfg, o) = v}
  BY <1>2
<1>6. IsJoin(cfg, rows)
  BY <1>2, <1>4, <1>5 DEF IsJoin
<1> QED
  BY <1>6 DEF rows

-----------------------------------------------------------------------------
(* The calls of cross_db_join *)

\* The results of a join are lists, and what is returned is their join.
JoinOK(x, request) ==
    request.tool = "cross_db_join" /\ (x.phase # "done" \/ x.answer.ok) =>
      /\ \A m \in DOMAIN x.results : IsList(x.results[m].rows)
      /\ x.phase = "done" => /\ DOMAIN x.results = 1 .. 2
                             /\ x.answer = CrossJoin(JoinConfig(request, x.results))

JoinInv == \A c \in Callers : JoinOK(call[c], work.requests[c])

\* What Execute returns is what was read, or nothing.
LEMMA ExecuteRows ==
  ASSUME NEW kind \in Kinds, NEW q, NEW rows, NEW total, NEW end \in Ends(kind),
         Execute(kind, q, Reading(rows, total, end)).ok
  PROVE  Execute(kind, q, Reading(rows, total, end)).rows \in {rows, <<>>}
<1> DEFINE r == Reading(rows, total, end)
<1> USE DEF Failed, Page, Ends, Breaks
<1>1. r.rows = rows /\ r.end = end
  BY DEF Reading
<1> HIDE DEF r
<1>2. CASE kind \notin Lenient("execute_query")
  BY <1>1, <1>2, ExecuteIsWhole DEF r
<1>3. CASE kind \in {"sqlserver", "clickhouse"}
  BY <1>1, <1>3 DEF Execute, SqlServerExecute, ClickHouseExecute, r
<1>4. CASE kind \in {"mongodb", "elasticsearch"}
  BY <1>1, <1>4 DEF Execute, MongoExecute, ElasticExecute, r
<1>5. CASE kind \in {"redis", "couchdb"}
  BY <1>1, <1>5 DEF Execute, RedisExecute, CouchExecute, r
<1> QED
  BY <1>2, <1>3, <1>4, <1>5 DEF Lenient

LEMMA JoinReturned ==
  ASSUME ToolsInv, NEW c \in Callers, Tool(c) = "cross_db_join", NEW rows, IsList(rows),
         NEW total, NEW end \in Ends(Kind(c)), Returned(c, Reading(rows, total, end)).ok
  PROVE  IsList(Returned(c, Reading(rows, total, end)).rows)
<1>1. Kind(c) \in Kinds
  <2>1. call[c].n \in DOMAIN work.requests[c].reads
    BY CallersAsk DEF GoodCall, CallOK, Querying, Tool
  <2> QED
    BY <2>1, CallersAsk DEF IsRequest, Kind, Ask1
<1>2. Returned(c, Reading(rows, total, end))
        = Execute(Kind(c), call[c].query, Reading(rows, total, end))
  BY DEF Returned
<1>3. IsList(<<>>)
  BY DEF IsList
<1> QED
  BY <1>1, <1>2, <1>3, ExecuteRows

\* A query of a join that returned p.
LEMMA JoinAfter ==
  ASSUME ToolsInv, NEW c \in Callers, call[c].phase \notin {"done", "panicked"},
         JoinOK(call[c], work.requests[c]), NEW p,
         p.ok /\ Tool(c) = "cross_db_join" => IsList(p.rows)
  PROVE  JoinOK(After(c, p), work.requests[c])
<1> SUFFICES ASSUME Tool(c) = "cross_db_join" PROVE JoinOK(After(c, p), work.requests[c])
  BY DEF JoinOK, Tool
<1> DEFINE x == call[c]
           r == work.requests[c]
           results == Append(x.results, p)
           read == [x EXCEPT !.left = <<>>, !.got = <<>>, !.results = results]
           a == Answer(r, results)
           next == [read EXCEPT !.phase = "waiting", !.n = @ + 1,
                                !.query = r.reads[x.n + 1].query]
           done == [read EXCEPT !.phase = "done", !.answer = a,
                                !.pages = IF a.ok THEN Append(@, a.rows) ELSE @]
           failed == [read EXCEPT !.phase = "done", !.answer = Failed]
           panicked == [read EXCEPT !.phase = "panicked"]
<1>1. r.tool = "cross_db_join" /\ IsRequest(r) /\ CallOK(x, r)
  BY CallersAsk DEF GoodCall, Querying, Tool
<1>2. /\ DOMAIN x = Fields /\ IsList(x.results) /\ Len(x.results) = x.n - 1
      /\ x.n \in 1 .. 2 /\ Len(r.reads) = 2
  BY <1>1, RequestFacts DEF CallOK, IsRequest
<1>3. \A m \in DOMAIN x.results : IsList(x.results[m].rows)
  BY <1>1 DEF JoinOK
<1>4. DOMAIN results = 1 .. x.n
      /\ (p.ok => \A m \in DOMAIN results : IsList(results[m].rows))
  <2>1. /\ DOMAIN x.results = 1 .. Len(x.results) /\ DOMAIN results = 1 .. Len(x.results) + 1
        /\ \A i \in 1 .. Len(x.results) : results[i] = x.results[i]
        /\ results[Len(x.results) + 1] = p
    <3>1. IsList(x.results)
      BY <1>2
    <3> DEFINE list == x.results
    <3>2. IsList(list) /\ results = Append(list, p)
      BY <3>1
    <3> HIDE DEF list, results
    <3>3. /\ DOMAIN list = 1 .. Len(list) /\ DOMAIN results = 1 .. Len(list) + 1
          /\ \A i \in 1 .. Len(list) : results[i] = list[i]
          /\ results[Len(list) + 1] = p
      BY <3>2, ListAppend
    <3> QED
      BY <3>3 DEF list
  <2>2. Len(x.results) + 1 = x.n
    BY <1>2
  <2>3. p.ok => IsList(p.rows)
    OBVIOUS
  <2> HIDE DEF results, x
  <2>4. \A m \in 1 .. x.n : m \in 1 .. Len(x.results) \/ m = x.n
    BY <1>2
  <2> QED
    BY <1>3, <2>1, <2>2, <2>3, <2>4
<1>5. a = CrossJoin(JoinConfig(r, results))
  BY <1>1 DEF Answer
<1> HIDE DEF results, r, x, a
<1>6. CASE ~p.ok
  <2>1. After(c, p) = failed
    BY <1>6 DEF After, x, r, results
  <2>2. failed.phase = "done" /\ ~failed.answer.ok
    BY <1>2 DEF Fields, Failed
  <2> HIDE DEF failed
  <2> QED
    BY <2>1, <2>2 DEF JoinOK, r
<1>7. CASE p.ok /\ x.n < Len(r.reads)
  <2>1. After(c, p) = next
    BY <1>2, <1>7 DEF After, x, r, results
  <2>2. next.phase = "waiting" /\ next.results = results
    BY <1>2 DEF Fields
  <2> HIDE DEF next
  <2> QED
    BY <1>4, <1>7, <2>1, <2>2 DEF JoinOK, r
<1>8. CASE p.ok /\ ~(x.n < Len(r.reads))
  <2>1. After(c, p) \in {done, panicked}
    BY <1>2, <1>8 DEF After, x, r, results, a
  <2>2. /\ done.phase = "done" /\ done.results = results /\ done.answer = a
        /\ panicked.phase = "panicked" /\ panicked.results = results
    BY <1>2 DEF Fields
  <2>3. x.n = 2
    BY <1>2, <1>8
  <2> HIDE DEF done, panicked
  <2> QED
    BY <1>4, <1>5, <1>8, <2>1, <2>2, <2>3 DEF JoinOK, r
<1> QED
  BY <1>6, <1>7, <1>8

LEMMA JoinRead ==
  ASSUME ToolsInv, NEW c \in Callers, call[c].phase \notin {"done", "panicked"},
         JoinOK(call[c], work.requests[c]), NEW rows, NEW total, NEW end \in Ends(Kind(c)),
         Tool(c) = "cross_db_join" => IsList(rows)
  PROVE  JoinOK(After(c, Returned(c, Reading(rows, total, end))), work.requests[c])
<1> DEFINE p == Returned(c, Reading(rows, total, end))
<1>1. p.ok /\ Tool(c) = "cross_db_join" => IsList(p.rows)
  BY JoinReturned
<1> HIDE DEF p
<1>2. JoinOK(After(c, p), work.requests[c])
  BY <1>1, JoinAfter
<1> QED
  BY <1>2 DEF p

\* A step of a call keeps this of it.
LEMMA JoinStep ==
  ASSUME ToolsInv, NEW c \in Callers, Tool(c) = "cross_db_join",
         JoinOK(call[c], work.requests[c]), Step(c) \/ AskNext(c)
  PROVE  \E new : Becomes(c, new) /\ JoinOK(new, work.requests[c])
<1>1. /\ IsRequest(work.requests[c]) /\ work.requests[c].tool = "cross_db_join"
      /\ CallOK(call[c], work.requests[c])
  BY CallersAsk DEF GoodCall, Querying, Tool
<1>2. call[c].phase \in {"waiting", "open", "done", "panicked"} /\ ~Batched(c) /\ IsList(<<>>)
  BY <1>1 DEF CallOK, Batched, IsList
<1>3. CASE Reject(c)
  <2>1. ~Failed.ok /\ call[c].phase \notin {"done", "panicked"} /\ Becomes(c, After(c, Failed))
    BY <1>3 DEF Reject, Failed
  <2> QED
    BY <2>1, JoinAfter
<1>4. CASE Send(c)
  <2>1. PICK rows, total :
          Becomes(c, [call[c] EXCEPT !.phase = "open", !.left = rows, !.total = total,
                                     !.whole[call[c].n] = rows])
    BY <1>4 DEF Send
  <2> DEFINE new == [call[c] EXCEPT !.phase = "open", !.left = rows, !.total = total,
                                    !.whole[call[c].n] = rows]
  <2>2. call[c].phase = "waiting" /\ DOMAIN call[c] = Fields
    BY <1>1, <1>4 DEF Send, Asks, CallOK
  <2>3. new.phase = "open" /\ new.results = call[c].results
    BY <2>2 DEF Fields
  <2>4. JoinOK(new, work.requests[c])
    <3> HIDE DEF new
    <3> QED
      BY <2>2, <2>3 DEF JoinOK
  <2> QED
    BY <2>1, <2>4
<1>5. CASE Refuse(c)
  <2>1. PICK end \in {"refused", "unreached"} :
          Becomes(c, After(c, Returned(c, Reading(<<>>, 0, end))))
    BY <1>5 DEF Refuse
  <2>2. end \in Ends(Kind(c)) /\ call[c].phase \notin {"done", "panicked"}
    BY <1>5 DEF Refuse, Asks, Ends
  <2> QED
    BY <1>2, <2>1, <2>2, JoinRead
<1>6. CASE Expire(c)
  <2>1. /\ "unreached" \in Ends(Kind(c)) /\ call[c].phase \notin {"done", "panicked"}
        /\ Becomes(c, After(c, Returned(c, Reading(<<>>, 0, "unreached"))))
    BY <1>6 DEF Expire, Asks, Ends
  <2> QED
    BY <1>2, <2>1, JoinRead
<1>7. CASE Read(c)
  <2>1. /\ "whole" \in Ends(Kind(c)) /\ call[c].phase = "open"
        /\ Becomes(c, After(c, Returned(c, Reading(call[c].left, call[c].total, "whole"))))
    BY <1>7 DEF Read, Close, Ends
  <2>2. IsList(call[c].left)
    BY <2>1, OpenCall, ListOf
  <2> QED
    BY <2>1, <2>2, JoinRead
<1>8. CASE Break(c)
  <2>1. PICK some \in Prefixes(call[c].left), end \in Breaks(Kind(c)) :
          Becomes(c, After(c, Returned(c, Reading(call[c].got \o some, call[c].total, end))))
    BY <1>8 DEF Break, Close
  <2>2. end \in Ends(Kind(c)) /\ call[c].phase = "open"
    BY <1>8 DEF Break, Breaks, Ends
  <2>3. call[c].left \in Seq(Ids) /\ call[c].got \in Seq(Ids)
    BY <2>2, OpenCall
  <2>4. some \in Seq(Ids)
    BY <2>3 DEF Prefixes
  <2>5. IsList(call[c].got \o some)
    <3>1. call[c].got \o some \in Seq(Ids)
      BY <2>3, <2>4, ConcatProperties
    <3> QED
      BY <3>1, ListOf
  <2> QED
    BY <2>1, <2>2, <2>5, JoinRead
<1>9. ~ReadBatch(c) /\ ~Unsupported(c) /\ ~ExportRows(c)
  BY <1>2 DEF ReadBatch, Unsupported, ExportRows
<1>10. ~DescribeDatabases(c) /\ ~DescribeTables(c) /\ ~DiscoverTables(c)
  BY DEF DescribeDatabases, DescribeTables, DiscoverTables
<1>11. ~DiscoverPart(c) /\ ~DiscoverIndexColumns(c) /\ ~RegisterSchema(c)
  BY <1>2 DEF DiscoverPart, DiscoverIndexColumns, RegisterSchema
<1>12. ~AskNext(c)
  BY <1>1 DEF AskNext, IsRequest
<1> QED
  BY <1>3, <1>4, <1>5, <1>6, <1>7, <1>8, <1>9, <1>10, <1>11, <1>12 DEF Step

\* A step of a caller changes neither the rows nor what is asked, and takes back no fault.
LEMMA StepsOfCalls ==
  ASSUME ToolsInv, NEW c \in Callers, Step(c) \/ AskNext(c)
  PROVE  /\ store' = store /\ kept' = kept /\ changes' = changes
         /\ work' = work /\ (Intact' => Intact) /\ \E new : Becomes(c, new)
<1>1. CASE Step(c)
  <2>1. Moves(c)
    BY <1>1, RejectOK, UnsupportedOK, RefuseOK, ExpireOK, SendOK, ReadOK, ReadBatchOK,
       BreakOK, ExportRowsOK, DescribeOK, DiscoverTablesOK, DiscoverPartOK,
       DiscoverIndexColumnsOK, RegisterSchemaOK DEF Step
  <2>2. store' = store /\ kept' = kept /\ changes' = changes
    <3>1. CASE Reject(c) \/ Unsupported(c) \/ Refuse(c) \/ Expire(c)
      BY <3>1 DEF Reject, Unsupported, Refuse, Expire
    <3>2. CASE Send(c)
      BY <3>2 DEF Send
    <3>3. CASE Read(c) \/ ReadBatch(c) \/ Break(c)
      BY <3>3 DEF Read, ReadBatch, Break
    <3>4. CASE ExportRows(c)
      BY <3>4 DEF ExportRows
    <3>5. CASE DescribeDatabases(c) \/ DescribeTables(c) \/ DiscoverTables(c)
      BY <3>5 DEF DescribeDatabases, DescribeTables, DiscoverTables
    <3>6. CASE DiscoverPart(c) \/ DiscoverIndexColumns(c) \/ RegisterSchema(c)
      BY <3>6 DEF DiscoverPart, DiscoverIndexColumns, RegisterSchema
    <3> QED
      BY <1>1, <3>1, <3>2, <3>3, <3>4, <3>5, <3>6 DEF Step
  <2> QED
    BY <2>1, <2>2, FaultsFall DEF Moves
<1>2. CASE AskNext(c)
  BY <1>2 DEF AskNext, Intact
<1> QED
  BY <1>1, <1>2

LEMMA JoinInit == Init => JoinInv
<1> SUFFICES ASSUME Init, NEW c \in Callers PROVE JoinOK(call[c], work.requests[c])
  BY DEF JoinInv
<1>1. call[c].phase = "waiting" /\ call[c].results = <<>>
  BY DEF Init, Waiting
<1> QED
  BY <1>1 DEF JoinOK

LEMMA JoinNext == ToolsInv /\ JoinInv /\ [Next]_vars => JoinInv'
<1> SUFFICES ASSUME ToolsInv, JoinInv, [Next]_vars PROVE JoinInv'
  OBVIOUS
<1>0. DOMAIN call = Callers
  BY DEF ToolsInv
<1>1. CASE Insert \/ Delete \/ UNCHANGED vars
  BY <1>1 DEF Insert, Delete, vars, JoinInv, Callers
<1>2. ASSUME NEW c \in Callers, Step(c) \/ AskNext(c) PROVE JoinInv'
  <2>1. work' = work /\ \E new : Becomes(c, new)
    BY <1>2, StepsOfCalls
  <2>2. \E new : Becomes(c, new) /\ JoinOK(new, work.requests[c])
    <3>1. CASE Tool(c) = "cross_db_join"
      BY <1>2, <3>1, JoinStep DEF JoinInv
    <3>2. CASE Tool(c) # "cross_db_join"
      BY <2>1, <3>2 DEF JoinOK, Tool
    <3> QED
      BY <3>1, <3>2
  <2>3. PICK new : call' = [call EXCEPT ![c] = new] /\ JoinOK(new, work.requests[c])
    BY <2>2 DEF Becomes
  <2>4. \A d \in Callers : JoinOK(call'[d], work.requests[d])
    BY <1>0, <2>3 DEF JoinInv
  <2> QED
    BY <2>1, <2>4 DEF JoinInv, Callers
<1> QED
  BY <1>1, <1>2 DEF Next

\* What is joined are rows with the columns of their results.
LEMMA JoinConfigOK ==
  ASSUME NEW request, NEW results, IsList(results[1].rows), IsList(results[2].rows),
         LET cfg == JoinConfig(request, results) IN cfg.leftAlias # cfg.rightAlias
  PROVE  IsConfig(JoinConfig(request, results))
<1> DEFINE cfg == JoinConfig(request, results)
<1>1. ASSUME NEW ask, NEW rows, IsList(rows)
      PROVE  AreRows(Rows(ask, rows), ResultColumns(ask, rows))
  <2> DEFINE s == Rows(ask, rows)
             columns == ResultColumns(ask, rows)
  <2>1. DOMAIN rows = 1 .. Len(rows) /\ Len(rows) \in Nat
    BY <1>1, LenProperties DEF IsList
  <2>2. s = [n \in 1 .. Len(rows) |-> s[n]]
    BY <2>1 DEF Rows
  <2>3. ASSUME NEW n \in DOMAIN s PROVE s[n] = [c \in columns |-> s[n][c]]
    <3>1. rows # <<>> /\ s[n] = Row(ask.kind, ask.query, rows[n])
      BY DEF Rows
    <3>2. columns = DOMAIN Row(ask.kind, ask.query, rows[1])
      BY <3>1 DEF ResultColumns
    <3> HIDE DEF s, columns
    <3> QED
      BY <3>1, <3>2, RowsAreAlike
  <2> HIDE DEF s, columns
  <2>4. IsList(s)
    BY <2>1, <2>2, ListOfLength
  <2>5. AreRows(s, columns)
    BY <2>3, <2>4 DEF AreRows
  <2> QED
    BY <2>5 DEF s, columns
<1>2. /\ cfg.left = Rows(request.reads[1], results[1].rows)
      /\ cfg.right = Rows(request.reads[2], results[2].rows)
      /\ cfg.leftColumns = ResultColumns(request.reads[1], results[1].rows)
      /\ cfg.rightColumns = ResultColumns(request.reads[2], results[2].rows)
  BY DEF JoinConfig
<1>3. cfg.leftAlias # cfg.rightAlias
  OBVIOUS
<1> HIDE DEF cfg
<1>4. IsConfig(cfg)
  BY <1>1, <1>2, <1>3 DEF IsConfig
<1> QED
  BY <1>4 DEF cfg

-----------------------------------------------------------------------------
(* What the tools promise *)

\* Behind every successful answer of execute_query, stream_query, multi_source_query and
\* cross_db_join are all the rows that the databases had to give, whatever breaks
\* between them and whoever else asks; but for the adapters that swallow errors.
THEOREM AnswersAreComplete == Spec => []AnswersAreWhole
<1>1. ToolsInv => AnswersAreWhole
  <2> SUFFICES ASSUME ToolsInv, NEW c \in Callers, Answered(c, ReadTools),
                      NEW n \in DOMAIN call[c].results
               PROVE  \/ work.requests[c].reads[n].kind \in Lenient(Tool(c))
                      \/ call[c].results[n].rows = call[c].whole[n]
    BY DEF AnswersAreWhole, ReadTools
  <2>1. Tool(c) \in ReadTools /\ call[c].phase = "done" /\ call[c].answer.ok
    BY DEF Answered
  <2>2. CallOK(call[c], work.requests[c])
    BY <2>1, CallersAsk DEF GoodCall, Querying, ReadTools, Tool
  <2> QED
    BY <2>1, <2>2 DEF CallOK, IsWhole, Tool
<1> QED
  BY <1>1, ToolsStay, PTL

\* The file that a successful export_query leaves holds the rows that the database gave,
\* record by record; the end of a CSV file may be missing only if the disk was full.
THEOREM ExportsAreResults == Spec => []ExportedFileIsTheResult
<1>1. ToolsInv => ExportedFileIsTheResult
  <2> SUFFICES ASSUME ToolsInv, NEW c \in Callers, Answered(c, {"export_query"}),
                      Kind(c) \notin Lenient("export_query")
               PROVE  LET rows == Rows(work.requests[c].reads[1], call[c].whole[1])
                          format == work.requests[c].format
                      IN  \/ file[c] = File(rows)
                          \/ format = "parquet" /\ rows = <<>> /\ file[c] = NoFile
                          \/ /\ format = "csv" /\ faults < work.faults
                             /\ file[c] \in {File(s) : s \in Prefixes(rows)}
    BY DEF ExportedFileIsTheResult
  <2>1. /\ work.requests[c].tool = "export_query" /\ call[c].phase = "done" /\ call[c].answer.ok
    BY DEF Answered, Tool
  <2>2. ExportOK(call[c], file[c], work.requests[c], Intact)
    BY <2>1, CallersAsk DEF GoodCall
  <2>3. Kind(c) = work.requests[c].reads[1].kind
    BY <2>2 DEF ExportOK, Kind, Ask1
  <2>4. FileOK(file[c], work.requests[c], call[c].whole[1], Intact)
    BY <2>1, <2>2, <2>3 DEF ExportOK
  <2>5. ~Intact => faults < work.faults
    BY QueryToolsAssumption DEF ToolsInv, Intact
  <2> QED
    BY <2>4, <2>5 DEF FileOK
<1> QED
  BY <1>1, ToolsStay, PTL

\* The schema that annotate_schema registers is that of the database if nothing failed, and
\* for a database with SQL no failure costs a table, a column or a reference.
THEOREM DiscoveriesAreReal == Spec => []DiscoveredSchemaIsReal
<1>1. ToolsInv => DiscoveredSchemaIsReal
  <2> SUFFICES ASSUME ToolsInv, NEW k \in Kinds
               PROVE  LET Same(parts) ==
                            /\ DOMAIN schema[k] = DOMAIN Whole(k)
                            /\ \A t \in DOMAIN schema[k] : \A p \in parts \cap Range(Parts(k)) :
                                 schema[k][t][p] = Catalog[t][p]
                      IN  /\ faults = work.faults =>
                               Same(Range(Parts(k)) \ (IF k = "postgres" THEN {"indexes"} ELSE {}))
                          /\ k \in SqlKinds =>
                               Same({"columns", "refs"}
                                      \cup (IF k = "postgres" THEN {} ELSE {"key"}))
    BY DEF DiscoveredSchemaIsReal
  <2>1. FoundOK(k, schema[k], <<>>, Intact)
    BY DEF ToolsInv
  <2>2. Range(<<>>) = {}
    BY DEF Range
  <2>3. \A t \in DOMAIN schema[k] : \A p \in Sure(k, Intact) : schema[k][t][p] = Catalog[t][p]
    BY <2>1, <2>2 DEF FoundOK
  <2>4. Complete(k, Intact) => DOMAIN schema[k] = DOMAIN Whole(k)
    BY <2>1 DEF FoundOK
  <2>5. Intact => Range(Parts(k)) \ (IF k = "postgres" THEN {"indexes"} ELSE {})
                    \subseteq Sure(k, Intact)
    BY DEF Sure
  <2>6. k \in SqlKinds =>
          ({"columns", "refs"} \cup (IF k = "postgres" THEN {} ELSE {"key"}))
             \cap Range(Parts(k)) \subseteq Sure(k, Intact)
    BY DEF Sure
  <2>7. /\ Intact => Complete(k, Intact)
        /\ k \in SqlKinds => Complete(k, Intact)
    BY DEF Complete
  <2> QED
    BY <2>3, <2>4, <2>5, <2>6, <2>7 DEF Intact
<1> QED
  BY <1>1, ToolsStay, PTL

\* What cross_db_join returns is the join of the two results that it got, whichever rows they
\* have and whichever of the three joins is asked for.
THEOREM JoinsAreReference == Spec => []JoinIsTheReference
<1>1. JoinInv => JoinIsTheReference
  <2> SUFFICES ASSUME JoinInv, NEW c \in Callers, Answered(c, {"cross_db_join"}),
                      NEW cfg, cfg = JoinConfig(work.requests[c], call[c].results),
                      cfg.leftAlias # cfg.rightAlias
               PROVE  IsJoin(cfg, call[c].answer.rows)
    BY DEF JoinIsTheReference
  <2>1. work.requests[c].tool = "cross_db_join" /\ call[c].phase = "done" /\ call[c].answer.ok
    BY DEF Answered, Tool
  <2>2. /\ IsList(call[c].results[1].rows) /\ IsList(call[c].results[2].rows)
        /\ call[c].answer = CrossJoin(cfg)
    BY <2>1 DEF JoinInv, JoinOK
  <2>3. IsConfig(cfg)
    BY <2>2, JoinConfigOK
  <2> QED
    BY <2>1, <2>2, <2>3, CrossJoinOK
<1> QED
  BY <1>1, JoinInit, JoinNext, ToolsStay, PTL DEF Spec

-----------------------------------------------------------------------------
(* The conditions of a query *)

\* The groups of the conditions fs, if there is no OR among them.
IsGroup(groups, fs) ==
    IF fs = {} THEN groups = <<>> ELSE \E g \in Seq(fs) : groups = <<g>> /\ Range(g) = fs

\* The conditions of a query with AND only are at most one group.
LEMMA OneGroup ==
  ASSUME NEW filters, IsList(filters), \A f \in Range(filters) : f.logic # "or"
  PROVE  IsGroup(Disjuncts(filters), Range(filters))
<1> DEFINE R == Range(filters)
           V == {<<>>} \cup {<<g>> : g \in Seq(R)}
           n == Len(filters)
           S == 1 .. n
           Op(groups, f) == IF groups = <<>> \/ f.logic = "or"
                            THEN Append(groups, <<f>>)
                            ELSE [groups EXCEPT ![Len(groups)] = Append(@, f)]
           ch == [U \in SUBSET S |-> Max(U)]
           step == [p \in S \X V |-> Op(p[2], filters[p[1]])]
<1>1. n \in Nat /\ DOMAIN filters = S /\ \A i \in S : filters[i] \in R
  BY LenProperties, ElementOfSeq DEF IsList
<1> HIDE DEF n
<1>2. IsFiniteSet(S) /\ \A U \in SUBSET S : U # {} => ch[U] \in U
  <2>1. IsFiniteSet(S)
    BY <1>1, FS_Interval
  <2>2. \A U \in SUBSET S : U # {} => Max(U) \in U
    BY <1>1, LastPlace
  <2> QED
    BY <2>1, <2>2
<1>3. <<>> \in V
  OBVIOUS
<1>4. ASSUME NEW groups \in V, NEW f \in R PROVE Op(groups, f) \in V
  <2>1. CASE groups = <<>>
    <3>1. Op(groups, f) = <<<<f>>>> /\ <<f>> \in Seq(R)
      BY <2>1
    <3> QED
      BY <3>1
  <2>2. CASE groups # <<>>
    <3>1. PICK g \in Seq(R) : groups = <<g>>
      BY <2>2
    <3>2. Op(groups, f) = [<<g>> EXCEPT ![1] = Append(g, f)]
      BY <2>2, <3>1
    <3>3. Append(g, f) \in Seq(R)
      BY <3>1
    <3> DEFINE b == Append(g, f)
    <3> HIDE DEF b
    <3>4. [<<g>> EXCEPT ![1] = b] = <<b>>
      OBVIOUS
    <3> QED
      BY <3>2, <3>3, <3>4 DEF b
  <2> QED
    BY <2>1, <2>2
<1>5. step \in [S \X V -> V]
  <2> HIDE DEF V, Op, S, R
  <2> QED
    BY <1>1, <1>4
<1> HIDE DEF V
<1>6. PICK g \in [SUBSET S -> V] : IsFold(g, S, <<>>, ch, step)
  <2> HIDE DEF step, ch, S
  <2> QED
    BY <1>2, <1>3, <1>5, FoldExists
<1>7. \A U \in SUBSET S :
        g[U] = IF U = {} THEN <<>> ELSE Op(g[U \ {Max(U)}], filters[Max(U)])
  <2> TAKE U \in SUBSET S
  <2>1. g[U] = IF U = {} THEN <<>> ELSE step[<<ch[U], g[U \ {ch[U]}]>>]
    <3> HIDE DEF ch, step, S
    <3> QED
      BY <1>6, FoldValue
  <2>2. CASE U = {}
    BY <2>1, <2>2
  <2>3. CASE U # {}
    <3>1. ch[U] \in S /\ U \ {ch[U]} \in SUBSET S /\ ch[U] = Max(U)
      BY <1>2, <2>3
    <3>2. <<ch[U], g[U \ {ch[U]}]>> \in S \X V
      <4> HIDE DEF ch, step
      <4> QED
        BY <3>1
    <3>3. g[U] = Op(g[U \ {ch[U]}], filters[ch[U]])
      <4> HIDE DEF ch, Op, S
      <4> QED
        BY <2>1, <2>3, <3>2
    <3> HIDE DEF ch, Op, S, step
    <3> QED
      BY <2>3, <3>1, <3>3
  <2> QED
    BY <2>2, <2>3
<1> DEFINE h == CHOOSE iter : iter = [s \in SUBSET S |->
                  IF s = {} THEN <<>> ELSE Op(iter[s \ {Max(s)}], filters[Max(s)])]
<1>8. h = [s \in SUBSET S |->
             IF s = {} THEN <<>> ELSE Op(h[s \ {Max(s)}], filters[Max(s)])]
  <2>1. g = [s \in SUBSET S |->
               IF s = {} THEN <<>> ELSE Op(g[s \ {Max(s)}], filters[Max(s)])]
    <3> HIDE DEF Op, S, V
    <3> QED
      BY <1>7
  <2> HIDE DEF Op, S
  <2> QED
    BY <2>1
<1>9. Disjuncts(filters) = h[S]
  BY <1>1 DEF Disjuncts, FoldLeft, MapThenFoldSet
<1> HIDE DEF h
<1>10. /\ h[{}] = <<>>
       /\ \A U \in SUBSET S : U # {} => h[U] = Op(h[U \ {Max(U)}], filters[Max(U)])
  <2> HIDE DEF Op
  <2> QED
    BY <1>8
<1> DEFINE Those(U) == {filters[u] : u \in U}
           P == {U \in SUBSET S : IsGroup(h[U], Those(U))}
<1>11. {} \in P
  BY <1>10 DEF IsGroup
<1>12. ASSUME NEW U \in SUBSET S, NEW m \in U, m = Max(U), U \ {m} \in P PROVE U \in P
  <2> DEFINE f == filters[m]
             before == h[U \ {m}]
  <2>1. /\ f \in R /\ f.logic # "or" /\ Those(U) = Those(U \ {m}) \cup {f}
        /\ IsGroup(before, Those(U \ {m}))
    BY <1>1, <1>12
  <2>2. h[U] = Op(before, f)
    <3> HIDE DEF Op
    <3> QED
      BY <1>10, <1>12
  <2> HIDE DEF f, before
  <2>3. IsGroup(h[U], Those(U))
    <3>1. CASE Those(U \ {m}) = {}
      <4>1. before = <<>> /\ Those(U) = {f}
        BY <2>1, <3>1 DEF IsGroup
      <4>2. h[U] = <<<<f>>>>
        BY <2>2, <4>1
      <4>3. <<f>> \in Seq({f}) /\ Range(<<f>>) = {f}
        BY DEF Range
      <4> QED
        BY <4>1, <4>2, <4>3 DEF IsGroup
    <3>2. CASE Those(U \ {m}) # {}
      <4>1. PICK e \in Seq(Those(U \ {m})) : before = <<e>> /\ Range(e) = Those(U \ {m})
        BY <2>1, <3>2 DEF IsGroup
      <4> DEFINE b == Append(e, f)
      <4>2. b \in Seq(Those(U)) /\ Range(b) = Those(U)
        <5>1. IsList(e)
          BY ListOf
        <5>2. /\ IsList(b) /\ Len(e) \in Nat
              /\ DOMAIN e = 1 .. Len(e) /\ DOMAIN b = 1 .. Len(e) + 1
              /\ \A k \in 1 .. Len(e) : b[k] = e[k]
              /\ b[Len(e) + 1] = f
          BY <5>1, ListAppend
        <5>3. \A k \in 1 .. Len(e) + 1 : k \in 1 .. Len(e) \/ k = Len(e) + 1
          BY <5>2
        <5>4. Len(e) + 1 \in 1 .. Len(e) + 1 /\ \A k \in 1 .. Len(e) : k \in 1 .. Len(e) + 1
          BY <5>2
        <5> HIDE DEF b
        <5>5. Range(b) = Range(e) \cup {f}
          BY <5>2, <5>3, <5>4 DEF Range
        <5>6. Range(b) = Those(U)
          BY <2>1, <4>1, <5>5
        <5> QED
          BY <5>2, <5>6 DEF IsList
      <4>3. before # <<>> /\ h[U] = [<<e>> EXCEPT ![1] = b]
        BY <2>1, <2>2, <4>1
      <4> HIDE DEF b
      <4>4. h[U] = <<b>>
        BY <4>3
      <4>5. Those(U) # {}
        BY <2>1
      <4> HIDE DEF Those
      <4> QED
        BY <4>2, <4>4, <4>5 DEF IsGroup
    <3> QED
      BY <3>1, <3>2
  <2> QED
    BY <2>3
<1>13. S \in P
  <2>1. \A U \in SUBSET S : U # {} => Max(U) \in U
    BY <1>2
  <2> HIDE DEF P, S
  <2> QED
    BY <1>2, <1>11, <1>12, <2>1, PlaceInduction
<1>14. Those(S) = R
  BY <1>1 DEF Range
<1> QED
  BY <1>9, <1>13, <1>14

-----------------------------------------------------------------------------
(* The calls whose pages are followed *)

LEMMA PagedCall ==
  ASSUME ToolsInv, NEW c \in Callers, work.requests[c].paging # "none"
  PROVE  /\ IsRequest(work.requests[c]) /\ CallOK(call[c], work.requests[c])
         /\ work.requests[c].tool = "execute_query" /\ Tool(c) = "execute_query"
         /\ Len(work.requests[c].reads) = 1 /\ call[c].n = 1
         /\ Kind(c) = work.requests[c].reads[1].kind
         /\ IsQuery(work.requests[c].reads[1].query)
<1> DEFINE r == work.requests[c]
<1>1. IsRequest(r) /\ GoodCall(call[c], file[c], r, Intact)
  BY CallersAsk
<1>2. r.tool = "execute_query" /\ Len(r.reads) = 1
  BY <1>1 DEF IsRequest
<1>3. CallOK(call[c], r)
  BY <1>1, <1>2 DEF GoodCall, Querying
<1>4. call[c].n = 1 /\ 1 \in DOMAIN r.reads
  BY <1>1, <1>2, <1>3, RequestFacts DEF CallOK
<1>5. Kind(c) = r.reads[1].kind /\ IsQuery(r.reads[1].query)
  BY <1>1, <1>4 DEF IsRequest, Kind, Ask1
<1> QED
  BY <1>1, <1>2, <1>3, <1>4, <1>5 DEF Tool

\* The call after a page was read, or not, with the result p.
LEMMA PageRead ==
  ASSUME ToolsInv, NEW c \in Callers, work.requests[c].paging # "none",
         call[c].phase \notin {"done", "panicked"}, NEW p, NEW new, new = After(c, p)
  PROVE  /\ new.phase = "done" /\ new.query = call[c].query
         /\ p.ok => new.answer = p /\ new.pages = Append(call[c].pages, p.rows)
         /\ ~p.ok => ~new.answer.ok /\ new.pages = call[c].pages
<1> DEFINE x == call[c]
           r == work.requests[c]
           results == Append(x.results, p)
           read == [x EXCEPT !.left = <<>>, !.got = <<>>, !.results = results]
           a == Answer(r, results)
           done == [read EXCEPT !.phase = "done", !.answer = a,
                                !.pages = IF a.ok THEN Append(@, a.rows) ELSE @]
           failed == [read EXCEPT !.phase = "done", !.answer = Failed]
<1>1. /\ CallOK(x, r) /\ r.tool = "execute_query" /\ x.n = 1 /\ Len(r.reads) = 1
      /\ DOMAIN x = Fields /\ IsList(x.results)
  BY PagedCall DEF CallOK
<1>2. a = p
  <2>1. Len(results) = Len(x.results) + 1 /\ results[Len(x.results) + 1] = p
    BY <1>1, ListAppend
  <2> HIDE DEF results
  <2>2. Last(results) = p
    BY <2>1 DEF Last
  <2> QED
    BY <1>1, <2>2 DEF Answer
<1> HIDE DEF results, r, x, a
<1>3. CASE ~p.ok
  <2>1. new = failed
    BY <1>3 DEF After, x, r, results
  <2>2. /\ failed.phase = "done" /\ ~failed.answer.ok /\ failed.query = x.query
        /\ failed.pages = x.pages
    BY <1>1 DEF Fields, Failed
  <2> HIDE DEF failed
  <2> QED
    BY <1>3, <2>1, <2>2 DEF x
<1>4. CASE p.ok
  <2>1. new = done
    BY <1>1, <1>4 DEF After, x, r, results, a
  <2>2. /\ done.phase = "done" /\ done.answer = p /\ done.query = x.query
        /\ done.pages = Append(x.pages, p.rows)
    BY <1>1, <1>2, <1>4 DEF Fields
  <2> HIDE DEF done
  <2> QED
    BY <1>4, <2>1, <2>2 DEF x
<1> QED
  BY <1>3, <1>4

LEMMA PagedStep ==
  ASSUME ToolsInv, NEW c \in Callers, work.requests[c].paging # "none", Step(c)
  PROVE  Reject(c) \/ Send(c) \/ Refuse(c) \/ Expire(c) \/ Read(c) \/ Break(c)
<1>1. Tool(c) = "execute_query" /\ CallOK(call[c], work.requests[c])
  BY PagedCall
<1>2. call[c].phase \in {"waiting", "open", "done", "panicked"} /\ ~Batched(c)
  BY <1>1 DEF CallOK, Batched
<1>3. ~ReadBatch(c) /\ ~Unsupported(c) /\ ~ExportRows(c)
  BY <1>1, <1>2 DEF ReadBatch, Unsupported, ExportRows
<1>4. ~DescribeDatabases(c) /\ ~DescribeTables(c) /\ ~DiscoverTables(c)
  BY <1>1 DEF DescribeDatabases, DescribeTables, DiscoverTables
<1>5. ~DiscoverPart(c) /\ ~DiscoverIndexColumns(c) /\ ~RegisterSchema(c)
  BY <1>2 DEF DiscoverPart, DiscoverIndexColumns, RegisterSchema
<1> QED
  BY <1>3, <1>4, <1>5 DEF Step

-----------------------------------------------------------------------------
(* The pages of a cursor *)

\* The query of a page differs from that of the first in its cursor.
SameQuery(q, first) ==
    /\ q.columns = first.columns /\ q.filters = first.filters /\ q.order = first.order
    /\ q.limit = first.limit /\ q.offset = first.offset
    /\ q.cursorColumn = first.cursorColumn /\ q.raw = first.raw

\* Row i is beyond the cursor.
Beyond(column, cursor, i) == cursor = Null \/ Field(i, column) > cursor

\* A condition, an OR of ANDs, holds of row i.
Holds(groups, i) ==
    groups = <<>> \/ \E g \in Range(groups) : \A f \in Range(g) : SqlHolds(f, i)

LEMMA SqlMatches ==
  ASSUME NEW groups, NEW order, NEW limit, NEW offset, NEW i
  PROVE  Matches(Sql(groups, order, limit, offset), i) <=> Holds(groups, i)
BY DEF Matches, Sql, Holds

LEMMA OneGroupHolds ==
  ASSUME NEW g, NEW i
  PROVE  Holds(<<g>>, i) <=> \A f \in Range(g) : SqlHolds(f, i)
<1>1. <<g>> # <<>> /\ \A h \in Range(<<g>>) : h = g
  BY DEF Range
<1>2. g \in Range(<<g>>)
  <2>1. 1 \in DOMAIN <<g>> /\ <<g>>[1] = g
    OBVIOUS
  <2> QED
    BY <2>1 DEF Range
<1> QED
  BY <1>1, <1>2 DEF Holds

LEMMA CursorFields ==
  ASSUME NEW q, FollowsCursor(q), NEW i \in Ids
  PROVE  Field(i, q.cursorColumn) \in Nat /\ q.cursorColumn # Null
BY QueriesAssumption DEF FollowsCursor, Field, Columns

\* Known operators are translated as they are.
LEMMA TranslatedAsIs ==
  ASSUME NEW filters, IsList(filters), NEW operators,
         \A f \in Range(filters) : IsFilter(f) /\ f.operator \in operators
  PROVE  Translated(filters, operators) = Disjuncts(filters)
<1> DEFINE One(f) == [f EXCEPT !.operator = IF @ \in operators THEN @ ELSE "eq"]
<1>1. ASSUME NEW f, IsFilter(f), f.operator \in operators PROVE One(f) = f
  <2> DEFINE a == f.column
             b == f.operator
             c == f.value
             d == f.logic
  <2>1. f = [column |-> a, operator |-> b, value |-> c, logic |-> d]
    BY <1>1 DEF IsFilter
  <2>2. One(f) = [f EXCEPT !.operator = b]
    BY <1>1, <2>1
  <2> HIDE DEF a, b, c, d, One
  <2>3. [f EXCEPT !.operator = b] = f
    BY <2>1
  <2> QED
    BY <2>2, <2>3
<1> HIDE DEF One
<1>2. filters = [n \in DOMAIN filters |-> filters[n]]
      /\ \A n \in DOMAIN filters : filters[n] \in Range(filters)
  BY DEF IsList, Range
<1>3. [n \in DOMAIN filters |-> One(filters[n])] = filters
  BY <1>1, <1>2
<1> QED
  BY <1>3 DEF Translated, One

LEMMA CursorHolds ==
  ASSUME NEW filters, IsList(filters), \A f \in Range(filters) : f.logic # "or",
         NEW q, q.cursorColumn # Null, q.cursor \in Nat \cup {Null},
         NEW i, Field(i, q.cursorColumn) \in Nat
  PROVE  Holds(PostgresCursor(Disjuncts(filters), q), i)
           <=> Holds(Disjuncts(filters), i) /\ Beyond(q.cursorColumn, q.cursor, i)
<1> DEFINE groups == Disjuncts(filters)
           after == [column |-> q.cursorColumn, operator |-> "gt", value |-> q.cursor,
                     logic |-> "and"]
<1>1. groups = <<>> \/ \E g \in Seq(Range(filters)) : groups = <<g>>
  BY OneGroup DEF IsGroup
<1>2. q.cursor # Null => (SqlHolds(after, i) <=> Beyond(q.cursorColumn, q.cursor, i))
  <2> SUFFICES ASSUME q.cursor # Null
               PROVE  SqlHolds(after, i) <=> Beyond(q.cursorColumn, q.cursor, i)
    OBVIOUS
  <2>1. /\ after.column = q.cursorColumn /\ after.operator = "gt" /\ after.value = q.cursor
    OBVIOUS
  <2> HIDE DEF after
  <2>2. Field(i, q.cursorColumn) # Null
    BY QueriesAssumption
  <2> QED
    BY <2>1, <2>2 DEF SqlHolds, Compares, Beyond
<1> HIDE DEF after
<1>3. CASE q.cursor = Null
  <2>1. PostgresCursor(groups, q) = groups
    BY <1>3 DEF PostgresCursor
  <2> QED
    BY <1>3, <2>1 DEF Beyond
<1>4. CASE q.cursor # Null /\ groups = <<>>
  <2>1. PostgresCursor(groups, q) = <<<<after>>>>
    BY <1>4 DEF PostgresCursor, after
  <2>2. Range(<<after>>) = {after}
    BY DEF Range
  <2>3. Holds(groups, i)
    BY <1>4 DEF Holds
  <2> HIDE DEF groups
  <2> QED
    BY <1>2, <1>4, <2>1, <2>2, <2>3, OneGroupHolds DEF groups
<1>5. CASE q.cursor # Null /\ groups # <<>>
  <2>1. PICK g \in Seq(Range(filters)) : groups = <<g>>
    BY <1>1, <1>5
  <2> DEFINE both == Append(g, after)
  <2>2. PostgresCursor(groups, q) = [<<g>> EXCEPT ![1] = both]
    <3> HIDE DEF groups
    <3> QED
      BY <1>5, <2>1 DEF PostgresCursor, after
  <2>3. Range(both) = Range(g) \cup {after}
    <3>1. IsList(g)
      BY ListOf
    <3>2. /\ Len(g) \in Nat /\ DOMAIN g = 1 .. Len(g) /\ DOMAIN both = 1 .. Len(g) + 1
          /\ \A j \in 1 .. Len(g) : both[j] = g[j]
          /\ both[Len(g) + 1] = after
      BY <3>1, ListAppend
    <3> DEFINE n == Len(g)
    <3> HIDE DEF n, both
    <3>3. n \in Nat /\ \A j \in 1 .. n + 1 : j \in 1 .. n \/ j = n + 1
      BY <3>2 DEF n
    <3>4. n + 1 \in 1 .. n + 1 /\ \A j \in 1 .. n : j \in 1 .. n + 1
      BY <3>3
    <3>5. /\ DOMAIN g = 1 .. n /\ DOMAIN both = 1 .. n + 1
          /\ \A j \in 1 .. n : both[j] = g[j]
          /\ both[n + 1] = after
      BY <3>2 DEF n
    <3> QED
      BY <3>3, <3>4, <3>5 DEF Range
  <2> HIDE DEF both, groups
  <2>4. PostgresCursor(groups, q) = <<both>>
    BY <2>2
  <2> QED
    BY <1>2, <1>5, <2>1, <2>3, <2>4, OneGroupHolds DEF groups
<1> QED
  BY <1>3, <1>4, <1>5

\* The rows of a page are those asked for beyond the cursor, in the order of its column.
LEMMA CursorStatement ==
  ASSUME NEW first, IsQuery(first), FollowsCursor(first),
         NEW q, SameQuery(q, first), q.cursor \in Nat \cup {Null},
         NEW s, s = PostgresStatement(q)
  PROVE  /\ s.order = <<[column |-> first.cursorColumn, direction |-> "asc"]>>
         /\ s.limit = first.limit /\ s.offset = 0
         /\ \A i \in Ids : Matches(s, i) <=>
              Matches(Written(first), i) /\ Beyond(first.cursorColumn, q.cursor, i)
<1> DEFINE column == first.cursorColumn
           groups == Disjuncts(first.filters)
           asc == <<[column |-> column, direction |-> "asc"]>>
<1>1. column # Null
  BY QueriesAssumption DEF FollowsCursor, Columns
<1>2. Translated(q.filters, PostgresOperators) = groups
  <2>1. IsList(first.filters) /\ q.filters = first.filters
    BY DEF IsQuery, IsList, SameQuery
  <2>2. \A f \in Range(first.filters) : IsFilter(f) /\ f.operator \in PostgresOperators
    BY DEF IsQuery, FollowsCursor, PostgresOperators
  <2> HIDE DEF groups
  <2>3. Translated(first.filters, PostgresOperators) = groups
    BY <2>1, <2>2, TranslatedAsIs DEF groups
  <2> QED
    BY <2>1, <2>3
<1>3. s = Sql(PostgresCursor(groups, q), asc, first.limit, 0)
  <2>1. /\ ~q.raw /\ q.cursorColumn = column /\ q.limit = first.limit /\ q.offset = 0
        /\ q.order \in {<<>>, asc}
    BY DEF SameQuery, FollowsCursor
  <2> HIDE DEF asc, column, groups
  <2>2. (IF q.order = <<>> /\ q.cursorColumn # Null
         THEN <<[column |-> q.cursorColumn, direction |-> "asc"]>> ELSE q.order) = asc
    BY <1>1, <2>1 DEF asc
  <2> DEFINE o == IF q.order = <<>> /\ q.cursorColumn # Null
                  THEN <<[column |-> q.cursorColumn, direction |-> "asc"]>> ELSE q.order
  <2>3. s = Sql(PostgresCursor(Translated(q.filters, PostgresOperators), q), o,
                q.limit, q.offset)
    BY <2>1 DEF PostgresStatement
  <2> HIDE DEF o
  <2> QED
    BY <1>2, <2>1, <2>2, <2>3 DEF o
<1>4. s.order = asc /\ s.limit = first.limit /\ s.offset = 0
  BY <1>3 DEF Sql
<1>5. ASSUME NEW i \in Ids
      PROVE  Matches(s, i) <=> Matches(Written(first), i) /\ Beyond(column, q.cursor, i)
  <2>1. Matches(s, i) <=> Holds(PostgresCursor(groups, q), i)
    BY <1>3, SqlMatches
  <2>2. Matches(Written(first), i) <=> Holds(groups, i)
    BY SqlMatches DEF Written
  <2>3. Field(i, column) \in Nat /\ q.cursorColumn = column
    BY CursorFields DEF SameQuery
  <2>4. IsList(first.filters) /\ \A f \in Range(first.filters) : f.logic # "or"
    BY DEF IsQuery, FollowsCursor, IsList
  <2> HIDE DEF column
  <2>5. Holds(PostgresCursor(groups, q), i) <=> Holds(groups, i) /\ Beyond(column, q.cursor, i)
    BY <1>1, <2>3, <2>4, CursorHolds
  <2> QED
    BY <2>1, <2>2, <2>5
<1> QED
  BY <1>4, <1>5

\* The rows of a page after the cursor: of the rows in K that are asked for and beyond the
\* cursor, only those are missing that come after a full page.
PageRows(first, cursor, K, rows) ==
    LET column == first.cursorColumn IN
    /\ rows \in Seq(Ids)
    /\ \A a, b \in DOMAIN rows : a < b => Field(rows[a], column) < Field(rows[b], column)
    /\ \A a \in DOMAIN rows : Beyond(column, cursor, rows[a])
    /\ \A i \in K :
         Matches(Written(first), i) /\ Beyond(column, cursor, i) =>
           \/ i \in Range(rows)
           \/ /\ first.limit > 0 /\ Len(rows) = first.limit
              /\ \A a \in DOMAIN rows : Field(rows[a], column) < Field(i, column)

LEMMA PageOfAnswer ==
  ASSUME NEW first, IsQuery(first), FollowsCursor(first),
         NEW q, SameQuery(q, first), q.cursor \in Nat \cup {Null},
         NEW table, IsFiniteSet(table), table \subseteq Ids, NEW K, K \subseteq table,
         NEW rows \in Answers(PostgresStatement(q), table)
  PROVE  PageRows(first, q.cursor, K, rows)
<1> DEFINE s == PostgresStatement(q)
           S == {i \in table : Matches(s, i)}
           column == first.cursorColumn
           limit == first.limit
           last(all) == IF limit = 0 \/ 0 + limit > Len(all) THEN Len(all) ELSE 0 + limit
<1>1. /\ s.order = <<[column |-> column, direction |-> "asc"]>>
      /\ s.limit = limit /\ s.offset = 0
      /\ \A i \in Ids : Matches(s, i) <=>
           Matches(Written(first), i) /\ Beyond(column, q.cursor, i)
  BY CursorStatement
<1>2. PICK all \in Arrangements(s.order, S) : rows = SubSeq(all, 0 + 1, last(all))
  <2> HIDE DEF s
  <2> QED
    BY <1>1 DEF Answers, s
<1> HIDE DEF s
<1>3. IsArrangement(s.order, S, all)
  <2>1. IsFiniteSet(S) /\ S \subseteq Ids
    BY FS_Subset
  <2> HIDE DEF S
  <2> QED
    BY <1>2, <2>1, ArrangementsAreArranged
<1> DEFINE n == Len(all)
           m == last(all)
<1>4. /\ all \in Seq(Ids) /\ n \in Nat /\ DOMAIN all = 1 .. n /\ \A j \in 1 .. n : all[j] \in S
      /\ \A j \in 1 .. n : all[j] \in Ids /\ Field(all[j], column) \in Nat
  <2>1. all \in Seq(Ids) /\ Range(all) = S
    BY <1>3 DEF IsArrangement
  <2>2. n \in Nat /\ DOMAIN all = 1 .. n /\ \A j \in 1 .. n : all[j] \in Ids
    BY <2>1, LenProperties, ElementOfSeq
  <2> HIDE DEF S, n
  <2> QED
    BY <2>1, <2>2, CursorFields DEF Range
<1>5. limit \in Nat /\ m \in 0 .. n /\ (m # n => limit > 0 /\ m = limit)
  <2>1. limit \in Nat
    BY DEF IsQuery
  <2>2. n \in Nat
    BY <1>4
  <2>3. m = IF limit = 0 \/ 0 + limit > n THEN n ELSE 0 + limit
    OBVIOUS
  <2> HIDE DEF limit, n, m
  <2> QED
    BY <2>1, <2>2, <2>3
<1>6. ASSUME NEW a \in 1 .. n, NEW b \in 1 .. n, a < b
      PROVE  Field(all[a], column) < Field(all[b], column)
  <2> DEFINE v == Field(all[a], column)
             w == Field(all[b], column)
             asc == <<[column |-> column, direction |-> "asc"]>>
  <2>1. InOrder(asc, all[a], all[b])
    <3> HIDE DEF n, S
    <3> QED
      BY <1>1, <1>3, <1>4, <1>6 DEF IsArrangement
  <2>2. v = w \/ v < w
    <3>1. DOMAIN asc = {1} /\ asc[1].column = column /\ asc[1].direction # "desc"
      OBVIOUS
    <3> HIDE DEF asc
    <3> QED
      BY <2>1, <3>1 DEF InOrder
  <2>3. v # w
    <3>1. all[a] # all[b]
      <4> HIDE DEF n, S
      <4> QED
        BY <1>3, <1>4, <1>6 DEF IsArrangement, IsInjective
    <3>2. all[a] \in Ids /\ all[b] \in Ids /\ Distinguishes(column)
      BY <1>4 DEF FollowsCursor
    <3> QED
      BY <3>1, <3>2 DEF Distinguishes
  <2> QED
    BY <2>2, <2>3
<1> HIDE DEF n, m
<1>7. /\ rows \in Seq(Ids) /\ Len(rows) = m /\ DOMAIN rows = 1 .. m
      /\ \A j \in 1 .. m : rows[j] = all[j] /\ j \in 1 .. n
  <2>1. \A j \in 1 .. m : all[j] \in Ids /\ j \in 1 .. n
    BY <1>4, <1>5
  <2>2. rows = SubSeq(all, 1, m)
    BY <1>2 DEF m
  <2>3. m \in Int /\ m - 1 + 1 = m /\ (~(1 <= m) => m = 0)
    BY <1>5
  <2>4. /\ rows \in Seq(Ids) /\ Len(rows) = m
        /\ \A j \in 1 .. m : rows[j] = all[1 + j - 1]
    BY <2>1, <2>2, <2>3, SubSeqProperties
  <2>5. \A j \in 1 .. m : 1 + j - 1 = j
    BY <1>5
  <2>6. DOMAIN rows = 1 .. m
    BY <2>4, LenProperties
  <2> QED
    BY <2>1, <2>4, <2>5, <2>6
<1>8. \A a, b \in DOMAIN rows : a < b => Field(rows[a], column) < Field(rows[b], column)
  BY <1>6, <1>7
<1>9. \A a \in DOMAIN rows : Beyond(column, q.cursor, rows[a])
  <2> SUFFICES ASSUME NEW a \in 1 .. m PROVE Beyond(column, q.cursor, all[a])
    BY <1>7
  <2>1. all[a] \in Ids /\ Matches(s, all[a])
    BY <1>4, <1>7
  <2> HIDE DEF column
  <2> QED
    BY <1>1, <2>1
<1>10. ASSUME NEW i \in K, Matches(Written(first), i), Beyond(column, q.cursor, i)
       PROVE  \/ i \in Range(rows)
              \/ /\ limit > 0 /\ Len(rows) = limit
                 /\ \A a \in DOMAIN rows : Field(rows[a], column) < Field(i, column)
  <2>1. i \in S
    <3>1. i \in table /\ i \in Ids
      OBVIOUS
    <3> HIDE DEF column
    <3> QED
      BY <1>1, <1>10, <3>1
  <2>2. PICK b \in 1 .. n : all[b] = i
    <3> HIDE DEF S
    <3> QED
      BY <1>3, <1>4, <2>1 DEF IsArrangement, Range
  <2>3. CASE b <= m
    <3>1. b \in 1 .. m /\ rows[b] = i
      BY <1>4, <1>5, <1>7, <2>2, <2>3
    <3> QED
      BY <1>7, <3>1 DEF Range
  <2>4. CASE ~(b <= m)
    <3>1. limit > 0 /\ Len(rows) = limit
      BY <1>4, <1>5, <1>7, <2>4
    <3>2. \A a \in 1 .. m : a < b
      BY <1>4, <1>5, <2>4
    <3>3. \A a \in 1 .. m : Field(all[a], column) < Field(all[b], column)
      BY <1>6, <1>7, <3>2
    <3> QED
      BY <1>7, <2>2, <3>1, <3>3
  <2> QED
    BY <2>3, <2>4
<1> QED
  BY <1>7, <1>8, <1>9, <1>10 DEF PageRows

\* With the pages before the cursor, the rows in K that are asked for were seen or are beyond
\* the cursor; by ID, none was seen twice, and none that is beyond.
SeenUpTo(first, K, pages, cursor) ==
    LET column == first.cursorColumn IN
    /\ pages \in Seq(Seq(Ids))
    /\ \A i \in K : Matches(Written(first), i) =>
         i \in Range(FlattenSeq(pages)) \/ Beyond(column, cursor, i)
    /\ column = "id" =>
         /\ IsInjective(FlattenSeq(pages))
         /\ \A i \in Range(FlattenSeq(pages)) : ~Beyond(column, cursor, i)

\* With these pages, all of them were seen.
SeenAll(first, K, pages) ==
    /\ pages \in Seq(Seq(Ids))
    /\ \A i \in K : Matches(Written(first), i) => i \in Range(FlattenSeq(pages))
    /\ first.cursorColumn = "id" => IsInjective(FlattenSeq(pages))

\* What was seen if the answer a is the last.
SeenWith(first, K, pages, a) ==
    IF a.more /\ a.next # Null
    THEN a.next \in Nat /\ SeenUpTo(first, K, pages, a.next)
    ELSE SeenAll(first, K, pages)

\* The cursor of a full page is not beyond the value of its last row.
LEMMA CursorOfPage ==
  ASSUME NEW q, q.limit \in Nat, q.cursorColumn \in q.columns \cap {"id", "at"},
         NEW rows \in Seq(Ids), NEW total,
         NEW p, p = PostgresExecute(q, Reading(rows, total, "whole"))
  PROVE  /\ p.ok /\ p.rows = rows
         /\ LET full == q.limit > 0 /\ Len(rows) = q.limit
                v == Field(rows[Len(rows)], q.cursorColumn)
            IN  /\ full => /\ p.more /\ p.next # Null /\ p.next \in Nat /\ p.next <= v
                           /\ q.cursorColumn = "id" => p.next = v
                /\ ~full => ~p.more
<1> DEFINE full == q.limit > 0 /\ Len(rows) = q.limit
           v == Field(rows[Len(rows)], q.cursorColumn)
           r == Reading(rows, total, "whole")
           next == IF full THEN PostgresConvert(q.cursorColumn, v)[2] ELSE Null
<1>1. r.rows = rows /\ r.end = "whole"
  BY DEF Reading
<1>2. p = Page(rows, full, next)
  <2> HIDE DEF r
  <2> QED
    BY <1>1 DEF PostgresExecute, Last, r
<1>3. p.ok /\ p.rows = rows /\ p.more = full /\ p.next = next
  <2> HIDE DEF full, next
  <2> QED
    BY <1>2 DEF Page
<1>4. full => next \in Nat /\ next <= v /\ (q.cursorColumn = "id" => next = v)
  <2> SUFFICES ASSUME full PROVE next \in Nat /\ next <= v /\ (q.cursorColumn = "id" => next = v)
    OBVIOUS
  <2>1. v \in Nat
    <3>1. Len(rows) \in Nat /\ Len(rows) \in 1 .. Len(rows)
      BY LenProperties
    <3>2. rows[Len(rows)] \in Ids
      BY <3>1, ElementOfSeq
    <3> DEFINE i == rows[Len(rows)]
    <3> HIDE DEF i
    <3>3. Field(i, q.cursorColumn) \in Nat
      BY <3>2, QueriesAssumption DEF i, Field
    <3> QED
      BY <3>3 DEF i
  <2> HIDE DEF v
  <2>2. CASE q.cursorColumn = "id"
    <3>1. PostgresConvert(q.cursorColumn, v) = <<"integer", v>>
      BY <2>2 DEF PostgresConvert
    <3> QED
      BY <2>1, <3>1
  <2>3. CASE q.cursorColumn = "at"
    <3>1. PostgresConvert(q.cursorColumn, v) = <<"text", 2 * (v \div 2)>>
      BY <2>3 DEF PostgresConvert
    <3>2. v \div 2 \in Nat /\ 2 * (v \div 2) <= v
      BY <2>1
    <3>3. next = 2 * (v \div 2)
      BY <3>1
    <3> HIDE DEF next
    <3> QED
      BY <2>3, <3>2, <3>3
  <2> QED
    BY <2>2, <2>3
<1> HIDE DEF next, v
<1> QED
  BY <1>3, <1>4, QueriesAssumption DEF v

LEMMA PageAdded ==
  ASSUME NEW first, IsQuery(first), FollowsCursor(first),
         NEW q, SameQuery(q, first), q.cursor \in Nat \cup {Null},
         NEW K, K \subseteq Ids, NEW pages, SeenUpTo(first, K, pages, q.cursor),
         NEW rows, PageRows(first, q.cursor, K, rows), NEW total,
         NEW p, p = PostgresExecute(q, Reading(rows, total, "whole"))
  PROVE  p.ok /\ SeenWith(first, K, Append(pages, p.rows), p)
<1> DEFINE column == first.cursorColumn
           n == Len(rows)
           full == first.limit > 0 /\ n = first.limit
           old == FlattenSeq(pages)
           new == FlattenSeq(Append(pages, rows))
           F(i) == Field(i, column)
           Wants(i) == Matches(Written(first), i)
<1>1. /\ p.ok /\ p.rows = rows
      /\ full => /\ p.more /\ p.next # Null /\ p.next \in Nat /\ p.next <= F(rows[n])
                 /\ column = "id" => p.next = F(rows[n])
      /\ ~full => ~p.more
  <2>1. /\ q.limit \in Nat /\ q.limit = first.limit /\ q.cursorColumn = column
        /\ q.cursorColumn \in q.columns \cap {"id", "at"} /\ rows \in Seq(Ids)
    BY DEF SameQuery, IsQuery, FollowsCursor, PageRows
  <2> HIDE DEF column
  <2> QED
    BY <2>1, CursorOfPage
<1>2. /\ rows \in Seq(Ids) /\ n \in Nat /\ DOMAIN rows = 1 .. n
      /\ \A j \in 1 .. n : rows[j] \in Ids /\ rows[j] \in Range(rows)
  <2>1. rows \in Seq(Ids)
    BY DEF PageRows
  <2> QED
    BY <2>1, LenProperties, ElementOfSeq DEF Range
<1>3. /\ pages \in Seq(Seq(Ids)) /\ old \in Seq(Ids)
      /\ Append(pages, rows) \in Seq(Seq(Ids)) /\ new = old \o rows
  <2>1. pages \in Seq(Seq(Ids))
    BY DEF SeenUpTo
  <2> QED
    BY <1>2, <2>1, FlattenAppend, FlattenIsList
<1>4. Range(new) = Range(old) \cup Range(rows) /\ Range(old) \subseteq Ids
  BY <1>2, <1>3, ConcatDisjoint, ListOf
<1>5. \A i \in Ids : F(i) \in Nat
  BY CursorFields
<1>6. q.cursor # Null => q.cursor \in Nat
  OBVIOUS
<1>7. \A a, b \in 1 .. n : a < b => F(rows[a]) < F(rows[b])
  BY <1>2 DEF PageRows
<1>8. \A a \in 1 .. n : Beyond(column, q.cursor, rows[a])
  BY <1>2 DEF PageRows
<1>9. ASSUME NEW i \in K, Wants(i)
      PROVE  i \in Range(new) \/ (full /\ \A a \in 1 .. n : F(rows[a]) < F(i))
  <2>1. i \in Range(old) \/ Beyond(column, q.cursor, i)
    BY <1>9 DEF SeenUpTo
  <2>2. CASE i \in Range(old)
    BY <1>4, <2>2
  <2>3. CASE Beyond(column, q.cursor, i)
    <3>1. i \in Range(rows) \/ (full /\ \A a \in 1 .. n : F(rows[a]) < F(i))
      BY <1>2, <1>9, <2>3 DEF PageRows
    <3> QED
      BY <1>4, <3>1
  <2> QED
    BY <2>1, <2>2, <2>3
<1> HIDE DEF F, n, old, new, Wants
<1>10. column = "id" => IsInjective(new)
  <2> SUFFICES ASSUME column = "id" PROVE IsInjective(new)
    OBVIOUS
  <2>1. IsInjective(old) /\ \A i \in Range(old) : ~Beyond(column, q.cursor, i)
    BY DEF SeenUpTo, old
  <2>2. IsInjective(rows)
    <3> SUFFICES ASSUME NEW a \in 1 .. n, NEW b \in 1 .. n, rows[a] = rows[b] PROVE a = b
      BY <1>2 DEF IsInjective
    <3>1. ~(a < b) /\ ~(b < a)
      <4>1. F(rows[a]) = F(rows[b]) /\ F(rows[a]) \in Nat
        BY <1>2, <1>5
      <4>2. ~(F(rows[a]) < F(rows[b])) /\ ~(F(rows[b]) < F(rows[a]))
        BY <4>1
      <4> QED
        BY <1>7, <4>2
    <3> QED
      BY <1>2, <3>1
  <2>3. Range(old) \cap Range(rows) = {}
    <3> SUFFICES ASSUME NEW i \in Range(rows) PROVE i \notin Range(old)
      OBVIOUS
    <3>1. Beyond(column, q.cursor, i)
      BY <1>2, <1>8 DEF Range
    <3> QED
      BY <2>1, <3>1
  <2> QED
    BY <1>2, <1>3, <2>1, <2>2, <2>3, ConcatDisjoint
<1>11. CASE full
  <2>1. n \in 1 .. n /\ p.more /\ p.next # Null /\ p.next \in Nat /\ p.next <= F(rows[n])
        /\ (column = "id" => p.next = F(rows[n]))
    BY <1>1, <1>2, <1>11
  <2>2. F(rows[n]) \in Nat
    BY <1>2, <1>5, <2>1
  <2>3. ASSUME NEW i \in K, Wants(i) PROVE i \in Range(new) \/ Beyond(column, p.next, i)
    <3>1. CASE i \in Range(new)
      BY <3>1
    <3>2. CASE \A a \in 1 .. n : F(rows[a]) < F(i)
      <4>1. F(rows[n]) < F(i) /\ F(i) \in Nat
        BY <1>5, <2>1, <3>2
      <4>2. F(i) > p.next
        BY <2>1, <2>2, <4>1
      <4> QED
        BY <4>2 DEF Beyond, F
    <3> QED
      BY <1>9, <2>3, <3>1, <3>2
  <2>4. ASSUME column = "id", NEW i \in Range(new) PROVE ~Beyond(column, p.next, i)
    <3>1. p.next = F(rows[n])
      BY <2>1, <2>4
    <3>2. PICK b \in Nat : b = F(rows[n])
      BY <2>2
    <3>3. i \in Ids => F(i) \in Nat
      BY <1>5
    <3>4. i \in Ids /\ F(i) <= b
      <4>1. CASE i \in Range(rows)
        <5>1. PICK a \in 1 .. n : rows[a] = i
          BY <1>2, <4>1 DEF Range
        <5>2. CASE a = n
          BY <1>2, <1>5, <3>2, <5>1, <5>2
        <5>3. CASE a # n
          <6>1. a < n
            BY <1>2, <5>3
          <6>2. F(rows[a]) < F(rows[n]) /\ rows[a] \in Ids
            BY <1>2, <1>7, <2>1, <6>1
          <6> QED
            BY <1>5, <2>2, <3>2, <5>1, <6>2
        <5> QED
          BY <5>2, <5>3
      <4>2. CASE i \in Range(old)
        <5>1. i \in Ids /\ ~Beyond(column, q.cursor, i)
          BY <1>4, <2>4, <4>2 DEF SeenUpTo, old
        <5>2. q.cursor # Null /\ ~(F(i) > q.cursor)
          BY <5>1 DEF Beyond, F
        <5>3. Beyond(column, q.cursor, rows[n])
          BY <1>8, <2>1
        <5>4. F(rows[n]) > q.cursor
          BY <5>2, <5>3 DEF Beyond, F
        <5> DEFINE k == q.cursor
        <5>5. k \in Nat /\ ~(F(i) > k) /\ b > k
          BY <3>2, <5>2, <5>4
        <5>6. F(i) \in Nat
          BY <3>3, <5>1
        <5> HIDE DEF k
        <5> QED
          BY <3>2, <5>1, <5>5, <5>6
      <4> QED
        BY <1>4, <2>4, <4>1, <4>2
    <3>5. ~(F(i) > p.next)
      BY <3>1, <3>2, <3>3, <3>4
    <3> QED
      BY <2>1, <3>5 DEF Beyond, F
  <2>5. SeenUpTo(first, K, Append(pages, rows), p.next)
    BY <1>3, <1>10, <2>3, <2>4 DEF SeenUpTo, new, Wants
  <2> QED
    BY <1>1, <2>1, <2>5 DEF SeenWith
<1>12. CASE ~full
  <2>1. SeenAll(first, K, Append(pages, rows))
    BY <1>3, <1>9, <1>10, <1>12 DEF SeenAll, new, Wants
  <2> QED
    BY <1>1, <1>12, <2>1 DEF SeenWith
<1> QED
  BY <1>11, <1>12

\* A caller that follows the cursor of PostgreSQL as it is meant.
Follows(request) ==
    /\ request.paging = "cursor" /\ request.reads[1].kind = "postgres"
    /\ FollowsCursor(request.reads[1].query)

\* What its call has seen, if K are the rows that were there all the time.
CursorOK(x, first, K) ==
    /\ SameQuery(x.query, first) /\ x.query.cursor \in Nat \cup {Null}
    /\ x.phase = "done" /\ x.answer.ok => SeenWith(first, K, x.pages, x.answer)
    /\ ~(x.phase = "done" /\ x.answer.ok) => SeenUpTo(first, K, x.pages, x.query.cursor)
    /\ x.phase = "open" => PageRows(first, x.query.cursor, K, x.left)

CursorInv ==
    /\ kept \subseteq store
    /\ \A c \in Callers :
         Follows(work.requests[c]) =>
           CursorOK(call[c], work.requests[c].reads[1].query, kept)

LEMMA CursorWeakens ==
  ASSUME NEW x, NEW first, NEW K, CursorOK(x, first, K), NEW L, L \subseteq K
  PROVE  CursorOK(x, first, L)
<1>1. \A pages, k : SeenUpTo(first, K, pages, k) => SeenUpTo(first, L, pages, k)
  BY DEF SeenUpTo
<1>2. \A pages : SeenAll(first, K, pages) => SeenAll(first, L, pages)
  BY DEF SeenAll
<1>3. \A pages, a : SeenWith(first, K, pages, a) => SeenWith(first, L, pages, a)
  BY <1>1, <1>2 DEF SeenWith
<1>4. \A k, rows : PageRows(first, k, K, rows) => PageRows(first, k, L, rows)
  BY DEF PageRows
<1> QED
  BY <1>1, <1>3, <1>4 DEF CursorOK

LEMMA CursorCall ==
  ASSUME ToolsInv, NEW c \in Callers, Follows(work.requests[c])
  PROVE  /\ IsRequest(work.requests[c]) /\ CallOK(call[c], work.requests[c])
         /\ work.requests[c].tool = "execute_query" /\ Tool(c) = "execute_query"
         /\ Kind(c) = "postgres" /\ call[c].n = 1 /\ Len(work.requests[c].reads) = 1
         /\ IsQuery(work.requests[c].reads[1].query)
         /\ FollowsCursor(work.requests[c].reads[1].query)
<1>1. work.requests[c].paging # "none"
  BY DEF Follows
<1> QED
  BY <1>1, PagedCall DEF Follows

\* A page that was read, or not, with the result p.
LEMMA CursorAfter ==
  ASSUME ToolsInv, NEW c \in Callers, Follows(work.requests[c]),
         call[c].phase \notin {"done", "panicked"},
         NEW first, first = work.requests[c].reads[1].query,
         CursorOK(call[c], first, kept), NEW p,
         p.ok => SeenWith(first, kept, Append(call[c].pages, p.rows), p)
  PROVE  CursorOK(After(c, p), first, kept)
<1> DEFINE y == After(c, p)
<1>1. /\ y.phase = "done" /\ y.query = call[c].query
      /\ p.ok => y.answer = p /\ y.pages = Append(call[c].pages, p.rows)
      /\ ~p.ok => ~y.answer.ok /\ y.pages = call[c].pages
  BY PageRead DEF Follows
<1> HIDE DEF y
<1>2. CursorOK(y, first, kept)
  BY <1>1 DEF CursorOK
<1> QED
  BY <1>2 DEF y

LEMMA CursorUnread ==
  ASSUME ToolsInv, NEW c \in Callers, Follows(work.requests[c]),
         NEW rows, NEW total, NEW end \in Ends(Kind(c)) \ {"whole"}
  PROVE  ~Returned(c, Reading(rows, total, end)).ok
<1>1. Tool(c) \in ReadTools /\ Kind(c) \notin Lenient(Tool(c))
  BY CursorCall DEF ReadTools, Lenient
<1> QED
  BY <1>1, NothingRead

LEMMA CursorSend ==
  ASSUME ToolsInv, kept \subseteq store, NEW c \in Callers, Follows(work.requests[c]),
         NEW first, first = work.requests[c].reads[1].query,
         CursorOK(call[c], first, kept), Send(c)
  PROVE  \E new : Becomes(c, new) /\ CursorOK(new, first, kept)
<1> DEFINE x == call[c]
           s == Statement(Kind(c), x.query)
           total == Cardinality({i \in store : Matches(s, i)})
           new(rows) == [x EXCEPT !.phase = "open", !.left = rows, !.total = total,
                                  !.whole[x.n] = rows]
<1>1. x.phase = "waiting"
  BY DEF Send, Asks
<1>2. PICK rows \in Answers(s, store) : Becomes(c, new(rows))
  BY DEF Send
<1>3. DOMAIN x = Fields /\ s = PostgresStatement(x.query)
  BY CursorCall DEF CallOK, Statement
<1>4. PageRows(first, x.query.cursor, kept, rows)
  <2>1. SameQuery(x.query, first) /\ x.query.cursor \in Nat \cup {Null}
    BY DEF CursorOK
  <2>2. IsFiniteSet(store) /\ store \subseteq Ids
    BY DEF ToolsInv
  <2>3. IsQuery(first) /\ FollowsCursor(first)
    BY CursorCall
  <2> HIDE DEF s, x
  <2> QED
    BY <1>2, <1>3, <2>1, <2>2, <2>3, PageOfAnswer
<1> DEFINE y == new(rows)
<1> HIDE DEF s, x, total
<1>5. y.phase = "open" /\ y.query = x.query /\ y.pages = x.pages /\ y.left = rows
  BY <1>3 DEF Fields
<1> HIDE DEF y, new
<1>6. CursorOK(y, first, kept)
  BY <1>1, <1>4, <1>5 DEF CursorOK, x
<1> QED
  BY <1>2, <1>6 DEF y

LEMMA CursorRead ==
  ASSUME ToolsInv, kept \subseteq store, NEW c \in Callers, Follows(work.requests[c]),
         NEW first, first = work.requests[c].reads[1].query,
         CursorOK(call[c], first, kept), call[c].phase = "open", NEW total
  PROVE  CursorOK(After(c, Returned(c, Reading(call[c].left, total, "whole"))), first, kept)
<1> DEFINE x == call[c]
           p == Returned(c, Reading(x.left, total, "whole"))
<1>1. p = PostgresExecute(x.query, Reading(x.left, total, "whole"))
  <2>1. Reading(x.left, total, "whole").end = "whole"
    BY DEF Reading
  <2> QED
    BY <2>1, CursorCall DEF Returned, Execute
<1>2. kept \subseteq Ids
  BY DEF ToolsInv
<1> HIDE DEF p
<1>3. p.ok /\ SeenWith(first, kept, Append(x.pages, p.rows), p)
  <2>1. /\ SameQuery(x.query, first) /\ x.query.cursor \in Nat \cup {Null}
        /\ SeenUpTo(first, kept, x.pages, x.query.cursor)
        /\ PageRows(first, x.query.cursor, kept, x.left)
    BY DEF CursorOK
  <2>2. IsQuery(first) /\ FollowsCursor(first)
    BY CursorCall
  <2> HIDE DEF x
  <2> QED
    BY <1>1, <1>2, <2>1, <2>2, PageAdded
<1>4. CursorOK(After(c, p), first, kept)
  BY <1>3, CursorAfter
<1> QED
  BY <1>4 DEF p

LEMMA CursorAskNext ==
  ASSUME ToolsInv, NEW c \in Callers, Follows(work.requests[c]),
         NEW first, first = work.requests[c].reads[1].query,
         CursorOK(call[c], first, kept), AskNext(c)
  PROVE  \E new : Becomes(c, new) /\ CursorOK(new, first, kept)
<1> DEFINE x == call[c]
           r == work.requests[c]
           q == NextQuery(c)
           y == [Waiting(r) EXCEPT !.query = q, !.pages = x.pages]
<1>1. Becomes(c, y) /\ x.phase = "done" /\ (x.answer.ok => WantsMore(c))
  BY DEF AskNext
<1>2. /\ y.phase = "waiting" /\ y.query = q /\ y.pages = x.pages
  BY DEF Waiting
<1>3. r.paging = "cursor" /\ SameQuery(x.query, first) /\ x.query.cursor \in Nat \cup {Null}
  BY DEF Follows, CursorOK
<1>4. CASE ~x.answer.ok
  <2>1. q = x.query
    BY <1>4 DEF NextQuery
  <2>2. SeenUpTo(first, kept, x.pages, x.query.cursor)
    BY <1>4 DEF CursorOK
  <2> HIDE DEF y, q, x
  <2>3. CursorOK(y, first, kept)
    BY <1>2, <1>3, <2>1, <2>2 DEF CursorOK
  <2> QED
    BY <1>1, <2>3
<1>5. CASE x.answer.ok
  <2>1. x.answer.more /\ x.answer.next # Null
    BY <1>1, <1>3, <1>5 DEF WantsMore
  <2>2. x.answer.next \in Nat /\ SeenUpTo(first, kept, x.pages, x.answer.next)
    BY <1>1, <1>5, <2>1 DEF CursorOK, SeenWith
  <2>3. q = [x.query EXCEPT !.cursor = x.answer.next] /\ IsQuery(x.query)
    BY <1>3, <1>5, CursorCall DEF NextQuery, CallOK
  <2>4. q.cursor = x.answer.next /\ SameQuery(q, first)
    <3> HIDE DEF q, x
    <3> QED
      BY <1>3, <2>3 DEF SameQuery, IsQuery
  <2> HIDE DEF y, q, x
  <2>5. CursorOK(y, first, kept)
    BY <1>2, <2>2, <2>4 DEF CursorOK
  <2> QED
    BY <1>1, <2>5
<1> QED
  BY <1>4, <1>5

LEMMA CursorStep ==
  ASSUME ToolsInv, kept \subseteq store, NEW c \in Callers, Follows(work.requests[c]),
         NEW first, first = work.requests[c].reads[1].query,
         CursorOK(call[c], first, kept), Step(c) \/ AskNext(c)
  PROVE  \E new : Becomes(c, new) /\ CursorOK(new, first, kept)
<1>1. work.requests[c].paging # "none"
  BY DEF Follows
<1>2. CASE Reject(c)
  <2>1. ~Failed.ok /\ call[c].phase \notin {"done", "panicked"} /\ Becomes(c, After(c, Failed))
    BY <1>2 DEF Reject, Failed
  <2> QED
    BY <2>1, CursorAfter
<1>3. CASE Send(c)
  BY <1>3, CursorSend
<1>4. ASSUME NEW rows, NEW total, NEW end \in Ends(Kind(c)) \ {"whole"},
             call[c].phase \notin {"done", "panicked"},
             Becomes(c, After(c, Returned(c, Reading(rows, total, end))))
      PROVE  \E new : Becomes(c, new) /\ CursorOK(new, first, kept)
  <2> DEFINE p == Returned(c, Reading(rows, total, end))
  <2>1. ~p.ok /\ Becomes(c, After(c, p))
    BY <1>4, CursorUnread
  <2> HIDE DEF p
  <2> QED
    BY <1>4, <2>1, CursorAfter
<1>5. CASE Refuse(c)
  <2>1. PICK end \in {"refused", "unreached"} :
          Becomes(c, After(c, Returned(c, Reading(<<>>, 0, end))))
    BY <1>5 DEF Refuse
  <2>2. end \in Ends(Kind(c)) \ {"whole"} /\ call[c].phase \notin {"done", "panicked"}
    BY <1>5 DEF Refuse, Asks, Ends
  <2> QED
    BY <1>4, <2>1, <2>2
<1>6. CASE Expire(c)
  <2>1. /\ "unreached" \in Ends(Kind(c)) \ {"whole"} /\ call[c].phase \notin {"done", "panicked"}
        /\ Becomes(c, After(c, Returned(c, Reading(<<>>, 0, "unreached"))))
    BY <1>6 DEF Expire, Asks, Ends
  <2> QED
    BY <1>4, <2>1
<1>7. CASE Read(c)
  <2>1. /\ call[c].phase = "open"
        /\ Becomes(c, After(c, Returned(c, Reading(call[c].left, call[c].total, "whole"))))
    BY <1>7 DEF Read, Close
  <2> QED
    BY <2>1, CursorRead
<1>8. CASE Break(c)
  <2>1. PICK end, rows :
          /\ end \in Breaks(Kind(c))
          /\ Becomes(c, After(c, Returned(c, Reading(rows, call[c].total, end))))
    BY <1>8 DEF Break, Close
  <2>2. end \in Ends(Kind(c)) \ {"whole"} /\ call[c].phase \notin {"done", "panicked"}
    BY <1>8, <2>1 DEF Break, Breaks, Ends
  <2> QED
    BY <1>4, <2>1, <2>2
<1>9. CASE AskNext(c)
  BY <1>9, CursorAskNext
<1> QED
  BY <1>1, <1>2, <1>3, <1>5, <1>6, <1>7, <1>8, <1>9, PagedStep

LEMMA CursorInit == Init => CursorInv
<1> SUFFICES ASSUME Init PROVE CursorInv
  OBVIOUS
<1>1. ToolsInv
  BY ToolsInit
<1>2. ASSUME NEW c \in Callers, Follows(work.requests[c])
      PROVE  CursorOK(call[c], work.requests[c].reads[1].query, kept)
  <2> DEFINE first == work.requests[c].reads[1].query
  <2>1. call[c].phase = "waiting" /\ call[c].query = first /\ call[c].pages = <<>>
    BY DEF Init, Waiting
  <2>2. first.cursor = Null
    BY <1>2 DEF Follows, FollowsCursor
  <2>3. FlattenSeq(<<>>) = <<>> /\ Range(<<>>) = {} /\ DOMAIN <<>> = {}
        /\ <<>> \in Seq(Seq(Ids))
    BY DEF FlattenSeq, Range
  <2> HIDE DEF first
  <2>4. SeenUpTo(first, kept, <<>>, Null)
    BY <2>3 DEF SeenUpTo, Beyond, IsInjective
  <2> QED
    BY <2>1, <2>2, <2>4 DEF CursorOK, SameQuery, first
<1> QED
  BY <1>2 DEF CursorInv, Init

LEMMA CursorNext == ToolsInv /\ CursorInv /\ [Next]_vars => CursorInv'
<1> SUFFICES ASSUME ToolsInv, CursorInv, [Next]_vars PROVE CursorInv'
  OBVIOUS
<1>0. DOMAIN call = Callers
  BY DEF ToolsInv
<1>1. CASE Insert \/ Delete \/ UNCHANGED vars
  <2>1. work' = work /\ call' = call
    BY <1>1 DEF Insert, Delete, vars
  <2>2. kept' \subseteq kept /\ kept' \subseteq store'
    BY <1>1 DEF Insert, Delete, vars, CursorInv
  <2>3. \A c \in Callers : Follows(work.requests[c]) =>
          CursorOK(call[c], work.requests[c].reads[1].query, kept')
    BY <2>2, CursorWeakens DEF CursorInv
  <2> QED
    BY <2>1, <2>2, <2>3 DEF CursorInv, Callers
<1>2. ASSUME NEW c \in Callers, Step(c) \/ AskNext(c) PROVE CursorInv'
  <2>1. store' = store /\ kept' = kept /\ work' = work /\ \E new : Becomes(c, new)
    BY <1>2, StepsOfCalls
  <2>2. \E new : Becomes(c, new) /\ (Follows(work.requests[c]) =>
                    CursorOK(new, work.requests[c].reads[1].query, kept))
    <3>1. CASE Follows(work.requests[c])
      BY <1>2, <3>1, CursorStep DEF CursorInv
    <3>2. CASE ~Follows(work.requests[c])
      BY <2>1, <3>2
    <3> QED
      BY <3>1, <3>2
  <2>3. PICK new : /\ call' = [call EXCEPT ![c] = new]
                   /\ Follows(work.requests[c]) =>
                        CursorOK(new, work.requests[c].reads[1].query, kept)
    BY <2>2 DEF Becomes
  <2>4. \A d \in Callers : Follows(work.requests[d]) =>
          CursorOK(call'[d], work.requests[d].reads[1].query, kept)
    BY <1>0, <2>3 DEF CursorInv
  <2> QED
    BY <2>1, <2>4 DEF CursorInv, Callers
<1> QED
  BY <1>1, <1>2 DEF Next

\* Whoever follows the cursor of PostgreSQL to the last page, by ID or by time, has every
\* row that was asked for and there all the time, whatever others insert, delete and ask
\* meanwhile and however often a page fails; and by ID none twice.
THEOREM CursorsLoseNothing == Spec => []CursorPagesLoseNothing
<1>1. ToolsInv /\ CursorInv => CursorPagesLoseNothing
  <2> SUFFICES ASSUME ToolsInv, CursorInv, NEW c \in Callers,
                      work.requests[c].paging = "cursor", Kind(c) = "postgres",
                      FollowsCursor(Asked(c)), Finished(c)
               PROVE  /\ \A i \in kept : Wanted(c, i) => i \in Range(Pages(c))
                      /\ Asked(c).cursorColumn = "id" => IsInjective(Pages(c))
    BY DEF CursorPagesLoseNothing
  <2> DEFINE r == work.requests[c]
             x == call[c]
             first == r.reads[1].query
  <2>1. r.reads[1].kind = "postgres"
    <3>1. r.tool = "execute_query" /\ IsRequest(r) /\ GoodCall(x, file[c], r, Intact)
      BY CallersAsk DEF Finished, Answered, Tool
    <3>2. x.n = 1
      BY <3>1, RequestFacts DEF GoodCall, Querying, CallOK, IsRequest
    <3> QED
      BY <3>2 DEF Kind, Ask1
  <2>2. Follows(r)
    BY <2>1 DEF Follows, Asked
  <2>3. CursorOK(x, first, kept)
    BY <2>2 DEF CursorInv
  <2>4. x.phase = "done" /\ x.answer.ok /\ ~(x.answer.more /\ x.answer.next # Null)
    BY DEF Finished, Answered, WantsMore
  <2>5. SeenAll(first, kept, x.pages)
    BY <2>3, <2>4 DEF CursorOK, SeenWith
  <2> QED
    BY <2>5 DEF SeenAll, Wanted, Asked, Pages
<1>2. Spec => []CursorInv
  <2>1. Init => CursorInv
    BY CursorInit
  <2>2. ToolsInv /\ CursorInv /\ [Next]_vars => CursorInv'
    BY CursorNext
  <2> QED
    BY <2>1, <2>2, ToolsStay, PTL DEF Spec
<1> QED
  BY <1>1, <1>2, ToolsStay, PTL

-----------------------------------------------------------------------------
(* A total order *)

\* An order in which no two rows are alike.
IsTotal(order) ==
    /\ order \in Seq(Range(order))
    /\ \A n \in DOMAIN order : order[n].column \in {"id", "at"}
    /\ \E n \in DOMAIN order : Distinguishes(order[n].column)

LEMMA OrderIsTotal ==
  ASSUME NEW order, IsTotal(order), NEW i \in Ids, NEW j \in Ids,
         InOrder(order, i, j), InOrder(order, j, i)
  PROVE  i = j
<1> DEFINE F(x, k) == Field(x, order[k].column)
           Before(x, y, k) == IF order[k].direction = "desc" THEN F(x, k) > F(y, k)
                              ELSE F(x, k) < F(y, k)
<1>1. DOMAIN order = 1 .. Len(order) /\ Len(order) \in Nat
  BY LenProperties DEF IsTotal
<1>2. \A k \in DOMAIN order : F(i, k) \in Nat /\ F(j, k) \in Nat
  BY QueriesAssumption DEF IsTotal, Field
<1>3. CASE \A k \in DOMAIN order : F(i, k) = F(j, k)
  BY <1>3 DEF IsTotal, Distinguishes
<1>4. CASE ~ \A k \in DOMAIN order : F(i, k) = F(j, k)
  <2>1. PICK k \in DOMAIN order :
          Before(i, j, k) /\ \A h \in 1 .. k - 1 : F(i, h) = F(j, h)
    BY <1>4 DEF InOrder
  <2>2. PICK l \in DOMAIN order :
          Before(j, i, l) /\ \A h \in 1 .. l - 1 : F(j, h) = F(i, h)
    BY <1>4 DEF InOrder
  <2>3. F(i, k) # F(j, k) /\ F(i, l) # F(j, l)
    <3> HIDE DEF F
    <3> QED
      BY <1>2, <2>1, <2>2
  <2>4. ~(k < l) /\ ~(l < k)
    <3> HIDE DEF F, Before
    <3>1. k \in Nat /\ l \in Nat /\ k >= 1 /\ l >= 1
      BY <1>1
    <3>2. k < l => k \in 1 .. l - 1
      BY <3>1
    <3>3. l < k => l \in 1 .. k - 1
      BY <3>1
    <3> QED
      BY <2>1, <2>2, <2>3, <3>2, <3>3
  <2>5. k = l
    BY <1>1, <2>4
  <2> HIDE DEF F
  <2> QED
    BY <1>2, <2>1, <2>2, <2>5
<1> QED
  BY <1>3, <1>4

\* There is one arrangement only.
LEMMA ArrangementsAgree ==
  ASSUME NEW order, IsTotal(order), NEW S, S \subseteq Ids,
         NEW s, IsArrangement(order, S, s), NEW t, IsArrangement(order, S, t)
  PROVE  s = t /\ Len(s) = Cardinality(S)
<1> DEFINE n == Len(s)
<1>1. /\ s \in Seq(Ids) /\ t \in Seq(Ids) /\ ToSet(s) = S /\ ToSet(t) = S
      /\ IsInjective(s) /\ IsInjective(t)
  BY DEF IsArrangement, Range, ToSet
<1>2. n = Cardinality(S) /\ Len(t) = Cardinality(S)
  BY <1>1, CountInjective
<1>3. /\ n \in Nat /\ DOMAIN s = 1 .. n /\ DOMAIN t = 1 .. n
      /\ \A j \in 1 .. n : s[j] \in S /\ t[j] \in S
  BY <1>1, <1>2, LenProperties DEF ToSet
<1> HIDE DEF n
<1> DEFINE P == {m \in 0 .. n : \A j \in 1 .. m : s[j] = t[j]}
<1>4. 0 \in P
  BY <1>3
<1>5. ASSUME NEW m \in 0 .. n - 1, m \in P PROVE m + 1 \in P
  <2> DEFINE k == m + 1
  <2>1. k \in 1 .. n /\ m \in Nat /\ \A j \in 1 .. m : s[j] = t[j]
    BY <1>3, <1>5
  <2>2. \A j \in 1 .. n : j \in 1 .. m \/ j = k \/ k < j
    BY <1>3, <2>1
  <2>3. \A j \in 1 .. m : j # k /\ j \in 1 .. n
    BY <1>3, <2>1
  <2>4. k \in 0 .. n
    BY <1>3, <2>1
  <2> HIDE DEF k
  <2>5. s[k] = t[k]
    <3>1. PICK b \in 1 .. n : t[b] = s[k]
      <4>1. s[k] \in ToSet(t)
        BY <1>1, <1>3, <2>1
      <4> QED
        BY <1>3, <4>1 DEF ToSet
    <3>2. PICK a \in 1 .. n : s[a] = t[k]
      <4>1. t[k] \in ToSet(s)
        BY <1>1, <1>3, <2>1
      <4> QED
        BY <1>3, <4>1 DEF ToSet
    <3>3. b = k \/ k < b
      <4>1. ASSUME b \in 1 .. m PROVE FALSE
        <5>1. s[b] = s[k] /\ b # k /\ b \in DOMAIN s /\ k \in DOMAIN s
          BY <1>3, <2>1, <2>3, <3>1, <4>1
        <5> QED
          BY <1>1, <5>1 DEF IsInjective
      <4> QED
        BY <2>2, <4>1
    <3>4. a = k \/ k < a
      <4>1. ASSUME a \in 1 .. m PROVE FALSE
        <5>1. t[a] = t[k] /\ a # k /\ a \in DOMAIN t /\ k \in DOMAIN t
          BY <1>3, <2>1, <2>3, <3>2, <4>1
        <5> QED
          BY <1>1, <5>1 DEF IsInjective
      <4> QED
        BY <2>2, <4>1
    <3>5. CASE b = k \/ a = k
      BY <3>1, <3>2, <3>5
    <3>6. CASE k < b /\ k < a
      <4>1. InOrder(order, s[k], s[a]) /\ InOrder(order, t[k], t[b])
        BY <1>3, <2>1, <3>6 DEF IsArrangement
      <4>2. s[k] \in Ids /\ t[k] \in Ids
        BY <1>3, <2>1
      <4> QED
        BY <3>1, <3>2, <4>1, <4>2, OrderIsTotal
    <3> QED
      BY <3>3, <3>4, <3>5, <3>6
  <2>6. \A j \in 1 .. k : j \in 1 .. m \/ j = k
    BY <2>1 DEF k
  <2>7. \A j \in 1 .. k : s[j] = t[j]
    BY <2>1, <2>5, <2>6
  <2>8. k \in P
    BY <2>4, <2>7
  <2> QED
    BY <2>8 DEF k
<1>6. n \in P
  <2> HIDE DEF P
  <2> QED
    BY <1>3, <1>4, <1>5, CountUp
<1>7. s = [j \in 1 .. n |-> s[j]] /\ t = [j \in 1 .. n |-> t[j]]
  BY <1>1, <1>3, LenProperties
<1>8. s = t
  BY <1>6, <1>7
<1> QED
  BY <1>2, <1>8 DEF n

-----------------------------------------------------------------------------
(* The parts of a list *)

\* The first n of a list, and the page of at most limit that comes after them.
Upto(s, n) == SubSeq(s, 1, IF n > Len(s) THEN Len(s) ELSE n)

PageFrom(s, n, limit) ==
    SubSeq(s, n + 1, IF n + limit > Len(s) THEN Len(s) ELSE n + limit)

LEMMA UptoIsPart ==
  ASSUME NEW V, NEW s \in Seq(V), NEW n \in Nat
  PROVE  /\ Upto(s, n) \in Prefixes(s) /\ Upto(s, n) \in Seq(V)
         /\ Len(Upto(s, n)) = IF n > Len(s) THEN Len(s) ELSE n
         /\ \A j \in 1 .. Len(Upto(s, n)) : Upto(s, n)[j] = s[j]
         /\ n >= Len(s) => Upto(s, n) = s
<1> DEFINE m == IF n > Len(s) THEN Len(s) ELSE n
           u == SubSeq(s, 1, m)
<1>1. /\ Len(s) \in Nat /\ \A j \in 1 .. Len(s) : s[j] \in V
      /\ s = [j \in 1 .. Len(s) |-> s[j]]
  BY LenProperties, ElementOfSeq
<1>2. m \in 0 .. Len(s) /\ m <= Len(s) /\ m \in Int /\ m - 1 + 1 = m /\ 1 <= m + 1
      /\ (m # 0 => 1 <= m) /\ (n >= Len(s) => m = Len(s))
  BY <1>1
<1>3. u \in Prefixes(s)
  <2> HIDE DEF m
  <2> QED
    BY <1>2 DEF Prefixes
<1> HIDE DEF m
<1>4. \A j \in 1 .. m : s[j] \in V /\ 1 + j - 1 = j
  BY <1>1, <1>2
<1>5. /\ u \in Seq(V) /\ Len(u) = m
      /\ \A j \in 1 .. m : u[j] = s[j]
  <2>1. /\ SubSeq(s, 1, m) \in Seq(V)
        /\ Len(SubSeq(s, 1, m)) = IF 1 <= m THEN m - 1 + 1 ELSE 0
        /\ \A j \in 1 .. m - 1 + 1 : SubSeq(s, 1, m)[j] = s[1 + j - 1]
    BY <1>1, <1>2, <1>4, SubSeqProperties
  <2> HIDE DEF u
  <2>2. u = SubSeq(s, 1, m)
    BY DEF u
  <2>3. Len(u) = m
    BY <1>2, <2>1, <2>2
  <2>4. \A j \in 1 .. m : u[j] = s[j]
    BY <1>2, <1>4, <2>1, <2>2
  <2> QED
    BY <2>1, <2>2, <2>3, <2>4
<1> HIDE DEF u
<1>6. ASSUME n >= Len(s) PROVE u = s
  <2>1. u = [j \in 1 .. m |-> u[j]]
    BY <1>5, LenProperties
  <2> QED
    BY <1>1, <1>2, <1>5, <1>6, <2>1
<1>7. Upto(s, n) = u
  BY DEF Upto, u, m
<1> QED
  BY <1>3, <1>5, <1>6, <1>7 DEF m

\* That a page after the first n members makes them the first n + limit.
IsNext(s, n, limit, rows) ==
    /\ Upto(s, n) \o rows = Upto(s, n + limit)
    /\ Len(rows) # limit \/ Len(rows) >= Len(s) => Upto(s, n + limit) = s

LEMMA NextPart ==
  ASSUME NEW V, NEW s \in Seq(V), NEW n \in Nat, NEW limit \in Nat \ {0}
  PROVE  IsNext(s, n, limit, PageFrom(s, n, limit))
<1> SUFFICES ASSUME NEW rows, rows = PageFrom(s, n, limit)
             PROVE  IsNext(s, n, limit, rows)
  OBVIOUS
<1> DEFINE len == Len(s)
           a == IF n > len THEN len ELSE n
           b == IF n + limit > len THEN len ELSE n + limit
           u == Upto(s, n)
           w == Upto(s, n + limit)
<1>1. /\ len \in Nat /\ \A j \in 1 .. len : s[j] \in V
  BY LenProperties, ElementOfSeq
<1>2. /\ u \in Seq(V) /\ Len(u) = a /\ \A j \in 1 .. a : u[j] = s[j]
  BY UptoIsPart
<1>3. /\ w \in Seq(V) /\ Len(w) = b /\ \A j \in 1 .. b : w[j] = s[j]
      /\ n + limit >= len => w = s
  <2>1. n + limit \in Nat
    OBVIOUS
  <2> QED
    BY <2>1, UptoIsPart
<1> HIDE DEF u, w
<1>4. rows = SubSeq(s, n + 1, b)
  BY DEF PageFrom
<1> HIDE DEF len
<1>5. /\ a \in Nat /\ b \in Nat /\ a <= b /\ b <= len /\ n + 1 \in Int
      /\ (n + 1 <= b <=> a < b) /\ (a < b => a = n)
      /\ (b - a # limit \/ b - a >= len => n + limit >= len)
  BY <1>1
<1> HIDE DEF a, b
<1>6. /\ rows \in Seq(V) /\ Len(rows) = b - a
      /\ \A j \in 1 .. b - a : rows[j] = s[a + j]
  <2>1. \A j \in n + 1 .. b : s[j] \in V
    BY <1>1, <1>5
  <2>2. /\ rows \in Seq(V)
        /\ Len(rows) = IF n + 1 <= b THEN b - (n + 1) + 1 ELSE 0
        /\ \A j \in 1 .. b - (n + 1) + 1 : rows[j] = s[n + 1 + j - 1]
    BY <1>1, <1>4, <1>5, <2>1, SubSeqProperties DEF len
  <2>3. CASE a < b
    <3>1. n + 1 <= b /\ b - (n + 1) + 1 = b - a
          /\ \A j \in 1 .. b - a : n + 1 + j - 1 = a + j
      BY <1>5, <2>3
    <3> QED
      BY <2>2, <3>1
  <2>4. CASE ~(a < b)
    <3>1. ~(n + 1 <= b) /\ b - a = 0
      BY <1>5, <2>4
    <3>2. \A j \in 1 .. b - a : FALSE
      BY <3>1
    <3> QED
      BY <2>2, <3>1, <3>2
  <2> QED
    BY <2>3, <2>4
<1>7. u \o rows = w
  <2> DEFINE v == u \o rows
  <2>1. /\ v \in Seq(V) /\ Len(v) = a + (b - a)
        /\ \A j \in 1 .. a + (b - a) : v[j] = IF j <= a THEN u[j] ELSE rows[j - a]
    BY <1>2, <1>6, ConcatProperties
  <2> HIDE DEF v
  <2>2. a + (b - a) = b
    BY <1>5
  <2>3. ASSUME NEW j \in 1 .. b PROVE v[j] = s[j]
    <3>1. CASE j <= a
      <4>1. j \in 1 .. a
        BY <1>5, <3>1
      <4> QED
        BY <1>2, <2>1, <2>2, <3>1, <4>1
    <3>2. CASE ~(j <= a)
      <4>1. j - a \in 1 .. b - a /\ a + (j - a) = j
        BY <1>5, <3>2
      <4> QED
        BY <1>6, <2>1, <2>2, <3>2, <4>1
    <3> QED
      BY <3>1, <3>2
  <2>4. v = [j \in 1 .. b |-> v[j]] /\ w = [j \in 1 .. b |-> w[j]]
    BY <1>3, <2>1, <2>2, LenProperties
  <2>5. v = w
    BY <1>3, <2>3, <2>4
  <2> QED
    BY <2>5 DEF v
<1>8. Len(rows) # limit \/ Len(rows) >= len => w = s
  BY <1>3, <1>5, <1>6
<1> QED
  BY <1>7, <1>8 DEF u, w, len, IsNext

-----------------------------------------------------------------------------
(* The conditions of a statement *)

LEMMA ImageIsFinite ==
  ASSUME NEW S, IsFiniteSet(S), NEW f
  PROVE  IsFiniteSet({f[x] : x \in S})
<1> DEFINE T == {f[x] : x \in S}
           g == [x \in S |-> f[x]]
<1>1. g \in Surjection(S, T)
  BY DEF Surjection
<1> QED
  BY <1>1, FS_Surjection

LEMMA AndHolds ==
  ASSUME NEW filters, IsList(filters), \A f \in Range(filters) : f.logic # "or", NEW i
  PROVE  Holds(Disjuncts(filters), i) <=> \A f \in Range(filters) : SqlHolds(f, i)
<1> DEFINE groups == Disjuncts(filters)
<1>1. IsGroup(groups, Range(filters))
  BY OneGroup
<1> HIDE DEF groups
<1>2. CASE Range(filters) = {}
  <2>1. groups = <<>>
    BY <1>1, <1>2 DEF IsGroup
  <2> QED
    BY <1>2, <2>1 DEF Holds, groups
<1>3. CASE Range(filters) # {}
  <2>1. PICK g \in Seq(Range(filters)) : groups = <<g>> /\ Range(g) = Range(filters)
    BY <1>1, <1>3 DEF IsGroup
  <2>2. Holds(<<g>>, i) <=> \A f \in Range(g) : SqlHolds(f, i)
    BY OneGroupHolds
  <2> QED
    BY <2>1, <2>2 DEF groups
<1> QED
  BY <1>2, <1>3

\* A conjunction of conditions on documents.
LEMMA ConjunctionMatches ==
  ASSUME NEW C, IsFiniteSet(C), NEW order, NEW limit, NEW offset, NEW i
  PROVE  Matches(Documents(Conjunction(C), order, limit, offset), i)
           <=> \A f \in C : DocumentHolds(f, i)
<1> DEFINE s == Documents(Conjunction(C), order, limit, offset)
<1>1. s.groups = Conjunction(C) /\ s.documents
  BY DEF Documents, Sql
<1> HIDE DEF s
<1>2. CASE C = {}
  BY <1>1, <1>2 DEF Matches, Conjunction, s
<1>3. CASE C # {}
  <2> DEFINE g == SetToSeq(C)
  <2>1. Range(g) = C
    <3>1. ToSet(g) = C
      BY ListingExists, ListingIsAll
    <3> QED
      BY <3>1 DEF ToSet, Range
  <2>2. s.groups = <<g>>
    BY <1>1, <1>3 DEF Conjunction
  <2> HIDE DEF g
  <2>3. Range(<<g>>) = {g} /\ <<g>> # <<>>
    BY DEF Range
  <2> QED
    BY <1>1, <2>1, <2>2, <2>3 DEF Matches, s
<1> QED
  BY <1>2, <1>3

\* What a document database makes of a condition it understands.
LEMMA ConditionsAgree ==
  ASSUME NEW f, IsFilter(f), f.value # Null, NEW i
  PROVE  /\ f.operator \in {"eq", "like", "gt", "gte", "lt", "lte"} =>
              (DocumentHolds(f, i) <=> SqlHolds(f, i))
         /\ f.operator \in {"eq", "like"} =>
              (DocumentHolds(AsEquality(f), i) <=> SqlHolds(f, i))
<1> DEFINE a == f.column
           b == f.operator
           v == f.value
           d == f.logic
           e == AsEquality(f)
<1>1. e.column = a /\ e.operator = "eq" /\ e.value = v
  <2>1. f = [column |-> a, operator |-> b, value |-> v, logic |-> d]
    BY DEF IsFilter
  <2> HIDE DEF a, b, v, d
  <2>2. e = [[column |-> a, operator |-> b, value |-> v, logic |-> d]
               EXCEPT !.operator = "eq"]
    BY <2>1 DEF AsEquality
  <2> HIDE DEF e
  <2> QED
    BY <2>2
<1> HIDE DEF e
<1>2. DocumentHolds(e, i) <=> Field(i, a) = v
  BY <1>1 DEF DocumentHolds
<1>3. b \in {"eq", "like"} => (SqlHolds(f, i) <=> Field(i, a) = v)
  BY DEF SqlHolds, Compares
<1>4. b = "eq" => (DocumentHolds(f, i) <=> Field(i, a) = v)
  BY DEF DocumentHolds
<1>5. b \in {"like", "gt", "gte", "lt", "lte"} => (DocumentHolds(f, i) <=> SqlHolds(f, i))
  BY DEF DocumentHolds, SqlHolds
<1> QED
  BY <1>2, <1>3, <1>4, <1>5 DEF e

\* The query of a page differs from that of the first in its offset.
SamePage(q, first) ==
    /\ q.columns = first.columns /\ q.filters = first.filters /\ q.order = first.order
    /\ q.limit = first.limit /\ q.cursor = Null /\ q.offset \in Nat
    /\ q.cursorColumn = first.cursorColumn /\ q.raw = first.raw

\* A statement for the page, with the conditions of the first.
IsStatement(s, q, first) ==
    /\ s.valid /\ s.order = first.order /\ s.limit = first.limit /\ s.offset = q.offset
    /\ \A i \in Ids : Matches(s, i) <=> Matches(Written(first), i)

LEMMA SqlStatement ==
  ASSUME NEW kind \in Offsets \cap SqlKinds, NEW first, IsQuery(first),
         FollowsOffset(kind, first), NEW q, SamePage(q, first)
  PROVE  IsStatement(Statement(kind, q), q, first)
<1> DEFINE s == Statement(kind, q)
           groups == Disjuncts(first.filters)
           plain == Sql(groups, first.order, first.limit, q.offset)
<1>1. /\ IsList(first.filters) /\ ~q.raw /\ q.filters = first.filters /\ q.order = first.order
      /\ q.limit = first.limit /\ q.limit > 0 /\ q.cursor = Null
      /\ \A f \in Range(first.filters) :
           IsFilter(f) /\ f.operator \in Operators \ {"ilike", "in", "not_in"}
  BY DEF IsQuery, FollowsOffset, SamePage, Understands, IsList
<1>2. ASSUME NEW operators, Operators \ {"ilike", "in", "not_in"} \subseteq operators
      PROVE  Translated(q.filters, operators) = groups
  BY <1>1, <1>2, TranslatedAsIs
<1>3. /\ Translated(q.filters, PostgresOperators) = groups
      /\ Translated(q.filters, MySqlOperators) = groups
      /\ Translated(q.filters, SqliteOperators) = groups
      /\ Translated(q.filters, ClickHouseOperators) = groups
  BY <1>2 DEF PostgresOperators, MySqlOperators, SqliteOperators, ClickHouseOperators
<1>4. ~Lists(q.filters)
  BY <1>1 DEF Lists, Range
<1>5. first.order # <<>>
  BY DEF FollowsOffset
<1> HIDE DEF groups
<1>6. PostgresCursor(groups, q) = groups
  BY <1>1 DEF PostgresCursor
<1>7. /\ plain.valid /\ plain.order = first.order /\ plain.limit = first.limit
      /\ plain.offset = q.offset /\ plain.groups = groups /\ ~plain.documents
  BY DEF Sql
<1> DEFINE checked == [plain EXCEPT !.valid = ~Lists(q.filters) /\ (q.offset = 0 \/ q.limit > 0)]
<1>8. checked = plain
  <2> DEFINE valid == ~Lists(q.filters) /\ (q.offset = 0 \/ q.limit > 0)
  <2>1. valid = TRUE
    BY <1>1, <1>4
  <2>2. checked = [plain EXCEPT !.valid = valid]
    OBVIOUS
  <2> HIDE DEF valid, checked
  <2>3. checked = [plain EXCEPT !.valid = TRUE]
    BY <2>1, <2>2
  <2> QED
    BY <2>3 DEF Sql
<1>9. s = plain
  <2>1. CASE kind = "postgres"
    <3>1. s = PostgresStatement(q)
      BY <2>1 DEF Statement
    <3> QED
      BY <1>1, <1>3, <1>5, <1>6, <3>1 DEF PostgresStatement
  <2>2. CASE kind = "mysql"
    <3>1. s = MySqlStatement(q)
      BY <2>2 DEF Statement
    <3> QED
      BY <1>1, <1>3, <1>8, <3>1 DEF MySqlStatement
  <2>3. CASE kind = "sqlite"
    <3>1. s = SqliteStatement(q)
      BY <2>3 DEF Statement
    <3> QED
      BY <1>1, <1>3, <1>8, <3>1 DEF SqliteStatement
  <2>4. CASE kind = "clickhouse"
    <3>1. s = ClickHouseStatement(q)
      BY <2>4 DEF Statement
    <3> QED
      BY <1>1, <1>3, <3>1 DEF ClickHouseStatement
  <2> QED
    BY <2>1, <2>2, <2>3, <2>4 DEF Offsets, SqlKinds
<1>10. \A i \in Ids : Matches(plain, i) <=> Matches(Written(first), i)
  BY SqlMatches DEF Written, groups
<1> HIDE DEF s, plain
<1>11. IsStatement(s, q, first)
  BY <1>7, <1>9, <1>10 DEF IsStatement
<1> QED
  BY <1>11 DEF s

\* The first query of a document database, whose conditions are all understood.
LEMMA DocumentMatches ==
  ASSUME NEW kind \in {"mongodb", "elasticsearch"}, NEW first, IsQuery(first),
         FollowsOffset(kind, first), NEW C, IsFiniteSet(C), NEW h,
         C = {h[f] : f \in Range(first.filters)},
         \A f \in Range(first.filters), i \in Ids : DocumentHolds(h[f], i) <=> SqlHolds(f, i),
         NEW offset, NEW i \in Ids
  PROVE  Matches(Documents(Conjunction(C), first.order, first.limit, offset), i)
           <=> Matches(Written(first), i)
<1>1. IsList(first.filters) /\ \A f \in Range(first.filters) : f.logic # "or"
  BY DEF IsQuery, FollowsOffset, Understands, IsList, SqlKinds
<1>2. Matches(Written(first), i) <=> \A f \in Range(first.filters) : SqlHolds(f, i)
  <2>1. Matches(Written(first), i) <=> Holds(Disjuncts(first.filters), i)
    BY SqlMatches DEF Written
  <2> QED
    BY <1>1, <2>1, AndHolds
<1>3. Matches(Documents(Conjunction(C), first.order, first.limit, offset), i)
        <=> \A f \in C : DocumentHolds(f, i)
  BY ConjunctionMatches
<1> QED
  BY <1>2, <1>3

LEMMA DocumentStatement ==
  ASSUME NEW kind \in {"mongodb", "elasticsearch"}, NEW first, IsQuery(first),
         FollowsOffset(kind, first), NEW q, SamePage(q, first)
  PROVE  IsStatement(Statement(kind, q), q, first)
<1> DEFINE fs == first.filters
           R == Range(fs)
           s == Statement(kind, q)
           known == {"eq", "like", "gt", "gte", "lt", "lte"}
<1>1. /\ IsList(fs) /\ q.filters = fs /\ q.order = first.order
      /\ q.limit = first.limit /\ q.limit > 0
      /\ \A f \in R : IsFilter(f) /\ f.operator \in known /\ f.value # Null
  BY DEF IsQuery, FollowsOffset, SamePage, Understands, IsList, SqlKinds
<1>2. IsFiniteSet(R)
  <2>1. Len(fs) \in Nat /\ DOMAIN fs = 1 .. Len(fs)
    BY <1>1, LenProperties DEF IsList
  <2>2. IsFiniteSet(DOMAIN fs)
    BY <2>1, FS_Interval
  <2>3. IsFiniteSet({fs[n] : n \in DOMAIN fs})
    BY <2>2, ImageIsFinite
  <2> QED
    BY <2>3 DEF Range
<1>3. ASSUME NEW C, NEW h, C = {h[f] : f \in R},
             \A f \in R, i \in Ids : DocumentHolds(h[f], i) <=> SqlHolds(f, i),
             s = Documents(Conjunction(C), first.order, first.limit, q.offset)
      PROVE  IsStatement(s, q, first)
  <2>1. IsFiniteSet(C)
    <3> HIDE DEF R
    <3>1. IsFiniteSet({h[f] : f \in R})
      BY <1>2, ImageIsFinite
    <3> QED
      BY <1>3, <3>1
  <2> HIDE DEF s
  <2>2. \A i \in Ids : Matches(s, i) <=> Matches(Written(first), i)
    BY <1>3, <2>1, DocumentMatches
  <2>3. s.valid /\ s.order = first.order /\ s.limit = first.limit /\ s.offset = q.offset
    BY <1>3 DEF Documents, Sql
  <2> QED
    BY <2>2, <2>3 DEF IsStatement
<1>4. CASE kind = "elasticsearch"
  <2> DEFINE h == [f \in R |-> f]
  <2>1. s = ElasticStatement(q)
    BY <1>4 DEF Statement
  <2>2. {f \in Range(q.filters) : f.operator \in known} = R
    BY <1>1
  <2>3. s = Documents(Conjunction(R), first.order, first.limit, q.offset)
    BY <1>1, <2>1, <2>2 DEF ElasticStatement
  <2>4. R = {h[f] : f \in R} /\ \A f \in R, i \in Ids : DocumentHolds(h[f], i) <=> SqlHolds(f, i)
    BY <1>1, ConditionsAgree
  <2> HIDE DEF h, R, s
  <2>5. IsStatement(s, q, first)
    BY <1>3, <2>3, <2>4
  <2> QED
    BY <2>5 DEF s
<1>5. CASE kind = "mongodb"
  <2> DEFINE Filter(f) == IF f.operator \in {"ne", "gt", "gte", "lt", "lte", "in"}
                          THEN f ELSE AsEquality(f)
             h == [f \in R |-> Filter(f)]
             C == {Filter(f) : f \in LastPerColumn(q.filters)}
  <2>1. s = Documents(Conjunction(C), first.order, first.limit, q.offset)
    <3>1. s = MongoStatement(q)
      BY <1>5 DEF Statement
    <3> QED
      BY <1>1, <3>1 DEF MongoStatement
  <2>2. LastPerColumn(q.filters) = R
    <3>1. \A m, n \in DOMAIN fs : fs[m].column = fs[n].column => m = n
      BY <1>5 DEF FollowsOffset
    <3>2. \A m, n \in DOMAIN fs : m = n => m =< n
      BY <1>1, LenProperties DEF IsList
    <3>3. {k \in DOMAIN fs : \A l \in DOMAIN fs : fs[l].column = fs[k].column => l =< k}
            = DOMAIN fs
      BY <3>1, <3>2
    <3> HIDE DEF fs
    <3>4. LastPerColumn(fs) = {fs[k] : k \in DOMAIN fs}
      BY <3>3 DEF LastPerColumn
    <3> QED
      BY <1>1, <3>4 DEF Range
  <2>3. C = {h[f] : f \in R}
    BY <2>2
  <2>4. ASSUME NEW f \in R, NEW i \in Ids PROVE DocumentHolds(h[f], i) <=> SqlHolds(f, i)
    <3>1. h[f] = Filter(f) /\ IsFilter(f) /\ f.operator \in known /\ f.value # Null
      BY <1>1
    <3>2. CASE f.operator \in {"eq", "like"}
      <4>1. Filter(f) = AsEquality(f)
        BY <3>2
      <4> QED
        BY <3>1, <3>2, <4>1, ConditionsAgree
    <3>3. CASE f.operator \in {"gt", "gte", "lt", "lte"}
      <4>1. Filter(f) = f
        BY <3>3
      <4> QED
        BY <3>1, <4>1, ConditionsAgree
    <3> QED
      BY <3>1, <3>2, <3>3
  <2> HIDE DEF h, C, R, s
  <2>5. IsStatement(s, q, first)
    BY <1>3, <2>1, <2>3, <2>4
  <2> QED
    BY <2>5 DEF s
<1> QED
  BY <1>4, <1>5

LEMMA OffsetStatement ==
  ASSUME NEW kind \in Offsets, NEW first, IsQuery(first), FollowsOffset(kind, first),
         NEW q, SamePage(q, first)
  PROVE  IsStatement(Statement(kind, q), q, first)
<1>1. kind \in Offsets \cap SqlKinds \/ kind \in {"mongodb", "elasticsearch"}
  BY DEF Offsets, SqlKinds
<1> QED
  BY <1>1, SqlStatement, DocumentStatement
-----------------------------------------------------------------------------
(* The pages of an offset *)

\* Whether nothing shows that there is more after an answer.
IsLast(kind, a, limit) == IF kind \in SayMore THEN ~a.more ELSE Len(a.rows) # limit

LEMMA OffsetPage ==
  ASSUME NEW kind \in Offsets, NEW q, q.limit \in Nat \ {0}, NEW V, NEW rows \in Seq(V),
         NEW total, NEW p, p = Execute(kind, q, Reading(rows, total, "whole"))
  PROVE  /\ p.ok /\ p.rows = rows
         /\ IsLast(kind, p, q.limit) => Len(rows) # q.limit \/ ~(Len(rows) < total)
<1> DEFINE r == Reading(rows, total, "whole")
           full == q.limit > 0 /\ Len(rows) = q.limit
<1>1. r.rows = rows /\ r.end = "whole" /\ r.total = total
  BY DEF Reading
<1> HIDE DEF r
<1>3. CASE kind = "postgres"
  <2>1. p = PostgresExecute(q, r)
    BY <1>1, <1>3 DEF Execute, r
  <2>2. \E next : p = Page(rows, full, next)
    BY <1>1, <2>1 DEF PostgresExecute
  <2>3. full \in BOOLEAN
    OBVIOUS
  <2> HIDE DEF full
  <2>4. p.ok /\ p.rows = rows /\ (full => p.more)
    BY <2>2, <2>3 DEF Page
  <2> QED
    BY <1>3, <2>4 DEF IsLast, SayMore, full
<1>4. CASE kind = "mongodb"
  <2>1. p = MongoExecute(q, r)
    BY <1>1, <1>4 DEF Execute, r
  <2>2. p = Page(rows, full, Null)
    BY <1>1, <2>1 DEF MongoExecute
  <2>3. full \in BOOLEAN
    OBVIOUS
  <2> HIDE DEF full
  <2>4. p.ok /\ p.rows = rows /\ (full => p.more)
    BY <2>2, <2>3 DEF Page
  <2> QED
    BY <1>4, <2>4 DEF IsLast, SayMore, full
<1>5. CASE kind = "elasticsearch"
  <2>1. p = ElasticExecute(r)
    BY <1>1, <1>5 DEF Execute, r
  <2> DEFINE fewer == Len(rows) < total
  <2>2. p = Page(rows, fewer, Null) /\ fewer \in BOOLEAN
    BY <1>1, <2>1 DEF ElasticExecute
  <2> HIDE DEF fewer
  <2>3. p.ok /\ p.rows = rows /\ (fewer => p.more)
    BY <2>2 DEF Page
  <2> QED
    BY <1>5, <2>3 DEF IsLast, SayMore, fewer
<1>6. CASE kind \in {"mysql", "sqlite", "clickhouse"}
  <2>1. p = Page(rows, FALSE, Null)
    BY <1>1, <1>6 DEF Execute, r, MySqlExecute, SqliteExecute, ClickHouseExecute
  <2>2. p.ok /\ p.rows = rows
    BY <2>1 DEF Page
  <2> QED
    BY <1>6, <2>2 DEF IsLast, SayMore
<1> QED
  BY <1>3, <1>4, <1>5, <1>6 DEF Offsets

\* A caller that advances the offset as it is meant.
FollowsByOffset(request) ==
    /\ request.paging = "offset" /\ request.reads[1].kind \in Offsets
    /\ FollowsOffset(request.reads[1].kind, request.reads[1].query)

\* What its call has seen, if S are the rows that are asked for.
OffsetOK(x, kind, first, S) ==
    LET seen == FlattenSeq(x.pages)
        shown == x.phase = "done" /\ x.answer.ok
    IN
    /\ SamePage(x.query, first) /\ x.pages \in Seq(Seq(Ids))
    /\ \A all : IsArrangement(first.order, S, all) =>
         /\ ~shown => seen = Upto(all, x.query.offset)
         /\ shown => /\ seen = Upto(all, x.query.offset + first.limit)
                     /\ IsLast(kind, x.answer, first.limit) => seen = all
         /\ x.phase = "open" => /\ x.left = PageFrom(all, x.query.offset, first.limit)
                                /\ x.total = Len(all)

\* The rows that a request asks for.
Sought(request) == {i \in store : Matches(Written(request.reads[1].query), i)}

\* No row has changed.
Unchanging == changes = work.changes

OffsetCall(c) ==
    LET request == work.requests[c] IN
    OffsetOK(call[c], request.reads[1].kind, request.reads[1].query, Sought(request))

OffsetInv ==
    /\ changes \in Nat /\ changes <= work.changes
    /\ Unchanging /\ Intact =>
         \A c \in Callers : FollowsByOffset(work.requests[c]) => OffsetCall(c)

LEMMA OffsetFacts ==
  ASSUME ToolsInv, NEW c \in Callers, FollowsByOffset(work.requests[c])
  PROVE  LET kind == work.requests[c].reads[1].kind
             first == work.requests[c].reads[1].query IN
         /\ work.requests[c].paging = "offset" /\ kind \in Offsets /\ Kind(c) = kind
         /\ Tool(c) = "execute_query" /\ IsQuery(first) /\ FollowsOffset(kind, first)
         /\ first.limit \in Nat \ {0} /\ IsTotal(first.order) /\ DOMAIN call[c] = Fields
         /\ call[c].n = 1
<1> DEFINE r == work.requests[c]
           kind == r.reads[1].kind
           first == r.reads[1].query
<1>1. r.paging = "offset" /\ kind \in Offsets /\ FollowsOffset(kind, first)
  BY DEF FollowsByOffset
<1>2. /\ Kind(c) = kind /\ Tool(c) = "execute_query" /\ IsQuery(first) /\ call[c].n = 1
      /\ CallOK(call[c], r)
  BY <1>1, PagedCall
<1> HIDE DEF r, first
<1>3. first.limit \in Nat \ {0} /\ IsTotal(first.order)
  BY <1>1, <1>2 DEF FollowsOffset, IsQuery, IsTotal
<1> QED
  BY <1>1, <1>2, <1>3 DEF CallOK, r, first

LEMMA OffsetFails ==
  ASSUME ToolsInv, NEW c \in Callers, FollowsByOffset(work.requests[c]),
         call[c].phase \notin {"done", "panicked"}, NEW kind, NEW first, NEW S,
         OffsetOK(call[c], kind, first, S), NEW p, ~p.ok
  PROVE  OffsetOK(After(c, p), kind, first, S)
<1> DEFINE y == After(c, p)
<1>1. /\ y.phase = "done" /\ y.query = call[c].query /\ ~y.answer.ok
      /\ y.pages = call[c].pages
  BY PageRead DEF FollowsByOffset
<1> HIDE DEF y
<1>2. OffsetOK(y, kind, first, S)
  BY <1>1 DEF OffsetOK
<1> QED
  BY <1>2 DEF y

LEMMA OffsetSend ==
  ASSUME ToolsInv, NEW c \in Callers, FollowsByOffset(work.requests[c]),
         OffsetCall(c), Send(c),
         NEW kind, kind = work.requests[c].reads[1].kind,
         NEW first, first = work.requests[c].reads[1].query
  PROVE  \E new : Becomes(c, new) /\ OffsetOK(new, kind, first, Sought(work.requests[c]))
<1> DEFINE x == call[c]
           S == Sought(work.requests[c])
           s == Statement(Kind(c), x.query)
           total == Cardinality({i \in store : Matches(s, i)})
           new(rows) == [x EXCEPT !.phase = "open", !.left = rows, !.total = total,
                                  !.whole[x.n] = rows]
<1>1. x.phase = "waiting"
  BY DEF Send, Asks
<1>2. PICK rows \in Answers(s, store) : Becomes(c, new(rows))
  BY DEF Send
<1>3. OffsetOK(x, kind, first, S)
  BY DEF OffsetCall
<1>4. /\ kind \in Offsets /\ Kind(c) = kind /\ IsQuery(first) /\ FollowsOffset(kind, first)
      /\ first.limit \in Nat \ {0} /\ IsTotal(first.order) /\ DOMAIN x = Fields
  BY OffsetFacts
<1>5. SamePage(x.query, first) /\ x.query.offset \in Nat
  BY <1>3 DEF OffsetOK, SamePage
<1>6. IsStatement(s, x.query, first)
  <2> HIDE DEF x
  <2> QED
    BY <1>4, <1>5, OffsetStatement
<1>7. {i \in store : Matches(s, i)} = S
  <2>1. store \subseteq Ids
    BY DEF ToolsInv
  <2> HIDE DEF s
  <2> QED
    BY <1>6, <2>1 DEF IsStatement, Sought
<1>8. S \subseteq Ids /\ IsFiniteSet(S)
  <2>1. store \subseteq Ids /\ IsFiniteSet(store)
    BY DEF ToolsInv
  <2> QED
    BY <2>1, FS_Subset DEF Sought
<1> HIDE DEF s, S, x, total
<1>9. PICK some \in Arrangements(first.order, S) :
        rows = PageFrom(some, x.query.offset, first.limit)
  BY <1>2, <1>4, <1>6, <1>7 DEF Answers, PageFrom, IsStatement
<1>10. IsArrangement(first.order, S, some)
  BY <1>8, ArrangementsAreArranged
<1>11. ASSUME NEW all, IsArrangement(first.order, S, all)
       PROVE  rows = PageFrom(all, x.query.offset, first.limit) /\ total = Len(all)
  <2>1. all = some /\ Len(all) = Cardinality(S)
    BY <1>4, <1>8, <1>10, <1>11, ArrangementsAgree
  <2> QED
    BY <1>7, <1>9, <2>1 DEF total
<1> DEFINE y == new(rows)
<1>12. y.phase = "open" /\ y.query = x.query /\ y.pages = x.pages /\ y.left = rows
       /\ y.total = total
  BY <1>4 DEF Fields
<1> HIDE DEF y, new
<1>13. OffsetOK(y, kind, first, S)
  BY <1>1, <1>3, <1>11, <1>12 DEF OffsetOK
<1> QED
  BY <1>2, <1>13 DEF y, S

LEMMA OffsetRead ==
  ASSUME ToolsInv, NEW c \in Callers, FollowsByOffset(work.requests[c]),
         NEW kind, kind = work.requests[c].reads[1].kind,
         NEW first, first = work.requests[c].reads[1].query,
         NEW S, OffsetOK(call[c], kind, first, S), call[c].phase = "open"
  PROVE  OffsetOK(After(c, Returned(c, Reading(call[c].left, call[c].total, "whole"))),
                  kind, first, S)
<1> DEFINE x == call[c]
           q == x.query
           rows == x.left
           p == Returned(c, Reading(rows, x.total, "whole"))
           y == After(c, p)
<1>1. /\ kind \in Offsets /\ Kind(c) = kind /\ Tool(c) = "execute_query"
      /\ first.limit \in Nat \ {0} /\ work.requests[c].paging # "none"
  BY OffsetFacts
<1>2. p = Execute(kind, q, Reading(rows, x.total, "whole"))
  BY <1>1 DEF Returned
<1>3. rows \in Seq(Ids)
  BY <1>1, PagedCall DEF CallOK
<1>4. /\ q.offset \in Nat /\ q.limit = first.limit /\ x.pages \in Seq(Seq(Ids))
      /\ SamePage(q, first)
  BY DEF OffsetOK, SamePage
<1>5. \A all : IsArrangement(first.order, S, all) =>
        /\ FlattenSeq(x.pages) = Upto(all, q.offset)
        /\ rows = PageFrom(all, q.offset, first.limit) /\ x.total = Len(all)
  BY DEF OffsetOK
<1> HIDE DEF p, x, q, rows
<1>6. /\ p.ok /\ p.rows = rows
      /\ IsLast(kind, p, first.limit) => Len(rows) # first.limit \/ ~(Len(rows) < x.total)
  <2>1. q.limit \in Nat \ {0}
    BY <1>1, <1>4
  <2>2. /\ p.ok /\ p.rows = rows
        /\ IsLast(kind, p, q.limit) => Len(rows) # q.limit \/ ~(Len(rows) < x.total)
    BY <1>1, <1>2, <1>3, <2>1, OffsetPage
  <2> QED
    BY <1>4, <2>2
<1>7. /\ y.phase = "done" /\ y.query = q /\ y.answer = p /\ y.pages = Append(x.pages, rows)
  BY <1>1, <1>6, PageRead DEF x, q
<1> HIDE DEF y
<1>8. /\ Append(x.pages, rows) \in Seq(Seq(Ids))
      /\ FlattenSeq(Append(x.pages, rows)) = FlattenSeq(x.pages) \o rows
  BY <1>3, <1>4, FlattenAppend
<1>9. ASSUME NEW all, IsArrangement(first.order, S, all)
      PROVE  /\ FlattenSeq(y.pages) = Upto(all, q.offset + first.limit)
             /\ IsLast(kind, p, first.limit) => FlattenSeq(y.pages) = all
  <2>1. all \in Seq(Ids) /\ Len(all) \in Nat /\ Len(rows) \in Nat
    BY <1>3, <1>9, LenProperties DEF IsArrangement
  <2>2. /\ Upto(all, q.offset) \o rows = Upto(all, q.offset + first.limit)
        /\ Len(rows) # first.limit \/ Len(rows) >= Len(all) =>
             Upto(all, q.offset + first.limit) = all
    <3> DEFINE n == q.offset
               k == first.limit
    <3>1. rows = PageFrom(all, n, k)
      BY <1>5, <1>9
    <3>2. n \in Nat /\ k \in Nat \ {0}
      BY <1>1, <1>4
    <3> HIDE DEF n, k
    <3>3. IsNext(all, n, k, rows)
      BY <2>1, <3>1, <3>2, NextPart
    <3> QED
      BY <3>3 DEF IsNext, n, k
  <2>3. FlattenSeq(y.pages) = Upto(all, q.offset + first.limit)
    BY <1>5, <1>7, <1>8, <1>9, <2>2
  <2>4. ~(Len(rows) < x.total) => Len(rows) >= Len(all)
    BY <1>5, <1>9, <2>1
  <2> QED
    BY <1>6, <2>2, <2>3, <2>4
<1>10. OffsetOK(y, kind, first, S)
  BY <1>4, <1>6, <1>7, <1>8, <1>9 DEF OffsetOK
<1> QED
  BY <1>10 DEF y, p, rows, x

LEMMA OffsetAskNext ==
  ASSUME ToolsInv, NEW c \in Callers, FollowsByOffset(work.requests[c]),
         NEW kind, kind = work.requests[c].reads[1].kind,
         NEW first, first = work.requests[c].reads[1].query,
         NEW S, OffsetOK(call[c], kind, first, S), AskNext(c)
  PROVE  \E new : Becomes(c, new) /\ OffsetOK(new, kind, first, S)
<1> DEFINE x == call[c]
           r == work.requests[c]
           q == NextQuery(c)
           y == [Waiting(r) EXCEPT !.query = q, !.pages = x.pages]
<1>1. Becomes(c, y) /\ x.phase = "done"
  BY DEF AskNext
<1>2. y.phase = "waiting" /\ y.query = q /\ y.pages = x.pages
  BY DEF Waiting
<1>3. r.paging = "offset" /\ SamePage(x.query, first) /\ first.limit \in Nat \ {0}
  BY OffsetFacts DEF OffsetOK
<1>4. CASE ~x.answer.ok
  <2>1. q = x.query
    BY <1>4 DEF NextQuery
  <2> HIDE DEF y, q, x
  <2>2. OffsetOK(y, kind, first, S)
    BY <1>2, <1>4, <2>1 DEF OffsetOK, x
  <2> QED
    BY <1>1, <2>2
<1>5. CASE x.answer.ok
  <2>1. q = [x.query EXCEPT !.offset = @ + x.query.limit] /\ IsQuery(x.query)
    BY <1>3, <1>5, PagedCall DEF NextQuery, CallOK
  <2>2. q.offset = x.query.offset + first.limit /\ SamePage(q, first)
    <3> DEFINE d == x.query
               n == d.offset + d.limit
    <3>1. q = [d EXCEPT !.offset = n]
      BY <2>1
    <3>2. n = d.offset + first.limit /\ n \in Nat
      BY <1>3 DEF SamePage
    <3>3. IsQuery(d) /\ SamePage(d, first)
      BY <1>3, <2>1
    <3> HIDE DEF q, d, n
    <3>4. q.offset = n /\ SamePage(q, first)
      BY <3>1, <3>2, <3>3 DEF SamePage, IsQuery
    <3> QED
      BY <3>2, <3>4 DEF d
  <2> HIDE DEF y, q, x
  <2>3. OffsetOK(y, kind, first, S)
    BY <1>1, <1>2, <1>5, <2>2 DEF OffsetOK, x
  <2> QED
    BY <1>1, <2>3
<1> QED
  BY <1>4, <1>5

LEMMA OffsetStep ==
  ASSUME ToolsInv, NEW c \in Callers, FollowsByOffset(work.requests[c]),
         OffsetCall(c), Intact, Intact', Step(c) \/ AskNext(c),
         NEW kind, kind = work.requests[c].reads[1].kind,
         NEW first, first = work.requests[c].reads[1].query,
         NEW S, S = Sought(work.requests[c])
  PROVE  \E new : Becomes(c, new) /\ OffsetOK(new, kind, first, S)
<1>1. work.requests[c].paging # "none" /\ OffsetOK(call[c], kind, first, S)
  BY DEF FollowsByOffset, OffsetCall
<1>2. faults \in Nat /\ work' = work => faults' = faults
  BY DEF Intact
<1>3. faults \in Nat
  BY DEF ToolsInv
<1>4. ASSUME NEW p, ~p.ok, call[c].phase \notin {"done", "panicked"}, Becomes(c, After(c, p))
      PROVE  \E new : Becomes(c, new) /\ OffsetOK(new, kind, first, S)
  <2>1. OffsetOK(After(c, p), kind, first, S)
    BY <1>1, <1>4, OffsetFails
  <2> QED
    BY <1>4, <2>1
<1>5. CASE Reject(c)
  <2>1. ~Failed.ok /\ call[c].phase \notin {"done", "panicked"} /\ Becomes(c, After(c, Failed))
    BY <1>5 DEF Reject, Failed
  <2> QED
    BY <1>4, <2>1
<1>6. CASE Send(c)
  BY <1>6, OffsetSend
<1>7. CASE Refuse(c)
  <2>1. Statement(Kind(c), call[c].query).valid
    <3>1. /\ kind \in Offsets /\ Kind(c) = kind /\ IsQuery(first) /\ FollowsOffset(kind, first)
          /\ SamePage(call[c].query, first)
      BY <1>1, OffsetFacts DEF OffsetOK
    <3> QED
      BY <3>1, OffsetStatement DEF IsStatement
  <2>2. work' = work /\ faults' = faults - 1
    BY <1>7, <2>1 DEF Refuse, Happens
  <2> QED
    BY <1>2, <1>3, <2>2
<1>8. CASE Expire(c)
  <2> DEFINE p == Returned(c, Reading(<<>>, 0, "unreached"))
  <2>1. call[c].phase \notin {"done", "panicked"} /\ Becomes(c, After(c, p))
    BY <1>8 DEF Expire, Asks
  <2>2. p = Failed
    <3>1. Reading(<<>>, 0, "unreached").end = "unreached" /\ Tool(c) = "execute_query"
      BY OffsetFacts DEF Reading
    <3> QED
      BY <3>1 DEF Returned, Execute
  <2>3. ~p.ok
    BY <2>2 DEF Failed
  <2> HIDE DEF p
  <2> QED
    BY <1>4, <2>1, <2>3
<1>9. CASE Read(c)
  <2>1. /\ call[c].phase = "open"
        /\ Becomes(c, After(c, Returned(c, Reading(call[c].left, call[c].total, "whole"))))
    BY <1>9 DEF Read, Close
  <2>2. OffsetOK(After(c, Returned(c, Reading(call[c].left, call[c].total, "whole"))),
                 kind, first, S)
    BY <1>1, <2>1, OffsetRead
  <2> QED
    BY <2>1, <2>2
<1>10. CASE Break(c)
  <2>1. work' = work
    BY <1>10 DEF Break
  <2>2. faults' = faults - 1
    BY <1>10 DEF Break
  <2>3. faults' = faults
    BY <1>2, <1>3, <2>1
  <2> QED
    BY <1>3, <2>2, <2>3
<1>11. CASE AskNext(c)
  BY <1>1, <1>11, OffsetAskNext
<1> QED
  BY <1>1, <1>5, <1>6, <1>7, <1>8, <1>9, <1>10, <1>11, PagedStep

LEMMA OffsetInit == Init => OffsetInv
<1> SUFFICES ASSUME Init PROVE OffsetInv
  OBVIOUS
<1>1. ToolsInv
  BY ToolsInit
<1>2. changes \in Nat /\ changes <= work.changes
  BY QueryToolsAssumption DEF Init
<1>3. ASSUME NEW c \in Callers, FollowsByOffset(work.requests[c]) PROVE OffsetCall(c)
  <2> DEFINE first == work.requests[c].reads[1].query
             kind == work.requests[c].reads[1].kind
             S == Sought(work.requests[c])
  <2>1. call[c].phase = "waiting" /\ call[c].query = first /\ call[c].pages = <<>>
    BY DEF Init, Waiting
  <2>2. first.cursor = Null /\ first.offset = 0
    BY <1>3 DEF FollowsByOffset, FollowsOffset
  <2>3. FlattenSeq(<<>>) = <<>> /\ <<>> \in Seq(Seq(Ids))
    BY DEF FlattenSeq
  <2>4. \A all : IsArrangement(first.order, S, all) => Upto(all, 0) = <<>>
    <3> SUFFICES ASSUME NEW all, all \in Seq(Ids) PROVE Upto(all, 0) = <<>>
      BY DEF IsArrangement
    <3>1. Len(all) \in Nat
      BY LenProperties
    <3>2. (IF 0 > Len(all) THEN Len(all) ELSE 0) = 0
      BY <3>1
    <3>3. Len(Upto(all, 0)) = 0 /\ Upto(all, 0) \in Seq(Ids)
      BY <3>2, UptoIsPart
    <3> QED
      BY <3>3, EmptySeq
  <2> HIDE DEF first, kind, S
  <2>5. SamePage(call[c].query, first)
    BY <2>1, <2>2 DEF SamePage
  <2>6. OffsetOK(call[c], kind, first, S)
    BY <2>1, <2>2, <2>3, <2>4, <2>5 DEF OffsetOK
  <2> QED
    BY <2>6 DEF OffsetCall, kind, first, S
<1> QED
  BY <1>2, <1>3 DEF OffsetInv

LEMMA OffsetNext == ToolsInv /\ OffsetInv /\ [Next]_vars => OffsetInv'
<1> SUFFICES ASSUME ToolsInv, OffsetInv, [Next]_vars PROVE OffsetInv'
  OBVIOUS
<1>0. DOMAIN call = Callers
  BY DEF ToolsInv
<1>1. changes \in Nat /\ changes <= work.changes /\ work.changes \in Nat
  BY QueryToolsAssumption DEF OffsetInv, ToolsInv
<1>2. CASE UNCHANGED vars
  <2>1. store' = store /\ call' = call /\ work' = work /\ faults' = faults /\ changes' = changes
    BY <1>2 DEF vars
  <2> QED
    BY <2>1 DEF OffsetInv, OffsetCall, Sought, Unchanging, Intact, Callers
<1>3. CASE Insert \/ Delete
  <2>1. work' = work /\ changes > 0 /\ changes' = changes - 1
    BY <1>3 DEF Insert, Delete
  <2>2. changes' \in Nat /\ changes' <= work'.changes /\ changes' # work'.changes
    <3>1. ASSUME NEW n \in Nat, NEW m \in Nat, n > 0, n <= m
          PROVE  n - 1 \in Nat /\ n - 1 <= m /\ n - 1 # m
      BY <3>1
    <3> QED
      BY <1>1, <2>1, <3>1
  <2> QED
    BY <2>2 DEF OffsetInv, Unchanging
<1>4. ASSUME NEW c \in Callers, Step(c) \/ AskNext(c) PROVE OffsetInv'
  <2>1. store' = store /\ work' = work /\ changes' = changes /\ (Intact' => Intact)
        /\ \E new : Becomes(c, new)
    BY <1>4, StepsOfCalls
  <2>2. CASE ~(Unchanging' /\ Intact')
    BY <1>1, <2>1, <2>2 DEF OffsetInv
  <2>3. CASE Unchanging' /\ Intact'
    <3>1. Intact /\ \A d \in Callers : FollowsByOffset(work.requests[d]) => OffsetCall(d)
      BY <2>1, <2>3 DEF OffsetInv, Unchanging
    <3> DEFINE OK(x, d) ==
                 OffsetOK(x, work.requests[d].reads[1].kind, work.requests[d].reads[1].query,
                          Sought(work.requests[d]))
    <3>2. \E new : Becomes(c, new) /\ (FollowsByOffset(work.requests[c]) => OK(new, c))
      <4>1. CASE FollowsByOffset(work.requests[c])
        BY <1>4, <2>3, <3>1, <4>1, OffsetStep
      <4>2. CASE ~FollowsByOffset(work.requests[c])
        BY <2>1, <4>2
      <4> QED
        BY <4>1, <4>2
    <3>3. \A d \in Callers : FollowsByOffset(work.requests[d]) => OK(call[d], d)
      BY <3>1 DEF OffsetCall
    <3> HIDE DEF OK
    <3>4. PICK new : /\ call' = [call EXCEPT ![c] = new]
                     /\ FollowsByOffset(work.requests[c]) => OK(new, c)
      BY <3>2 DEF Becomes
    <3>5. \A d \in Callers : FollowsByOffset(work.requests[d]) => OK(call'[d], d)
      BY <1>0, <3>3, <3>4
    <3>6. Callers' = Callers
          /\ \A d : (OffsetCall(d))' <=> OK(call'[d], d)
      BY <2>1 DEF Callers, OffsetCall, Sought, OK
    <3> QED
      BY <1>1, <2>1, <3>5, <3>6 DEF OffsetInv
  <2> QED
    BY <2>2, <2>3
<1> QED
  BY <1>2, <1>3, <1>4 DEF Next

\* Whoever advances the offset by the limit, at the six adapters that look at it, has seen
\* after every page a first part of what was asked for, in the order that was asked for, and
\* all of it when there is no more, however many pages, rows and other callers there are,
\* if no row changes and nothing fails for a fault; a deadline may pass at any page.
THEOREM OffsetsPartition == Spec => []OffsetPagesPartition
<1>1. ToolsInv /\ OffsetInv => OffsetPagesPartition
  <2> SUFFICES ASSUME ToolsInv, OffsetInv, NEW c \in Callers,
                      work.requests[c].paging = "offset", Kind(c) \in Offsets,
                      Unchanging, Intact, FollowsOffset(Kind(c), Asked(c)),
                      NEW rows \in Arrangements(Asked(c).order, {i \in store : Wanted(c, i)})
               PROVE  /\ Pages(c) \in Prefixes(rows)
                      /\ Finished(c) => Pages(c) = rows
    BY DEF OffsetPagesPartition, Unchanging, Intact
  <2> DEFINE r == work.requests[c]
             x == call[c]
             first == r.reads[1].query
             kind == r.reads[1].kind
             S == Sought(r)
  <2>1. Kind(c) = kind
    BY PagedCall
  <2>2. FollowsByOffset(r)
    BY <2>1 DEF FollowsByOffset, Asked
  <2>3. OffsetOK(x, kind, first, S)
    BY <2>2 DEF OffsetInv, OffsetCall
  <2>4. first.limit \in Nat \ {0} /\ x.query.offset \in Nat /\ x.query.limit = first.limit
    BY <2>2, <2>3, OffsetFacts DEF OffsetOK, SamePage
  <2>5. rows \in Arrangements(first.order, S)
    BY DEF Asked, Wanted, Sought
  <2>6. S \subseteq Ids /\ IsFiniteSet(S)
    <3>1. store \subseteq Ids /\ IsFiniteSet(store)
      BY DEF ToolsInv
    <3> QED
      BY <3>1, FS_Subset DEF Sought
  <2>7. IsArrangement(first.order, S, rows)
    <3> HIDE DEF S, first
    <3> QED
      BY <2>5, <2>6, ArrangementsAreArranged
  <2>8. rows \in Seq(Ids)
    BY <2>7 DEF IsArrangement
  <2>9. Finished(c) => /\ x.phase = "done" /\ x.answer.ok
                       /\ IsLast(kind, x.answer, first.limit)
    BY <2>1, <2>4 DEF Finished, Answered, WantsMore, IsLast
  <2> HIDE DEF x, first, kind, S
  <2>10. Pages(c) = FlattenSeq(x.pages)
    BY DEF Pages, x
  <2>11. \E n \in Nat : Pages(c) = Upto(rows, n)
    <3>1. x.query.offset + first.limit \in Nat
      BY <2>4
    <3> QED
      BY <2>3, <2>4, <2>7, <2>10, <3>1 DEF OffsetOK
  <2>12. Pages(c) \in Prefixes(rows)
    BY <2>8, <2>11, UptoIsPart
  <2>13. Finished(c) => Pages(c) = rows
    BY <2>3, <2>7, <2>9, <2>10 DEF OffsetOK
  <2> QED
    BY <2>12, <2>13
<1>2. Spec => []OffsetInv
  <2>1. Init => OffsetInv
    BY OffsetInit
  <2>2. ToolsInv /\ OffsetInv /\ [Next]_vars => OffsetInv'
    BY OffsetNext
  <2> QED
    BY <2>1, <2>2, ToolsStay, PTL DEF Spec
<1> QED
  BY <1>1, <1>2, ToolsStay, PTL

-----------------------------------------------------------------------------
(* The loop on stdin: after a signal the server takes at most the line it  *)
(* was waiting for, however many lines the client sends.                   *)

LoopTypeOK ==
    /\ cancelled \in BOOLEAN
    /\ pc \in {"check", "read", "handle", "done"}
    /\ late \in Nat

\* A late line was read by a loop that looks at its context before it reads again.
LateOK == late = 1 => cancelled

LoopInv == LoopTypeOK /\ OneLateLine /\ LateOK

LEMMA LoopInitOK == LoopInit => LoopInv
<1> SUFFICES ASSUME LoopInit PROVE LoopInv
  OBVIOUS
<1>1. LoopTypeOK /\ late = 0
  BY DEF LoopInit, LoopTypeOK
<1> QED
  BY <1>1 DEF LoopInv, OneLateLine, LateOK

LEMMA LoopStepOK == LoopInv /\ [LoopNext]_loopVars => LoopInv'
<1> SUFFICES ASSUME LoopInv, [LoopNext]_loopVars PROVE LoopInv'
  OBVIOUS
<1> USE DEF LoopInv, LoopTypeOK, OneLateLine, LateOK
<1>1. ASSUME NEW kind, SendLine(kind) PROVE LoopInv'
  BY <1>1 DEF SendLine
<1>2. CASE CloseStdin \/ CloseStdout \/ Signal \/ UNCHANGED loopVars
  BY <1>2 DEF CloseStdin, CloseStdout, Signal, loopVars
<1>3. CASE Cancel
  BY <1>3 DEF Cancel
<1>4. CASE Check
  BY <1>4 DEF Check
<1>5. CASE ReadGarbage
  BY <1>5 DEF ReadGarbage
<1>6. CASE ReadRequest
  BY <1>6 DEF ReadRequest
<1>7. CASE ReadEOF
  BY <1>7 DEF ReadEOF
<1>8. CASE Handle
  BY <1>8 DEF Handle
<1>9. CASE Panic
  BY <1>9 DEF Panic
<1> QED
  BY <1>1, <1>2, <1>3, <1>4, <1>5, <1>6, <1>7, <1>8, <1>9 DEF LoopNext, ReadLine

\* Once the context is cancelled the loop of ServeStdio serves at most the read that was
\* already waiting, for any number of lines.
THEOREM AtMostOneLateLine == LoopSpec => []OneLateLine
<1>1. LoopInv => OneLateLine
  BY DEF LoopInv
<1> QED
  BY <1>1, LoopInitOK, LoopStepOK, PTL DEF LoopSpec
=============================================================================
