------------------------ MODULE SchemaRegistryProofs ------------------------
(***************************************************************************)
(* What a caller may rely on while the registered schema is replaced, for  *)
(* any tables, columns, denylist, schemas of the database and requests.    *)
(*                                                                         *)
(* A plan keeps, from each of the steps that take the registry's lock, the *)
(* registered schema that step has seen; registrations only append to the  *)
(* past, so it stays among those of the plan's time.  A refresh keeps what *)
(* it has read for as long as nobody changes the database.                 *)
(***************************************************************************)
EXTENDS SchemaRegistry, DataTheorems

Found == UNION {[T -> SUBSET Columns] : T \in SUBSET Tables}

Refreshing ==
    [phase : {"columns", "keys"}, runs : Nat, at : Nat, todo : SUBSET Tables,
     keysOf : SUBSET Tables, tables : Found, keys : SUBSET (Tables \X Tables)]

Planned ==
    [phase : {"planning", "selected", "accepted", "rejected", "answered", "ended"},
     request : Request, columns : SUBSET Columns, first : Nat, last : Nat,
     answer : SUBSET Columns, on : SUBSET Schema]

TypeOK ==
    /\ live \in Shapes
    /\ schema \in Schema
    /\ refresh \in [phase : {"idle"}, runs : Nat] \cup Refreshing
    /\ plan \in [phase : {"idle"}] \cup Planned
    /\ past \in Seq(Schema)
    /\ changes \in Nat

\* The current schema is the last of the past.
PastOK == past # <<>> /\ past[Len(past)] = schema

\* While nobody changes the database, what was read so far is what is there.
RefreshOK ==
    refresh \in Refreshing =>
      /\ refresh.at <= changes
      /\ refresh.keysOf \subseteq DOMAIN refresh.tables
      /\ refresh.phase = "columns" => refresh.keysOf = {}
      /\ refresh.todo \cap DOMAIN refresh.tables = {}
      /\ refresh.at = changes =>
           /\ refresh.todo \cup DOMAIN refresh.tables = DOMAIN live.tables
           /\ \A t \in DOMAIN refresh.tables : refresh.tables[t] = live.tables[t]
           /\ refresh.keys =
                {k \in live.keys : k[1] \in DOMAIN refresh.tables \ refresh.keysOf}

\* The columns of a plan are those of its request or the safe ones of a schema
\* that was registered between the plan's beginning and n.
Selected(p, registered, n) ==
    \/ p.columns = p.request.columns
    \/ /\ p.request.columns = {}
       /\ \E i \in p.first .. n :
            /\ p.request.table \in DOMAIN registered[i].tables
            /\ p.columns = Safe(registered[i], p.request.table)

PlanOK ==
    plan \in Planned =>
      /\ 1 <= plan.first /\ plan.first <= plan.last /\ plan.last <= Len(past)
      /\ plan.phase # "rejected" =>
           (plan.request.columns \cup plan.request.filters) \cap Denied = {}
      /\ plan.phase = "planning" => plan.columns = plan.request.columns
      /\ plan.phase = "selected" => Selected(plan, past, Len(past))
      /\ plan.phase = "accepted" => Selected(plan, past, plan.last)

IInv == TypeOK /\ PastOK /\ RefreshOK /\ PlanOK /\ PlansAreJudged /\ AnswersFitOneVersion

-----------------------------------------------------------------------------
(* Facts about the pieces *)

LEMMA InitOK == Init => IInv
<1> SUFFICES ASSUME Init PROVE IInv
  OBVIOUS
<1>1. live \in Shapes /\ live \in Schema
  BY RegistryAssumption DEF Init
<1>2. past = <<live>> /\ past \in Seq(Schema) /\ Len(past) = 1 /\ past[1] = live
  BY <1>1 DEF Init
<1>3. refresh.phase = "idle" /\ plan.phase = "idle"
  BY DEF Init
<1>4. TypeOK /\ PastOK
  BY <1>1, <1>2 DEF Init, TypeOK, PastOK
<1>5. refresh \notin Refreshing /\ plan \notin Planned
  BY <1>3 DEF Refreshing, Planned
<1> QED
  BY <1>3, <1>4, <1>5 DEF IInv, RefreshOK, PlanOK, PlansAreJudged, AnswersFitOneVersion

\* A plan that does not change is judged as before when schemas are registered.
LEMMA PlanIsKept ==
  ASSUME IInv, past' \in Seq(Schema), Len(past) <= Len(past'),
         \A i \in 1 .. Len(past) : past'[i] = past[i], plan' = plan
  PROVE  PlanOK' /\ PlansAreJudged' /\ AnswersFitOneVersion'
<1>1. ASSUME plan \in Planned PROVE Seen' = Seen
  <2>1. plan.first \in Nat /\ plan.last \in Nat /\ 1 <= plan.first /\ plan.last <= Len(past)
    BY <1>1 DEF IInv, PlanOK, Planned
  <2>2. \A i \in plan.first .. plan.last : past'[i] = past[i]
    BY <2>1 DEF IInv, TypeOK
  <2> QED
    BY <2>2 DEF Seen
<1>2. PlanOK'
  <2> SUFFICES ASSUME plan \in Planned PROVE PlanOK'
    BY DEF PlanOK
  <2>1. /\ plan.first \in Nat /\ plan.last \in Nat /\ Len(past) \in Nat /\ Len(past') \in Nat
        /\ 1 <= plan.first /\ plan.first <= plan.last /\ plan.last <= Len(past)
    BY DEF IInv, PlanOK, Planned, TypeOK
  <2>2. ASSUME NEW n \in Nat, NEW m \in Nat, n <= Len(past), n <= m,
               Selected(plan, past, n)
        PROVE  Selected(plan, past', m)
    <3>1. \A i \in plan.first .. n : i \in plan.first .. m /\ past'[i] = past[i]
      BY <2>1, <2>2
    <3> QED
      BY <2>2, <3>1 DEF Selected
  <2>3. plan.phase = "selected" => Selected(plan, past', Len(past'))
    BY <2>1, <2>2 DEF IInv, PlanOK
  <2>4. plan.phase = "accepted" => Selected(plan, past', plan.last)
    BY <2>1, <2>2 DEF IInv, PlanOK
  <2> QED
    BY <2>1, <2>3, <2>4 DEF IInv, PlanOK
<1>3. CASE plan \in Planned
  BY <1>1, <1>2, <1>3 DEF IInv, PlansAreJudged, AnswersFitOneVersion
<1>4. CASE plan \notin Planned
  <2>1. plan.phase = "idle"
    BY <1>4 DEF IInv, TypeOK
  <2> QED
    BY <1>2, <2>1 DEF PlansAreJudged, AnswersFitOneVersion
<1> QED
  BY <1>3, <1>4

-----------------------------------------------------------------------------
(* The database and the refresh *)

LEMMA ChangeOK == ASSUME IInv, Change PROVE IInv'
<1>1. past' = past /\ plan' = plan /\ refresh' = refresh /\ schema' = schema
  BY DEF Change
<1>2. changes' \in Nat /\ changes < changes' /\ live' \in Shapes
  BY DEF IInv, TypeOK, Change
<1>3. TypeOK' /\ PastOK'
  BY <1>1, <1>2 DEF IInv, TypeOK, PastOK
<1>4. RefreshOK'
  <2> SUFFICES ASSUME refresh \in Refreshing PROVE RefreshOK'
    BY <1>1 DEF RefreshOK
  <2>1. refresh.at \in Nat /\ refresh.at <= changes /\ changes \in Nat
    BY DEF IInv, TypeOK, RefreshOK, Refreshing
  <2>2. refresh'.at < changes'
    BY <1>1, <1>2, <2>1
  <2> QED
    BY <1>1, <1>2, <2>1, <2>2 DEF IInv, RefreshOK
<1>5. PlanOK' /\ PlansAreJudged' /\ AnswersFitOneVersion'
  BY <1>1, PlanIsKept DEF IInv, TypeOK
<1> QED
  BY <1>3, <1>4, <1>5 DEF IInv

\* Of a step of the refresh that registers nothing only RefreshOK is left to show.
LEMMA RefreshStep ==
  ASSUME IInv, UNCHANGED <<live, schema, edges, plan, past, changes>>,
         refresh' \in [phase : {"idle"}, runs : Nat] \cup Refreshing, RefreshOK'
  PROVE  IInv'
<1>1. TypeOK' /\ PastOK'
  BY DEF IInv, TypeOK, PastOK
<1>2. PlanOK' /\ PlansAreJudged' /\ AnswersFitOneVersion'
  BY PlanIsKept DEF IInv, TypeOK
<1> QED
  BY <1>1, <1>2 DEF IInv

LEMMA DiscoverTablesOK == ASSUME IInv, DiscoverTables PROVE IInv'
<1>1. live \in Schema /\ live.tables \in Found
  BY RegistryAssumption DEF IInv, TypeOK, Schema, Found
<1>2. DOMAIN live.tables \in SUBSET Tables
  BY <1>1 DEF Found
<1>3. <<>> \in Found /\ DOMAIN <<>> = {}
  <2>1. <<>> \in [{} -> SUBSET Columns]
    OBVIOUS
  <2>2. {} \in SUBSET Tables
    OBVIOUS
  <2> QED
    BY <2>1, <2>2 DEF Found
<1>4. refresh.runs \in Nat /\ changes \in Nat
  BY DEF IInv, TypeOK, DiscoverTables, Refreshing
<1>5. refresh' = [phase |-> "columns", runs |-> refresh.runs + 1, at |-> changes,
                  todo |-> DOMAIN live.tables, keysOf |-> {}, tables |-> <<>>, keys |-> {}]
  BY DEF DiscoverTables
<1>6. refresh' \in Refreshing
  BY <1>2, <1>3, <1>4, <1>5 DEF Refreshing
<1>7. RefreshOK'
  <2>1. live' = live /\ changes' = changes
    BY DEF DiscoverTables
  <2>2. /\ refresh'.at = changes' /\ refresh'.keysOf = {} /\ refresh'.keys = {}
        /\ refresh'.tables = <<>> /\ refresh'.todo = DOMAIN live'.tables
    BY <1>5, <2>1
  <2>3. DOMAIN refresh'.tables = {}
    BY <1>3, <2>2
  <2> QED
    BY <1>4, <2>1, <2>2, <2>3 DEF RefreshOK
<1> QED
  BY <1>6, <1>7, RefreshStep DEF DiscoverTables

LEMMA DiscoverColumnsOK == ASSUME IInv, DiscoverColumns PROVE IInv'
<1>1. refresh \in Refreshing
  BY DEF IInv, TypeOK, DiscoverColumns
<1>2. live \in Schema /\ live.tables \in Found
  BY RegistryAssumption DEF IInv, TypeOK, Schema, Found
<1> DEFINE t == CHOOSE u \in refresh.todo : TRUE
           read == IF t \in DOMAIN live.tables THEN live.tables[t] ELSE {}
           tables == [u \in DOMAIN refresh.tables \cup {t} |->
                        IF u # t THEN refresh.tables[u] ELSE read]
<1>3. t \in refresh.todo /\ t \in Tables
  BY <1>1 DEF DiscoverColumns, Refreshing
<1>4. refresh' = [refresh EXCEPT !.phase = "keys", !.todo = @ \ {t}, !.keysOf = {t},
                                 !.tables = tables]
  BY DEF DiscoverColumns
<1>5. read \in SUBSET Columns
  <2> HIDE DEF t
  <2>1. PICK T \in SUBSET Tables : live.tables \in [T -> SUBSET Columns]
    BY <1>2 DEF Found
  <2>2. DOMAIN live.tables = T /\ \A u \in T : live.tables[u] \in SUBSET Columns
    BY <2>1
  <2> QED
    BY <2>2
<1> HIDE DEF t, read
<1>6. tables \in Found
  <2>1. PICK T \in SUBSET Tables : refresh.tables \in [T -> SUBSET Columns]
    BY <1>1 DEF Refreshing, Found
  <2>2. tables \in [T \cup {t} -> SUBSET Columns]
    BY <1>5, <2>1
  <2>3. T \cup {t} \in SUBSET Tables
    BY <1>3
  <2> QED
    BY <2>2, <2>3 DEF Found
<1>7. DOMAIN tables = DOMAIN refresh.tables \cup {t}
  OBVIOUS
<1>8. /\ refresh'.phase = "keys" /\ refresh'.at = refresh.at
      /\ refresh'.todo = refresh.todo \ {t} /\ refresh'.keysOf = {t}
      /\ refresh'.tables = tables /\ refresh'.keys = refresh.keys
  <2> HIDE DEF tables
  <2> QED
    BY <1>1, <1>4 DEF Refreshing
<1>9. refresh' \in Refreshing
  <2> HIDE DEF tables
  <2> QED
    BY <1>1, <1>3, <1>4, <1>6 DEF Refreshing
<1>10. /\ refresh.at <= changes
       /\ refresh.keysOf = {}
       /\ refresh.todo \cap DOMAIN refresh.tables = {}
       /\ refresh.at = changes =>
           /\ refresh.todo \cup DOMAIN refresh.tables = DOMAIN live.tables
           /\ \A u \in DOMAIN refresh.tables : refresh.tables[u] = live.tables[u]
           /\ refresh.keys = {k \in live.keys : k[1] \in DOMAIN refresh.tables}
  BY <1>1 DEF IInv, RefreshOK, DiscoverColumns
<1>11. live' = live /\ changes' = changes
  BY DEF DiscoverColumns
<1>12. RefreshOK'
  <2>1. refresh'.keysOf \subseteq DOMAIN refresh'.tables
    BY <1>7, <1>8
  <2>2. ASSUME refresh.at = changes
        PROVE  /\ refresh'.todo \cup DOMAIN refresh'.tables = DOMAIN live.tables
               /\ \A u \in DOMAIN refresh'.tables : refresh'.tables[u] = live.tables[u]
               /\ refresh'.keys =
                   {k \in live.keys : k[1] \in DOMAIN refresh'.tables \ refresh'.keysOf}
    <3>1. t \in DOMAIN live.tables /\ read = live.tables[t]
      BY <1>3, <1>10, <2>2 DEF read
    <3>2. refresh'.todo \cup DOMAIN refresh'.tables = DOMAIN live.tables
      BY <1>3, <1>7, <1>8, <1>10, <2>2
    <3>3. \A u \in DOMAIN refresh'.tables : refresh'.tables[u] = live.tables[u]
      BY <1>8, <1>10, <2>2, <3>1
    <3>4. DOMAIN refresh'.tables \ refresh'.keysOf = DOMAIN refresh.tables
      BY <1>3, <1>7, <1>8, <1>10
    <3> QED
      BY <1>8, <1>10, <2>2, <3>2, <3>3, <3>4
  <2>3. refresh'.todo \cap DOMAIN refresh'.tables = {}
    BY <1>7, <1>8, <1>10
  <2> QED
    BY <1>8, <1>10, <1>11, <2>1, <2>2, <2>3 DEF RefreshOK
<1> QED
  BY <1>9, <1>12, RefreshStep DEF DiscoverColumns

LEMMA DiscoverForeignKeysOK == ASSUME IInv, DiscoverForeignKeys PROVE IInv'
<1>1. refresh \in Refreshing
  BY DEF IInv, TypeOK, DiscoverForeignKeys
<1> DEFINE found == {k \in live.keys : k[1] \in refresh.keysOf}
<1>2. live.keys \in SUBSET (Tables \X Tables)
  BY RegistryAssumption DEF IInv, TypeOK, Schema
<1>3. refresh' = [refresh EXCEPT !.phase = "columns", !.keysOf = {}, !.keys = @ \cup found]
  BY DEF DiscoverForeignKeys
<1>4. /\ refresh'.phase = "columns" /\ refresh'.at = refresh.at
      /\ refresh'.todo = refresh.todo /\ refresh'.keysOf = {}
      /\ refresh'.tables = refresh.tables /\ refresh'.keys = refresh.keys \cup found
  <2> HIDE DEF found
  <2> QED
    BY <1>1, <1>3 DEF Refreshing
<1>5. refresh' \in Refreshing
  <2>1. found \in SUBSET (Tables \X Tables)
    BY <1>2
  <2> HIDE DEF found
  <2> QED
    BY <1>1, <1>3, <2>1 DEF Refreshing
<1>6. live' = live /\ changes' = changes
  BY DEF DiscoverForeignKeys
<1>7. RefreshOK'
  <2>1. ASSUME refresh.at = changes
        PROVE  refresh.keys \cup found = {k \in live.keys : k[1] \in DOMAIN refresh.tables}
    <3>1. /\ refresh.keys =
               {k \in live.keys : k[1] \in DOMAIN refresh.tables \ refresh.keysOf}
          /\ refresh.keysOf \subseteq DOMAIN refresh.tables
      BY <1>1, <2>1 DEF IInv, RefreshOK
    <3> QED
      BY <3>1
  <2> HIDE DEF found
  <2>2. DOMAIN refresh.tables \ {} = DOMAIN refresh.tables
    OBVIOUS
  <2> QED
    BY <1>1, <1>4, <1>6, <2>1, <2>2 DEF IInv, RefreshOK
<1> QED
  BY <1>5, <1>7, RefreshStep DEF DiscoverForeignKeys

LEMMA DiscoveryFailsOK == ASSUME IInv, DiscoveryFails PROVE IInv'
<1>1. refresh' = [phase |-> "idle", runs |-> refresh.runs] /\ refresh.runs \in Nat
  BY DEF IInv, TypeOK, DiscoveryFails, Refreshing
<1>2. refresh' \in [phase : {"idle"}, runs : Nat] /\ refresh' \notin Refreshing
  BY <1>1 DEF Refreshing
<1>3. RefreshOK'
  BY <1>2 DEF RefreshOK
<1> QED
  BY <1>2, <1>3, RefreshStep DEF DiscoveryFails

LEMMA RegisterOK == ASSUME IInv, Register PROVE IInv'
<1>1. refresh \in Refreshing
  BY DEF IInv, TypeOK, Register
<1>2. schema' = [tables |-> refresh.tables, keys |-> refresh.keys]
  BY DEF Register
<1>3. schema' \in Schema
  BY <1>1, <1>2 DEF Refreshing, Schema, Found
<1>4. past' = Append(past, schema') /\ past \in Seq(Schema)
  BY DEF IInv, TypeOK, Register
<1>5. /\ past' \in Seq(Schema) /\ Len(past') = Len(past) + 1 /\ Len(past) \in Nat
      /\ \A i \in 1 .. Len(past) : past'[i] = past[i]
      /\ past'[Len(past')] = schema' /\ past' # <<>>
  BY <1>3, <1>4
<1>6. refresh' = [phase |-> "idle", runs |-> refresh.runs] /\ refresh.runs \in Nat
  BY <1>1 DEF Register, Refreshing
<1>7. refresh' \in [phase : {"idle"}, runs : Nat] /\ refresh' \notin Refreshing
  BY <1>6 DEF Refreshing
<1>8. live' = live /\ plan' = plan /\ changes' = changes
  BY DEF Register
<1>9. TypeOK' /\ PastOK' /\ RefreshOK'
  BY <1>3, <1>5, <1>7, <1>8 DEF IInv, TypeOK, PastOK, RefreshOK
<1>10. PlanOK' /\ PlansAreJudged' /\ AnswersFitOneVersion'
  BY <1>5, <1>8, PlanIsKept
<1> QED
  BY <1>9, <1>10 DEF IInv

-----------------------------------------------------------------------------
(* The query *)

\* Of a step of the query only what is said of the plan is left to show.
LEMMA PlanStep ==
  ASSUME IInv, UNCHANGED <<live, schema, edges, refresh, past, changes>>,
         plan' \in Planned, PlanOK', PlansAreJudged', AnswersFitOneVersion'
  PROVE  IInv'
BY DEF IInv, TypeOK, PastOK, RefreshOK

\* The current schema is among those seen by a plan that ends its judgement now.
LEMMA CurrentIsLast ==
  ASSUME IInv
  PROVE  Len(past) \in Nat /\ 1 <= Len(past) /\ past[Len(past)] = schema
<1>1. past \in Seq(Schema) /\ past # <<>>
  BY DEF IInv, TypeOK, PastOK
<1> QED
  BY <1>1 DEF IInv, PastOK

LEMMA PlanActionOK == ASSUME IInv, NEW request \in Requests, Plan(request) PROVE IInv'
<1>1. request \in Request
  BY RegistryAssumption
<1> DEFINE denied == \/ request.columns \cap Denied # {}
                     \/ request.filters \cap Denied # {}
<1>2. plan' = [phase |-> IF denied THEN "rejected" ELSE "planning",
               request |-> request, columns |-> request.columns,
               first |-> Len(past), last |-> Len(past), answer |-> {}, on |-> {}]
  BY DEF Plan
<1>3. past' = past
  BY DEF Plan
<1>4. denied <=> (request.columns \cup request.filters) \cap Denied # {}
  OBVIOUS
<1> HIDE DEF denied
<1>5. /\ plan'.phase = IF denied THEN "rejected" ELSE "planning"
      /\ plan'.request = request /\ plan'.columns = request.columns
      /\ plan'.first = Len(past) /\ plan'.last = Len(past)
  BY <1>2
<1>6. plan' \in Planned
  BY <1>1, <1>2, CurrentIsLast DEF Planned, Request
<1>7. PlanOK'
  BY <1>3, <1>4, <1>5, CurrentIsLast DEF PlanOK
<1>8. PlansAreJudged'
  <2>1. schema \in Seen'
    BY <1>3, <1>5, CurrentIsLast DEF Seen
  <2>2. denied => ~Fits(schema, request)
    BY <1>4 DEF Fits
  <2> QED
    BY <1>5, <2>1, <2>2 DEF PlansAreJudged, Fits
<1>9. AnswersFitOneVersion'
  BY <1>5 DEF AnswersFitOneVersion
<1> QED
  BY <1>6, <1>7, <1>8, <1>9, PlanStep DEF Plan

LEMMA SelectColumnsOK == ASSUME IInv, SelectColumns PROVE IInv'
<1>1. plan \in Planned
  BY DEF IInv, TypeOK, SelectColumns
<1>2. /\ plan.first \in Nat /\ plan.first <= Len(past)
      /\ (plan.request.columns \cup plan.request.filters) \cap Denied = {}
      /\ plan.columns = plan.request.columns
      /\ 1 <= plan.first /\ plan.first <= plan.last /\ plan.last <= Len(past)
      /\ plan.last \in Nat
  BY <1>1, CurrentIsLast DEF IInv, PlanOK, SelectColumns, Planned
<1> DEFINE columns == IF plan.columns # {} \/ plan.request.table \notin DOMAIN schema.tables
                      THEN plan.columns ELSE Safe(schema, plan.request.table)
<1>3. plan' = [plan EXCEPT !.phase = "selected", !.columns = columns]
  BY DEF SelectColumns
<1>4. columns \in SUBSET Columns
  <2>1. PICK T \in SUBSET Tables : schema.tables \in [T -> SUBSET Columns]
    BY DEF IInv, TypeOK, Schema
  <2>2. DOMAIN schema.tables = T /\ \A u \in T : schema.tables[u] \in SUBSET Columns
    BY <2>1
  <2>3. plan.columns \in SUBSET Columns
    BY <1>1 DEF Planned
  <2> QED
    BY <2>2, <2>3 DEF Safe
<1>5. Selected([plan EXCEPT !.phase = "selected", !.columns = columns], past, Len(past))
  <2> DEFINE p == [plan EXCEPT !.phase = "selected", !.columns = columns]
  <2>1. /\ p.columns = columns /\ p.request = plan.request /\ p.first = plan.first
    <3> HIDE DEF columns
    <3> QED
      BY <1>1 DEF Planned
  <2>2. Len(past) \in plan.first .. Len(past) /\ past[Len(past)] = schema
    BY <1>2, CurrentIsLast
  <2> HIDE DEF p
  <2>3. CASE plan.columns # {} \/ plan.request.table \notin DOMAIN schema.tables
    BY <1>2, <2>1, <2>3 DEF Selected
  <2>4. CASE ~(plan.columns # {} \/ plan.request.table \notin DOMAIN schema.tables)
    BY <1>2, <2>1, <2>2, <2>4 DEF Selected
  <2> QED
    BY <2>3, <2>4 DEF p
<1> HIDE DEF columns
<1>6. /\ plan'.phase = "selected" /\ plan'.request = plan.request
      /\ plan'.first = plan.first /\ plan'.last = plan.last
  BY <1>1, <1>3 DEF Planned
<1>7. plan' \in Planned
  BY <1>1, <1>3, <1>4 DEF Planned
<1>8. past' = past
  BY DEF SelectColumns
<1>9. PlanOK'
  BY <1>2, <1>3, <1>5, <1>6, <1>8 DEF PlanOK
<1>10. PlansAreJudged' /\ AnswersFitOneVersion'
  BY <1>6 DEF PlansAreJudged, AnswersFitOneVersion
<1> QED
  BY <1>7, <1>9, <1>10, PlanStep DEF SelectColumns

LEMMA ValidateOK == ASSUME IInv, Validate PROVE IInv'
<1>1. plan \in Planned
  BY DEF IInv, TypeOK, Validate
<1>2. /\ plan.first \in Nat /\ plan.first <= Len(past) /\ 1 <= plan.first
      /\ (plan.request.columns \cup plan.request.filters) \cap Denied = {}
      /\ Selected(plan, past, Len(past))
  BY <1>1, CurrentIsLast DEF IInv, PlanOK, Validate, Planned
<1>3. plan' = [plan EXCEPT !.phase = IF Valid THEN "accepted" ELSE "rejected",
                           !.last = Len(past)]
  BY DEF Validate
<1>4. /\ plan'.phase = IF Valid THEN "accepted" ELSE "rejected"
      /\ plan'.request = plan.request /\ plan'.columns = plan.columns
      /\ plan'.first = plan.first /\ plan'.last = Len(past)
  <2> HIDE DEF Valid
  <2> QED
    BY <1>1, <1>3 DEF Planned
<1>5. plan' \in Planned
  <2> HIDE DEF Valid
  <2> QED
    BY <1>1, <1>3, CurrentIsLast DEF Planned
<1>6. past' = past
  BY DEF Validate
<1>7. schema \in Seen'
  BY <1>2, <1>4, <1>6, CurrentIsLast DEF Seen
<1>8. PlanOK'
  <2>1. Selected(plan', past, Len(past))
    BY <1>2, <1>4 DEF Selected
  <2> QED
    BY <1>2, <1>4, <1>6, <2>1, CurrentIsLast DEF PlanOK
<1>9. Valid => Fits(schema, plan.request)
  BY <1>2 DEF Valid, Fits, Selected, Safe
<1>10. ~Valid => \/ ~Fits(schema, plan.request)
                 \/ plan.request.columns = {} /\ plan.first < Len(past)
  <2> SUFFICES ASSUME ~Valid, Fits(schema, plan.request)
               PROVE  plan.request.columns = {} /\ plan.first < Len(past)
    OBVIOUS
  <2>1. /\ plan.request.table \in DOMAIN schema.tables
        /\ plan.request.columns \cup plan.request.filters
             \subseteq Safe(schema, plan.request.table)
    BY <1>2 DEF Valid, Fits, Safe
  <2>2. plan.columns # plan.request.columns
    BY <2>1 DEF Valid
  <2>3. PICK i \in plan.first .. Len(past) :
             plan.columns = Safe(past[i], plan.request.table)
    BY <1>2, <2>2 DEF Selected
  <2>4. past[i] # schema
    BY <2>1, <2>3 DEF Valid
  <2> QED
    BY <1>2, <2>2, <2>3, <2>4, CurrentIsLast DEF Selected
<1>11. PlansAreJudged'
  BY <1>4, <1>7, <1>9, <1>10 DEF PlansAreJudged
<1>12. AnswersFitOneVersion'
  BY <1>4 DEF AnswersFitOneVersion
<1> QED
  BY <1>5, <1>8, <1>11, <1>12, PlanStep DEF Validate

\* An execution that ends its judgement and neither selects nor validates again.
LEMMA AcceptedPlan ==
  ASSUME IInv, plan.phase = "accepted"
  PROVE  /\ plan \in Planned
         /\ (plan.request.columns \cup plan.request.filters) \cap Denied = {}
         /\ Selected(plan, past, plan.last)
         /\ \E s \in Seen : Fits(s, plan.request)
         /\ 1 <= plan.first /\ plan.first <= plan.last /\ plan.last <= Len(past)
<1>1. plan \in Planned
  BY DEF IInv, TypeOK
<1> QED
  BY <1>1 DEF IInv, PlanOK, PlansAreJudged

LEMMA ExecuteOK == ASSUME IInv, Execute PROVE IInv'
<1>1. plan.phase = "accepted" /\ past' = past
  BY DEF Execute
<1> DEFINE t == plan.request.table
           selected == IF plan.columns = {} THEN live.tables[t] ELSE plan.columns
           answer == StripDeniedFields(selected)
<1>2. /\ t \in DOMAIN live.tables
      /\ plan' = [plan EXCEPT !.phase = "answered", !.on = {live}, !.answer = answer]
  BY DEF Execute
<1>3. live \in Schema
  BY RegistryAssumption DEF IInv, TypeOK
<1>4. answer \in SUBSET Columns
  <2>1. PICK T \in SUBSET Tables : live.tables \in [T -> SUBSET Columns]
    BY <1>3 DEF Schema
  <2>2. live.tables[t] \in SUBSET Columns
    BY <1>2, <2>1
  <2>3. plan.columns \in SUBSET Columns
    BY <1>1, AcceptedPlan DEF Planned
  <2> QED
    BY <2>2, <2>3 DEF StripDeniedFields
<1>5. \/ plan.request.columns # {} /\ answer = plan.request.columns
      \/ /\ plan.request.columns = {}
         /\ \E s \in Seen \cup {live} : t \in DOMAIN s.tables /\ answer = Safe(s, t)
  <2>1. CASE plan.columns = {}
    <3>1. answer = Safe(live, t)
      BY <2>1 DEF StripDeniedFields, Safe
    <3>2. plan.request.columns = {}
      BY <1>1, <2>1, AcceptedPlan DEF Selected
    <3> QED
      BY <1>2, <3>1, <3>2
  <2>2. CASE plan.columns # {} /\ plan.columns = plan.request.columns
    BY <1>1, <2>2, AcceptedPlan DEF StripDeniedFields
  <2>3. CASE plan.columns # {} /\ plan.columns # plan.request.columns
    <3>1. plan.request.columns = {}
      BY <1>1, <2>3, AcceptedPlan DEF Selected
    <3>2. PICK i \in plan.first .. plan.last :
               t \in DOMAIN past[i].tables /\ plan.columns = Safe(past[i], t)
      BY <1>1, <2>3, AcceptedPlan DEF Selected
    <3>3. answer = Safe(past[i], t)
      BY <2>3, <3>2 DEF StripDeniedFields, Safe
    <3> QED
      BY <3>1, <3>2, <3>3 DEF Seen
  <2> QED
    BY <2>1, <2>2, <2>3
<1> HIDE DEF answer
<1>6. /\ plan'.phase = "answered" /\ plan'.request = plan.request
      /\ plan'.columns = plan.columns /\ plan'.answer = answer /\ plan'.on = {live}
      /\ plan'.first = plan.first /\ plan'.last = plan.last
  BY <1>1, <1>2, AcceptedPlan DEF Planned
<1>7. plan' \in Planned
  BY <1>1, <1>2, <1>3, <1>4, AcceptedPlan DEF Planned
<1>8. Seen' = Seen
  BY <1>1, <1>6 DEF Seen
<1>9. PlanOK'
  BY <1>1, <1>6, AcceptedPlan DEF PlanOK
<1>10. PlansAreJudged'
  BY <1>1, <1>6, <1>8, AcceptedPlan DEF PlansAreJudged
<1>11. AnswersFitOneVersion'
  BY <1>5, <1>6, <1>8 DEF AnswersFitOneVersion
<1> QED
  BY <1>7, <1>9, <1>10, <1>11, PlanStep DEF Execute

LEMMA EndOtherwiseOK == ASSUME IInv, EndOtherwise PROVE IInv'
<1>1. plan.phase = "accepted" /\ past' = past /\ plan' = [plan EXCEPT !.phase = "ended"]
  BY DEF EndOtherwise
<1>2. /\ plan'.phase = "ended" /\ plan'.request = plan.request
      /\ plan'.first = plan.first /\ plan'.last = plan.last
  BY <1>1, AcceptedPlan DEF Planned
<1>3. plan' \in Planned
  BY <1>1, AcceptedPlan DEF Planned
<1>4. PlanOK'
  BY <1>1, <1>2, AcceptedPlan DEF PlanOK
<1>5. Seen' = Seen
  BY <1>1, <1>2 DEF Seen
<1>6. PlansAreJudged' /\ AnswersFitOneVersion'
  BY <1>1, <1>2, <1>5, AcceptedPlan DEF PlansAreJudged, AnswersFitOneVersion
<1> QED
  BY <1>3, <1>4, <1>6, PlanStep DEF EndOtherwise

-----------------------------------------------------------------------------
(* The theorems *)

LEMMA StepOK == IInv /\ [Next]_vars => IInv'
<1> SUFFICES ASSUME IInv, [Next]_vars PROVE IInv'
  OBVIOUS
<1>1. CASE Change
  BY <1>1, ChangeOK
<1>2. CASE DiscoverTables
  BY <1>2, DiscoverTablesOK
<1>3. CASE DiscoverColumns
  BY <1>3, DiscoverColumnsOK
<1>4. CASE DiscoverForeignKeys
  BY <1>4, DiscoverForeignKeysOK
<1>5. CASE DiscoveryFails
  BY <1>5, DiscoveryFailsOK
<1>6. CASE Register
  BY <1>6, RegisterOK
<1>7. CASE \E request \in Requests : Plan(request)
  BY <1>7, PlanActionOK
<1>8. CASE SelectColumns
  BY <1>8, SelectColumnsOK
<1>9. CASE Validate
  BY <1>9, ValidateOK
<1>10. CASE Execute
  BY <1>10, ExecuteOK
<1>11. CASE EndOtherwise
  BY <1>11, EndOtherwiseOK
<1>12. CASE UNCHANGED vars
  <2>1. past' \in Seq(Schema) /\ Len(past) <= Len(past')
    BY <1>12, CurrentIsLast DEF vars, IInv, TypeOK
  <2>2. TypeOK' /\ PastOK' /\ RefreshOK'
    BY <1>12 DEF vars, IInv, TypeOK, PastOK, RefreshOK
  <2> QED
    BY <1>12, <2>1, <2>2, PlanIsKept DEF vars, IInv
<1> QED
  BY <1>1, <1>2, <1>3, <1>4, <1>5, <1>6, <1>7, <1>8, <1>9, <1>10, <1>11, <1>12 DEF Next

THEOREM Invariance == Spec => []IInv
  BY InitOK, StepOK, PTL DEF Spec

\* Whatever is registered between the two times that Plan takes the lock of the
\* registry, its outcome is right for a schema that was registered at one of them.
THEOREM PlanningIsSound == Spec => []PlansAreJudged
<1>1. IInv => PlansAreJudged
  BY DEF IInv
<1> QED
  BY <1>1, Invariance, PTL

\* The columns that executeQuery returns for a query without columns are those of one
\* version of the table, whatever changed between planning and execution.
THEOREM AnswersAreOfOneVersion == Spec => []AnswersFitOneVersion
<1>1. IInv => AnswersFitOneVersion
  BY DEF IInv
<1> QED
  BY <1>1, Invariance, PTL

\* What annotate_schema registers after reading a database that nobody changed is
\* that database.
LEMMA RegisteredIsLive ==
  ASSUME IInv, Register
  PROVE  refresh.at < changes \/ schema' = live
<1>1. refresh \in Refreshing /\ refresh.todo = {} /\ refresh.phase = "columns"
  BY DEF IInv, TypeOK, Register
<1>2. refresh.at <= changes /\ refresh.at \in Nat /\ changes \in Nat
  BY <1>1 DEF IInv, TypeOK, RefreshOK, Refreshing
<1> SUFFICES ASSUME refresh.at = changes PROVE schema' = live
  BY <1>2
<1>3. /\ DOMAIN refresh.tables = DOMAIN live.tables
      /\ \A t \in DOMAIN refresh.tables : refresh.tables[t] = live.tables[t]
      /\ refresh.keys = {k \in live.keys : k[1] \in DOMAIN live.tables}
  BY <1>1 DEF IInv, RefreshOK
<1>4. live \in Schema /\ live.keys \subseteq (DOMAIN live.tables) \X (DOMAIN live.tables)
  BY RegistryAssumption DEF IInv, TypeOK
<1>5. refresh.keys = live.keys
  BY <1>3, <1>4
<1>6. refresh.tables = live.tables
  <2>1. PICK T \in SUBSET Tables : refresh.tables \in [T -> SUBSET Columns]
    BY <1>1 DEF Refreshing, Found
  <2>2. PICK U \in SUBSET Tables : live.tables \in [U -> SUBSET Columns]
    BY <1>4 DEF Schema
  <2> QED
    BY <1>3, <2>1, <2>2
<1>7. live = [tables |-> live.tables, keys |-> live.keys]
  BY <1>4 DEF Schema
<1> QED
  BY <1>5, <1>6, <1>7 DEF Register

\* annotate_schema registers the database as it is when nobody changed it meanwhile:
\* no table is missed, and none that was dropped before is kept.
THEOREM RefreshesAreExact == Spec => RefreshIsExact
<1> DEFINE Exact == refresh.phase # "idle" /\ past' # past =>
                      refresh.at < changes \/ schema' = live
<1>1. IInv /\ [Next]_vars => [Exact]_vars
  <2> SUFFICES ASSUME IInv, Next, past' # past PROVE refresh.at < changes \/ schema' = live
    OBVIOUS
  <2>1. Register
    BY DEF Next, Change, DiscoverTables, DiscoverColumns, DiscoverForeignKeys,
           DiscoveryFails, Plan, SelectColumns, Validate, Execute, EndOtherwise
  <2> QED
    BY <2>1, RegisteredIsLive
<1> QED
  BY <1>1, Invariance, PTL DEF Spec, RefreshIsExact

-----------------------------------------------------------------------------
(* The relationship graph *)

Graph == [Tables -> Seq(Tables)]

HasLink(g, a, b) == \E i \in DOMAIN g[a] : g[a][i] = b

HasBoth(g, key) == HasLink(g, key[1], key[2]) /\ HasLink(g, key[2], key[1])

\* One relationship is added; the others stay.
LEMMA LinkAdds ==
  ASSUME NEW g \in Graph, NEW a \in Tables, NEW b \in Tables
  PROVE  /\ Linked(g, <<a, b>>) \in Graph
         /\ HasLink(Linked(g, <<a, b>>), a, b)
         /\ \A c, d \in Tables : HasLink(g, c, d) => HasLink(Linked(g, <<a, b>>), c, d)
<1> DEFINE s == g[a]
           r == Append(s, b)
<1>1. s \in Seq(Tables)
  BY DEF Graph
<1>2. r \in Seq(Tables) /\ Len(r) = Len(s) + 1 /\ r[Len(s) + 1] = b
  /\ \A i \in 1 .. Len(s) : r[i] = s[i]
  <2> HIDE DEF s
  <2> QED
    BY <1>1, AppendProperties
<1>3. DOMAIN s = 1 .. Len(s) /\ Len(s) \in Nat /\ DOMAIN r = 1 .. Len(s) + 1
  <2> HIDE DEF s, r
  <2> QED
    BY <1>1, <1>2, LenProperties
<1>4. Linked(g, <<a, b>>) = [g EXCEPT ![a] = r]
  BY DEF Linked
<1> DEFINE h == Linked(g, <<a, b>>)
<1>5. h \in Graph /\ h[a] = r /\ \A c \in Tables \ {a} : h[c] = g[c]
  <2> HIDE DEF r
  <2> QED
    BY <1>2, <1>4 DEF Graph
<1> HIDE DEF h, r
<1>6. HasLink(h, a, b)
  <2>1. Len(s) + 1 \in DOMAIN h[a] /\ h[a][Len(s) + 1] = b
    <3> HIDE DEF s
    <3> QED
      BY <1>2, <1>3, <1>5
  <2> QED
    BY <2>1 DEF HasLink
<1>7. ASSUME NEW c \in Tables, NEW d \in Tables, HasLink(g, c, d) PROVE HasLink(h, c, d)
  <2>1. CASE c = a
    <3>1. PICK i \in DOMAIN s : s[i] = d
      BY <1>7, <2>1 DEF HasLink
    <3>2. i \in DOMAIN r /\ r[i] = d
      <4> HIDE DEF s
      <4> QED
        BY <1>2, <1>3, <3>1
    <3> QED
      BY <1>5, <2>1, <3>2 DEF HasLink
  <2>2. CASE c # a
    BY <1>5, <1>7, <2>2 DEF HasLink
  <2> QED
    BY <2>1, <2>2
<1> QED
  BY <1>5, <1>6, <1>7 DEF h

\* A foreign key is added in both directions.
BothLinked(g, key) == Linked(Linked(g, key), <<key[2], key[1]>>)

LEMMA KeyAdds ==
  ASSUME NEW g \in Graph, NEW key \in Tables \X Tables
  PROVE  /\ BothLinked(g, key) \in Graph
         /\ HasBoth(BothLinked(g, key), key)
         /\ \A k \in Tables \X Tables : HasBoth(g, k) => HasBoth(BothLinked(g, key), k)
<1>1. PICK a \in Tables, b \in Tables : key = <<a, b>>
  OBVIOUS
<1>2. key[1] = a /\ key[2] = b
  BY <1>1
<1> DEFINE f == Linked(g, <<a, b>>)
           h == Linked(f, <<b, a>>)
<1>3. /\ f \in Graph /\ HasLink(f, a, b)
      /\ \A c, d \in Tables : HasLink(g, c, d) => HasLink(f, c, d)
  BY LinkAdds
<1>4. BothLinked(g, key) = h
  BY <1>1, <1>2 DEF BothLinked
<1> HIDE DEF f
<1>5. /\ h \in Graph /\ HasLink(h, b, a)
      /\ \A c, d \in Tables : HasLink(f, c, d) => HasLink(h, c, d)
  BY <1>3, LinkAdds
<1> HIDE DEF h
<1>6. \A k \in Tables \X Tables : k[1] \in Tables /\ k[2] \in Tables
  OBVIOUS
<1> QED
  BY <1>2, <1>3, <1>4, <1>5, <1>6 DEF HasBoth

\* All foreign keys of a list are added, whatever the graph had before.
LEMMA AllKeysAdd ==
  ASSUME NEW n \in Nat, NEW keys \in [1 .. n -> Tables \X Tables], NEW g \in Graph
  PROVE  /\ AddSchema(keys, g) \in Graph
         /\ \A i \in 1 .. n : HasBoth(AddSchema(keys, g), keys[i])
<1> DEFINE S == 1 .. n
           ch == [U \in SUBSET S |-> Max(U)]
           step == [p \in S \X Graph |-> BothLinked(p[2], keys[p[1]])]
<1>0. DOMAIN keys = S
  OBVIOUS
<1>1. IsFiniteSet(S)
  BY FS_Interval
<1>2. \A U \in SUBSET S : U # {} => ch[U] \in U
  BY LastPlace
<1>3. step \in [S \X Graph -> Graph]
  <2> SUFFICES ASSUME NEW p \in S \X Graph PROVE BothLinked(p[2], keys[p[1]]) \in Graph
    OBVIOUS
  <2>1. p[2] \in Graph /\ keys[p[1]] \in Tables \X Tables
    OBVIOUS
  <2> QED
    BY <2>1, KeyAdds
<1>4. PICK f \in [SUBSET S -> Graph] : IsFold(f, S, g, ch, step)
  <2> HIDE DEF S, ch, step
  <2> QED
    BY <1>1, <1>2, <1>3, FoldExists
<1>5. \A U \in SUBSET S :
        f[U] = IF U = {} THEN g
               ELSE BothLinked(f[U \ {Max(U)}], keys[Max(U)])
  <2> TAKE U \in SUBSET S
  <2>1. f[U] = IF U = {} THEN g ELSE step[<<ch[U], f[U \ {ch[U]}]>>]
    <3> HIDE DEF S, ch, step
    <3> QED
      BY <1>4 DEF IsFold
  <2>2. CASE U = {}
    BY <2>1, <2>2
  <2>3. CASE U # {}
    <3>1. ch[U] \in S /\ U \ {ch[U]} \in SUBSET S /\ ch[U] = Max(U)
      BY <1>2, <2>3
    <3>2. <<ch[U], f[U \ {ch[U]}]>> \in S \X Graph
      <4> HIDE DEF S, ch, step
      <4> QED
        BY <3>1
    <3>3. f[U] = BothLinked(f[U \ {ch[U]}], keys[ch[U]])
      <4> HIDE DEF S, ch
      <4> QED
        BY <2>1, <2>3, <3>2
    <3> HIDE DEF ch
    <3> QED
      BY <2>3, <3>1, <3>3
  <2> QED
    BY <2>2, <2>3
<1> DEFINE h == CHOOSE iter : iter = [s \in SUBSET (DOMAIN keys) |->
                    IF s = {} THEN g
                    ELSE BothLinked(iter[s \ {Max(s)}], keys[Max(s)])]
<1>6. h = [s \in SUBSET S |->
             IF s = {} THEN g
             ELSE BothLinked(h[s \ {Max(s)}], keys[Max(s)])]
  <2>1. f = [s \in SUBSET (DOMAIN keys) |->
               IF s = {} THEN g
               ELSE BothLinked(f[s \ {Max(s)}], keys[Max(s)])]
    BY <1>0, <1>5
  <2> QED
    BY <1>0, <2>1
<1>7. AddSchema(keys, g) = h[S]
  <2>1. AddSchema(keys, g) = h[DOMAIN keys]
    BY DEF AddSchema, BothLinked, FoldLeft, MapThenFoldSet
  <2> HIDE DEF h, S
  <2> QED
    BY <1>0, <2>1
<1> HIDE DEF h
<1> DEFINE P == {U \in SUBSET S : h[U] \in Graph /\ \A i \in U : HasBoth(h[U], keys[i])}
<1>8. {} \in P
  BY <1>6
<1>9. ASSUME NEW U \in SUBSET S, NEW m \in U, m = Max(U), U \ {m} \in P PROVE U \in P
  <2> DEFINE W == U \ {m}
  <2>2. h[W] \in Graph /\ \A i \in W : HasBoth(h[W], keys[i])
    BY <1>9
  <2>3. h[U] = BothLinked(h[W], keys[m])
    BY <1>6, <1>9
  <2>4. keys[m] \in Tables \X Tables
    OBVIOUS
  <2>5. /\ h[U] \in Graph /\ HasBoth(h[U], keys[m])
        /\ \A k \in Tables \X Tables : HasBoth(h[W], k) => HasBoth(h[U], k)
    <3> DEFINE before == h[W]
               after == h[U]
               key == keys[m]
    <3>1. before \in Graph /\ key \in Tables \X Tables
          /\ after = BothLinked(before, key)
      BY <2>2, <2>3, <2>4
    <3> HIDE DEF before, after, key
    <3>2. /\ after \in Graph /\ HasBoth(after, key)
          /\ \A k \in Tables \X Tables : HasBoth(before, k) => HasBoth(after, k)
      BY <3>1, KeyAdds
    <3> QED
      BY <3>2 DEF before, after, key
  <2>6. \A i \in U : HasBoth(h[U], keys[i])
    <3> TAKE i \in U
    <3>1. CASE i = m
      BY <2>5, <3>1
    <3>2. CASE i # m
      <4>1. i \in W /\ keys[i] \in Tables \X Tables
        BY <3>2
      <4> HIDE DEF W
      <4> QED
        BY <2>2, <2>5, <4>1
    <3> QED
      BY <3>1, <3>2
  <2> QED
    BY <2>5, <2>6
<1>10. S \in P
  <2>1. \A U \in SUBSET S : U # {} => Max(U) \in U
    BY LastPlace
  <2> HIDE DEF S, P
  <2> QED
    BY <1>1, <1>8, <1>9, <2>1, PlaceInduction
<1> QED
  BY <1>7, <1>10

\* What registration leaves in the graph: the foreign keys of the listing, both ways.
LEMMA AddedKeysAreLinked ==
  ASSUME NEW K \in SUBSET (Tables \X Tables),
         NEW keys \in [1 .. Cardinality(K) -> K], IsInjective(keys), NEW g \in Graph
  PROVE  AddSchema(keys, g) \in Graph /\ \A key \in K : HasBoth(AddSchema(keys, g), key)
<1>1. IsFiniteSet(K)
  <2>1. IsFiniteSet(Tables \X Tables)
    BY RegistryAssumption, FS_Product
  <2> QED
    BY <2>1, FS_Subset
<1>2. PICK n \in Nat : n = Cardinality(K)
  BY <1>1, FS_CardinalityType
<1>3. keys \in [1 .. n -> Tables \X Tables] /\ DOMAIN keys = 1 .. n
  BY <1>2
<1>4. ToSet(keys) = K
  BY <1>1, ListingIsAll
<1>5. \A key \in K : \E i \in 1 .. n : keys[i] = key
  BY <1>3, <1>4 DEF ToSet
<1>6. /\ AddSchema(keys, g) \in Graph
      /\ \A i \in 1 .. n : HasBoth(AddSchema(keys, g), keys[i])
  BY <1>3, AllKeysAdd
<1> QED
  BY <1>5, <1>6

\* The graph has every relationship of the registered schema.
GraphOK == edges \in Graph /\ \A key \in schema.keys : HasBoth(edges, key)

LEMMA GraphInit == Init => GraphOK
<1> SUFFICES ASSUME Init PROVE GraphOK
  OBVIOUS
<1>1. live \in Shapes /\ schema = live
  BY DEF Init
<1>2. live.keys \in SUBSET (Tables \X Tables)
  BY <1>1, RegistryAssumption DEF Schema
<1>3. IsFiniteSet(live.keys)
  <2>1. IsFiniteSet(Tables \X Tables)
    BY RegistryAssumption, FS_Product
  <2> QED
    BY <1>2, <2>1, FS_Subset
<1> DEFINE g == [t \in Tables |-> <<>>]
           keys == SetToSeq(live.keys)
<1>4. g \in Graph
  BY DEF Graph
<1>5. keys \in [1 .. Cardinality(live.keys) -> live.keys] /\ IsInjective(keys)
  BY <1>3, ListingExists
<1>6. edges = AddSchema(keys, g)
  BY DEF Init
<1> HIDE DEF g, keys
<1>7. edges \in Graph /\ \A key \in live.keys : HasBoth(edges, key)
  BY <1>2, <1>4, <1>5, <1>6, AddedKeysAreLinked
<1> QED
  BY <1>1, <1>7 DEF GraphOK

LEMMA GraphStep == IInv /\ GraphOK /\ [Next]_vars => GraphOK'
<1> SUFFICES ASSUME IInv, GraphOK, [Next]_vars PROVE GraphOK'
  OBVIOUS
<1>1. CASE Register
  <2>1. refresh \in Refreshing
    BY <1>1 DEF IInv, TypeOK, Register
  <2>2. refresh.keys \in SUBSET (Tables \X Tables) /\ schema'.keys = refresh.keys
    BY <1>1, <2>1 DEF Register, Refreshing
  <2>3. PICK keys \in SetToSeqs(refresh.keys) : edges' = AddSchema(keys, edges)
    BY <1>1 DEF Register
  <2>4. keys \in [1 .. Cardinality(refresh.keys) -> refresh.keys] /\ IsInjective(keys)
    BY <2>3 DEF SetToSeqs, IsInjective
  <2>5. edges \in Graph
    BY DEF GraphOK
  <2>6. edges' \in Graph /\ \A key \in refresh.keys : HasBoth(edges', key)
    BY <2>2, <2>3, <2>4, <2>5, AddedKeysAreLinked
  <2> QED
    BY <2>2, <2>6 DEF GraphOK
<1>2. CASE UNCHANGED <<edges, schema>>
  BY <1>2 DEF GraphOK
<1>3. ~Register => UNCHANGED <<edges, schema>>
  BY DEF Next, vars, Change, DiscoverTables, DiscoverColumns, DiscoverForeignKeys,
         DiscoveryFails, Plan, SelectColumns, Validate, Execute, EndOtherwise
<1> QED
  BY <1>1, <1>2, <1>3

\* Whatever schemas were registered before, and in whatever order the foreign keys of the
\* current one were added, each of them can be followed in both directions.
THEOREM KeysCanBeFollowed == Spec => []KeysAreLinked
<1>1. GraphOK => KeysAreLinked
  BY DEF GraphOK, KeysAreLinked, HasBoth, HasLink
<1> QED
  BY <1>1, GraphInit, GraphStep, Invariance, PTL DEF Spec

-----------------------------------------------------------------------------
(* The tables within some relationships *)

\* The tables that a table is related to.
Targets(t) == {edges[t][i] : i \in DOMAIN edges[t]}

\* Relationships lead to tables.
LEMMA TargetsAreTables == ASSUME edges \in Graph, NEW t \in Tables PROVE Targets(t) \subseteq Tables
<1>1. edges[t] \in Seq(Tables)
  BY DEF Graph
<1> QED
  BY <1>1, ElementOfSeq, LenProperties DEF Targets

\* What the recursive function of PathsAreShortest computes.
LEMMA WithinValue ==
  ASSUME edges \in Graph, NEW from \in Tables
  PROVE  /\ Within(from)[0] = {from}
         /\ \A n \in Nat : Within(from)[n + 1]
                             = Within(from)[n] \cup UNION {Targets(t) : t \in Within(from)[n]}
         /\ \A n \in Nat : Within(from)[n] \subseteq Tables
<1> DEFINE h == [U \in SUBSET Tables |-> U \cup UNION {Targets(t) : t \in U}]
           W == CHOOSE W : W = [n \in Nat |->
                  IF n = 0 THEN {from}
                  ELSE W[n - 1] \cup UNION {{edges[t][i] : i \in DOMAIN edges[t]} : t \in W[n - 1]}]
<1>1. h \in [SUBSET Tables -> SUBSET Tables]
  BY TargetsAreTables
<1>2. PICK f \in [Nat -> SUBSET Tables] : f = [n \in Nat |-> IF n = 0 THEN {from} ELSE h[f[n - 1]]]
  <2> DEFINE S == SUBSET Tables
             c == {from}
  <2>1. c \in S /\ h \in [S -> S]
    BY <1>1
  <2> HIDE DEF h, S, c
  <2>2. \E f \in [Nat -> S] : f = [n \in Nat |-> IF n = 0 THEN c ELSE h[f[n - 1]]]
    BY <2>1, IteratesExist
  <2> QED
    BY <2>2 DEF S, c
<1>3. f = [n \in Nat |->
             IF n = 0 THEN {from}
             ELSE f[n - 1] \cup UNION {{edges[t][i] : i \in DOMAIN edges[t]} : t \in f[n - 1]}]
  <2>1. ASSUME NEW n \in Nat, n # 0
        PROVE  f[n] = f[n - 1] \cup UNION {{edges[t][i] : i \in DOMAIN edges[t]} : t \in f[n - 1]}
    <3>1. n - 1 \in Nat
      BY <2>1
    <3>2. f[n - 1] \in SUBSET Tables
      BY <1>2, <3>1
    <3>3. f[n] = h[f[n - 1]]
      <4> HIDE DEF h
      <4> QED
        BY <1>2, <2>1
    <3> QED
      BY <3>2, <3>3 DEF Targets
  <2>2. f[0] = {from}
    BY <1>2
  <2> QED
    BY <1>2, <2>1, <2>2
<1>4. W = [n \in Nat |->
             IF n = 0 THEN {from}
             ELSE W[n - 1] \cup UNION {{edges[t][i] : i \in DOMAIN edges[t]} : t \in W[n - 1]}]
  BY <1>3
<1>5. Within(from) = W
  BY DEF Within
<1> HIDE DEF W
<1>6. W[0] = {from}
  BY <1>4
<1>7. ASSUME NEW n \in Nat PROVE W[n + 1] = W[n] \cup UNION {Targets(t) : t \in W[n]}
  <2>1. n + 1 \in Nat /\ n + 1 # 0 /\ (n + 1) - 1 = n
    OBVIOUS
  <2> QED
    BY <1>4, <2>1 DEF Targets
<1>8. ASSUME NEW n \in Nat PROVE W[n] \subseteq Tables
  <2> DEFINE P == {k \in 0 .. n : W[k] \subseteq Tables}
  <2>1. 0 \in P
    BY <1>6
  <2>2. \A k \in 0 .. n - 1 : k \in P => k + 1 \in P
    BY <1>7, TargetsAreTables
  <2> HIDE DEF P
  <2>3. n \in P
    BY <2>1, <2>2, CountUp
  <2> QED
    BY <2>3 DEF P
<1> QED
  BY <1>5, <1>6, <1>7, <1>8

-----------------------------------------------------------------------------
(* The search *)

\* A search of FindPath, and the two steps that it can take.
Searches == [queue : Seq(Node), visited : SUBSET Tables]

Dropped(s) == [queue |-> Tail(s.queue), visited |-> s.visited]

Expanded(s) == [queue   |-> Tail(s.queue) \o Onward(Head(s.queue)),
                visited |-> s.visited \cup {Head(s.queue).table}]

\* The tables that a search has not visited.
Unvisited(s) == Cardinality(Tables \ s.visited)

\* FindPath queues nodes.
LEMMA OnwardNodes ==
  ASSUME edges \in Graph, NEW curr \in Node
  PROVE  Onward(curr) \in Seq(Node)
<1>1. curr.table \in Tables /\ curr.path \in Seq(Tables \X Tables)
  BY DEF Node
<1>2. edges[curr.table] \in Seq(Tables)
  BY <1>1 DEF Graph
<1> DEFINE s == edges[curr.table]
<1>3. Len(s) \in Nat /\ DOMAIN s = 1 .. Len(s) /\ \A i \in 1 .. Len(s) : s[i] \in Tables
  BY <1>2, LenProperties, ElementOfSeq
<1>4. ASSUME NEW i \in 1 .. Len(s)
      PROVE  [table |-> s[i], path |-> Append(curr.path, <<curr.table, s[i]>>)] \in Node
  <2>1. <<curr.table, s[i]>> \in Tables \X Tables
    BY <1>1, <1>3
  <2>2. Append(curr.path, <<curr.table, s[i]>>) \in Seq(Tables \X Tables)
    BY <1>1, <2>1, AppendProperties
  <2> QED
    BY <1>3, <2>2 DEF Node
<1>5. Onward(curr) = [i \in 1 .. Len(s) |->
                        [table |-> s[i], path |-> Append(curr.path, <<curr.table, s[i]>>)]]
  BY <1>3 DEF Onward
<1> HIDE DEF s
<1>6. Onward(curr) \in [1 .. Len(s) -> Node]
  BY <1>4, <1>5
<1> QED
  BY <1>3, <1>6

\* What a step of FindPath makes of a search.
LEMMA SearchFacts ==
  ASSUME edges \in Graph, NEW s \in Searches
  PROVE  /\ Unvisited(s) \in Nat
         /\ s.queue # <<>> =>
              /\ Head(s.queue) \in Node /\ Head(s.queue) = s.queue[1]
              /\ Len(s.queue) \in Nat \ {0}
              /\ Tail(s.queue) \in Seq(Node) /\ Len(Tail(s.queue)) = Len(s.queue) - 1
              /\ \A i \in 1 .. Len(s.queue) - 1 : Tail(s.queue)[i] = s.queue[i + 1]
              /\ Dropped(s) \in Searches /\ Dropped(s).visited = s.visited
              /\ Dropped(s).queue = Tail(s.queue) /\ Unvisited(Dropped(s)) = Unvisited(s)
              /\ Expanded(s) \in Searches
              /\ Head(s.queue).table \notin s.visited =>
                   Unvisited(Expanded(s)) = Unvisited(s) - 1
<1>1. s.queue \in Seq(Node) /\ s.visited \subseteq Tables
  BY DEF Searches
<1>2. IsFiniteSet(Tables \ s.visited)
  BY RegistryAssumption, FS_Subset
<1>3. Unvisited(s) \in Nat
  BY <1>2, FS_CardinalityType DEF Unvisited
<1>4. ASSUME s.queue # <<>>
      PROVE  /\ Head(s.queue) \in Node /\ Head(s.queue) = s.queue[1]
             /\ Len(s.queue) \in Nat \ {0}
             /\ Tail(s.queue) \in Seq(Node) /\ Len(Tail(s.queue)) = Len(s.queue) - 1
             /\ \A i \in 1 .. Len(s.queue) - 1 : Tail(s.queue)[i] = s.queue[i + 1]
  <2> DEFINE q == s.queue
  <2>1. q \in Seq(Node) /\ q # <<>>
    BY <1>1, <1>4
  <2> HIDE DEF q
  <2> QED
    BY <2>1, HeadTailProperties, EmptySeq, LenProperties DEF q
<1>5. ASSUME s.queue # <<>>
      PROVE  /\ Dropped(s) \in Searches /\ Dropped(s).visited = s.visited
             /\ Dropped(s).queue = Tail(s.queue) /\ Unvisited(Dropped(s)) = Unvisited(s)
  BY <1>1, <1>4, <1>5 DEF Dropped, Searches, Unvisited
<1>6. ASSUME s.queue # <<>> PROVE Expanded(s) \in Searches
  <2>1. Onward(Head(s.queue)) \in Seq(Node) /\ Tail(s.queue) \in Seq(Node)
    BY <1>4, <1>6, OnwardNodes
  <2>2. Tail(s.queue) \o Onward(Head(s.queue)) \in Seq(Node)
    BY <2>1, ConcatProperties
  <2>3. s.visited \cup {Head(s.queue).table} \in SUBSET Tables
    BY <1>1, <1>4, <1>6 DEF Node
  <2> QED
    BY <2>2, <2>3 DEF Expanded, Searches
<1>7. ASSUME s.queue # <<>>, Head(s.queue).table \notin s.visited
      PROVE  Unvisited(Expanded(s)) = Unvisited(s) - 1
  <2> DEFINE t == Head(s.queue).table
  <2>1. t \in Tables \ s.visited
    BY <1>4, <1>7 DEF Node
  <2>2. Tables \ Expanded(s).visited = (Tables \ s.visited) \ {t}
    BY DEF Expanded
  <2>3. Cardinality((Tables \ s.visited) \ {t}) = Cardinality(Tables \ s.visited) - 1
    BY <1>2, <2>1, FS_RemoveElement
  <2> QED
    BY <2>2, <2>3 DEF Unvisited
<1> QED
  BY <1>3, <1>4, <1>5, <1>6, <1>7

\* Where a search ends, and the next search otherwise.
Done(to) == {s \in Searches : s.queue # <<>> =>
                                Head(s.queue).table \notin s.visited /\ Head(s.queue).table = to}

Onwards(s) == IF Head(s.queue).table \in s.visited THEN Dropped(s) ELSE Expanded(s)

\* Each step visits a table or shortens the queue: what holds of a search when it holds of
\* the next one holds of all of them.
LEMMA SearchInduction ==
  ASSUME edges \in Graph, NEW to, NEW P \in SUBSET Searches,
         \A s \in Searches : s \in Done(to) \/ Onwards(s) \in P => s \in P
  PROVE  P = Searches
<1> DEFINE A == {k \in Nat : \A s \in Searches : Unvisited(s) < k => s \in P}
<1>1. 0 \in A
  BY SearchFacts
<1>2. ASSUME NEW k \in Nat, k \in A PROVE k + 1 \in A
  <2> DEFINE B == {m \in Nat : \A s \in Searches :
                     Unvisited(s) < k + 1 /\ Len(s.queue) < m => s \in P}
  <2>0. \A s \in Searches : Len(s.queue) \in Nat
    BY LenProperties DEF Searches
  <2>1. 0 \in B
    BY <2>0
  <2>2. ASSUME NEW m \in Nat, m \in B PROVE m + 1 \in B
    <3> SUFFICES ASSUME NEW s \in Searches, Unvisited(s) < k + 1, Len(s.queue) < m + 1
                 PROVE  s \in P
      OBVIOUS
    <3>1. CASE s \in Done(to)
      BY <3>1
    <3>2. CASE s \notin Done(to)
      <4>1. s.queue # <<>>
        BY <3>2 DEF Done
      <4> DEFINE d == Dropped(s)
                 e == Expanded(s)
      <4>2. /\ d \in Searches /\ Unvisited(d) = Unvisited(s) /\ Len(d.queue) = Len(s.queue) - 1
            /\ Len(s.queue) \in Nat \ {0} /\ Unvisited(s) \in Nat
        BY <4>1, SearchFacts
      <4>3. e \in Searches /\ (Head(s.queue).table \notin s.visited =>
                                 Unvisited(e) = Unvisited(s) - 1)
        BY <4>1, SearchFacts
      <4>4. d \in P
        BY <2>2, <4>2
      <4>5. Head(s.queue).table \notin s.visited => e \in P
        BY <1>2, <4>2, <4>3
      <4>6. Onwards(s) \in P
        BY <4>4, <4>5 DEF Onwards
      <4> QED
        BY <4>6
    <3> QED
      BY <3>1, <3>2
  <2> HIDE DEF B
  <2>3. \A m \in Nat : m \in B
    BY <2>1, <2>2, CountUp
  <2> SUFFICES ASSUME NEW s \in Searches, Unvisited(s) < k + 1 PROVE s \in P
    OBVIOUS
  <2>4. Len(s.queue) + 1 \in B /\ Len(s.queue) < Len(s.queue) + 1
    BY <2>0, <2>3
  <2> QED
    BY <2>4 DEF B
<1> HIDE DEF A
<1>3. \A k \in Nat : k \in A
  BY <1>1, <1>2, CountUp
<1>4. ASSUME NEW s \in Searches PROVE s \in P
  <2>1. Unvisited(s) + 1 \in A /\ Unvisited(s) < Unvisited(s) + 1
    BY <1>3, SearchFacts
  <2> QED
    BY <2>1 DEF A
<1> QED
  BY <1>4

\* FindPath follows a search from the first node on.
LEMMA FindPathFollows ==
  ASSUME edges \in Graph, NEW from \in Tables, NEW to \in Tables
  PROVE  \E V : /\ FindPath(from, to)
                     = V[[queue |-> <<[table |-> from, path |-> <<>>]>>, visited |-> {}]]
                /\ \A s \in Searches \ Done(to) : V[s] = V[Onwards(s)]
                /\ \A s \in Done(to) :
                     V[s] = IF s.queue = <<>> THEN <<>> ELSE Head(s.queue).path
<1> DEFINE S == Searches
           done == Done(to)
           next == [s \in S |-> Onwards(s)]
           found == [s \in S |-> IF s.queue = <<>> THEN <<>> ELSE Head(s.queue).path]
<1>1. done \in SUBSET S
  BY DEF Done
<1>2. \A s \in S \ done : next[s] \in S
  BY SearchFacts DEF Done, Onwards
<1>3. ComesToAnEnd(S, done, next)
  BY SearchInduction DEF ComesToAnEnd
<1>4. PICK V : IsFollowed(V, S, done, next, found)
  <2> HIDE DEF S, done, next, found
  <2> QED
    BY <1>1, <1>2, <1>3, FollowExists
<1> DEFINE F(v, s) == IF s.queue = <<>> THEN <<>>
                      ELSE LET curr == Head(s.queue)
                               rest == Tail(s.queue)
                           IN  IF curr.table \in s.visited
                               THEN v[[queue |-> rest, visited |-> s.visited]]
                               ELSE IF curr.table = to THEN curr.path
                               ELSE v[[queue   |-> rest \o Onward(curr),
                                       visited |-> s.visited \cup {curr.table}]]
           W == CHOOSE v : v = [s \in [queue : Seq(Node), visited : SUBSET Tables] |-> F(v, s)]
<1>5. ASSUME NEW v, NEW s \in Searches
      PROVE  F(v, s) = IF s \in done THEN found[s] ELSE v[next[s]]
  BY DEF Dropped, Done, Onwards, Expanded
<1> HIDE DEF F
<1>6. V = [s \in Searches |-> F(V, s)]
  <2> HIDE DEF done, found, next
  <2> QED
    BY <1>4, <1>5 DEF IsFollowed
<1>7. W = [s \in Searches |-> F(W, s)]
  BY <1>6 DEF Searches
<1>8. FindPath(from, to) = W[[queue |-> <<[table |-> from, path |-> <<>>]>>, visited |-> {}]]
  BY DEF FindPath, F
<1> HIDE DEF W
<1>9. \A s \in Searches : W[s] = IF s \in done THEN found[s] ELSE W[next[s]]
  <2> HIDE DEF done, found, next
  <2> QED
    BY <1>5, <1>7
<1>10. \A s \in Searches \ Done(to) : W[s] = W[Onwards(s)]
  BY <1>9
<1>11. \A s \in Done(to) : W[s] = IF s.queue = <<>> THEN <<>> ELSE Head(s.queue).path
  BY <1>1, <1>9
<1> QED
  BY <1>8, <1>10, <1>11

-----------------------------------------------------------------------------
(* What a search has seen *)

\* The path of a node is a chain of relationships from a table to the node's.
Chained(from, node) ==
    LET path == node.path IN
    /\ path = <<>> => node.table = from
    /\ path # <<>> => path[1][1] = from /\ path[Len(path)][2] = node.table
    /\ \A i \in 2 .. Len(path) : path[i][1] = path[i - 1][2]
    /\ \A i \in 1 .. Len(path) : path[i][2] \in Targets(path[i][1])

\* A search at distance d: the queue has nodes d, then d + 1 relationships away, every table
\* within d is visited or queued, and so is every table next to a visited one.
Explored(s, d, from, to) ==
    /\ \A i \in 1 .. Len(s.queue) : /\ Chained(from, s.queue[i])
                                    /\ Len(s.queue[i].path) \in {d, d + 1}
    /\ \A i, j \in 1 .. Len(s.queue) :
         i < j => Len(s.queue[i].path) <= Len(s.queue[j].path)
    /\ to \notin s.visited
    /\ \A t \in Within(from)[d] \ s.visited :
         \E i \in 1 .. Len(s.queue) : s.queue[i].table = t /\ Len(s.queue[i].path) = d
    /\ \A t \in s.visited : \A u \in Targets(t) \ s.visited :
         \E i \in 1 .. Len(s.queue) : s.queue[i].table = u
    /\ d > 0 => Within(from)[d - 1] \subseteq s.visited
    /\ from \in Within(from)[d]

\* The nodes that a node leads to are those next to it, one relationship further away.
LEMMA OnwardIsChained ==
  ASSUME edges \in Graph, NEW from, NEW node \in Node, Chained(from, node)
  PROVE  /\ \A i \in 1 .. Len(Onward(node)) :
              /\ Chained(from, Onward(node)[i])
              /\ Len(Onward(node)[i].path) = Len(node.path) + 1
         /\ \A u \in Targets(node.table) :
              \E i \in 1 .. Len(Onward(node)) : Onward(node)[i].table = u
<1> DEFINE t == node.table
           path == node.path
<1>1. t \in Tables /\ path \in Seq(Tables \X Tables)
  BY DEF Node
<1>2. edges[t] \in Seq(Tables)
  BY <1>1 DEF Graph
<1>3. DOMAIN edges[t] = 1 .. Len(edges[t]) /\ Len(edges[t]) \in Nat
  BY <1>2, LenProperties
<1>4. Len(Onward(node)) = Len(edges[t])
  BY <1>3 DEF Onward
<1>5. ASSUME NEW i \in 1 .. Len(edges[t])
      PROVE  Onward(node)[i] = [table |-> edges[t][i], path |-> Append(path, <<t, edges[t][i]>>)]
  BY <1>3 DEF Onward
<1>6. ASSUME NEW i \in 1 .. Len(edges[t])
      PROVE  Chained(from, Onward(node)[i]) /\ Len(Onward(node)[i].path) = Len(path) + 1
  <2> DEFINE u == edges[t][i]
             p == Append(path, <<t, u>>)
             n == Len(path)
  <2>1. u \in Targets(t) /\ <<t, u>> \in Tables \X Tables
    BY <1>1, <1>3, TargetsAreTables DEF Targets
  <2> HIDE DEF u
  <2>2. /\ Len(p) = n + 1 /\ p[n + 1] = <<t, u>> /\ p # <<>> /\ n \in Nat
        /\ \A j \in 1 .. n : p[j] = path[j]
    <3> DEFINE K == Tables \X Tables
               x == <<t, u>>
               r == Append(path, x)
    <3>1. path \in Seq(K) /\ x \in K
      BY <1>1, <2>1
    <3> HIDE DEF K, x, path
    <3>2. /\ Len(r) = n + 1 /\ r[n + 1] = x /\ n \in Nat /\ r # <<>>
          /\ \A j \in 1 .. n : r[j] = path[j]
      BY <3>1, AppendProperties, LenProperties
    <3> QED
      BY <3>2 DEF x
  <2>3. path = <<>> <=> n = 0
    BY <1>1, EmptySeq
  <2> HIDE DEF p
  <2>4. p[1][1] = from
    <3>1. CASE n = 0
      BY <2>2, <2>3, <3>1 DEF Chained
    <3>2. CASE n # 0
      <4>1. 1 \in 1 .. n
        BY <2>2, <3>2
      <4> QED
        BY <2>2, <2>3, <3>2, <4>1 DEF Chained
    <3> QED
      BY <3>1, <3>2
  <2>5. \A j \in 2 .. n + 1 : p[j][1] = p[j - 1][2]
    <3> SUFFICES ASSUME NEW j \in 2 .. n + 1 PROVE p[j][1] = p[j - 1][2]
      OBVIOUS
    <3>1. j - 1 \in 1 .. n
      BY <2>2
    <3>2. CASE j = n + 1
      <4>1. n # 0 /\ j - 1 = n
        BY <2>2, <3>2
      <4> QED
        BY <2>2, <2>3, <3>1, <3>2, <4>1 DEF Chained
    <3>3. CASE j # n + 1
      <4>1. j \in 1 .. n /\ j \in 2 .. n
        BY <2>2, <3>3
      <4> QED
        BY <2>2, <3>1, <4>1 DEF Chained
    <3> QED
      BY <3>2, <3>3
  <2>6. \A j \in 1 .. n + 1 : p[j][2] \in Targets(p[j][1])
    <3> SUFFICES ASSUME NEW j \in 1 .. n + 1 PROVE p[j][2] \in Targets(p[j][1])
      OBVIOUS
    <3>1. CASE j = n + 1
      BY <2>1, <2>2, <3>1
    <3>2. CASE j \in 1 .. n
      BY <2>2, <3>2 DEF Chained
    <3> QED
      BY <2>2, <3>1, <3>2
  <2> DEFINE m == [table |-> u, path |-> p]
  <2>7. m.table = u /\ m.path = p
    OBVIOUS
  <2>8. Onward(node)[i] = m
    BY <1>5 DEF p, u
  <2> HIDE DEF m
  <2>9. Chained(from, m)
    BY <2>2, <2>4, <2>5, <2>6, <2>7 DEF Chained
  <2> QED
    BY <2>2, <2>7, <2>8, <2>9
<1>7. ASSUME NEW u \in Targets(t)
      PROVE  \E i \in 1 .. Len(edges[t]) : Onward(node)[i].table = u
  <2>1. PICK i \in 1 .. Len(edges[t]) : u = edges[t][i]
    BY <1>3, <1>7 DEF Targets
  <2> DEFINE p == Append(path, <<t, edges[t][i]>>)
  <2>2. Onward(node)[i] = [table |-> u, path |-> p]
    BY <1>5, <2>1
  <2> HIDE DEF p
  <2> QED
    BY <2>2
<1> QED
  BY <1>4, <1>6, <1>7

\* When nothing at distance d is left in the queue, the search is at distance d + 1.
LEMMA ExploredFurther ==
  ASSUME edges \in Graph, NEW from \in Tables, NEW to, NEW s \in Searches, NEW d \in Nat,
         Explored(s, d, from, to), s.queue # <<>>, Len(Head(s.queue).path) # d
  PROVE  Explored(s, d + 1, from, to)
<1> DEFINE W == Within(from)
           q == s.queue
           n == Len(q)
<1>0. n \in Nat \ {0} /\ Head(q) = q[1] /\ \A i \in 1 .. n : Len(q[i].path) \in Nat
  <2>1. q \in Seq(Node) /\ \A p \in Seq(Tables \X Tables) : Len(p) \in Nat
    BY LenProperties DEF Searches
  <2>2. \A i \in 1 .. Len(q) : q[i] \in Node
    BY <2>1, ElementOfSeq
  <2> QED
    BY <2>1, <2>2, SearchFacts DEF Node
<1> HIDE DEF n, W
<1>1. ASSUME NEW i \in 1 .. n PROVE Len(q[i].path) = d + 1
  <2>1. Len(q[1].path) <= Len(q[i].path)
    BY <1>0 DEF Explored, n
  <2>2. Len(q[1].path) = d + 1 /\ Len(q[i].path) \in {d, d + 1}
    BY <1>0 DEF Explored, n
  <2> QED
    BY <2>1, <2>2
<1>2. W[d] \subseteq s.visited
  <2> SUFFICES ASSUME NEW t \in W[d] \ s.visited PROVE FALSE
    OBVIOUS
  <2>1. PICK i \in 1 .. n : Len(q[i].path) = d
    BY DEF Explored, n, W
  <2> QED
    BY <1>1, <2>1
<1>3. W[d + 1] = W[d] \cup UNION {Targets(t) : t \in W[d]}
  BY WithinValue DEF W
<1>4. ASSUME NEW t \in W[d + 1] \ s.visited
      PROVE  \E i \in 1 .. n : q[i].table = t /\ Len(q[i].path) = d + 1
  <2>1. PICK u \in W[d] : t \in Targets(u)
    BY <1>2, <1>3
  <2>2. PICK i \in 1 .. n : q[i].table = t
    BY <1>2, <2>1 DEF Explored, n
  <2> QED
    BY <1>1, <2>2
<1>5. from \in W[d + 1]
  BY <1>3 DEF Explored, W
<1>6. (d + 1) - 1 = d
  OBVIOUS
<1>7. \A i, j \in 1 .. n : Len(q[i].path) <= Len(q[j].path)
  BY <1>1
<1>8. \A i \in 1 .. n : Chained(from, q[i]) /\ Len(q[i].path) \in {d + 1, (d + 1) + 1}
  BY <1>1 DEF Explored, n
<1>9. /\ to \notin s.visited
      /\ \A t \in s.visited : \A u \in Targets(t) \ s.visited : \E i \in 1 .. n : q[i].table = u
  BY DEF Explored, n
<1> QED
  BY <1>2, <1>4, <1>5, <1>6, <1>7, <1>8, <1>9 DEF Explored, n, W

\* The first node is left behind, and the nodes that follow it have been queued.
LEMMA ExploredNext ==
  ASSUME edges \in Graph, NEW from \in Tables, NEW to, NEW s \in Searches, NEW d \in Nat,
         Explored(s, d, from, to), s.queue # <<>>, Len(Head(s.queue).path) = d,
         NEW a \in Seq(Node),
         \A i \in 1 .. Len(a) : Chained(from, a[i]) /\ Len(a[i].path) = d + 1,
         NEW r \in Searches, r.queue = Tail(s.queue) \o a,
         r.visited = s.visited \cup {Head(s.queue).table}, to \notin r.visited,
         \A u \in Targets(Head(s.queue).table) \ s.visited :
            \/ \E i \in 1 .. Len(s.queue) : s.queue[i].table = u
            \/ \E i \in 1 .. Len(a) : a[i].table = u
  PROVE  Explored(r, d, from, to)
<1> DEFINE W == Within(from)
           q == s.queue
           n == Len(q)
           k == Len(a)
           p == r.queue
           m == n - 1
<1>1. /\ n \in Nat /\ n # 0 /\ k \in Nat /\ Head(q) = q[1] /\ m \in Nat
      /\ Len(p) = m + k
      /\ \A i \in 1 .. m : p[i] = q[i + 1] /\ i + 1 \in 1 .. n
      /\ \A i \in 1 .. k : p[m + i] = a[i] /\ m + i \in 1 .. m + k
  <2>1. Tail(q) \in Seq(Node) /\ Len(Tail(q)) = m /\ k \in Nat
    BY SearchFacts, LenProperties
  <2>2. n \in Nat /\ n # 0 /\ Head(q) = q[1] /\ \A i \in 1 .. m : Tail(q)[i] = q[i + 1]
    BY SearchFacts
  <2> DEFINE t == Tail(q)
  <2> HIDE DEF t
  <2>3. Len(p) = Len(t) + k /\ \A i \in 1 .. Len(t) + k :
          p[i] = IF i <= Len(t) THEN t[i] ELSE a[i - Len(t)]
    BY <2>1, ConcatProperties DEF t
  <2>4. \A i \in 1 .. k : m + i \in 1 .. m + k /\ ~(m + i <= m) /\ (m + i) - m = i
    BY <2>1, <2>2
  <2>5. \A i \in 1 .. m : i \in 1 .. m + k /\ i <= m /\ i + 1 \in 1 .. n
    BY <2>1, <2>2
  <2>6. m \in Nat
    BY <2>2
  <2> HIDE DEF m, n, k, p, q
  <2>7. Len(t) = m /\ \A i \in 1 .. m : t[i] = q[i + 1]
    BY <2>1, <2>2 DEF t
  <2>8. \A i \in 1 .. m : p[i] = q[i + 1]
    BY <2>3, <2>5, <2>7
  <2>9. \A i \in 1 .. k : p[m + i] = a[i]
    BY <2>3, <2>4, <2>7
  <2> QED
    BY <2>1, <2>2, <2>3, <2>4, <2>5, <2>6, <2>7, <2>8, <2>9
<1> HIDE DEF m, n, k, p, q, W
<1>2. \A i \in 1 .. n : i = 1 \/ \E j \in 1 .. m : j + 1 = i
  <2> SUFFICES ASSUME NEW i \in 1 .. n, i # 1 PROVE i - 1 \in 1 .. m /\ (i - 1) + 1 = i
    OBVIOUS
  <2> QED
    BY <1>1 DEF m
<1>3. \A i \in 1 .. m + k : i \in 1 .. m \/ \E j \in 1 .. k : i = m + j
  <2> SUFFICES ASSUME NEW i \in 1 .. m + k, i \notin 1 .. m
               PROVE  i - m \in 1 .. k /\ i = m + (i - m)
    OBVIOUS
  <2> QED
    BY <1>1
<1>4. ASSUME NEW i \in 1 .. m + k
      PROVE  Chained(from, p[i]) /\ Len(p[i].path) \in {d, d + 1}
  <2>1. CASE i \in 1 .. m
    <3>1. i + 1 \in 1 .. n /\ p[i] = q[i + 1]
      BY <1>1, <2>1
    <3>2. Chained(from, q[i + 1]) /\ Len(q[i + 1].path) \in {d, d + 1}
      BY <3>1 DEF Explored, n, q
    <3> QED
      BY <3>1, <3>2
  <2>2. CASE i \notin 1 .. m
    <3>1. PICK e \in 1 .. k : i = m + e
      BY <1>3, <2>2
    <3>2. p[i] = a[e] /\ Len(a[e].path) = d + 1 /\ Chained(from, a[e])
      BY <1>1, <3>1 DEF k
    <3> QED
      BY <3>2
  <2> QED
    BY <2>1, <2>2
<1>5. ASSUME NEW i \in 1 .. m + k, NEW j \in 1 .. m + k, i < j
      PROVE  Len(p[i].path) <= Len(p[j].path)
  <2>0. m \in Nat /\ k \in Nat
    BY <1>1
  <2>1. CASE j \in 1 .. m
    <3>1. i \in 1 .. m /\ i + 1 < j + 1
      BY <1>5, <2>0, <2>1
    <3>2. i + 1 \in 1 .. n /\ j + 1 \in 1 .. n /\ p[i] = q[i + 1] /\ p[j] = q[j + 1]
      BY <1>1, <2>1, <3>1
    <3>3. Len(q[i + 1].path) <= Len(q[j + 1].path)
      BY <3>1, <3>2 DEF Explored, n, q
    <3> QED
      BY <3>2, <3>3
  <2>2. CASE j \notin 1 .. m
    <3>1. PICK e \in 1 .. k : j = m + e
      BY <1>3, <2>2
    <3>2. p[j] = a[e] /\ Len(a[e].path) = d + 1
      BY <1>1, <3>1 DEF k
    <3>3. Len(p[i].path) = d \/ Len(p[i].path) = d + 1
      BY <1>4
    <3> HIDE DEF p
    <3> QED
      BY <3>2, <3>3
  <2> QED
    BY <2>1, <2>2
<1>6. ASSUME NEW i \in 1 .. n, q[i].table \notin r.visited
      PROVE  \E j \in 1 .. m + k : p[j] = q[i]
  <2>1. i # 1
    BY <1>1, <1>6 DEF q
  <2>2. PICK j \in 1 .. m : j + 1 = i
    BY <1>2, <2>1
  <2>3. j \in 1 .. m + k /\ p[j] = q[i]
    BY <1>1, <2>2
  <2> QED
    BY <2>3
<1>7. ASSUME NEW t \in W[d] \ r.visited
      PROVE  \E i \in 1 .. m + k : p[i].table = t /\ Len(p[i].path) = d
  <2>1. PICK i \in 1 .. n : q[i].table = t /\ Len(q[i].path) = d
    BY DEF Explored, n, q, W
  <2> QED
    BY <1>6, <2>1
<1>8. ASSUME NEW t \in r.visited, NEW u \in Targets(t) \ r.visited
      PROVE  \E i \in 1 .. m + k : p[i].table = u
  <2>1. \/ \E i \in 1 .. n : q[i].table = u
        \/ \E i \in 1 .. k : a[i].table = u
    <3>1. CASE t \in s.visited
      BY <3>1 DEF Explored, n, q
    <3>2. CASE t = Head(s.queue).table
      BY <3>2 DEF n, k, q
    <3> QED
      BY <3>1, <3>2
  <2>2. CASE \E i \in 1 .. n : q[i].table = u
    BY <1>6, <2>2
  <2>3. CASE \E i \in 1 .. k : a[i].table = u
    <3>1. PICK e \in 1 .. k : a[e].table = u
      BY <2>3
    <3> QED
      BY <1>1, <3>1
  <2> QED
    BY <2>1, <2>2, <2>3
<1>9. (d > 0 => W[d - 1] \subseteq r.visited) /\ from \in W[d]
  BY DEF Explored, W
<1>10. Len(p) = m + k
  BY <1>1
<1> QED
  BY <1>4, <1>5, <1>7, <1>8, <1>9, <1>10 DEF Explored, p, W

\* What the search has seen, it has seen at the distance of the first node of the queue.
LEMMA ExploredAtHead ==
  ASSUME edges \in Graph, NEW from \in Tables, NEW to, NEW s \in Searches, NEW d \in Nat,
         Explored(s, d, from, to), s.queue # <<>>
  PROVE  /\ Len(Head(s.queue).path) \in Nat
         /\ Explored(s, Len(Head(s.queue).path), from, to)
         /\ Chained(from, Head(s.queue))
<1> DEFINE n == Len(Head(s.queue).path)
<1>1. Head(s.queue) = s.queue[1] /\ 1 \in 1 .. Len(s.queue)
  BY SearchFacts
<1>2. n \in {d, d + 1} /\ Chained(from, Head(s.queue))
  BY <1>1 DEF Explored
<1>3. CASE n = d
  BY <1>2, <1>3
<1>4. CASE n # d
  <2>1. Explored(s, d + 1, from, to)
    BY <1>4, ExploredFurther
  <2> QED
    BY <1>2, <1>4, <2>1
<1> QED
  BY <1>3, <1>4

\* The next search has explored as far.
LEMMA ExploredOnwards ==
  ASSUME edges \in Graph, NEW from \in Tables, NEW to, NEW s \in Searches \ Done(to), NEW d \in Nat,
         Explored(s, d, from, to)
  PROVE  \E e \in Nat : Explored(Onwards(s), e, from, to)
<1> DEFINE h == Head(s.queue)
           e == Len(h.path)
           r == Onwards(s)
<1>1. s.queue # <<>> /\ (h.table \notin s.visited => h.table # to)
  BY DEF Done
<1>2. e \in Nat /\ Explored(s, e, from, to) /\ Chained(from, h) /\ h \in Node
  BY <1>1, ExploredAtHead, SearchFacts
<1> DEFINE a == IF h.table \in s.visited THEN <<>> ELSE Onward(h)
<1>3. a \in Seq(Node)
  BY <1>2, OnwardNodes
<1>4. r \in Searches /\ r.queue = Tail(s.queue) \o a /\ r.visited = s.visited \cup {h.table}
  <2>1. CASE h.table \in s.visited
    <3>1. Tail(s.queue) \in Seq(Node)
      BY <1>1, SearchFacts
    <3>2. Tail(s.queue) \o <<>> = Tail(s.queue)
      BY <3>1, ConcatEmptySeq
    <3>3. r = Dropped(s) /\ r \in Searches /\ s.visited = s.visited \cup {h.table}
      BY <1>1, <2>1, SearchFacts DEF Onwards
    <3> QED
      BY <2>1, <3>2, <3>3 DEF Dropped
  <2>2. CASE h.table \notin s.visited
    <3>1. r = Expanded(s) /\ r \in Searches
      BY <1>1, <2>2, SearchFacts DEF Onwards
    <3>2. a = Onward(h)
      BY <2>2
    <3> HIDE DEF a, r
    <3>3. r.queue = Tail(s.queue) \o a /\ r.visited = s.visited \cup {h.table}
      BY <3>1, <3>2 DEF Expanded
    <3> QED
      BY <3>1, <3>3
  <2> QED
    BY <2>1, <2>2
<1>5. \A i \in 1 .. Len(a) : Chained(from, a[i]) /\ Len(a[i].path) = e + 1
  <2>1. CASE h.table \in s.visited
    <3>1. Len(a) = 0
      BY <2>1
    <3> QED
      BY <3>1
  <2>2. CASE h.table \notin s.visited
    <3>1. a = Onward(h)
      BY <2>2
    <3> HIDE DEF a, h
    <3> QED
      BY <1>2, <3>1, OnwardIsChained DEF h
  <2> QED
    BY <2>1, <2>2
<1>6. to \notin r.visited
  BY <1>1, <1>2, <1>4 DEF Explored
<1>7. \A u \in Targets(h.table) \ s.visited :
         \/ \E i \in 1 .. Len(s.queue) : s.queue[i].table = u
         \/ \E i \in 1 .. Len(a) : a[i].table = u
  <2>1. CASE h.table \in s.visited
    BY <1>2, <2>1 DEF Explored
  <2>2. CASE h.table \notin s.visited
    BY <1>2, <2>2, OnwardIsChained
  <2> QED
    BY <2>1, <2>2
<1> HIDE DEF a, r
<1>8. Explored(r, e, from, to)
  BY <1>1, <1>2, <1>3, <1>4, <1>5, <1>6, <1>7, ExploredNext
<1> QED
  BY <1>2, <1>8 DEF r

\* What PathsAreShortest says of a path.
IsShortest(path, from, to) ==
    IF path = <<>> THEN to \notin Within(from)[Cardinality(Tables)]
    ELSE /\ path[1][1] = from
         /\ path[Len(path)][2] = to
         /\ \A i \in 2 .. Len(path) : path[i][1] = path[i - 1][2]
         /\ \A i \in DOMAIN path : \E j \in DOMAIN edges[path[i][1]] :
                                      edges[path[i][1]][j] = path[i][2]
         /\ to \notin Within(from)[Len(path) - 1]

\* An empty queue has seen everything; the table that is looked for was not there.
LEMMA NothingIsLeft ==
  ASSUME edges \in Graph, NEW from \in Tables, NEW to, NEW s \in Searches, NEW d \in Nat,
         Explored(s, d, from, to), s.queue = <<>>, NEW n \in Nat
  PROVE  to \notin Within(from)[n]
<1> DEFINE W == Within(from)
           P == {k \in Nat : W[k] \subseteq s.visited}
<1>0. \A i \in 1 .. Len(s.queue) : FALSE
  OBVIOUS
<1>1. 0 \in P
  BY <1>0, WithinValue DEF Explored
<1>2. ASSUME NEW k \in Nat, k \in P PROVE k + 1 \in P
  <2>1. \A t \in s.visited : Targets(t) \subseteq s.visited
    BY <1>0 DEF Explored
  <2>2. W[k + 1] = W[k] \cup UNION {Targets(t) : t \in W[k]}
    BY WithinValue
  <2> HIDE DEF W
  <2> QED
    BY <1>2, <2>1, <2>2
<1> HIDE DEF P
<1>3. n \in P
  BY <1>1, <1>2, CountUp
<1> QED
  BY <1>3 DEF P, Explored

\* Where a search ends, its answer is a shortest path.
LEMMA DoneIsShortest ==
  ASSUME edges \in Graph, NEW from \in Tables, NEW to \in Tables, from # to,
         NEW s \in Done(to), NEW d \in Nat, Explored(s, d, from, to)
  PROVE  IsShortest(IF s.queue = <<>> THEN <<>> ELSE Head(s.queue).path, from, to)
<1>0. s \in Searches
  BY DEF Done
<1>1. CASE s.queue = <<>>
  <2>1. Cardinality(Tables) \in Nat
    BY RegistryAssumption, FS_CardinalityType
  <2> QED
    BY <1>0, <1>1, <2>1, NothingIsLeft DEF IsShortest
<1>2. CASE s.queue # <<>>
  <2> DEFINE h == Head(s.queue)
             path == h.path
             n == Len(path)
  <2>1. h \in Node /\ h.table = to
    BY <1>0, <1>2, SearchFacts DEF Done
  <2>2. Explored(s, n, from, to) /\ Chained(from, h)
    BY <1>0, <1>2, ExploredAtHead
  <2>3. path \in Seq(Tables \X Tables) /\ DOMAIN path = 1 .. n /\ n \in Nat
    BY <2>1, LenProperties DEF Node
  <2>4. path # <<>>
    BY <2>1, <2>2 DEF Chained
  <2>5. n > 0
    BY <2>3, <2>4, EmptySeq
  <2>6. path[1][1] = from /\ path[n][2] = to
        /\ \A i \in 2 .. n : path[i][1] = path[i - 1][2]
    BY <2>1, <2>2, <2>4 DEF Chained
  <2>7. \A i \in DOMAIN path : \E j \in DOMAIN edges[path[i][1]] :
                                  edges[path[i][1]][j] = path[i][2]
    <3> SUFFICES ASSUME NEW i \in 1 .. n
                 PROVE  \E j \in DOMAIN edges[path[i][1]] : edges[path[i][1]][j] = path[i][2]
      BY <2>3
    <3>1. path[i][2] \in Targets(path[i][1])
      BY <2>2 DEF Chained
    <3> QED
      BY <3>1 DEF Targets
  <2>8. to \notin Within(from)[n - 1]
    <3> DEFINE W == Within(from)
    <3> HIDE DEF W, n
    <3>1. W[n - 1] \subseteq s.visited /\ to \notin s.visited
      BY <2>2, <2>5 DEF Explored, W
    <3> QED
      BY <3>1 DEF W
  <2> HIDE DEF path
  <2>9. IsShortest(path, from, to)
    BY <2>4, <2>6, <2>7, <2>8 DEF IsShortest
  <2> QED
    BY <1>2, <2>9 DEF path
<1> QED
  BY <1>1, <1>2

\* The first node of FindPath is the table that it starts at.
LEMMA ExploredAtFirst ==
  ASSUME edges \in Graph, NEW from \in Tables, NEW to, NEW s,
         s = [queue |-> <<[table |-> from, path |-> <<>>]>>, visited |-> {}]
  PROVE  s \in Searches /\ Explored(s, 0, from, to)
<1> DEFINE node == [table |-> from, path |-> <<>>]
<1>1. node \in Node
  BY DEF Node
<1>2. s.queue = <<node>> /\ s.visited = {} /\ node.table = from /\ node.path = <<>>
  OBVIOUS
<1>3. s \in Searches
  BY <1>1 DEF Searches
<1>4. Len(s.queue) = 1 /\ s.queue[1] = node
  BY <1>2
<1>5. Chained(from, node) /\ Len(node.path) = 0
  BY <1>2 DEF Chained
<1> HIDE DEF node
<1>6. Within(from)[0] = {from}
  BY WithinValue
<1> QED
  BY <1>2, <1>3, <1>4, <1>5, <1>6 DEF Explored

\* FindPath as a whole: the search ends, and nothing it has not seen is nearer.
LEMMA FindPathIsShortest ==
  ASSUME edges \in Graph, NEW from \in Tables, NEW to \in Tables, from # to
  PROVE  IsShortest(FindPath(from, to), from, to)
<1> DEFINE s0 == [queue |-> <<[table |-> from, path |-> <<>>]>>, visited |-> {}]
<1>1. PICK V : /\ FindPath(from, to) = V[s0]
               /\ \A s \in Searches \ Done(to) : V[s] = V[Onwards(s)]
               /\ \A s \in Done(to) :
                    V[s] = IF s.queue = <<>> THEN <<>> ELSE Head(s.queue).path
  BY FindPathFollows
<1> DEFINE P == {s \in Searches : \A d \in Nat :
                   Explored(s, d, from, to) => IsShortest(V[s], from, to)}
<1>2. ASSUME NEW s \in Done(to) PROVE s \in P
  BY <1>1, DoneIsShortest DEF Done
<1>3. ASSUME NEW s \in Searches \ Done(to), Onwards(s) \in P PROVE s \in P
  BY <1>1, <1>3, ExploredOnwards
<1> HIDE DEF P
<1>4. P = Searches
  <2>1. P \in SUBSET Searches /\ \A s \in Searches : s \in Done(to) \/ Onwards(s) \in P => s \in P
    BY <1>2, <1>3 DEF P
  <2> QED
    BY <2>1, SearchInduction
<1>5. s0 \in Searches /\ Explored(s0, 0, from, to)
  BY ExploredAtFirst
<1> HIDE DEF s0
<1>6. IsShortest(V[s0], from, to)
  BY <1>4, <1>5 DEF P
<1> QED
  BY <1>1, <1>6

\* Whatever schemas were registered, FindPath finds a path between two tables when there is one,
\* follows relationships of the graph, and uses as few of them as any.
THEOREM ShortestPathsAreFound == Spec => []PathsAreShortest
<1>1. GraphOK => PathsAreShortest
  BY FindPathIsShortest DEF GraphOK, PathsAreShortest, IsShortest
<1> QED
  BY <1>1, GraphInit, GraphStep, Invariance, PTL DEF Spec
=============================================================================
