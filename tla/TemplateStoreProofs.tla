------------------------- MODULE TemplateStoreProofs -------------------------
(***************************************************************************)
(* The file of the templates and the map in memory agree, and no usage is  *)
(* counted without an execution, for any number of templates, callers,     *)
(* executions and restarts.                                                *)
(*                                                                         *)
(* An execution is counted later, for what its key finds then.  So the     *)
(* invariant counts the executions that wait to be counted among the       *)
(* usage, and bounds the usage in the last file, which a restart brings    *)
(* back, as well.                                                          *)
(***************************************************************************)
EXTENDS TemplateStore, DataTheorems

Maps == [IDs -> Template \cup {None}]

TypeOK ==
    /\ templates \in Maps
    /\ file \in {None, Torn} \cup Maps
    /\ saved \in Maps
    /\ failed \in BOOLEAN

\* A file that can be read is one that a save has written to its end.
FileIsSaved == Readable => file = saved

IInv == TypeOK /\ FileIsSaved /\ FileIsCurrent

LEMMA NoMap == None \notin Maps /\ Torn \notin Maps /\ Empty \in Maps
  BY TemplateAssumption DEF Maps, Template, Empty

LEMMA InitOK == Init => IInv
<1> SUFFICES ASSUME Init PROVE IInv
  OBVIOUS
<1>1. templates = Empty /\ file = None /\ saved = Empty /\ failed = FALSE
  BY DEF Init
<1>2. ~Readable
  BY <1>1 DEF Readable
<1> QED
  BY <1>1, <1>2, NoMap DEF IInv, TypeOK, FileIsSaved, FileIsCurrent

\* Only a stored template is found, and it is a record.
LEMMA FoundIsStored ==
  ASSUME TypeOK, NEW key, NEW id \in find(key)
  PROVE  id \in IDs /\ templates[id] \in Template
  BY DEF TypeOK, Maps, find, Stored

\* A change of the map that is followed by a save.
LEMMA ChangeOK ==
  ASSUME IInv, templates' \in Maps, pc' = "save", UNCHANGED <<file, saved, failed>>
  PROVE  IInv'
BY DEF IInv, TypeOK, FileIsSaved, Readable, FileIsCurrent, Locked

\* A step that leaves the store alone.
LEMMA StoreKept ==
  ASSUME IInv, UNCHANGED <<up, templates, file, pc, saved, failed>>
  PROVE  IInv'
BY DEF IInv, TypeOK, FileIsSaved, Readable, FileIsCurrent, Locked

LEMMA IncrementUsageOK == ASSUME IInv, NEW r, IncrementUsage(r) PROVE IInv'
<1>1. UNCHANGED <<up, file, saved, failed>>
  BY DEF IncrementUsage
<1>2. CASE UNCHANGED <<templates, pc>>
  BY <1>1, <1>2, StoreKept
<1>3. CASE pc' = "save" /\ \E id \in find(req[r].key) :
                             templates' = [templates EXCEPT ![id].usage = @ + 1]
  <2>1. PICK id \in find(req[r].key) :
             templates' = [templates EXCEPT ![id].usage = @ + 1]
    BY <1>3
  <2>2. id \in IDs /\ templates[id] \in Template /\ templates \in Maps
    BY FoundIsStored DEF IInv, TypeOK
  <2>3. [templates[id] EXCEPT !.usage = @ + 1] \in Template
    BY <2>2 DEF Template
  <2>4. templates' = [templates EXCEPT ![id] = [templates[id] EXCEPT !.usage = @ + 1]]
    BY <2>1, <2>2 DEF Maps
  <2>5. templates' \in Maps
    BY <2>2, <2>3, <2>4 DEF Maps
  <2> QED
    BY <1>1, <1>3, <2>5, ChangeOK
<1> QED
  BY <1>2, <1>3 DEF IncrementUsage

LEMMA StepOK == IInv /\ [Next]_vars => IInv'
<1> SUFFICES ASSUME IInv, [Next]_vars PROVE IInv'
  OBVIOUS
<1>1. ASSUME NEW id \in IDs, NEW query \in Queries, Save(id, query) PROVE IInv'
  <2>1. [query |-> query, usage |-> 0] \in Template
    BY DEF Template
  <2>2. templates' \in Maps
    BY <1>1, <2>1 DEF Save, IInv, TypeOK, Maps
  <2> QED
    BY <1>1, <2>2, ChangeOK DEF Save
<1>2. ASSUME NEW key \in IDs \cup Names, Delete(key) PROVE IInv'
  <2>1. templates' \in Maps
    BY <1>2 DEF Delete, IInv, TypeOK, Maps
  <2> QED
    BY <1>2, <2>1, ChangeOK DEF Delete
<1>3. CASE Truncate
  BY <1>3 DEF Truncate, IInv, TypeOK, FileIsSaved, Readable, FileIsCurrent, Locked
<1>4. CASE Write
  <2>1. templates' = templates /\ file' = templates /\ saved' = templates /\ failed' = FALSE
    BY <1>4 DEF Write
  <2>2. templates \in Maps /\ templates # None
    BY NoMap DEF IInv, TypeOK
  <2> QED
    BY <2>1, <2>2 DEF IInv, TypeOK, FileIsSaved, FileIsCurrent
<1>5. CASE WriteFails
  BY <1>5 DEF WriteFails, IInv, TypeOK, FileIsSaved, Readable, FileIsCurrent
<1>6. ASSUME NEW r \in Requests, NEW key \in IDs \cup Names, Lookup(r, key) PROVE IInv'
  BY <1>6, StoreKept DEF Lookup
<1>7. ASSUME NEW r \in Requests, Execute(r) \/ Fail(r) PROVE IInv'
  BY <1>7, StoreKept DEF Execute, Fail
<1>8. ASSUME NEW r \in Requests, IncrementUsage(r) PROVE IInv'
  BY <1>8, IncrementUsageOK
<1>9. CASE Crash
  BY <1>9, NoMap DEF Crash, IInv, TypeOK, FileIsSaved, Readable, FileIsCurrent, Locked
<1>10. CASE NewStore
  <2>1. /\ templates' = (IF Readable THEN file ELSE Empty) /\ failed' = ~Readable
        /\ file' = file /\ saved' = saved
    BY <1>10 DEF NewStore
  <2>2. CASE Readable
    BY <2>1, <2>2 DEF IInv, TypeOK, FileIsSaved, Readable, FileIsCurrent
  <2>3. CASE ~Readable
    BY <2>1, <2>3, NoMap DEF IInv, TypeOK, FileIsSaved, Readable, FileIsCurrent
  <2> QED
    BY <2>2, <2>3
<1>11. CASE UNCHANGED vars
  BY <1>11, StoreKept DEF vars
<1> QED
  BY <1>1, <1>2, <1>3, <1>4, <1>5, <1>6, <1>7, <1>8, <1>9, <1>10, <1>11 DEF Next

THEOREM Invariance == Spec => []IInv
  BY InitOK, StepOK, PTL DEF Spec

\* Whenever no operation holds the lock, the file holds the map, unless the last save
\* failed: the counting of usage, whose save may fail unseen, saves like the others.
THEOREM FilesAreCurrent == Spec => []FileIsCurrent
<1>1. IInv => FileIsCurrent
  BY DEF IInv
<1> QED
  BY <1>1, Invariance, PTL

\* A restart after any crashes and failed saves loads what was last saved, or, from a
\* file that does not parse, nothing.
THEOREM RestartLoadsLastSave == Spec => ResumesWhatWasSaved
<1>1. IInv /\ [Next]_vars => [NewStore /\ Readable => templates' = saved]_vars
  BY DEF IInv, NewStore, FileIsSaved
<1> QED
  BY <1>1, Invariance, PTL DEF Spec, ResumesWhatWasSaved


-----------------------------------------------------------------------------
(* Usage is earned *)

Family(G) == G \subseteq IDs /\ Closed(G)

RunningRequest ==
    [phase : {"executing", "executed"}, key : IDs \cup Names, id : IDs, query : Queries]

\* A request runs what its key found; none survives the process.
RequestsOK ==
    /\ DOMAIN req = Requests
    /\ \A r \in Requests :
         req[r] # Idle => req[r] \in RunningRequest /\ Matches(req[r].id, req[r].key)
    /\ runs \in [IDs -> Nat]
    /\ ~up => templates = Empty /\ \A r \in Requests : req[r] = Idle

\* The requests q that were executed for a template in G and are not counted yet.
uncounted(q, G) ==
    [r \in Requests |-> IF q[r].phase = "executed" /\ q[r].id \in G THEN 1 ELSE 0]

Usage(m, G) == SumFunctionOnSet(usage(m), G)
Uncounted(q, G) == SumFunctionOnSet(uncounted(q, G), Requests)
Runs(n, G) == SumFunctionOnSet(n, G)

Earned(G) ==
    /\ Usage(templates, G) + Uncounted(req, G) <= Runs(runs, G)
    /\ Usage(saved, G) <= Runs(runs, G)

UInv(G) == IInv /\ RequestsOK /\ Earned(G)

LEMMA Sizes ==
  ASSUME NEW G, G \subseteq IDs
  PROVE  /\ \A m \in Maps : Usage(m, G) \in Nat
         /\ \A n \in [IDs -> Nat] : Runs(n, G) \in Nat
         /\ \A q : Uncounted(q, G) \in Nat
<1>1. IsFiniteSet(G) /\ IsFiniteSet(Requests)
  BY TemplateAssumption, FS_Subset
<1>2. ASSUME NEW m \in Maps PROVE Usage(m, G) \in Nat
  <2>1. \A id \in G : usage(m)[id] \in Nat
    BY DEF usage, Maps, Template
  <2> QED
    BY <1>1, <2>1, SumSame DEF Usage
<1>3. ASSUME NEW n \in [IDs -> Nat] PROVE Runs(n, G) \in Nat
  BY <1>1, SumSame DEF Runs
<1>4. ASSUME NEW q PROVE Uncounted(q, G) \in Nat
  <2>1. \A r \in Requests : uncounted(q, G)[r] \in Nat
    BY DEF uncounted
  <2> QED
    BY <1>1, <2>1, SumSame DEF Uncounted
<1> QED
  BY <1>2, <1>3, <1>4

\* A change of one template.
LEMMA UsageChange ==
  ASSUME NEW G, G \subseteq IDs, NEW m \in Maps, NEW n \in Maps, NEW id \in IDs,
         \A other \in IDs \ {id} : n[other] = m[other]
  PROVE  /\ id \in G    => Usage(m, G) + usage(n)[id] = Usage(n, G) + usage(m)[id]
         /\ id \notin G => Usage(n, G) = Usage(m, G)
<1>1. IsFiniteSet(G)
  BY TemplateAssumption, FS_Subset
<1>2. \A x \in IDs : usage(m)[x] \in Nat /\ usage(n)[x] \in Nat
  BY DEF usage, Maps, Template
<1>3. \A x \in IDs \ {id} : usage(m)[x] = usage(n)[x]
  BY DEF usage
<1>4. CASE id \in G
  BY <1>1, <1>2, <1>3, <1>4, SumChange DEF Usage
<1>5. CASE id \notin G
  <2>1. \A x \in G : usage(m)[x] \in Nat /\ usage(n)[x] = usage(m)[x]
    BY <1>2, <1>3, <1>5
  <2> QED
    BY <1>1, <1>5, <2>1, SumSame DEF Usage
<1> QED
  BY <1>4, <1>5

\* A change of one request.
LEMMA UncountedChange ==
  ASSUME NEW G, NEW q, NEW p, NEW r \in Requests,
         \A s \in Requests \ {r} : p[s] = q[s]
  PROVE  Uncounted(q, G) + uncounted(p, G)[r] = Uncounted(p, G) + uncounted(q, G)[r]
<1>1. \A s \in Requests : uncounted(q, G)[s] \in Nat /\ uncounted(p, G)[s] \in Nat
  BY DEF uncounted
<1>2. \A s \in Requests \ {r} : uncounted(q, G)[s] = uncounted(p, G)[s]
  BY DEF uncounted
<1> QED
  BY <1>1, <1>2, SumChange, TemplateAssumption DEF Uncounted

LEMMA NothingUsed ==
  ASSUME NEW G, G \subseteq IDs
  PROVE  /\ Usage(Empty, G) = 0
         /\ \A q : (\A r \in Requests : q[r] = Idle) => Uncounted(q, G) = 0
<1>1. IsFiniteSet(G)
  BY TemplateAssumption, FS_Subset
<1>2. \A id \in G : usage(Empty)[id] = 0
  BY DEF usage, Empty
<1>3. ASSUME NEW q, \A r \in Requests : q[r] = Idle PROVE Uncounted(q, G) = 0
  <2>1. \A r \in Requests : uncounted(q, G)[r] = 0
    BY <1>3 DEF uncounted, Idle
  <2> QED
    BY <2>1, SumZero, TemplateAssumption DEF Uncounted
<1> QED
  BY <1>1, <1>2, <1>3, SumZero DEF Usage

-----------------------------------------------------------------------------

LEMMA EarnedInit == ASSUME NEW G, Family(G), Init PROVE UInv(G)
<1>1. IInv
  BY InitOK
<1>2. RequestsOK
  BY DEF RequestsOK, Init
<1>3. /\ templates = Empty /\ saved = Empty
      /\ \A r \in Requests : req[r] = Idle
      /\ G \subseteq IDs
  BY DEF Init, Family, Closed
<1>4. Runs(runs, G) \in Nat
  BY <1>2, <1>3, Sizes DEF RequestsOK
<1> QED
  BY <1>1, <1>2, <1>3, <1>4, NothingUsed DEF UInv, Earned

\* A change of one template to a lower usage, with the requests as they were.
LEMMA LoweredOK ==
  ASSUME NEW G, Family(G), UInv(G), IInv', NEW id \in IDs,
         \A other \in IDs \ {id} : templates'[other] = templates[other],
         usage(templates')[id] = 0, up, UNCHANGED <<up, req, runs, saved>>
  PROVE  UInv(G)'
<1>1. RequestsOK'
  BY DEF UInv, RequestsOK
<1>2. /\ G \subseteq IDs /\ templates \in Maps /\ templates' \in Maps /\ saved \in Maps
      /\ runs \in [IDs -> Nat]
  BY DEF Family, Closed, UInv, IInv, TypeOK, RequestsOK
<1>3. /\ Usage(templates, G) \in Nat /\ Usage(templates', G) \in Nat
      /\ Uncounted(req, G) \in Nat /\ Runs(runs, G) \in Nat
  BY <1>2, Sizes
<1>4. /\ id \in G    => Usage(templates, G) + 0 = Usage(templates', G) + usage(templates)[id]
      /\ id \notin G => Usage(templates', G) = Usage(templates, G)
  BY <1>2, UsageChange
<1>5. usage(templates)[id] \in Nat
  BY <1>2 DEF usage, Maps, Template
<1>6. Usage(templates', G) <= Usage(templates, G)
  BY <1>3, <1>4, <1>5
<1>7. Earned(G)'
  BY <1>3, <1>6 DEF UInv, Earned
<1> QED
  BY <1>1, <1>7 DEF UInv

\* A step that changes neither a template nor a request.
LEMMA SameOK ==
  ASSUME NEW G, UInv(G), IInv', UNCHANGED <<up, templates, req, runs, saved>>
  PROVE  UInv(G)'
BY DEF UInv, RequestsOK, Earned

LEMMA WriteOK == ASSUME NEW G, Family(G), UInv(G), IInv', Write PROVE UInv(G)'
<1>1. UNCHANGED <<up, templates, req, runs>> /\ saved' = templates
  BY DEF Write
<1>2. /\ Usage(templates, G) \in Nat /\ Uncounted(req, G) \in Nat /\ Runs(runs, G) \in Nat
  BY Sizes DEF Family, Closed, UInv, IInv, TypeOK, RequestsOK
<1> QED
  BY <1>1, <1>2 DEF UInv, RequestsOK, Earned

LEMMA LookupOK ==
  ASSUME NEW G, Family(G), UInv(G), IInv',
         NEW r \in Requests, NEW key \in IDs \cup Names, Lookup(r, key)
  PROVE  UInv(G)'
<1>1. PICK id \in find(key) :
           req' = [req EXCEPT ![r] = [phase |-> "executing", key |-> key, id |-> id,
                                      query |-> templates[id].query]]
  BY DEF Lookup
<1>2. /\ up /\ req[r].phase = "idle" /\ UNCHANGED <<up, templates, runs, saved>>
      /\ DOMAIN req = Requests
  BY DEF Lookup, Locked, UInv, RequestsOK
<1>3. id \in IDs /\ templates[id] \in Template /\ Matches(id, key)
  BY FoundIsStored DEF UInv, IInv, find, Matches, Stored
<1>4. req'[r] \in RunningRequest /\ Matches(req'[r].id, req'[r].key) /\ req'[r].phase = "executing"
  BY <1>1, <1>2, <1>3 DEF RunningRequest, Template
<1>5. DOMAIN req' = Requests /\ \A s \in Requests \ {r} : req'[s] = req[s]
  BY <1>1, <1>2
<1>6. RequestsOK'
  BY <1>2, <1>4, <1>5 DEF UInv, RequestsOK
<1>7. uncounted(req, G)[r] = 0 /\ uncounted(req', G)[r] = 0
  BY <1>2, <1>4 DEF uncounted
<1>8. Uncounted(req, G) + 0 = Uncounted(req', G) + 0
  BY <1>5, <1>7, UncountedChange
<1>9. Uncounted(req, G) \in Nat /\ Uncounted(req', G) \in Nat
  BY Sizes DEF Family, Closed
<1>10. Earned(G)'
  BY <1>2, <1>8, <1>9 DEF UInv, Earned
<1> QED
  BY <1>6, <1>10 DEF UInv

\* A request that runs is one record, and a template that ran has one more execution.
LEMMA ExecuteOK ==
  ASSUME NEW G, Family(G), UInv(G), IInv', NEW r \in Requests, Execute(r)
  PROVE  UInv(G)'
<1> DEFINE id == req[r].id
<1>1. /\ req[r].phase = "executing"
      /\ UNCHANGED <<up, templates, saved>>
      /\ DOMAIN req = Requests /\ runs \in [IDs -> Nat]
  BY DEF Execute, UInv, RequestsOK
<1>2. /\ req[r] \in RunningRequest /\ Matches(id, req[r].key) /\ id \in IDs
      /\ req[r] # Idle
  BY <1>1 DEF UInv, RequestsOK, Idle, RunningRequest
<1>3. /\ req' = [req EXCEPT ![r] = [req[r] EXCEPT !.phase = "executed"]]
      /\ runs' = [runs EXCEPT ![id] = runs[id] + 1]
  BY <1>1, <1>2 DEF Execute
<1>4. /\ DOMAIN req' = Requests /\ \A s \in Requests \ {r} : req'[s] = req[s]
      /\ req'[r] \in RunningRequest /\ req'[r].phase = "executed"
      /\ req'[r].id = id /\ req'[r].key = req[r].key
  BY <1>1, <1>2, <1>3 DEF RunningRequest
<1>5. up
  BY <1>2 DEF UInv, RequestsOK
<1>6. runs' \in [IDs -> Nat] /\ runs'[id] = runs[id] + 1 /\ \A x \in IDs \ {id} : runs'[x] = runs[x]
  BY <1>1, <1>2, <1>3
<1>7. RequestsOK'
  BY <1>1, <1>2, <1>4, <1>5, <1>6 DEF UInv, RequestsOK
<1>8. uncounted(req, G)[r] = 0 /\ uncounted(req', G)[r] = IF id \in G THEN 1 ELSE 0
  BY <1>1, <1>4 DEF uncounted
<1>9. Uncounted(req, G) + uncounted(req', G)[r] = Uncounted(req', G) + 0
  BY <1>4, <1>8, UncountedChange
<1>10. /\ Usage(templates, G) \in Nat /\ Uncounted(req, G) \in Nat /\ Uncounted(req', G) \in Nat
       /\ Runs(runs, G) \in Nat /\ Runs(runs', G) \in Nat /\ Usage(saved, G) \in Nat
       /\ runs[id] \in Nat /\ G \subseteq IDs /\ IsFiniteSet(G)
  BY <1>1, <1>2, <1>6, Sizes, TemplateAssumption, FS_Subset DEF Family, Closed, UInv, IInv, TypeOK
<1>11. /\ id \in G    => Runs(runs, G) + (runs[id] + 1) = Runs(runs', G) + runs[id]
       /\ id \notin G => Runs(runs', G) = Runs(runs, G)
  <2>1. \A x \in G : runs[x] \in Nat /\ runs'[x] \in Nat
    BY <1>1, <1>6, <1>10
  <2>2. CASE id \in G
    BY <1>6, <1>10, <2>1, <2>2, SumChange DEF Runs
  <2>3. CASE id \notin G
    <3>1. \A x \in G : runs[x] \in Nat /\ runs'[x] = runs[x]
      BY <1>6, <1>10, <2>1, <2>3
    <3> QED
      BY <1>10, <2>3, <3>1, SumSame DEF Runs
  <2> QED
    BY <2>2, <2>3
<1> HIDE DEF id
<1>12. Earned(G)'
  <2>1. CASE id \in G
    BY <1>1, <1>8, <1>9, <1>10, <1>11, <2>1 DEF UInv, Earned
  <2>2. CASE id \notin G
    BY <1>1, <1>8, <1>9, <1>10, <1>11, <2>2 DEF UInv, Earned
  <2> QED
    BY <2>1, <2>2
<1> QED
  BY <1>7, <1>12 DEF UInv

\* The end of a request: nothing of it waits to be counted any more.
LEMMA EndOfRequest ==
  ASSUME NEW G, UInv(G), NEW r \in Requests, req[r] # Idle,
         DOMAIN req' = Requests, req'[r] = Idle, \A s \in Requests \ {r} : req'[s] = req[s],
         UNCHANGED <<up, runs>>
  PROVE  /\ RequestsOK'
         /\ up /\ req[r] \in RunningRequest /\ Matches(req[r].id, req[r].key)
         /\ Uncounted(req, G) + 0 = Uncounted(req', G) + uncounted(req, G)[r]
<1>1. up /\ req[r] \in RunningRequest /\ Matches(req[r].id, req[r].key)
  BY DEF UInv, RequestsOK
<1>2. RequestsOK'
  BY <1>1 DEF UInv, RequestsOK
<1>3. uncounted(req', G)[r] = 0
  BY DEF uncounted, Idle
<1>4. uncounted(req, G)[r] \in Nat
  BY DEF uncounted
<1>5. Uncounted(req, G) + 0 = Uncounted(req', G) + uncounted(req, G)[r]
  BY <1>3, <1>4, UncountedChange
<1> QED
  BY <1>1, <1>2, <1>5

LEMMA FailOK ==
  ASSUME NEW G, Family(G), UInv(G), IInv', NEW r \in Requests, Fail(r)
  PROVE  UInv(G)'
<1>1. /\ req[r] # Idle /\ DOMAIN req' = Requests /\ req'[r] = Idle
      /\ \A s \in Requests \ {r} : req'[s] = req[s]
      /\ UNCHANGED <<up, templates, runs, saved>>
  BY DEF Fail, Idle, UInv, RequestsOK
<1>2. /\ RequestsOK'
      /\ Uncounted(req, G) + 0 = Uncounted(req', G) + uncounted(req, G)[r]
  BY <1>1, EndOfRequest
<1>3. /\ uncounted(req, G)[r] \in Nat /\ Uncounted(req, G) \in Nat /\ Uncounted(req', G) \in Nat
      /\ Usage(templates, G) \in Nat /\ Runs(runs, G) \in Nat
  BY Sizes DEF uncounted, Family, Closed, UInv, IInv, TypeOK, RequestsOK
<1>4. Earned(G)'
  BY <1>1, <1>2, <1>3 DEF UInv, Earned
<1> QED
  BY <1>2, <1>4 DEF UInv

\* What an execution's key finds when it is counted is of the same templates.
LEMMA CountOK ==
  ASSUME NEW G, Family(G), UInv(G), IInv', NEW r \in Requests, IncrementUsage(r)
  PROVE  UInv(G)'
<1>1. /\ req[r].phase = "executed" /\ req[r] # Idle /\ DOMAIN req' = Requests
      /\ req'[r] = Idle /\ \A s \in Requests \ {r} : req'[s] = req[s]
      /\ UNCHANGED <<up, runs, saved>>
  BY DEF IncrementUsage, Idle, UInv, RequestsOK
<1>2. /\ RequestsOK'
      /\ req[r] \in RunningRequest /\ Matches(req[r].id, req[r].key)
      /\ Uncounted(req, G) + 0 = Uncounted(req', G) + uncounted(req, G)[r]
  BY <1>1, EndOfRequest
<1>3. /\ Uncounted(req, G) \in Nat /\ Uncounted(req', G) \in Nat
      /\ Usage(templates, G) \in Nat /\ Usage(templates', G) \in Nat
      /\ Runs(runs, G) \in Nat
  BY Sizes DEF Family, Closed, UInv, IInv, TypeOK, RequestsOK
<1>4. uncounted(req, G)[r] = IF req[r].id \in G THEN 1 ELSE 0
  BY <1>1 DEF uncounted
<1>5. CASE UNCHANGED templates
  <2>1. Earned(G)'
    BY <1>1, <1>2, <1>3, <1>4, <1>5 DEF UInv, Earned
  <2> QED
    BY <1>2, <2>1 DEF UInv
<1>6. ASSUME NEW id \in find(req[r].key),
             templates' = [templates EXCEPT ![id].usage = @ + 1]
      PROVE  UInv(G)'
  <2>1. /\ id \in IDs /\ templates[id] \in Template /\ templates \in Maps /\ templates' \in Maps
        /\ Matches(id, req[r].key)
    BY <1>6, FoundIsStored DEF UInv, IInv, TypeOK, find, Matches, Stored
  <2>2. id \in G <=> req[r].id \in G
    BY <1>2, <2>1 DEF Family, Closed, RunningRequest
  <2>3. /\ templates'[id] = [templates[id] EXCEPT !.usage = templates[id].usage + 1]
        /\ \A other \in IDs \ {id} : templates'[other] = templates[other]
    BY <1>6, <2>1 DEF Maps
  <2>4. /\ usage(templates)[id] = templates[id].usage
        /\ usage(templates')[id] = templates[id].usage + 1
        /\ templates[id].usage \in Nat
    <3>1. templates'[id] \in Template /\ templates'[id].usage = templates[id].usage + 1
      BY <2>1, <2>3 DEF Template
    <3>2. None \notin Template
      BY TemplateAssumption DEF Template
    <3>3. templates[id].usage \in Nat
      BY <2>1 DEF Template
    <3> QED
      BY <2>1, <3>1, <3>2, <3>3 DEF usage
  <2>5. /\ id \in G    => Usage(templates, G) + usage(templates')[id]
                            = Usage(templates', G) + usage(templates)[id]
        /\ id \notin G => Usage(templates', G) = Usage(templates, G)
    BY <2>1, <2>3, UsageChange DEF Family, Closed
  <2>6. Usage(templates', G) + Uncounted(req', G) = Usage(templates, G) + Uncounted(req, G)
    <3>1. CASE id \in G
      BY <1>2, <1>3, <1>4, <2>2, <2>4, <2>5, <3>1
    <3>2. CASE id \notin G
      BY <1>2, <1>3, <1>4, <2>2, <2>5, <3>2
    <3> QED
      BY <3>1, <3>2
  <2>7. Earned(G)'
    BY <1>1, <2>6 DEF UInv, Earned
  <2> QED
    BY <1>2, <2>7 DEF UInv
<1> QED
  BY <1>5, <1>6 DEF IncrementUsage

LEMMA EarnedStep == ASSUME NEW G, Family(G), UInv(G), [Next]_vars PROVE UInv(G)'
<1>0. IInv'
  BY StepOK DEF UInv
<1>1. ASSUME NEW id \in IDs, NEW query \in Queries, Save(id, query) PROVE UInv(G)'
  <2>1. /\ up /\ UNCHANGED <<up, req, runs, saved>>
        /\ \A other \in IDs \ {id} : templates'[other] = templates[other]
        /\ templates'[id] = [query |-> query, usage |-> 0]
    BY <1>1 DEF Save, Locked, UInv, IInv, TypeOK, Maps
  <2>2. usage(templates')[id] = 0
    BY <2>1 DEF usage
  <2> QED
    BY <1>0, <2>1, <2>2, LoweredOK
<1>2. ASSUME NEW key \in IDs \cup Names, Delete(key) PROVE UInv(G)'
  <2>1. PICK id \in find(key) : templates' = [templates EXCEPT ![id] = None]
    BY <1>2 DEF Delete
  <2>2. /\ up /\ UNCHANGED <<up, req, runs, saved>> /\ id \in IDs
        /\ \A other \in IDs \ {id} : templates'[other] = templates[other]
        /\ templates'[id] = None
    BY <1>2, <2>1, FoundIsStored DEF Delete, Locked, UInv, IInv, TypeOK, Maps
  <2>3. usage(templates')[id] = 0
    BY <2>2 DEF usage
  <2> QED
    BY <1>0, <2>2, <2>3, LoweredOK
<1>3. CASE Truncate \/ WriteFails \/ UNCHANGED vars
  BY <1>0, <1>3, SameOK DEF Truncate, WriteFails, vars
<1>4. CASE Write
  BY <1>0, <1>4, WriteOK
<1>5. ASSUME NEW r \in Requests, NEW key \in IDs \cup Names, Lookup(r, key) PROVE UInv(G)'
  BY <1>0, <1>5, LookupOK
<1>6. ASSUME NEW r \in Requests, Execute(r) \/ Fail(r) \/ IncrementUsage(r) PROVE UInv(G)'
  BY <1>0, <1>6, ExecuteOK, FailOK, CountOK
<1>7. CASE Crash
  <2>1. /\ templates' = Empty /\ UNCHANGED <<saved, runs>>
        /\ req' = [r \in Requests |-> Idle]
    BY <1>7 DEF Crash
  <2>2. RequestsOK'
    BY <2>1 DEF UInv, RequestsOK
  <2>3. Usage(templates', G) = 0 /\ Uncounted(req', G) = 0 /\ Runs(runs, G) \in Nat
    BY <2>1, NothingUsed, Sizes DEF Family, Closed, UInv, RequestsOK
  <2>4. Earned(G)'
    BY <2>1, <2>3 DEF UInv, Earned
  <2> QED
    BY <1>0, <2>2, <2>4 DEF UInv
<1>8. CASE NewStore
  <2>1. /\ ~up /\ up' /\ templates' = (IF Readable THEN file ELSE Empty)
        /\ UNCHANGED <<req, saved, runs>>
    BY <1>8 DEF NewStore
  <2>2. templates' = saved \/ templates' = Empty
    BY <2>1 DEF UInv, IInv, FileIsSaved
  <2>3. RequestsOK' /\ \A r \in Requests : req[r] = Idle
    BY <2>1 DEF UInv, RequestsOK
  <2>4. /\ Uncounted(req, G) = 0 /\ Usage(Empty, G) = 0
        /\ Usage(saved, G) \in Nat /\ Runs(runs, G) \in Nat
    BY <2>3, NothingUsed, Sizes DEF Family, Closed, UInv, IInv, TypeOK, RequestsOK
  <2>5. Earned(G)'
    <3>1. CASE templates' = saved
      BY <2>1, <2>4, <3>1 DEF UInv, Earned
    <3>2. CASE templates' = Empty
      BY <2>1, <2>4, <3>2 DEF UInv, Earned
    <3> QED
      BY <2>2, <3>1, <3>2
  <2> QED
    BY <1>0, <2>3, <2>5 DEF UInv
<1> QED
  BY <1>1, <1>2, <1>3, <1>4, <1>5, <1>6, <1>7, <1>8 DEF Next

\* The invariant speaks of all such sets of templates at once.
AllEarned == \A G \in SUBSET IDs : Family(G) => UInv(G)

LEMMA AllEarnedAlways == Spec => []AllEarned
<1>1. Init => AllEarned
  BY EarnedInit DEF AllEarned
<1>2. AllEarned /\ [Next]_vars => AllEarned'
  <2>1. \A G : Family(G)' <=> Family(G)
    BY DEF Family, Closed, Matches, Names
  <2> QED
    BY <2>1, EarnedStep DEF AllEarned
<1> QED
  BY <1>1, <1>2, PTL DEF Spec

LEMMA EarnedWithin ==
  ASSUME AllEarned, NEW G \in SUBSET IDs, Family(G)
  PROVE  Usage(templates, G) <= Runs(runs, G)
<1>1. UInv(G)
  BY DEF AllEarned
<1>2. Usage(templates, G) \in Nat /\ Uncounted(req, G) \in Nat /\ Runs(runs, G) \in Nat
  BY <1>1, Sizes DEF UInv, IInv, TypeOK, RequestsOK
<1> QED
  BY <1>1, <1>2 DEF UInv, Earned

\* Over crashes, restarts, deletions and failed saves, no more usage is counted than
\* executions succeeded (template.go:177).
THEOREM UsageIsEarnedInAll ==
  Spec => [](SumFunctionOnSet(usage(templates), IDs) <= SumFunctionOnSet(runs, IDs))
<1>1. Family(IDs)
  BY DEF Family, Closed
<1>2. AllEarned => SumFunctionOnSet(usage(templates), IDs) <= SumFunctionOnSet(runs, IDs)
  BY <1>1, EarnedWithin DEF Usage, Runs
<1> QED
  BY <1>2, AllEarnedAlways, PTL

\* The same for the templates of each name, or of whatever set no key reaches out of.
THEOREM UsageIsEarnedByFamily == Spec => []UsageIsEarned
<1>1. ASSUME AllEarned, NEW G \in SUBSET IDs, Closed(G)
      PROVE  SumFunctionOnSet(usage(templates), G) <= SumFunctionOnSet(runs, G)
  BY <1>1, EarnedWithin DEF Family, Usage, Runs
<1>2. AllEarned => UsageIsEarned
  BY <1>1, Zenon DEF UsageIsEarned
<1>3. QED
  BY <1>2, AllEarnedAlways, PTL

\* For a name that is no ID, that is: all executions of the templates of that name.
THEOREM UsageIsEarnedByName ==
  ASSUME NEW n \in Names \ IDs,
         \A id \in IDs : NameOf[id] = n => id \notin Names
  PROVE  Spec => [](SumFunctionOnSet(usage(templates), {id \in IDs : NameOf[id] = n})
                      <= SumFunctionOnSet(runs, {id \in IDs : NameOf[id] = n}))
<1> DEFINE G == {id \in IDs : NameOf[id] = n}
<1>1. Family(G)
  BY DEF Family, Closed, Matches, Names
<1>2. AllEarned => SumFunctionOnSet(usage(templates), G) <= SumFunctionOnSet(runs, G)
  BY <1>1, EarnedWithin DEF Usage, Runs
<1> QED
  BY <1>2, AllEarnedAlways, PTL
====
