--------------------------- MODULE TemplateStore ---------------------------
(***************************************************************************)
(* internal/template and the tools on it: saved queries in a map that      *)
(* every change rewrites to one JSON file, and executions that look a      *)
(* template up, run its query with the lock released, and look it up AGAIN *)
(* to count its usage.                                                     *)
(*                                                                         *)
(* An ID is generated from the template's name and the clock, so a name    *)
(* saved again gets another ID, or by chance the same.  The query of a     *)
(* template is a member of Queries; the substitution of parameters is a    *)
(* step that may fail.  As in History, the lock is held until save ends.   *)
(***************************************************************************)
EXTENDS Naturals, FiniteSetsExt

CONSTANTS
    IDs,       \* the template IDs that generateID can produce
    NameOf,    \* the name from which an ID was generated
    Queries,
    Requests,  \* concurrent callers of execute_template
    None,      \* no template, no file
    Torn,      \* content of a file that was truncated or partly written
    MaxRuns,   \* bound on successful executions
    MaxStarts  \* bound on restarts

ASSUME TemplateAssumption ==
    /\ IsFiniteSet(IDs) /\ IsFiniteSet(Requests)
    /\ DOMAIN NameOf = IDs
    /\ MaxRuns \in Nat
    /\ MaxStarts \in Nat
    /\ None \notin [query : Queries, usage : Nat]
    /\ {None, Torn} \cap [IDs -> [query : Queries, usage : Nat] \cup {None}] = {}

VARIABLES
    up,        \* the process runs
    templates, \* s.templates: ID -> [query, usage], or None
    file,      \* what the file holds: a map like templates, None or Torn
    pc,        \* "idle", or how far save has got: "save", then "write"
    req,       \* what each caller is doing
    runs,      \* history: successful executions of each ID
    starts,    \* history: restarts
    saved,     \* history: templates when the file was last written
    failed     \* history: the last save failed

vars == <<up, templates, file, pc, req, runs, starts, saved, failed>>

Names == {NameOf[id] : id \in IDs}

Template == [query : Queries, usage : Nat]

Empty == [id \in IDs |-> None]

Idle == [phase |-> "idle"]

Init ==
    /\ up = TRUE
    /\ templates = Empty
    /\ file = None
    /\ pc = "idle"
    /\ req = [r \in Requests |-> Idle]
    /\ runs = [id \in IDs |-> 0]
    /\ starts = 0
    /\ saved = Empty
    /\ failed = FALSE

-----------------------------------------------------------------------------
(* The store *)

Stored == {id \in IDs : templates[id] # None}

\* Where a lookup may end: at that ID, else at any template of that name.
find(key) ==
    IF key \in Stored THEN {key} ELSE {id \in Stored : NameOf[id] = key}

Locked == up /\ pc = "idle"

Save(id, query) ==
    /\ Locked
    /\ templates' = [templates EXCEPT ![id] = [query |-> query, usage |-> 0]]
    /\ pc' = "save"
    /\ UNCHANGED <<up, file, req, runs, starts, saved, failed>>

Delete(key) ==
    /\ Locked
    /\ \E id \in find(key) : templates' = [templates EXCEPT ![id] = None]
    /\ pc' = "save"
    /\ UNCHANGED <<up, file, req, runs, starts, saved, failed>>

Truncate ==
    /\ pc = "save"
    /\ pc' = "write"
    /\ file' = Torn
    /\ UNCHANGED <<up, templates, req, runs, starts, saved, failed>>

Write ==
    /\ pc = "write"
    /\ pc' = "idle"
    /\ file' = templates
    /\ saved' = templates
    /\ failed' = FALSE
    /\ UNCHANGED <<up, templates, req, runs, starts>>

\* The change stays in memory.
WriteFails ==
    /\ pc \in {"save", "write"}
    /\ pc' = "idle"
    /\ failed' = TRUE
    /\ UNCHANGED <<up, templates, file, req, runs, starts, saved>>

-----------------------------------------------------------------------------
(* execute_template *)

\* The template is looked up by ID or name, and its query kept.
Lookup(r, key) ==
    /\ Locked
    /\ req[r].phase = "idle"
    /\ \E id \in find(key) :
         req' = [req EXCEPT ![r] = [phase |-> "executing", key |-> key, id |-> id,
                                    query |-> templates[id].query]]
    /\ UNCHANGED <<up, templates, file, pc, runs, starts, saved, failed>>

Execute(r) ==
    /\ req[r].phase = "executing"
    /\ SumFunctionOnSet(runs, IDs) < MaxRuns
    /\ req' = [req EXCEPT ![r].phase = "executed"]
    /\ runs' = [runs EXCEPT ![req[r].id] = @ + 1]
    /\ UNCHANGED <<up, templates, file, pc, starts, saved, failed>>

\* Mutant: a failed execution is counted, too.
FailCounted(r) ==
    /\ req[r].phase = "executing"
    /\ req' = [req EXCEPT ![r].phase = "executed"]
    /\ UNCHANGED <<up, templates, file, pc, runs, starts, saved, failed>>

\* Substitution, planning or execution fails: the caller gets the error.
Fail(r) ==
    /\ req[r].phase = "executing"
    /\ req' = [req EXCEPT ![r] = Idle]
    /\ UNCHANGED <<up, templates, file, pc, runs, starts, saved, failed>>

\* Mutant: the count is not written to the file.
IncrementUnsaved(r) ==
    /\ Locked
    /\ req[r].phase = "executed"
    /\ IF find(req[r].key) = {} THEN UNCHANGED templates
       ELSE \E id \in find(req[r].key) :
              templates' = [templates EXCEPT ![id].usage = @ + 1]
    /\ req' = [req EXCEPT ![r] = Idle]
    /\ UNCHANGED <<up, file, pc, runs, starts, saved, failed>>

\* The usage is counted for what the same key finds now, if anything; the
\* result of save is ignored.
IncrementUsage(r) ==
    /\ Locked
    /\ req[r].phase = "executed"
    /\ \/ /\ find(req[r].key) = {}
          /\ UNCHANGED <<templates, pc>>
       \/ /\ \E id \in find(req[r].key) :
               templates' = [templates EXCEPT ![id].usage = @ + 1]
          /\ pc' = "save"
    /\ req' = [req EXCEPT ![r] = Idle]
    /\ UNCHANGED <<up, file, runs, starts, saved, failed>>

-----------------------------------------------------------------------------
(* The process *)

Crash ==
    /\ up
    /\ up' = FALSE
    /\ templates' = Empty
    /\ pc' = "idle"
    /\ req' = [r \in Requests |-> Idle]
    /\ UNCHANGED <<file, runs, starts, saved, failed>>

Readable == file \notin {None, Torn}

\* Mutant: of the templates with one name, one is loaded.
NewStoreByName ==
    /\ ~up /\ starts < MaxStarts
    /\ up' = TRUE
    /\ templates' = [id \in IDs |->
                       IF /\ Readable
                          /\ file[id] # None
                          /\ id = CHOOSE k \in IDs : NameOf[k] = NameOf[id] /\ file[k] # None
                       THEN file[id] ELSE None]
    /\ starts' = starts + 1
    /\ failed' = ~Readable
    /\ UNCHANGED <<file, pc, req, runs, saved>>

\* A file that is absent or does not parse is an empty store.
NewStore ==
    /\ ~up /\ starts < MaxStarts
    /\ up' = TRUE
    /\ templates' = IF Readable THEN file ELSE Empty
    /\ starts' = starts + 1
    /\ failed' = ~Readable
    /\ UNCHANGED <<file, pc, req, runs, saved>>

Next ==
    \/ \E id \in IDs, query \in Queries : Save(id, query)
    \/ \E key \in IDs \cup Names : Delete(key)
    \/ Truncate
    \/ Write
    \/ WriteFails
    \/ \E r \in Requests :
         \/ \E key \in IDs \cup Names : Lookup(r, key)
         \/ Execute(r) \/ Fail(r) \/ IncrementUsage(r)
    \/ Crash
    \/ NewStore

Spec == Init /\ [][Next]_vars

-----------------------------------------------------------------------------
(* Properties *)

\* Whenever the lock is free, the file holds what memory holds, unless the last
\* save failed: no operation, the counting of usage included, changes the map
\* without saving it.
FileIsCurrent == Locked /\ ~failed => templates = IF file = None THEN Empty ELSE file

\* The usage that a map m counts.
usage(m) == [id \in IDs |-> IF m[id] = None THEN 0 ELSE m[id].usage]

\* A template that a lookup of the key may find.
Matches(id, key) == id = key \/ NameOf[id] = key

\* Templates of which every key, an ID or a name, finds all or none.
Closed(G) ==
    \A id, other \in IDs, key \in IDs \cup Names :
      Matches(id, key) /\ Matches(other, key) => (id \in G <=> other \in G)

\* Templates never count more usage than there were successful executions of them,
\* over crashes, restarts, deletions and failed saves, unless a key may also mean a
\* template outside the set.  The templates of one name are safe from that, except
\* when a template is named like the ID of another (names are free text,
\* template.go:225): then only the two names together.
UsageIsEarned ==
    \A G \in SUBSET IDs :
      \/ SumFunctionOnSet(usage(templates), G) <= SumFunctionOnSet(runs, G)
      \/ ~Closed(G)

\* A restart from a readable file has exactly the templates last saved.
ResumesWhatWasSaved == [][NewStore /\ Readable => templates' = saved]_vars

=============================================================================
