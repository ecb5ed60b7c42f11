----------------------------- MODULE ApiServer -----------------------------
(***************************************************************************)
(* The HTTP server (internal/api, cmd/api): concurrent handlers that run a *)
(* query and record it in the history, and the end of the process on a     *)
(* signal.                                                                 *)
(*                                                                         *)
(* The signal goroutine calls http.Server.Shutdown, which closes the       *)
(* listener and waits for the handlers; but the closed listener also makes *)
(* ListenAndServe return in main, which then exits.                        *)
(*                                                                         *)
(* A handler holds the lock of the history store from Record or Clear      *)
(* until save has ended, so pc of History belongs to the request `holder'. *)
(***************************************************************************)
EXTENDS History, FiniteSets

CONSTANTS
    Requests,  \* requests served at the same time
    NoRequest,
    MaxEpoch   \* bound on clears and restarts

ASSUME ApiAssumption ==
    /\ NoRequest \notin Requests
    /\ MaxEpoch \in Nat

VARIABLES
    req,       \* each request: phase, op, and the ID its entry got in which epoch
    holder,    \* the request that holds the lock of the history store
    listening, \* the listener is open
    shutdown,  \* the signal goroutine: "waiting", "signalled", "closing", "done"
    epoch      \* history: number of clears and restarts so far

apiVars == <<vars, req, holder, listening, shutdown, epoch>>

Idle == [phase |-> "idle"]

InFlight(r) == req[r].phase \notin {"idle", "answered"}

AInit ==
    /\ Init
    /\ req       = [r \in Requests |-> Idle]
    /\ holder    = NoRequest
    /\ listening = TRUE
    /\ shutdown  = "waiting"
    /\ epoch     = 0

-----------------------------------------------------------------------------
(* Handlers *)

\* A "query" is a request of execute_query or export_query; the requests that
\* only read (databases, tables, explain, history) touch none of this state.
\* Two bounds: queries in flight must find an ID, and clears are limited.
Accept(r, op) ==
    /\ up /\ listening
    /\ ~InFlight(r)
    /\ Cardinality({s \in Requests : InFlight(s)}) + nextID <= MaxID
    /\ op = "clear" => epoch < MaxEpoch
    /\ req' = [req EXCEPT ![r] = [phase |-> "executing", op |-> op,
                                  id |-> 0, epoch |-> epoch]]
    /\ UNCHANGED <<vars, holder, listening, shutdown, epoch>>

\* CallTool returns, with a result or an error: both are recorded.
Execute(r) ==
    /\ req[r].phase = "executing"
    /\ req[r].op = "query"
    /\ req' = [req EXCEPT ![r].phase = "executed"]
    /\ UNCHANGED <<vars, holder, listening, shutdown, epoch>>

RecordEntry(r) ==
    /\ req[r].phase = "executed"
    /\ Record
    /\ holder' = r
    /\ req' = [req EXCEPT ![r].phase = "saving", ![r].id = nextID, ![r].epoch = epoch]
    /\ UNCHANGED <<listening, shutdown, epoch>>

ClearHistory(r) ==
    /\ req[r].phase = "executing"
    /\ req[r].op = "clear"
    /\ Clear
    /\ holder' = r
    /\ req' = [req EXCEPT ![r].phase = "saving"]
    /\ epoch' = epoch + 1
    /\ UNCHANGED <<listening, shutdown>>

StartSave == Truncate /\ UNCHANGED <<req, holder, listening, shutdown, epoch>>

\* Mutant: the error path returns without releasing the lock.
EndSaveLocked ==
    \/ /\ Write
       /\ holder' = NoRequest
       /\ req' = [req EXCEPT ![holder].phase = "saved"]
       /\ UNCHANGED <<listening, shutdown, epoch>>
    \/ /\ pc = "save"
       /\ pc' = "locked"
       /\ req' = [req EXCEPT ![holder].phase = "saved"]
       /\ UNCHANGED <<up, entries, nextID, file, saved, holder, listening, shutdown, epoch>>

\* The file is written, or could not be; the lock is released either way.
EndSave ==
    /\ Write \/ WriteFails
    /\ holder' = NoRequest
    /\ req' = [req EXCEPT ![holder].phase = "saved"]
    /\ UNCHANGED <<listening, shutdown, epoch>>

\* The handlers ignore the result of Record, so a query is answered as usual;
\* a clear that failed to save is answered with an error.
Respond(r) ==
    /\ req[r].phase = "saved"
    /\ req' = [req EXCEPT ![r].phase = "answered"]
    /\ UNCHANGED <<vars, holder, listening, shutdown, epoch>>

-----------------------------------------------------------------------------
(* The end of the process *)

Signal ==
    /\ up /\ shutdown = "waiting"
    /\ shutdown' = "signalled"
    /\ UNCHANGED <<vars, req, holder, listening, epoch>>

\* Mutant: the listener stays open.
BeginShutdownOpen ==
    /\ shutdown = "signalled"
    /\ shutdown' = "closing"
    /\ UNCHANGED <<vars, req, holder, listening, epoch>>

\* Shutdown closes the history store, which does nothing, and the listener.
BeginShutdown ==
    /\ shutdown = "signalled"
    /\ shutdown' = "closing"
    /\ listening' = FALSE
    /\ UNCHANGED <<vars, req, holder, epoch>>

\* It returns when no request is left, or after its deadline of ten seconds.
EndShutdown ==
    /\ shutdown = "closing"
    /\ shutdown' = "done"
    /\ UNCHANGED <<vars, req, holder, listening, epoch>>

\* ListenAndServe returns in main as soon as the listener is closed, and
\* log.Fatalf exits the process.
Exit ==
    /\ ~listening
    /\ Crash
    /\ req' = [r \in Requests |-> IF InFlight(r) THEN Idle ELSE req[r]]
    /\ holder' = NoRequest
    /\ shutdown' = "done"
    /\ UNCHANGED <<listening, epoch>>

Restart ==
    /\ epoch < MaxEpoch
    /\ NewStore
    /\ req' = [r \in Requests |-> Idle]
    /\ listening' = TRUE
    /\ shutdown' = "waiting"
    /\ epoch' = epoch + 1
    /\ UNCHANGED holder

ANext ==
    \/ \E r \in Requests :
         \/ \E op \in {"query", "clear"} : Accept(r, op)
         \/ Execute(r) \/ RecordEntry(r) \/ ClearHistory(r) \/ Respond(r)
    \/ StartSave
    \/ EndSave
    \/ Signal
    \/ BeginShutdown
    \/ EndShutdown
    \/ Exit
    \/ Restart

ASpec == AInit /\ [][ANext]_apiVars

\* Goroutines make progress, executions have a deadline, and Go's mutex does
\* not starve a goroutine that waits for it.  Nobody has to send requests or
\* signals, or to start the program again.
AFairness ==
    /\ \A r \in Requests :
         /\ WF_apiVars(Execute(r)) /\ WF_apiVars(Respond(r))
         /\ SF_apiVars(RecordEntry(r)) /\ SF_apiVars(ClearHistory(r))
    /\ WF_apiVars(StartSave \/ EndSave)
    /\ WF_apiVars(BeginShutdown) /\ WF_apiVars(Exit)

AFairSpec == ASpec /\ AFairness

-----------------------------------------------------------------------------
(* Properties *)

\* A query that was answered is in the history, exactly once and under an ID of
\* its own, unless the history was cleared, the program restarted, or Cap
\* newer queries were recorded; concurrent handlers never lose or share an entry.
AnsweredIsListed ==
    \A r \in Requests :
      (up /\ req[r].phase = "answered" /\ req[r].op = "query" /\ req[r].epoch = epoch) =>
        /\ nextID - req[r].id > Cap
             \/ Cardinality({i \in DOMAIN entries : entries[i] = req[r].id}) = 1
        /\ \A s \in Requests \ {r} :
             (req[s].phase = "answered" /\ req[s].op = "query"
                /\ req[s].epoch = epoch) => req[s].id # req[r].id

\* Every accepted request is answered, unless the process ends.
RequestsEnd == \A r \in Requests : InFlight(r) ~> ~InFlight(r)

\* A signal ends the process.
SignalEnds == shutdown = "signalled" ~> ~up

\* "Store provides persistent storage for query history" (store.go:26): the
\* history that was saved survives a shutdown and the next start.
HistorySurvivesShutdown ==
    [][Restart => \A i \in DOMAIN saved.entries :
                    \E j \in DOMAIN entries' : entries'[j] = saved.entries[i]]_apiVars
=============================================================================
