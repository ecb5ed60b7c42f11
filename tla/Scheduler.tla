----------------------------- MODULE Scheduler -----------------------------
(***************************************************************************)
(* internal/scheduler: periodic execution of saved queries.                *)
(*                                                                         *)
(* A job is kept in a map under its ID and has one Go timer.  The timer's  *)
(* callback runs in a goroutine of its own: it takes the lock, looks the   *)
(* ID up, RELEASES the lock while the query executes and takes it again to *)
(* re-arm the timer of the job object it started with.  Callers add,       *)
(* remove, pause and resume jobs, and stop the scheduler, at any of those  *)
(* points.  Every action below is one critical section of Scheduler.mu.    *)
(*                                                                         *)
(* Left out: LastRun, NextRun, RunCount, LastError and CreatedAt, which    *)
(* the scheduler writes for display and never reads, and the length of the *)
(* interval (an armed timer may fire at any later moment).                 *)
(***************************************************************************)
EXTENDS Naturals, FiniteSets, Functions

CONSTANTS
    Jobs,       \* job objects, i.e. the *Job pointers in use at one time
    JobIDs,     \* the IDs generateJobID can produce (or a caller supplies)
    NameOf,     \* the name of the job that has a given ID
    Timers,     \* timer objects; one that is neither armed nor stored is garbage
    NoJob, NoTimer, NoID,
    MaxPending, \* bound: fired callbacks of one ID waiting for the lock
    MaxRunning  \* bound: executions of one job object at the same time

ASSUME SchedulerAssumption ==
    /\ IsFiniteSet(Jobs)
    /\ NoJob \notin Jobs
    /\ NoTimer \notin Timers
    /\ NoID \notin JobIDs
    /\ DOMAIN NameOf = JobIDs
    /\ MaxPending \in Nat \ {0}
    /\ MaxRunning \in Nat \ {0}

VARIABLES
    jobs,       \* s.jobs: ID -> registered job object, or NoJob
    timers,     \* s.timers: ID -> stored timer, or NoTimer
    stopped,    \* s.ctx has been cancelled
    jobID,      \* job.ID of every object
    enabled,    \* job.Enabled of every object
    due,        \* the ID an armed timer will run; NoID when fired or stopped
    pending,    \* callbacks that fired and wait for the lock, by ID
    running     \* executions between runJob's two critical sections, by object

vars == <<jobs, timers, stopped, jobID, enabled, due, pending, running>>

Keys == JobIDs \cup {NameOf[id] : id \in JobIDs}

Registered(o) == \E id \in JobIDs : jobs[id] = o

Armed(id) == \E t \in Timers : due[t] = id

Init ==
    /\ jobs    = [id \in JobIDs |-> NoJob]
    /\ timers  = [id \in JobIDs |-> NoTimer]
    /\ stopped = FALSE
    /\ jobID   = [o \in Jobs |-> NoID]
    /\ enabled = [o \in Jobs |-> FALSE]
    /\ due     = [t \in Timers |-> NoID]
    /\ pending = [id \in JobIDs |-> 0]
    /\ running = [o \in Jobs |-> 0]

-----------------------------------------------------------------------------
(* Helpers that hold the lock *)

\* The objects findJob may return: the job with that ID, else any with that
\* name (Go iterates over the map in no particular order).
findJob(key) ==
    IF key \in JobIDs /\ jobs[key] # NoJob
    THEN {jobs[key]}
    ELSE {o \in Jobs : \E id \in JobIDs : jobs[id] = o /\ NameOf[id] = key}

FreshTimer(t) == due[t] = NoID /\ \A id \in JobIDs : timers[id] # t

\* Mutant: the timer already stored is overwritten without being stopped.
scheduleJobNoStop(o) ==
    IF enabled'[o]
    THEN \E t \in Timers :
           /\ FreshTimer(t)
           /\ timers' = [timers EXCEPT ![jobID'[o]] = t]
           /\ due' = [due EXCEPT ![t] = jobID'[o]]
    ELSE UNCHANGED <<timers, due>>

\* Re-arms the job's timer, unless it is disabled, as this step leaves it.
scheduleJob(o) ==
    IF enabled'[o]
    THEN \E t \in Timers :
           /\ FreshTimer(t)
           /\ timers' = [timers EXCEPT ![jobID'[o]] = t]
           /\ due' = [u \in Timers |-> IF u = t THEN jobID'[o]
                                       ELSE IF u = timers[jobID'[o]] THEN NoID
                                       ELSE due[u]]
    ELSE UNCHANGED <<timers, due>>

-----------------------------------------------------------------------------
(* Callers *)

\* Mutant: the job is filed under its name, by which findJob finds it too.
AddJobByName(o, id) ==
    /\ ~Registered(o) /\ running[o] = 0
    /\ jobID'   = [jobID EXCEPT ![o] = id]
    /\ enabled' = [enabled EXCEPT ![o] = TRUE]
    /\ jobs'    = [key \in JobIDs \cup {NameOf[id]} |-> IF key = NameOf[id] THEN o ELSE jobs[key]]
    /\ scheduleJob(o)
    /\ UNCHANGED <<stopped, pending, running>>

\* The caller hands over a new object: one that is not registered and that no
\* unfinished execution holds.  Its ID may be the ID of another job, which it
\* then replaces.
AddJob(o, id) ==
    /\ ~Registered(o) /\ running[o] = 0
    /\ jobID'   = [jobID EXCEPT ![o] = id]
    /\ enabled' = [enabled EXCEPT ![o] = TRUE]
    /\ jobs'    = [jobs EXCEPT ![id] = o]
    /\ scheduleJob(o)
    /\ UNCHANGED <<stopped, pending, running>>

RemoveJob(key) ==
    \E o \in findJob(key) :
      /\ due'    = [u \in Timers |-> IF u = timers[jobID[o]] THEN NoID ELSE due[u]]
      /\ timers' = [timers EXCEPT ![jobID[o]] = NoTimer]
      /\ jobs'   = [jobs EXCEPT ![jobID[o]] = NoJob]
      /\ UNCHANGED <<stopped, jobID, enabled, pending, running>>

PauseJob(key) ==
    \E o \in findJob(key) :
      /\ enabled' = [enabled EXCEPT ![o] = FALSE]
      /\ due' = [u \in Timers |-> IF u = timers[jobID[o]] THEN NoID ELSE due[u]]
      /\ UNCHANGED <<jobs, timers, stopped, jobID, pending, running>>

\* Mutant: the job is enabled but not scheduled.
ResumeJobNoSchedule(key) ==
    \E o \in findJob(key) :
      /\ enabled' = [enabled EXCEPT ![o] = TRUE]
      /\ UNCHANGED <<jobs, timers, stopped, jobID, due, pending, running>>

ResumeJob(key) ==
    \E o \in findJob(key) :
      /\ UNCHANGED jobID
      /\ enabled' = [enabled EXCEPT ![o] = TRUE]
      /\ scheduleJob(o)
      /\ UNCHANGED <<jobs, stopped, pending, running>>

Stop ==
    /\ due' = [u \in Timers |-> IF \E id \in JobIDs : timers[id] = u
                                THEN NoID ELSE due[u]]
    /\ timers' = [id \in JobIDs |-> NoTimer]
    /\ stopped' = TRUE
    /\ UNCHANGED <<jobs, jobID, enabled, pending, running>>

-----------------------------------------------------------------------------
(* The Go runtime and the goroutines it starts *)

\* Mutant: a periodic ticker in place of a one-shot timer.
FireTicker(t) ==
    /\ due[t] # NoID
    /\ pending[due[t]] < MaxPending
    /\ pending' = [pending EXCEPT ![due[t]] = @ + 1]
    /\ UNCHANGED <<jobs, timers, stopped, jobID, enabled, due, running>>

\* The timer fires: its goroutine now waits for the lock.  The timer object
\* stays in s.timers.
FireTimer(t) ==
    /\ due[t] # NoID
    /\ pending[due[t]] < MaxPending
    /\ pending' = [pending EXCEPT ![due[t]] = @ + 1]
    /\ due' = [due EXCEPT ![t] = NoID]
    /\ UNCHANGED <<jobs, timers, stopped, jobID, enabled, running>>

\* runJob's first critical section, ending in the early return ...
DropRun(id) ==
    /\ pending[id] > 0
    /\ jobs[id] # NoJob => ~enabled[jobs[id]]
    /\ pending' = [pending EXCEPT ![id] = @ - 1]
    /\ UNCHANGED <<jobs, timers, stopped, jobID, enabled, due, running>>

\* Mutant: the next execution is armed when this one starts, too.
StartRunArmed(id) ==
    /\ pending[id] > 0
    /\ jobs[id] # NoJob
    /\ enabled[jobs[id]]
    /\ running[jobs[id]] < MaxRunning
    /\ pending' = [pending EXCEPT ![id] = @ - 1]
    /\ running' = [running EXCEPT ![jobs[id]] = @ + 1]
    /\ UNCHANGED <<jobID, enabled>>
    /\ scheduleJob(jobs[id])
    /\ UNCHANGED <<jobs, stopped>>

\* ... or in the call of the executor.
StartRun(id) ==
    /\ pending[id] > 0
    /\ jobs[id] # NoJob
    /\ enabled[jobs[id]]
    /\ running[jobs[id]] < MaxRunning
    /\ pending' = [pending EXCEPT ![id] = @ - 1]
    /\ running' = [running EXCEPT ![jobs[id]] = @ + 1]
    /\ UNCHANGED <<jobs, timers, stopped, jobID, enabled, due>>

\* Mutant: a failed execution is not followed by another.
FinishRunUnlessFailed(o) ==
    /\ running[o] > 0
    /\ running' = [running EXCEPT ![o] = @ - 1]
    /\ UNCHANGED <<jobID, enabled>>
    /\ scheduleJob(o) \/ UNCHANGED <<timers, due>>
    /\ UNCHANGED <<jobs, stopped, pending>>

\* The executor has returned, with a result or an error: runJob's second
\* critical section works on the object it captured in the first.
FinishRun(o) ==
    /\ running[o] > 0
    /\ running' = [running EXCEPT ![o] = @ - 1]
    /\ UNCHANGED <<jobID, enabled>>
    /\ scheduleJob(o)
    /\ UNCHANGED <<jobs, stopped, pending>>

-----------------------------------------------------------------------------
Arming == \/ \E o \in Jobs, id \in JobIDs : AddJob(o, id)
          \/ \E key \in Keys : ResumeJob(key)

Caller == \/ Arming
          \/ \E key \in Keys : RemoveJob(key) \/ PauseJob(key)
          \/ Stop

System == \/ \E t \in Timers : FireTimer(t)
          \/ \E id \in JobIDs : DropRun(id) \/ StartRun(id)
          \/ \E o \in Jobs : FinishRun(o)

Next == Caller \/ System

Spec == Init /\ [][Next]_vars

\* Timers fire, a goroutine waiting for the mutex gets it, and the executor
\* returns (it runs under a five-minute deadline).  Callers owe nothing.
Fairness ==
    /\ \A t \in Timers : WF_vars(FireTimer(t))
    /\ \A id \in JobIDs : WF_vars(DropRun(id)) /\ WF_vars(StartRun(id))
    /\ \A o \in Jobs : WF_vars(FinishRun(o))

FairSpec == Spec /\ Fairness

-----------------------------------------------------------------------------
(* Properties *)

TypeOK ==
    /\ jobs    \in [JobIDs -> Jobs \cup {NoJob}]
    /\ timers  \in [JobIDs -> Timers \cup {NoTimer}]
    /\ stopped \in BOOLEAN
    /\ jobID   \in [Jobs -> JobIDs \cup {NoID}]
    /\ enabled \in [Jobs -> BOOLEAN]
    /\ due     \in [Timers -> JobIDs \cup {NoID}]
    /\ pending \in [JobIDs -> 0 .. MaxPending]
    /\ running \in [Jobs -> 0 .. MaxRunning]

\* Every armed timer is the one stored for the ID it will run.  So a job never
\* has two live timers, whatever the interleaving of callers with the tails of
\* executions, and Remove, Pause and Stop can still cancel each of them.
TimersTracked ==
    \A t \in Timers : due[t] # NoID => timers[due[t]] = t

\* An enabled job of a scheduler that was not stopped is always on its way to
\* its next execution: its timer is armed, its callback is waiting, or it is
\* executing.  A job that loses all three would stay listed and never run.
NeverLost ==
    \A id \in JobIDs :
      (~stopped /\ jobs[id] # NoJob /\ enabled[jobs[id]])
        => Armed(id) \/ pending[id] > 0 \/ running[jobs[id]] > 0

\* The executions an ID has ahead of it: its armed timer, its waiting
\* callbacks and the executions in progress of the objects with that ID.
Chains(id) ==
    (IF Armed(id) THEN 1 ELSE 0) + pending[id]
      + SumFunctionOnSet(running, {o \in Jobs : jobID[o] = id})

\* Only a caller that adds or resumes a job may start a second chain of
\* executions for an ID.  Left to itself, and under Pause, Remove and Stop, the
\* scheduler never turns one pending execution of a job into two.
ForkOnlyByCaller ==
    [][Arming \/ \A id \in JobIDs : Chains(id)' <= Chains(id)]_vars

\* Once callers leave the scheduler alone, every job it has enabled executes
\* again and again, whatever the callers did before and however executions end.
EnabledJobsKeepRunning ==
    <>[][~Caller]_vars =>
      \A id \in JobIDs :
        []<>(\/ stopped \/ jobs[id] = NoJob
             \/ \E o \in Jobs : jobs[id] = o /\ (running[o] > 0 \/ ~enabled[o]))

\* And once callers leave it alone, whatever is still in flight for an ID that
\* has no enabled job (removed or paused during an execution, whose tail arms
\* a timer again) dies out: no callback for it fires again and again.
UnscheduledJobsDieOut ==
    <>[][~Caller]_vars =>
      \A id \in JobIDs :
        <>[]((\A o \in Jobs : jobs[id] = o => ~enabled[o])
               => ~Armed(id) /\ pending[id] = 0)
=============================================================================
