-------------------------- MODULE SchedulerProofs --------------------------
(***************************************************************************)
(* Safety of Scheduler for every set of jobs, IDs and timers.              *)
(*                                                                         *)
(* TimersTracked is not inductive alone: re-arming overwrites one entry of *)
(* s.timers, so the entries must hold distinct timers (TimersDistinct),    *)
(* and the entry overwritten must belong to the object's own ID, which     *)
(* needs OwnID for registered objects and RunningHasID for captured ones.  *)
(***************************************************************************)
EXTENDS Scheduler, DataTheorems

\* A job object is registered under its own ID and under no other.
OwnID == \A id \in JobIDs : jobs[id] # NoJob => jobID[jobs[id]] = id

\* No timer object is stored under two IDs.
TimersDistinct ==
    \A i, k \in JobIDs : i # k /\ timers[i] # NoTimer => timers[i] # timers[k]

\* An executing object has been given its ID.
RunningHasID == \A o \in Jobs : running[o] > 0 => jobID[o] \in JobIDs

IInv ==
    /\ TypeOK
    /\ OwnID
    /\ RunningHasID
    /\ TimersDistinct
    /\ TimersTracked
    /\ NeverLost

-----------------------------------------------------------------------------

\* findJob returns registered objects only, and they carry the ID they are
\* registered under.
LEMMA FoundIsRegistered ==
  ASSUME TypeOK, OwnID, NEW key, NEW o \in findJob(key)
  PROVE  o \in Jobs /\ jobID[o] \in JobIDs /\ jobs[jobID[o]] = o
<1>1. CASE key \in JobIDs /\ jobs[key] # NoJob
  BY <1>1 DEF TypeOK, OwnID, findJob
<1>2. CASE ~(key \in JobIDs /\ jobs[key] # NoJob)
  <2>1. PICK id \in JobIDs : o \in Jobs /\ jobs[id] = o
    BY <1>2 DEF findJob
  <2>2. o # NoJob
    BY <2>1, SchedulerAssumption
  <2> QED
    BY <2>1, <2>2 DEF OwnID
<1> QED
  BY <1>1, <1>2

\* What re-arming does to timers and due, for an object that has an ID.
LEMMA ScheduleJobEffect ==
  ASSUME TypeOK, TimersTracked, TimersDistinct,
         NEW o \in Jobs, NEW id0 \in JobIDs, jobID'[o] = id0, scheduleJob(o)
  PROVE  /\ timers' \in [JobIDs -> Timers \cup {NoTimer}]
         /\ due' \in [Timers -> JobIDs \cup {NoID}]
         /\ TimersTracked'
         /\ TimersDistinct'
         /\ \A id \in JobIDs : Armed(id) => Armed(id)'
         /\ enabled'[o] => Armed(id0)'
<1>1. CASE ~enabled'[o]
  BY <1>1 DEF TypeOK, TimersTracked, TimersDistinct, Armed, scheduleJob
<1>2. CASE enabled'[o]
  <2>1. PICK t \in Timers :
          /\ FreshTimer(t)
          /\ timers' = [timers EXCEPT ![id0] = t]
          /\ due' = [u \in Timers |-> IF u = t THEN id0
                                      ELSE IF u = timers[id0] THEN NoID
                                      ELSE due[u]]
    BY <1>2 DEF scheduleJob
  <2>2. /\ timers' \in [JobIDs -> Timers \cup {NoTimer}]
        /\ due' \in [Timers -> JobIDs \cup {NoID}]
    BY <2>1 DEF TypeOK
  <2>3. t # NoTimer /\ id0 # NoID /\ id0 \in JobIDs
    BY SchedulerAssumption
  <2>4. TimersTracked'
    BY <2>1, <2>3 DEF TypeOK, TimersTracked, TimersDistinct
  <2>5. TimersDistinct'
    BY <2>1, <2>3 DEF TypeOK, TimersDistinct, FreshTimer
  <2>6. Armed(id0)'
    BY <2>1 DEF Armed
  <2>7. ASSUME NEW id \in JobIDs, Armed(id), id # id0
        PROVE  Armed(id)'
    <3>1. PICK u \in Timers : due[u] = id
      BY <2>7 DEF Armed
    <3>2. id # NoID
      BY SchedulerAssumption
    <3>3. timers[id] = u /\ u # NoTimer
      BY <3>1, <3>2, SchedulerAssumption DEF TimersTracked
    <3>4. u # t /\ u # timers[id0]
      BY <2>1, <2>3, <2>7, <3>1, <3>2, <3>3 DEF FreshTimer, TimersDistinct
    <3> QED
      BY <2>1, <3>1, <3>4 DEF Armed
  <2> QED
    BY <2>2, <2>4, <2>5, <2>6, <2>7
<1> QED
  BY <1>1, <1>2

-----------------------------------------------------------------------------

LEMMA InitInv == Init => IInv
<1> SUFFICES ASSUME Init PROVE IInv
  OBVIOUS
<1>1. TypeOK
  <2>1. 0 \in 0 .. MaxPending /\ 0 \in 0 .. MaxRunning
    BY SchedulerAssumption
  <2> QED
    BY <2>1 DEF Init, TypeOK
<1>2. OwnID /\ RunningHasID /\ TimersDistinct /\ TimersTracked /\ NeverLost
  BY DEF Init, OwnID, RunningHasID, TimersDistinct, TimersTracked, NeverLost
<1> QED
  BY <1>1, <1>2 DEF IInv

LEMMA AddJobInv ==
  ASSUME IInv, NEW o \in Jobs, NEW id \in JobIDs, AddJob(o, id)
  PROVE  IInv'
<1> USE DEF IInv
<1>1. jobID' = [jobID EXCEPT ![o] = id] /\ jobID'[o] = id /\ enabled'[o]
  BY DEF AddJob, TypeOK
<1>2. scheduleJob(o)
  BY DEF AddJob
<1>3. /\ timers' \in [JobIDs -> Timers \cup {NoTimer}]
      /\ due' \in [Timers -> JobIDs \cup {NoID}]
      /\ TimersTracked'
      /\ TimersDistinct'
      /\ \A i \in JobIDs : Armed(i) => Armed(i)'
      /\ Armed(id)'
  BY <1>1, <1>2, ScheduleJobEffect
<1>4. TypeOK'
  BY <1>3 DEF AddJob, TypeOK
<1>5. OwnID'
  BY SchedulerAssumption DEF AddJob, OwnID, TypeOK, Registered
<1>6. RunningHasID'
  BY DEF AddJob, RunningHasID, TypeOK
<1>7. NeverLost'
  <2> SUFFICES ASSUME NEW i \in JobIDs, ~stopped', jobs'[i] # NoJob, enabled'[jobs'[i]]
               PROVE  (Armed(i) \/ pending[i] > 0 \/ running[jobs[i]] > 0)'
    BY DEF NeverLost
  <2>1. CASE i = id
    BY <1>3, <2>1
  <2>2. CASE i # id
    <3>1. jobs'[i] = jobs[i] /\ jobs[i] # o /\ jobs[i] \in Jobs
      BY <2>2 DEF AddJob, TypeOK, Registered
    <3>2. Armed(i) \/ pending[i] > 0 \/ running[jobs[i]] > 0
      BY <3>1 DEF NeverLost, AddJob, TypeOK
    <3> QED
      BY <1>3, <3>1, <3>2 DEF AddJob
  <2> QED
    BY <2>1, <2>2
<1> QED
  BY <1>3, <1>4, <1>5, <1>6, <1>7

LEMMA RemoveJobInv ==
  ASSUME IInv, NEW key, RemoveJob(key)
  PROVE  IInv'
<1> USE DEF IInv
<1>1. PICK o \in findJob(key) :
        /\ due' = [u \in Timers |-> IF u = timers[jobID[o]] THEN NoID ELSE due[u]]
        /\ timers' = [timers EXCEPT ![jobID[o]] = NoTimer]
        /\ jobs'   = [jobs EXCEPT ![jobID[o]] = NoJob]
        /\ UNCHANGED <<stopped, jobID, enabled, pending, running>>
  BY DEF RemoveJob
<1>2. o \in Jobs /\ jobID[o] \in JobIDs /\ jobs[jobID[o]] = o
  BY FoundIsRegistered
<1>3. TypeOK'
  BY <1>1 DEF TypeOK
<1>4. OwnID' /\ RunningHasID'
  BY <1>1 DEF OwnID, RunningHasID, TypeOK
<1>5. TimersDistinct' /\ TimersTracked'
  BY <1>1, <1>2, SchedulerAssumption DEF TimersDistinct, TimersTracked, TypeOK
<1>6. NeverLost'
  <2> SUFFICES ASSUME NEW i \in JobIDs, ~stopped', jobs'[i] # NoJob, enabled'[jobs'[i]]
               PROVE  (Armed(i) \/ pending[i] > 0 \/ running[jobs[i]] > 0)'
    BY DEF NeverLost
  <2>1. i # jobID[o] /\ jobs'[i] = jobs[i]
    BY <1>1, <1>2 DEF TypeOK
  <2>2. Armed(i) \/ pending[i] > 0 \/ running[jobs[i]] > 0
    BY <1>1, <2>1 DEF NeverLost
  <2>3. Armed(i) => Armed(i)'
    BY <1>1, <1>2, <2>1, SchedulerAssumption
       DEF Armed, TimersTracked, TimersDistinct, TypeOK
  <2> QED
    BY <1>1, <2>1, <2>2, <2>3
<1> QED
  BY <1>3, <1>4, <1>5, <1>6

LEMMA PauseJobInv ==
  ASSUME IInv, NEW key, PauseJob(key)
  PROVE  IInv'
<1> USE DEF IInv
<1>1. PICK o \in findJob(key) :
        /\ enabled' = [enabled EXCEPT ![o] = FALSE]
        /\ due' = [u \in Timers |-> IF u = timers[jobID[o]] THEN NoID ELSE due[u]]
        /\ UNCHANGED <<jobs, timers, stopped, jobID, pending, running>>
  BY DEF PauseJob
<1>2. o \in Jobs /\ jobID[o] \in JobIDs /\ jobs[jobID[o]] = o
  BY FoundIsRegistered
<1>3. TypeOK'
  BY <1>1 DEF TypeOK
<1>4. OwnID' /\ RunningHasID' /\ TimersDistinct'
  BY <1>1 DEF OwnID, RunningHasID, TimersDistinct
<1>5. TimersTracked'
  BY <1>1 DEF TimersTracked, TypeOK
<1>6. NeverLost'
  <2> SUFFICES ASSUME NEW i \in JobIDs, ~stopped', jobs'[i] # NoJob, enabled'[jobs'[i]]
               PROVE  (Armed(i) \/ pending[i] > 0 \/ running[jobs[i]] > 0)'
    BY DEF NeverLost
  <2>1. jobs'[i] = jobs[i] /\ jobs[i] # o /\ enabled[jobs[i]] /\ i # jobID[o]
    BY <1>1, <1>2 DEF TypeOK
  <2>2. Armed(i) \/ pending[i] > 0 \/ running[jobs[i]] > 0
    BY <1>1, <2>1 DEF NeverLost
  <2>3. Armed(i) => Armed(i)'
    BY <1>1, <1>2, <2>1, SchedulerAssumption
       DEF Armed, TimersTracked, TimersDistinct, TypeOK
  <2> QED
    BY <1>1, <2>1, <2>2, <2>3
<1> QED
  BY <1>3, <1>4, <1>5, <1>6

LEMMA ResumeJobInv ==
  ASSUME IInv, NEW key, ResumeJob(key)
  PROVE  IInv'
<1> USE DEF IInv
<1>1. PICK o \in findJob(key) :
        /\ UNCHANGED jobID
        /\ enabled' = [enabled EXCEPT ![o] = TRUE]
        /\ scheduleJob(o)
        /\ UNCHANGED <<jobs, stopped, pending, running>>
  BY DEF ResumeJob
<1>2. o \in Jobs /\ enabled'[o]
  BY <1>1, FoundIsRegistered DEF TypeOK
<1>3. PICK id0 \in JobIDs : jobID[o] = id0 /\ jobID'[o] = id0
  BY <1>1, FoundIsRegistered
<1>4. /\ timers' \in [JobIDs -> Timers \cup {NoTimer}]
      /\ due' \in [Timers -> JobIDs \cup {NoID}]
      /\ TimersTracked'
      /\ TimersDistinct'
      /\ \A i \in JobIDs : Armed(i) => Armed(i)'
      /\ Armed(id0)'
  BY <1>1, <1>3, <1>2, ScheduleJobEffect
<1>5. TypeOK' /\ OwnID' /\ RunningHasID'
  BY <1>1, <1>4 DEF TypeOK, OwnID, RunningHasID
<1>6. NeverLost'
  <2> SUFFICES ASSUME NEW i \in JobIDs, ~stopped', jobs'[i] # NoJob, enabled'[jobs'[i]]
               PROVE  (Armed(i) \/ pending[i] > 0 \/ running[jobs[i]] > 0)'
    BY DEF NeverLost
  <2>1. CASE jobs[i] = o
    <3>1. i = id0
      BY <1>1, <1>3, <2>1 DEF OwnID
    <3> QED
      BY <1>4, <3>1
  <2>2. CASE jobs[i] # o
    <3>1. enabled[jobs[i]]
      BY <1>1, <2>2 DEF TypeOK
    <3>2. Armed(i) \/ pending[i] > 0 \/ running[jobs[i]] > 0
      BY <1>1, <3>1 DEF NeverLost
    <3> QED
      BY <1>1, <1>4, <3>2
  <2> QED
    BY <2>1, <2>2
<1> QED
  BY <1>4, <1>5, <1>6

LEMMA StopInv == IInv /\ Stop => IInv'
<1> SUFFICES ASSUME IInv, Stop PROVE IInv'
  OBVIOUS
<1> USE DEF IInv, Stop
<1>1. TypeOK'
  BY DEF TypeOK
<1>2. OwnID' /\ RunningHasID'
  BY DEF OwnID, RunningHasID
<1>3. TimersDistinct' /\ TimersTracked'
  BY DEF TimersDistinct, TimersTracked, TypeOK
<1>4. NeverLost'
  BY DEF NeverLost
<1> QED
  BY <1>1, <1>2, <1>3, <1>4

LEMMA FireTimerInv ==
  ASSUME IInv, NEW t \in Timers, FireTimer(t)
  PROVE  IInv'
<1> USE DEF IInv, FireTimer
<1> DEFINE id == due[t]
<1>1. id \in JobIDs
  BY DEF TypeOK
<1>2. TypeOK'
  BY <1>1, SchedulerAssumption DEF TypeOK
<1>3. OwnID' /\ RunningHasID' /\ TimersDistinct'
  BY DEF OwnID, RunningHasID, TimersDistinct
<1>4. TimersTracked'
  BY DEF TimersTracked, TypeOK
<1>5. NeverLost'
  <2> SUFFICES ASSUME NEW i \in JobIDs, ~stopped, jobs[i] # NoJob, enabled[jobs[i]]
               PROVE  (Armed(i) \/ pending[i] > 0 \/ running[jobs[i]] > 0)'
    BY DEF NeverLost
  <2>1. Armed(i) \/ pending[i] > 0 \/ running[jobs[i]] > 0
    BY DEF NeverLost
  <2>2. CASE i = id
    BY <1>1, <2>2, SchedulerAssumption DEF TypeOK
  <2>3. CASE i # id
    <3>1. Armed(i) => Armed(i)'
      BY <2>3 DEF Armed, TypeOK
    <3>2. pending'[i] = pending[i]
      BY <2>3 DEF TypeOK
    <3> QED
      BY <2>1, <3>1, <3>2
  <2> QED
    BY <2>2, <2>3
<1> QED
  BY <1>2, <1>3, <1>4, <1>5

LEMMA DropRunInv ==
  ASSUME IInv, NEW id \in JobIDs, DropRun(id)
  PROVE  IInv'
<1> USE DEF IInv, DropRun
<1>1. TypeOK'
  BY SchedulerAssumption DEF TypeOK
<1>2. OwnID' /\ RunningHasID' /\ TimersDistinct' /\ TimersTracked'
  BY DEF OwnID, RunningHasID, TimersDistinct, TimersTracked
<1>3. NeverLost'
  BY DEF NeverLost, Armed, TypeOK
<1> QED
  BY <1>1, <1>2, <1>3

LEMMA StartRunInv ==
  ASSUME IInv, NEW id \in JobIDs, StartRun(id)
  PROVE  IInv'
<1> USE DEF IInv, StartRun
<1> DEFINE o == jobs[id]
<1>1. o \in Jobs /\ jobID[o] = id
  BY DEF TypeOK, OwnID
<1>2. TypeOK'
  BY <1>1, SchedulerAssumption DEF TypeOK
<1>3. OwnID' /\ TimersDistinct' /\ TimersTracked'
  BY DEF OwnID, TimersDistinct, TimersTracked
<1>4. RunningHasID'
  BY <1>1 DEF RunningHasID, TypeOK
<1>5. NeverLost'
  <2> SUFFICES ASSUME NEW i \in JobIDs, ~stopped, jobs[i] # NoJob, enabled[jobs[i]]
               PROVE  (Armed(i) \/ pending[i] > 0 \/ running[jobs[i]] > 0)'
    BY DEF NeverLost
  <2>1. Armed(i) \/ pending[i] > 0 \/ running[jobs[i]] > 0
    BY DEF NeverLost
  <2>2. running'[o] > 0
    BY <1>1, SchedulerAssumption DEF TypeOK
  <2>3. CASE i # id
    <3>1. pending'[i] = pending[i]
      BY <2>3 DEF TypeOK
    <3>2. running[jobs[i]] > 0 => running'[jobs[i]] > 0
      BY <2>2 DEF TypeOK
    <3> QED
      BY <2>1, <3>1, <3>2 DEF Armed
  <2> QED
    BY <2>2, <2>3
<1> QED
  BY <1>2, <1>3, <1>4, <1>5

LEMMA FinishRunInv ==
  ASSUME IInv, NEW o \in Jobs, FinishRun(o)
  PROVE  IInv'
<1> USE DEF IInv, FinishRun
<1>1. PICK id0 \in JobIDs : jobID[o] = id0 /\ jobID'[o] = id0
  BY DEF RunningHasID
<1>2. /\ timers' \in [JobIDs -> Timers \cup {NoTimer}]
      /\ due' \in [Timers -> JobIDs \cup {NoID}]
      /\ TimersTracked'
      /\ TimersDistinct'
      /\ \A i \in JobIDs : Armed(i) => Armed(i)'
      /\ enabled'[o] => Armed(id0)'
  BY <1>1, ScheduleJobEffect
<1>3. TypeOK'
  BY <1>2, SchedulerAssumption DEF TypeOK
<1>4. OwnID' /\ RunningHasID'
  BY DEF OwnID, RunningHasID, TypeOK
<1>5. NeverLost'
  <2> SUFFICES ASSUME NEW i \in JobIDs, ~stopped, jobs[i] # NoJob, enabled[jobs[i]]
               PROVE  (Armed(i) \/ pending[i] > 0 \/ running[jobs[i]] > 0)'
    BY DEF NeverLost
  <2>1. Armed(i) \/ pending[i] > 0 \/ running[jobs[i]] > 0
    BY DEF NeverLost
  <2>2. CASE jobs[i] = o
    <3>1. i = id0
      BY <1>1, <2>2 DEF OwnID
    <3> QED
      BY <1>2, <2>2, <3>1
  <2>3. CASE jobs[i] # o
    <3>1. running'[jobs[i]] = running[jobs[i]]
      BY <2>3 DEF TypeOK
    <3> QED
      BY <1>2, <2>1, <3>1
  <2> QED
    BY <2>2, <2>3
<1> QED
  BY <1>2, <1>3, <1>4, <1>5

LEMMA NextInv == IInv /\ [Next]_vars => IInv'
<1> SUFFICES ASSUME IInv, [Next]_vars PROVE IInv'
  OBVIOUS
<1>1. ASSUME NEW o \in Jobs, NEW id \in JobIDs, AddJob(o, id) PROVE IInv'
  BY <1>1, AddJobInv
<1>2. ASSUME NEW key \in Keys, ResumeJob(key) PROVE IInv'
  BY <1>2, ResumeJobInv
<1>3. ASSUME NEW key \in Keys, RemoveJob(key) PROVE IInv'
  BY <1>3, RemoveJobInv
<1>4. ASSUME NEW key \in Keys, PauseJob(key) PROVE IInv'
  BY <1>4, PauseJobInv
<1>5. CASE Stop
  BY <1>5, StopInv
<1>6. ASSUME NEW t \in Timers, FireTimer(t) PROVE IInv'
  BY <1>6, FireTimerInv
<1>7. ASSUME NEW id \in JobIDs, DropRun(id) PROVE IInv'
  BY <1>7, DropRunInv
<1>8. ASSUME NEW id \in JobIDs, StartRun(id) PROVE IInv'
  BY <1>8, StartRunInv
<1>9. ASSUME NEW o \in Jobs, FinishRun(o) PROVE IInv'
  BY <1>9, FinishRunInv
<1>10. CASE UNCHANGED vars
  BY <1>10 DEF vars, IInv, TypeOK, OwnID, RunningHasID, TimersDistinct,
               TimersTracked, NeverLost, Armed
<1> QED
  BY <1>1, <1>2, <1>3, <1>4, <1>5, <1>6, <1>7, <1>8, <1>9, <1>10
     DEF Next, Caller, Arming, System

-----------------------------------------------------------------------------

LEMMA InductiveInvariant == Spec => []IInv
  BY InitInv, NextInv, PTL DEF Spec

\* Every variable of the scheduler keeps its type.
THEOREM TypeCorrect == Spec => []TypeOK
  BY InductiveInvariant, PTL DEF IInv

\* However callers and the tails of executions interleave, a job never has two
\* live timers: each armed timer is the one s.timers holds for its ID.
THEOREM TimersAreTracked == Spec => []TimersTracked
  BY InductiveInvariant, PTL DEF IInv

\* An enabled job of a running scheduler always has a next execution coming.
THEOREM NoJobIsLost == Spec => []NeverLost
  BY InductiveInvariant, PTL DEF IInv

-----------------------------------------------------------------------------
(* The executions that an ID has ahead of it *)

Holders(id) == {o \in Jobs : jobID[o] = id}

Executing(id) == SumFunctionOnSet(running, Holders(id))

\* A step that arms nothing, and starts no execution, lengthens no chain.
LEMMA NoMoreChains ==
  ASSUME TypeOK, TypeOK', NEW id \in JobIDs, jobID' = jobID, running' = running,
         pending'[id] <= pending[id], Armed(id)' => Armed(id)
  PROVE  Chains(id)' <= Chains(id)
<1> DEFINE n == Executing(id)
<1>1. Chains(id) = (IF Armed(id) THEN 1 ELSE 0) + pending[id] + n
  BY DEF Chains, Executing, Holders
<1>2. Chains(id)' = (IF Armed(id)' THEN 1 ELSE 0) + pending'[id] + n
  BY DEF Chains, Executing, Holders
<1>3. n \in Nat
  <2>1. IsFiniteSet(Holders(id))
    BY SchedulerAssumption, FS_Subset DEF Holders
  <2>2. \A o \in Holders(id) : running[o] \in Nat /\ running[o] = running[o]
    BY SchedulerAssumption DEF TypeOK, Holders
  <2> QED
    BY <2>1, <2>2, SumSame DEF Executing
<1>4. pending[id] \in Nat /\ pending'[id] \in Nat
  BY SchedulerAssumption DEF TypeOK
<1> HIDE DEF n
<1> QED
  BY <1>1, <1>2, <1>3, <1>4

\* An execution that starts or ends counts for the ID of its object alone.
LEMMA OneExecution ==
  ASSUME TypeOK, TypeOK', NEW o \in Jobs, jobID' = jobID,
         \A p \in Jobs \ {o} : running'[p] = running[p], NEW id \in JobIDs
  PROVE  /\ Executing(id) \in Nat /\ Executing(id)' \in Nat
         /\ jobID[o] # id => Executing(id)' = Executing(id)
         /\ jobID[o] = id => Executing(id)' + running[o] = Executing(id) + running'[o]
<1> DEFINE S == Holders(id)
           f == running
           h == running'
<1>1. IsFiniteSet(S)
  BY SchedulerAssumption, FS_Subset DEF Holders
<1>2. \A p \in S : f[p] \in Nat /\ h[p] \in Nat
  BY SchedulerAssumption DEF TypeOK, Holders
<1>3. Executing(id) = SumFunctionOnSet(f, S) /\ Executing(id)' = SumFunctionOnSet(h, S)
  BY DEF Executing, Holders
<1>4. CASE jobID[o] = id
  <2>1. o \in S /\ \A p \in S \ {o} : f[p] = h[p]
    BY <1>4 DEF Holders
  <2> HIDE DEF S, f, h
  <2>2. /\ SumFunctionOnSet(f, S) \in Nat /\ SumFunctionOnSet(h, S) \in Nat
        /\ SumFunctionOnSet(f, S) + h[o] = SumFunctionOnSet(h, S) + f[o]
    BY <1>1, <1>2, <2>1, SumChange
  <2> QED
    BY <1>3, <1>4, <2>2 DEF f, h
<1>5. CASE jobID[o] # id
  <2>1. \A p \in S : f[p] \in Nat /\ h[p] = f[p]
    BY <1>2, <1>5 DEF Holders
  <2> HIDE DEF S, f, h
  <2>2. SumFunctionOnSet(f, S) \in Nat /\ SumFunctionOnSet(h, S) = SumFunctionOnSet(f, S)
    BY <1>1, <2>1, SumSame
  <2> QED
    BY <1>3, <1>5, <2>2
<1> QED
  BY <1>4, <1>5

\* A callback that starts its execution.
LEMMA StartRunChains ==
  ASSUME IInv, IInv', NEW id \in JobIDs, StartRun(id), NEW k \in JobIDs
  PROVE  Chains(k)' <= Chains(k)
<1> DEFINE o == jobs[id]
<1>1. o \in Jobs /\ jobID[o] = id /\ jobID' = jobID
  BY DEF IInv, TypeOK, OwnID, StartRun
<1>2. /\ \A p \in Jobs \ {o} : running'[p] = running[p]
      /\ running'[o] = running[o] + 1
      /\ running[o] \in Nat
  BY <1>1, SchedulerAssumption DEF IInv, TypeOK, StartRun
<1>3. Armed(k)' <=> Armed(k)
  BY DEF StartRun, Armed
<1>4. /\ pending[k] \in Nat /\ pending'[k] \in Nat
      /\ k # id => pending'[k] = pending[k]
      /\ k = id => pending'[k] = pending[k] - 1
  BY SchedulerAssumption DEF IInv, TypeOK, StartRun
<1> HIDE DEF o
<1>5. /\ Executing(k) \in Nat /\ Executing(k)' \in Nat
      /\ jobID[o] # k => Executing(k)' = Executing(k)
      /\ jobID[o] = k => Executing(k)' + running[o] = Executing(k) + running'[o]
  BY <1>1, <1>2, OneExecution DEF IInv
<1>6. /\ Chains(k) = (IF Armed(k) THEN 1 ELSE 0) + pending[k] + Executing(k)
      /\ Chains(k)' = (IF Armed(k)' THEN 1 ELSE 0) + pending'[k] + Executing(k)'
  BY DEF Chains, Executing, Holders
<1> QED
  BY <1>1, <1>2, <1>3, <1>4, <1>5, <1>6

\* An execution that ends and arms the timer of its job again.
LEMMA FinishRunChains ==
  ASSUME IInv, IInv', NEW o \in Jobs, FinishRun(o), NEW k \in JobIDs
  PROVE  Chains(k)' <= Chains(k)
<1>1. jobID[o] \in JobIDs /\ jobID' = jobID /\ enabled' = enabled /\ pending' = pending
  BY DEF IInv, RunningHasID, FinishRun
<1>2. /\ \A p \in Jobs \ {o} : running'[p] = running[p]
      /\ running'[o] = running[o] - 1
      /\ running[o] \in Nat /\ running'[o] \in Nat
  BY SchedulerAssumption DEF IInv, TypeOK, FinishRun
<1>3. k # jobID[o] /\ Armed(k)' => Armed(k)
  <2> SUFFICES ASSUME k # jobID[o], Armed(k)' PROVE Armed(k)
    OBVIOUS
  <2>1. PICK t \in Timers : due'[t] = k
    BY DEF Armed
  <2>2. k # NoID
    BY SchedulerAssumption
  <2>3. due[t] = k
    BY <1>1, <2>1, <2>2 DEF FinishRun, scheduleJob
  <2> QED
    BY <2>3 DEF Armed
<1>4. pending[k] \in Nat /\ pending'[k] = pending[k]
  BY <1>1, SchedulerAssumption DEF IInv, TypeOK
<1>5. /\ Executing(k) \in Nat /\ Executing(k)' \in Nat
      /\ jobID[o] # k => Executing(k)' = Executing(k)
      /\ jobID[o] = k => Executing(k)' + running[o] = Executing(k) + running'[o]
  BY <1>1, <1>2, OneExecution DEF IInv
<1>6. /\ Chains(k) = (IF Armed(k) THEN 1 ELSE 0) + pending[k] + Executing(k)
      /\ Chains(k)' = (IF Armed(k)' THEN 1 ELSE 0) + pending'[k] + Executing(k)'
  BY DEF Chains, Executing, Holders
<1> QED
  BY <1>2, <1>3, <1>4, <1>5, <1>6

\* A timer that fires: no other timer of its ID is armed, so none is left.
LEMMA FireTimerChains ==
  ASSUME IInv, IInv', NEW t \in Timers, FireTimer(t), NEW k \in JobIDs
  PROVE  Chains(k)' <= Chains(k)
<1> DEFINE id == due[t]
<1>1. /\ id \in JobIDs /\ id # NoID /\ jobID' = jobID /\ running' = running
      /\ timers[id] = t
  BY DEF IInv, TypeOK, FireTimer, TimersTracked
<1>2. CASE k # id
  <2>1. pending'[k] = pending[k] /\ pending[k] \in Nat
    BY <1>2, SchedulerAssumption DEF IInv, TypeOK, FireTimer
  <2>2. Armed(k)' => Armed(k)
    BY SchedulerAssumption DEF IInv, TypeOK, FireTimer, Armed
  <2> QED
    BY <1>1, <2>1, <2>2, NoMoreChains DEF IInv
<1>3. CASE k = id
  <2>1. pending'[k] = pending[k] + 1 /\ pending[k] \in Nat
    BY <1>1, <1>3, SchedulerAssumption DEF IInv, TypeOK, FireTimer
  <2>2. Armed(k)
    BY <1>3 DEF Armed
  <2>3. ~Armed(k)'
    <3> SUFFICES ASSUME NEW u \in Timers, due'[u] = k PROVE FALSE
      BY DEF Armed
    <3>1. u # t /\ due[u] = k
      BY <1>1, <1>3 DEF IInv, TypeOK, FireTimer
    <3>2. timers[due[u]] = u
      BY <1>1, <1>3, <3>1 DEF IInv, TimersTracked
    <3> QED
      BY <1>1, <1>3, <3>1, <3>2
  <2>4. Executing(k)' = Executing(k) /\ Executing(k) \in Nat
    <3>1. IsFiniteSet(Holders(k))
      BY SchedulerAssumption, FS_Subset DEF Holders
    <3>2. \A o \in Holders(k) : running[o] \in Nat /\ running[o] = running[o]
      BY SchedulerAssumption DEF IInv, TypeOK, Holders
    <3>3. Executing(k) \in Nat
      BY <3>1, <3>2, SumSame DEF Executing
    <3> QED
      BY <1>1, <3>3 DEF Executing, Holders
  <2>5. /\ Chains(k) = (IF Armed(k) THEN 1 ELSE 0) + pending[k] + Executing(k)
        /\ Chains(k)' = (IF Armed(k)' THEN 1 ELSE 0) + pending'[k] + Executing(k)'
    BY DEF Chains, Executing, Holders
  <2> QED
    BY <2>1, <2>2, <2>3, <2>4, <2>5
<1> QED
  BY <1>2, <1>3

\* The steps that arm no timer and start no execution.
LEMMA OtherChains ==
  ASSUME IInv, IInv', NEW k \in JobIDs,
         \/ \E key \in Keys : RemoveJob(key) \/ PauseJob(key)
         \/ Stop
         \/ \E id \in JobIDs : DropRun(id)
         \/ UNCHANGED vars
  PROVE  Chains(k)' <= Chains(k)
<1>1. jobID' = jobID /\ running' = running
  BY DEF RemoveJob, PauseJob, Stop, DropRun, vars
<1>2. pending'[k] <= pending[k]
  <2>1. pending[k] \in Nat /\ k \in DOMAIN pending
    BY SchedulerAssumption DEF IInv, TypeOK
  <2>2. \/ pending' = pending
        \/ \E id \in JobIDs : pending' = [pending EXCEPT ![id] = @ - 1]
    BY DEF RemoveJob, PauseJob, Stop, DropRun, vars
  <2> QED
    BY <2>1, <2>2
<1>3. Armed(k)' => Armed(k)
  <2> SUFFICES ASSUME NEW t \in Timers, due'[t] = k PROVE Armed(k)
    BY DEF Armed
  <2>1. k # NoID
    BY SchedulerAssumption
  <2>2. due[t] = k
    BY <2>1 DEF RemoveJob, PauseJob, Stop, DropRun, vars
  <2> QED
    BY <2>2 DEF Armed
<1> QED
  BY <1>1, <1>2, <1>3, NoMoreChains DEF IInv

\* Whatever the scheduler does itself, and whatever is paused, removed or stopped, one
\* pending execution of a job is never turned into two.
THEOREM OnlyCallersFork == Spec => ForkOnlyByCaller
<1>1. IInv /\ IInv' /\ [Next]_vars =>
        [Arming \/ \A id \in JobIDs : Chains(id)' <= Chains(id)]_vars
  <2> SUFFICES ASSUME IInv, IInv', [Next]_vars, ~Arming, NEW k \in JobIDs
               PROVE  Chains(k)' <= Chains(k)
    OBVIOUS
  <2>1. ASSUME NEW id \in JobIDs, StartRun(id) PROVE Chains(k)' <= Chains(k)
    BY <2>1, StartRunChains
  <2>2. ASSUME NEW o \in Jobs, FinishRun(o) PROVE Chains(k)' <= Chains(k)
    BY <2>2, FinishRunChains
  <2>3. ASSUME NEW t \in Timers, FireTimer(t) PROVE Chains(k)' <= Chains(k)
    BY <2>3, FireTimerChains
  <2> QED
    BY <2>1, <2>2, <2>3, OtherChains DEF Next, Caller, System
<1> QED
  BY <1>1, InductiveInvariant, PTL DEF Spec, ForkOnlyByCaller

=============================================================================
