--------------------------- MODULE ApiServerProofs ---------------------------
(***************************************************************************)
(* The query history and the HTTP server on it.                            *)
(*                                                                         *)
(* First the history alone: IDs stay consecutive through crashes and       *)
(* restarts, for every cap.  A restart computes nextID from the file, so   *)
(* the invariant must speak of the file too: what is readable there is the *)
(* last save, and that was consecutive.  An empty list does not tell its   *)
(* nextID; Consecutive says it can only be 1.                              *)
(*                                                                         *)
(* Then its concurrent handlers: the history is used as History describes, *)
(* so what was proved of it holds of the server, and the entry of every    *)
(* answered query can be found, for any number of handlers, any cap, and   *)
(* any clears, crashes and restarts.  The invariant counts from the end of *)
(* the list: as IDs are consecutive, the entry with an ID is nextID - ID   *)
(* places from the front, and a new entry moves it by one place as long as *)
(* the cap leaves it in the list.                                          *)
(***************************************************************************)
EXTENDS ApiServer, SequenceTheorems, FiniteSetTheorems, TLAPS

\* A list and the next ID that belongs to it.
Consecutive(list, n) ==
    /\ \A i \in 1 .. Len(list) : list[i] + i = n
    /\ Len(list) = 0 => n = 1

IInv ==
    /\ TypeOK
    /\ Consecutive(entries, nextID)
    /\ Consecutive(saved.entries, saved.nextID)
    /\ Len(saved.entries) <= Cap
    /\ Readable => file = saved.entries
    /\ pc \in {"save", "write"} => up
    /\ ~up => entries = <<>> /\ nextID = 1

-----------------------------------------------------------------------------

LEMMA ConstantFacts ==
    /\ Cap \in Nat /\ Cap >= 1
    /\ MaxID \in Nat
    /\ \A s \in Seq(1 .. MaxID) : s # Absent /\ s # Torn
<1>1. Cap \in Nat /\ Cap >= 1 /\ MaxID \in Nat
  BY HistoryAssumption
<1>2. \A s \in Seq(1 .. MaxID) : s \in Seq(Nat)
  BY <1>1
<1> QED
  BY <1>1, <1>2, HistoryAssumption

LEMMA FunctionIsSeq ==
  ASSUME NEW S, NEW n \in Nat, NEW f \in [1 .. n -> S]
  PROVE  f \in Seq(S) /\ Len(f) = n
OBVIOUS

\* The loop of NewStore finds the next ID of a list of consecutive IDs.
LEMMA NextAfterConsecutive ==
  ASSUME NEW list \in Seq(1 .. MaxID), NEW n \in 1 .. MaxID + 1, Consecutive(list, n)
  PROVE  nextAfter(list) = n
<1> DEFINE P(m) == /\ \A i \in DOMAIN list : list[i] < m
                   /\ m = 1 \/ \E i \in DOMAIN list : list[i] = m - 1
<1>0. /\ MaxID \in Nat
      /\ DOMAIN list = 1 .. Len(list) /\ Len(list) \in Nat
      /\ \A i \in 1 .. Len(list) : list[i] \in 1 .. MaxID
  BY ConstantFacts
<1>1. P(n)
  <2>1. \A i \in 1 .. Len(list) : list[i] < n
    BY <1>0 DEF Consecutive
  <2>2. n = 1 \/ \E i \in 1 .. Len(list) : list[i] = n - 1
    <3>1. CASE Len(list) = 0
      BY <3>1 DEF Consecutive
    <3>2. CASE Len(list) # 0
      <4>1. 1 \in 1 .. Len(list)
        BY <1>0, <3>2
      <4>2. list[1] = n - 1
        BY <1>0, <4>1 DEF Consecutive
      <4> QED
        BY <4>1, <4>2
    <3> QED
      BY <3>1, <3>2
  <2> QED
    BY <1>0, <2>1, <2>2
<1>2. ASSUME NEW m \in 1 .. MaxID + 1, P(m) PROVE m = n
  <2>1. CASE Len(list) = 0
    BY <1>0, <1>2, <2>1 DEF Consecutive
  <2>2. CASE Len(list) # 0
    <3>1. 1 \in 1 .. Len(list)
      BY <1>0, <2>2
    <3>2. list[1] = n - 1 /\ list[1] >= 1
      <4>1. list[1] + 1 = n
        BY <3>1 DEF Consecutive
      <4>2. list[1] \in 1 .. MaxID
        BY <1>0, <3>1
      <4> QED
        BY <1>0, <4>1, <4>2
    <3>3. list[1] < m
      BY <1>0, <1>2, <3>1
    <3>4. PICK i \in 1 .. Len(list) : list[i] = m - 1
      BY <1>0, <1>2, <3>2, <3>3
    <3>5. list[i] + i = n
      BY DEF Consecutive
    <3> QED
      BY <1>0, <3>2, <3>3, <3>4, <3>5
  <2> QED
    BY <1>0, <2>1, <2>2
<1>3. nextAfter(list) = CHOOSE m \in 1 .. MaxID + 1 : P(m)
  BY DEF nextAfter
<1> HIDE DEF P
<1> QED
  BY <1>1, <1>2, <1>3

-----------------------------------------------------------------------------

LEMMA InitInv == Init => IInv
<1> SUFFICES ASSUME Init PROVE IInv
  OBVIOUS
<1>1. entries = <<>> /\ nextID = 1 /\ saved = [entries |-> <<>>, nextID |-> 1]
  BY DEF Init, Fresh
<1>2. Len(<<>>) = 0 /\ <<>> \in Seq(1 .. MaxID) /\ 1 \in 1 .. MaxID + 1 /\ 0 <= Cap
  BY ConstantFacts
<1>3. TypeOK
  BY <1>1, <1>2 DEF Init, TypeOK
<1>4. Consecutive(<<>>, 1)
  BY <1>2 DEF Consecutive
<1> QED
  BY <1>1, <1>2, <1>3, <1>4 DEF IInv, Init, Readable

LEMMA RecordInv == IInv /\ Record => IInv'
<1> SUFFICES ASSUME IInv, Record PROVE IInv'
  OBVIOUS
<1> USE DEF IInv
<1> DEFINE n == IF Len(entries) < Cap THEN Len(entries) + 1 ELSE Cap
<1>1. /\ entries' = [i \in 1 .. n |-> IF i = 1 THEN nextID ELSE entries[i - 1]]
      /\ nextID' = nextID + 1
      /\ pc' = "save"
      /\ up
      /\ UNCHANGED <<up, file, saved>>
  BY DEF Record, Prepended
<1>2. nextID \in 1 .. MaxID /\ nextID' \in 1 .. MaxID + 1
  BY <1>1, ConstantFacts DEF TypeOK, Record
<1>3. /\ n \in Nat /\ n >= 1 /\ n <= Cap
      /\ Len(entries) \in Nat
      /\ \A i \in 1 .. n : i # 1 => i - 1 \in 1 .. Len(entries)
  BY ConstantFacts DEF TypeOK
<1>4. \A i \in 1 .. Len(entries) : entries[i] \in 1 .. MaxID
  <2>1. entries \in Seq(1 .. MaxID)
    BY DEF TypeOK
  <2> QED
    BY <2>1, ElementOfSeq
<1> HIDE DEF n
<1>5. entries' \in Seq(1 .. MaxID) /\ Len(entries') = n
  <2>1. \A i \in 1 .. n : (IF i = 1 THEN nextID ELSE entries[i - 1]) \in 1 .. MaxID
    BY <1>2, <1>3, <1>4
  <2>2. entries' \in [1 .. n -> 1 .. MaxID]
    BY <1>1, <2>1
  <2> QED
    BY <1>3, <2>2, FunctionIsSeq
<1>6. TypeOK'
  BY <1>1, <1>2, <1>3, <1>5 DEF TypeOK
<1>7. Consecutive(entries', nextID')
  <2>1. ASSUME NEW i \in 1 .. n PROVE entries'[i] + i = nextID'
    <3>1. CASE i = 1
      BY <1>1, <1>2, <3>1
    <3>2. CASE i # 1
      <4>1. entries'[i] = entries[i - 1] /\ i - 1 \in 1 .. Len(entries)
        BY <1>1, <1>3, <3>2
      <4>2. entries[i - 1] + (i - 1) = nextID
        BY <4>1 DEF Consecutive
      <4>3. entries[i - 1] \in Int /\ i \in Int /\ nextID \in Int
        BY <1>2, <1>3, <1>4, <4>1
      <4> QED
        BY <1>1, <4>1, <4>2, <4>3
    <3> QED
      BY <3>1, <3>2
  <2> QED
    BY <1>3, <1>5, <2>1 DEF Consecutive
<1> QED
  BY <1>1, <1>6, <1>7 DEF Readable

LEMMA ClearInv == IInv /\ Clear => IInv'
<1> SUFFICES ASSUME IInv, Clear PROVE IInv'
  OBVIOUS
<1> USE DEF IInv, Clear
<1>1. Len(<<>>) = 0 /\ <<>> \in Seq(1 .. MaxID) /\ 1 \in 1 .. MaxID + 1 /\ 0 <= Cap
  BY ConstantFacts
<1>2. TypeOK'
  BY <1>1 DEF TypeOK
<1>3. Consecutive(entries', nextID')
  BY <1>1 DEF Consecutive
<1> QED
  BY <1>2, <1>3 DEF Readable

LEMMA TruncateInv == IInv /\ Truncate => IInv'
<1> SUFFICES ASSUME IInv, Truncate PROVE IInv'
  OBVIOUS
<1> USE DEF IInv, Truncate
<1>1. TypeOK'
  BY DEF TypeOK
<1> QED
  BY <1>1 DEF Readable

LEMMA WriteInv == IInv /\ Write => IInv'
<1> SUFFICES ASSUME IInv, Write PROVE IInv'
  OBVIOUS
<1> USE DEF IInv, Write
<1>1. saved'.entries = entries /\ saved'.nextID = nextID
  OBVIOUS
<1>2. TypeOK'
  BY DEF TypeOK
<1> QED
  BY <1>1, <1>2 DEF Readable, TypeOK

LEMMA WriteFailsInv == IInv /\ WriteFails => IInv'
<1> SUFFICES ASSUME IInv, WriteFails PROVE IInv'
  OBVIOUS
<1> USE DEF IInv, WriteFails
<1>1. TypeOK'
  BY DEF TypeOK
<1> QED
  BY <1>1 DEF Readable

LEMMA CrashInv == IInv /\ Crash => IInv'
<1> SUFFICES ASSUME IInv, Crash PROVE IInv'
  OBVIOUS
<1> USE DEF IInv, Crash
<1>1. Len(<<>>) = 0 /\ <<>> \in Seq(1 .. MaxID) /\ 1 \in 1 .. MaxID + 1 /\ 0 <= Cap
  BY ConstantFacts
<1>2. TypeOK'
  BY <1>1 DEF TypeOK
<1>3. Consecutive(entries', nextID')
  BY <1>1 DEF Consecutive
<1> QED
  BY <1>2, <1>3 DEF Readable

\* A restart from a readable file resumes what was saved.
LEMMA NewStoreResumes ==
  ASSUME IInv, NewStore, Readable
  PROVE  entries' = saved.entries /\ nextID' = saved.nextID
<1>1. file = saved.entries /\ entries' = file /\ nextID' = nextAfter(file)
  BY DEF IInv, NewStore
<1>2. saved.entries \in Seq(1 .. MaxID) /\ saved.nextID \in 1 .. MaxID + 1
  BY DEF IInv, TypeOK
<1>3. nextAfter(saved.entries) = saved.nextID
  BY <1>2, NextAfterConsecutive DEF IInv
<1> QED
  BY <1>1, <1>3

LEMMA NewStoreInv == IInv /\ NewStore => IInv'
<1> SUFFICES ASSUME IInv, NewStore PROVE IInv'
  OBVIOUS
<1> USE DEF IInv
<1>1. UNCHANGED <<file, pc, saved>> /\ up' = TRUE
  BY DEF NewStore
<1>2. CASE Readable
  <2>1. entries' = saved.entries /\ nextID' = saved.nextID
    BY <1>2, NewStoreResumes
  <2>2. TypeOK'
    BY <1>1, <2>1 DEF TypeOK
  <2> QED
    BY <1>1, <2>1, <2>2 DEF Readable
<1>3. CASE ~Readable
  <2>1. UNCHANGED <<entries, nextID>>
    BY <1>3 DEF NewStore
  <2>2. TypeOK'
    BY <1>1, <2>1 DEF TypeOK
  <2> QED
    BY <1>1, <2>1, <2>2 DEF Readable
<1> QED
  BY <1>2, <1>3

LEMMA NextInv == IInv /\ [Next]_vars => IInv'
<1> SUFFICES ASSUME IInv, [Next]_vars PROVE IInv'
  OBVIOUS
<1>1. CASE UNCHANGED vars
  BY <1>1 DEF vars, IInv, TypeOK, Consecutive, Readable
<1>2. CASE Next
  BY <1>2, RecordInv, ClearInv, TruncateInv, WriteInv, WriteFailsInv, CrashInv,
     NewStoreInv DEF Next
<1> QED
  BY <1>1, <1>2

-----------------------------------------------------------------------------

LEMMA InductiveInvariant == Spec => []IInv
  BY InitInv, NextInv, PTL DEF Spec

\* Every variable keeps its type, and the list its cap.
THEOREM TypeCorrect == Spec => []TypeOK
  BY InductiveInvariant, PTL DEF IInv

\* IDs are unique, in order and gapless, through every crash and restart.
THEOREM IDsAreConsecutive == Spec => []IDsConsecutive
<1>1. IInv => IDsConsecutive
  <2> SUFFICES ASSUME IInv, NEW i \in DOMAIN entries PROVE entries[i] + i = nextID
    BY DEF IDsConsecutive
  <2>1. DOMAIN entries = 1 .. Len(entries)
    BY DEF IInv, TypeOK
  <2> QED
    BY <2>1 DEF IInv, Consecutive
<1> QED
  BY <1>1, InductiveInvariant, PTL

\* A restart from a readable file restores the list and nextID last saved.
THEOREM RestartResumes == Spec => ResumesWhatWasSaved
<1>1. IInv /\ [Next]_vars
        => [NewStore /\ Readable
              => entries' = saved.entries /\ nextID' = saved.nextID]_vars
  BY NewStoreResumes
<1> QED
  BY <1>1, InductiveInvariant, PTL DEF Spec, ResumesWhatWasSaved

-----------------------------------------------------------------------------
(* The handlers *)

Handled ==
    [phase : {"executing", "executed", "saving", "saved", "answered"},
     op : {"query", "clear"}, id : Nat, epoch : Nat]

ReqOK ==
    /\ req \in [Requests -> {Idle} \cup Handled]
    /\ epoch \in Nat
    /\ \A r \in Requests : req[r] \in Handled => req[r].epoch <= epoch

\* The operation that saves is that of the holder of the lock.
HolderOK ==
    pc \in {"save", "write"} => holder \in Requests /\ req[holder].phase = "saving"

\* The query of r was recorded, and nothing was cleared or restarted since.
IsRecorded(r) ==
    /\ up
    /\ req[r].phase \in {"saving", "saved", "answered"}
    /\ req[r].op = "query"
    /\ req[r].epoch = epoch

Listed(id, next, list) ==
    /\ id < next
    /\ next - id <= Cap => next - id <= Len(list)

RecordedOK ==
    \A r \in Requests : IsRecorded(r) =>
      /\ Listed(req[r].id, nextID, entries)
      /\ \A s \in Requests \ {r} : IsRecorded(s) => req[s].id # req[r].id

AInv == IInv /\ ReqOK /\ HolderOK /\ RecordedOK

-----------------------------------------------------------------------------
(* The server uses the history as History describes *)

LEMMA StepOfHistory == [ANext]_apiVars => [Next]_vars
<1> SUFFICES ASSUME [ANext]_apiVars PROVE [Next]_vars
  OBVIOUS
<1>1. ASSUME NEW r \in Requests, NEW op \in {"query", "clear"}, Accept(r, op)
      PROVE  [Next]_vars
  BY <1>1 DEF Accept
<1>2. ASSUME NEW r \in Requests,
             Execute(r) \/ RecordEntry(r) \/ ClearHistory(r) \/ Respond(r)
      PROVE  [Next]_vars
  BY <1>2 DEF Execute, RecordEntry, ClearHistory, Respond, Next
<1>3. CASE StartSave \/ EndSave \/ Signal \/ BeginShutdown \/ EndShutdown \/ Exit \/ Restart
  BY <1>3 DEF StartSave, EndSave, Signal, BeginShutdown, EndShutdown, Exit, Restart, Next
<1>4. CASE UNCHANGED apiVars
  BY <1>4 DEF apiVars
<1> QED
  BY <1>1, <1>2, <1>3, <1>4 DEF ANext

\* The handlers, the shutdown and the restarts of cmd/api do to the history store what
\* its own specification allows.
THEOREM HistoryIsImplemented == ASpec => Spec
<1>1. AInit => Init
  BY DEF AInit
<1> QED
  BY <1>1, StepOfHistory, PTL DEF ASpec, Spec

-----------------------------------------------------------------------------
(* Facts about the pieces *)

LEMMA HistoryTypes ==
  ASSUME IInv
  PROVE  /\ nextID \in Nat /\ nextID >= 1 /\ Len(entries) \in Nat
         /\ Cap \in Nat /\ Cap >= 1
BY ConstantFacts DEF IInv, TypeOK

\* A step that changes neither the history nor a request's record keeps them listed.
LEMMA RecordsKept ==
  ASSUME RecordedOK, UNCHANGED <<entries, nextID>>,
         \A r \in Requests : IsRecorded(r)' => IsRecorded(r) /\ req'[r].id = req[r].id
  PROVE  RecordedOK'
<1> SUFFICES ASSUME NEW r \in Requests, IsRecorded(r)'
             PROVE  /\ Listed(req'[r].id, nextID', entries')
                    /\ \A s \in Requests \ {r} : IsRecorded(s)' => req'[s].id # req'[r].id
  BY DEF RecordedOK, Listed
<1> QED
  BY DEF RecordedOK

\* Record moves every entry by one place, up to the cap, and puts its own in front.
LEMMA RecordLists ==
  ASSUME IInv, Record
  PROVE  /\ nextID' = nextID + 1
         /\ \A id \in Nat : Listed(id, nextID, entries) \/ id = nextID =>
                            Listed(id, nextID', entries')
<1> DEFINE n == IF Len(entries) < Cap THEN Len(entries) + 1 ELSE Cap
<1>1. nextID' = nextID + 1 /\ DOMAIN entries' = 1 .. n
  BY DEF Record, Prepended
<1>2. n \in Nat
  BY HistoryTypes
<1>3. entries' \in Seq(1 .. MaxID)
  BY NextInv DEF Next, IInv, TypeOK
<1>4. Len(entries') = n
  <2> HIDE DEF n
  <2>1. DOMAIN entries' = 1 .. Len(entries') /\ Len(entries') \in Nat
    BY <1>3
  <2> QED
    BY <1>1, <1>2, <2>1
<1> QED
  BY <1>1, <1>4, HistoryTypes DEF Listed

-----------------------------------------------------------------------------
(* The steps *)

LEMMA AInitOK == AInit => AInv
<1> SUFFICES ASSUME AInit PROVE AInv
  OBVIOUS
<1>1. IInv
  BY InitInv DEF AInit
<1>2. \A r \in Requests : req[r] = Idle
  BY DEF AInit
<1>3. Idle.phase = "idle" /\ Idle \notin Handled
  BY DEF Idle, Handled
<1>4. ReqOK
  BY <1>2, <1>3 DEF AInit, ReqOK
<1>5. HolderOK
  BY DEF AInit, Init, HolderOK
<1>6. RecordedOK
  BY <1>2, <1>3 DEF RecordedOK, IsRecorded
<1> QED
  BY <1>1, <1>4, <1>5, <1>6 DEF AInv

LEMMA AcceptOK ==
  ASSUME AInv, NEW r \in Requests, NEW op \in {"query", "clear"}, Accept(r, op)
  PROVE  AInv'
<1> DEFINE new == [phase |-> "executing", op |-> op, id |-> 0, epoch |-> epoch]
<1>1. /\ req' = [req EXCEPT ![r] = new] /\ ~InFlight(r)
      /\ UNCHANGED <<vars, holder, epoch>>
  BY DEF Accept
<1>2. UNCHANGED <<up, entries, nextID, file, pc, saved>>
  BY <1>1 DEF vars
<1>3. new \in Handled /\ new.epoch = epoch /\ new.phase = "executing"
  BY DEF AInv, ReqOK, Handled
<1> HIDE DEF new
<1>4. \A s \in Requests : req'[s] = IF s = r THEN new ELSE req[s]
  BY <1>1 DEF AInv, ReqOK
<1>5. IInv'
  BY <1>1, NextInv DEF AInv
<1>6. ReqOK'
  BY <1>1, <1>3, <1>4 DEF AInv, ReqOK
<1>7. HolderOK'
  BY <1>1, <1>2, <1>4 DEF AInv, HolderOK, InFlight
<1>8. RecordedOK'
  <2>1. ASSUME NEW s \in Requests, IsRecorded(s)'
        PROVE  IsRecorded(s) /\ req'[s].id = req[s].id
    BY <1>1, <1>2, <1>3, <1>4, <2>1 DEF IsRecorded
  <2> QED
    BY <1>2, <2>1, RecordsKept DEF AInv
<1> QED
  BY <1>5, <1>6, <1>7, <1>8 DEF AInv

\* A step of one request that only advances its phase, other than to or from "saving".
LEMMA AdvanceOK ==
  ASSUME AInv, NEW r \in Requests, NEW phase \in {"executed", "answered"},
         req[r].phase # "saving",
         phase = "executed" => req[r].phase = "executing",
         phase = "answered" => req[r].phase = "saved",
         req' = [req EXCEPT ![r].phase = phase],
         UNCHANGED <<vars, holder, epoch>>
  PROVE  AInv'
<1>1. UNCHANGED <<up, entries, nextID, file, pc, saved>>
  BY DEF vars
<1>2. req[r] \in Handled
  BY DEF AInv, ReqOK, Idle
<1> DEFINE new == [req[r] EXCEPT !.phase = phase]
<1>3. /\ new \in Handled /\ new.phase = phase /\ new.op = req[r].op
      /\ new.id = req[r].id /\ new.epoch = req[r].epoch
  BY <1>2 DEF Handled
<1>4. \A s \in Requests : req'[s] = IF s = r THEN new ELSE req[s]
  BY DEF AInv, ReqOK
<1>5. req' \in [Requests -> {Idle} \cup Handled]
  BY <1>2, <1>3 DEF AInv, ReqOK
<1> HIDE DEF new
<1>6. IInv'
  BY NextInv DEF AInv
<1>7. ReqOK'
  BY <1>2, <1>3, <1>4, <1>5 DEF AInv, ReqOK
<1>8. HolderOK'
  BY <1>1, <1>4 DEF AInv, HolderOK
<1>9. RecordedOK'
  <2>1. ASSUME NEW s \in Requests, IsRecorded(s)'
        PROVE  IsRecorded(s) /\ req'[s].id = req[s].id
    BY <1>1, <1>3, <1>4, <2>1 DEF IsRecorded
  <2> QED
    BY <1>1, <2>1, RecordsKept DEF AInv
<1> QED
  BY <1>6, <1>7, <1>8, <1>9 DEF AInv

LEMMA RecordEntryOK ==
  ASSUME AInv, NEW r \in Requests, RecordEntry(r)
  PROVE  AInv'
<1>1. /\ req[r].phase = "executed" /\ Record /\ holder' = r /\ epoch' = epoch
      /\ req' = [req EXCEPT ![r].phase = "saving", ![r].id = nextID, ![r].epoch = epoch]
  BY DEF RecordEntry
<1>2. req[r] \in Handled /\ nextID \in Nat /\ epoch \in Nat
  BY <1>1, HistoryTypes DEF AInv, ReqOK, Idle
<1> DEFINE new == [req[r] EXCEPT !.phase = "saving", !.id = nextID, !.epoch = epoch]
<1>3. /\ new \in Handled /\ new.phase = "saving" /\ new.op = req[r].op
      /\ new.id = nextID /\ new.epoch = epoch
  BY <1>2 DEF Handled
<1>4. req' = [req EXCEPT ![r] = new]
  BY <1>1, <1>2 DEF AInv, ReqOK
<1> HIDE DEF new
<1>5. /\ \A s \in Requests : req'[s] = IF s = r THEN new ELSE req[s]
      /\ req' \in [Requests -> {Idle} \cup Handled]
  BY <1>3, <1>4 DEF AInv, ReqOK
<1>6. IInv'
  BY <1>1, NextInv DEF AInv, Next
<1>7. ReqOK'
  BY <1>1, <1>2, <1>3, <1>5 DEF AInv, ReqOK
<1>8. HolderOK'
  BY <1>1, <1>3, <1>5 DEF HolderOK
<1>9. RecordedOK'
  <2>1. up' = up
    BY <1>1 DEF Record
  <2>2. \A s \in Requests \ {r} : IsRecorded(s)' => IsRecorded(s) /\ req'[s] = req[s]
    BY <1>1, <1>5, <2>1 DEF IsRecorded
  <2>3. \A s \in Requests \ {r} : IsRecorded(s) => req[s].id \in Nat /\ Listed(req[s].id, nextID, entries)
    BY DEF AInv, RecordedOK, ReqOK, IsRecorded, Idle, Handled
  <2>4. \A s \in Requests \ {r} : IsRecorded(s) => req[s].id # nextID
    BY <1>2, <2>3 DEF Listed
  <2>5. req'[r].id = nextID
    BY <1>3, <1>5
  <2>6. ASSUME NEW s \in Requests, IsRecorded(s)'
        PROVE  /\ Listed(req'[s].id, nextID', entries')
               /\ \A q \in Requests \ {s} : IsRecorded(q)' => req'[q].id # req'[s].id
    <3>1. Listed(req'[s].id, nextID', entries')
      BY <1>1, <1>2, <2>2, <2>3, <2>5, <2>6, RecordLists DEF AInv
    <3>2. ASSUME NEW q \in Requests \ {s}, IsRecorded(q)'
          PROVE  req'[q].id # req'[s].id
      BY <2>2, <2>4, <2>5, <2>6, <3>2 DEF AInv, RecordedOK
    <3> QED
      BY <3>1, <3>2
  <2> QED
    BY <2>6 DEF RecordedOK
<1> QED
  BY <1>6, <1>7, <1>8, <1>9 DEF AInv

\* No request is recorded in the epoch that a clear or a restart begins.
LEMMA ClearHistoryOK ==
  ASSUME AInv, NEW r \in Requests, ClearHistory(r)
  PROVE  AInv'
<1>1. /\ req[r].phase = "executing" /\ Clear /\ holder' = r /\ epoch' = epoch + 1
      /\ req' = [req EXCEPT ![r].phase = "saving"]
  BY DEF ClearHistory
<1>2. req[r] \in Handled /\ epoch \in Nat
  BY <1>1 DEF AInv, ReqOK, Idle
<1> DEFINE new == [req[r] EXCEPT !.phase = "saving"]
<1>3. new \in Handled /\ new.phase = "saving" /\ new.epoch = req[r].epoch
  BY <1>2 DEF Handled
<1>4. /\ \A s \in Requests : req'[s] = IF s = r THEN new ELSE req[s]
      /\ req' \in [Requests -> {Idle} \cup Handled]
  BY <1>1, <1>2, <1>3 DEF AInv, ReqOK
<1> HIDE DEF new
<1>5. \A s \in Requests : req'[s] \in Handled => req'[s].epoch <= epoch
  BY <1>2, <1>3, <1>4 DEF AInv, ReqOK
<1>6. IInv'
  BY <1>1, NextInv DEF AInv, Next
<1>7. ReqOK'
  <2>1. \A s \in Requests : req'[s] \in Handled => req'[s].epoch \in Nat
    BY DEF Handled
  <2> QED
    BY <1>1, <1>2, <1>4, <1>5, <2>1 DEF ReqOK
<1>8. HolderOK'
  BY <1>1, <1>3, <1>4 DEF HolderOK
<1>9. RecordedOK'
  <2>1. \A s \in Requests : ~IsRecorded(s)'
    <3> SUFFICES ASSUME NEW s \in Requests, IsRecorded(s)' PROVE FALSE
      OBVIOUS
    <3>1. req'[s] \in Handled
      BY <1>4 DEF IsRecorded, Idle
    <3>2. req'[s].epoch \in Nat /\ req'[s].epoch <= epoch /\ req'[s].epoch = epoch + 1
      BY <1>1, <1>5, <3>1 DEF IsRecorded, Handled
    <3> QED
      BY <1>2, <3>2
  <2> QED
    BY <2>1 DEF RecordedOK
<1> QED
  BY <1>6, <1>7, <1>8, <1>9 DEF AInv

LEMMA StartSaveOK == ASSUME AInv, StartSave PROVE AInv'
<1>1. Truncate /\ UNCHANGED <<req, holder, epoch>>
  BY DEF StartSave
<1>2. pc = "save" /\ UNCHANGED <<up, entries, nextID>>
  BY <1>1 DEF Truncate
<1>3. IInv'
  BY <1>1, NextInv DEF AInv, Next
<1>4. ReqOK' /\ HolderOK'
  BY <1>1, <1>2 DEF AInv, ReqOK, HolderOK
<1>5. RecordedOK'
  BY <1>1, <1>2 DEF AInv, RecordedOK, IsRecorded, Listed
<1> QED
  BY <1>3, <1>4, <1>5 DEF AInv

LEMMA EndSaveOK == ASSUME AInv, EndSave PROVE AInv'
<1>1. /\ Write \/ WriteFails
      /\ req' = [req EXCEPT ![holder].phase = "saved"]
      /\ epoch' = epoch
  BY DEF EndSave
<1>2. pc \in {"save", "write"} /\ pc' = "idle" /\ UNCHANGED <<up, entries, nextID>>
  BY <1>1 DEF Write, WriteFails
<1>3. holder \in Requests /\ req[holder].phase = "saving" /\ req[holder] \in Handled
  BY <1>2 DEF AInv, HolderOK, ReqOK, Idle
<1> DEFINE new == [req[holder] EXCEPT !.phase = "saved"]
<1>4. /\ new \in Handled /\ new.phase = "saved" /\ new.op = req[holder].op
      /\ new.id = req[holder].id /\ new.epoch = req[holder].epoch
  BY <1>3 DEF Handled
<1>5. /\ \A s \in Requests : req'[s] = IF s = holder THEN new ELSE req[s]
      /\ req' \in [Requests -> {Idle} \cup Handled]
  BY <1>1, <1>3, <1>4 DEF AInv, ReqOK
<1> HIDE DEF new
<1>6. IInv'
  BY <1>1, NextInv DEF AInv, Next
<1>7. ReqOK' /\ HolderOK'
  BY <1>1, <1>2, <1>3, <1>4, <1>5 DEF AInv, ReqOK, HolderOK
<1>8. RecordedOK'
  <2>1. ASSUME NEW s \in Requests, IsRecorded(s)'
        PROVE  IsRecorded(s) /\ req'[s].id = req[s].id
    BY <1>1, <1>2, <1>3, <1>4, <1>5, <2>1 DEF IsRecorded
  <2> QED
    BY <1>2, <2>1, RecordsKept DEF AInv
<1> QED
  BY <1>6, <1>7, <1>8 DEF AInv

LEMMA ShutdownOK ==
  ASSUME AInv, UNCHANGED <<vars, req, holder, epoch>>
  PROVE  AInv'
<1>1. UNCHANGED <<up, entries, nextID, file, pc, saved>>
  BY DEF vars
<1>2. IInv'
  BY NextInv DEF AInv
<1> QED
  BY <1>1, <1>2 DEF AInv, ReqOK, HolderOK, RecordedOK, IsRecorded, Listed

LEMMA ExitOK == ASSUME AInv, Exit PROVE AInv'
<1>1. /\ Crash /\ epoch' = epoch
      /\ req' = [r \in Requests |-> IF InFlight(r) THEN Idle ELSE req[r]]
  BY DEF Exit
<1>2. up' = FALSE /\ pc' = "idle"
  BY <1>1 DEF Crash
<1>3. IInv'
  BY <1>1, NextInv DEF AInv, Next
<1>4. ReqOK'
  <2>1. Idle \notin Handled
    BY DEF Idle, Handled
  <2> QED
    BY <1>1, <2>1 DEF AInv, ReqOK
<1> QED
  BY <1>2, <1>3, <1>4 DEF AInv, HolderOK, RecordedOK, IsRecorded

LEMMA RestartOK == ASSUME AInv, Restart PROVE AInv'
<1>1. NewStore /\ epoch' = epoch + 1 /\ req' = [r \in Requests |-> Idle]
  BY DEF Restart
<1>2. ~up /\ pc' = pc
  BY <1>1 DEF NewStore
<1>3. Idle.phase = "idle" /\ Idle \notin Handled
  BY DEF Idle, Handled
<1>4. IInv'
  BY <1>1, NextInv DEF AInv, Next
<1>5. ReqOK'
  BY <1>1, <1>3 DEF AInv, ReqOK
<1>6. HolderOK'
  BY <1>2 DEF AInv, IInv, HolderOK
<1>7. RecordedOK'
  BY <1>1, <1>3 DEF RecordedOK, IsRecorded
<1> QED
  BY <1>4, <1>5, <1>6, <1>7 DEF AInv

LEMMA AStepOK == AInv /\ [ANext]_apiVars => AInv'
<1> SUFFICES ASSUME AInv, [ANext]_apiVars PROVE AInv'
  OBVIOUS
<1>1. ASSUME NEW r \in Requests, NEW op \in {"query", "clear"}, Accept(r, op) PROVE AInv'
  BY <1>1, AcceptOK
<1>2. ASSUME NEW r \in Requests, Execute(r) \/ Respond(r) PROVE AInv'
  BY <1>2, AdvanceOK DEF Execute, Respond
<1>3. ASSUME NEW r \in Requests, RecordEntry(r) PROVE AInv'
  BY <1>3, RecordEntryOK
<1>4. ASSUME NEW r \in Requests, ClearHistory(r) PROVE AInv'
  BY <1>4, ClearHistoryOK
<1>5. CASE StartSave \/ EndSave
  BY <1>5, StartSaveOK, EndSaveOK
<1>6. CASE Signal \/ BeginShutdown \/ EndShutdown \/ UNCHANGED apiVars
  BY <1>6, ShutdownOK DEF Signal, BeginShutdown, EndShutdown, apiVars
<1>7. CASE Exit \/ Restart
  BY <1>7, ExitOK, RestartOK
<1> QED
  BY <1>1, <1>2, <1>3, <1>4, <1>5, <1>6, <1>7 DEF ANext

-----------------------------------------------------------------------------

\* A recorded entry that the cap leaves in the list is there once.
LEMMA ListedOnce ==
  ASSUME IInv, NEW id \in Nat, Listed(id, nextID, entries), nextID - id <= Cap
  PROVE  Cardinality({i \in DOMAIN entries : entries[i] = id}) = 1
<1>1. DOMAIN entries = 1 .. Len(entries) /\ Len(entries) \in Nat
  BY DEF IInv, TypeOK
<1>2. \A i \in 1 .. Len(entries) : entries[i] + i = nextID /\ entries[i] \in Nat
  <2>1. \A i \in 1 .. Len(entries) : entries[i] \in 1 .. MaxID
    <3>1. entries \in Seq(1 .. MaxID)
      BY DEF IInv, TypeOK
    <3> QED
      BY <3>1, ElementOfSeq
  <2> QED
    BY <2>1, ConstantFacts DEF IInv, Consecutive
<1>3. nextID - id \in 1 .. Len(entries)
  BY <1>1, HistoryTypes DEF Listed
<1>4. {i \in DOMAIN entries : entries[i] = id} = {nextID - id}
  <2>1. \A i \in 1 .. Len(entries) : entries[i] = id <=> i = nextID - id
    BY <1>2, HistoryTypes
  <2> QED
    BY <1>1, <1>3, <2>1
<1> QED
  BY <1>4, FS_Singleton

\* The query of every answered request is in the history once, under an ID of its own,
\* unless it was cleared, the program restarted, or Cap newer queries were recorded:
\* concurrent handlers, failed saves and a shutdown lose no entry in memory.
THEOREM AnsweredAreListed == ASpec => []AnsweredIsListed
<1>1. AInv => AnsweredIsListed
  <2> SUFFICES ASSUME AInv, NEW r \in Requests, up, req[r].phase = "answered",
                      req[r].op = "query", req[r].epoch = epoch
               PROVE  /\ \/ nextID - req[r].id > Cap
                         \/ Cardinality({i \in DOMAIN entries : entries[i] = req[r].id}) = 1
                      /\ \A s \in Requests \ {r} :
                           (req[s].phase = "answered" /\ req[s].op = "query"
                              /\ req[s].epoch = epoch) => req[s].id # req[r].id
    BY DEF AnsweredIsListed
  <2>1. IsRecorded(r) /\ req[r].id \in Nat
    BY DEF IsRecorded, AInv, ReqOK, Idle, Handled
  <2>2. Listed(req[r].id, nextID, entries)
    BY <2>1 DEF AInv, RecordedOK
  <2>3. nextID - req[r].id > Cap \/ nextID - req[r].id <= Cap
    BY <2>1, HistoryTypes DEF AInv
  <2>4. \A s \in Requests \ {r} : IsRecorded(s) => req[s].id # req[r].id
    BY <2>1 DEF AInv, RecordedOK
  <2> QED
    BY <2>1, <2>2, <2>3, <2>4, ListedOnce DEF AInv, IsRecorded
<1> QED
  BY <1>1, AInitOK, AStepOK, PTL DEF ASpec
=============================================================================
