------------------------------ MODULE History ------------------------------
(***************************************************************************)
(* internal/history: the query history, a list in memory (newest first,    *)
(* the last Cap entries) that every change rewrites to one JSON file.      *)
(*                                                                         *)
(* Record and Clear hold Store.mu until the file is written, so operations *)
(* do not interleave; but os.WriteFile truncates the file before it writes *)
(* it, a write may fail, and the process may die at any point.  An entry   *)
(* is represented by its ID; the data of the query and the filters of List *)
(* are left out.                                                           *)
(***************************************************************************)
EXTENDS Integers, Sequences

CONSTANTS
    Cap,     \* entries kept: 1000 in the code
    Absent,  \* content of a file that does not exist
    Torn,    \* content of a file that was truncated or partly written
    MaxID    \* bound on the IDs handed out

ASSUME HistoryAssumption ==
    /\ Cap \in Nat \ {0}
    /\ MaxID \in Nat
    /\ Absent \notin Seq(Nat)
    /\ Torn \notin Seq(Nat)

VARIABLES
    up,       \* the process runs
    entries,  \* s.entries
    nextID,   \* s.nextID
    file,     \* what the file holds
    pc,       \* "idle", or how far save has got: "save", then "write"
    saved     \* history: entries and nextID when the file was last written

vars == <<up, entries, nextID, file, pc, saved>>

Fresh == [entries |-> <<>>, nextID |-> 1]

Init ==
    /\ up      = TRUE
    /\ entries = <<>>
    /\ nextID  = 1
    /\ file    = Absent
    /\ pc      = "idle"
    /\ saved   = Fresh

-----------------------------------------------------------------------------

\* Mutant: the cap cuts the list at the wrong end.
PrependedKeepOld ==
    IF Len(entries) < Cap
    THEN [i \in 1 .. Len(entries) + 1 |-> IF i = 1 THEN nextID ELSE entries[i - 1]]
    ELSE entries

\* The new entry in front, and the Cap newest of them kept.
Prepended ==
    [i \in 1 .. (IF Len(entries) < Cap THEN Len(entries) + 1 ELSE Cap) |->
       IF i = 1 THEN nextID ELSE entries[i - 1]]

Record ==
    /\ up /\ pc = "idle"
    /\ nextID <= MaxID
    /\ entries' = Prepended
    /\ nextID'  = nextID + 1
    /\ pc'      = "save"
    /\ UNCHANGED <<up, file, saved>>

\* Mutant: clearing does not restart the IDs.
ClearEntriesOnly ==
    /\ up /\ pc = "idle"
    /\ entries' = <<>>
    /\ pc'      = "save"
    /\ UNCHANGED <<up, nextID, file, saved>>

Clear ==
    /\ up /\ pc = "idle"
    /\ entries' = <<>>
    /\ nextID'  = 1
    /\ pc'      = "save"
    /\ UNCHANGED <<up, file, saved>>

\* save: os.WriteFile opens the file, which empties it, ...
Truncate ==
    /\ pc   = "save"
    /\ pc'  = "write"
    /\ file' = Torn
    /\ UNCHANGED <<up, entries, nextID, saved>>

\* ... writes it, and the operation returns.
Write ==
    /\ pc    = "write"
    /\ pc'   = "idle"
    /\ file' = entries
    /\ saved' = [entries |-> entries, nextID |-> nextID]
    /\ UNCHANGED <<up, entries, nextID>>

\* Opening or writing fails: the operation returns an error and leaves the
\* list as it is in memory.
WriteFails ==
    /\ pc \in {"save", "write"}
    /\ pc' = "idle"
    /\ UNCHANGED <<up, entries, nextID, file, saved>>

-----------------------------------------------------------------------------
(* The process *)

Crash ==
    /\ up
    /\ up'      = FALSE
    /\ entries' = <<>>
    /\ nextID'  = 1
    /\ pc'      = "idle"
    /\ UNCHANGED <<file, saved>>

\* Mutant: the next ID is taken from the number of entries.
nextAfterLen(list) == Len(list) + 1

\* NewStore's loop over the loaded entries: one more than the largest ID.
nextAfter(list) ==
    CHOOSE n \in 1 .. MaxID + 1 :
      /\ \A i \in DOMAIN list : list[i] < n
      /\ n = 1 \/ \E i \in DOMAIN list : list[i] = n - 1

Readable == file \notin {Absent, Torn}

\* NewStore.  A file that is absent or does not parse is an empty history.
NewStore ==
    /\ ~up
    /\ up' = TRUE
    /\ IF Readable
       THEN entries' = file /\ nextID' = nextAfter(file)
       ELSE UNCHANGED <<entries, nextID>>
    /\ UNCHANGED <<file, pc, saved>>

Next ==
    \/ Record
    \/ Clear
    \/ Truncate
    \/ Write
    \/ WriteFails
    \/ Crash
    \/ NewStore

Spec == Init /\ [][Next]_vars

-----------------------------------------------------------------------------
(* Properties *)

TypeOK ==
    /\ up      \in BOOLEAN
    /\ entries \in Seq(1 .. MaxID) /\ Len(entries) <= Cap
    /\ nextID  \in 1 .. MaxID + 1
    /\ file    \in Seq(1 .. MaxID) \cup {Absent, Torn}
    /\ pc      \in {"idle", "save", "write"}
    /\ saved   \in [entries : Seq(1 .. MaxID), nextID : 1 .. MaxID + 1]

\* The list holds consecutive IDs, newest first, ending just below nextID.
\* So IDs are unique and in order after any number of restarts, clears, failed
\* writes and evictions, although nextID is not stored in the file.
IDsConsecutive == \A i \in DOMAIN entries : entries[i] + i = nextID

\* A restart from a readable file resumes with the list and the next ID that
\* were last written, no matter which operations failed or were cut off since.
ResumesWhatWasSaved ==
    [][NewStore /\ Readable
         => entries' = saved.entries /\ nextID' = saved.nextID]_vars

=============================================================================
