---------------------------- MODULE StdioServer ----------------------------
(***************************************************************************)
(* The MCP server on stdin and stdout (cmd/server, Server.ServeStdio): a   *)
(* loop that reads a line, handles the request in it and writes the        *)
(* response, and a goroutine that cancels the loop's context on a signal.  *)
(*                                                                         *)
(* Lines are numbered in the order in which the client sends them.  Text   *)
(* after the last newline is dropped when stdin ends, and is left out.     *)
(*                                                                         *)
(* A line is one of three kinds.  A "timed" request ends: it reaches no    *)
(* database, or is execute_query or resources/read, which run under a      *)
(* deadline.  An "untimed" one is a tool that calls a database without a   *)
(* deadline (stream_query, export_query, multi_source_query,               *)
(* cross_db_join, explain_query, execute_template, describe_databases,     *)
(* annotate_schema): it may last for ever, and two of them can panic.      *)
(* "garbage" is not JSON.                                                  *)
(***************************************************************************)
EXTENDS Naturals, Sequences

CONSTANTS MaxLines  \* bound on the lines a client sends

ASSUME StdioAssumption == MaxLines \in Nat

VARIABLES
    sent,      \* kinds of the lines sent
    closed,    \* the client has closed stdin
    broken,    \* the client has closed stdout
    signal,    \* "none", "raised" (in sigCh) or "received"
    cancelled, \* the context is cancelled
    pc,        \* the loop: "check", "read", "handle" or "done"
    nread,     \* lines read
    crashed,   \* a panic has ended the process
    answered,  \* history: the lines whose response was written
    late       \* history: lines read after the context was cancelled

loopVars == <<sent, closed, broken, signal, cancelled, pc, nread, crashed, answered, late>>

LineKinds == {"timed", "untimed", "garbage"}

LoopInit ==
    /\ sent = <<>>
    /\ closed = FALSE
    /\ broken = FALSE
    /\ signal = "none"
    /\ cancelled = FALSE
    /\ pc = "check"
    /\ nread = 0
    /\ crashed = FALSE
    /\ answered = <<>>
    /\ late = 0

-----------------------------------------------------------------------------
(* The client *)

SendLine(kind) ==
    /\ ~closed /\ Len(sent) < MaxLines
    /\ sent' = Append(sent, kind)
    /\ UNCHANGED <<closed, broken, signal, cancelled, pc, nread, answered, late, crashed>>

CloseStdin ==
    /\ ~closed
    /\ closed' = TRUE
    /\ UNCHANGED <<sent, broken, signal, cancelled, pc, nread, answered, late, crashed>>

CloseStdout ==
    /\ ~broken
    /\ broken' = TRUE
    /\ UNCHANGED <<sent, closed, signal, cancelled, pc, nread, answered, late, crashed>>

-----------------------------------------------------------------------------
(* Signals: sigCh has a buffer of one, and is received from once *)

Signal ==
    /\ signal = "none"
    /\ signal' = "raised"
    /\ UNCHANGED <<sent, closed, broken, cancelled, pc, nread, answered, late, crashed>>

Cancel ==
    /\ signal = "raised"
    /\ signal' = "received"
    /\ cancelled' = TRUE
    /\ UNCHANGED <<sent, closed, broken, pc, nread, answered, late, crashed>>

-----------------------------------------------------------------------------
(* The loop of ServeStdio *)

\* Mutant: the context is not looked at.
CheckNothing ==
    /\ pc = "check"
    /\ pc' = "read"
    /\ UNCHANGED <<sent, closed, broken, signal, cancelled, nread, answered, late, crashed>>

Check ==
    /\ pc = "check"
    /\ pc' = IF cancelled THEN "done" ELSE "read"
    /\ UNCHANGED <<sent, closed, broken, signal, cancelled, nread, answered, late, crashed>>

Respond == answered' = Append(answered, nread)

\* Mutant: a line that does not parse ends the loop, like one that cannot be read.
ReadGarbageFatal ==
    /\ pc = "read"
    /\ nread < Len(sent)
    /\ sent[nread + 1] = "garbage"
    /\ nread' = nread + 1
    /\ late' = IF cancelled THEN late + 1 ELSE late
    /\ pc' = "done"
    /\ UNCHANGED <<sent, closed, broken, signal, cancelled, answered, crashed>>

\* A line that does not parse is answered with an error.  A failure to write
\* that response is ignored; if stdout is a closed pipe, the write itself ends
\* the process (SIGPIPE).
ReadGarbage ==
    /\ pc = "read"
    /\ nread < Len(sent)
    /\ sent[nread + 1] = "garbage"
    /\ nread' = nread + 1
    /\ late' = IF cancelled THEN late + 1 ELSE late
    /\ \/ /\ ~broken
          /\ answered' = Append(answered, nread + 1)
          /\ pc' = "check"
       \/ /\ broken
          /\ pc' \in {"check", "done"}
          /\ UNCHANGED answered
    /\ UNCHANGED <<sent, closed, broken, signal, cancelled, crashed>>

ReadRequest ==
    /\ pc = "read"
    /\ nread < Len(sent)
    /\ sent[nread + 1] # "garbage"
    /\ nread' = nread + 1
    /\ late' = IF cancelled THEN late + 1 ELSE late
    /\ pc' = "handle"
    /\ UNCHANGED <<sent, closed, broken, signal, cancelled, answered, crashed>>

\* Mutant: the end of stdin is taken for a short read.
ReadEOFIgnored ==
    /\ pc = "read"
    /\ closed /\ nread = Len(sent)
    /\ pc' = "check"
    /\ UNCHANGED <<sent, closed, broken, signal, cancelled, nread, answered, late, crashed>>

ReadEOF ==
    /\ pc = "read"
    /\ closed /\ nread = Len(sent)
    /\ pc' = "done"
    /\ UNCHANGED <<sent, closed, broken, signal, cancelled, nread, answered, late, crashed>>

\* Every method, and every failure of it, yields one response; a response that
\* cannot be written ends the loop.
Handle ==
    /\ pc = "handle"
    /\ \/ /\ ~broken
          /\ Respond
          /\ pc' = "check"
       \/ /\ broken
          /\ pc' = "done"
          /\ UNCHANGED answered
    /\ UNCHANGED <<sent, closed, broken, signal, cancelled, nread, late, crashed>>

InUntimedCall == pc = "handle" /\ sent[nread] = "untimed"

\* Nothing recovers a panic in a handler: Neo4j's discovery in annotate_schema, and
\* cross_db_join on a value that no Go map takes as a key.
Panic ==
    /\ InUntimedCall
    /\ crashed' = TRUE
    /\ pc' = "done"
    /\ UNCHANGED <<sent, closed, broken, signal, cancelled, nread, answered, late>>

ReadLine == ReadGarbage \/ ReadRequest \/ ReadEOF

LoopNext ==
    \/ \E kind \in LineKinds : SendLine(kind)
    \/ CloseStdin
    \/ CloseStdout
    \/ Signal
    \/ Cancel
    \/ Check
    \/ ReadLine
    \/ Handle
    \/ Panic

LoopSpec == LoopInit /\ [][LoopNext]_loopVars

\* The loop and the signal goroutine run, and a timed request ends, at its deadline
\* if not before.  Nothing makes an untimed one end.  ReadBytes returns only when a
\* line or the end of stdin is there.
LoopFairness ==
    /\ WF_loopVars(Cancel)
    /\ WF_loopVars(Check) /\ WF_loopVars(ReadLine)
    /\ WF_loopVars(Handle /\ ~InUntimedCall)

FairSpec == LoopSpec /\ LoopFairness

-----------------------------------------------------------------------------
(* Properties *)

\* Once the context is cancelled, at most the read that was already waiting is
\* still served: no second line is taken after a signal.
OneLateLine == late <= 1 /\ (late = 1 => pc # "read")

\* No call lasts for ever.
UntimedCallsEnd == []<>~InUntimedCall

AllTimed(lines) == \A n \in lines : sent[n] # "untimed"

\* While stdout is open, every line the client sends is answered, in the order of the
\* lines, garbage or not, unless a signal ends the loop before: the lines ahead of
\* the first untimed request in any case, and the others if no untimed call lasts for
\* ever or ends the process.  So nothing but the calls without a deadline
\* (server.go:405 gives one to execute_query alone) holds a client up.
EveryLineAnswered ==
    \A n \in 1 .. MaxLines :
      LET arrived  == Len(sent) >= n
          replied == Len(answered) >= n /\ answered[n] = n
      IN  /\ arrived /\ AllTimed(1 .. n) ~> broken \/ cancelled \/ replied
          /\ UntimedCallsEnd => (arrived ~> broken \/ cancelled \/ crashed \/ replied)

\* The server ends when its client is gone, unless it is in an untimed call that
\* lasts for ever.
ClientGone ==
    /\ closed /\ AllTimed(1 .. Len(sent)) ~> pc = "done"
    /\ UntimedCallsEnd => (closed ~> pc = "done")

\* "Handle shutdown signals" (cmd/server/main.go:31), "Shutting down..."
\* (main.go:36): a signal ends the server, even if every call of a database ends.
SignalEnds == UntimedCallsEnd => (signal = "raised" ~> pc = "done")
=============================================================================
