---------------------------- MODULE IdealLimiter ----------------------------
(***************************************************************************)
(* What a token-bucket limiter promises: every client owns a bucket that   *)
(* exists for ever, is refilled by time and by a reset of that client, and *)
(* answers a request by whether it holds a whole token.  Every call leaves *)
(* a mark in answer, so that no refill passes for another.  Nothing is     *)
(* said about when a bucket is computed, created or discarded.             *)
(***************************************************************************)
EXTENDS Integers

CONSTANTS
    Keys,   \* clients
    Rate,   \* units refilled per clock tick
    Token,  \* units that make one token, the price of a request
    Burst,  \* tokens a full bucket holds
    NoAnswer

Full == Burst * Token

AtMostFull(x) == IF x > Full THEN Full ELSE x

VARIABLES
    level,  \* units in each client's bucket
    answer  \* the last call of a client and its answer, or NoAnswer

vars == <<level, answer>>

Init == level = [k \in Keys |-> Full] /\ answer = NoAnswer

Tick == /\ level' = [k \in Keys |-> AtMostFull(level[k] + Rate)]
        /\ UNCHANGED answer

Grant(k) == /\ level[k] >= Token
            /\ level' = [level EXCEPT ![k] = @ - Token]
            /\ answer' = <<k, "granted">>

Deny(k) == /\ level[k] < Token
           /\ answer' = <<k, "denied">>
           /\ UNCHANGED level

Remaining(k) == /\ answer' = <<k, "remaining", level[k] \div Token>>
                /\ UNCHANGED level

Reset(k) == /\ level' = [level EXCEPT ![k] = Full]
            /\ answer' = <<k, "reset">>

Next == Tick \/ \E k \in Keys : Grant(k) \/ Deny(k) \/ Remaining(k) \/ Reset(k)

Spec == Init /\ [][Next]_vars
=============================================================================
