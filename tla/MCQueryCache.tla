---------------------------- MODULE MCQueryCache ----------------------------
(***************************************************************************)
(* Small instances of QueryCache for TLC.                                  *)
(***************************************************************************)
EXTENDS QueryCache

Results == [readAt : 0 .. MaxTime, clears : 0 .. MaxClears, ttl : TTLs]

Symmetry == Permutations(Requests)

\* Of the behaviours in which a database that does not heed its deadline is asked, those
\* in which it is asked once, at first, and answers late, with nothing cleared meanwhile.
\* Otherwise requests of other keys meet only in the eviction of ResultCache.
OneLateAnswer ==
    LET deaf == {r \in Requests : req[r] # Idle /\ req[r].key \in Deaf}
    IN  /\ Cardinality(deaf) <= 1
        /\ \A r \in deaf :
             /\ req[r].submitted = 0 /\ req[r].ttl = 1 /\ req[r].useCache
             /\ req[r].phase = "answered" => req[r].answered > Timeout
             /\ clears = <<>>
=============================================================================
