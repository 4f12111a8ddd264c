------------------------------- MODULE KhMap -------------------------------
(***************************************************************************)
(* What the hash table of khash.h promises to the functions that keep the  *)
(* sockets of an engine in it: a map from tuples to the pointer that was   *)
(* stored as key and the socket that is the value.                         *)
(***************************************************************************)
EXTENDS Integers, Functions

CONSTANTS
    Key,    \* sockets, each with a pointer to its tuple
    Tup     \* the tuple of each

VARIABLES
    table,  \* tuples to keys and values
    ret     \* what the last kh_put() reported

mapVars == <<table, ret>>

\* kh_put() with the assignment to kh_val(): an old key stays.
Put(p) ==
    LET t == Tup[p]
        known == t \in DOMAIN table
    IN  /\ ret' \in IF known THEN {0} ELSE {1, 2}
        /\ table' = [u \in DOMAIN table \cup {t} |->
                       IF u # t THEN table[u]
                       ELSE [key |-> IF known THEN table[t].key ELSE p, val |-> p]]

\* kh_put() without memory for a larger table.
PutFails == ret' = -1 /\ UNCHANGED table

\* kh_get() and kh_del().
Del(p) == UNCHANGED ret /\ table' = Restrict(table, DOMAIN table \ {Tup[p]})

\* kh_release(), and the empty table of another engine.
Release == ret' = 0 /\ DOMAIN table = {} /\ UNCHANGED table

Init == table = [t \in {} |-> <<>>] /\ ret = 0

Next == PutFails \/ Release \/ \E p \in Key : Put(p) \/ Del(p)

Spec == Init /\ [][Next]_mapVars
=============================================================================
