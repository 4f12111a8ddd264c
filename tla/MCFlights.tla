------------------------------ MODULE MCFlights ------------------------------
(***************************************************************************)
(* Busy-waiting programs and blocking ones; the latter also with a         *)
(* datagram each for echo and discard, or with one that is duplicated.     *)
(***************************************************************************)
EXTENDS Flights

World(b, ports, n) ==
    [busywait |-> b, strays |-> {Datagram(p, NoData) : p \in ports}, dup |-> n]

MCWorlds ==
    {World(TRUE, {}, "never"), World(FALSE, {"echo", "discard"}, "never"),
     World(FALSE, {}, "may")}
=============================================================================
