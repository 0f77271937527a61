----------------------------- MODULE MCUnaligned ----------------------------
(* Two words of memory whose bytes differ, for one word-sized pair.          *)
EXTENDS Unaligned

MCInit ==
    /\ memory = [b \in Addresses |-> b + 1]
    /\ register = [i \in Positions |-> Zero]
    /\ half = None /\ whole = None
MCSpec == MCInit /\ [][Next]_vars
MCBytes == 0 .. MemoryBytes
=============================================================================
