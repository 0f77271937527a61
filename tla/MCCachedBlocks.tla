--------------------------- MODULE MCCachedBlocks ---------------------------
(* A loop of six words: one of any kind, a store, two of any kind, the branch back
   and its delay slot; then a handler of three.  A branch is never in a delay slot.
   One of the jumps goes to 16, between two words, where fetch raises an exception. *)
EXTENDS CachedBlocks

MCAddresses == 0 .. 8 \cup {16}
MCUnaligned == {16}
MCVector == 6

I(op) == [op |-> op, to |-> 0]
To(op, a) == [op |-> op, to |-> a]
Free == {I("plain"), I("load"), I("trap"), I("status"), I("hole"),
         To("branch", 4), To("jump", 16), To("likely", 2), To("likely", 0)}
First == {I("plain"), I("load"), I("trap"), To("branch", 3)}
Fillers == {I("plain"), I("load"), I("hole")}

Loops == {<<a, I("store"), b, c, To("jump", 0), d>> : a \in First, b, c \in Free, d \in Fillers}
NoBranchInSlot(p) == \A i \in 1 .. 5 : p[i].op \in Branches => p[i + 1].op \notin Branches
Handler == <<I("skip"), I("refill"), I("eret")>>

MCPrograms ==
    {[a \in MCAddresses |->
        IF a < 6 THEN p[a + 1] ELSE IF a < 9 THEN Handler[a - 5] ELSE I("plain")] :
        p \in {q \in Loops : NoBranchInSlot(q)}}

\* A store changes the instruction before it, or after it in its own block, or in
\* others the next one and the slot at the end.
MCPatches ==
    UNION {[{0} -> {I("plain"), I("trap")}], [{2} -> {I("plain")}],
           [{3} -> {I("plain")}], [{5} -> {I("plain"), I("load")}]}

-----------------------------------------------------------------------------
(* A jump to an address between two words, 16 and 17 here, where the bus reads
   something like an instruction.                                            *)

OffAddresses == 0 .. 5 \cup 16 .. 17
OffUnaligned == 16 .. 17
OffVector == 3
OffPrograms ==
    {[a \in OffAddresses |->
        IF a < 3 THEN <<I("plain"), To("jump", 16), I("plain")>>[a + 1]
        ELSE IF a < 6 THEN Handler[a - 2] ELSE <<To("jump", 0), I("plain")>>[a - 15]]}
=============================================================================
