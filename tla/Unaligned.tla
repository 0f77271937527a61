------------------------------ MODULE Unaligned -----------------------------
(* The instructions with which programs reach a word at any address, as a pair:
   LWL and LWR, SWL and SWR of the CPU and of the RSP, and with eight bytes LDL,
   LDR, SDL and SDR.

   A word or a register is the sequence of its bytes, the most significant first;
   memory is big-endian.  A shift moves bytes, and a mask is the set of positions
   it keeps.  Translation and the reservation are AddressSpace's.            *)
EXTENDS Integers, Sequences

CONSTANTS
    Width,         \* how many bytes: 4, or 8
    MemoryBytes,   \* a multiple of it
    Bytes, Zero,
    None

VARIABLES
    memory,
    register,      \* the one that the pair uses
    half,          \* history: the first half of a pair and where its word starts
    whole          \* history: the word that a pair has just loaded

history == <<half, whole>>
vars == <<memory, register, history>>

Positions == 1 .. Width
Addresses == 0 .. MemoryBytes - 1

Init ==
    /\ memory \in [Addresses -> Bytes]
    /\ register \in [Positions -> Bytes]
    /\ half = None /\ whole = None

ShiftLeft(word, n) == [i \in Positions |-> IF i + n <= Width THEN word[i + n] ELSE Zero]
ShiftRight(word, n) == [i \in Positions |-> IF i > n THEN word[i - n] ELSE Zero]
Merge(old, new, mask) == [i \in Positions |-> IF i \in mask THEN new[i] ELSE old[i]]

Offset(a) == a % Width
Aligned(a) == a - Offset(a)
WordAt(a) == [i \in Positions |-> memory[a + i - 1]]

\* The masks ~0 << 8 (Width - 1 - n) and ~0 >> 8 n.
HighMask(a) == 1 .. Offset(a) + 1
LowMask(a) == Offset(a) + 1 .. Width

Load(word) == register' = word /\ UNCHANGED memory

Store(a, word) ==
    /\ memory' = [b \in Addresses |->
                    IF b \in a .. a + Width - 1 THEN word[b - a + 1] ELSE memory[b]]
    /\ UNCHANGED register

LoadLeft(a) ==
    Load(Merge(register, ShiftLeft(WordAt(Aligned(a)), Width - 1 - Offset(a)), HighMask(a)))

LoadRight(a) ==
    Load(Merge(register, ShiftRight(WordAt(Aligned(a)), Offset(a)), LowMask(a)))

StoreLeft(a) ==
    Store(Aligned(a), Merge(WordAt(Aligned(a)), ShiftRight(register, Width - 1 - Offset(a)),
                            HighMask(a)))

StoreRight(a) ==
    Store(Aligned(a), Merge(WordAt(Aligned(a)), ShiftLeft(register, Offset(a)), LowMask(a)))

FirstHalf(a) == half' = a /\ whole' = None
NoHalf == half' = None /\ whole' = None

\* The other half of a load, at the last byte of the word.
SecondHalf(a) ==
    /\ half' = None
    /\ whole' = IF half # None /\ a = half + Width - 1 THEN WordAt(half) ELSE None

Next ==
    \E a \in Addresses :
       \/ LoadLeft(a) /\ (IF a + Width <= MemoryBytes THEN FirstHalf(a) ELSE NoHalf)
       \/ LoadRight(a) /\ SecondHalf(a)
       \/ (StoreLeft(a) \/ StoreRight(a)) /\ NoHalf

Spec == Init /\ [][Next]_vars

-----------------------------------------------------------------------------

\* "Big-endian unaligned merge" (cpu.cpp, above exec_lwl): LWL at an address and
\* LWR at the last byte of the word that starts there load that word, whether or
\* not it is aligned.
PairLoadsWord == whole # None => register = whole
=============================================================================
