---------------------------- MODULE CachedBlocks ----------------------------
(* Cpu::run: the interpreter, and between its steps whole blocks, which
   execute_block runs from the instructions that were read when the block was
   compiled, then or long before.  Stores drop the blocks that they overlap, TLB
   writes and MTC0 to Status all of them.

   Words that follow each other are taken to follow each other in memory too, and
   every store to be reported: how invalidate finds the blocks, and where it does
   not, is BlockCache's business, and the modes that a block is found in are
   AddressSpace's.                                                           *)
EXTENDS Interpreter, Sequences

CONSTANTS
    MaxBlockInsns,
    PageWords,
    TableSize      \* kDirectTableSize; aligned or not, an address has its word's slot

ASSUME BlocksAssumption == {MaxBlockInsns, TableSize} \subseteq Nat \ {0}

VARIABLES
    cache,     \* the block in each slot of the table
    block      \* what execute_block runs, and how far it is

vars == <<cpuVars, cache, block>>

NoBlock == [insns |-> << >>, start |-> 0, i |-> 0]
Slots == 0 .. TableSize - 1
Cleared == [s \in Slots |-> NoBlock]                           \* clear

Init == CpuInit /\ cache = Cleared /\ block = NoBlock

-----------------------------------------------------------------------------
(* compile and lookup: neither asks whether the address is a multiple of four. *)

Terminals == {"trap", "eret", "refill", "status"}    \* is_terminal_no_delay
Branches == {"jump", "branch", "likely"}                     \* is_branch_or_jump

\* compile may read an instruction at a, if it is not the block's first, after
\* what it read before it.
Continues(a) ==
    /\ a \in Addresses
    /\ code[a].op # "hole"
    /\ code[a - 1].op \notin Branches \cup Terminals
    /\ a % PageWords # 0 \/ a \in Unaligned

\* How many instructions compile takes from v on, before the delay slot.
BodyLength(v) ==
    CHOOSE n \in 1 .. MaxBlockInsns :
        /\ \A i \in 1 .. n - 1 : Continues(v + i)
        /\ n = MaxBlockInsns \/ ~Continues(v + n)

\* And with it, if the word after a branch translates.
Length(v) ==
    LET n == BodyLength(v)
    IN IF code[v + n - 1].op \in Branches /\ v + n \in Addresses /\ code[v + n].op # "hole"
       THEN n + 1 ELSE n

Slot(v) == v % TableSize

\* lookup
Found(v) == cache[Slot(v)] # NoBlock /\ cache[Slot(v)].start = v

Compiled(v) ==
    [insns |-> [i \in 1 .. Length(v) |-> code[v + i - 1]], start |-> v, i |-> 0]

\* run compiles what it does not find, if the address translates.
Compile ==
    /\ block = NoBlock /\ ~pending
    /\ ~Found(pc) /\ code[pc].op # "hole"
    /\ cache' = [cache EXCEPT ![Slot(pc)] = Compiled(pc)]
    /\ UNCHANGED <<cpuVars, block>>

-----------------------------------------------------------------------------
(* What an instruction leaves of the table.                                  *)

OverlapsStart(b, words) == b.start \in words             \* mutant

Overlaps(b, words) == \E i \in 1 .. Len(b.insns) : b.start + i - 1 \in words

\* invalidate
Invalidated(words) ==
    [s \in Slots |-> IF Overlaps(cache[s], words) THEN NoBlock ELSE cache[s]]

\* Bus::notify_memory_write for what a store writes, and clear.
CacheAfter(insn) ==
    CASE insn.op = "store" ->
            \E patch \in Patches : Write(patch) /\ cache' = Invalidated(DOMAIN patch)
      [] insn.op \in {"refill", "status"} -> cache' = Cleared
      [] OTHER -> UNCHANGED cache

-----------------------------------------------------------------------------
(* run and execute_block.                                                    *)

\* There is no room for the block in the slice, or no block, or a delay slot is next.
StepAlone ==
    /\ block = NoBlock
    /\ \/ TakeInterrupt /\ UNCHANGED cache
       \/ ~Deliverable /\ FetchFaults /\ UNCHANGED cache
       \/ ~Deliverable /\ Fetches(pc) /\ Faults(code[pc]) /\ UNCHANGED cache
       \/ ~Deliverable /\ Fetches(pc) /\ Completes(code[pc]) /\ CacheAfter(code[pc])
    /\ UNCHANGED block

EnterBlock ==
    /\ block = NoBlock /\ ~pending
    /\ Found(pc)
    /\ block' = cache[Slot(pc)]
    /\ UNCHANGED <<cpuVars, cache>>

Cached == block.insns[block.i + 1]
InStepAlways == block # NoBlock                      \* mutant: pc is not looked at
InStep == pc = block.start + block.i

\* The branch went elsewhere, over a delay slot that is in the block.
LeaveBlock ==
    /\ block # NoBlock /\ ~InStep
    /\ block' = NoBlock
    /\ UNCHANGED <<cpuVars, cache>>

BlockInterrupted ==
    /\ block # NoBlock /\ InStep
    /\ TakeInterrupt
    /\ block' = NoBlock /\ UNCHANGED cache

BlockFaults ==
    /\ block # NoBlock /\ InStep /\ ~Deliverable
    /\ Faults(Cached)
    /\ block' = NoBlock /\ UNCHANGED cache

\* A store that overlaps this block drops it from the table, and it runs on.
BlockCompletes ==
    /\ block # NoBlock /\ InStep /\ ~Deliverable
    /\ Completes(Cached) /\ CacheAfter(Cached)
    /\ block' = IF block.i + 1 = Len(block.insns) THEN NoBlock
                                                  ELSE [block EXCEPT !.i = @ + 1]

Next ==
    \/ Compile \/ EnterBlock \/ StepAlone \/ LeaveBlock
    \/ BlockInterrupted \/ BlockFaults \/ BlockCompletes
    \/ Device /\ UNCHANGED <<cache, block>>

Spec == Init /\ [][Next]_vars

-----------------------------------------------------------------------------
(* What run treats as step does.                                             *)

\* A store leaves alone what is left of the block that it is in.
StoresSpareBlock ==
    block # NoBlock /\ Cached.op = "store" =>
        \A j \in block.i + 2 .. Len(block.insns) :
            code'[block.start + j - 1] = code[block.start + j - 1]

\* Blocks are run at multiples of four: the program goes nowhere else, or it does so
\* while run is stepping, without the cache.
BlocksAligned == block # NoBlock => pc \notin Unaligned

SparingSpec == Init /\ [][Next /\ StoresSpareBlock /\ BlocksAligned']_vars

-----------------------------------------------------------------------------
(* Properties.                                                               *)

\* Running blocks is running the interpreter: the same instructions, exceptions,
\* interrupts and counts, in the same order (run and execute_block against step).
\* So it is under SparingSpec, for programs whose stores spare the rest of the
\* block that they are in and whose blocks lie at multiples of four.  Under Spec it
\* is not: at another address fetch raises an exception, and run executes a block.
ImplementsInterpreter == CpuSpec

\* The instruction that a block runs next is the one that memory holds: blocks
\* compiled before, found again after stores, faults and replacements in the table,
\* and blocks dropped from it while they run.  So it is under SparingSpec; under
\* Spec a store into the rest of the running block is not seen (execute_block).
ParityWithMemory == (block # NoBlock /\ InStep) => Cached = code[pc]
=============================================================================
