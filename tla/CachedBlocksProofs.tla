------------------------- MODULE CachedBlocksProofs -------------------------
(* Cpu::run does what Cpu::step does, whatever the program, as long as the
   block that runs is one that memory still holds and lies at multiples of four;
   and memory holds the block, found in the table or just
   compiled, for programs that do not store into what is left of the block that they
   run.  Exceptions are precise in both.                                     *)
EXTENDS CachedBlocks, SequenceTheorems, WellFoundedInduction, TLAPS

\* A step of run is a step of the interpreter, or none.
LEMMA StepsAlike ==
    ASSUME ParityWithMemory, BlocksAligned, [Next]_vars
    PROVE  [Step \/ Device]_cpuVars
<1>1. CASE Compile \/ EnterBlock \/ LeaveBlock
    BY <1>1 DEF Compile, EnterBlock, LeaveBlock
<1>2. CASE StepAlone
    BY <1>2 DEF StepAlone, Step
<1>3. CASE BlockInterrupted
    BY <1>3 DEF BlockInterrupted, Step
<1>4. ASSUME block # NoBlock, Faults(code[pc]) \/ Completes(code[pc]) PROVE Fetches(pc)
    <2>1. code[pc].op # "hole"
        BY <1>4 DEF Faults, MayRaise, Completes, Compute, Load, Store, Jump, Branch,
                    BranchLikely, WriteStatus, WriteEPC, WriteTlb, Eret
    <2> QED
        BY <1>4, <2>1 DEF Fetches, BlocksAligned
<1>5. CASE BlockFaults
    <2>1. Cached = code[pc]
        BY <1>5 DEF BlockFaults, ParityWithMemory
    <2>2. block # NoBlock /\ ~Deliverable /\ Faults(code[pc])
        BY <1>5, <2>1 DEF BlockFaults
    <2> QED
        BY <1>4, <2>2 DEF Step
<1>6. CASE BlockCompletes
    <2>1. Cached = code[pc]
        BY <1>6 DEF BlockCompletes, ParityWithMemory
    <2>2. block # NoBlock /\ ~Deliverable /\ Completes(code[pc])
        BY <1>6, <2>1 DEF BlockCompletes
    <2> QED
        BY <1>4, <2>2 DEF Step
<1>7. CASE Device /\ UNCHANGED <<cache, block>>
    BY <1>7
<1>8. CASE UNCHANGED vars
    BY <1>8 DEF vars
<1> QED
    BY <1>1, <1>2, <1>3, <1>5, <1>6, <1>7, <1>8 DEF Next

\* execute_block and step produce the same executions while the instructions of
\* the running block are those of memory and lie at multiples of four, where fetch
\* asks nothing that compile does not (Cpu::run against Cpu::step).
THEOREM ParityMakesInterpreter ==
    Spec /\ []ParityWithMemory /\ []BlocksAligned => ImplementsInterpreter
<1>1. Init => CpuInit
    BY DEF Init
<1>2. ParityWithMemory /\ BlocksAligned /\ [Next]_vars => [Step \/ Device]_cpuVars
    BY StepsAlike
<1> QED
    BY <1>1, <1>2, PTL DEF Spec, ImplementsInterpreter, CpuSpec

-----------------------------------------------------------------------------
(* Which programs keep the running block what memory holds.                  *)

\* A program does not run off the end of the address space.
StaysInside == pc \in Addresses

\* What is left of b is in the memory m, and only its last instruction may be one
\* that ends a block by itself: TLBWR above all, after which memory is another.
HeldBy(m, b) ==
    /\ b \in [insns : Seq(Insns), start : Nat, i : Nat]
    /\ b.i < Len(b.insns)
    /\ \A j \in b.i + 1 .. Len(b.insns) :
          b.start + j - 1 \in Addresses /\ b.insns[j] = m[b.start + j - 1]
    /\ \A j \in 1 .. Len(b.insns) - 1 : b.insns[j].op \notin Terminals

\* Memory holds the blocks of the table, all of each, and what is left of the one
\* that runs, which may no longer be in the table.
TableInv ==
    /\ code \in [Addresses -> Insns]
    /\ DOMAIN cache = Slots
    /\ \A s \in Slots : cache[s] # NoBlock => cache[s].i = 0 /\ HeldBy(code, cache[s])

BlockInv == TableInv /\ (block # NoBlock => HeldBy(code, block))

LEMMA StillHeld ==
    ASSUME NEW b, NEW m, NEW n, HeldBy(m, b),
           \A j \in b.i + 1 .. Len(b.insns) : n[b.start + j - 1] = m[b.start + j - 1]
    PROVE  HeldBy(n, b)
BY DEF HeldBy

\* compile stops somewhere.
LEMMA BodyEnds ==
    ASSUME NEW v
    PROVE  /\ BodyLength(v) \in 1 .. MaxBlockInsns
           /\ \A i \in 1 .. BodyLength(v) - 1 : Continues(v + i)
<1> DEFINE T == {n \in 1 .. MaxBlockInsns : n = MaxBlockInsns \/ ~Continues(v + n)}
<1>1. T \subseteq Nat /\ T # {}
    <2>1. MaxBlockInsns \in T
        BY BlocksAssumption
    <2> QED
        BY <2>1
<1> HIDE DEF T
<1>2. PICK n \in T : \A y \in T : <<y, n>> \notin OpToRel(<, Nat)
    BY <1>1, WFMin, NatLessThanWellFounded, Zenon
<1>3. \A y \in T : ~(y < n)
    BY <1>1, <1>2, Zenon DEF OpToRel
<1>4. n \in 1 .. MaxBlockInsns /\ (n = MaxBlockInsns \/ ~Continues(v + n))
    BY DEF T
<1>5. ASSUME NEW i \in 1 .. n - 1 PROVE Continues(v + i)
    <2>1. i \in 1 .. MaxBlockInsns /\ i < n
        BY <1>4, BlocksAssumption
    <2> QED
        BY <1>3, <2>1 DEF T
<1>6. \E m \in 1 .. MaxBlockInsns :
          /\ \A i \in 1 .. m - 1 : Continues(v + i)
          /\ m = MaxBlockInsns \/ ~Continues(v + m)
    BY <1>4, <1>5
<1> QED
    BY <1>6, Zenon DEF BodyLength

\* A block is made of words of memory, and what must end it does.
LEMMA BlockRead ==
    ASSUME TableInv, pc \in Addresses
    PROVE  LET n == Length(pc)
           IN /\ n \in Nat \ {0}
              /\ \A j \in 1 .. n : pc + j - 1 \in Addresses /\ code[pc + j - 1] \in Insns
              /\ \A j \in 1 .. n - 1 : code[pc + j - 1].op \notin Terminals
<1> DEFINE b == BodyLength(pc)
           longer == /\ code[pc + b - 1].op \in Branches /\ pc + b \in Addresses
                     /\ code[pc + b].op # "hole"
<1>1. b \in Nat \ {0} /\ \A i \in 1 .. b - 1 : Continues(pc + i)
    BY BodyEnds, BlocksAssumption
<1>2. pc \in Nat
    BY AddressesAssumption
<1>3. Length(pc) = IF longer THEN b + 1 ELSE b
    BY DEF Length
<1> HIDE DEF b
<1>4. ASSUME NEW j \in 1 .. b
                PROVE  pc + j - 1 \in Addresses /\ code[pc + j - 1] \in Insns
    <2>1. CASE j = 1
        BY <1>2, <2>1 DEF TableInv
    <2>2. CASE j # 1
        <3>1. j - 1 \in 1 .. b - 1 /\ pc + (j - 1) = pc + j - 1
            BY <1>1, <1>2, <2>2
        <3>2. Continues(pc + j - 1)
            BY <1>1, <3>1
        <3> QED
            BY <3>2 DEF Continues, TableInv
    <2> QED
        BY <2>1, <2>2
<1>5. ASSUME NEW j \in 1 .. b - 1 PROVE code[pc + j - 1].op \notin Terminals
    <2>1. Continues(pc + j) /\ (pc + j) - 1 = pc + j - 1
        BY <1>1, <1>2
    <2> QED
        BY <2>1 DEF Continues
<1>6. CASE ~longer
    BY <1>1, <1>3, <1>4, <1>5, <1>6
<1>7. CASE longer
    <2>1. Length(pc) = b + 1 /\ b + 1 \in Nat \ {0}
        BY <1>1, <1>3, <1>7
    <2>2. ASSUME NEW j \in 1 .. b + 1
                PROVE  pc + j - 1 \in Addresses /\ code[pc + j - 1] \in Insns
        <3>1. CASE j = b + 1
            <4>1. pc + j - 1 = pc + b
                BY <1>1, <1>2, <3>1
            <4> QED
                BY <1>7, <4>1 DEF TableInv
        <3>2. CASE j # b + 1
            <4>1. j \in 1 .. b
                BY <1>1, <3>2
            <4> QED
                BY <1>4, <4>1
        <3> QED
            BY <3>1, <3>2
    <2>3. ASSUME NEW j \in 1 .. b PROVE code[pc + j - 1].op \notin Terminals
        <3>1. CASE j = b
            BY <1>7, <3>1 DEF Branches, Terminals
        <3>2. CASE j # b
            <4>1. j \in 1 .. b - 1
                BY <1>1, <3>2
            <4> QED
                BY <1>5, <4>1
        <3> QED
            BY <3>1, <3>2
    <2>4. (b + 1) - 1 = b
        BY <1>1
    <2> QED
        BY <2>1, <2>2, <2>3, <2>4
<1> QED
    BY <1>6, <1>7

\* Memory stays memory.
LEMMA CodeTyped ==
    ASSUME code \in [Addresses -> Insns], NEW insn, Completes(insn)
    PROVE  /\ code' \in [Addresses -> Insns]
           /\ insn.op \notin {"store", "refill"} => code' = code
<1>1. CASE Store(insn)
    <2>1. PICK patch \in Patches : Write(patch)
        BY <1>1 DEF Store
    <2>2. \A a \in DOMAIN patch : patch[a] \in Insns
        BY PatchesAssumption
    <2> QED
        BY <1>1, <2>1, <2>2 DEF Store, Write
<1>2. CASE WriteTlb(insn)
    <2>1. ASSUME NEW a \in Addresses PROVE [code[a] EXCEPT !.op = "plain"] \in Insns
        BY DEF Insns, Ops
    <2>2. Filled \in [Addresses -> Insns]
        BY <2>1 DEF Filled
    <2> QED
        BY <1>2, <2>2 DEF WriteTlb
<1>3. CASE ~Store(insn) /\ ~WriteTlb(insn)
    <2>1. code' = code
        BY <1>3
        DEF Completes, Compute, Load, Jump, Branch, BranchLikely, WriteStatus, WriteEPC, Eret
    <2> QED
        BY <2>1
<1> QED
    BY <1>1, <1>2, <1>3

\* compile puts a block into the table that memory holds.
LEMMA CompiledHeld ==
    ASSUME TableInv, StaysInside
    PROVE  HeldBy(code, Compiled(pc)) /\ Compiled(pc).i = 0
<1> DEFINE n == Length(pc)
           insns == [i \in 1 .. n |-> code[pc + i - 1]]
           b == Compiled(pc)
<1>1. /\ n \in Nat \ {0}
      /\ \A j \in 1 .. n : pc + j - 1 \in Addresses /\ code[pc + j - 1] \in Insns
      /\ \A j \in 1 .. n - 1 : code[pc + j - 1].op \notin Terminals
    BY BlockRead DEF StaysInside
<1>2. b = [insns |-> insns, start |-> pc, i |-> 0]
    BY DEF Compiled
<1>3. pc \in Nat
    BY AddressesAssumption DEF StaysInside
<1> HIDE DEF n, b
<1>4. insns \in Seq(Insns) /\ Len(insns) = n
    BY <1>1
<1>5. \A j \in 1 .. n : insns[j] = code[pc + j - 1]
    OBVIOUS
<1> HIDE DEF insns
<1>6. /\ b.insns = insns /\ b.start = pc /\ b.i = 0
      /\ b \in [insns : Seq(Insns), start : Nat, i : Nat]
    BY <1>2, <1>3, <1>4
<1>7. \A j \in b.i + 1 .. Len(b.insns) :
          b.start + j - 1 \in Addresses /\ b.insns[j] = code[b.start + j - 1]
    BY <1>1, <1>4, <1>5, <1>6
<1>8. ASSUME NEW j \in 1 .. Len(b.insns) - 1 PROVE b.insns[j].op \notin Terminals
    <2>1. j \in 1 .. n - 1 /\ j \in 1 .. n
        BY <1>1, <1>4, <1>6
    <2>2. b.insns[j] = code[pc + j - 1]
        BY <1>5, <1>6, <2>1
    <2> QED
        BY <1>1, <2>1, <2>2
<1>9. HeldBy(code, b)
    BY <1>1, <1>4, <1>6, <1>7, <1>8 DEF HeldBy
<1> QED
    BY <1>6, <1>9 DEF b

\* What invalidate leaves in the table has no word that the store wrote.
LEMMA CacheAfterHeld ==
    ASSUME TableInv, NEW insn, Completes(insn), CacheAfter(insn)
    PROVE  TableInv'
<1>1. /\ code' \in [Addresses -> Insns]
      /\ insn.op \notin {"store", "refill"} => code' = code
    BY CodeTyped DEF TableInv
<1>2. CASE insn.op = "store"
    <2>1. PICK patch \in Patches : Write(patch) /\ cache' = Invalidated(DOMAIN patch)
        BY <1>2 DEF CacheAfter
    <2>2. DOMAIN cache' = Slots
        BY <2>1 DEF Invalidated
    <2>3. ASSUME NEW s \in Slots, cache'[s] # NoBlock
          PROVE  cache'[s].i = 0 /\ HeldBy(code', cache'[s])
        <3> DEFINE b == cache[s]
        <3>1. cache'[s] = b /\ ~Overlaps(b, DOMAIN patch)
            BY <2>1, <2>3 DEF Invalidated
        <3>2. b.i = 0 /\ HeldBy(code, b)
            BY <2>3, <3>1 DEF TableInv
        <3> HIDE DEF b
        <3>3. ASSUME NEW j \in b.i + 1 .. Len(b.insns)
              PROVE  code'[b.start + j - 1] = code[b.start + j - 1]
            <4>1. j \in 1 .. Len(b.insns)
                BY <3>2
            <4>2. b.start + j - 1 \notin DOMAIN patch
                BY <3>1, <4>1 DEF Overlaps
            <4>3. b.start + j - 1 \in Addresses
                BY <3>2 DEF HeldBy
            <4> QED
                BY <2>1, <4>2, <4>3 DEF Write
        <3>4. HeldBy(code', b)
            BY <3>2, <3>3, StillHeld
        <3> QED
            BY <3>1, <3>2, <3>4
    <2> QED
        BY <1>1, <2>2, <2>3 DEF TableInv
<1>3. CASE insn.op \in {"refill", "status"}
    <2>1. cache' = Cleared
        BY <1>3 DEF CacheAfter
    <2> QED
        BY <1>1, <2>1 DEF TableInv, Cleared
<1>4. CASE insn.op \notin {"store", "refill", "status"}
    <2>1. cache' = cache /\ code' = code
        BY <1>1, <1>4 DEF CacheAfter
    <2> QED
        BY <2>1 DEF TableInv
<1> QED
    BY <1>2, <1>3, <1>4

LEMMA NextBlockInv ==
    ASSUME BlockInv, StaysInside, [Next]_vars, [StoresSpareBlock]_vars
    PROVE  BlockInv'
<1>1. TableInv
    BY DEF BlockInv
<1>2. Slot(pc) \in Slots
    BY AddressesAssumption, BlocksAssumption DEF Slot, Slots, StaysInside
<1>3. CASE Compile
    <2> DEFINE b == Compiled(pc)
    <2>1. HeldBy(code, b) /\ b.i = 0
        BY <1>1, CompiledHeld
    <2>2. /\ cache' = [cache EXCEPT ![Slot(pc)] = b]
          /\ code' = code /\ block' = block
        BY <1>3 DEF Compile, cpuVars
    <2> HIDE DEF b
    <2>3. TableInv'
        BY <1>1, <1>2, <2>1, <2>2 DEF TableInv
    <2> QED
        BY <2>2, <2>3 DEF BlockInv
<1>4. CASE EnterBlock
    <2>1. /\ block' = cache[Slot(pc)] /\ cache[Slot(pc)] # NoBlock
          /\ code' = code /\ cache' = cache
        BY <1>4 DEF EnterBlock, Found, cpuVars
    <2>2. HeldBy(code, cache[Slot(pc)])
        BY <1>1, <1>2, <2>1 DEF TableInv
    <2> QED
        BY <1>1, <2>1, <2>2 DEF BlockInv, TableInv
<1>5. CASE StepAlone
    <2>1. block' = NoBlock
        BY <1>5 DEF StepAlone
    <2>2. CASE Completes(code[pc]) /\ CacheAfter(code[pc])
        BY <1>1, <2>1, <2>2, CacheAfterHeld DEF BlockInv
    <2>3. CASE UNCHANGED cache /\ (TakeInterrupt \/ FetchFaults \/ Faults(code[pc]))
        <3>1. code' = code
            BY <2>3 DEF TakeInterrupt, FetchFaults, Faults
        <3> QED
            BY <1>1, <2>1, <2>3, <3>1 DEF BlockInv, TableInv
    <2> QED
        BY <1>5, <2>2, <2>3 DEF StepAlone
<1>6. CASE LeaveBlock \/ BlockInterrupted \/ BlockFaults
    <2>1. block' = NoBlock /\ code' = code /\ cache' = cache
        BY <1>6 DEF LeaveBlock, BlockInterrupted, BlockFaults, cpuVars, TakeInterrupt, Faults
    <2> QED
        BY <1>1, <2>1 DEF BlockInv, TableInv
<1>7. CASE BlockCompletes
    <2> DEFINE n == Len(block.insns)
    <2>1. /\ block # NoBlock /\ Completes(Cached) /\ CacheAfter(Cached)
          /\ block' = IF block.i + 1 = n THEN NoBlock ELSE [block EXCEPT !.i = block.i + 1]
        BY <1>7 DEF BlockCompletes
    <2>2. /\ block \in [insns : Seq(Insns), start : Nat, i : Nat]
          /\ block.i < n
          /\ \A j \in block.i + 1 .. n :
                block.start + j - 1 \in Addresses /\ block.insns[j] = code[block.start + j - 1]
          /\ \A j \in 1 .. n - 1 : block.insns[j].op \notin Terminals
        BY <2>1 DEF BlockInv, HeldBy
    <2>3. TableInv' /\ (Cached.op \notin {"store", "refill"} => code' = code)
        BY <1>1, <2>1, CacheAfterHeld, CodeTyped DEF TableInv
    <2>4. CASE block.i + 1 = n
        <3>1. block' = NoBlock
            BY <2>1, <2>4
        <3> QED
            BY <2>3, <3>1 DEF BlockInv
    <2>5. CASE block.i + 1 # n
        <3>1. n \in Nat /\ block.i \in Nat
            BY <2>2
        <3>2. block.i + 1 \in 1 .. n - 1
            BY <2>2, <2>5, <3>1
        <3>3. Cached.op # "refill"
            BY <2>2, <3>2 DEF Cached, Terminals
        <3>4. block' # block
            BY <2>1, <2>5, <3>1, <2>2
        <3>5. Cached.op = "store" =>
                  \A j \in block.i + 2 .. n :
                      code'[block.start + j - 1] = code[block.start + j - 1]
            BY <2>1, <3>4 DEF StoresSpareBlock, vars
        <3>6. \A j \in block.i + 2 .. n :
                  code'[block.start + j - 1] = code[block.start + j - 1]
            BY <2>3, <3>3, <3>5
        <3>7. /\ block'.insns = block.insns /\ block'.start = block.start
              /\ block'.i = block.i + 1
              /\ block' \in [insns : Seq(Insns), start : Nat, i : Nat]
            <4>1. block' = [block EXCEPT !.i = block.i + 1]
                BY <2>1, <2>5
            <4>2. block.i + 1 \in Nat
                BY <3>1
            <4> HIDE DEF n
            <4> QED
                BY <2>2, <4>1, <4>2
        <3>8. \A j \in block'.i + 1 .. n :
                  block.start + j - 1 \in Addresses /\ block.insns[j] = code'[block.start + j - 1]
            <4>1. \A j \in block'.i + 1 .. n : j \in block.i + 2 .. n /\ j \in block.i + 1 .. n
                BY <3>1, <3>7
            <4> QED
                BY <2>2, <3>6, <4>1
        <3>9. block'.i < n
            BY <3>1, <3>2, <3>7
        <3>10. HeldBy(code', block')
            BY <2>2, <3>7, <3>8, <3>9 DEF HeldBy
        <3> QED
            BY <2>3, <3>10 DEF BlockInv
    <2> QED
        BY <2>4, <2>5
<1>8. CASE (Device /\ UNCHANGED <<cache, block>>) \/ UNCHANGED vars
    <2>1. code' = code /\ cache' = cache /\ block' = block
        BY <1>8 DEF Device, vars, cpuVars
    <2> QED
        BY <2>1 DEF BlockInv, TableInv
<1> QED
    BY <1>3, <1>4, <1>5, <1>6, <1>7, <1>8 DEF Next

LEMMA BlockInvIsParity == ASSUME BlockInv PROVE ParityWithMemory
<1> SUFFICES ASSUME block # NoBlock, InStep PROVE Cached = code[pc]
    BY DEF ParityWithMemory
<1>1. /\ block.i \in Nat /\ block.start \in Nat
      /\ block.i < Len(block.insns) /\ Len(block.insns) \in Nat
    BY DEF BlockInv, HeldBy
<1>2. block.i + 1 \in block.i + 1 .. Len(block.insns)
      /\ block.start + (block.i + 1) - 1 = pc
    BY <1>1 DEF InStep
<1> QED
    BY <1>2 DEF BlockInv, HeldBy, Cached

\* execute_block: the instruction that a block runs next is the one in memory, for
\* every program that spares the rest of the running block, whatever it stores into
\* other blocks, maps with TLBWR or jumps over, and whatever is left in the table.
THEOREM BlocksHoldMemory ==
    Spec /\ []StaysInside /\ [][StoresSpareBlock]_vars => []ParityWithMemory
<1>1. Init => BlockInv
    BY ProgramsAssumption DEF Init, CpuInit, BlockInv, TableInv, Cleared
<1>2. BlockInv /\ StaysInside /\ [Next]_vars /\ [StoresSpareBlock]_vars => BlockInv'
    BY NextBlockInv
<1>3. BlockInv => ParityWithMemory
    BY BlockInvIsParity
<1> QED
    BY <1>1, <1>2, <1>3, PTL DEF Spec

\* What the specification of the model checker's run asks of the program.
LEMMA SparingPrograms ==
    SparingSpec => Spec /\ []BlocksAligned /\ [][StoresSpareBlock]_vars
<1>1. Init => BlocksAligned
    BY DEF Init, BlocksAligned
<1>2. BlocksAligned /\ UNCHANGED vars => BlocksAligned'
    BY DEF BlocksAligned, vars, cpuVars, control
<1>3. [Next /\ StoresSpareBlock /\ BlocksAligned']_vars
          => [Next]_vars /\ [StoresSpareBlock]_vars /\ (BlocksAligned' \/ UNCHANGED vars)
    OBVIOUS
<1> QED
    BY <1>1, <1>2, <1>3, PTL DEF Spec, SparingSpec

\* Cpu::run against Cpu::step: running blocks is interpreting, for every program that
\* spares the rest of the block that it runs, while blocks lie at multiples of four.
THEOREM BlocksInterpret == SparingSpec /\ []StaysInside => ImplementsInterpreter
    BY SparingPrograms, BlocksHoldMemory, ParityMakesInterpreter, PTL

-----------------------------------------------------------------------------
(* What handlers leave of the program's order.                               *)

\* A program puts no branch into a delay slot and leaves ERET to its handlers.
KeepsToFlow ==
    ~exl => /\ code[pc].op # "eret"
            /\ pending => code[pc].op \notin Branches

FlowInv == code \in [Addresses -> Insns] /\ next_pc \in Int /\ epc \in Int

\* Where the program is, and where it goes after a delay slot.
At == IF exl THEN epc ELSE pc
Target == IF ~exl /\ pending THEN next_pc ELSE NoTarget

LEMMA FlowOfProgram ==
    /\ <<At, Target>>' = <<At, Target>> => [Flow!Next]_<<At, Target>>
    /\ (Target # NoTarget /\ At' = Target /\ Target' = NoTarget) => Flow!Next
    /\ (Target = NoTarget /\ <<At', Target'>> \in Flow!Successors(code[At])) => Flow!Next
    /\ (Target # NoTarget /\ At = At' + 1 /\ Target' = NoTarget /\ UNCHANGED code) => Flow!Next
BY DEF Flow!Next, Flow!Complete, Flow!BackToBranch, At, Target, Following

LEMMA WordsAreNumbers ==
    /\ \A a \in Addresses : a \in Int
    /\ Vector \in Int
    /\ StaysInside => pc \in Int
<1>1. Addresses \subseteq Nat /\ Vector \in Addresses
    BY AddressesAssumption
<1>2. \A a \in Addresses : a \in Int
    BY <1>1
<1>3. Vector \in Int /\ (pc \in Addresses => pc \in Int)
    BY <1>1, <1>2, Zenon
<1> QED
    BY <1>2, <1>3, Zenon DEF StaysInside

\* raise_exception: in a delay slot it takes the program back to the branch.
LEMMA RaiseKeepsFlow ==
    ASSUME FlowInv, StaysInside, NEW slot, slot <=> pending, Raise(slot), UNCHANGED code
    PROVE  FlowInv' /\ [Flow!Next]_<<At, Target>>
<1>1. /\ pc \in Int /\ Vector \in Int
      /\ exl' = TRUE /\ next_pc' = Vector + 1
      /\ epc' = IF exl THEN epc ELSE IF pending THEN pc - 1 ELSE pc
    <2>1. pc \in Int /\ Vector \in Int
        BY WordsAreNumbers
    <2> QED
        BY <2>1, Zenon DEF Raise
<1>2. FlowInv'
    BY <1>1 DEF FlowInv
<1>3. Target' = NoTarget /\ At' = epc'
    BY <1>1 DEF Target, At
<1>4. CASE exl \/ ~pending
    <2>1. Target = NoTarget /\ At = epc'
        BY <1>1, <1>4 DEF Target, At
    <2> QED
        BY <1>2, <1>3, <2>1, FlowOfProgram
<1>5. CASE ~exl /\ pending
    <2>1. Target = next_pc /\ At = pc /\ epc' = pc - 1
        BY <1>1, <1>5 DEF Target, At
    <2>2. Target # NoTarget
        BY <2>1, TargetAssumption DEF FlowInv
    <2>3. At = At' + 1
        BY <1>1, <1>3, <2>1
    <2> QED
        BY <1>2, <1>3, <2>2, <2>3, FlowOfProgram
<1> QED
    BY <1>4, <1>5

\* Where an instruction that does not raise leaves the CPU.
LEMMA CompletesKeepsTypes ==
    ASSUME FlowInv, StaysInside, Completes(code[pc])
    PROVE  FlowInv'
<1> DEFINE insn == code[pc]
<1>1. insn \in Insns /\ insn.to \in Int /\ pc \in Int
    <2>1. code[pc] \in Insns
        BY DEF FlowInv, StaysInside
    <2>2. code[pc].to \in Addresses
        BY <2>1 DEF Insns
    <2> QED
        BY <2>1, <2>2, WordsAreNumbers
<1> HIDE DEF insn
<1>2. code' \in [Addresses -> Insns]
    <2>1. CASE Store(insn)
        <3>1. PICK patch \in Patches : Write(patch)
            BY <2>1 DEF Store
        <3>2. \A a \in DOMAIN patch : patch[a] \in Insns
            BY PatchesAssumption
        <3> QED
            BY <3>1, <3>2 DEF FlowInv, Write
    <2>2. CASE WriteTlb(insn)
        <3>1. code' = Filled
            BY <2>2 DEF WriteTlb
        <3>2. \A a \in Addresses : [code[a] EXCEPT !.op = "plain"] \in Insns /\ code[a] \in Insns
            BY DEF FlowInv, Insns, Ops
        <3> QED
            BY <3>1, <3>2 DEF Filled
    <2>3. CASE ~Store(insn) /\ ~WriteTlb(insn)
        <3>1. code' = code
            BY <2>3 DEF insn, Completes, Compute, Load, Jump, Branch, BranchLikely, WriteStatus,
                        WriteEPC, Eret
        <3> QED
            BY <3>1 DEF FlowInv
    <2> QED
        BY <2>1, <2>2, <2>3
<1>3. epc' \in Int
    <2>1. epc' = epc \/ epc' = epc + 1
        BY DEF Completes, Compute, Load, Store, Jump, Branch, BranchLikely, WriteStatus,
               WriteEPC, WriteTlb, Eret, exception
    <2> QED
        BY <2>1 DEF FlowInv
<1>4. \A nx \in Int, branches \in BOOLEAN : Advance(nx, branches) => next_pc' \in Int
    BY DEF Advance
<1>5. next_pc' \in Int
    <2>1. Sequential \in Int /\ pc + 2 \in Int /\ epc + 1 \in Int
        BY <1>1 DEF Sequential, FlowInv
    <2>2. CASE Eret(insn)
        BY <2>1, <2>2 DEF Eret
    <2>3. CASE ~Eret(insn)
        <3>1. \E nx \in {Sequential, insn.to, pc + 2}, branches \in BOOLEAN : Advance(nx, branches)
            BY <2>3 DEF insn, Completes, Compute, Load, Store, Jump, Branch, BranchLikely,
                        WriteStatus, WriteEPC, WriteTlb, GoesOn, BranchTo
        <3> QED
            BY <1>1, <1>4, <2>1, <3>1
    <2> QED
        BY <2>2, <2>3
<1> QED
    BY <1>2, <1>3, <1>5 DEF FlowInv

\* An instruction of a handler: it goes on at EPC, and MTC0 to EPC steps over a trap.
LEMMA HandlerKeepsFlow ==
    ASSUME exl \in BOOLEAN, exl, Completes(code[pc])
    PROVE  [Flow!Next]_<<At, Target>>
<1>1. At = epc /\ Target = NoTarget
    BY DEF At, Target
<1>2. CASE Eret(code[pc])
    <2>1. At' = epc /\ Target' = NoTarget
        BY <1>2 DEF Eret, At, Target
    <2> QED
        BY <1>1, <2>1, FlowOfProgram
<1>3. CASE ~Eret(code[pc])
    <2>1. exl' = exl /\ (epc' = epc \/ (code[epc].op = "trap" /\ epc' = epc + 1))
        BY <1>3 DEF Completes, Compute, Load, Store, Jump, Branch, BranchLikely, WriteStatus,
                    WriteEPC, WriteTlb, exception
    <2>2. At' = epc' /\ Target' = NoTarget
        BY <2>1 DEF At, Target
    <2>3. CASE epc' = epc
        BY <1>1, <2>2, <2>3, FlowOfProgram
    <2>4. CASE code[epc].op = "trap" /\ epc' = epc + 1
        <3>1. <<epc + 1, NoTarget>> \in Flow!Successors(code[epc])
            BY <1>1, <2>4 DEF Flow!Successors, Following, At
        <3> QED
            BY <1>1, <2>2, <2>4, <3>1, FlowOfProgram
    <2> QED
        BY <2>1, <2>3, <2>4
<1> QED
    BY <1>2, <1>3

\* An instruction of the program.
LEMMA ProgramKeepsFlow ==
    ASSUME FlowInv, StaysInside, KeepsToFlow, ~exl, Completes(code[pc])
    PROVE  [Flow!Next]_<<At, Target>>
<1> DEFINE insn == code[pc]
<1>1. insn.op # "eret" /\ (pending => insn.op \notin Branches)
    BY DEF KeepsToFlow
<1>2. At = pc /\ Target = IF pending THEN next_pc ELSE NoTarget
    BY DEF At, Target
<1>3. pc \in Int /\ next_pc \in Int /\ next_pc # NoTarget
    BY AddressesAssumption, TargetAssumption DEF StaysInside, FlowInv
<1> HIDE DEF insn
<1>4. exl' = exl
    BY <1>1 DEF insn, Completes, Compute, Load, Store, Jump, Branch, BranchLikely, WriteStatus,
                WriteEPC, WriteTlb, Eret, exception
<1>5. At' = pc' /\ Target' = IF pending' THEN next_pc' ELSE NoTarget
    BY <1>4 DEF At, Target
<1>6. CASE insn.op \notin Branches
    <2>1. GoesOn
        BY <1>1, <1>6 DEF insn, Completes, Compute, Load, Store, Jump, Branch, BranchLikely,
                          WriteStatus, WriteEPC, WriteTlb, Eret, Branches
    <2>2. CASE pending
        <3>1. pc' = next_pc /\ pending' = FALSE
            BY <2>1, <2>2 DEF GoesOn, Advance, Sequential
        <3> QED
            BY <1>2, <1>3, <1>5, <2>2, <3>1, FlowOfProgram
    <2>3. CASE ~pending
        <3>1. pc' = pc + 1 /\ pending' = FALSE
            BY <2>1, <2>3 DEF GoesOn, Advance, Sequential
        <3>2. <<pc + 1, NoTarget>> \in Flow!Successors(insn)
            BY <1>2, <1>6 DEF Flow!Successors, Following, At, Branches
        <3> QED
            BY <1>2, <1>5, <2>3, <3>1, <3>2, FlowOfProgram DEF insn
    <2> QED
        BY <2>2, <2>3
<1>7. CASE insn.op \in Branches
    <2>1. ~pending /\ Target = NoTarget
        BY <1>1, <1>2, <1>7
    <2>2. \/ insn.op = "jump" /\ Advance(insn.to, TRUE)
          \/ insn.op = "branch" /\ (Advance(insn.to, TRUE) \/ Advance(pc + 2, TRUE))
          \/ insn.op = "likely" /\ (Advance(insn.to, TRUE) \/ Advance(pc + 2, FALSE))
        BY <1>7 DEF insn, Completes, Compute, Load, Store, Jump, Branch, BranchLikely,
                    WriteStatus, WriteEPC, WriteTlb, Eret, Branches, BranchTo
    <2>3. \A nx : Advance(nx, TRUE) => At' = pc + 1 /\ Target' = nx
        BY <1>5, <2>1 DEF Advance
    <2>4. \A nx : Advance(nx, FALSE) => At' = nx /\ Target' = NoTarget
        BY <1>5, <2>1 DEF Advance
    <2>5. /\ insn.op = "jump" => <<pc + 1, insn.to>> \in Flow!Successors(insn)
          /\ insn.op = "branch" => /\ <<pc + 1, insn.to>> \in Flow!Successors(insn)
                                   /\ <<pc + 1, pc + 2>> \in Flow!Successors(insn)
          /\ insn.op = "likely" => /\ <<pc + 1, insn.to>> \in Flow!Successors(insn)
                                   /\ <<pc + 2, NoTarget>> \in Flow!Successors(insn)
        BY <1>2, <1>3 DEF Flow!Successors, Following, At
    <2>6. <<At', Target'>> \in Flow!Successors(insn)
        BY <2>2, <2>3, <2>4, <2>5
    <2> QED
        BY <1>2, <2>1, <2>6, FlowOfProgram DEF insn
<1> QED
    BY <1>6, <1>7

LEMMA StepKeepsFlow ==
    ASSUME FlowInv, exl \in BOOLEAN, StaysInside, KeepsToFlow, [Step \/ Device]_cpuVars
    PROVE  FlowInv' /\ exl' \in BOOLEAN /\ [Flow!Next]_<<At, Target>>
<1>1. CASE TakeInterrupt
    <2>1. Raise(FALSE) /\ ~pending /\ UNCHANGED code /\ exl' = TRUE
        BY <1>1 DEF TakeInterrupt, Deliverable, Raise
    <2> QED
        BY <2>1, RaiseKeepsFlow
<1>2. CASE FetchFaults \/ Faults(code[pc])
    <2>1. Raise(pending) /\ UNCHANGED code /\ exl' = TRUE
        BY <1>2 DEF FetchFaults, Faults, Raise
    <2> QED
        BY <2>1, RaiseKeepsFlow
<1>3. CASE Completes(code[pc])
    <2>1. exl' \in BOOLEAN
        BY <1>3 DEF Completes, Compute, Load, Store, Jump, Branch, BranchLikely, WriteStatus,
                    WriteEPC, WriteTlb, Eret, exception
    <2>2. FlowInv'
        BY <1>3, CompletesKeepsTypes
    <2>3. [Flow!Next]_<<At, Target>>
        BY <1>3, HandlerKeepsFlow, ProgramKeepsFlow
    <2> QED
        BY <2>1, <2>2, <2>3
<1>4. CASE Device \/ UNCHANGED cpuVars
    <2>1. UNCHANGED <<code, pc, next_pc, pending, exl, epc>>
        BY <1>4 DEF Device, cpuVars, control, exception
    <2>2. FlowInv' /\ exl' \in BOOLEAN /\ At' = At /\ Target' = Target
        BY <2>1 DEF FlowInv, At, Target
    <2> QED
        BY <2>2, FlowOfProgram
<1> QED
    BY <1>1, <1>2, <1>3, <1>4 DEF Step

\* step and raise_exception, ERET: exceptions are precise, for every program and
\* handler, wherever they strike, delay slots included: what the program completes
\* is in the order of its flow.
THEOREM InterpreterIsPrecise ==
    CpuSpec /\ []StaysInside /\ []KeepsToFlow => PreciseExceptions
<1> DEFINE Inv == FlowInv /\ exl \in BOOLEAN
<1>1. CpuInit => Inv
    <2> SUFFICES ASSUME CpuInit PROVE Inv
        OBVIOUS
    <2>1. code \in [Addresses -> Insns] /\ next_pc \in Int /\ epc \in Int
        BY ProgramsAssumption DEF CpuInit
    <2>2. exl \in BOOLEAN
        BY Zenon DEF CpuInit
    <2> QED
        BY <2>1, <2>2 DEF FlowInv
<1>2. Inv /\ StaysInside /\ KeepsToFlow /\ [Step \/ Device]_cpuVars
          => Inv' /\ [Flow!Next]_<<At, Target>>
    BY StepKeepsFlow
<1> HIDE DEF Inv
<1>3. [][Flow!Next]_<<At, Target>> => PreciseExceptions
    BY DEF PreciseExceptions, Flow!FlowSpec, At, Target
<1> QED
    BY <1>1, <1>2, <1>3, PTL DEF CpuSpec

\* Cpu::run as well, for the programs that it treats as step does: what blocks
\* complete is in the order of the program's flow.
THEOREM BlocksArePrecise ==
    SparingSpec /\ []StaysInside /\ []KeepsToFlow => PreciseExceptions
    BY BlocksInterpret, InterpreterIsPrecise, PTL DEF ImplementsInterpreter
=============================================================================
