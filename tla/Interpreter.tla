---------------------------- MODULE Interpreter -----------------------------
(* Cpu::step: one instruction at a time.  An instruction is its kind and, for a
   branch, where it goes; whether a branch is taken and whether a load faults
   depend on data and may go either way.

   Addresses count in words.  One that is not a multiple of four keeps its offset
   when the CPU goes on to the next, so that such addresses are words of their own,
   Unaligned, numbered apart from the others; what the bus gives there is made of
   two of those.

     plain    anything that only computes
     load     computes or raises: a load, a sum that may overflow, a test that
              may trap
     store    writes a word, that may be an instruction, or raises
     jump     always taken, and with a delay slot
     branch   with a delay slot, taken or not
     likely   a branch that drops its delay slot when it is not taken
     trap     SYSCALL or BREAK
     status   MTC0 to Status, that masks interrupts or lets them in
     skip     MTC0 to EPC, with which a handler steps over a trap
     refill   TLBWR, with which a handler maps a page
     eret
     hole     a word whose page is not mapped                                *)
EXTENDS Integers

CONSTANTS
    Addresses,     \* the words of the program and of the handler
    Unaligned,     \* those that are not a multiple of four
    Vector,        \* the general exception vector
    Programs,      \* what memory may hold at the start
    Patches,       \* what a store may write: new instructions for some of the addresses
    NoTarget,
    CountRange     \* Count is 32 bits wide; here it counts modulo this

VARIABLES
    code,          \* what translate and the bus give for each address
    pc, next_pc,
    pending,       \* branch_pending_: pc is in a delay slot
    exl, epc, bd,  \* Status.EXL, EPC, Cause.BD
    ie, irq,       \* Status.IE, and whether Cause and Status share an IP bit
    count          \* Count, and how often Random was moved

control == <<pc, next_pc, pending>>
exception == <<exl, epc, bd>>
cpuVars == <<code, control, exception, ie, irq, count>>

Ops == {"plain", "load", "store", "jump", "branch", "likely", "trap", "status", "skip",
        "refill", "eret", "hole"}
Insns == [op : Ops, to : Addresses]

ASSUME AddressesAssumption ==
    /\ Addresses \subseteq Nat /\ Unaligned \subseteq Addresses
    /\ {Vector, 0} \subseteq Addresses \ Unaligned
ASSUME ProgramsAssumption == Programs \subseteq [Addresses -> Insns]
ASSUME PatchesAssumption ==
    \A patch \in Patches : DOMAIN patch \subseteq Addresses /\ patch \in [DOMAIN patch -> Insns]
ASSUME TargetAssumption == NoTarget \notin Int

\* Boot leaves the CPU at the entry point with interrupts masked.
CpuInit ==
    /\ code \in Programs
    /\ pc = 0 /\ next_pc = 1 /\ pending = FALSE
    /\ exl = FALSE /\ epc = 0 /\ bd = FALSE
    /\ ie = FALSE /\ irq = FALSE /\ count = 0

AdvanceCount == count' = (count + 1) % CountRange

RaiseForgetsSlot(slot) ==                  \* mutant: EPC is always pc
    /\ exl' = TRUE
    /\ epc' = IF exl THEN epc ELSE pc
    /\ bd' = IF exl THEN bd ELSE slot
    /\ pc' = Vector /\ next_pc' = Vector + 1 /\ pending' = FALSE

\* raise_exception, with in_delay_slot_ as step set it: EPC and BD are those of
\* the first exception until ERET.
Raise(slot) ==
    /\ exl' = TRUE
    /\ epc' = IF exl THEN epc ELSE IF slot THEN pc - 1 ELSE pc
    /\ bd' = IF exl THEN bd ELSE slot
    /\ pc' = Vector /\ next_pc' = Vector + 1 /\ pending' = FALSE

\* The end of step: execute left nx in next_pc_ and branches in branch_pending_.
Advance(nx, branches) ==
    IF pending THEN pc' = nx /\ next_pc' = nx + 1 /\ pending' = FALSE
    ELSE IF branches THEN pc' = pc + 1 /\ next_pc' = nx /\ pending' = TRUE
    ELSE pc' = nx /\ next_pc' = nx + 1 /\ pending' = FALSE

Sequential == IF pending THEN next_pc ELSE pc + 1

Deliverable == ~pending /\ ie /\ ~exl /\ irq

TakeInterrupt ==
    /\ Deliverable
    /\ Raise(FALSE)
    /\ AdvanceCount
    /\ UNCHANGED <<code, ie, irq>>

MayRaise == {"load", "store", "trap"}

\* execute(insn) raises an exception.
Faults(insn) ==
    /\ insn.op \in MayRaise
    /\ Raise(pending)
    /\ AdvanceCount
    /\ UNCHANGED <<code, ie, irq>>

GoesOn == Advance(Sequential, FALSE)

Compute(insn) ==
    /\ insn.op = "plain"
    /\ GoesOn
    /\ UNCHANGED <<code, exception, ie>>

Load(insn) ==
    /\ insn.op = "load"
    /\ GoesOn
    /\ UNCHANGED <<code, exception, ie>>

\* A store changes a word or two, at each address that reads of them.
Write(patch) ==
    code' = [a \in Addresses |-> IF a \in DOMAIN patch THEN patch[a] ELSE code[a]]

Store(insn) ==
    /\ insn.op = "store"
    /\ \E patch \in Patches : Write(patch)
    /\ GoesOn
    /\ UNCHANGED <<exception, ie>>

BranchTo(to) == Advance(to, TRUE)

Jump(insn) ==
    /\ insn.op = "jump"
    /\ BranchTo(insn.to)
    /\ UNCHANGED <<code, exception, ie>>

\* Not taken, it is a branch to the instruction after its delay slot.
Branch(insn) ==
    /\ insn.op = "branch"
    /\ BranchTo(insn.to) \/ BranchTo(pc + 2)
    /\ UNCHANGED <<code, exception, ie>>

BranchLikely(insn) ==
    /\ insn.op = "likely"
    /\ BranchTo(insn.to) \/ Advance(pc + 2, FALSE)
    /\ UNCHANGED <<code, exception, ie>>

WriteStatus(insn) ==
    /\ insn.op = "status"
    /\ ie' \in BOOLEAN
    /\ GoesOn
    /\ UNCHANGED <<code, exception>>

\* The handler steps over a trap, or writes EPC back as it was.
WriteEPC(insn) ==
    /\ insn.op = "skip"
    /\ epc' = IF exl /\ ~bd /\ code[epc].op = "trap" THEN epc + 1 ELSE epc
    /\ GoesOn
    /\ UNCHANGED <<code, exl, bd, ie>>

Filled == [a \in Addresses |-> IF code[a].op = "hole" THEN [code[a] EXCEPT !.op = "plain"]
                                                      ELSE code[a]]

WriteTlb(insn) ==
    /\ insn.op = "refill"
    /\ code' = Filled
    /\ GoesOn
    /\ UNCHANGED <<exception, ie>>

Eret(insn) ==
    /\ insn.op = "eret"
    /\ exl' = FALSE
    /\ pc' = epc /\ next_pc' = epc + 1 /\ pending' = FALSE
    /\ UNCHANGED <<code, epc, bd, ie>>

\* execute(insn) does not raise, and step moves on.
Completes(insn) ==
    /\ \/ Compute(insn) \/ Load(insn) \/ Store(insn)
       \/ Jump(insn) \/ Branch(insn) \/ BranchLikely(insn)
       \/ WriteStatus(insn) \/ WriteEPC(insn) \/ WriteTlb(insn) \/ Eret(insn)
    /\ AdvanceCount
    /\ UNCHANGED irq

\* fetch: the address is a multiple of four, and it translates.
Fetches(a) == a \notin Unaligned /\ code[a].op # "hole"

\* If not it raises an exception, in a delay slot as well.
FetchFaults ==
    /\ ~Fetches(pc)
    /\ Raise(pending)
    /\ AdvanceCount
    /\ UNCHANGED <<code, ie, irq>>

Step ==
    \/ TakeInterrupt
    \/ ~Deliverable /\ FetchFaults
    \/ ~Deliverable /\ Fetches(pc) /\ (Faults(code[pc]) \/ Completes(code[pc]))

\* A device, the timer or the program moves an interrupt line.
Device ==
    /\ irq' \in BOOLEAN
    /\ UNCHANGED <<code, control, exception, ie, count>>

CpuSpec == CpuInit /\ [][Step \/ Device]_cpuVars

-----------------------------------------------------------------------------
(* What the interpreter promises.                                            *)

\* The program stands at pc, or while a handler runs at EPC.
Following(address) == address + 1

Flow == INSTANCE ProgramFlow WITH
    at <- IF exl THEN epc ELSE pc,
    target <- IF ~exl /\ pending THEN next_pc ELSE NoTarget

\* Exceptions and interrupts are precise: whatever handlers run and wherever
\* they struck, the program's instructions complete in the order of its flow.
PreciseExceptions == Flow!FlowSpec
=============================================================================
