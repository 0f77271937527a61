--------------------------- MODULE RcpInterrupts ---------------------------
(* How an interrupt travels: a device of the RCP raises its line in the MIPS
   interface (MI), MI drives the CPU's Cause.IP2, the CPU enters its handler
   between two instructions, and the guest acknowledges the device through the
   device's own register.

   One action is one CPU instruction, one RSP instruction or one device tick.
   Emulator::step_cpu_rsp runs the three in slices of at most kDeviceBatch; the
   model lets them interleave freely, which contains every slicing.  The
   program the guest runs is unknown, so any instruction may come next.  A DMA
   of PI, SI or SP and a display list of DP are over when the store that started
   them returns, so their busy bits are never seen set.                      *)
EXTENDS Integers, FiniteSets

CONSTANTS
    InUse,         \* sets of devices: a behaviour uses those of one of them
    Statuses,      \* what MTC0 may write to Status
    MaskWrites,    \* <<lines to clear, lines to set>> of an MI_INTR_MASK write
    SpWrites,      \* the sets of command bits of an SP_STATUS write
    DpWrites,      \* the sets of command bits of a DPC_STATUS write
    LastLines,     \* the last line of a frame that V_SYNC may select
    DefaultLast    \* the one after a reset

Lines == {"SP", "SI", "AI", "VI", "PI", "DP"}        \* mmio::MiIntr
Causes == {"IP1", "IP2", "IP7"}                      \* software, RCP, timer
StatusRegister == [ie : BOOLEAN, exl : BOOLEAN, erl : BOOLEAN, im : SUBSET Causes]
SpCommands == {"ClearHalt", "SetHalt", "ClearBroke", "ClearIntr", "SetIntr",
               "ClearIntrBreak", "SetIntrBreak"}
DpCommands == {"ClearFreeze", "SetFreeze", "SetFlush"}

ASSUME InUseAssumption      == InUse \subseteq SUBSET Lines
ASSUME StatusesAssumption   == Statuses \subseteq StatusRegister
ASSUME MaskWritesAssumption == MaskWrites \subseteq (SUBSET Lines) \X (SUBSET Lines)
ASSUME SpWritesAssumption   == SpWrites \subseteq SUBSET SpCommands
ASSUME DpWritesAssumption   == DpWrites \subseteq SUBSET DpCommands
ASSUME LinesAssumption ==
    LastLines \subseteq Nat \ {0} /\ IsFiniteSet(LastLines) /\ DefaultLast \in LastLines

VARIABLES
    in_use,                 \* the devices the guest uses; it never changes
    intr, intr_mask,        \* MI: the lines raised, the lines let through
    ip1, ip2, ip7,          \* Cause: the interrupt-pending bits
    sr,                     \* Status: the bits that gate interrupts
    branch_pending,         \* the next instruction is a delay slot
    pi_intr, si_intr,       \* StatusIntr of PI and of SI
    sp, rsp,                \* SP_STATUS, and the RSP's own copies of its flags
    dp_start_valid, dp_freeze,
    v_current, v_intr, last_line, interrupt_line,   \* VI, counted in lines
    ai_jobs                 \* AI: the DMAs accepted and not finished

mi == <<intr, intr_mask, ip2>>
cpu == <<ip1, ip7, sr, branch_pending>>
dp == <<dp_start_valid, dp_freeze>>
vi == <<v_current, v_intr, last_line, interrupt_line>>
machine == <<mi, cpu, pi_intr, si_intr, sp, rsp, dp, vi, ai_jobs>>
vars == <<in_use, machine>>

Init ==
    /\ in_use \in InUse
    /\ intr = {} /\ intr_mask = {}
    /\ ip1 = FALSE /\ ip2 = FALSE /\ ip7 = FALSE
    /\ sr = [ie |-> FALSE, exl |-> FALSE, erl |-> FALSE, im |-> {}]
    /\ branch_pending = FALSE
    /\ pi_intr = FALSE /\ si_intr = FALSE
    /\ sp = [halt |-> TRUE, broke |-> FALSE, intr_on_break |-> FALSE]
    /\ rsp = sp
    /\ dp_start_valid = FALSE /\ dp_freeze = FALSE
    /\ v_current = 0 /\ v_intr = 1 /\ last_line = DefaultLast
    /\ interrupt_line = FALSE
    /\ ai_jobs = 0

-----------------------------------------------------------------------------
(* The MIPS interface.  Every change of a line or of the mask ends in notify(),
   which sets or clears Cause.IP2.                                           *)

Drive(lines) ==
    /\ intr' = lines
    /\ ip2' = (lines \cap intr_mask # {})
    /\ UNCHANGED intr_mask

Raise(line) == Drive(intr \cup {line})
Clear(line) == Drive(intr \ {line})

WriteMaskLate(clear, set) ==             \* mutant: notify before the new mask
    /\ intr_mask' = (intr_mask \ clear) \cup set
    /\ ip2' = (intr \cap intr_mask # {})
    /\ UNCHANGED intr

WriteMask(clear, set) ==
    /\ intr_mask' = (intr_mask \ clear) \cup set
    /\ ip2' = (intr \cap intr_mask' # {})
    /\ UNCHANGED intr

-----------------------------------------------------------------------------
(* The CPU.                                                                  *)

Asserted ==
    {c \in Causes : \/ c = "IP1" /\ ip1
                    \/ c = "IP2" /\ ip2
                    \/ c = "IP7" /\ ip7}

\* An enabled request: what check_interrupts looks for.
Enabled == sr.ie /\ ~sr.exl /\ ~sr.erl /\ Asserted \cap sr.im # {}

\* The check comes before each instruction that is not in a delay slot.
Deliverable == ~branch_pending /\ Enabled

\* advance_count at the end of every instruction: Count may now equal Compare.
AdvanceCount(pending) == ip7' \in {pending, TRUE}

\* An instruction other than a branch, run because no interrupt came first.
Instruction == ~Deliverable /\ branch_pending' = FALSE
Store == Instruction /\ AdvanceCount(ip7) /\ UNCHANGED <<ip1, sr>>

TakeInterruptKeepsExl ==                 \* mutant: the handler starts without EXL
    /\ Deliverable
    /\ AdvanceCount(ip7)
    /\ UNCHANGED <<mi, ip1, sr, branch_pending, pi_intr, si_intr, sp, rsp, dp, vi, ai_jobs>>

TakeInterrupt ==
    /\ Deliverable
    /\ sr' = [sr EXCEPT !.exl = TRUE]
    /\ AdvanceCount(ip7)
    /\ UNCHANGED <<mi, ip1, branch_pending, pi_intr, si_intr, sp, rsp, dp, vi, ai_jobs>>

\* A fault, SYSCALL or BREAK; also an MTC0 that user mode may not run.
TakeException ==
    /\ Instruction
    /\ sr' = [sr EXCEPT !.exl = TRUE]
    /\ AdvanceCount(ip7)
    /\ UNCHANGED <<mi, ip1, pi_intr, si_intr, sp, rsp, dp, vi, ai_jobs>>

\* A taken branch; in a delay slot it does not open another one.
Branch ==
    /\ ~Deliverable
    /\ branch_pending' = ~branch_pending
    /\ AdvanceCount(ip7)
    /\ UNCHANGED <<mi, ip1, sr, pi_intr, si_intr, sp, rsp, dp, vi, ai_jobs>>

OtherInstruction ==
    /\ Instruction /\ AdvanceCount(ip7)
    /\ UNCHANGED <<mi, ip1, sr, pi_intr, si_intr, sp, rsp, dp, vi, ai_jobs>>

WriteStatus ==
    /\ Instruction /\ AdvanceCount(ip7)
    /\ sr' \in Statuses
    /\ UNCHANGED <<mi, ip1, pi_intr, si_intr, sp, rsp, dp, vi, ai_jobs>>

\* Only the software bits of Cause are writable.
WriteCause ==
    /\ Instruction /\ AdvanceCount(ip7)
    /\ ip1' \in BOOLEAN
    /\ UNCHANGED <<mi, sr, pi_intr, si_intr, sp, rsp, dp, vi, ai_jobs>>

\* The acknowledgement of the timer; the same step may count up to the new value.
WriteCompare ==
    /\ Instruction /\ AdvanceCount(FALSE)
    /\ UNCHANGED <<mi, ip1, sr, pi_intr, si_intr, sp, rsp, dp, vi, ai_jobs>>

Eret ==
    /\ Instruction /\ AdvanceCount(ip7)
    /\ sr' = IF sr.erl THEN [sr EXCEPT !.erl = FALSE] ELSE [sr EXCEPT !.exl = FALSE]
    /\ UNCHANGED <<mi, ip1, pi_intr, si_intr, sp, rsp, dp, vi, ai_jobs>>

-----------------------------------------------------------------------------
(* Stores to the device registers.                                           *)

WriteMiMask ==
    /\ Store
    /\ \E w \in MaskWrites : WriteMask(w[1], w[2])
    /\ UNCHANGED <<pi_intr, si_intr, sp, rsp, dp, vi, ai_jobs>>

\* MI_INTR is read-only and MI_MODE is stored as it is: no line changes.
WriteMiMode ==
    /\ Store
    /\ UNCHANGED <<mi, pi_intr, si_intr, sp, rsp, dp, vi, ai_jobs>>

\* PI_RD_LEN and PI_WR_LEN: the whole DMA, then finish_dma.
PiDma ==
    /\ "PI" \in in_use /\ Store
    /\ pi_intr' = TRUE /\ Raise("PI")
    /\ UNCHANGED <<si_intr, sp, rsp, dp, vi, ai_jobs>>

PiResetClears(clear) ==                  \* mutant: WrReset drops StatusIntr too
    /\ "PI" \in in_use /\ Store
    /\ pi_intr' = FALSE
    /\ IF clear THEN Clear("PI") ELSE UNCHANGED mi
    /\ UNCHANGED <<si_intr, sp, rsp, dp, vi, ai_jobs>>

\* PI_STATUS: WrReset leaves the interrupt alone, WrClrIntr acknowledges it.
PiStatusWrite(clear) ==
    /\ "PI" \in in_use /\ Store
    /\ IF clear THEN pi_intr' = FALSE /\ Clear("PI") ELSE UNCHANGED <<pi_intr, mi>>
    /\ UNCHANGED <<si_intr, sp, rsp, dp, vi, ai_jobs>>

SiDma ==
    /\ "SI" \in in_use /\ Store
    /\ si_intr' = TRUE /\ Raise("SI")
    /\ UNCHANGED <<pi_intr, sp, rsp, dp, vi, ai_jobs>>

SiStatusWrite ==
    /\ "SI" \in in_use /\ Store
    /\ si_intr' = FALSE /\ Clear("SI")
    /\ UNCHANGED <<pi_intr, sp, rsp, dp, vi, ai_jobs>>

\* Writing VI_CURRENT acknowledges; the line counter does not change.
ViCurrentWrite ==
    /\ "VI" \in in_use /\ Store
    /\ interrupt_line' = FALSE /\ Clear("VI")
    /\ UNCHANGED <<v_current, v_intr, last_line, pi_intr, si_intr, sp, rsp, dp, ai_jobs>>

ViIntrWrite ==
    /\ "VI" \in in_use /\ Store
    /\ v_intr' \in {0} \cup LastLines
    /\ UNCHANGED <<mi, v_current, last_line, interrupt_line, pi_intr, si_intr, sp, rsp,
                   dp, ai_jobs>>

ViSyncWrite ==
    /\ "VI" \in in_use /\ Store
    /\ last_line' \in LastLines
    /\ UNCHANGED <<mi, v_current, v_intr, interrupt_line, pi_intr, si_intr, sp, rsp,
                   dp, ai_jobs>>

AiStatusWrite ==
    /\ "AI" \in in_use /\ Store
    /\ Clear("AI")
    /\ UNCHANGED <<pi_intr, si_intr, sp, rsp, dp, vi, ai_jobs>>

\* AI_LEN: one DMA plays, one more waits, a third is dropped.
AiLenWrite ==
    /\ "AI" \in in_use /\ Store
    /\ ai_jobs' = IF ai_jobs < 2 THEN ai_jobs + 1 ELSE ai_jobs
    /\ UNCHANGED <<mi, pi_intr, si_intr, sp, rsp, dp, vi>>

-----------------------------------------------------------------------------
(* Registers that the CPU and the RSP both write.                            *)

\* do_dma raises the line whatever the direction.
SpDma == Raise("SP") /\ UNCHANGED <<sp, rsp>>

\* apply_status_write: each clear bit before the set bit of its pair.
SpFlags(flags, value) ==
    [halt |-> "SetHalt" \in value \/ (flags.halt /\ "ClearHalt" \notin value),
     broke |-> flags.broke /\ {"ClearHalt", "ClearBroke"} \cap value = {},
     intr_on_break |-> \/ "SetIntrBreak" \in value
                       \/ flags.intr_on_break /\ "ClearIntrBreak" \notin value]

SpStatusWriteKeepsBreak(value) ==        \* mutant: the RSP is not told
    /\ sp' = SpFlags(sp, value)
    /\ rsp' = [SpFlags(rsp, value) EXCEPT !.intr_on_break = rsp.intr_on_break]
    /\ IF "SetIntr" \in value THEN Raise("SP")
       ELSE IF "ClearIntr" \in value THEN Clear("SP") ELSE UNCHANGED mi

SpStatusWrite(value) ==
    /\ sp' = SpFlags(sp, value)
    /\ rsp' = SpFlags(rsp, value)
    /\ IF "SetIntr" \in value THEN Raise("SP")
       ELSE IF "ClearIntr" \in value THEN Clear("SP") ELSE UNCHANGED mi

DpStartWrite == dp_start_valid' = TRUE /\ UNCHANGED <<dp_freeze, mi>>

\* DPC_END: runs the list, and interrupts, unless frozen, without a START or
\* not past it.
DpEndWrite(past_start) ==
    IF dp_start_valid /\ past_start /\ ~dp_freeze
    THEN dp_start_valid' = FALSE /\ Raise("DP") /\ UNCHANGED dp_freeze
    ELSE UNCHANGED <<dp, mi>>

DpStatusWrite(value) ==
    /\ dp_freeze' = ("SetFreeze" \in value \/ (dp_freeze /\ "ClearFreeze" \notin value))
    /\ IF "SetFlush" \in value THEN Raise("DP") ELSE UNCHANGED mi
    /\ UNCHANGED dp_start_valid

DpWrite ==
    \/ DpStartWrite
    \/ \E past_start \in BOOLEAN : DpEndWrite(past_start)
    \/ \E value \in DpWrites : DpStatusWrite(value)

CpuSpDma ==
    /\ "SP" \in in_use /\ Store
    /\ SpDma
    /\ UNCHANGED <<pi_intr, si_intr, dp, vi, ai_jobs>>

CpuSpStatusWrite ==
    /\ "SP" \in in_use /\ Store
    /\ \E value \in SpWrites : SpStatusWrite(value)
    /\ UNCHANGED <<pi_intr, si_intr, dp, vi, ai_jobs>>

CpuDpWrite ==
    /\ "DP" \in in_use /\ Store
    /\ DpWrite
    /\ UNCHANGED <<pi_intr, si_intr, sp, rsp, vi, ai_jobs>>

CpuStep ==
    \/ TakeInterrupt \/ TakeException \/ Branch \/ OtherInstruction
    \/ WriteStatus \/ WriteCause \/ WriteCompare \/ Eret
    \/ WriteMiMask \/ WriteMiMode \/ PiDma \/ SiDma \/ SiStatusWrite
    \/ \E clear \in BOOLEAN : PiStatusWrite(clear)
    \/ ViCurrentWrite \/ ViIntrWrite \/ ViSyncWrite \/ AiStatusWrite \/ AiLenWrite
    \/ CpuSpDma \/ CpuSpStatusWrite \/ CpuDpWrite

-----------------------------------------------------------------------------
(* The RSP, while it is not halted.  Instructions that touch neither the SP nor
   the DP registers change nothing here.                                     *)

RspBreak ==
    /\ ~rsp.halt
    /\ rsp' = [rsp EXCEPT !.halt = TRUE, !.broke = TRUE]
    /\ sp' = [sp EXCEPT !.halt = TRUE, !.broke = TRUE]
    /\ IF rsp.intr_on_break THEN Raise("SP") ELSE UNCHANGED mi
    /\ UNCHANGED <<cpu, pi_intr, si_intr, dp, vi, ai_jobs>>

RspSpDma == ~rsp.halt /\ SpDma /\ UNCHANGED <<cpu, pi_intr, si_intr, dp, vi, ai_jobs>>

\* MTC0 to SP_STATUS; the RSP then reads two of its flags back, to the values
\* SpStatusWrite has just given both copies.
RspSpStatusWrite ==
    /\ ~rsp.halt
    /\ \E value \in SpWrites : SpStatusWrite(value)
    /\ UNCHANGED <<cpu, pi_intr, si_intr, dp, vi, ai_jobs>>

RspDpWrite ==
    /\ "DP" \in in_use /\ ~rsp.halt
    /\ DpWrite
    /\ UNCHANGED <<cpu, pi_intr, si_intr, sp, rsp, vi, ai_jobs>>

RspStep == RspBreak \/ RspSpDma \/ RspSpStatusWrite \/ RspDpWrite

-----------------------------------------------------------------------------
(* The devices that run with time: a tick that completes a line, or the last
   sample of an audio DMA.                                                   *)

NextLineShort == IF v_current + 1 >= last_line THEN 0 ELSE v_current + 1  \* mutant
NextLine == IF v_current + 1 > last_line THEN 0 ELSE v_current + 1

ViLine ==
    /\ "VI" \in in_use
    /\ v_current' = NextLine
    /\ LET waiting == IF NextLine = 0 THEN FALSE ELSE interrupt_line
           fire == ~waiting /\ v_intr # 0 /\ NextLine = v_intr
       IN /\ interrupt_line' = (waiting \/ fire)
          /\ IF fire THEN Raise("VI") ELSE UNCHANGED mi
    /\ UNCHANGED <<v_intr, last_line, cpu, pi_intr, si_intr, sp, rsp, dp, ai_jobs>>

AiFinishSilent ==                        \* mutant: only an empty queue interrupts
    /\ ai_jobs > 0
    /\ ai_jobs' = ai_jobs - 1
    /\ IF ai_jobs = 2 THEN Raise("AI") ELSE UNCHANGED mi
    /\ UNCHANGED <<cpu, pi_intr, si_intr, sp, rsp, dp, vi>>

AiFinish ==
    /\ ai_jobs > 0
    /\ ai_jobs' = ai_jobs - 1
    /\ Raise("AI")
    /\ UNCHANGED <<cpu, pi_intr, si_intr, sp, rsp, dp, vi>>

\* Emulator::reset: every component's reset(); MI's does not notify, and the
\* CPU's, which comes later, clears Cause.
Reset ==
    /\ intr' = {} /\ intr_mask' = {}
    /\ ip1' = FALSE /\ ip2' = FALSE /\ ip7' = FALSE
    /\ sr' = [ie |-> FALSE, exl |-> FALSE, erl |-> FALSE, im |-> {}]
    /\ branch_pending' = FALSE
    /\ pi_intr' = FALSE /\ si_intr' = FALSE
    /\ sp' = [halt |-> TRUE, broke |-> FALSE, intr_on_break |-> FALSE]
    /\ rsp' = sp'
    /\ dp_start_valid' = FALSE /\ dp_freeze' = FALSE
    /\ v_current' = 0 /\ v_intr' = 1 /\ last_line' = DefaultLast
    /\ interrupt_line' = FALSE
    /\ ai_jobs' = 0

Run == CpuStep \/ RspStep \/ ViLine \/ AiFinish
Next == (Run \/ Reset) /\ UNCHANGED in_use

Spec == Init /\ [][Next]_vars

\* While the emulator runs the CPU executes and the devices get their ticks.
FairSpec ==
    Spec /\ WF_machine(CpuStep) /\ WF_machine(ViLine) /\ WF_machine(AiFinish)

-----------------------------------------------------------------------------
(* Properties.                                                               *)

MiType == intr \subseteq Lines /\ intr_mask \subseteq Lines /\ ip2 \in BOOLEAN

CpuType ==
    /\ ip1 \in BOOLEAN /\ ip7 \in BOOLEAN
    /\ sr \in StatusRegister /\ branch_pending \in BOOLEAN

SpType ==
    /\ sp \in [halt : BOOLEAN, broke : BOOLEAN, intr_on_break : BOOLEAN]
    /\ rsp \in [halt : BOOLEAN, broke : BOOLEAN, intr_on_break : BOOLEAN]

DeviceType ==
    /\ pi_intr \in BOOLEAN /\ si_intr \in BOOLEAN
    /\ dp_start_valid \in BOOLEAN /\ dp_freeze \in BOOLEAN
    /\ v_current \in Nat /\ v_intr \in Nat
    /\ last_line \in LastLines /\ interrupt_line \in BOOLEAN
    /\ ai_jobs \in 0 .. 2

\* Every variable has its type.
TypeOK == MiType /\ CpuType /\ SpType /\ DeviceType

\* What the CPU sees is what MI says: Cause.IP2 is set exactly while a line is
\* both raised and let through, whichever device, processor or register write
\* changed either side last, and whatever the guest writes to Cause.
IrqLevel == ip2 <=> (intr \cap intr_mask # {})

\* The status registers a handler reads and the lines of MI tell the same
\* story: PI's and SI's StatusIntr are their lines, and a VI that holds its
\* interrupt line has it raised in MI.
StatusAgreement ==
    /\ pi_intr <=> ("PI" \in intr)
    /\ si_intr <=> ("SI" \in intr)
    /\ interrupt_line => "VI" \in intr

\* SP_STATUS, that the CPU reads, and the flags the RSP runs by are two copies
\* written by two processors, and never differ.
SpAgreement == sp = rsp

\* The CPU does not execute for ever past an enabled interrupt request.
InterruptsServed == []<>~Enabled

\* A game that leaves V_INTR on one line, and V_SYNC at or past it, gets its
\* vertical interrupt again and again, whenever it acknowledges the last one.
VerticalRecurs ==
    \A line \in LastLines :
        (<>[]("VI" \in in_use /\ v_intr = line /\ line <= last_line))
            => []<>("VI" \in intr)

\* An audio DMA that was accepted ends in an audio interrupt, also when another
\* is not waiting behind it, unless a reset cuts it off.
AudioAnswered == (ai_jobs > 0) ~> ("AI" \in intr \/ Init)

\* "devices clear via their own status registers" (mi.cpp): a display processor
\* interrupt does not outlast a guest that keeps writing every register of
\* DP and of MI.
GuestKeepsWriting ==
    /\ SF_machine(CpuDpWrite) /\ SF_machine(Eret)
    /\ SF_machine(WriteMiMask) /\ SF_machine(WriteMiMode)
GuestSpec == FairSpec /\ GuestKeepsWriting
DpAcknowledged == [](("DP" \in intr) => <>("DP" \notin intr))

=============================================================================
