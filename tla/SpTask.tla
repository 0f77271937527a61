------------------------------- MODULE SpTask -------------------------------
(* What the CPU and the RSP share in the signal processor: DMEM and IMEM, of
   which Bus and Rsp each keep a copy, the DMA engine with its address
   registers, and the semaphore register with which two programs keep out of
   each other's way.

   The CPU writes the registers through the bus, the RSP through MTC0, and
   Emulator::step_cpu_rsp runs them in slices, so the accesses interleave.  The
   programs are unknown but for one rule: a program touches the DMA registers
   only after it read 0 from SP_SEMAPHORE, and writes SP_SEMAPHORE only to give
   it back.  Memory is counted in cells, and a DMA is one step: it is over when
   the store that started it returns.                                        *)
EXTENDS Integers

CONSTANTS
    BankCells,     \* the size of DMEM and of IMEM
    RdramCells,    \* the size of RDRAM
    DramRange,     \* SP_DRAM_ADDR counts modulo this
    Values,        \* what a cell may hold
    Zero,          \* what reset fills them with
    Transfers,     \* [length, count, skip]: what may be written to a length register
    Unset          \* history: an address the holder has not written yet

VARIABLES
    bus_mem,       \* Bus::sp_dmem_ and sp_imem_
    rsp_mem,       \* Rsp::dmem_ and imem_
    rdram,         \* RDRAM
    mem_addr,      \* SP_MEM_ADDR: the bank and the offset in it
    dram_addr,     \* SP_DRAM_ADDR
    semaphore,
    halted,        \* whether the RSP is
    holders,       \* history: who read 0 and has not given it back
    programmed     \* history: the addresses that each of them relies on

memories == <<bus_mem, rsp_mem, rdram>>
registers == <<mem_addr, dram_addr>>
spVars == <<memories, registers, semaphore, halted, holders, programmed>>

Banks == {"DMEM", "IMEM"}
Offsets == 0 .. BankCells - 1
Processors == {"CPU", "RSP"}
SpAddresses == [bank : Banks, offset : Offsets]
DramAddresses == 0 .. DramRange - 1

ASSUME BanksAssumption == {BankCells, RdramCells, DramRange} \subseteq Nat \ {0}
ASSUME ValuesAssumption == Zero \in Values
ASSUME UnsetAssumption == Unset \notin DramAddresses \cup SpAddresses
ASSUME TransfersAssumption ==
    Transfers \subseteq [length : Nat \ {0}, count : Nat \ {0}, skip : Nat]

NothingYet == [mem |-> Unset, dram |-> Unset]
Nobody == [p \in Processors |-> NothingYet]
ClearedBanks == [bank \in Banks |-> [o \in Offsets |-> Zero]]

\* RDRAM is as the boot left it.
SpInit ==
    /\ bus_mem = ClearedBanks /\ rsp_mem = ClearedBanks
    /\ rdram \in [0 .. RdramCells - 1 -> Values]
    /\ mem_addr = [bank |-> "DMEM", offset |-> 0] /\ dram_addr = 0
    /\ semaphore = 0
    /\ halted = TRUE
    /\ holders = {} /\ programmed = Nobody

\* The RSP executes nothing while it is halted.
Runs(p) == p = "RSP" => ~halted

-----------------------------------------------------------------------------
(* The two copies of DMEM and IMEM.                                          *)

\* A store of the CPU to SP memory goes to both.
StoreToSp(bank, offset, value) ==
    /\ bus_mem' = [bus_mem EXCEPT ![bank][offset] = value]
    /\ rsp_mem' = [rsp_mem EXCEPT ![bank][offset] = value]
    /\ UNCHANGED <<rdram, registers, semaphore, halted, holders, programmed>>

Span(offset, width) == {(offset + i) % BankCells : i \in 0 .. width - 1}

RspStoreLocal(offset, value, width) ==   \* mutant: left for push_mem_to_bus
    /\ ~halted
    /\ rsp_mem' = [rsp_mem EXCEPT !["DMEM"] =
                     [o \in Offsets |-> IF o \in Span(offset, width) THEN value ELSE @[o]]]
    /\ UNCHANGED <<bus_mem, rdram, registers, semaphore, halted, holders, programmed>>

\* SB to SW and the vector stores: each wraps in DMEM, and what the RSP's copy
\* now holds there is copied to the bus's.
RspStore(offset, value, width) ==
    LET cells == Span(offset, width)
    IN /\ ~halted
       /\ rsp_mem' = [rsp_mem EXCEPT !["DMEM"] =
                        [o \in Offsets |-> IF o \in cells THEN value ELSE @[o]]]
       /\ bus_mem' = [bus_mem EXCEPT !["DMEM"] =
                        [o \in Offsets |-> IF o \in cells THEN rsp_mem'["DMEM"][o] ELSE @[o]]]
       /\ UNCHANGED <<rdram, registers, semaphore, halted, holders, programmed>>

\* SP_STATUS with WrClearHalt: the RSP takes the bus's copy of both banks.
ClearHalt ==
    /\ halted' = FALSE
    /\ rsp_mem' = bus_mem
    /\ UNCHANGED <<bus_mem, rdram, registers, semaphore, holders, programmed>>

\* SP_STATUS with WrSetHalt, from the CPU.
CpuSetHalt ==
    /\ halted' = TRUE
    /\ UNCHANGED <<memories, registers, semaphore, holders, programmed>>

\* BREAK, or MTC0 of WrSetHalt: step() gives the bus the RSP's copy.
RspStops ==
    /\ ~halted
    /\ halted' = TRUE
    /\ bus_mem' = rsp_mem
    /\ UNCHANGED <<rsp_mem, rdram, registers, semaphore, holders, programmed>>

\* The end of run_cycles and of run_frame, while the RSP runs or after a BREAK.
PushMemToBus ==
    /\ bus_mem' = rsp_mem
    /\ UNCHANGED <<rsp_mem, rdram, registers, semaphore, halted, holders, programmed>>

\* SP_PC: the RSP goes on with another program, that knows nothing of the last.
SetPc ==
    /\ holders' = holders \ {"RSP"}
    /\ programmed' = [programmed EXCEPT !["RSP"] = NothingYet]
    /\ UNCHANGED <<memories, registers, semaphore, halted>>

-----------------------------------------------------------------------------
(* The semaphore.                                                            *)

ReadSemaphorePlain(p) ==                 \* mutant: read() without its side effect
    /\ Runs(p)
    /\ p \notin holders
    /\ holders' = IF semaphore = 0 THEN holders \cup {p} ELSE holders
    /\ UNCHANGED <<memories, registers, semaphore, halted, programmed>>

\* read_semaphore, from the bus or from MFC0: 0 says that it is now the reader's.
ReadSemaphore(p) ==
    /\ Runs(p)
    /\ p \notin holders
    /\ holders' = IF semaphore = 0 THEN holders \cup {p} ELSE holders
    /\ semaphore' = 1
    /\ UNCHANGED <<memories, registers, halted, programmed>>

WriteSemaphore(p) ==
    /\ Runs(p)
    /\ p \in holders
    /\ semaphore' = 0
    /\ holders' = holders \ {p}
    /\ programmed' = [programmed EXCEPT ![p] = NothingYet]
    /\ UNCHANGED <<memories, registers, halted>>

-----------------------------------------------------------------------------
(* The DMA engine.                                                           *)

WriteMemAddr(p, address) ==
    /\ Runs(p)
    /\ p \in holders
    /\ mem_addr' = address
    /\ programmed' = [programmed EXCEPT ![p].mem = address]
    /\ UNCHANGED <<memories, dram_addr, semaphore, halted, holders>>

WriteDramAddr(p, address) ==
    /\ Runs(p)
    /\ p \in holders
    /\ dram_addr' = address
    /\ programmed' = [programmed EXCEPT ![p].dram = address]
    /\ UNCHANGED <<memories, mem_addr, semaphore, halted, holders>>

\* A transfer at work: the bank and RDRAM as they are, and where it is in both.
\* The i-th cell of a line: SP memory wraps, RDRAM is mirrored.
MoveCell(to_sp, st, i) ==
    LET sp == (st.mem + i) % BankCells
        dr == (st.dram + i) % RdramCells
    IN IF to_sp THEN [st EXCEPT !.bank[sp] = st.rdram[dr]]
                ELSE [st EXCEPT !.rdram[dr] = st.bank[sp]]

MoveLine(to_sp, t, st) ==
    LET cells[i \in 0 .. t.length] ==
            IF i = 0 THEN st ELSE MoveCell(to_sp, cells[i - 1], i - 1)
    IN [cells[t.length] EXCEPT !.mem = (@ + t.length) % BankCells,
                               !.dram = @ + t.length + t.skip]

DmaStart == [bank |-> bus_mem[mem_addr.bank], rdram |-> rdram,
             mem |-> mem_addr.offset, dram |-> dram_addr]

\* do_dma: count lines, in SP memory without gaps.
Moved(to_sp, t) ==
    LET lines[n \in 0 .. t.count] ==
            IF n = 0 THEN DmaStart ELSE MoveLine(to_sp, t, lines[n - 1])
    IN lines[t.count]

EndAddressForgetsBank(st) == [bank |-> "DMEM", offset |-> st.mem]     \* mutant

\* SP_MEM_ADDR after a DMA that ended in st.
EndAddress(st) == [bank |-> mem_addr.bank, offset |-> st.mem]

\* Where a program that relied on the addresses in `by' believes they are after a DMA.
Advanced(by, t) ==
    [mem |-> IF by.mem = Unset THEN Unset
             ELSE [by.mem EXCEPT !.offset = (@ + t.length * t.count) % BankCells],
     dram |-> IF by.dram = Unset THEN Unset
              ELSE (by.dram + (t.length + t.skip) * t.count) % DramRange]

\* SP_RD_LEN (into SP memory) and SP_WR_LEN.  The RSP's copy of the bank is made
\* from the bus's, whatever the direction.
StartDma(p, to_sp, t) ==
    LET st == Moved(to_sp, t)
    IN /\ Runs(p)
       /\ p \in holders
       /\ bus_mem' = [bus_mem EXCEPT ![mem_addr.bank] = st.bank]
       /\ rsp_mem' = [rsp_mem EXCEPT ![mem_addr.bank] = st.bank]
       /\ rdram' = st.rdram
       /\ mem_addr' = EndAddress(st)
       /\ dram_addr' = st.dram % DramRange
       /\ programmed' = [programmed EXCEPT ![p] = Advanced(@, t)]
       /\ UNCHANGED <<semaphore, halted, holders>>

\* Emulator::reset; both programs are gone.
SpReset ==
    /\ bus_mem' = ClearedBanks /\ rsp_mem' = ClearedBanks
    /\ rdram' = [a \in 0 .. RdramCells - 1 |-> Zero]
    /\ mem_addr' = [bank |-> "DMEM", offset |-> 0] /\ dram_addr' = 0
    /\ semaphore' = 0
    /\ halted' = TRUE
    /\ holders' = {} /\ programmed' = Nobody

SpNext ==
    \/ \E bank \in Banks, offset \in Offsets, value \in Values :
          StoreToSp(bank, offset, value)
    \/ \E offset \in Offsets, value \in Values, width \in {1, 2} :
          RspStore(offset, value, width)
    \/ ClearHalt \/ CpuSetHalt \/ RspStops \/ PushMemToBus \/ SetPc \/ SpReset
    \/ \E p \in Processors :
          \/ ReadSemaphore(p) \/ WriteSemaphore(p)
          \/ \E address \in SpAddresses : WriteMemAddr(p, address)
          \/ \E address \in DramAddresses : WriteDramAddr(p, address)
          \/ \E to_sp \in BOOLEAN, t \in Transfers : StartDma(p, to_sp, t)

SpSpec == SpInit /\ [][SpNext]_spVars

-----------------------------------------------------------------------------
(* Properties.                                                               *)

\* Bus and Rsp hold the same DMEM and IMEM at every step of either processor: no
\* order of stores, DMAs, halts and copies lets one of them act on old data, or
\* lets pull_mem_from_bus or push_mem_to_bus undo a store.
CopiesAgree == bus_mem = rsp_mem

\* SP_SEMAPHORE keeps the processors apart: never do both believe they hold it,
\* and while one does the register is not free.
SemaphoreExclusion ==
    /\ \A p, q \in holders : p = q
    /\ holders # {} => semaphore = 1

\* A program that took the semaphore finds the DMA registers as it left them: a
\* DMA moves between the addresses its starter wrote, or, when it wrote none
\* since its last DMA, from where that one ended, whatever the other processor
\* did in between.
DmaAsProgrammed ==
    \A p \in holders :
        /\ programmed[p].mem \in {Unset, mem_addr}
        /\ programmed[p].dram \in {Unset, dram_addr}

=============================================================================
