---------------------------- MODULE AddressSpace ----------------------------
(* What an address means to the CPU: the TLB, the mode and the ASID, the CP0
   instructions that change them, the exceptions that a translation raises, the
   blocks that Cpu::run finds by their virtual address, and the reservation that
   LL takes on a physical one.

   Memory counts in pages: a virtual page is a segment's, a frame a physical
   page, and pc and EPC are known by their page.  A block lies in one page, and
   what keeps it equal to the words of its frame is BlockCache's business.  Delay
   slots are Interpreter's; a handler starts in the page of the vectors.

   A guest is known by the instructions and operands it uses.  Of guests it is
   assumed that MTC0 to Status leaves them in kernel mode (ERET is the way out),
   with CU0 clear, that they write EntryHi and Status with MTC0, and, unless Stray,
   that no jump and no ERET goes where the mode may not.                     *)
EXTENDS Integers, FiniteSets, FiniteSetsExt

CONSTANTS
    Entries,       \* kTlbEntryCount
    KUSEG,         \* how many pages each segment has: translated in every mode,
    KSEG0,         \*   direct-mapped and for the kernel (KSEG1 is its alias),
    SSEG,          \*   translated, for kernel and supervisor,
    KSEG3,         \*   translated, for the kernel
    Frames,        \* how many physical pages
    Asids, AsidZero,
    Large,         \* how many pages a large one holds
    KernelFlow,    \* history: who a program in kernel mode is
    None,
    Guests,        \* what programs do: see GuestType
    Stray          \* whether programs go where their mode may not

Causes == {"AddressError", "TlbMiss", "TlbInvalid", "TlbModified"}

ASSUME SizesAssumption ==
    /\ {Entries, KUSEG, KSEG0, SSEG, KSEG3, Frames, Large} \subseteq Nat \ {0}
    /\ AsidZero \in Asids /\ KernelFlow \notin Asids
    /\ Stray \in BOOLEAN
    /\ None \notin Causes /\ None \notin 0 .. Frames - 1

VARIABLES
    guest,                     \* the program: chosen once
    tlb,                       \* tlb_
    index, random, wired,      \* Index: an entry, or ProbeFail
    entry_hi,                  \* EntryHi: a pair of pages and the ASID
    entry_lo,                  \* PageMask, EntryLo0 and EntryLo1
    ksu, exl, erl,             \* Status
    pc, epc, error_epc,        \* by their page
    ll_bit, ll_addr,           \* ll_bit_, ll_addr_
    blocks,                    \* <<page, frame>> of the blocks that lookup finds
    running,                   \* the block that execute_block is in
    fault,                     \* history: the last TLB exception, while EntryHi tells of it
    intact,                    \* history: the frame each program's LL read, not stored to since
    last_sc                    \* history: how the last SC ended

cp0 == <<index, entry_hi, entry_lo>>
status == <<ksu, exl, erl>>
reservation == <<ll_bit, ll_addr>>
history == <<fault, intact, last_sc>>
vars == <<guest, tlb, cp0, random, wired, status, pc, epc, error_epc, reservation,
          blocks, running, history>>

Indices == 0 .. Entries - 1
ProbeFail == -1
Pages == 0 .. KUSEG + KSEG0 + SSEG + KSEG3 - 1
Pairs == {p \div 2 : p \in Pages}
VectorPage == KUSEG
Modes == {"kernel", "supervisor", "user"}
Flows == Asids \cup {KernelFlow}

Lo == [frame : 0 .. Frames - 1, valid : BOOLEAN, dirty : BOOLEAN, global : BOOLEAN]
PairLo == [size : {1, Large}, even : Lo, odd : Lo]
Hi == [pair : Pairs, asid : Asids]
Entry == [hi : Hi, lo : PairLo]
Status == [ksu : Modes, exl : BOOLEAN, erl : BOOLEAN]

Ops == {"load", "store", "ll", "sc", "jump", "interrupt", "eret", "status", "epc",
        "error_epc", "entry_hi", "entry_lo", "index", "wired", "tlbr", "tlbwi", "tlbwr",
        "tlbp"}
GuestType ==
    [ops : SUBSET Ops, pages : SUBSET Pages, his : SUBSET Hi, los : SUBSET PairLo,
     statuses : SUBSET Status, wireds : SUBSET Indices]

ASSUME GuestsAssumption ==
    /\ Guests \subseteq GuestType
    /\ \A g \in Guests : \A s \in g.statuses : s.ksu = "kernel" \/ s.exl \/ s.erl

Zero == [hi |-> [pair |-> 0, asid |-> AsidZero],
         lo |-> [size |-> 1,
                 even |-> [frame |-> 0, valid |-> FALSE, dirty |-> FALSE, global |-> FALSE],
                 odd |-> [frame |-> 0, valid |-> FALSE, dirty |-> FALSE, global |-> FALSE]]]
NoBlock == <<None, None>>

\* Cpu::reset, and a guest that starts in KSEG0 with the status the boot gives it.
Init ==
    /\ guest \in Guests
    /\ tlb = [i \in Indices |-> Zero]
    /\ index = 0 /\ random = Entries - 1 /\ wired = 0
    /\ entry_hi = Zero.hi /\ entry_lo = Zero.lo
    /\ ksu = "kernel" /\ exl = FALSE /\ erl = FALSE
    /\ pc = VectorPage /\ epc = VectorPage /\ error_epc = VectorPage
    /\ ll_bit = FALSE /\ ll_addr = 0
    /\ blocks = {} /\ running = NoBlock
    /\ fault = None /\ intact = [f \in Flows |-> None] /\ last_sc = "none"

-----------------------------------------------------------------------------
(* Translation.                                                              *)

Segment(page) ==
    IF page < KUSEG THEN "KUSEG"
    ELSE IF page < KUSEG + KSEG0 THEN "KSEG0"
    ELSE IF page < KUSEG + KSEG0 + SSEG THEN "SSEG" ELSE "KSEG3"

ModeOf(k, x, l) == IF x \/ l THEN "kernel" ELSE k
Mode == ModeOf(ksu, exl, erl)

AllowedIn(mode, page) ==
    CASE Segment(page) = "KUSEG" -> TRUE
      [] Segment(page) = "SSEG" -> mode # "user"
      [] OTHER -> mode = "kernel"

Allowed(page) == AllowedIn(Mode, page)

\* Where a jump or an ERET goes: without Stray a program keeps to its mode's segments.
MayGo(mode, page) == Stray \/ AllowedIn(mode, page)

Global(e) == e.lo.even.global /\ e.lo.odd.global

\* An entry covers two pages of its size; address bits below are not compared.
Covers(e, page) ==
    /\ page \div (2 * e.lo.size) = (2 * e.hi.pair) \div (2 * e.lo.size)
    /\ Global(e) \/ e.hi.asid = entry_hi.asid

Matching(page) == {i \in Indices : Covers(tlb[i], page)}

LoOf(e, page) == IF (page \div e.lo.size) % 2 = 0 THEN e.lo.even ELSE e.lo.odd

Fails(why, entry) == [fault |-> why, frame |-> None, entry |-> entry]
Gives(frame) == [fault |-> None, frame |-> frame, entry |-> None]

\* Where an entry takes a page of its own.
ThroughEntry(e, page, is_store, i) ==
    LET lo == LoOf(e, page)
        size == e.lo.size
    IN IF ~lo.valid THEN Fails("TlbInvalid", i)
       ELSE IF is_store /\ ~lo.dirty THEN Fails("TlbModified", i)
       ELSE Gives((size * (lo.frame \div size) + (page % size)) % Frames)

\* translate_address, in a mode that may: the first entry that matches decides.
Mapped(page, is_store) ==
    IF Segment(page) = "KSEG0" THEN Gives((page - KUSEG) % Frames)
    ELSE IF Matching(page) = {} THEN Fails("TlbMiss", ProbeFail)
    ELSE LET i == Min(Matching(page)) IN ThroughEntry(tlb[i], page, is_store, i)

Translate(page, is_store) ==
    IF Allowed(page) THEN Mapped(page, is_store) ELSE Fails("AddressError", None)

Translates(page, is_store) == Translate(page, is_store).fault = None

-----------------------------------------------------------------------------
(* Exceptions.                                                               *)

EnterForgetsAddress(is_tlb, page, entry) ==     \* mutant: EntryHi is made from pc
    /\ exl' = TRUE
    /\ epc' = IF exl THEN epc ELSE pc
    /\ pc' = VectorPage /\ running' = NoBlock
    /\ entry_hi' = IF is_tlb THEN [entry_hi EXCEPT !.pair = pc \div 2] ELSE entry_hi
    /\ fault' = IF is_tlb THEN [page |-> page, entry |-> entry] ELSE fault
    /\ UNCHANGED <<guest, tlb, index, wired, entry_lo, ksu, erl, error_epc, ll_addr,
                   blocks, intact, last_sc>>

Enter(is_tlb, page, entry) ==
    /\ exl' = TRUE
    /\ epc' = IF exl THEN epc ELSE pc
    /\ pc' = VectorPage /\ running' = NoBlock
    /\ entry_hi' = IF is_tlb THEN [entry_hi EXCEPT !.pair = page \div 2] ELSE entry_hi
    /\ fault' = IF is_tlb THEN [page |-> page, entry |-> entry] ELSE fault
    /\ UNCHANGED <<guest, tlb, index, wired, entry_lo, ksu, erl, error_epc, ll_addr,
                   blocks, intact, last_sc>>

RaiseKeepsReservation(is_tlb, page, entry) ==          \* mutant
    Enter(is_tlb, page, entry) /\ UNCHANGED ll_bit

\* raise_exception; only those of the TLB tell EntryHi of the page.
Raise(is_tlb, page, entry) == Enter(is_tlb, page, entry) /\ ll_bit' = FALSE

TrapTo == Raise(FALSE, 0, None)

\* raise_translation_fault.
RaiseFault(translation, page) ==
    Raise(translation.fault # "AddressError", page, translation.entry)

RandomPastWired(written) ==                            \* mutant: < for <=
    random' = IF random < written THEN Entries - 1 ELSE random - 1

\* advance_count: Random runs down to Wired and starts again.
AdvanceRandom(written) ==
    random' = IF random <= written THEN Entries - 1 ELSE random - 1

Tick == AdvanceRandom(wired)

-----------------------------------------------------------------------------
(* How an instruction is found.                                              *)

\* Cpu::run: lookup, or compile if pc translates; with room for the block.  The
\* slot of a branch that ends the page is read from the next one.
EnterBlock ==
    /\ running = NoBlock
    /\ LET cached == {b \in blocks : b[1] = pc}
           here == Translate(pc, FALSE)
       IN \/ \E b \in cached : running' = b /\ UNCHANGED blocks
          \/ /\ here.fault = None
             /\ running' = <<pc, here.frame>>
             /\ blocks' = blocks \cup {running'}
    /\ UNCHANGED <<guest, tlb, cp0, random, wired, status, pc, epc, error_epc,
                   reservation, history>>

EndsNotByMtc0 == {"jump", "eret", "tlbr", "tlbwi", "tlbwr", "tlbp"}        \* mutant

\* is_terminal_no_delay, and the branches.
Ends == {"jump", "eret", "status", "entry_hi", "tlbr", "tlbwi", "tlbwr", "tlbp"}

\* The next instruction is op: the block holds it, or step fetched it.
Executes(op) ==
    /\ op \in guest.ops
    /\ running = NoBlock => Translates(pc, FALSE)

\* The block goes on after op, or is left.  It has no instruction after one that
\* ends it, and none in the next page.
Goes(op) ==
    \/ /\ op \notin Ends
       /\ UNCHANGED <<pc, running>>
    \/ pc' = pc /\ running' = NoBlock
    \/ /\ pc + 1 \in guest.pages /\ Segment(pc + 1) = Segment(pc)
       /\ pc' = pc + 1 /\ running' = NoBlock

\* step's fetch.
FetchFaults ==
    /\ running = NoBlock
    /\ ~Translates(pc, FALSE)
    /\ RaiseFault(Translate(pc, FALSE), pc)
    /\ Tick

Interrupt ==
    /\ "interrupt" \in guest.ops
    /\ ~exl /\ ~erl
    /\ TrapTo
    /\ Tick

Jump(page) ==
    /\ Executes("jump")
    /\ page \in guest.pages /\ MayGo(Mode, page)
    /\ pc' = page /\ running' = NoBlock
    /\ Tick
    /\ UNCHANGED <<guest, tlb, cp0, wired, status, epc, error_epc, reservation, blocks,
                   history>>

-----------------------------------------------------------------------------
(* Memory.                                                                   *)

\* Who executes: a program that an exception interrupts is another one's.
Flow == IF Mode = "kernel" THEN KernelFlow ELSE entry_hi.asid

AccessFaults(op, page) ==
    LET t == Translate(page, op \in {"store", "sc"})
    IN /\ Executes(op)
       /\ t.fault # None
       /\ RaiseFault(t, page)
       /\ Tick

accessed == <<guest, tlb, cp0, wired, status, epc, error_epc, blocks, fault>>

Load(page) ==
    /\ Executes("load") /\ Translates(page, FALSE)
    /\ Goes("load") /\ Tick
    /\ UNCHANGED <<accessed, reservation, intact, last_sc>>

\* Nobody's LL of the frame holds any more.
StoredTo(frame) == intact' = [f \in Flows |-> IF intact[f] = frame THEN None ELSE intact[f]]

Store(page) ==
    /\ Executes("store") /\ Translates(page, TRUE)
    /\ StoredTo(Translate(page, TRUE).frame)
    /\ ll_bit' = FALSE
    /\ Goes("store") /\ Tick
    /\ UNCHANGED <<accessed, ll_addr, last_sc>>

LoadLinked(page) ==
    /\ Executes("ll") /\ Translates(page, FALSE)
    /\ ll_bit' = TRUE /\ ll_addr' = Translate(page, FALSE).frame
    /\ intact' = [intact EXCEPT ![Flow] = ll_addr']
    /\ Goes("ll") /\ Tick
    /\ UNCHANGED <<accessed, last_sc>>

Reserved(frame) == ll_bit /\ ll_addr = frame

StoreConditional(page) ==
    LET frame == Translate(page, TRUE).frame
    IN /\ Executes("sc") /\ Translates(page, TRUE)
       /\ IF Reserved(frame)
          THEN /\ StoredTo(frame)
               /\ last_sc' = IF intact[Flow] = frame THEN "good" ELSE "lost"
          ELSE UNCHANGED intact /\ last_sc' = "none"
       /\ ll_bit' = FALSE
       /\ Goes("sc") /\ Tick
       /\ UNCHANGED <<accessed, ll_addr>>

-----------------------------------------------------------------------------
(* Coprocessor 0, in kernel mode.                                            *)

Privileged(op) == Executes(op) /\ Mode = "kernel"

\* coprocessor_usable fails: CpU.
Unusable ==
    /\ \E op \in guest.ops \ {"load", "store", "ll", "sc", "jump", "interrupt"} :
          Executes(op) /\ Mode # "kernel"
    /\ TrapTo
    /\ Tick

others == <<guest, error_epc, intact, last_sc>>

WriteStatus(s) ==
    /\ Privileged("status") /\ s \in guest.statuses
    /\ ksu' = s.ksu /\ exl' = s.exl /\ erl' = s.erl
    /\ blocks' = {}
    /\ Goes("status") /\ Tick
    /\ UNCHANGED <<others, tlb, cp0, wired, epc, reservation, fault>>

WriteEntryHi(h) ==
    /\ Privileged("entry_hi") /\ h \in guest.his
    /\ entry_hi' = h /\ fault' = None
    /\ blocks' = {}
    /\ Goes("entry_hi") /\ Tick
    /\ UNCHANGED <<others, tlb, index, entry_lo, wired, status, epc, reservation>>

\* PageMask, EntryLo0 and EntryLo1: nothing reads them between two of the writes.
WriteEntryLo(l) ==
    /\ Privileged("entry_lo") /\ l \in guest.los
    /\ entry_lo' = l
    /\ Goes("entry_lo") /\ Tick
    /\ UNCHANGED <<others, tlb, index, entry_hi, wired, status, epc, reservation, blocks,
                   fault>>

WriteIndex(i) ==
    /\ Privileged("index") /\ i \in Indices
    /\ index' = i
    /\ Goes("index") /\ Tick
    /\ UNCHANGED <<others, tlb, entry_hi, entry_lo, wired, status, epc, reservation, blocks,
                   fault>>

\* Random starts again at the top, before advance_count moves it.
WriteWired(w) ==
    /\ Privileged("wired") /\ w \in guest.wireds
    /\ wired' = w
    /\ random' = IF Entries - 1 <= w THEN Entries - 1 ELSE Entries - 2
    /\ Goes("wired")
    /\ UNCHANGED <<others, tlb, cp0, status, epc, reservation, blocks, fault>>

\* A handler returns elsewhere than to the program it interrupted.
WriteEPC(page) ==
    /\ Privileged("epc") /\ page \in guest.pages
    /\ epc' = page
    /\ Goes("epc") /\ Tick
    /\ UNCHANGED <<others, tlb, cp0, wired, status, reservation, blocks, fault>>

WriteErrorEPC(page) ==
    /\ Privileged("error_epc") /\ page \in guest.pages
    /\ error_epc' = page
    /\ Goes("error_epc") /\ Tick
    /\ UNCHANGED <<guest, tlb, cp0, wired, status, epc, reservation, blocks, history>>

ReadIndexed ==
    LET e == tlb[IF index = ProbeFail THEN 0 ELSE index]
    IN /\ Privileged("tlbr")
       /\ entry_hi' = e.hi /\ entry_lo' = e.lo /\ fault' = None
       /\ blocks' = {}
       /\ Goes("tlbr") /\ Tick
       /\ UNCHANGED <<others, tlb, index, wired, status, epc, reservation>>

\* tlb_write_indexed: a failed probe's Index names entry 0.
WriteEntry(op, i) ==
    /\ Privileged(op)
    /\ tlb' = [tlb EXCEPT ![i] = [hi |-> entry_hi, lo |-> entry_lo]]
    /\ fault' = None
    /\ blocks' = {}
    /\ Goes(op) /\ Tick
    /\ UNCHANGED <<others, cp0, wired, status, epc, reservation>>

WriteIndexed == WriteEntry("tlbwi", IF index = ProbeFail THEN 0 ELSE index)
WriteRandom == WriteEntry("tlbwr", random)

ProbedSmall == {i \in Indices : /\ tlb[i].hi.pair = entry_hi.pair     \* mutant: no PageMask
                                /\ Global(tlb[i]) \/ tlb[i].hi.asid = entry_hi.asid}

\* What tlb_probe compares: EntryHi knows a pair of small pages.
Probed ==
    {i \in Indices :
        /\ (2 * entry_hi.pair) \div (2 * tlb[i].lo.size)
              = (2 * tlb[i].hi.pair) \div (2 * tlb[i].lo.size)
        /\ Global(tlb[i]) \/ tlb[i].hi.asid = entry_hi.asid}

Probe ==
    /\ Privileged("tlbp")
    /\ index' = IF Probed = {} THEN ProbeFail ELSE Min(Probed)
    /\ Goes("tlbp") /\ Tick
    /\ UNCHANGED <<others, tlb, entry_hi, entry_lo, wired, status, epc, reservation, blocks,
                   fault>>

\* The blocks stay, and are found in the mode and at the address it returns to.
Eret ==
    /\ Privileged("eret")
    /\ IF erl THEN erl' = FALSE /\ pc' = error_epc /\ UNCHANGED exl
              ELSE exl' = FALSE /\ pc' = epc /\ UNCHANGED erl
    /\ MayGo(ModeOf(ksu, exl', erl'), pc')
    /\ ll_bit' = FALSE
    /\ running' = NoBlock
    /\ Tick
    /\ UNCHANGED <<others, tlb, cp0, wired, ksu, epc, ll_addr, blocks, fault>>

Next ==
    \/ EnterBlock \/ FetchFaults \/ Interrupt \/ Unusable
    \/ \E page \in guest.pages :
          \/ Jump(page)
          \/ \E op \in {"load", "store", "ll", "sc"} : AccessFaults(op, page)
          \/ Load(page) \/ Store(page) \/ LoadLinked(page) \/ StoreConditional(page)
          \/ WriteEPC(page) \/ WriteErrorEPC(page)
    \/ \E s \in guest.statuses : WriteStatus(s)
    \/ \E h \in guest.his : WriteEntryHi(h)
    \/ \E l \in guest.los : WriteEntryLo(l)
    \/ \E i \in Indices : WriteIndex(i)
    \/ \E w \in guest.wireds : WriteWired(w)
    \/ ReadIndexed \/ WriteIndexed \/ WriteRandom \/ Probe \/ Eret

Spec == Init /\ [][Next]_vars

-----------------------------------------------------------------------------
(* Properties.                                                               *)

TlbType ==
    /\ tlb \in [Indices -> Entry]
    /\ index \in Indices \cup {ProbeFail} /\ random \in Indices /\ wired \in Indices
    /\ entry_hi \in Hi /\ entry_lo \in PairLo

CpuType ==
    /\ guest \in Guests
    /\ ksu \in Modes /\ exl \in BOOLEAN /\ erl \in BOOLEAN
    /\ pc \in Pages /\ epc \in Pages /\ error_epc \in Pages
    /\ ll_bit \in BOOLEAN /\ ll_addr \in 0 .. Frames - 1

HistoryType ==
    /\ fault \in [page : Pages, entry : Indices \cup {ProbeFail}] \cup {None}
    /\ intact \in [Flows -> (0 .. Frames - 1) \cup {None}]
    /\ last_sc \in {"none", "good", "lost"}

\* Every variable has its type, and a running block is one that lookup finds at pc.
TypeOK ==
    /\ TlbType /\ CpuType /\ HistoryType
    /\ blocks \subseteq Pages \X (0 .. Frames - 1)
    /\ running # NoBlock => running \in blocks /\ running[1] = pc

\* Of programs that only go where their mode may (~Stray): no instruction runs under
\* a mapping that is no longer the CPU's.  What execute_block executes is what step
\* would fetch, through every MTC0, TLB instruction and exception, inside a block
\* and between two, and after every jump and ERET within the mode's segments.
RunsWhatIsMapped == running # NoBlock => Translate(pc, FALSE) = Gives(running[2])

\* User mode cannot fetch from KSEG0, as test_tlb.cpp has it of step; here of the
\* blocks that run finds there, whoever compiled them.  With Stray it is violated:
\* lookup does not ask for the mode, and ERET, which changes it, keeps the blocks.
UserCannotFetchKseg0 == running # NoBlock /\ Mode = "user" => Segment(pc) # "KSEG0"

\* TLBWR never replaces a wired entry: Random stays between Wired and the last
\* entry, from the instruction after MTC0 to Wired on (advance_count).
RandomSparesWired == random \in wired .. Entries - 1

\* A handler that executes TLBP before it touches EntryHi or the TLB learns which
\* entry refused the access, or that none matched: translate_address and
\* tlb_probe, two loops over the entries with masks of their own, agree through
\* what raise_exception left in EntryHi.
ProbeNamesTheFault == [][(Probe /\ fault # None) => index' = fault.entry]_vars

\* And when it writes a valid page there, or after a miss with TLBWR anywhere,
\* the access that failed translates: the entry covers the address, no other one
\* hides it, and the half that was meant is the one looked at.
WriteRepairs ==
    [][\A p \in Pages :
         (/\ fault # None /\ fault.page = p
          /\ LoOf([hi |-> entry_hi, lo |-> entry_lo], p).valid
          /\ \/ WriteRandom /\ fault.entry = ProbeFail
             \/ WriteIndexed /\ fault.entry \in {index, ProbeFail})
         => Translates(p, FALSE)']_vars

\* SC is atomic: it stores only if no store to the frame, by whatever program and
\* under whatever address, came after the same program's LL of it; exceptions and
\* the handlers' own LL and SC between the two included.
ScAtomic == last_sc # "lost"

=============================================================================
