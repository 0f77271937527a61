----------------------------- MODULE BlockCache -----------------------------
(* The cache of basic blocks that Cpu::run executes instead of fetching, and
   everything that must keep it equal to memory: compilation, the guest's stores
   and the DMAs of PI, SI and SP (all through Bus::notify_memory_write), and the
   CP0 and TLB instructions that clear it.

   Addresses are counted in instruction words.  A virtual address is a segment
   and a word; KSEG0 and KSEG1 are direct-mapped, and their bases are multiples
   of the table, so the word alone selects the slot.  The CPU is in kernel mode.
   An instruction is known by what ends a block: a branch, which brings its
   delay slot along, or an instruction that ends it alone ("end").           *)
EXTENDS Integers, Sequences, FiniteSets, SequencesExt

CONSTANTS
    RdramWords,       \* the size of RDRAM
    DirectWords,      \* the words reached through KSEG0 and KSEG1
    MappedWords,      \* the words reached through the TLB
    PageWords,        \* a page
    TableSize,        \* kDirectTableSize
    MaxBlockInsns,    \* kMaxBlockInsns
    DmaSizes,         \* the lengths of a DMA
    WritesWrap,       \* whether programs write past the end of RDRAM
    MaxWrites         \* bound of the model: writes to memory

ASSUME SizesAssumption ==
    /\ {RdramWords, DirectWords, PageWords, TableSize, MaxBlockInsns} \subseteq Nat \ {0}
    /\ {MappedWords, MaxWrites} \subseteq Nat
    /\ RdramWords % PageWords = 0 /\ MappedWords % PageWords = 0
    /\ DmaSizes \subseteq Nat \ {0} /\ WritesWrap \in BOOLEAN

VARIABLES
    mem,       \* RDRAM
    tlb,       \* mapped page -> the physical page, or NoPage
    cache,     \* the BlockCache object
    writes     \* how many writes were made

vars == <<mem, tlb, cache, writes>>

Kinds == {"plain", "branch", "end"}
Words == 0 .. RdramWords - 1
Slots == 0 .. TableSize - 1
NoPage == -1
MappedPages == 0 .. MappedWords \div PageWords - 1
PhysicalPages == 0 .. RdramWords \div PageWords - 1

Addresses ==
    [segment : {"KSEG0", "KSEG1"}, word : 0 .. DirectWords - 1]
        \cup [segment : {"mapped"}, word : 0 .. MappedWords - 1]

-----------------------------------------------------------------------------
(* What the CPU sees.                                                        *)

\* translate_address, in kernel mode; NoPage stands for its faults.
Translate(v) ==
    IF v.segment # "mapped" THEN v.word
    ELSE IF v.word \div PageWords \notin MappedPages THEN NoPage
    ELSE LET page == tlb[v.word \div PageWords]
         IN IF page = NoPage THEN NoPage ELSE page * PageWords + (v.word % PageWords)

\* The bus mirrors RDRAM above its size.
ReadWord(paddr) == mem[paddr % RdramWords]

After(v, i) == [v EXCEPT !.word = @ + i]

-----------------------------------------------------------------------------
(* The bookkeeping of the slots whose virtual index says nothing about their
   physical address: a vector, and in each slot its position in the vector,
   0 for kNotAliased.  The block left in a slot that is not valid is never read,
   and is forgotten.                                                         *)

NoBlock == [paddr |-> 0, insns |-> << >>]
NoTag == [segment |-> "none", word |-> 0]
EmptySlot == [valid |-> FALSE, tag |-> NoTag, block |-> NoBlock, aliased_position |-> 0]

Mark(c, s) ==
    IF c.slot[s].aliased_position # 0 THEN c
    ELSE [c EXCEPT !.slot[s].aliased_position = Len(c.aliased) + 1,
                   !.aliased = Append(@, s)]

\* The last slot of the vector fills the hole.
Unmark(c, s) ==
    IF c.slot[s].aliased_position = 0 THEN c
    ELSE LET position == c.slot[s].aliased_position
             replacement == Last(c.aliased)
         IN [c EXCEPT !.aliased = Front([@ EXCEPT ![position] = replacement]),
                      !.slot[replacement].aliased_position = position,
                      !.slot[s].aliased_position = 0]

InvalidateSlot(c, s) ==
    IF ~c.slot[s].valid THEN c
    ELSE LET u == Unmark(c, s)
         IN [u EXCEPT !.slot[s].valid = FALSE, !.slot[s].tag = NoTag,
                      !.slot[s].block = NoBlock,
                      !.count = IF @ > 0 THEN @ - 1 ELSE 0]

\* clear()
Cleared == [slot |-> [s \in Slots |-> EmptySlot], aliased |-> << >>, count |-> 0]

-----------------------------------------------------------------------------
(* compile().                                                                *)

\* The body: up to the first branch or end, a page boundary, or the limit.
BodyLength(v) ==
    CHOOSE n \in 1 .. MaxBlockInsns :
        LET Last_(i) == \/ i = MaxBlockInsns
                        \/ ReadWord(Translate(After(v, i - 1))) # "plain"
                        \/ After(v, i).word % PageWords = 0
        IN Last_(n) /\ \A i \in 1 .. n - 1 : ~Last_(i)

\* The body, and the delay slot of the branch that ends it if it can be fetched.
Insns(v) ==
    LET n == BodyLength(v)
        body == [i \in 1 .. n |-> ReadWord(Translate(After(v, i - 1)))]
        delay == Translate(After(v, n))
    IN IF body[n] = "branch" /\ delay # NoPage
       THEN Append(body, ReadWord(delay)) ELSE body

SlotOf(v) == v.word % TableSize

CompiledKeepsMark(c, v) ==               \* mutant: the slot's old mark stays
    LET s == SlotOf(v)
        d == [c EXCEPT !.count = IF c.slot[s].valid THEN @ ELSE @ + 1,
                       !.slot[s] =
                          [valid |-> TRUE, tag |-> v,
                           block |-> [paddr |-> Translate(v), insns |-> Insns(v)],
                           aliased_position |-> @.aliased_position]]
    IN IF v.segment = "mapped" THEN Mark(d, s) ELSE d

Compiled(c, v) ==
    LET s == SlotOf(v)
        u == Unmark(c, s)
        d == [u EXCEPT !.count = IF c.slot[s].valid THEN @ ELSE @ + 1,
                       !.slot[s] =
                          [valid |-> TRUE, tag |-> v,
                           block |-> [paddr |-> Translate(v), insns |-> Insns(v)],
                           aliased_position |-> @.aliased_position]]
    IN IF v.segment = "mapped" THEN Mark(d, s) ELSE d

-----------------------------------------------------------------------------
(* invalidate(paddr, size).                                                  *)

Overlaps(block, paddr, size) ==
    paddr < block.paddr + Len(block.insns) /\ paddr + size > block.paddr

FirstCandidateLate(paddr) ==             \* mutant: forgets the delay slot
    IF paddr > MaxBlockInsns - 1 THEN paddr - (MaxBlockInsns - 1) ELSE 0

\* A block of MaxBlockInsns and a delay slot may begin that far before.
FirstCandidate(paddr) == IF paddr > MaxBlockInsns THEN paddr - MaxBlockInsns ELSE 0

\* First loop: the slots a direct-mapped block over the range can be in.
VisitSlot(c, s, paddr, size) ==
    IF c.slot[s].valid /\ Overlaps(c.slot[s].block, paddr, size)
    THEN InvalidateSlot(c, s) ELSE c

SweepDirect(c, paddr, size) ==
    LET first == FirstCandidate(paddr)
        words == paddr + size - first
        swept[i \in 0 .. words] ==
            IF i = 0 THEN c
            ELSE VisitSlot(swept[i - 1], (first + i - 1) % TableSize, paddr, size)
    IN swept[words]

\* Second loop: the vector, whose element under the cursor is another one after
\* a removal.  Each round removes or advances, so the length at the start is
\* the number of rounds.
VisitAliased(st, paddr, size) ==
    LET s == st.c.aliased[st.cursor]
    IN IF Overlaps(st.c.slot[s].block, paddr, size)
       THEN [st EXCEPT !.c = InvalidateSlot(@, s)]
       ELSE [st EXCEPT !.cursor = @ + 1]

SweepAliased(c, paddr, size) ==
    LET rounds == Len(c.aliased)
        swept[i \in 0 .. rounds] ==
            IF i = 0 THEN [c |-> c, cursor |-> 1]
            ELSE VisitAliased(swept[i - 1], paddr, size)
    IN swept[rounds].c

Invalidated(c, paddr, size) ==
    IF size >= TableSize THEN Cleared
    ELSE SweepAliased(SweepDirect(c, paddr, size), paddr, size)

\* Bus::notify_memory_write.
Notified(c, paddr, size) == IF c.count # 0 THEN Invalidated(c, paddr, size) ELSE c

-----------------------------------------------------------------------------
(* The machine around the cache.                                             *)

Init ==
    /\ mem = [w \in Words |-> "plain"]
    /\ tlb = [p \in MappedPages |-> NoPage]
    /\ cache = Cleared
    /\ writes = 0

Hit(v) == cache.slot[SlotOf(v)].valid /\ cache.slot[SlotOf(v)].tag = v

\* Cpu::run arrives at v: lookup misses and the block is compiled, unless v
\* does not translate.
RunAt(v) ==
    /\ ~Hit(v)
    /\ Translate(v) # NoPage
    /\ cache' = Compiled(cache, v)
    /\ UNCHANGED <<mem, tlb, writes>>

\* size words from paddr on are written, mirrored into RDRAM.
Write(paddr, size, kind) ==
    /\ writes < MaxWrites
    /\ writes' = writes + 1
    /\ mem' = [w \in Words |-> IF \E i \in 0 .. size - 1 : (paddr + i) % RdramWords = w
                               THEN kind ELSE mem[w]]
    /\ cache' = Notified(cache, paddr, size)
    /\ UNCHANGED tlb

\* The writes that the modelled programs make.
Reaches(paddr, size) == WritesWrap \/ paddr + size <= RdramWords

\* SB to SW, and SD, through any segment; an unaligned store faults.
CpuStore(v, size, kind) ==
    /\ v.word % size = 0
    /\ Translate(v) # NoPage
    /\ Reaches(Translate(v), size)
    /\ Write(Translate(v), size, kind)

\* PI, SI and SP transfers into RDRAM; of a DMA that runs past the end of RDRAM
\* the wrapped part is reported at the address it did not wrap to.
Dma(paddr, size, kind) == Reaches(paddr, size) /\ Write(paddr, size, kind)

\* TLBWI, TLBWR.
TlbWrite(page, frame) ==
    /\ tlb' = [tlb EXCEPT ![page] = frame]
    /\ cache' = Cleared
    /\ UNCHANGED <<mem, writes>>

\* TLBR, MTC0 to Status or to EntryHi, boot and reset.
Clear ==
    /\ cache' = Cleared
    /\ UNCHANGED <<mem, tlb, writes>>

Next ==
    \/ \E v \in Addresses : RunAt(v)
    \/ \E v \in Addresses, size \in {1, 2}, kind \in Kinds : CpuStore(v, size, kind)
    \/ \E paddr \in Words, size \in DmaSizes, kind \in Kinds : Dma(paddr, size, kind)
    \/ \E page \in MappedPages, frame \in PhysicalPages \cup {NoPage} :
          TlbWrite(page, frame)
    \/ Clear

Spec == Init /\ [][Next]_vars

-----------------------------------------------------------------------------
(* Properties.                                                               *)

Valid == {s \in Slots : cache.slot[s].valid}

\* The vector of aliased slots and the positions kept in the slots name each
\* other, and hold exactly the valid blocks of TLB-mapped addresses: a slot
\* missing from the vector would never be invalidated by a write to its page.
AliasAgreement ==
    /\ \A i \in 1 .. Len(cache.aliased) :
          cache.slot[cache.aliased[i]].aliased_position = i
    /\ \A s \in Slots :
          (cache.slot[s].aliased_position # 0) <=>
              (s \in Valid /\ cache.slot[s].tag.segment = "mapped")
    /\ \A s \in Slots :
          LET position == cache.slot[s].aliased_position
          IN position = 0 \/ (position \in 1 .. Len(cache.aliased) /\
                              cache.aliased[position] = s)

\* size() counts the valid blocks: notify_memory_write does not even look into
\* a cache whose size() is 0.
CountAgreement == cache.count = Cardinality(Valid)

\* What the cache keeps beside its slots tells the truth of them, through compiling,
\* replacing, invalidating while iterating and clearing.
BookkeepingAgrees == AliasAgreement /\ CountAgreement

\* What a fetch of the i-th instruction of the block in slot s would read now.
Fetched(s, i) == ReadWord(Translate(After(cache.slot[s].tag, i - 1)))

\* The instructions invalidate() can find: those at the physical address that
\* it computes from the block's first, below the end of RDRAM.
Tracked(s, i) ==
    /\ Translate(After(cache.slot[s].tag, i - 1)) = cache.slot[s].block.paddr + i - 1
    /\ cache.slot[s].block.paddr + i - 1 < RdramWords

\* No stale code, where invalidate() looks: a block that Cpu::run may execute holds
\* what the memory holds under the present mapping, in the instructions that lie in
\* one physical run with the first (Tracked), for programs that do not write round
\* the end of RDRAM (~WritesWrap).
TrackedCoherent ==
    \A s \in Valid : \A i \in 1 .. Len(cache.slot[s].block.insns) :
        Tracked(s, i) => cache.slot[s].block.insns[i] = Fetched(s, i)

\* Blocks that overlap the modified memory are invalidated, as block_cache.hpp says,
\* wherever their words lie.  It is violated: the delay slot of a branch that ends a
\* page is read from the next page, whose frame need not follow, and invalidate()
\* looks for it behind the branch.
WholeBlocksCoherent ==
    \A s \in Valid : \A i \in 1 .. Len(cache.slot[s].block.insns) :
        cache.slot[s].block.insns[i] = Fetched(s, i)

=============================================================================
