---------------------------- MODULE MemoryProofs ----------------------------
(* That what is kept twice stays the same: SP memory, of which Bus and Rsp have
   a copy each (SpTask), and the instructions of RDRAM that the block cache holds
   (BlockCache).  For every size of the memories, of the table and of a block.

   Both modules compute with loops, as recursive functions.  What a loop keeps
   is shown by OneByOne, and that the function which states it exists by
   Recursion; both are inductions over sets and functions.                   *)
EXTENDS SpTask, BlockCache, FiniteSetTheorems, SequenceTheorems, WellFoundedInduction, TLAPS

-----------------------------------------------------------------------------
(* Loops.                                                                    *)

\* A set of naturals has a least element.
LEMMA LeastOne ==
    ASSUME NEW S \in SUBSET Nat, NEW w \in S
    PROVE  \E m \in S : \A k \in S : m <= k
<1> DEFINE R == {ss \in Nat \X Nat : ss[1] < ss[2]}
<1>1. IsWellFoundedOn(R, Nat)
  BY NatLessThanWellFounded DEF OpToRel
<1>2. \A a, b \in Nat : a < b => <<a, b>> \in R
  OBVIOUS
<1> HIDE DEF R
<1>3. PICK m \in S : \A y \in S : <<y, m>> \notin R
  BY <1>1, WFMin
<1>4. ASSUME NEW k \in S PROVE m <= k
  <2>1. <<k, m>> \notin R /\ k \in Nat /\ m \in Nat
    BY <1>3
  <2>2. ~(k < m)
    BY <1>2, <2>1
  <2> QED BY <2>1, <2>2
<1> QED BY <1>4

\* What holds before a loop, and after each round if it held before it, always holds.
LEMMA OneByOne ==
    ASSUME NEW n \in Nat, NEW P \in SUBSET (0 .. n), 0 \in P,
           \A i \in 1 .. n : i - 1 \in P => i \in P
    PROVE  P = 0 .. n
<1> DEFINE Q == (0 .. n) \ P
<1>1. SUFFICES ASSUME Q # {} PROVE FALSE
  OBVIOUS
<1>2. PICK m \in Q : \A k \in Q : m <= k
  <2>1. PICK w : w \in Q
    BY <1>1
  <2>2. Q \in SUBSET Nat
    OBVIOUS
  <2> HIDE DEF Q
  <2> QED BY <2>1, <2>2, LeastOne
<1>3. m \in 1 .. n /\ m \notin P
  OBVIOUS
<1>4. m - 1 \in 0 .. n /\ m - 1 \notin P
  BY <1>3
<1>5. m <= m - 1
  BY <1>2, <1>4
<1> QED BY <1>3, <1>5

\* The states that a loop of n rounds goes through, whose round i makes V[i][x] of x.
Rounds(f, n, c, V) == f[0] = c /\ \A i \in 1 .. n : f[i] = V[i][f[i - 1]]

\* There are such states.
LEMMA Recursion ==
    ASSUME NEW n \in Nat, NEW S, NEW c \in S, NEW V \in [1 .. n -> [S -> S]]
    PROVE  \E f \in [0 .. n -> S] : Rounds(f, n, c, V)
<1> DEFINE P == {m \in 0 .. n : \E f \in [0 .. m -> S] : Rounds(f, m, c, V)}
<1>1. 0 \in P
  <2> DEFINE f == [i \in 0 .. 0 |-> c]
  <2>1. f \in [0 .. 0 -> S] /\ f[0] = c
    OBVIOUS
  <2>2. Rounds(f, 0, c, V) /\ 0 \in 0 .. n
    BY <2>1 DEF Rounds
  <2> HIDE DEF f
  <2> QED BY <2>1, <2>2
<1>2. ASSUME NEW m \in 1 .. n, m - 1 \in P PROVE m \in P
  <2>1. PICK f \in [0 .. m - 1 -> S] : Rounds(f, m - 1, c, V)
    BY <1>2
  <2> DEFINE last == V[m][f[m - 1]]
             g == [i \in 0 .. m |-> IF i = m THEN last ELSE f[i]]
  <2>2. f[m - 1] \in S /\ V[m] \in [S -> S] /\ last \in S
    OBVIOUS
  <2> HIDE DEF last
  <2>3. g \in [0 .. m -> S]
    BY <2>2
  <2>4. g[0] = c
    BY <2>1 DEF Rounds
  <2>5. ASSUME NEW i \in 1 .. m PROVE g[i] = V[i][g[i - 1]]
    <3>1. CASE i = m
      <4>1. g[m] = last
        OBVIOUS
      <4>2. m - 1 \in 0 .. m /\ m - 1 # m
        OBVIOUS
      <4>3. g[m - 1] = f[m - 1]
        BY <4>2
      <4> HIDE DEF g
      <4> QED BY <3>1, <4>1, <4>3 DEF last
    <3>2. CASE i # m
      <4>1. i \in 1 .. m - 1 /\ i \in 0 .. m /\ i - 1 \in 0 .. m /\ i - 1 # m
        BY <3>2
      <4>2. g[i] = f[i] /\ g[i - 1] = f[i - 1]
        BY <3>2, <4>1
      <4>3. f[i] = V[i][f[i - 1]]
        BY <2>1, <4>1 DEF Rounds
      <4> QED BY <4>2, <4>3
    <3> QED BY <3>1, <3>2
  <2>6. Rounds(g, m, c, V)
    BY <2>4, <2>5 DEF Rounds
  <2> HIDE DEF g
  <2> QED BY <2>3, <2>6
<1>3. P = 0 .. n
  <2> HIDE DEF P
  <2>1. P \in SUBSET (0 .. n)
    BY DEF P
  <2> QED BY <1>1, <1>2, <2>1, OneByOne
<1>4. n \in P
  BY <1>3
<1> QED BY <1>4

-----------------------------------------------------------------------------
(* Addresses that wrap.                                                      *)

\* A quotient and a remainder are the only ones.
LEMMA OneRemainder ==
    ASSUME NEW b \in Nat \ {0}, NEW a \in Int, NEW r \in 0 .. b - 1,
           \E q \in Int : a = b * q + r
    PROVE  a % b = r
<1> PICK q \in Int : a = b * q + r
  OBVIOUS
<1> DEFINE k == a \div b
           t == a % b
<1>1. k \in Int /\ t \in 0 .. b - 1 /\ a = b * k + t
  OBVIOUS
<1> HIDE DEF k, t
<1>2. b * q + r = b * k + t
  BY <1>1
<1>3. CASE q < k
  <2>1. b * (k - q) >= b
    BY <1>1, <1>3
  <2> QED BY <1>1, <1>2, <2>1
<1>4. CASE k < q
  <2>1. b * (q - k) >= b
    BY <1>1, <1>4
  <2> QED BY <1>1, <1>2, <2>1
<1>5. CASE k = q
  BY <1>1, <1>2, <1>5 DEF t
<1> QED BY <1>1, <1>3, <1>4, <1>5

LEMMA InRange == ASSUME NEW b \in Nat \ {0}, NEW a \in 0 .. b - 1 PROVE a % b = a
<1>1. a = b * 0 + a /\ a \in Int
  OBVIOUS
<1>2. \E q \in Int : a = b * q + a
  BY <1>1
<1> QED BY <1>1, <1>2, OneRemainder

\* A position that wraps may be moved before or after it wraps.
LEMMA WrapsOnce ==
    ASSUME NEW m \in Nat \ {0}, NEW a \in Int, NEW b \in Int
    PROVE  ((a % m) + b) % m = (a + b) % m
<1> DEFINE q == a \div m
           r == a % m
           k == (r + b) \div m
           t == (r + b) % m
<1>1. q \in Int /\ r \in Int /\ a = m * q + r
  OBVIOUS
<1>2. k \in Int /\ t \in 0 .. m - 1 /\ r + b = m * k + t
  BY <1>1
<1> HIDE DEF q, r, k, t
<1>3. m * (q + k) = m * q + m * k
  BY <1>1, <1>2
<1>4. a + b = m * (q + k) + t /\ q + k \in Int /\ a + b \in Int
  BY <1>1, <1>2, <1>3
<1>5. (a + b) % m = t
  BY <1>1, <1>2, <1>4, OneRemainder
<1> QED BY <1>5 DEF r, t

-----------------------------------------------------------------------------
(* SP memory.  What a DMA moves does not matter here.                        *)

\* Bus and Rsp hold the same two banks, whatever is in them.
Mirrored == rsp_mem = [b \in Banks |-> rsp_mem[b]] /\ bus_mem = rsp_mem

LEMMA InitMirrored == SpInit => Mirrored
BY DEF SpInit, Mirrored, ClearedBanks

\* What RspStore copies to the bus is what it stored.
LEMMA RspStoreMirrored ==
    ASSUME Mirrored, NEW offset, NEW value, NEW width, RspStore(offset, value, width)
    PROVE  Mirrored'
<1> DEFINE cells == Span(offset, width)
           stored == [o \in Offsets |-> IF o \in cells THEN value ELSE rsp_mem["DMEM"][o]]
<1>1. rsp_mem' = [rsp_mem EXCEPT !["DMEM"] = stored]
  BY DEF RspStore
<1>2. rsp_mem'["DMEM"] = stored
  BY <1>1 DEF Mirrored, Banks
<1>3. bus_mem' = [bus_mem EXCEPT !["DMEM"] =
         [o \in Offsets |-> IF o \in cells THEN rsp_mem'["DMEM"][o] ELSE bus_mem["DMEM"][o]]]
  BY DEF RspStore
<1>4. bus_mem' = [rsp_mem EXCEPT !["DMEM"] = stored]
  <2>1. [o \in Offsets |-> IF o \in cells THEN rsp_mem'["DMEM"][o] ELSE bus_mem["DMEM"][o]]
          = stored
    BY <1>2 DEF Mirrored
  <2>2. QED
    BY <1>3, <2>1 DEF Mirrored
<1>5. QED
  BY <1>1, <1>4 DEF Mirrored, Banks

LEMMA StartDmaMirrored ==
    ASSUME Mirrored, NEW p, NEW to_sp, NEW t, StartDma(p, to_sp, t)
    PROVE  Mirrored'
<1>1. PICK bank : /\ bus_mem' = [bus_mem EXCEPT ![mem_addr.bank] = bank]
                  /\ rsp_mem' = [rsp_mem EXCEPT ![mem_addr.bank] = bank]
  BY DEF StartDma
<1>2. QED
  BY <1>1 DEF Mirrored

LEMMA NextMirrored == Mirrored /\ [SpNext]_spVars => Mirrored'
<1> SUFFICES ASSUME Mirrored, [SpNext]_spVars PROVE Mirrored'
  OBVIOUS
<1>1. CASE \E bank \in Banks, offset \in Offsets, value \in Values :
              StoreToSp(bank, offset, value)
  <2>1. PICK bank \in Banks, offset \in Offsets, value \in Values :
            StoreToSp(bank, offset, value)
    BY <1>1
  <2>2. QED
    BY <2>1 DEF StoreToSp, Mirrored
<1>2. CASE \E offset \in Offsets, value \in Values, width \in {1, 2} :
              RspStore(offset, value, width)
  BY <1>2, RspStoreMirrored
<1>3. CASE ClearHalt \/ RspStops \/ PushMemToBus
  BY <1>3 DEF ClearHalt, RspStops, PushMemToBus, Mirrored
<1>4. CASE CpuSetHalt \/ SetPc \/ UNCHANGED spVars
  BY <1>4 DEF CpuSetHalt, SetPc, memories, spVars, Mirrored
<1>5. CASE SpReset
  BY <1>5 DEF SpReset, ClearedBanks, Mirrored
<1>6. ASSUME NEW p \in Processors,
             \/ ReadSemaphore(p) \/ WriteSemaphore(p)
             \/ \E address \in SpAddresses : WriteMemAddr(p, address)
             \/ \E address \in DramAddresses : WriteDramAddr(p, address)
      PROVE  Mirrored'
  BY <1>6 DEF ReadSemaphore, WriteSemaphore, WriteMemAddr, WriteDramAddr, memories, Mirrored
<1>7. ASSUME NEW p \in Processors,
             \E to_sp \in BOOLEAN, t \in Transfers : StartDma(p, to_sp, t)
      PROVE  Mirrored'
  BY <1>7, StartDmaMirrored
<1>8. QED
  BY <1>1, <1>2, <1>3, <1>4, <1>5, <1>6, <1>7 DEF SpNext

\* The CPU and the RSP always see one SP memory: the copy of Bus and the copy of
\* Rsp are equal after every store, DMA, halt, start and copy of either.
THEOREM OneSpMemory == SpSpec => []CopiesAgree
<1>1. Mirrored => CopiesAgree
  BY DEF Mirrored, CopiesAgree
<1>2. QED
  BY InitMirrored, NextMirrored, <1>1, PTL DEF SpSpec

-----------------------------------------------------------------------------

LEMMA NextExclusion == SemaphoreExclusion /\ [SpNext]_spVars => SemaphoreExclusion'
<1> SUFFICES ASSUME SemaphoreExclusion, [SpNext]_spVars PROVE SemaphoreExclusion'
  OBVIOUS
<1> USE DEF SemaphoreExclusion
<1>1. ASSUME NEW p \in Processors, ReadSemaphore(p)
      PROVE  SemaphoreExclusion'
  <2>1. CASE semaphore = 0
    <3>1. holders = {}
      BY <2>1
    <3>2. QED
      BY <1>1, <3>1 DEF ReadSemaphore
  <2>2. CASE semaphore # 0
    BY <1>1, <2>2 DEF ReadSemaphore
  <2>3. QED
    BY <2>1, <2>2
<1>2. ASSUME NEW p \in Processors, WriteSemaphore(p)
      PROVE  SemaphoreExclusion'
  BY <1>2 DEF WriteSemaphore
<1>3. CASE SetPc
  BY <1>3 DEF SetPc
<1>4. CASE SpReset
  BY <1>4 DEF SpReset
<1>5. CASE UNCHANGED <<semaphore, holders>>
  BY <1>5
<1>6. ASSUME NEW p \in Processors,
             \/ \E address \in SpAddresses : WriteMemAddr(p, address)
             \/ \E address \in DramAddresses : WriteDramAddr(p, address)
             \/ \E to_sp \in BOOLEAN, t \in Transfers : StartDma(p, to_sp, t)
      PROVE  UNCHANGED <<semaphore, holders>>
  BY <1>6 DEF WriteMemAddr, WriteDramAddr, StartDma
<1>7. CASE \/ \E bank \in Banks, offset \in Offsets, value \in Values :
                 StoreToSp(bank, offset, value)
           \/ \E offset \in Offsets, value \in Values, width \in {1, 2} :
                 RspStore(offset, value, width)
           \/ ClearHalt \/ CpuSetHalt \/ RspStops \/ PushMemToBus
  BY <1>5, <1>7 DEF StoreToSp, RspStore, ClearHalt, CpuSetHalt, RspStops, PushMemToBus
<1>8. CASE UNCHANGED spVars
  BY <1>5, <1>8 DEF spVars
<1>9. QED
  BY <1>1, <1>2, <1>3, <1>4, <1>5, <1>6, <1>7, <1>8 DEF SpNext

\* Two programs that obey SP_SEMAPHORE are never both in the section it guards,
\* however the slices of the CPU and of the RSP fall.
THEOREM SemaphoreExcludes == SpSpec => []SemaphoreExclusion
<1>1. SpInit => SemaphoreExclusion
  BY DEF SpInit, SemaphoreExclusion
<1>2. QED
  BY <1>1, NextExclusion, PTL DEF SpSpec


-----------------------------------------------------------------------------
(* Where a DMA leaves the engine.                                            *)

DmaStates == [bank : [Offsets -> Values], rdram : [0 .. RdramCells - 1 -> Values],
              mem : Offsets, dram : Nat]

LEMMA SpSizes ==
    /\ BankCells \in Nat \ {0} /\ RdramCells \in Nat \ {0} /\ DramRange \in Nat \ {0}
    /\ \A t \in Transfers : t.length \in Nat \ {0} /\ t.count \in Nat \ {0} /\ t.skip \in Nat
BY BanksAssumption, TransfersAssumption

\* One cell is copied, and the engine stays where it is.
LEMMA CellMoves ==
    ASSUME NEW to_sp \in BOOLEAN, NEW st \in DmaStates, NEW i \in Nat
    PROVE  /\ MoveCell(to_sp, st, i) \in DmaStates
           /\ MoveCell(to_sp, st, i).mem = st.mem
           /\ MoveCell(to_sp, st, i).dram = st.dram
<1> DEFINE sp == (st.mem + i) % BankCells
           dr == (st.dram + i) % RdramCells
<1>1. st.mem + i \in Nat /\ st.dram + i \in Nat
  BY SpSizes DEF DmaStates, Offsets
<1>2. sp \in Offsets /\ dr \in 0 .. RdramCells - 1
  BY <1>1, SpSizes DEF Offsets
<1>3. st.bank[sp] \in Values /\ st.rdram[dr] \in Values
  BY <1>2 DEF DmaStates
<1>4. MoveCell(to_sp, st, i) = IF to_sp THEN [st EXCEPT !.bank[sp] = st.rdram[dr]]
                                        ELSE [st EXCEPT !.rdram[dr] = st.bank[sp]]
  BY DEF MoveCell
<1> HIDE DEF sp, dr
<1>5. CASE to_sp = TRUE
  <2>1. MoveCell(to_sp, st, i) = [st EXCEPT !.bank[sp] = st.rdram[dr]]
    BY <1>4, <1>5
  <2> DEFINE bank == [st.bank EXCEPT ![sp] = st.rdram[dr]]
  <2>2. bank \in [Offsets -> Values]
    BY <1>2, <1>3 DEF DmaStates
  <2>3. MoveCell(to_sp, st, i) = [bank |-> bank, rdram |-> st.rdram, mem |-> st.mem,
                                  dram |-> st.dram]
    BY <2>1 DEF DmaStates
  <2> HIDE DEF bank
  <2> QED BY <2>2, <2>3 DEF DmaStates
<1>6. CASE to_sp = FALSE
  <2>1. MoveCell(to_sp, st, i) = [st EXCEPT !.rdram[dr] = st.bank[sp]]
    BY <1>4, <1>6
  <2> DEFINE cells == [st.rdram EXCEPT ![dr] = st.bank[sp]]
  <2>2. cells \in [0 .. RdramCells - 1 -> Values]
    BY <1>2, <1>3 DEF DmaStates
  <2>3. MoveCell(to_sp, st, i) = [bank |-> st.bank, rdram |-> cells, mem |-> st.mem,
                                  dram |-> st.dram]
    BY <2>1 DEF DmaStates
  <2> HIDE DEF cells
  <2> QED BY <2>2, <2>3 DEF DmaStates
<1> QED BY <1>5, <1>6

\* A line moves both addresses by its length, and RDRAM's by the gap.
LEMMA LineMoves ==
    ASSUME NEW to_sp \in BOOLEAN, NEW t \in Transfers, NEW st \in DmaStates
    PROVE  /\ MoveLine(to_sp, t, st) \in DmaStates
           /\ MoveLine(to_sp, t, st).mem = (st.mem + t.length) % BankCells
           /\ MoveLine(to_sp, t, st).dram = st.dram + t.length + t.skip
<1> DEFINE n == t.length
           cells == CHOOSE f : f = [i \in 0 .. n |->
                        IF i = 0 THEN st ELSE MoveCell(to_sp, f[i - 1], i - 1)]
<1>1. n \in Nat
  BY SpSizes
<1>2. \E f : f = [i \in 0 .. n |-> IF i = 0 THEN st ELSE MoveCell(to_sp, f[i - 1], i - 1)]
  <2> DEFINE V == [i \in 1 .. n |-> [x \in DmaStates |-> MoveCell(to_sp, x, i - 1)]]
  <2>1. ASSUME NEW i \in 1 .. n, NEW x \in DmaStates
        PROVE  V[i][x] = MoveCell(to_sp, x, i - 1) /\ V[i][x] \in DmaStates
    <3>1. V[i][x] = MoveCell(to_sp, x, i - 1)
      OBVIOUS
    <3>2. i - 1 \in Nat
      OBVIOUS
    <3> QED BY <3>1, <3>2, CellMoves
  <2>2. V \in [1 .. n -> [DmaStates -> DmaStates]]
    <3>1. \A i \in 1 .. n : i - 1 \in Nat
      OBVIOUS
    <3> QED BY <3>1, CellMoves
  <2> HIDE DEF V, n
  <2>3. PICK f \in [0 .. n -> DmaStates] : Rounds(f, n, st, V)
    BY <1>1, <2>2, Recursion
  <2>4. ASSUME NEW i \in 0 .. n
        PROVE  f[i] = IF i = 0 THEN st ELSE MoveCell(to_sp, f[i - 1], i - 1)
    <3>1. CASE i = 0
      BY <2>3, <3>1 DEF Rounds
    <3>2. CASE i # 0
      <4>1. i \in 1 .. n /\ i - 1 \in 0 .. n
        BY <1>1, <3>2
      <4>2. f[i - 1] \in DmaStates
        BY <4>1
      <4> QED BY <2>1, <2>3, <3>2, <4>1, <4>2 DEF Rounds
    <3> QED BY <3>1, <3>2
  <2>5. f = [i \in 0 .. n |-> f[i]]
    OBVIOUS
  <2>6. f = [i \in 0 .. n |-> IF i = 0 THEN st ELSE MoveCell(to_sp, f[i - 1], i - 1)]
    BY <2>4, <2>5
  <2> QED BY <2>6
<1>3. cells = [i \in 0 .. n |-> IF i = 0 THEN st ELSE MoveCell(to_sp, cells[i - 1], i - 1)]
  BY <1>2
<1>4. MoveLine(to_sp, t, st) = [cells[n] EXCEPT !.mem = (@ + t.length) % BankCells,
                                                !.dram = @ + t.length + t.skip]
  BY DEF MoveLine
<1> HIDE DEF cells
<1> DEFINE P == {i \in 0 .. n : /\ cells[i] \in DmaStates
                                /\ cells[i].mem = st.mem /\ cells[i].dram = st.dram}
<1>5. 0 \in P
  <2>1. 0 \in 0 .. n
    BY <1>1
  <2> QED BY <1>3, <2>1
<1>6. ASSUME NEW i \in 1 .. n, i - 1 \in P PROVE i \in P
  <2>1. i \in 0 .. n /\ i # 0 /\ i - 1 \in Nat
    BY <1>1
  <2>2. cells[i] = MoveCell(to_sp, cells[i - 1], i - 1)
    BY <1>3, <2>1
  <2> QED BY <1>6, <2>1, <2>2, CellMoves
<1>7. n \in P
  <2>1. P \in SUBSET (0 .. n) /\ n \in 0 .. n
    BY <1>1
  <2> HIDE DEF P
  <2>2. P = 0 .. n
    BY <1>1, <1>5, <1>6, <2>1, OneByOne
  <2> QED BY <2>1, <2>2
<1>8. cells[n] \in DmaStates /\ cells[n].mem = st.mem /\ cells[n].dram = st.dram
  BY <1>7
<1>9. (st.mem + t.length) % BankCells \in Offsets /\ st.dram + t.length + t.skip \in Nat
  BY SpSizes DEF DmaStates, Offsets
<1> QED BY <1>4, <1>8, <1>9 DEF DmaStates

\* The types, of which a transfer needs to know that it stays in them.
SpTyped ==
    /\ bus_mem \in [Banks -> [Offsets -> Values]]
    /\ rdram \in [0 .. RdramCells - 1 -> Values]
    /\ mem_addr \in SpAddresses /\ dram_addr \in DramAddresses

\* A transfer moves both addresses by all its lines, whatever it copies.
LEMMA DmaMoves ==
    ASSUME SpTyped, NEW to_sp \in BOOLEAN, NEW t \in Transfers
    PROVE  /\ Moved(to_sp, t) \in DmaStates
           /\ Moved(to_sp, t).mem = (mem_addr.offset + t.length * t.count) % BankCells
           /\ Moved(to_sp, t).dram = dram_addr + (t.length + t.skip) * t.count
<1> DEFINE n == t.count
           lines == CHOOSE f : f = [i \in 0 .. n |->
                        IF i = 0 THEN DmaStart ELSE MoveLine(to_sp, t, f[i - 1])]
           m0 == mem_addr.offset
           L == t.length
           G == t.length + t.skip
<1>1. n \in Nat /\ m0 \in Offsets /\ dram_addr \in Nat /\ L \in Nat /\ G \in Nat
  BY SpSizes DEF SpTyped, SpAddresses, DramAddresses
<1>2. DmaStart \in DmaStates /\ DmaStart.mem = m0 /\ DmaStart.dram = dram_addr
  BY <1>1 DEF DmaStart, DmaStates, SpTyped, SpAddresses
<1>3. \E f : f = [i \in 0 .. n |-> IF i = 0 THEN DmaStart ELSE MoveLine(to_sp, t, f[i - 1])]
  <2> DEFINE V == [i \in 1 .. n |-> [x \in DmaStates |-> MoveLine(to_sp, t, x)]]
  <2>1. ASSUME NEW i \in 1 .. n, NEW x \in DmaStates
        PROVE  V[i][x] = MoveLine(to_sp, t, x)
    OBVIOUS
  <2>2. V \in [1 .. n -> [DmaStates -> DmaStates]]
    BY LineMoves
  <2> HIDE DEF V, n
  <2>3. PICK f \in [0 .. n -> DmaStates] : Rounds(f, n, DmaStart, V)
    BY <1>1, <1>2, <2>2, Recursion
  <2>4. ASSUME NEW i \in 0 .. n
        PROVE  f[i] = IF i = 0 THEN DmaStart ELSE MoveLine(to_sp, t, f[i - 1])
    <3>1. CASE i = 0
      BY <2>3, <3>1 DEF Rounds
    <3>2. CASE i # 0
      <4>1. i \in 1 .. n /\ i - 1 \in 0 .. n
        BY <1>1, <3>2
      <4>2. f[i - 1] \in DmaStates
        BY <4>1
      <4> QED BY <2>1, <2>3, <3>2, <4>1, <4>2 DEF Rounds
    <3> QED BY <3>1, <3>2
  <2>5. f = [i \in 0 .. n |-> f[i]]
    OBVIOUS
  <2>6. f = [i \in 0 .. n |-> IF i = 0 THEN DmaStart ELSE MoveLine(to_sp, t, f[i - 1])]
    BY <2>4, <2>5
  <2> QED BY <2>6
<1>4. lines = [i \in 0 .. n |-> IF i = 0 THEN DmaStart ELSE MoveLine(to_sp, t, lines[i - 1])]
  BY <1>3
<1>5. Moved(to_sp, t) = lines[n]
  BY DEF Moved
<1> HIDE DEF lines, m0, L, G, n
<1> DEFINE P == {i \in 0 .. n : /\ lines[i] \in DmaStates
                                /\ lines[i].mem = (m0 + L * i) % BankCells
                                /\ lines[i].dram = dram_addr + G * i}
<1>6. 0 \in P
  <2>1. 0 \in 0 .. n /\ m0 + L * 0 = m0 /\ dram_addr + G * 0 = dram_addr
    BY <1>1 DEF Offsets
  <2>2. lines[0] = DmaStart
    BY <1>4, <2>1
  <2>3. m0 % BankCells = m0
    BY <1>1, SpSizes, InRange DEF Offsets
  <2> QED BY <1>2, <2>1, <2>2, <2>3
<1>7. ASSUME NEW i \in 1 .. n, i - 1 \in P PROVE i \in P
  <2>1. i \in 0 .. n /\ i # 0
    BY <1>1
  <2>2. lines[i] = MoveLine(to_sp, t, lines[i - 1])
    BY <1>4, <2>1
  <2> DEFINE before == m0 + L * (i - 1)
  <2>3. /\ lines[i - 1] \in DmaStates
        /\ lines[i - 1].mem = before % BankCells
        /\ lines[i - 1].dram = dram_addr + G * (i - 1)
    BY <1>7
  <2>4. before \in Int /\ before + L = m0 + L * i
    BY <1>1 DEF Offsets
  <2> HIDE DEF before
  <2>5. lines[i].mem = ((before % BankCells) + L) % BankCells
    BY <2>2, <2>3, LineMoves DEF L
  <2>6. lines[i].mem = (m0 + L * i) % BankCells
    <3>1. L \in Int /\ BankCells \in Nat \ {0}
      BY <1>1, SpSizes
    <3>2. ((before % BankCells) + L) % BankCells = (before + L) % BankCells
      BY <2>4, <3>1, WrapsOnce
    <3> QED BY <2>4, <2>5, <3>2
  <2>7. lines[i].dram = dram_addr + G * i
    <3>1. lines[i].dram = lines[i - 1].dram + t.length + t.skip
      BY <2>2, <2>3, LineMoves
    <3>2. lines[i].dram = dram_addr + G * (i - 1) + G
      BY <2>3, <3>1, <1>1, SpSizes DEF G
    <3>3. G * (i - 1) + G = G * i
      BY <1>1
    <3> QED BY <1>1, <3>2, <3>3
  <2>8. lines[i] \in DmaStates
    BY <2>2, <2>3, LineMoves
  <2> QED BY <2>1, <2>6, <2>7, <2>8
<1>8. n \in P
  <2>1. P \in SUBSET (0 .. n) /\ n \in 0 .. n
    BY <1>1
  <2> HIDE DEF P
  <2>2. P = 0 .. n
    BY <1>1, <1>6, <1>7, <2>1, OneByOne
  <2> QED BY <2>1, <2>2
<1> QED BY <1>5, <1>8 DEF n, m0, L, G

-----------------------------------------------------------------------------
(* What the holder of the semaphore relies on.                               *)

DmaInv ==
    /\ SpTyped /\ Mirrored
    /\ SemaphoreExclusion
    /\ holders \subseteq Processors
    /\ programmed \in [Processors -> [mem : SpAddresses \cup {Unset},
                                      dram : DramAddresses \cup {Unset}]]
    /\ \A p \in Processors \ holders : programmed[p] = NothingYet
    /\ DmaAsProgrammed

LEMMA InitDma == SpInit => DmaInv
<1> SUFFICES ASSUME SpInit PROVE DmaInv
  OBVIOUS
<1>1. SpTyped
  BY SpSizes, ValuesAssumption
  DEF SpInit, SpTyped, ClearedBanks, SpAddresses, DramAddresses, Banks, Offsets
<1>2. Mirrored
  BY InitMirrored
<1> QED BY <1>1, <1>2 DEF SpInit, DmaInv, SemaphoreExclusion, DmaAsProgrammed, Nobody, NothingYet

\* A step that leaves alone what a transfer and its programmer go by.
LEMMA DmaUntouched ==
    ASSUME DmaInv, UNCHANGED <<registers, holders, programmed>>
    PROVE  DmaAsProgrammed'
BY DEF DmaInv, DmaAsProgrammed, registers

LEMMA TransferAsProgrammed ==
    ASSUME DmaInv, NEW p \in Processors, NEW to_sp \in BOOLEAN, NEW t \in Transfers,
           StartDma(p, to_sp, t)
    PROVE  /\ SpTyped'
           /\ programmed' \in [Processors -> [mem : SpAddresses \cup {Unset},
                                              dram : DramAddresses \cup {Unset}]]
           /\ \A q \in Processors \ holders : programmed'[q] = NothingYet
           /\ DmaAsProgrammed'
<1> DEFINE st == Moved(to_sp, t)
           by == programmed[p]
<1>1. /\ st \in DmaStates
      /\ st.mem = (mem_addr.offset + t.length * t.count) % BankCells
      /\ st.dram = dram_addr + (t.length + t.skip) * t.count
  BY DmaMoves DEF DmaInv
<1> HIDE DEF st
<1>2. /\ p \in holders /\ holders' = holders
      /\ bus_mem' = [bus_mem EXCEPT ![mem_addr.bank] = st.bank]
      /\ rdram' = st.rdram
      /\ mem_addr' = [bank |-> mem_addr.bank, offset |-> st.mem]
      /\ dram_addr' = st.dram % DramRange
      /\ programmed' = [programmed EXCEPT ![p] = Advanced(programmed[p], t)]
  BY DEF StartDma, EndAddress, st
<1>3. holders = {p}
  BY <1>2 DEF DmaInv, SemaphoreExclusion
<1>4. mem_addr' \in SpAddresses /\ dram_addr' \in DramAddresses
  <2>1. st.dram \in Nat /\ st.mem \in Offsets /\ mem_addr.bank \in Banks
    BY <1>1 DEF DmaStates, DmaInv, SpTyped, SpAddresses
  <2> QED BY <1>2, <2>1, SpSizes DEF SpAddresses, DramAddresses
<1>5. SpTyped'
  BY <1>1, <1>2, <1>4 DEF SpTyped, DmaInv, DmaStates
<1>6. by.mem \in {Unset, mem_addr} /\ by.dram \in {Unset, dram_addr}
  BY <1>2 DEF DmaInv, DmaAsProgrammed
<1>7. Advanced(by, t).mem \in {Unset, mem_addr'}
  <2>1. CASE by.mem = Unset
    BY <2>1 DEF Advanced
  <2>2. CASE by.mem # Unset
    <3>1. by.mem = mem_addr /\ mem_addr \in SpAddresses
      BY <1>6, <2>2 DEF DmaInv, SpTyped
    <3>2. Advanced(by, t).mem =
             [mem_addr EXCEPT !.offset = (mem_addr.offset + t.length * t.count) % BankCells]
      BY <2>2, <3>1 DEF Advanced
    <3> QED BY <1>1, <1>2, <3>1, <3>2 DEF SpAddresses
  <2> QED BY <2>1, <2>2
<1>8. Advanced(by, t).dram \in {Unset, dram_addr'}
  <2>1. CASE by.dram = Unset
    BY <2>1 DEF Advanced
  <2>2. CASE by.dram # Unset
    BY <1>1, <1>2, <1>6, <2>2 DEF Advanced
  <2> QED BY <2>1, <2>2
<1>9. programmed'[p] = Advanced(by, t)
  BY <1>2 DEF DmaInv
<1>10. Advanced(by, t) \in [mem : SpAddresses \cup {Unset}, dram : DramAddresses \cup {Unset}]
  BY <1>4, <1>7, <1>8 DEF Advanced
<1>11. programmed' \in [Processors -> [mem : SpAddresses \cup {Unset},
                                       dram : DramAddresses \cup {Unset}]]
  BY <1>2, <1>10 DEF DmaInv
<1>12. \A q \in Processors \ holders : programmed'[q] = NothingYet
  BY <1>2, <1>3 DEF DmaInv
<1>13. DmaAsProgrammed'
  BY <1>2, <1>3, <1>7, <1>8, <1>9 DEF DmaAsProgrammed
<1> QED BY <1>5, <1>11, <1>12, <1>13

\* Whatever else a step may write, what it stores is in the range of its type.
LEMMA StoresTyped ==
    ASSUME DmaInv, NEW bank \in Banks, NEW offset \in Offsets, NEW value \in Values,
           StoreToSp(bank, offset, value)
    PROVE  SpTyped'
BY DEF StoreToSp, DmaInv, SpTyped, registers

LEMMA RspStoresTyped ==
    ASSUME DmaInv, NEW offset \in Offsets, NEW value \in Values, NEW width \in {1, 2},
           RspStore(offset, value, width)
    PROVE  SpTyped'
<1> DEFINE cells == Span(offset, width)
           stored == [o \in Offsets |-> IF o \in cells THEN value ELSE rsp_mem["DMEM"][o]]
<1>1. rsp_mem' = [rsp_mem EXCEPT !["DMEM"] = stored]
  BY DEF RspStore
<1>2. rsp_mem \in [Banks -> [Offsets -> Values]]
  BY DEF DmaInv, SpTyped, Mirrored
<1>3. "DMEM" \in Banks
  BY DEF Banks
<1>4. stored \in [Offsets -> Values]
  BY <1>2, <1>3
<1>5. rsp_mem' \in [Banks -> [Offsets -> Values]]
  BY <1>1, <1>2, <1>4
<1>6. bus_mem' = rsp_mem'
  BY RspStoreMirrored DEF DmaInv, Mirrored
<1> QED BY <1>5, <1>6 DEF RspStore, DmaInv, SpTyped, registers

LEMMA NextDma == DmaInv /\ [SpNext]_spVars => DmaInv'
<1> SUFFICES ASSUME DmaInv, [SpNext]_spVars PROVE DmaInv'
  OBVIOUS
<1> DEFINE Belief == [mem : SpAddresses \cup {Unset}, dram : DramAddresses \cup {Unset}]
           Rest == /\ SpTyped
                   /\ holders \subseteq Processors
                   /\ programmed \in [Processors -> Belief]
                   /\ \A p \in Processors \ holders : programmed[p] = NothingYet
                   /\ DmaAsProgrammed
<1>1. Mirrored' /\ SemaphoreExclusion'
  BY NextMirrored, NextExclusion DEF DmaInv
<1>2. SUFFICES Rest'
  BY <1>1 DEF DmaInv
<1>3. NothingYet \in Belief
  BY DEF NothingYet
<1>4. CASE \E bank \in Banks, offset \in Offsets, value \in Values :
              StoreToSp(bank, offset, value)
  <2>1. PICK bank \in Banks, offset \in Offsets, value \in Values :
            StoreToSp(bank, offset, value)
    BY <1>4
  <2>2. UNCHANGED <<registers, holders, programmed>>
    BY <2>1 DEF StoreToSp
  <2>3. SpTyped' /\ DmaAsProgrammed'
    BY <2>1, <2>2, StoresTyped, DmaUntouched
  <2> QED BY <2>2, <2>3 DEF DmaInv
<1>5. CASE \E offset \in Offsets, value \in Values, width \in {1, 2} :
              RspStore(offset, value, width)
  <2>1. PICK offset \in Offsets, value \in Values, width \in {1, 2} :
            RspStore(offset, value, width)
    BY <1>5
  <2>2. UNCHANGED <<registers, holders, programmed>>
    BY <2>1 DEF RspStore
  <2>3. SpTyped' /\ DmaAsProgrammed'
    BY <2>1, <2>2, RspStoresTyped, DmaUntouched
  <2> QED BY <2>2, <2>3 DEF DmaInv
<1>6. CASE ClearHalt \/ CpuSetHalt \/ RspStops \/ PushMemToBus \/ UNCHANGED spVars
  <2>1. UNCHANGED <<registers, rdram, holders, programmed>>
    BY <1>6 DEF ClearHalt, CpuSetHalt, RspStops, PushMemToBus, spVars, memories
  <2>2. bus_mem' \in {bus_mem, rsp_mem} /\ rsp_mem = bus_mem
    BY <1>6 DEF ClearHalt, CpuSetHalt, RspStops, PushMemToBus, spVars, memories, DmaInv,
                Mirrored
  <2>3. SpTyped'
    BY <2>1, <2>2 DEF DmaInv, SpTyped, registers
  <2> QED BY <2>1, <2>3, DmaUntouched DEF DmaInv
<1>7. CASE SetPc
  BY <1>3, <1>7 DEF SetPc, memories, registers, DmaInv, SpTyped, DmaAsProgrammed, Processors
<1>8. CASE SpReset
  <2>1. SpTyped'
    BY <1>8, SpSizes, ValuesAssumption
    DEF SpReset, SpTyped, ClearedBanks, SpAddresses, DramAddresses, Banks, Offsets
  <2> QED BY <1>3, <1>8, <2>1 DEF SpReset, Nobody, DmaAsProgrammed
<1>9. ASSUME NEW p \in Processors, ReadSemaphore(p) PROVE Rest'
  <2>1. programmed[p] = NothingYet
    BY <1>9 DEF ReadSemaphore, DmaInv
  <2> QED
    BY <1>9, <2>1 DEF ReadSemaphore, memories, registers, DmaInv, SpTyped, DmaAsProgrammed,
                      NothingYet
<1>10. ASSUME NEW p \in Processors, WriteSemaphore(p) PROVE Rest'
  BY <1>3, <1>10 DEF WriteSemaphore, memories, registers, DmaInv, SpTyped, DmaAsProgrammed
<1>11. ASSUME NEW p \in Processors, NEW address \in SpAddresses, WriteMemAddr(p, address)
       PROVE  Rest'
  <2>1. holders = {p}
    BY <1>11 DEF WriteMemAddr, DmaInv, SemaphoreExclusion
  <2>2. programmed[p] \in Belief
    BY DEF DmaInv
  <2>3. programmed' = [programmed EXCEPT ![p] = [programmed[p] EXCEPT !.mem = address]]
    BY <1>11 DEF WriteMemAddr
  <2>4. [programmed[p] EXCEPT !.mem = address] \in Belief
    BY <2>2
  <2> QED
    BY <1>11, <2>1, <2>2, <2>3, <2>4
    DEF WriteMemAddr, memories, DmaInv, SpTyped, DmaAsProgrammed
<1>12. ASSUME NEW p \in Processors, NEW address \in DramAddresses, WriteDramAddr(p, address)
       PROVE  Rest'
  <2>1. holders = {p}
    BY <1>12 DEF WriteDramAddr, DmaInv, SemaphoreExclusion
  <2>2. programmed[p] \in Belief
    BY DEF DmaInv
  <2>3. programmed' = [programmed EXCEPT ![p] = [programmed[p] EXCEPT !.dram = address]]
    BY <1>12 DEF WriteDramAddr
  <2>4. [programmed[p] EXCEPT !.dram = address] \in Belief
    BY <2>2
  <2> QED
    BY <1>12, <2>1, <2>2, <2>3, <2>4
    DEF WriteDramAddr, memories, DmaInv, SpTyped, DmaAsProgrammed
<1>13. ASSUME NEW p \in Processors, NEW to_sp \in BOOLEAN, NEW t \in Transfers,
              StartDma(p, to_sp, t)
       PROVE  Rest'
  <2>1. holders' = holders
    BY <1>13 DEF StartDma
  <2> QED BY <1>13, <2>1, TransferAsProgrammed DEF DmaInv
<1> HIDE DEF Rest
<1> QED
  BY <1>4, <1>5, <1>6, <1>7, <1>8, <1>9, <1>10, <1>11, <1>12, <1>13 DEF SpNext

\* SpRegisters::do_dma: for any transfer and memories of any size, a program that holds
\* the semaphore finds both address registers where it put them, or where its last
\* transfer must have left them, whatever the other processor did.
THEOREM DmaFollowsItsProgram == SpSpec => []DmaAsProgrammed
<1>1. DmaInv => DmaAsProgrammed
  BY DEF DmaInv
<1> QED BY InitDma, NextDma, <1>1, PTL DEF SpSpec

-----------------------------------------------------------------------------
(* The block cache: what it keeps beside its slots.                          *)

SlotType == [valid : BOOLEAN, tag : Addresses \cup {NoTag},
             block : [paddr : Nat, insns : Seq(Kinds)], aliased_position : Nat]
CacheType == [slot : [Slots -> SlotType], aliased : Seq(Slots), count : Nat]

ValidIn(c) == {s \in Slots : c.slot[s].valid}
Position(c, s) == c.slot[s].aliased_position

\* The parts of AliasAgreement and CountAgreement, of any cache.
Linked(c) ==
    /\ \A i \in 1 .. Len(c.aliased) : Position(c, c.aliased[i]) = i
    /\ \A s \in Slots : Position(c, s) = 0 \/ (/\ Position(c, s) \in 1 .. Len(c.aliased)
                                               /\ c.aliased[Position(c, s)] = s)
Exact(c) ==
    \A s \in Slots : (Position(c, s) # 0) <=> (s \in ValidIn(c) /\ c.slot[s].tag.segment = "mapped")
Counted(c) == c.count = Cardinality(ValidIn(c))

\* The same slots but for their positions.
SameBlocks(c, d) ==
    \A q \in Slots : /\ d.slot[q].valid = c.slot[q].valid
                     /\ d.slot[q].tag = c.slot[q].tag
                     /\ d.slot[q].block = c.slot[q].block

LEMMA CacheSizes ==
    /\ TableSize \in Nat \ {0} /\ RdramWords \in Nat \ {0} /\ PageWords \in Nat \ {0}
    /\ MaxBlockInsns \in Nat \ {0} /\ DirectWords \in Nat \ {0} /\ MappedWords \in Nat
    /\ DmaSizes \subseteq Nat \ {0}
BY SizesAssumption

\* unmark_aliased: the vector without s, its last element where s was.
LEMMA UnmarkedVector ==
    ASSUME NEW c \in CacheType, Linked(c), NEW s \in Slots, Position(c, s) # 0
    PROVE  LET n == Len(c.aliased)
               p == Position(c, s)
               r == c.aliased[n]
               u == Unmark(c, s)
           IN /\ n \in Nat \ {0} /\ p \in 1 .. n /\ c.aliased[p] = s
              /\ r \in Slots /\ Position(c, r) = n
              /\ u.aliased \in Seq(Slots) /\ Len(u.aliased) = n - 1
              /\ \A i \in 1 .. n - 1 : u.aliased[i] = IF i = p THEN r ELSE c.aliased[i]
              /\ u.slot \in [Slots -> SlotType] /\ u.count = c.count
              /\ SameBlocks(c, u)
              /\ \A q \in Slots : Position(u, q) = IF q = s THEN 0 ELSE IF q = r THEN p
                                                   ELSE Position(c, q)
              /\ u = [slot |-> u.slot, aliased |-> u.aliased, count |-> u.count]
<1> DEFINE n == Len(c.aliased)
           p == Position(c, s)
           r == c.aliased[n]
           u == Unmark(c, s)
           full == [c.aliased EXCEPT ![p] = r]
<1>1. c.aliased \in Seq(Slots) /\ n \in Nat
  BY DEF CacheType
<1>2. p \in 1 .. n /\ c.aliased[p] = s
  BY DEF Linked
<1>3. n \in 1 .. n /\ n # 0
  BY <1>1, <1>2
<1>4. r \in Slots /\ Position(c, r) = n
  BY <1>1, <1>3 DEF Linked
<1>5. full \in Seq(Slots) /\ Len(full) = n
  BY <1>1, <1>2, <1>4
<1>6. \A i \in 1 .. n : full[i] = IF i = p THEN r ELSE c.aliased[i]
  BY <1>1, <1>2
<1>7. u = [c EXCEPT !.aliased = SubSeq(full, 1, n - 1),
                    !.slot[r].aliased_position = p,
                    !.slot[s].aliased_position = 0]
  BY <1>5 DEF Unmark, Last, Front, Position
<1> HIDE DEF full
<1> DEFINE short == SubSeq(full, 1, n - 1)
<1>8. /\ short \in Seq(Slots) /\ Len(short) = n - 1
      /\ \A i \in 1 .. n - 1 : short[i] = full[i]
  BY <1>1, <1>3, <1>5
<1> HIDE DEF short, u, r, p, n
<1> DEFINE slots1 == [c.slot EXCEPT ![r].aliased_position = p]
           slots2 == [slots1 EXCEPT ![s].aliased_position = 0]
<1>9. c = [slot |-> c.slot, aliased |-> c.aliased, count |-> c.count]
      /\ c.slot \in [Slots -> SlotType]
  BY DEF CacheType
<1>10. u.slot = slots2 /\ u.aliased = short /\ u.count = c.count
       /\ u = [slot |-> u.slot, aliased |-> u.aliased, count |-> u.count]
  BY <1>7, <1>9 DEF short
<1>11. p \in Nat
  BY <1>1, <1>2
<1>12. slots1 \in [Slots -> SlotType]
  BY <1>4, <1>9, <1>11 DEF SlotType
<1>13. slots2 \in [Slots -> SlotType]
  BY <1>12 DEF SlotType
<1>14. \A q \in Slots : /\ slots2[q].valid = c.slot[q].valid
                        /\ slots2[q].tag = c.slot[q].tag
                        /\ slots2[q].block = c.slot[q].block
                        /\ slots2[q].aliased_position =
                             IF q = s THEN 0 ELSE IF q = r THEN p ELSE c.slot[q].aliased_position
  BY <1>9, <1>4, <1>12 DEF SlotType
<1> HIDE DEF slots1, slots2
<1>15. \A i \in 1 .. n - 1 : u.aliased[i] = IF i = p THEN r ELSE c.aliased[i]
  BY <1>1, <1>6, <1>8, <1>10
<1>16. SameBlocks(c, u)
  BY <1>10, <1>14 DEF SameBlocks
<1>17. \A q \in Slots : Position(u, q) = IF q = s THEN 0 ELSE IF q = r THEN p
                                         ELSE Position(c, q)
  BY <1>10, <1>14 DEF Position
<1>18. n \in Nat \ {0} /\ u.aliased \in Seq(Slots) /\ Len(u.aliased) = n - 1
       /\ u.slot \in [Slots -> SlotType]
  BY <1>1, <1>3, <1>8, <1>10, <1>13
<1> QED BY <1>2, <1>4, <1>10, <1>15, <1>16, <1>17, <1>18 DEF u, r, p, n

LEMMA UnmarkKeeps ==
    ASSUME NEW c \in CacheType, Linked(c), NEW s \in Slots
    PROVE  LET u == Unmark(c, s)
           IN /\ u \in CacheType /\ Linked(u)
              /\ SameBlocks(c, u) /\ u.count = c.count
              /\ Position(u, s) = 0
              /\ \A q \in Slots \ {s} : Position(u, q) = 0 <=> Position(c, q) = 0
<1> DEFINE u == Unmark(c, s)
<1>1. CASE Position(c, s) = 0
  <2>1. u = c
    BY <1>1 DEF Unmark, Position
  <2> QED BY <1>1, <2>1 DEF SameBlocks
<1>2. CASE Position(c, s) # 0
  <2> DEFINE n == Len(c.aliased)
             p == Position(c, s)
             r == c.aliased[n]
  <2>1. /\ n \in Nat \ {0} /\ p \in 1 .. n /\ c.aliased[p] = s
        /\ r \in Slots /\ Position(c, r) = n
        /\ u.aliased \in Seq(Slots) /\ Len(u.aliased) = n - 1
        /\ \A i \in 1 .. n - 1 : u.aliased[i] = IF i = p THEN r ELSE c.aliased[i]
        /\ u.slot \in [Slots -> SlotType] /\ u.count = c.count
        /\ SameBlocks(c, u)
        /\ \A q \in Slots : Position(u, q) = IF q = s THEN 0 ELSE IF q = r THEN p
                                             ELSE Position(c, q)
        /\ u = [slot |-> u.slot, aliased |-> u.aliased, count |-> u.count]
    BY <1>2, UnmarkedVector
  <2>2. c.aliased \in Seq(Slots) /\ c.count \in Nat
    BY DEF CacheType
  <2> HIDE DEF u, n, p, r
  <2>3. u \in CacheType
    BY <2>1, <2>2 DEF CacheType
  <2>4. \A i \in 1 .. n : Position(c, c.aliased[i]) = i
    BY DEF Linked, n
  <2>5. \A i \in 1 .. n : c.aliased[i] \in Slots
    BY <2>2 DEF n
  <2>6. \A q \in Slots : Position(c, q) = 0 \/ (/\ Position(c, q) \in 1 .. n
                                                /\ c.aliased[Position(c, q)] = q)
    BY DEF Linked, n
  <2>7. ASSUME NEW i \in 1 .. n - 1 PROVE Position(u, u.aliased[i]) = i
    <3>1. CASE i = p
      <4>1. r # s
        BY <2>1, <3>1 DEF p
      <4> QED BY <2>1, <3>1, <4>1
    <3>2. CASE i # p
      <4> DEFINE q == c.aliased[i]
      <4>1. i \in 1 .. n /\ i # n
        BY <2>1
      <4>2. q \in Slots /\ Position(c, q) = i
        BY <2>4, <2>5, <4>1
      <4>3. q # s /\ q # r
        BY <2>1, <3>2, <4>1, <4>2 DEF p
      <4>4. u.aliased[i] = q
        BY <2>1, <3>2
      <4> HIDE DEF q
      <4> QED BY <2>1, <4>2, <4>3, <4>4
    <3> QED BY <3>1, <3>2
  <2>8. ASSUME NEW q \in Slots, Position(u, q) # 0
        PROVE  Position(u, q) \in 1 .. n - 1 /\ u.aliased[Position(u, q)] = q
    <3>1. q # s
      BY <2>1, <2>8
    <3>2. CASE q = r
      <4>1. p # n
        BY <2>1, <3>1, <3>2 DEF r
      <4>2. p \in 1 .. n - 1 /\ Position(u, q) = p
        BY <2>1, <3>1, <3>2, <4>1
      <4> QED BY <2>1, <3>2, <4>2
    <3>3. CASE q # r
      <4> DEFINE k == Position(c, q)
      <4>1. Position(u, q) = k
        BY <2>1, <3>1, <3>3
      <4>2. k \in 1 .. n /\ c.aliased[k] = q
        BY <2>6, <2>8, <4>1
      <4> HIDE DEF k
      <4>3. k # n /\ k # p
        BY <2>1, <3>1, <3>3, <4>2 DEF r
      <4>4. k \in 1 .. n - 1 /\ u.aliased[k] = q
        BY <2>1, <4>2, <4>3
      <4> QED BY <4>1, <4>4
    <3> QED BY <3>2, <3>3
  <2>9. Linked(u)
    BY <2>1, <2>7, <2>8 DEF Linked
  <2>10. \A q \in Slots \ {s} : Position(u, q) = 0 <=> Position(c, q) = 0
    BY <2>1
  <2> QED BY <2>1, <2>3, <2>9, <2>10 DEF u
<1> QED BY <1>1, <1>2

LEMMA MovedSlot ==
    ASSUME NEW e \in SlotType, NEW k \in Nat
    PROVE  [e EXCEPT !.aliased_position = k] \in SlotType
BY DEF SlotType

\* The three assignments of invalidate_slot.  The values are parameters: the prover
\* reasons badly of FALSE in a record.
Assigned(e, valid, tag, block) ==
    [[[e EXCEPT !.valid = valid] EXCEPT !.tag = tag] EXCEPT !.block = block]

LEMMA EmptiedSlot ==
    ASSUME NEW e \in SlotType, e.aliased_position = 0, NEW valid, NEW tag, NEW block
    PROVE  Assigned(e, valid, tag, block)
             = [valid |-> valid, tag |-> tag, block |-> block, aliased_position |-> 0]
<1>1. PICK oldValid, oldTag, oldBlock :
          e = [valid |-> oldValid, tag |-> oldTag, block |-> oldBlock, aliased_position |-> 0]
  BY DEF SlotType
<1> DEFINE one == [e EXCEPT !.valid = valid]
           two == [one EXCEPT !.tag = tag]
<1>2. one = [valid |-> valid, tag |-> oldTag, block |-> oldBlock, aliased_position |-> 0]
  BY <1>1
<1> HIDE DEF one
<1>3. two = [valid |-> valid, tag |-> tag, block |-> oldBlock, aliased_position |-> 0]
  BY <1>2
<1> HIDE DEF two
<1>4. [two EXCEPT !.block = block]
         = [valid |-> valid, tag |-> tag, block |-> block, aliased_position |-> 0]
  BY <1>3
<1> QED BY <1>4 DEF one, two, Assigned

\* mark_aliased.
LEMMA MarkKeeps ==
    ASSUME NEW c \in CacheType, Linked(c), NEW s \in Slots
    PROVE  LET m == Mark(c, s)
           IN /\ m \in CacheType /\ Linked(m)
              /\ SameBlocks(c, m) /\ m.count = c.count
              /\ Position(m, s) # 0
              /\ \A q \in Slots \ {s} : Position(m, q) = Position(c, q)
<1> DEFINE m == Mark(c, s)
<1>1. CASE Position(c, s) # 0
  <2>1. m = c
    BY <1>1 DEF Mark, Position
  <2> QED BY <1>1, <2>1 DEF SameBlocks
<1>2. CASE Position(c, s) = 0
  <2> DEFINE n == Len(c.aliased)
             longer == Append(c.aliased, s)
             slots == [c.slot EXCEPT ![s].aliased_position = n + 1]
  <2>1. /\ c = [slot |-> c.slot, aliased |-> c.aliased, count |-> c.count]
        /\ c.slot \in [Slots -> SlotType] /\ c.aliased \in Seq(Slots) /\ c.count \in Nat
    BY DEF CacheType
  <2>2. m = [c EXCEPT !.slot[s].aliased_position = n + 1, !.aliased = longer]
    BY <1>2 DEF Mark, Position
  <2>3. n \in Nat
    BY <2>1
  <2>4. slots \in [Slots -> SlotType]
    <3>1. [c.slot[s] EXCEPT !.aliased_position = n + 1] \in SlotType
      <4>1. c.slot[s] \in SlotType /\ n + 1 \in Nat
        BY <2>1, <2>3
      <4> QED BY <4>1, MovedSlot
    <3>2. slots = [c.slot EXCEPT ![s] = [c.slot[s] EXCEPT !.aliased_position = n + 1]]
      OBVIOUS
    <3> QED BY <2>1, <3>1, <3>2
  <2>5. /\ longer \in Seq(Slots) /\ Len(longer) = n + 1
        /\ longer[n + 1] = s
        /\ \A i \in 1 .. n : longer[i] = c.aliased[i] /\ c.aliased[i] \in Slots
    BY <2>1
  <2>6. \A q \in Slots : /\ slots[q].valid = c.slot[q].valid
                         /\ slots[q].tag = c.slot[q].tag
                         /\ slots[q].block = c.slot[q].block
                         /\ slots[q].aliased_position =
                              IF q = s THEN n + 1 ELSE c.slot[q].aliased_position
    BY <2>1, <2>3 DEF SlotType
  <2> HIDE DEF m, slots, longer
  <2>7. m = [slot |-> slots, aliased |-> longer, count |-> c.count]
    BY <2>1, <2>2 DEF slots
  <2>8. m \in CacheType
    BY <2>1, <2>4, <2>5, <2>7 DEF CacheType
  <2>9. SameBlocks(c, m)
    BY <2>6, <2>7 DEF SameBlocks
  <2>10. \A q \in Slots : Position(m, q) = IF q = s THEN n + 1 ELSE Position(c, q)
    BY <2>6, <2>7 DEF Position
  <2>11. m.aliased = longer /\ m.count = c.count
    BY <2>7
  <2> HIDE DEF n
  <2>12. ASSUME NEW i \in 1 .. n + 1 PROVE Position(m, m.aliased[i]) = i
    <3>1. CASE i = n + 1
      BY <2>5, <2>10, <2>11, <3>1
    <3>2. CASE i # n + 1
      <4>1. i \in 1 .. n
        BY <2>3, <3>2
      <4>2. c.aliased[i] \in Slots /\ Position(c, c.aliased[i]) = i
        BY <2>5, <4>1 DEF Linked, n
      <4>3. c.aliased[i] # s
        BY <1>2, <4>1, <4>2
      <4> QED BY <2>5, <2>10, <2>11, <4>1, <4>2, <4>3
    <3> QED BY <3>1, <3>2
  <2>13. ASSUME NEW q \in Slots, Position(m, q) # 0
         PROVE  Position(m, q) \in 1 .. n + 1 /\ m.aliased[Position(m, q)] = q
    <3>1. CASE q = s
      BY <2>3, <2>5, <2>10, <2>11, <3>1
    <3>2. CASE q # s
      <4>1. Position(m, q) = Position(c, q)
        BY <2>10, <3>2
      <4>2. Position(c, q) \in 1 .. n /\ c.aliased[Position(c, q)] = q
        BY <2>13, <4>1 DEF Linked, n
      <4> QED BY <2>3, <2>5, <2>11, <4>1, <4>2
    <3> QED BY <3>1, <3>2
  <2>14. Linked(m)
    BY <2>5, <2>11, <2>12, <2>13 DEF Linked
  <2>15. Position(m, s) # 0 /\ \A q \in Slots \ {s} : Position(m, q) = Position(c, q)
    BY <2>3, <2>10
  <2> QED BY <2>8, <2>9, <2>11, <2>14, <2>15 DEF m
<1> QED BY <1>1, <1>2

\* All that the cache keeps beside its slots agrees with them.
Sound(c) == c \in CacheType /\ Linked(c) /\ Exact(c) /\ Counted(c)

LEMMA ValidFinite == \A c : IsFiniteSet(ValidIn(c)) /\ Cardinality(ValidIn(c)) \in Nat
<1>1. IsFiniteSet(Slots)
  BY CacheSizes, FS_Interval DEF Slots
<1>2. ASSUME NEW c PROVE IsFiniteSet(ValidIn(c))
  BY <1>1, FS_Subset DEF ValidIn
<1> QED BY <1>2, FS_CardinalityType

LEMMA LinkedByPositions ==
    ASSUME NEW c \in CacheType, NEW d, Linked(c), d.aliased = c.aliased,
           \A q \in Slots : Position(d, q) = Position(c, q)
    PROVE  Linked(d)
<1>1. \A i \in 1 .. Len(c.aliased) : c.aliased[i] \in Slots
  BY DEF CacheType
<1> QED BY <1>1 DEF Linked

\* invalidate_slot: one block less, and nothing else.
LEMMA InvalidateKeeps ==
    ASSUME NEW c, Sound(c), NEW s \in Slots
    PROVE  LET d == InvalidateSlot(c, s)
           IN /\ Sound(d)
              /\ ValidIn(d) = ValidIn(c) \ {s}
              /\ \A q \in Slots \ {s} : d.slot[q].tag = c.slot[q].tag
                                        /\ d.slot[q].block = c.slot[q].block
              /\ s \in ValidIn(c) /\ Position(c, s) # 0 =>
                    /\ Len(d.aliased) = Len(c.aliased) - 1
                    /\ \A i \in 1 .. Position(c, s) - 1 : d.aliased[i] = c.aliased[i]
<1> DEFINE d == InvalidateSlot(c, s)
           u == Unmark(c, s)
           gone == [valid |-> FALSE, tag |-> NoTag, block |-> NoBlock, aliased_position |-> 0]
<1>1. CASE ~c.slot[s].valid
  <2>1. d = c
    BY <1>1 DEF InvalidateSlot
  <2> QED BY <1>1, <2>1 DEF ValidIn
<1>2. CASE c.slot[s].valid
  <2>1. /\ u \in CacheType /\ Linked(u) /\ SameBlocks(c, u) /\ u.count = c.count
        /\ Position(u, s) = 0
        /\ \A q \in Slots \ {s} : Position(u, q) = 0 <=> Position(c, q) = 0
    BY UnmarkKeeps DEF Sound
  <2>2. /\ c.count = Cardinality(ValidIn(c)) /\ Exact(c) /\ s \in ValidIn(c)
    BY <1>2 DEF Sound, Counted, ValidIn
  <2>3. /\ Cardinality(ValidIn(c)) \in Nat
        /\ Cardinality(ValidIn(c) \ {s}) = Cardinality(ValidIn(c)) - 1
        /\ Cardinality(ValidIn(c) \ {s}) \in Nat
    BY <2>2, ValidFinite, FS_RemoveElement, FS_CardinalityType
  <2>17. Position(c, s) # 0 =>
            /\ Len(u.aliased) = Len(c.aliased) - 1
            /\ \A i \in 1 .. Position(c, s) - 1 : u.aliased[i] = c.aliased[i]
    <3> SUFFICES ASSUME Position(c, s) # 0
                 PROVE  /\ Len(u.aliased) = Len(c.aliased) - 1
                        /\ \A i \in 1 .. Position(c, s) - 1 : u.aliased[i] = c.aliased[i]
      OBVIOUS
    <3> DEFINE n == Len(c.aliased)
               p == Position(c, s)
               r == c.aliased[n]
    <3>1. /\ n \in Nat \ {0} /\ p \in 1 .. n /\ Len(u.aliased) = n - 1
          /\ \A i \in 1 .. n - 1 : u.aliased[i] = IF i = p THEN r ELSE c.aliased[i]
      BY UnmarkedVector DEF Sound
    <3> HIDE DEF n, p, r, u
    <3>2. \A i \in 1 .. p - 1 : i \in 1 .. n - 1 /\ i # p
      BY <3>1
    <3> QED BY <3>1, <3>2 DEF n, p
  <2>4. d = [u EXCEPT !.slot[s].valid = FALSE, !.slot[s].tag = NoTag,
                      !.slot[s].block = NoBlock,
                      !.count = IF @ > 0 THEN @ - 1 ELSE 0]
    BY <1>2 DEF InvalidateSlot
  <2> HIDE DEF d, u
  <2>5. u = [slot |-> u.slot, aliased |-> u.aliased, count |-> u.count]
        /\ u.slot \in [Slots -> SlotType] /\ u.aliased \in Seq(Slots)
    BY <2>1 DEF CacheType
  <2>6. u.slot[s] = [valid |-> u.slot[s].valid, tag |-> u.slot[s].tag,
                     block |-> u.slot[s].block, aliased_position |-> 0]
    BY <2>1, <2>5 DEF SlotType, Position
  <2>7. /\ d.aliased = u.aliased
        /\ d.slot = [u.slot EXCEPT ![s] = gone]
        /\ d.count = c.count - 1
        /\ d = [slot |-> d.slot, aliased |-> d.aliased, count |-> d.count]
    <3> DEFINE s1 == [u.slot EXCEPT ![s].valid = FALSE]
               s2 == [s1 EXCEPT ![s].tag = NoTag]
               s3 == [s2 EXCEPT ![s].block = NoBlock]
    <3>1. s3 = [u.slot EXCEPT ![s] = gone]
      <4>1. /\ s3 = [q \in Slots |-> s3[q]]
            /\ \A q \in Slots : q # s => s3[q] = u.slot[q]
        BY <2>5
      <4>2. s3[s] = gone
        <5> DEFINE e == u.slot[s]
                   no == FALSE
                   q1 == [u.slot EXCEPT ![s].valid = no]
        <5>0. s1 = q1
          BY DEF no
        <5> HIDE DEF no, s1
        <5>1. s1[s] = [e EXCEPT !.valid = no] /\ s1 = [q \in Slots |-> s1[q]]
          BY <2>5, <5>0
        <5>2. s2[s] = [s1[s] EXCEPT !.tag = NoTag] /\ s2 = [q \in Slots |-> s2[q]]
          BY <2>5, <5>1
        <5>3. s3[s] = [s2[s] EXCEPT !.block = NoBlock]
          BY <2>5, <5>2
        <5>4. e \in SlotType /\ e.aliased_position = 0
          BY <2>1, <2>5 DEF Position
        <5> HIDE DEF s2, s3, e
        <5>5. s3[s] = Assigned(e, no, NoTag, NoBlock)
          BY <5>1, <5>2, <5>3 DEF Assigned
        <5>6. s3[s] = [valid |-> no, tag |-> NoTag, block |-> NoBlock, aliased_position |-> 0]
          <6>1. Assigned(e, no, NoTag, NoBlock)
                  = [valid |-> no, tag |-> NoTag, block |-> NoBlock, aliased_position |-> 0]
            BY <5>4, EmptiedSlot, Zenon
          <6> QED BY <5>5, <6>1, Zenon
        <5> QED BY <5>6, Zenon DEF no
      <4> HIDE DEF s3, gone
      <4> QED BY <2>5, <4>1, <4>2
    <3> HIDE DEF s3
    <3>2. d = [slot |-> s3, aliased |-> u.aliased,
               count |-> IF u.count > 0 THEN u.count - 1 ELSE 0]
      BY <2>4, <2>5 DEF s3
    <3>3. u.count > 0
      BY <2>1, <2>2, <2>3
    <3> QED BY <2>1, <3>1, <3>2, <3>3
  <2>8. gone \in SlotType
    <3>1. << >> \in Seq(Kinds)
      OBVIOUS
    <3> QED BY <3>1 DEF SlotType, NoBlock
  <2> HIDE DEF gone
  <2>9. d.slot \in [Slots -> SlotType] /\ d.slot[s] = gone
        /\ \A q \in Slots \ {s} : d.slot[q] = u.slot[q]
    BY <2>5, <2>7, <2>8
  <2>10. d \in CacheType
    BY <2>2, <2>3, <2>5, <2>7, <2>9 DEF CacheType
  <2>11. \A q \in Slots : Position(d, q) = Position(u, q)
    BY <2>1, <2>9 DEF Position, gone
  <2>12. Linked(d)
    BY <2>1, <2>7, <2>11, LinkedByPositions
  <2>13. ValidIn(d) = ValidIn(c) \ {s}
    BY <2>1, <2>9 DEF ValidIn, SameBlocks, gone
  <2>14. Counted(d)
    BY <2>2, <2>3, <2>7, <2>13 DEF Counted
  <2>15. \A q \in Slots \ {s} : d.slot[q].tag = c.slot[q].tag /\ d.slot[q].block = c.slot[q].block
    BY <2>1, <2>9 DEF SameBlocks
  <2>16. Exact(d)
    <3> SUFFICES ASSUME NEW q \in Slots
                 PROVE  (Position(d, q) # 0) <=>
                           (q \in ValidIn(d) /\ d.slot[q].tag.segment = "mapped")
      BY DEF Exact
    <3>1. CASE q = s
      BY <2>1, <2>11, <2>13, <3>1
    <3>2. CASE q # s
      BY <2>1, <2>2, <2>11, <2>13, <2>15, <3>2 DEF Exact
    <3> QED BY <3>1, <3>2
  <2> QED BY <2>7, <2>10, <2>12, <2>13, <2>14, <2>15, <2>16, <2>17 DEF Sound, d
<1> QED BY <1>1, <1>2

-----------------------------------------------------------------------------
(* The block cache: compilation.                                             *)

MachineTyped ==
    /\ mem \in [Words -> Kinds]
    /\ tlb \in [MappedPages -> PhysicalPages \cup {NoPage}]

\* A block has a body, of at most MaxBlockInsns instructions.
LEMMA BodyEnds == ASSUME NEW v PROVE BodyLength(v) \in 1 .. MaxBlockInsns
<1> DEFINE Last_(i) == \/ i = MaxBlockInsns
                       \/ ReadWord(Translate(After(v, i - 1))) # "plain"
                       \/ After(v, i).word % PageWords = 0
           E == {i \in 1 .. MaxBlockInsns : Last_(i)}
<1>1. MaxBlockInsns \in E
  BY CacheSizes
<1>2. E \in SUBSET Nat
  OBVIOUS
<1> HIDE DEF E
<1>3. PICK n \in E : \A k \in E : n <= k
  BY <1>1, <1>2, LeastOne
<1>4. n \in 1 .. MaxBlockInsns /\ Last_(n)
  BY DEF E
<1>5. ASSUME NEW i \in 1 .. n - 1 PROVE ~Last_(i)
  <2>1. n \in 1 .. MaxBlockInsns /\ MaxBlockInsns \in Nat
    BY <1>4, CacheSizes
  <2>2. i \in 1 .. MaxBlockInsns /\ ~(n <= i)
    BY <2>1
  <2> QED BY <1>3, <2>2 DEF E
<1> HIDE DEF Last_
<1>6. \E m \in 1 .. MaxBlockInsns : Last_(m) /\ \A i \in 1 .. m - 1 : ~Last_(i)
  BY <1>4, <1>5
<1> QED BY <1>6, Zenon DEF BodyLength, Last_

LEMMA AddressTyped ==
    ASSUME MachineTyped, NEW v \in Addresses, NEW i \in Nat
    PROVE  /\ Translate(After(v, i)) \in Nat \cup {NoPage}
           /\ ReadWord(Translate(After(v, i))) \in Kinds
<1>1. /\ After(v, i).segment = v.segment /\ After(v, i).word = v.word + i
      /\ v.word + i \in Nat
  BY CacheSizes DEF Addresses, After
<1>2. ASSUME NEW w \in Nat, w \div PageWords \in MappedPages,
             tlb[w \div PageWords] # NoPage
      PROVE  tlb[w \div PageWords] * PageWords + (w % PageWords) \in Nat
  <2>1. tlb[w \div PageWords] \in Nat
    BY <1>2 DEF MachineTyped, PhysicalPages
  <2>2. w % PageWords \in Nat
    BY CacheSizes
  <2> QED BY <2>1, <2>2, CacheSizes
<1>3. Translate(After(v, i)) \in Nat \cup {NoPage}
  BY <1>1, <1>2 DEF Translate
<1>4. ASSUME NEW a \in Nat \cup {NoPage} PROVE a % RdramWords \in Words
  BY CacheSizes DEF Words, NoPage
<1> QED BY <1>3, <1>4 DEF ReadWord, MachineTyped

LEMMA TranslatesToNat ==
    ASSUME MachineTyped, NEW v \in Addresses, Translate(v) # NoPage
    PROVE  Translate(v) \in Nat
<1>1. After(v, 0) = v
  BY CacheSizes DEF Addresses, After
<1> QED BY <1>1, AddressTyped

\* What compile puts into a block is what memory holds.
LEMMA InsnsRead ==
    ASSUME MachineTyped, NEW v \in Addresses
    PROVE  /\ Insns(v) \in Seq(Kinds)
           /\ Len(Insns(v)) <= MaxBlockInsns + 1
           /\ \A i \in 1 .. Len(Insns(v)) :
                 Insns(v)[i] = ReadWord(Translate(After(v, i - 1)))
<1> DEFINE n == BodyLength(v)
           body == [i \in 1 .. n |-> ReadWord(Translate(After(v, i - 1)))]
           delay == Translate(After(v, n))
<1>1. n \in 1 .. MaxBlockInsns /\ n \in Nat /\ n <= MaxBlockInsns
  BY BodyEnds, CacheSizes
<1>2. Insns(v) = IF body[n] = "branch" /\ delay # NoPage
                 THEN Append(body, ReadWord(delay)) ELSE body
  BY DEF Insns
<1> HIDE DEF n
<1>3. \A i \in 1 .. n : ReadWord(Translate(After(v, i - 1))) \in Kinds
  <2>1. \A i \in 1 .. n : i - 1 \in Nat
    OBVIOUS
  <2> QED BY <2>1, AddressTyped
<1>4. body \in Seq(Kinds) /\ Len(body) = n
      /\ \A i \in 1 .. n : body[i] = ReadWord(Translate(After(v, i - 1)))
  BY <1>1, <1>3
<1>5. ReadWord(delay) \in Kinds
  BY <1>1, AddressTyped
<1> HIDE DEF body
<1>6. CASE ~(body[n] = "branch" /\ delay # NoPage)
  <2>1. Insns(v) = body
    BY <1>2, <1>6
  <2> QED BY <1>1, <1>4, <2>1, CacheSizes
<1>7. CASE body[n] = "branch" /\ delay # NoPage
  <2> DEFINE longer == Append(body, ReadWord(delay))
  <2>1. Insns(v) = longer
    BY <1>2, <1>7
  <2>2. /\ longer \in Seq(Kinds) /\ Len(longer) = n + 1
        /\ longer[n + 1] = ReadWord(delay)
        /\ \A i \in 1 .. n : longer[i] = body[i]
    BY <1>1, <1>4, <1>5
  <2> HIDE DEF longer
  <2>3. ASSUME NEW i \in 1 .. n + 1
        PROVE  longer[i] = ReadWord(Translate(After(v, i - 1)))
    <3>1. CASE i = n + 1
      <4>1. i - 1 = n
        BY <1>1, <3>1
      <4> QED BY <2>2, <3>1, <4>1
    <3>2. CASE i # n + 1
      <4>1. i \in 1 .. n
        BY <1>1, <3>2
      <4> QED BY <1>4, <2>2, <4>1
    <3> QED BY <3>1, <3>2
  <2> QED BY <1>1, <2>1, <2>2, <2>3, CacheSizes
<1> QED BY <1>6, <1>7

\* compile: the block of v takes its slot, and nothing else changes.
LEMMA CompiledKeeps ==
    ASSUME NEW c, Sound(c), MachineTyped, NEW v \in Addresses, Translate(v) # NoPage
    PROVE  LET d == Compiled(c, v)
               s == SlotOf(v)
           IN /\ s \in Slots /\ Sound(d)
              /\ ValidIn(d) = ValidIn(c) \cup {s}
              /\ d.slot[s].tag = v
              /\ d.slot[s].block = [paddr |-> Translate(v), insns |-> Insns(v)]
              /\ \A q \in Slots \ {s} : d.slot[q].tag = c.slot[q].tag
                                        /\ d.slot[q].block = c.slot[q].block
<1> DEFINE s == SlotOf(v)
           u == Unmark(c, s)
           b == [paddr |-> Translate(v), insns |-> Insns(v)]
           new == [valid |-> TRUE, tag |-> v, block |-> b, aliased_position |-> 0]
           total == IF c.slot[s].valid THEN c.count ELSE c.count + 1
           d == [slot |-> [u.slot EXCEPT ![s] = new], aliased |-> u.aliased, count |-> total]
           m == Mark(d, s)
<1>1. s \in Slots
  <2>1. v.word \in Nat
    BY CacheSizes DEF Addresses
  <2> QED BY <2>1, CacheSizes DEF SlotOf, Slots
<1>2. /\ u \in CacheType /\ Linked(u) /\ SameBlocks(c, u) /\ u.count = c.count
      /\ Position(u, s) = 0
      /\ \A q \in Slots \ {s} : Position(u, q) = 0 <=> Position(c, q) = 0
  BY <1>1, UnmarkKeeps DEF Sound
<1>3. b \in [paddr : Nat, insns : Seq(Kinds)]
  BY InsnsRead, TranslatesToNat
<1> HIDE DEF s
<1>4. new \in SlotType
  BY <1>3 DEF SlotType
<1>5. /\ u = [slot |-> u.slot, aliased |-> u.aliased, count |-> u.count]
      /\ u.slot \in [Slots -> SlotType] /\ u.aliased \in Seq(Slots) /\ u.count \in Nat
  BY <1>2 DEF CacheType
<1> HIDE DEF u
<1>6. d = [u EXCEPT !.count = IF c.slot[s].valid THEN @ ELSE @ + 1,
                    !.slot[s] = [valid |-> TRUE, tag |-> v, block |-> b,
                                 aliased_position |-> @.aliased_position]]
  <2> DEFINE old == u.slot[s]
             added == [valid |-> TRUE, tag |-> v, block |-> b,
                       aliased_position |-> old.aliased_position]
  <2>1. added = new
    BY <1>2 DEF Position
  <2> HIDE DEF added, new
  <2>2. [u EXCEPT !.count = IF c.slot[s].valid THEN @ ELSE @ + 1, !.slot[s] = added]
          = [slot |-> [u.slot EXCEPT ![s] = added], aliased |-> u.aliased,
             count |-> IF c.slot[s].valid THEN u.count ELSE u.count + 1]
    <3> DEFINE sum == IF c.slot[s].valid THEN u.count ELSE u.count + 1
               w == [u EXCEPT !.count = sum]
               slots == [u.slot EXCEPT ![s] = added]
    <3>2. [u EXCEPT !.count = sum, !.slot[s] = added] = [w EXCEPT !.slot[s] = added]
      OBVIOUS
    <3> HIDE DEF sum
    <3>3. w = [slot |-> u.slot, aliased |-> u.aliased, count |-> sum] /\ w.slot = u.slot
      BY <1>5
    <3>4. [w EXCEPT !.slot[s] = added] = [w EXCEPT !.slot = slots]
      BY <3>3
    <3> HIDE DEF w, slots
    <3>5. [w EXCEPT !.slot = slots] = [slot |-> slots, aliased |-> u.aliased, count |-> sum]
      BY <3>3
    <3>1. [u EXCEPT !.count = sum, !.slot[s] = added]
            = [slot |-> [u.slot EXCEPT ![s] = added], aliased |-> u.aliased, count |-> sum]
      BY <3>2, <3>4, <3>5 DEF w, slots
    <3> QED BY <3>1, Zenon DEF sum
  <2> QED BY <1>2, <2>1, <2>2 DEF added
<1>7. Compiled(c, v) = IF v.segment = "mapped" THEN m ELSE d
  <2>1. Compiled(c, v) =
          LET e == [u EXCEPT !.count = IF c.slot[s].valid THEN @ ELSE @ + 1,
                             !.slot[s] = [valid |-> TRUE, tag |-> v, block |-> b,
                                          aliased_position |-> @.aliased_position]]
          IN IF v.segment = "mapped" THEN Mark(e, s) ELSE e
    BY DEF Compiled, s, u
  <2> QED BY <1>6, <2>1
<1> HIDE DEF b
<1>8. d.slot \in [Slots -> SlotType] /\ d.slot[s] = new
      /\ \A q \in Slots \ {s} : d.slot[q] = u.slot[q]
  BY <1>1, <1>4, <1>5
<1>9. d.aliased = u.aliased /\ d.count = total
  OBVIOUS
<1>10. total \in Nat
  BY <1>2, <1>5
<1>11. d \in CacheType
  BY <1>5, <1>8, <1>10 DEF CacheType
<1>12. d.slot[s].valid /\ d.slot[s].tag = v /\ d.slot[s].block = b /\ Position(d, s) = 0
  BY <1>8 DEF Position
<1>13. \A q \in Slots \ {s} : /\ d.slot[q].valid = c.slot[q].valid
                              /\ d.slot[q].tag = c.slot[q].tag
                              /\ d.slot[q].block = c.slot[q].block
                              /\ Position(d, q) = Position(u, q)
  BY <1>2, <1>8 DEF SameBlocks, Position
<1> HIDE DEF d, total
<1>14. \A q \in Slots : Position(d, q) = Position(u, q)
  BY <1>2, <1>12, <1>13
<1>15. Linked(d)
  BY <1>2, <1>9, <1>14, LinkedByPositions
<1>16. ValidIn(d) = ValidIn(c) \cup {s}
  BY <1>1, <1>12, <1>13 DEF ValidIn
<1>17. Counted(d)
  <2>1. IsFiniteSet(ValidIn(c)) /\ c.count = Cardinality(ValidIn(c))
    BY ValidFinite DEF Sound, Counted
  <2>2. s \in ValidIn(c) <=> c.slot[s].valid
    BY <1>1 DEF ValidIn
  <2>3. CASE c.slot[s].valid
    <3>1. ValidIn(d) = ValidIn(c)
      BY <1>16, <2>2, <2>3
    <3> QED BY <1>9, <2>1, <2>3, <3>1 DEF Counted, total
  <2>4. CASE ~c.slot[s].valid
    <3>1. Cardinality(ValidIn(d)) = Cardinality(ValidIn(c)) + 1
      BY <1>16, <2>1, <2>2, <2>4, FS_AddElement
    <3> QED BY <1>9, <2>1, <2>4, <3>1 DEF Counted, total
  <2> QED BY <2>3, <2>4
<1>18. \A q \in Slots \ {s} :
          (Position(d, q) # 0) <=> (q \in ValidIn(d) /\ d.slot[q].tag.segment = "mapped")
  BY <1>2, <1>13, <1>16 DEF Exact, Sound
<1>19. CASE v.segment # "mapped"
  <2>1. Compiled(c, v) = d
    BY <1>7, <1>19
  <2>2. Exact(d)
    BY <1>12, <1>18, <1>19 DEF Exact
  <2> HIDE DEF new
  <2> QED BY <1>1, <1>11, <1>12, <1>13, <1>15, <1>16, <1>17, <2>1, <2>2 DEF Sound, b, s
<1>20. CASE v.segment = "mapped"
  <2>1. /\ Compiled(c, v) = m
        /\ m \in CacheType /\ Linked(m) /\ SameBlocks(d, m) /\ m.count = d.count
        /\ Position(m, s) # 0
        /\ \A q \in Slots \ {s} : Position(m, q) = Position(d, q)
    BY <1>1, <1>7, <1>11, <1>15, <1>20, MarkKeeps
  <2> HIDE DEF m, new
  <2>2. ValidIn(m) = ValidIn(d)
    BY <2>1 DEF ValidIn, SameBlocks
  <2>3. Counted(m)
    BY <1>17, <2>1, <2>2 DEF Counted
  <2>4. Exact(m)
    BY <1>1, <1>12, <1>16, <1>18, <1>20, <2>1, <2>2 DEF Exact, SameBlocks
  <2>5. m.slot[s].tag = v /\ m.slot[s].block = b
    BY <1>1, <1>12, <2>1 DEF SameBlocks
  <2>6. \A q \in Slots \ {s} : m.slot[q].tag = c.slot[q].tag /\ m.slot[q].block = c.slot[q].block
    BY <1>13, <2>1 DEF SameBlocks
  <2> QED BY <1>1, <1>16, <2>1, <2>2, <2>3, <2>4, <2>5, <2>6 DEF Sound, b, s
<1> QED BY <1>19, <1>20

-----------------------------------------------------------------------------
(* The block cache: invalidation.                                            *)

\* d holds some of the blocks of c.
SubCache(d, c) ==
    /\ ValidIn(d) \subseteq ValidIn(c)
    /\ \A q \in ValidIn(d) : d.slot[q].tag = c.slot[q].tag /\ d.slot[q].block = c.slot[q].block

\* The slot holds a block that has words of the range.
Stale(c, s, paddr, size) == s \in ValidIn(c) /\ Overlaps(c.slot[s].block, paddr, size)

LEMMA SubCacheOfSub ==
    \A c, d, e : SubCache(d, c) /\ SubCache(e, d) =>
        /\ SubCache(e, c)
        /\ \A s, paddr, size : Stale(e, s, paddr, size) => Stale(d, s, paddr, size)
BY DEF SubCache, Stale

\* The empty cache is a cache.
LEMMA ClearedKeeps == Sound(Cleared) /\ ValidIn(Cleared) = {}
<1>1. NoBlock \in [paddr : Nat, insns : Seq(Kinds)]
  <2>1. << >> \in Seq(Kinds)
    OBVIOUS
  <2> QED BY <2>1 DEF NoBlock
<1>2. EmptySlot \in SlotType
  <2> HIDE DEF NoBlock
  <2> QED BY <1>1 DEF EmptySlot, SlotType
<1>3. EmptySlot.valid = FALSE /\ EmptySlot.aliased_position = 0
  BY DEF EmptySlot
<1>4. /\ \A s \in Slots : Cleared.slot[s] = EmptySlot
      /\ Cleared.slot \in [Slots -> SlotType]
      /\ Cleared.aliased = << >> /\ Cleared.count = 0
  BY <1>2 DEF Cleared
<1>5. Cleared \in CacheType
  <2>1. << >> \in Seq(Slots)
    OBVIOUS
  <2> DEFINE slots == [s \in Slots |-> EmptySlot]
             none == << >>
  <2>2. Cleared = [slot |-> slots, aliased |-> none, count |-> 0]
    BY DEF Cleared
  <2>3. slots \in [Slots -> SlotType] /\ none \in Seq(Slots)
    BY <1>2, <2>1
  <2> HIDE DEF slots, none
  <2> QED BY <2>2, <2>3 DEF CacheType
<1>6. ValidIn(Cleared) = {}
  BY <1>3, <1>4 DEF ValidIn
<1>7. Counted(Cleared)
  BY <1>4, <1>6, FS_EmptySet DEF Counted
<1>8. Linked(Cleared) /\ Exact(Cleared)
  BY <1>3, <1>4, <1>6 DEF Linked, Exact, Position
<1> QED BY <1>5, <1>6, <1>7, <1>8 DEF Sound

\* A round of the first loop.
LEMMA VisitKeeps ==
    ASSUME NEW c, Sound(c), NEW s \in Slots, NEW paddr, NEW size
    PROVE  LET d == VisitSlot(c, s, paddr, size)
           IN Sound(d) /\ SubCache(d, c) /\ ~Stale(d, s, paddr, size)
<1>1. CASE c.slot[s].valid /\ Overlaps(c.slot[s].block, paddr, size)
  <2> DEFINE d == InvalidateSlot(c, s)
  <2>1. VisitSlot(c, s, paddr, size) = d
    BY <1>1 DEF VisitSlot
  <2>2. /\ Sound(d) /\ ValidIn(d) = ValidIn(c) \ {s}
        /\ \A q \in Slots \ {s} : d.slot[q].tag = c.slot[q].tag
                                  /\ d.slot[q].block = c.slot[q].block
    BY InvalidateKeeps
  <2> HIDE DEF d
  <2>3. ValidIn(d) \subseteq Slots
    BY DEF ValidIn
  <2> QED BY <2>1, <2>2, <2>3 DEF SubCache, Stale
<1>2. CASE ~(c.slot[s].valid /\ Overlaps(c.slot[s].block, paddr, size))
  <2>1. VisitSlot(c, s, paddr, size) = c
    BY <1>2 DEF VisitSlot
  <2> QED BY <1>2, <2>1 DEF SubCache, Stale, ValidIn
<1> QED BY <1>1, <1>2

\* The caches, and the states of the second loop.
Sounds == {c \in CacheType : Sound(c)}
AliasStates == [c : Sounds, cursor : Nat \ {0}]

\* After a first loop no slot of the words it went over holds a block of the range.
Swept(d, c, first, n, paddr, size) ==
    /\ d \in Sounds /\ SubCache(d, c)
    /\ \A k \in 0 .. n - 1 : ~Stale(d, (first + k) % TableSize, paddr, size)

LEMMA DirectRound ==
    ASSUME NEW c, NEW d, NEW first \in Nat, NEW i \in Nat \ {0}, NEW paddr, NEW size,
           Swept(d, c, first, i - 1, paddr, size)
    PROVE  Swept(VisitSlot(d, (first + i - 1) % TableSize, paddr, size), c, first, i,
                 paddr, size)
<1> DEFINE s == (first + i - 1) % TableSize
           e == VisitSlot(d, s, paddr, size)
<1>1. s \in Slots
  BY CacheSizes DEF Slots
<1>2. Sound(d) /\ SubCache(d, c)
  BY DEF Swept, Sounds
<1>3. Sound(e) /\ SubCache(e, d) /\ ~Stale(e, s, paddr, size)
  BY <1>1, <1>2, VisitKeeps
<1>4. ASSUME NEW k \in 0 .. i - 1 PROVE ~Stale(e, (first + k) % TableSize, paddr, size)
  <2> DEFINE q == (first + k) % TableSize
  <2>1. CASE k = i - 1
    <3>1. first + k = first + i - 1
      BY <2>1
    <3> QED BY <1>3, <3>1
  <2>2. CASE k # i - 1
    <3>1. k \in 0 .. (i - 1) - 1
      BY <2>2
    <3>2. ~Stale(d, q, paddr, size)
      BY <3>1 DEF Swept
    <3> HIDE DEF q, e
    <3>3. ~Stale(e, q, paddr, size)
      BY <1>3, <3>2 DEF SubCache, Stale
    <3> QED BY <3>3 DEF q, e
  <2> QED BY <2>1, <2>2
<1> HIDE DEF e
<1>5. SubCache(e, c) /\ e \in Sounds
  BY <1>2, <1>3, SubCacheOfSub DEF Sounds, Sound
<1> QED BY <1>4, <1>5 DEF Swept, e

\* invalidate, the first loop.
LEMMA SweepDirectKeeps ==
    ASSUME NEW c, Sound(c), NEW paddr \in Nat, NEW size \in Nat
    PROVE  LET first == FirstCandidate(paddr)
           IN Swept(SweepDirect(c, paddr, size), c, first, paddr + size - first, paddr, size)
<1> DEFINE first == FirstCandidate(paddr)
           n == paddr + size - first
           swept == CHOOSE f : f = [i \in 0 .. n |->
                        IF i = 0 THEN c
                        ELSE VisitSlot(f[i - 1], (first + i - 1) % TableSize, paddr, size)]
<1>1. first \in Nat /\ n \in Nat
  BY CacheSizes DEF FirstCandidate
<1>2. SweepDirect(c, paddr, size) = swept[n]
  BY DEF SweepDirect
<1>3. c \in Sounds
  BY DEF Sounds, Sound
<1> HIDE DEF first, n
<1>4. \E f : f = [i \in 0 .. n |->
               IF i = 0 THEN c
               ELSE VisitSlot(f[i - 1], (first + i - 1) % TableSize, paddr, size)]
  <2> DEFINE V == [i \in 1 .. n |-> [x \in Sounds |->
                      VisitSlot(x, (first + i - 1) % TableSize, paddr, size)]]
  <2>1. ASSUME NEW i \in 1 .. n, NEW x \in Sounds
        PROVE  /\ V[i][x] = VisitSlot(x, (first + i - 1) % TableSize, paddr, size)
               /\ VisitSlot(x, (first + i - 1) % TableSize, paddr, size) \in Sounds
    <3>1. (first + i - 1) % TableSize \in Slots
      BY <1>1, CacheSizes DEF Slots
    <3>2. Sound(VisitSlot(x, (first + i - 1) % TableSize, paddr, size))
      BY <3>1, VisitKeeps DEF Sounds
    <3> QED BY <3>2 DEF Sounds, Sound
  <2>2. V \in [1 .. n -> [Sounds -> Sounds]]
    BY <2>1
  <2> HIDE DEF V
  <2>3. PICK f \in [0 .. n -> Sounds] : Rounds(f, n, c, V)
    BY <1>1, <1>3, <2>2, Recursion
  <2>4. ASSUME NEW i \in 0 .. n
        PROVE  f[i] = IF i = 0 THEN c
                      ELSE VisitSlot(f[i - 1], (first + i - 1) % TableSize, paddr, size)
    <3>1. CASE i = 0
      BY <2>3, <3>1 DEF Rounds
    <3>2. CASE i # 0
      <4>1. i \in 1 .. n /\ i - 1 \in 0 .. n
        BY <1>1, <3>2
      <4>2. f[i - 1] \in Sounds
        BY <4>1
      <4> QED BY <2>1, <2>3, <3>2, <4>1, <4>2 DEF Rounds
    <3> QED BY <3>1, <3>2
  <2>5. f = [i \in 0 .. n |-> f[i]]
    OBVIOUS
  <2> QED BY <2>4, <2>5
<1>5. swept = [i \in 0 .. n |->
                 IF i = 0 THEN c
                 ELSE VisitSlot(swept[i - 1], (first + i - 1) % TableSize, paddr, size)]
  BY <1>4
<1> HIDE DEF swept
<1> DEFINE P == {i \in 0 .. n : Swept(swept[i], c, first, i, paddr, size)}
<1>6. 0 \in P
  <2>1. 0 \in 0 .. n /\ swept[0] = c
    BY <1>1, <1>5
  <2>2. SubCache(c, c)
    BY DEF SubCache
  <2>3. Swept(c, c, first, 0, paddr, size)
    BY <1>3, <2>2 DEF Swept
  <2> QED BY <2>1, <2>3
<1>7. ASSUME NEW i \in 1 .. n, i - 1 \in P PROVE i \in P
  <2>1. i \in 0 .. n /\ i # 0 /\ i \in Nat \ {0}
    BY <1>1
  <2>2. swept[i] = VisitSlot(swept[i - 1], (first + i - 1) % TableSize, paddr, size)
    BY <1>5, <2>1
  <2>3. Swept(swept[i - 1], c, first, i - 1, paddr, size)
    BY <1>7
  <2>4. Swept(swept[i], c, first, i, paddr, size)
    BY <1>1, <2>1, <2>2, <2>3, DirectRound
  <2> QED BY <2>1, <2>4
<1>8. n \in P
  <2>1. P \in SUBSET (0 .. n) /\ n \in 0 .. n
    BY <1>1
  <2> HIDE DEF P
  <2>2. P = 0 .. n
    BY <1>1, <1>6, <1>7, <2>1, OneByOne
  <2> QED BY <2>1, <2>2
<1> QED BY <1>2, <1>8 DEF first, n

\* The second loop with k rounds to go: what lies before the cursor holds no block of
\* the range.
Left(st, c, k, paddr, size) ==
    /\ st \in AliasStates
    /\ SubCache(st.c, c)
    /\ Len(st.c.aliased) - st.cursor + 1 = k
    /\ \A j \in 1 .. st.cursor - 1 :
          ~Overlaps(st.c.slot[st.c.aliased[j]].block, paddr, size)

LEMMA AliasRound ==
    ASSUME NEW c, NEW st, NEW k \in Nat \ {0}, NEW paddr, NEW size,
           Left(st, c, k, paddr, size)
    PROVE  /\ st.cursor <= Len(st.c.aliased)
           /\ Left(VisitAliased(st, paddr, size), c, k - 1, paddr, size)
<1> DEFINE d == st.c
           j == st.cursor
           s == d.aliased[j]
           n == Len(d.aliased)
<1>1. /\ st = [c |-> d, cursor |-> j] /\ d \in Sounds /\ j \in Nat \ {0}
      /\ SubCache(d, c) /\ n - j + 1 = k
      /\ \A i \in 1 .. j - 1 : ~Overlaps(d.slot[d.aliased[i]].block, paddr, size)
  BY DEF Left, AliasStates
<1>2. Sound(d) /\ d \in CacheType /\ d.aliased \in Seq(Slots) /\ n \in Nat
  BY <1>1 DEF Sounds, CacheType
<1>3. j \in 1 .. n
  BY <1>1, <1>2
<1>4. s \in Slots /\ Position(d, s) = j
  BY <1>2, <1>3 DEF Sound, Linked
<1>5. s \in ValidIn(d)
  BY <1>1, <1>2, <1>4 DEF Sound, Exact
<1>6. VisitAliased(st, paddr, size) =
        IF Overlaps(d.slot[s].block, paddr, size)
        THEN [st EXCEPT !.c = InvalidateSlot(d, s)] ELSE [st EXCEPT !.cursor = j + 1]
  BY DEF VisitAliased
<1> HIDE DEF s, j, n, d
<1>7. CASE Overlaps(d.slot[s].block, paddr, size)
  <2> DEFINE e == InvalidateSlot(d, s)
             after == [c |-> e, cursor |-> j]
  <2>1. VisitAliased(st, paddr, size) = [st EXCEPT !.c = e]
    BY <1>6, <1>7
  <2>2. /\ Sound(e) /\ ValidIn(e) = ValidIn(d) \ {s}
        /\ \A q \in Slots \ {s} : e.slot[q].block = d.slot[q].block
                                  /\ e.slot[q].tag = d.slot[q].tag
        /\ Len(e.aliased) = Len(d.aliased) - 1
        /\ \A i \in 1 .. j - 1 : e.aliased[i] = d.aliased[i]
    BY <1>1, <1>2, <1>4, <1>5, InvalidateKeeps
  <2> HIDE DEF e
  <2>3. VisitAliased(st, paddr, size) = after
    BY <1>1, <2>1
  <2>4. e \in Sounds
    BY <2>2 DEF Sounds, Sound
  <2>5. ValidIn(e) \subseteq Slots
    BY DEF ValidIn
  <2>6. SubCache(e, c)
    BY <1>1, <2>2, <2>5 DEF SubCache
  <2>7. ASSUME NEW i \in 1 .. j - 1
        PROVE  ~Overlaps(e.slot[e.aliased[i]].block, paddr, size)
    <3> DEFINE q == d.aliased[i]
    <3>1. i \in 1 .. n /\ i # j
      BY <1>1, <1>2, <1>3
    <3>2. q \in Slots /\ Position(d, q) = i
      BY <1>2, <3>1 DEF Sound, Linked, n
    <3>3. q # s
      BY <1>4, <3>1, <3>2
    <3>4. ~Overlaps(d.slot[q].block, paddr, size) /\ e.aliased[i] = q
      BY <1>1, <2>2
    <3> HIDE DEF q
    <3> QED BY <2>2, <3>2, <3>3, <3>4
  <2>8. Len(e.aliased) - j + 1 = k - 1
    BY <1>1, <1>2, <2>2 DEF n
  <2>9. after.c = e /\ after.cursor = j /\ after \in AliasStates
    BY <1>1, <2>4 DEF AliasStates
  <2> HIDE DEF after
  <2>10. Left(after, c, k - 1, paddr, size)
    BY <2>6, <2>7, <2>8, <2>9 DEF Left
  <2> QED BY <1>3, <2>3, <2>10 DEF j, n, d
<1>8. CASE ~Overlaps(d.slot[s].block, paddr, size)
  <2> DEFINE after == [c |-> d, cursor |-> j + 1]
  <2>1. VisitAliased(st, paddr, size) = after
    BY <1>1, <1>6, <1>8
  <2>2. after.c = d /\ after.cursor = j + 1 /\ after \in AliasStates
    BY <1>1 DEF AliasStates
  <2> HIDE DEF after
  <2>3. ASSUME NEW i \in 1 .. (j + 1) - 1
        PROVE  ~Overlaps(d.slot[d.aliased[i]].block, paddr, size)
    <3>1. CASE i = j
      BY <1>8, <3>1 DEF s
    <3>2. CASE i # j
      <4>1. i \in 1 .. j - 1
        BY <1>1, <3>2
      <4> QED BY <1>1, <4>1
    <3> QED BY <3>1, <3>2
  <2>4. Len(d.aliased) - (j + 1) + 1 = k - 1
    BY <1>1, <1>2 DEF n
  <2>5. Left(after, c, k - 1, paddr, size)
    BY <1>1, <2>2, <2>3, <2>4 DEF Left
  <2> QED BY <1>3, <2>1, <2>5 DEF j, n, d
<1> QED BY <1>7, <1>8

\* invalidate, the second loop: after it no slot of the vector holds a block of the range.
LEMMA SweepAliasedKeeps ==
    ASSUME NEW c, Sound(c), NEW paddr, NEW size
    PROVE  LET d == SweepAliased(c, paddr, size)
           IN /\ Sound(d) /\ SubCache(d, c)
              /\ \A s \in ValidIn(d) : d.slot[s].tag.segment = "mapped" =>
                     ~Overlaps(d.slot[s].block, paddr, size)
<1> DEFINE n == Len(c.aliased)
           start == [c |-> c, cursor |-> 1]
           swept == CHOOSE f : f = [i \in 0 .. n |->
                        IF i = 0 THEN start ELSE VisitAliased(f[i - 1], paddr, size)]
<1>1. n \in Nat
  BY DEF Sound, CacheType
<1>2. SweepAliased(c, paddr, size) = swept[n].c
  BY DEF SweepAliased
<1>3. Left(start, c, n, paddr, size)
  <2>1. c \in Sounds
    BY DEF Sounds, Sound
  <2>2. start \in AliasStates /\ start.c = c /\ start.cursor = 1
    BY <2>1 DEF AliasStates
  <2>3. SubCache(c, c)
    BY DEF SubCache
  <2> HIDE DEF start
  <2> QED BY <1>1, <2>2, <2>3 DEF Left
<1> HIDE DEF n, start
<1>4. ASSUME NEW f, NEW i \in 1 .. n, Left(f[i - 1], c, n - (i - 1), paddr, size)
      PROVE  /\ f[i - 1].cursor <= Len(f[i - 1].c.aliased)
             /\ Left(VisitAliased(f[i - 1], paddr, size), c, n - i, paddr, size)
  <2> DEFINE k == n - (i - 1)
             st == f[i - 1]
  <2>1. k \in Nat \ {0} /\ k - 1 = n - i
    BY <1>1
  <2>2. Left(st, c, k, paddr, size)
    BY <1>4
  <2> HIDE DEF k, st
  <2>3. st.cursor <= Len(st.c.aliased) /\ Left(VisitAliased(st, paddr, size), c, k - 1, paddr, size)
    BY <2>1, <2>2, AliasRound
  <2> QED BY <2>1, <2>3 DEF st
<1>5. ASSUME NEW f, f[0] = start,
             \A i \in 1 .. n : Left(f[i - 1], c, n - (i - 1), paddr, size) =>
                                   f[i] = VisitAliased(f[i - 1], paddr, size)
      PROVE  \A i \in 0 .. n : Left(f[i], c, n - i, paddr, size)
  <2> DEFINE P == {i \in 0 .. n : Left(f[i], c, n - i, paddr, size)}
  <2>1. 0 \in P
    <3>1. 0 \in 0 .. n /\ n - 0 = n
      BY <1>1
    <3> QED BY <1>3, <1>5, <3>1
  <2>2. ASSUME NEW i \in 1 .. n, i - 1 \in P PROVE i \in P
    <3>1. i \in 0 .. n
      BY <1>1
    <3>2. Left(f[i - 1], c, n - (i - 1), paddr, size)
      BY <2>2
    <3> QED BY <1>4, <1>5, <3>1, <3>2
  <2>3. P \in SUBSET (0 .. n)
    OBVIOUS
  <2> HIDE DEF P
  <2>4. P = 0 .. n
    BY <1>1, <2>1, <2>2, <2>3, OneByOne
  <2> QED BY <2>4 DEF P
<1>6. \E f : f = [i \in 0 .. n |->
               IF i = 0 THEN start ELSE VisitAliased(f[i - 1], paddr, size)]
  <2> DEFINE Round(x) == VisitAliased(x, paddr, size)
             V == [i \in 1 .. n |-> [x \in AliasStates |->
                      IF Round(x) \in AliasStates THEN Round(x) ELSE x]]
  <2>1. ASSUME NEW i \in 1 .. n, NEW x \in AliasStates, Round(x) \in AliasStates
        PROVE  V[i][x] = Round(x)
    BY <2>1
  <2>2. V \in [1 .. n -> [AliasStates -> AliasStates]]
    OBVIOUS
  <2>3. start \in AliasStates
    BY <1>3 DEF Left
  <2> HIDE DEF V, Round
  <2>4. PICK f \in [0 .. n -> AliasStates] : Rounds(f, n, start, V)
    BY <1>1, <2>2, <2>3, Recursion
  <2>5. f[0] = start
    BY <2>4 DEF Rounds
  <2>6. ASSUME NEW i \in 1 .. n, Left(f[i - 1], c, n - (i - 1), paddr, size)
        PROVE  f[i] = Round(f[i - 1])
    <3>1. i - 1 \in 0 .. n
      BY <1>1
    <3>2. f[i - 1] \in AliasStates
      BY <3>1
    <3>3. Round(f[i - 1]) \in AliasStates
      BY <1>4, <2>6 DEF Left, Round
    <3>4. f[i] = V[i][f[i - 1]]
      BY <2>4 DEF Rounds
    <3> QED BY <2>1, <3>2, <3>3, <3>4
  <2>7. \A i \in 0 .. n : Left(f[i], c, n - i, paddr, size)
    BY <1>5, <2>5, <2>6 DEF Round
  <2>8. ASSUME NEW i \in 0 .. n
        PROVE  f[i] = IF i = 0 THEN start ELSE Round(f[i - 1])
    <3>1. CASE i = 0
      BY <2>5, <3>1
    <3>2. CASE i # 0
      <4>1. i \in 1 .. n /\ i - 1 \in 0 .. n /\ n - (i - 1) = n - (i - 1)
        BY <1>1, <3>2
      <4> QED BY <2>6, <2>7, <3>2, <4>1
    <3> QED BY <3>1, <3>2
  <2>9. f = [i \in 0 .. n |-> f[i]]
    OBVIOUS
  <2> QED BY <2>8, <2>9 DEF Round
<1>7. swept = [i \in 0 .. n |->
                 IF i = 0 THEN start ELSE VisitAliased(swept[i - 1], paddr, size)]
  BY <1>6
<1> HIDE DEF swept
<1>8. swept[0] = start /\ \A i \in 1 .. n : swept[i] = VisitAliased(swept[i - 1], paddr, size)
  <2>1. 0 \in 0 .. n /\ \A i \in 1 .. n : i \in 0 .. n /\ i # 0
    BY <1>1
  <2> QED BY <1>7, <2>1
<1>9. Left(swept[n], c, 0, paddr, size)
  <2>1. \A i \in 0 .. n : Left(swept[i], c, n - i, paddr, size)
    BY <1>5, <1>8
  <2>2. n \in 0 .. n /\ n - n = 0
    BY <1>1
  <2> QED BY <2>1, <2>2
<1> DEFINE d == swept[n].c
<1>10. Sound(d) /\ SubCache(d, c) /\ Len(d.aliased) \in Nat
       /\ \A j \in 1 .. Len(d.aliased) : ~Overlaps(d.slot[d.aliased[j]].block, paddr, size)
  <2> DEFINE j == swept[n].cursor
  <2>1. d \in Sounds /\ j \in Nat /\ SubCache(d, c) /\ Len(d.aliased) - j + 1 = 0
        /\ \A i \in 1 .. j - 1 : ~Overlaps(d.slot[d.aliased[i]].block, paddr, size)
    BY <1>9 DEF Left, AliasStates
  <2>2. Len(d.aliased) \in Nat /\ Sound(d)
    BY <2>1 DEF Sounds, CacheType
  <2> HIDE DEF d, j
  <2>3. j - 1 = Len(d.aliased)
    BY <2>1, <2>2
  <2> QED BY <2>1, <2>2, <2>3
<1> HIDE DEF d
<1>11. ASSUME NEW s \in ValidIn(d), d.slot[s].tag.segment = "mapped"
       PROVE  ~Overlaps(d.slot[s].block, paddr, size)
  <2>1. s \in Slots
    BY DEF ValidIn
  <2>2. Position(d, s) \in 1 .. Len(d.aliased) /\ d.aliased[Position(d, s)] = s
    BY <1>10, <1>11, <2>1 DEF Sound, Exact, Linked
  <2> QED BY <1>10, <2>2
<1> QED BY <1>2, <1>10, <1>11 DEF d

\* What invalidate relies on: a block is in the slot of its address, is not too long,
\* and a direct-mapped one lies where its virtual address says.
Placed(c) ==
    \A s \in ValidIn(c) :
        LET tag == c.slot[s].tag
            block == c.slot[s].block
        IN /\ tag \in Addresses /\ SlotOf(tag) = s
           /\ Len(block.insns) <= MaxBlockInsns + 1
           /\ tag.segment # "mapped" => block.paddr = tag.word

LEMMA SubCachePlaced == \A c, d : Placed(c) /\ SubCache(d, c) => Placed(d)
<1> SUFFICES ASSUME NEW c, NEW d, Placed(c), SubCache(d, c) PROVE Placed(d)
  OBVIOUS
<1> QED BY DEF Placed, SubCache

\* A direct-mapped block that has words of the range begins at most its length before
\* it, where the first loop comes by.
LEMMA DirectCandidate ==
    ASSUME NEW c, Sound(c), Placed(c), NEW s \in ValidIn(c),
           c.slot[s].tag.segment # "mapped", NEW paddr \in Nat, NEW size \in Nat,
           Overlaps(c.slot[s].block, paddr, size)
    PROVE  LET first == FirstCandidate(paddr)
           IN \E k \in 0 .. (paddr + size - first) - 1 : (first + k) % TableSize = s
<1> DEFINE first == FirstCandidate(paddr)
           w == c.slot[s].tag.word
           len == Len(c.slot[s].block.insns)
           k == w - first
<1>1. /\ w \in Nat /\ c.slot[s].block.paddr = w /\ w % TableSize = s
      /\ len <= MaxBlockInsns + 1
  BY CacheSizes DEF Placed, Addresses, SlotOf
<1>2. len \in Nat
  <2>1. c.slot[s].block.insns \in Seq(Kinds)
    BY DEF ValidIn, Sound, CacheType, SlotType
  <2> QED BY <2>1
<1>3. paddr < w + len /\ paddr + size > w
  BY <1>1 DEF Overlaps
<1> HIDE DEF w, len
<1>4. first \in Nat /\ first <= w /\ first <= paddr
  BY <1>1, <1>2, <1>3, CacheSizes DEF FirstCandidate
<1> HIDE DEF first
<1>5. k \in 0 .. (paddr + size - first) - 1 /\ first + k = w
  BY <1>1, <1>3, <1>4
<1> QED BY <1>1, <1>5 DEF first

\* Bus::notify_memory_write: no block that has words of the range stays, and what
\* stays is as it was.
LEMMA NotifiedKeeps ==
    ASSUME NEW c, Sound(c), Placed(c), NEW paddr \in Nat, NEW size \in Nat
    PROVE  LET d == Notified(c, paddr, size)
           IN /\ Sound(d) /\ SubCache(d, c)
              /\ \A s \in ValidIn(d) : ~Overlaps(d.slot[s].block, paddr, size)
<1>1. CASE c.count = 0
  <2>1. Notified(c, paddr, size) = c
    BY <1>1 DEF Notified
  <2>2. IsFiniteSet(ValidIn(c)) /\ Cardinality(ValidIn(c)) = 0
    BY <1>1, ValidFinite DEF Sound, Counted
  <2>3. ValidIn(c) = {}
    BY <2>2, FS_EmptySet
  <2> QED BY <2>1, <2>3 DEF SubCache
<1>2. CASE c.count # 0 /\ size >= TableSize
  <2>1. Notified(c, paddr, size) = Cleared
    BY <1>2 DEF Notified, Invalidated
  <2> QED BY <2>1, ClearedKeeps DEF SubCache
<1>3. CASE c.count # 0 /\ ~(size >= TableSize)
  <2> DEFINE e == SweepDirect(c, paddr, size)
             d == SweepAliased(e, paddr, size)
             first == FirstCandidate(paddr)
  <2>1. Notified(c, paddr, size) = d
    BY <1>3 DEF Notified, Invalidated
  <2>2. Swept(e, c, first, paddr + size - first, paddr, size)
    BY SweepDirectKeeps
  <2> HIDE DEF e
  <2>3. Sound(e) /\ SubCache(e, c)
        /\ \A k \in 0 .. (paddr + size - first) - 1 :
              ~Stale(e, (first + k) % TableSize, paddr, size)
    BY <2>2 DEF Swept, Sounds
  <2>4. /\ Sound(d) /\ SubCache(d, e)
        /\ \A s \in ValidIn(d) : d.slot[s].tag.segment = "mapped" =>
               ~Overlaps(d.slot[s].block, paddr, size)
    BY <2>3, SweepAliasedKeeps
  <2> HIDE DEF d
  <2>5. Placed(e) /\ SubCache(d, c)
    BY <2>3, <2>4, SubCachePlaced, SubCacheOfSub
  <2>6. ASSUME NEW s \in ValidIn(d), d.slot[s].tag.segment # "mapped",
               Overlaps(d.slot[s].block, paddr, size)
        PROVE  FALSE
    <3>1. s \in ValidIn(e) /\ e.slot[s].tag.segment # "mapped"
          /\ Overlaps(e.slot[s].block, paddr, size)
      BY <2>4, <2>6 DEF SubCache
    <3>2. PICK k \in 0 .. (paddr + size - first) - 1 : (first + k) % TableSize = s
      BY <2>3, <2>5, <3>1, DirectCandidate
    <3>3. ~Stale(e, s, paddr, size)
      BY <2>3, <3>2
    <3> QED BY <3>1, <3>3 DEF Stale
  <2>7. \A s \in ValidIn(d) : ~Overlaps(d.slot[s].block, paddr, size)
    BY <2>4, <2>6
  <2> QED BY <2>1, <2>4, <2>5, <2>7
<1> QED BY <1>1, <1>2, <1>3

-----------------------------------------------------------------------------
(* The block cache: the machine.                                             *)

CacheInv == MachineTyped /\ Sound(cache) /\ Placed(cache)

LEMMA BookkeepingOfSound == Sound(cache) => BookkeepingAgrees
<1>1. Valid = ValidIn(cache)
  BY DEF Valid, ValidIn
<1> QED
  BY <1>1 DEF Sound, BookkeepingAgrees, AliasAgreement, CountAgreement, Counted, Exact, Linked,
              Position

LEMMA InitCache == Init => CacheInv /\ TrackedCoherent
<1> SUFFICES ASSUME Init PROVE CacheInv /\ TrackedCoherent
  OBVIOUS
<1>1. MachineTyped
  BY DEF Init, MachineTyped, Kinds
<1>2. Sound(cache) /\ ValidIn(cache) = {}
  BY ClearedKeeps DEF Init
<1>3. Valid = {}
  BY <1>2 DEF Valid, ValidIn
<1> QED BY <1>1, <1>2, <1>3 DEF CacheInv, Placed, TrackedCoherent

\* A cleared cache is right whatever the machine does.
LEMMA ClearingKeeps ==
    ASSUME cache' = Cleared, MachineTyped'
    PROVE  CacheInv' /\ TrackedCoherent'
<1>1. Sound(cache)' /\ ValidIn(cache)' = {}
  <2>1. Sound(cache') /\ ValidIn(cache') = {}
    BY ClearedKeeps
  <2> QED BY <2>1
<1>2. Valid' = {}
  BY <1>1 DEF Valid, ValidIn
<1>3. Placed(cache)'
  BY <1>1 DEF Placed
<1> QED BY <1>1, <1>2, <1>3 DEF CacheInv, TrackedCoherent

\* Cpu::run compiles: the new block holds what memory holds, the others are as before.
LEMMA RunKeeps ==
    ASSUME CacheInv, NEW v \in Addresses, RunAt(v)
    PROVE  CacheInv' /\ (TrackedCoherent => TrackedCoherent')
<1> DEFINE s == SlotOf(v)
           d == Compiled(cache, v)
<1>1. cache' = d /\ mem' = mem /\ tlb' = tlb /\ Translate(v) # NoPage
  BY DEF RunAt
<1>2. MachineTyped' /\ MachineTyped /\ Sound(cache) /\ Placed(cache)
  BY <1>1 DEF CacheInv, MachineTyped
<1>3. /\ s \in Slots /\ Sound(d)
      /\ ValidIn(d) = ValidIn(cache) \cup {s}
      /\ d.slot[s].tag = v
      /\ d.slot[s].block = [paddr |-> Translate(v), insns |-> Insns(v)]
      /\ \A q \in Slots \ {s} : d.slot[q].tag = cache.slot[q].tag
                                /\ d.slot[q].block = cache.slot[q].block
  BY <1>1, <1>2, CompiledKeeps
<1>4. d.slot[s].block.paddr = Translate(v) /\ d.slot[s].block.insns = Insns(v)
  BY <1>3
<1>5. /\ Len(Insns(v)) <= MaxBlockInsns + 1
      /\ \A i \in 1 .. Len(Insns(v)) : Insns(v)[i] = ReadWord(Translate(After(v, i - 1)))
  BY <1>2, InsnsRead
<1>6. v.segment # "mapped" => Translate(v) = v.word
  BY DEF Translate
<1>7. SlotOf(v) = s
  OBVIOUS
<1> HIDE DEF d, s
<1>8. Placed(d)
  <2> SUFFICES ASSUME NEW q \in ValidIn(d)
               PROVE  LET tag == d.slot[q].tag
                          block == d.slot[q].block
                      IN /\ tag \in Addresses /\ SlotOf(tag) = q
                         /\ Len(block.insns) <= MaxBlockInsns + 1
                         /\ tag.segment # "mapped" => block.paddr = tag.word
    BY DEF Placed
  <2>1. CASE q = s
    BY <1>3, <1>4, <1>5, <1>6, <1>7, <2>1
  <2>2. CASE q # s
    <3>1. q \in ValidIn(cache) /\ q \in Slots \ {s}
      BY <1>3, <2>2 DEF ValidIn
    <3> QED BY <1>2, <1>3, <3>1 DEF Placed
  <2> QED BY <2>1, <2>2
<1>9. CacheInv'
  BY <1>1, <1>2, <1>3, <1>8 DEF CacheInv
<1>10. ASSUME TrackedCoherent PROVE TrackedCoherent'
  <2>1. \A x : Translate(x)' = Translate(x)
    BY <1>1 DEF Translate
  <2>2. \A x : ReadWord(x)' = ReadWord(x)
    BY <1>1 DEF ReadWord
  <2>3. Valid' = ValidIn(d) /\ Valid = ValidIn(cache)
    BY <1>1 DEF Valid, ValidIn
  <2> SUFFICES ASSUME NEW q \in ValidIn(d), NEW i \in 1 .. Len(d.slot[q].block.insns),
                      Tracked(q, i)'
               PROVE  d.slot[q].block.insns[i] = Fetched(q, i)'
    BY <1>1, <2>3 DEF TrackedCoherent
  <2>4. Fetched(q, i)' = ReadWord(Translate(After(d.slot[q].tag, i - 1)))
    BY <1>1 DEF Fetched, ReadWord, Translate
  <2>5. CASE q = s
    BY <1>3, <1>4, <1>5, <2>4, <2>5
  <2>6. CASE q # s
    <3>1. q \in ValidIn(cache) /\ q \in Slots \ {s}
      BY <1>3, <2>6 DEF ValidIn
    <3>2. d.slot[q].tag = cache.slot[q].tag /\ d.slot[q].block = cache.slot[q].block
      BY <1>3, <3>1
    <3>3. Tracked(q, i)
      BY <1>1, <3>2 DEF Tracked, Translate
    <3>4. cache.slot[q].block.insns[i] = Fetched(q, i)
      BY <1>10, <2>3, <3>1, <3>2, <3>3 DEF TrackedCoherent
    <3> QED BY <2>4, <3>2, <3>4 DEF Fetched
  <2> QED BY <2>5, <2>6
<1> QED BY <1>9, <1>10

\* A write below the end of RDRAM changes no word of a block that stays.
LEMMA WriteKeeps ==
    ASSUME CacheInv, NEW paddr \in Nat, NEW size \in Nat, NEW kind \in Kinds,
           Write(paddr, size, kind)
    PROVE  /\ CacheInv'
           /\ TrackedCoherent /\ paddr + size <= RdramWords => TrackedCoherent'
<1> DEFINE d == Notified(cache, paddr, size)
<1>1. /\ cache' = d /\ tlb' = tlb
      /\ mem' = [w \in Words |-> IF \E i \in 0 .. size - 1 : (paddr + i) % RdramWords = w
                                 THEN kind ELSE mem[w]]
  BY DEF Write
<1>2. /\ Sound(d) /\ SubCache(d, cache) /\ Placed(cache)
      /\ \A s \in ValidIn(d) : ~Overlaps(d.slot[s].block, paddr, size)
  BY NotifiedKeeps DEF CacheInv
<1> HIDE DEF d
<1>3. Placed(d)
  BY <1>2, SubCachePlaced
<1>4. MachineTyped'
  BY <1>1 DEF CacheInv, MachineTyped
<1>5. CacheInv'
  BY <1>1, <1>2, <1>3, <1>4 DEF CacheInv
<1>6. ASSUME TrackedCoherent, paddr + size <= RdramWords PROVE TrackedCoherent'
  <2>1. Valid' = ValidIn(d) /\ Valid = ValidIn(cache)
    BY <1>1 DEF Valid, ValidIn
  <2> SUFFICES ASSUME NEW q \in ValidIn(d), NEW i \in 1 .. Len(d.slot[q].block.insns),
                      Tracked(q, i)'
               PROVE  d.slot[q].block.insns[i] = Fetched(q, i)'
    BY <1>1, <2>1 DEF TrackedCoherent
  <2> DEFINE a == Translate(After(d.slot[q].tag, i - 1))
             start == d.slot[q].block.paddr
             len == Len(d.slot[q].block.insns)
  <2>2. /\ d.slot[q].tag = cache.slot[q].tag /\ d.slot[q].block = cache.slot[q].block
        /\ q \in ValidIn(cache)
    BY <1>2 DEF SubCache
  <2>3. a = start + i - 1 /\ a < RdramWords
    BY <1>1 DEF Tracked, Translate
  <2>4. Tracked(q, i)
    BY <2>2, <2>3 DEF Tracked
  <2>5. d.slot[q].block.insns[i] = ReadWord(a)
    BY <1>6, <2>1, <2>2, <2>4 DEF TrackedCoherent, Fetched
  <2>6. Fetched(q, i)' = mem'[a % RdramWords]
    BY <1>1 DEF Fetched, ReadWord, Translate
  <2>7. start \in Nat /\ len \in Nat
    <3>1. d.slot[q].block \in [paddr : Nat, insns : Seq(Kinds)]
      BY <1>2 DEF ValidIn, Sound, CacheType, SlotType
    <3> QED BY <3>1
  <2>8. ~(paddr < start + len /\ paddr + size > start)
    BY <1>2 DEF Overlaps
  <2> HIDE DEF a, start, len
  <2>9. i \in 1 .. len
    BY DEF len
  <2>10. a \in Words /\ a % RdramWords = a
    BY <2>3, <2>7, <2>9, CacheSizes DEF Words
  <2>11. ASSUME NEW j \in 0 .. size - 1 PROVE (paddr + j) % RdramWords # a
    <3>1. paddr + j \in Nat /\ paddr + j < RdramWords
      BY <1>6, CacheSizes
    <3>2. (paddr + j) % RdramWords = paddr + j
      BY <3>1, CacheSizes
    <3>3. paddr + j # a
      BY <2>3, <2>7, <2>8, <2>9
    <3> QED BY <3>2, <3>3
  <2>12. mem'[a] = mem[a]
    BY <1>1, <2>10, <2>11
  <2> QED BY <2>5, <2>6, <2>10, <2>12 DEF ReadWord
<1> QED BY <1>5, <1>6

LEMMA NextCache ==
    ASSUME CacheInv, [Next]_vars
    PROVE  CacheInv' /\ (TrackedCoherent /\ ~WritesWrap => TrackedCoherent')
<1>1. ASSUME NEW v \in Addresses, RunAt(v)
      PROVE  CacheInv' /\ (TrackedCoherent => TrackedCoherent')
  BY <1>1, RunKeeps
<1>2. ASSUME NEW v \in Addresses, NEW size \in {1, 2}, NEW kind \in Kinds,
             CpuStore(v, size, kind)
      PROVE  CacheInv' /\ (TrackedCoherent /\ ~WritesWrap => TrackedCoherent')
  <2>1. Translate(v) \in Nat /\ size \in Nat
    BY <1>2, TranslatesToNat DEF CpuStore, CacheInv
  <2>2. Write(Translate(v), size, kind) /\ (WritesWrap \/ Translate(v) + size <= RdramWords)
    BY <1>2 DEF CpuStore, Reaches
  <2> QED BY <2>1, <2>2, WriteKeeps
<1>3. ASSUME NEW paddr \in Words, NEW size \in DmaSizes, NEW kind \in Kinds,
             Dma(paddr, size, kind)
      PROVE  CacheInv' /\ (TrackedCoherent /\ ~WritesWrap => TrackedCoherent')
  <2>1. paddr \in Nat /\ size \in Nat
    BY CacheSizes DEF Words
  <2>2. Write(paddr, size, kind) /\ (WritesWrap \/ paddr + size <= RdramWords)
    BY <1>3 DEF Dma, Reaches
  <2> QED BY <2>1, <2>2, WriteKeeps
<1>4. ASSUME NEW page \in MappedPages, NEW frame \in PhysicalPages \cup {NoPage},
             TlbWrite(page, frame)
      PROVE  CacheInv' /\ TrackedCoherent'
  <2>1. cache' = Cleared /\ MachineTyped'
    BY <1>4 DEF TlbWrite, CacheInv, MachineTyped
  <2> QED BY <2>1, ClearingKeeps
<1>5. CASE Clear
  <2>1. cache' = Cleared /\ MachineTyped'
    BY <1>5 DEF Clear, CacheInv, MachineTyped
  <2> QED BY <2>1, ClearingKeeps
<1>6. CASE UNCHANGED vars
  <2>1. cache' = cache /\ mem' = mem /\ tlb' = tlb
    BY <1>6 DEF vars
  <2>2. CacheInv'
    BY <2>1 DEF CacheInv, MachineTyped
  <2>3. ASSUME TrackedCoherent PROVE TrackedCoherent'
    <3>1. Valid' = Valid
      BY <2>1 DEF Valid
    <3>2. \A s, i : Tracked(s, i)' = Tracked(s, i) /\ Fetched(s, i)' = Fetched(s, i)
      BY <2>1 DEF Tracked, Fetched, ReadWord, Translate
    <3> QED BY <2>1, <2>3, <3>1, <3>2 DEF TrackedCoherent
  <2> QED BY <2>2, <2>3
<1>7. CASE \E v \in Addresses : RunAt(v)
  BY <1>1, <1>7
<1>8. CASE \E v \in Addresses, size \in {1, 2}, kind \in Kinds : CpuStore(v, size, kind)
  BY <1>2, <1>8
<1>9. CASE \E paddr \in Words, size \in DmaSizes, kind \in Kinds : Dma(paddr, size, kind)
  BY <1>3, <1>9
<1>10. CASE \E page \in MappedPages, frame \in PhysicalPages \cup {NoPage} :
               TlbWrite(page, frame)
  BY <1>4, <1>10
<1> QED BY <1>5, <1>6, <1>7, <1>8, <1>9, <1>10 DEF Next

\* BlockCache: for a table, blocks and transfers of any size, the vector of aliased
\* slots, the positions in the slots and the number of blocks tell the truth of the
\* slots through every compilation, removal and clearing.
THEOREM BookkeepingAgreed == Spec => []BookkeepingAgrees
<1>1. Init => CacheInv
  BY InitCache
<1>2. CacheInv /\ [Next]_vars => CacheInv'
  BY NextCache
<1>3. CacheInv => BookkeepingAgrees
  BY BookkeepingOfSound DEF CacheInv
<1> QED BY <1>1, <1>2, <1>3, PTL DEF Spec

\* BlockCache::invalidate: while no write runs past the end of RDRAM, every instruction
\* of a cached block that invalidate can find is what memory holds under the present
\* mapping; neither loop misses a block.
THEOREM NoStaleCode == ASSUME ~WritesWrap PROVE Spec => []TrackedCoherent
<1>1. Init => CacheInv /\ TrackedCoherent
  BY InitCache
<1>2. CacheInv /\ TrackedCoherent /\ [Next]_vars => CacheInv' /\ TrackedCoherent'
  BY NextCache
<1> QED BY <1>1, <1>2, PTL DEF Spec

=============================================================================
