------------------------- MODULE AddressSpaceProofs -------------------------
(* For any size of the TLB, the segments and the memory, any page sizes and any
   guests: what runs is what is mapped, a refill handler is told the truth and
   repairs what it is told of, wired entries stay, and SC is atomic.

   The argument is about what each step may do to the pair of TLB and ASID, which
   decides every translation (Mapped), and to the mode, which decides who may ask
   for one (Allowed): a step that touches the former empties the cache and forgets
   the fault, and a step that touches the latter ends the running block.     *)
EXTENDS AddressSpace, TLAPS, WellFoundedInduction

-----------------------------------------------------------------------------
(* Numbers.                                                                  *)

\* Every set of naturals has a least element, and Min is it.
LEMMA MinIsLeast ==
    ASSUME NEW S \in SUBSET Nat, S # {}
    PROVE  Min(S) \in S /\ \A y \in S : Min(S) <= y
<1> DEFINE R == {ss \in Nat \X Nat : ss[1] < ss[2]}
<1>1. IsWellFoundedOn(R, Nat)
  BY NatLessThanWellFounded DEF OpToRel
<1>2. \A a, b \in Nat : a < b => <<a, b>> \in R
  OBVIOUS
<1> HIDE DEF R
<1>3. PICK x \in S : \A y \in S : <<y, x>> \notin R
  BY <1>1, WFMin
<1>4. ASSUME NEW y \in S PROVE x <= y
  <2>1. <<y, x>> \notin R
    BY <1>3
  <2>2. x \in Nat /\ y \in Nat
    OBVIOUS
  <2>3. ~(y < x)
    BY <1>2, <2>1, <2>2
  <2> QED BY <2>2, <2>3
<1> QED BY <1>4 DEF Min

\* A number has one quotient.
LEMMA OneQuotient ==
    ASSUME NEW b \in Nat \ {0}, NEW q \in Int, NEW k \in Int,
           b * q < b * k + b, b * k < b * q + b
    PROVE  q = k
<1>1. CASE q < k
  <2>1. b * (k - q) >= b
    BY <1>1
  <2> QED BY <2>1
<1>2. CASE k < q
  <2>1. b * (q - k) >= b
    BY <1>2
  <2> QED BY <2>1
<1> QED BY <1>1, <1>2

\* A page and the even page of its pair lie in the same pair of pages of any size.
LEMMA PairOfPage ==
    ASSUME NEW p \in Nat, NEW s \in Nat \ {0}
    PROVE  (2 * (p \div 2)) \div (2 * s) = p \div (2 * s)
<1> DEFINE m == p \div 2
           b == 2 * s
           q == p \div b
           k == (2 * m) \div b
<1>1. m \in Nat /\ 2 * m <= p /\ p <= 2 * m + 1
  OBVIOUS
<1>2. b \in Nat \ {0} /\ q \in Nat /\ b * q <= p /\ p < b * q + b
  OBVIOUS
<1>3. k \in Nat /\ b * k <= 2 * m /\ 2 * m < b * k + b
  BY <1>1
<1> HIDE DEF m, q, k
<1>4. b * q = 2 * (s * q) /\ b * k = 2 * (s * k)
  BY <1>2, <1>3
<1>5. s * q \in Int /\ s * k \in Int
  BY <1>2, <1>3
<1> HIDE DEF b
<1>6. p < b * k + b
  BY <1>1, <1>2, <1>3, <1>4, <1>5 DEF b
<1>7. q = k
  BY <1>1, <1>2, <1>3, <1>6, OneQuotient
<1> QED BY <1>7 DEF m, b, q, k

-----------------------------------------------------------------------------
(* Translation.                                                              *)

LEMMA PagesAreNaturals == Pages \subseteq Nat /\ VectorPage \in Pages
BY SizesAssumption DEF Pages, VectorPage

LEMMA IndicesAreNaturals == Indices \subseteq Nat /\ ProbeFail \notin Indices /\ 0 \in Indices
BY SizesAssumption DEF Indices, ProbeFail

LEMMA FirstMatch ==
    ASSUME NEW page, Matching(page) # {}
    PROVE  Min(Matching(page)) \in Matching(page) /\ Min(Matching(page)) \in Indices
<1>1. Matching(page) \in SUBSET Nat
  BY IndicesAreNaturals DEF Matching
<1> QED BY <1>1, MinIsLeast DEF Matching

\* A translation that does not fail gives a frame.
LEMMA MappedGives ==
    ASSUME NEW page, NEW is_store, Mapped(page, is_store).fault = None
    PROVE  Mapped(page, is_store) = Gives(Mapped(page, is_store).frame)
<1>1. "TlbMiss" # None /\ "TlbInvalid" # None /\ "TlbModified" # None
  BY SizesAssumption DEF Causes
<1> DEFINE i == Min(Matching(page))
<1> HIDE DEF i
<1>2. Mapped(page, is_store) = ThroughEntry(tlb[i], page, is_store, i)
        => Mapped(page, is_store) = Gives(Mapped(page, is_store).frame)
  BY <1>1 DEF ThroughEntry, Fails, Gives
<1> QED BY <1>1, <1>2 DEF Mapped, Fails, Gives, i

LEMMA TranslateGives ==
    ASSUME NEW page, NEW is_store, Translates(page, is_store)
    PROVE  /\ Allowed(page)
           /\ Mapped(page, is_store) = Translate(page, is_store)
           /\ Mapped(page, is_store) = Gives(Translate(page, is_store).frame)
<1>1. "AddressError" # None
  BY SizesAssumption DEF Causes
<1>2. Allowed(page)
  BY <1>1 DEF Translates, Translate, Fails
<1> QED BY <1>2, MappedGives DEF Translates, Translate

\* The frame is one.
LEMMA FramesOfTranslation ==
    ASSUME TlbType, NEW page \in Pages, NEW is_store, Translates(page, is_store)
    PROVE  Translate(page, is_store).frame \in 0 .. Frames - 1
<1>1. page \in Nat /\ Frames \in Nat \ {0} /\ KUSEG \in Nat
  BY SizesAssumption, PagesAreNaturals
<1>2. \A n \in Int : n % Frames \in 0 .. Frames - 1
  BY <1>1
<1>3. CASE Segment(page) = "KSEG0"
  <2>1. page - KUSEG \in Int
    BY <1>1
  <2>2. Mapped(page, is_store).frame = (page - KUSEG) % Frames
    BY <1>3 DEF Mapped, Gives
  <2>3. Mapped(page, is_store) = Translate(page, is_store)
    BY TranslateGives
  <2> QED BY <1>2, <2>1, <2>2, <2>3
<1>4. CASE Segment(page) # "KSEG0" /\ Matching(page) # {}
  <2> DEFINE i == Min(Matching(page))
             lo == LoOf(tlb[i], page)
             size == tlb[i].lo.size
  <2>1. i \in Indices
    BY <1>4, FirstMatch
  <2>2. tlb[i] \in Entry
    BY <2>1 DEF TlbType
  <2>3. size \in Nat \ {0} /\ lo \in Lo
    BY <2>2, SizesAssumption DEF Entry, PairLo, LoOf
  <2>4. size * (lo.frame \div size) + (page % size) \in Int
    BY <1>1, <2>3 DEF Lo
  <2>5. Mapped(page, is_store) = ThroughEntry(tlb[i], page, is_store, i)
    BY <1>4 DEF Mapped
  <2> DEFINE n == size * (lo.frame \div size) + (page % size)
  <2>6. \/ Mapped(page, is_store) \in {Fails("TlbInvalid", i), Fails("TlbModified", i)}
        \/ Mapped(page, is_store) = Gives(n % Frames)
    BY <2>5 DEF ThroughEntry
  <2>7. Translate(page, is_store).frame = n % Frames
    BY <2>6, TranslateGives, SizesAssumption DEF Gives, Fails, Causes
  <2> HIDE DEF n
  <2> QED BY <1>2, <2>4, <2>7 DEF n
<1>5. Segment(page) = "KSEG0" \/ Matching(page) # {}
  BY TranslateGives, SizesAssumption DEF Mapped, Fails, Gives, Causes
<1> QED BY <1>3, <1>4, <1>5

\* What an entry matches, and what a page maps to, depends on the TLB and the ASID
\* alone.
LEMMA SameMapping ==
    ASSUME tlb' = tlb, entry_hi'.asid = entry_hi.asid, NEW page, NEW is_store
    PROVE  Matching(page)' = Matching(page) /\ Mapped(page, is_store)' = Mapped(page, is_store)
<1>1. \A i \in Indices : Covers(tlb[i], page)' <=> Covers(tlb[i], page)
  BY DEF Covers, Global
<1>2. Matching(page)' = Matching(page)
  BY <1>1 DEF Matching
<1>3. \A i : ThroughEntry(tlb[i], page, is_store, i)' = ThroughEntry(tlb[i], page, is_store, i)
  BY DEF ThroughEntry, LoOf, Fails, Gives
<1> QED BY <1>2, <1>3 DEF Mapped, Segment, Fails, Gives

\* TLBP finds what a translation of a page of EntryHi's pair found.
LEMMA ProbeFindsMatch ==
    ASSUME TlbType, NEW page \in Pages, entry_hi.pair = page \div 2
    PROVE  Probed = Matching(page)
<1>1. ASSUME NEW i \in Indices
      PROVE  /\ (2 * entry_hi.pair) \div (2 * tlb[i].lo.size) = page \div (2 * tlb[i].lo.size)
             /\ tlb[i].hi.asid = entry_hi.asid <=> entry_hi.asid = tlb[i].hi.asid
  <2>1. tlb[i].lo.size \in Nat \ {0} /\ page \in Nat
    BY SizesAssumption, PagesAreNaturals DEF TlbType, Entry, PairLo
  <2> QED BY <2>1, PairOfPage
<1> QED BY <1>1 DEF Probed, Matching, Covers

-----------------------------------------------------------------------------
(* The kinds of steps.                                                       *)

\* The entry that decides the translation of a page.
Decides(page) == IF Matching(page) = {} THEN ProbeFail ELSE Min(Matching(page))

LEMMA DecidesType == ASSUME NEW page PROVE Decides(page) \in Indices \cup {ProbeFail}
BY FirstMatch DEF Decides

LEMMA FailureNamesEntry ==
    ASSUME NEW page, NEW is_store, ~Translates(page, is_store),
           Translate(page, is_store).fault # "AddressError"
    PROVE  Translate(page, is_store).entry = Decides(page)
<1>1. Allowed(page) /\ Translate(page, is_store) = Mapped(page, is_store)
  BY DEF Translate, Fails
<1>2. Segment(page) # "KSEG0"
  BY <1>1 DEF Translates, Mapped, Gives
<1> DEFINE i == Min(Matching(page))
<1> HIDE DEF i
<1>3. ASSUME Matching(page) # {}
      PROVE  Mapped(page, is_store).entry = i
  <2>1. Mapped(page, is_store) = ThroughEntry(tlb[i], page, is_store, i)
    BY <1>2, <1>3 DEF Mapped, i
  <2> QED BY <1>1, <2>1 DEF Translates, ThroughEntry, Fails, Gives
<1>4. CASE Matching(page) = {}
  BY <1>1, <1>2, <1>4 DEF Mapped, Fails, Decides
<1> QED BY <1>1, <1>3, <1>4 DEF Decides, i

ExceptionStep ==
    /\ Tick
    /\ \E is_tlb \in BOOLEAN, page \in Pages : \E entry :
          (is_tlb => entry = Decides(page)) /\ Raise(is_tlb, page, entry)

LEMMA FaultRaises ==
    ASSUME NEW page \in Pages, NEW is_store, ~Translates(page, is_store),
           RaiseFault(Translate(page, is_store), page), Tick
    PROVE  ExceptionStep
<1> DEFINE t == Translate(page, is_store)
<1>1. (t.fault # "AddressError") \in BOOLEAN
  OBVIOUS
<1>2. t.fault # "AddressError" => t.entry = Decides(page)
  BY FailureNamesEntry
<1>3. Raise(t.fault # "AddressError", page, t.entry)
  BY DEF RaiseFault
<1> HIDE DEF t
<1> QED BY <1>1, <1>2, <1>3 DEF ExceptionStep

LEMMA TrapRaises == ASSUME TrapTo, Tick PROVE ExceptionStep
<1>1. 0 \in Pages
  BY SizesAssumption DEF Pages
<1> QED BY <1>1 DEF TrapTo, ExceptionStep

LEMMA GuestPages == CpuType => guest.pages \subseteq Pages /\ guest.his \subseteq Hi
                               /\ guest.los \subseteq PairLo /\ guest.wireds \subseteq Indices
                               /\ guest.statuses \subseteq Status
BY GuestsAssumption DEF CpuType, GuestType

\* The instructions that reach memory.
MemoryStep ==
    \E page \in Pages : Load(page) \/ Store(page) \/ LoadLinked(page) \/ StoreConditional(page)

\* Those that change neither the TLB nor the ASID nor the mode.
PlainStep ==
    \/ \E page \in Pages : WriteEPC(page) \/ WriteErrorEPC(page)
    \/ \E l \in PairLo : WriteEntryLo(l)
    \/ \E i \in Indices : WriteIndex(i)
    \/ \E w \in Indices : WriteWired(w)
    \/ Probe

\* And those that do.
MappingStep ==
    \/ \E h \in Hi : WriteEntryHi(h)
    \/ ReadIndexed
    \/ \E op \in {"tlbwi", "tlbwr"}, i \in Indices : WriteEntry(op, i)

ModeStep == (\E s \in guest.statuses : WriteStatus(s)) \/ Eret

LEMMA StepKinds ==
    ASSUME TlbType, CpuType, [Next]_vars
    PROVE  \/ ExceptionStep \/ EnterBlock \/ (\E page \in guest.pages : Jump(page))
           \/ MemoryStep \/ PlainStep \/ MappingStep \/ ModeStep \/ UNCHANGED vars
<1>1. CASE FetchFaults
  BY <1>1, FaultRaises DEF FetchFaults, CpuType
<1>2. CASE Interrupt \/ Unusable
  BY <1>2, TrapRaises DEF Interrupt, Unusable
<1>3. ASSUME NEW page \in guest.pages, NEW op \in {"load", "store", "ll", "sc"},
             AccessFaults(op, page)
      PROVE  ExceptionStep
  BY <1>3, FaultRaises, GuestPages DEF AccessFaults, Translates
<1>4. ASSUME NEW page \in guest.pages,
             \/ Load(page) \/ Store(page) \/ LoadLinked(page) \/ StoreConditional(page)
      PROVE  MemoryStep
  BY <1>4, GuestPages DEF MemoryStep
<1>5. ASSUME NEW page \in guest.pages, WriteEPC(page) \/ WriteErrorEPC(page)
      PROVE  PlainStep
  BY <1>5, GuestPages DEF PlainStep
<1>6. CASE (\E l \in guest.los : WriteEntryLo(l)) \/ (\E i \in Indices : WriteIndex(i))
           \/ (\E w \in guest.wireds : WriteWired(w)) \/ Probe
  BY <1>6, GuestPages DEF PlainStep
<1>7. CASE (\E h \in guest.his : WriteEntryHi(h)) \/ ReadIndexed
  BY <1>7, GuestPages DEF MappingStep
<1>8. CASE WriteIndexed \/ WriteRandom
  <2>1. (IF index = ProbeFail THEN 0 ELSE index) \in Indices /\ random \in Indices
    BY IndicesAreNaturals DEF TlbType
  <2> QED BY <1>8, <2>1 DEF WriteIndexed, WriteRandom, MappingStep
<1> QED BY <1>1, <1>2, <1>3, <1>4, <1>5, <1>6, <1>7, <1>8 DEF Next, ModeStep

-----------------------------------------------------------------------------
(* Types.                                                                    *)

LEMMA PairOfIsPair == ASSUME NEW page \in Pages PROVE page \div 2 \in Pairs
BY DEF Pairs

LEMMA TickType ==
    ASSUME random \in Indices, wired \in Indices, Tick PROVE random' \in Indices
BY SizesAssumption DEF Tick, AdvanceRandom, Indices

LEMMA FlowType == TlbType => Flow \in Flows
BY DEF TlbType, Hi, Flow, Flows

LEMMA TlbTypeNext == TlbType /\ CpuType /\ [Next]_vars => TlbType'
<1> SUFFICES ASSUME TlbType, CpuType, [Next]_vars PROVE TlbType'
  OBVIOUS
<1>1. CASE ExceptionStep
  <2>1. PICK is_tlb \in BOOLEAN, page \in Pages : \E entry : Raise(is_tlb, page, entry)
    BY <1>1 DEF ExceptionStep
  <2>2. entry_hi' \in Hi
    BY <2>1, PairOfIsPair DEF Raise, Enter, TlbType, Hi
  <2>3. random' \in Indices
    BY <1>1, TickType DEF ExceptionStep, TlbType
  <2> QED BY <2>1, <2>2, <2>3 DEF Raise, Enter, TlbType
<1>2. CASE EnterBlock
  BY <1>2 DEF EnterBlock, cp0, TlbType
<1>3. CASE \E page \in guest.pages : Jump(page)
  BY <1>3, TickType DEF Jump, cp0, TlbType
<1>4. CASE MemoryStep
  BY <1>4, TickType DEF MemoryStep, Load, Store, LoadLinked, StoreConditional, accessed,
                        cp0, TlbType
<1>5. CASE PlainStep
  <2>1. CASE \E page \in Pages : WriteEPC(page) \/ WriteErrorEPC(page)
    BY <2>1, TickType DEF WriteEPC, WriteErrorEPC, cp0, TlbType
  <2>2. CASE \E l \in PairLo : WriteEntryLo(l)
    BY <2>2, TickType DEF WriteEntryLo, TlbType
  <2>3. CASE \E i \in Indices : WriteIndex(i)
    BY <2>3, TickType DEF WriteIndex, TlbType
  <2>4. CASE \E w \in Indices : WriteWired(w)
    <3>1. PICK w \in Indices : WriteWired(w)
      BY <2>4
    <3>2. random' \in Indices
      BY <3>1, SizesAssumption DEF WriteWired, Indices
    <3> QED BY <3>1, <3>2 DEF WriteWired, cp0, TlbType
  <2>5. CASE Probe
    <3>1. Probed \in SUBSET Nat /\ Probed \subseteq Indices
      BY IndicesAreNaturals DEF Probed
    <3>2. index' \in Indices \cup {ProbeFail}
      BY <2>5, <3>1, MinIsLeast DEF Probe
    <3> QED BY <2>5, <3>2, TickType DEF Probe, TlbType
  <2> QED BY <1>5, <2>1, <2>2, <2>3, <2>4, <2>5 DEF PlainStep
<1>6. CASE MappingStep
  <2>1. CASE \E h \in Hi : WriteEntryHi(h)
    BY <2>1, TickType DEF WriteEntryHi, TlbType
  <2>2. CASE ReadIndexed
    <3> DEFINE i == IF index = ProbeFail THEN 0 ELSE index
    <3>1. i \in Indices
      BY IndicesAreNaturals DEF TlbType
    <3>2. tlb[i].hi \in Hi /\ tlb[i].lo \in PairLo
      BY <3>1 DEF TlbType, Entry
    <3> QED BY <2>2, <3>2, TickType DEF ReadIndexed, TlbType
  <2>3. CASE \E op \in {"tlbwi", "tlbwr"}, i \in Indices : WriteEntry(op, i)
    <3>1. PICK op \in {"tlbwi", "tlbwr"}, i \in Indices : WriteEntry(op, i)
      BY <2>3
    <3>2. tlb' \in [Indices -> Entry]
      BY <3>1 DEF WriteEntry, TlbType, Entry
    <3> QED BY <3>1, <3>2, TickType DEF WriteEntry, cp0, TlbType
  <2> QED BY <1>6, <2>1, <2>2, <2>3 DEF MappingStep
<1>7. CASE ModeStep
  BY <1>7, TickType DEF ModeStep, WriteStatus, Eret, cp0, TlbType
<1>8. CASE UNCHANGED vars
  BY <1>8 DEF vars, cp0, TlbType
<1> QED BY <1>1, <1>2, <1>3, <1>4, <1>5, <1>6, <1>7, <1>8, StepKinds

LEMMA GoesToPage == ASSUME CpuType, NEW op, Goes(op) PROVE pc' \in Pages
BY GuestPages DEF Goes, CpuType

LEMMA CpuTypeNext == TlbType /\ CpuType /\ [Next]_vars => CpuType'
<1> SUFFICES ASSUME TlbType, CpuType, [Next]_vars PROVE CpuType'
  OBVIOUS
<1>1. CASE ExceptionStep
  <2>1. PICK is_tlb \in BOOLEAN, page \in Pages : \E entry : Raise(is_tlb, page, entry)
    BY <1>1 DEF ExceptionStep
  <2> QED BY <2>1, PagesAreNaturals DEF Raise, Enter, CpuType
<1>2. CASE EnterBlock
  BY <1>2 DEF EnterBlock, status, reservation, CpuType
<1>3. CASE \E page \in guest.pages : Jump(page)
  BY <1>3, GuestPages DEF Jump, status, reservation, CpuType
<1>4. CASE MemoryStep
  <2>1. PICK page \in Pages : \/ Load(page) \/ Store(page)
                              \/ LoadLinked(page) \/ StoreConditional(page)
    BY <1>4 DEF MemoryStep
  <2>2. CASE Load(page)
    BY <2>2, GoesToPage DEF Load, accessed, status, reservation, CpuType
  <2>3. CASE Store(page)
    BY <2>3, GoesToPage DEF Store, accessed, status, CpuType
  <2>4. CASE LoadLinked(page)
    BY <2>4, GoesToPage, FramesOfTranslation DEF LoadLinked, accessed, status, CpuType
  <2>5. CASE StoreConditional(page)
    BY <2>5, GoesToPage DEF StoreConditional, accessed, status, CpuType
  <2> QED BY <2>1, <2>2, <2>3, <2>4, <2>5
<1>5. CASE PlainStep
  BY <1>5, GoesToPage DEF PlainStep, WriteEPC, WriteErrorEPC, WriteEntryLo, WriteIndex,
                          WriteWired, Probe, others, status, reservation, CpuType
<1>6. CASE MappingStep
  BY <1>6, GoesToPage DEF MappingStep, WriteEntryHi, ReadIndexed, WriteEntry, others, status,
                          reservation, CpuType
<1>7. CASE \E s \in guest.statuses : WriteStatus(s)
  <2>1. PICK s \in Status : WriteStatus(s)
    BY <1>7, GuestPages
  <2> QED BY <2>1, GoesToPage DEF WriteStatus, Status, others, reservation, CpuType
<1>8. CASE Eret
  BY <1>8 DEF Eret, others, CpuType
<1>9. CASE UNCHANGED vars
  BY <1>9 DEF vars, status, reservation, CpuType
<1> QED BY <1>1, <1>2, <1>3, <1>4, <1>5, <1>6, <1>7, <1>8, <1>9, StepKinds DEF ModeStep

LEMMA StoredToType ==
    ASSUME HistoryType, NEW frame, StoredTo(frame)
    PROVE  intact' \in [Flows -> (0 .. Frames - 1) \cup {None}]
BY DEF HistoryType, StoredTo

LEMMA HistoryTypeNext ==
    TlbType /\ CpuType /\ HistoryType /\ [Next]_vars => HistoryType'
<1> SUFFICES ASSUME TlbType, CpuType, HistoryType, [Next]_vars PROVE HistoryType'
  OBVIOUS
<1>1. CASE ExceptionStep
  <2>1. PICK is_tlb \in BOOLEAN, page \in Pages : \E entry :
            (is_tlb => entry = Decides(page)) /\ Raise(is_tlb, page, entry)
    BY <1>1 DEF ExceptionStep
  <2> QED BY <2>1, DecidesType DEF Raise, Enter, HistoryType
<1>2. CASE EnterBlock \/ (\E page \in guest.pages : Jump(page)) \/ UNCHANGED vars
  BY <1>2 DEF EnterBlock, Jump, vars, history, HistoryType
<1>3. CASE MemoryStep
  <2>1. PICK page \in Pages : \/ Load(page) \/ Store(page)
                              \/ LoadLinked(page) \/ StoreConditional(page)
    BY <1>3 DEF MemoryStep
  <2>2. CASE Load(page)
    BY <2>2 DEF Load, accessed, HistoryType
  <2>3. CASE Store(page)
    BY <2>3, StoredToType DEF Store, accessed, HistoryType
  <2>4. CASE LoadLinked(page)
    <3>1. ll_addr' \in 0 .. Frames - 1
      BY <2>4, FramesOfTranslation DEF LoadLinked
    <3>2. intact' \in [Flows -> (0 .. Frames - 1) \cup {None}]
      BY <2>4, <3>1 DEF LoadLinked, HistoryType
    <3> QED BY <2>4, <3>2 DEF LoadLinked, accessed, HistoryType
  <2>5. CASE StoreConditional(page)
    <3>1. intact' \in [Flows -> (0 .. Frames - 1) \cup {None}]
      BY <2>5, StoredToType DEF StoreConditional, HistoryType
    <3>2. last_sc' \in {"none", "good", "lost"}
      BY <2>5 DEF StoreConditional
    <3> QED BY <2>5, <3>1, <3>2 DEF StoreConditional, accessed, HistoryType
  <2> QED BY <2>1, <2>2, <2>3, <2>4, <2>5
<1>4. CASE PlainStep
  BY <1>4 DEF PlainStep, WriteEPC, WriteErrorEPC, WriteEntryLo, WriteIndex, WriteWired,
              Probe, others, history, HistoryType
<1>5. CASE MappingStep
  BY <1>5 DEF MappingStep, WriteEntryHi, ReadIndexed, WriteEntry, others, HistoryType
<1>6. CASE ModeStep
  BY <1>6 DEF ModeStep, WriteStatus, Eret, others, HistoryType
<1> QED BY <1>1, <1>2, <1>3, <1>4, <1>5, <1>6, StepKinds

\* A running block is found at pc.
Running ==
    /\ blocks \subseteq Pages \X (0 .. Frames - 1)
    /\ running # NoBlock => running \in blocks /\ running[1] = pc

\* What an instruction that ends its block, or one that does not, leaves running.
LEMMA GoesOn ==
    ASSUME Running, NEW op, Goes(op)
    PROVE  /\ op \in Ends => running' = NoBlock
           /\ (running' # NoBlock /\ blocks' = blocks)
                 => running' = running /\ running' \in blocks' /\ running'[1] = pc'
BY DEF Goes, Running

LEMMA RunningNext == TlbType /\ CpuType /\ Running /\ [Next]_vars => Running'
<1> SUFFICES ASSUME TlbType, CpuType, Running, [Next]_vars PROVE Running'
  OBVIOUS
<1>1. CASE ExceptionStep
  BY <1>1 DEF ExceptionStep, Raise, Enter, Running
<1>2. CASE EnterBlock
  <2>1. UNCHANGED pc
    BY <1>2 DEF EnterBlock
  <2>2. CASE running' = <<pc, Translate(pc, FALSE).frame>> /\ blocks' = blocks \cup {running'}
             /\ Translates(pc, FALSE)
    <3>1. pc \in Pages /\ Translate(pc, FALSE).frame \in 0 .. Frames - 1
      BY <2>2, FramesOfTranslation DEF CpuType
    <3>2. running' \in Pages \X (0 .. Frames - 1)
      BY <2>2, <3>1
    <3>3. blocks' \subseteq Pages \X (0 .. Frames - 1) /\ running' \in blocks'
      BY <2>2, <3>2 DEF Running
    <3>4. running'[1] = pc'
      BY <2>1, <2>2
    <3> QED BY <3>3, <3>4 DEF Running
  <2>3. CASE \E b \in blocks : b[1] = pc /\ running' = b /\ UNCHANGED blocks
    BY <2>1, <2>3 DEF Running
  <2> QED BY <1>2, <2>2, <2>3 DEF EnterBlock, Translates
<1>3. CASE \E page \in guest.pages : Jump(page)
  BY <1>3 DEF Jump, Running
<1>4. CASE MemoryStep
  BY <1>4, GoesOn DEF MemoryStep, Load, Store, LoadLinked, StoreConditional, accessed, Running
<1>5. CASE PlainStep
  BY <1>5, GoesOn DEF PlainStep, WriteEPC, WriteErrorEPC, WriteEntryLo, WriteIndex, WriteWired,
                      Probe, Running
<1>6. CASE MappingStep
  BY <1>6, GoesOn DEF MappingStep, WriteEntryHi, ReadIndexed, WriteEntry, Ends, Running
<1>7. CASE ModeStep
  BY <1>7, GoesOn DEF ModeStep, WriteStatus, Eret, Ends, Running
<1>8. CASE UNCHANGED vars
  BY <1>8 DEF vars, Running
<1> QED BY <1>1, <1>2, <1>3, <1>4, <1>5, <1>6, <1>7, <1>8, StepKinds

-----------------------------------------------------------------------------
(* Blocks and the mapping.                                                   *)

BlocksMapped == \A b \in blocks : Mapped(b[1], FALSE) = Gives(b[2])

\* Either the mapping is the same, or nothing that depends on it is left.
LEMMA MappingKept ==
    ASSUME TlbType, CpuType, [Next]_vars
    PROVE  \/ tlb' = tlb /\ entry_hi'.asid = entry_hi.asid
           \/ MappingStep /\ blocks' = {} /\ fault' = None
<1>1. CASE ExceptionStep
  BY <1>1 DEF ExceptionStep, Raise, Enter, TlbType, Hi
<1>2. CASE EnterBlock \/ (\E page \in guest.pages : Jump(page)) \/ UNCHANGED vars
  BY <1>2 DEF EnterBlock, Jump, vars, cp0
<1>3. CASE MemoryStep
  BY <1>3 DEF MemoryStep, Load, Store, LoadLinked, StoreConditional, accessed, cp0
<1>4. CASE PlainStep
  BY <1>4 DEF PlainStep, WriteEPC, WriteErrorEPC, WriteEntryLo, WriteIndex, WriteWired,
              Probe, cp0
<1>5. CASE MappingStep
  BY <1>5 DEF MappingStep, WriteEntryHi, ReadIndexed, WriteEntry
<1>6. CASE ModeStep
  BY <1>6 DEF ModeStep, WriteStatus, Eret, cp0
<1> QED BY <1>1, <1>2, <1>3, <1>4, <1>5, <1>6, StepKinds

LEMMA BlocksComeFromRun ==
    ASSUME TlbType, CpuType, [Next]_vars
    PROVE  blocks' \subseteq blocks \/ EnterBlock
<1>1. CASE ExceptionStep \/ (\E page \in guest.pages : Jump(page)) \/ UNCHANGED vars
  BY <1>1 DEF ExceptionStep, Raise, Enter, Jump, vars
<1>2. CASE MemoryStep
  BY <1>2 DEF MemoryStep, Load, Store, LoadLinked, StoreConditional, accessed
<1>3. CASE PlainStep
  BY <1>3 DEF PlainStep, WriteEPC, WriteErrorEPC, WriteEntryLo, WriteIndex, WriteWired, Probe
<1>4. CASE MappingStep
  BY <1>4 DEF MappingStep, WriteEntryHi, ReadIndexed, WriteEntry
<1>5. CASE ModeStep
  BY <1>5 DEF ModeStep, WriteStatus, Eret
<1> QED BY <1>1, <1>2, <1>3, <1>4, <1>5, StepKinds

LEMMA BlocksMappedNext ==
    TlbType /\ CpuType /\ BlocksMapped /\ [Next]_vars => BlocksMapped'
<1> SUFFICES ASSUME TlbType, CpuType, BlocksMapped, [Next]_vars PROVE BlocksMapped'
  OBVIOUS
<1>1. CASE blocks' = {}
  BY <1>1 DEF BlocksMapped
<1>2. ASSUME tlb' = tlb, entry_hi'.asid = entry_hi.asid, NEW b \in blocks'
      PROVE  (Mapped(b[1], FALSE) = Gives(b[2]))'
  <2>1. Mapped(b[1], FALSE)' = Mapped(b[1], FALSE)
    BY <1>2, SameMapping
  <2>2. CASE b \in blocks
    BY <2>1, <2>2 DEF BlocksMapped, Gives
  <2>3. CASE b \notin blocks
    <3>1. b = <<pc, Translate(pc, FALSE).frame>> /\ Translates(pc, FALSE)
      BY <1>2, <2>3, BlocksComeFromRun DEF EnterBlock, Translates
    <3>2. Mapped(b[1], FALSE) = Gives(b[2])
      BY <3>1, TranslateGives
    <3> QED BY <2>1, <3>2 DEF Gives
  <2> QED BY <2>2, <2>3
<1> QED BY <1>1, <1>2, MappingKept DEF BlocksMapped

-----------------------------------------------------------------------------
(* Modes.                                                                    *)

LEMMA KernelMay == ASSUME NEW page PROVE AllowedIn("kernel", page)
BY DEF AllowedIn

LEMMA SameSegmentMay ==
    ASSUME NEW mode, NEW p, NEW q, Segment(p) = Segment(q), AllowedIn(mode, p)
    PROVE  AllowedIn(mode, q)
BY DEF AllowedIn

LEMMA GuestStatusIsKernel ==
    ASSUME CpuType, NEW s \in guest.statuses, WriteStatus(s)
    PROVE  Mode' = "kernel"
<1>1. s.ksu = "kernel" \/ s.exl \/ s.erl
  BY GuestsAssumption DEF CpuType
<1> QED BY <1>1 DEF WriteStatus, Mode, ModeOf

\* What MTC0 to Status leaves is kernel mode, and only exceptions and ERET change
\* the mode otherwise.
LEMMA ModeKept ==
    ASSUME TlbType, CpuType, [Next]_vars
    PROVE  \/ UNCHANGED status
           \/ ExceptionStep /\ Mode' = "kernel"
           \/ Mode = "kernel" /\ Mode' = "kernel" /\ (\E s \in guest.statuses : WriteStatus(s))
           \/ Eret
<1>1. CASE ExceptionStep
  BY <1>1 DEF ExceptionStep, Raise, Enter, Mode, ModeOf
<1>2. CASE EnterBlock \/ (\E page \in guest.pages : Jump(page)) \/ UNCHANGED vars
  BY <1>2 DEF EnterBlock, Jump, vars
<1>3. CASE MemoryStep
  BY <1>3 DEF MemoryStep, Load, Store, LoadLinked, StoreConditional, accessed
<1>4. CASE PlainStep
  BY <1>4 DEF PlainStep, WriteEPC, WriteErrorEPC, WriteEntryLo, WriteIndex, WriteWired, Probe
<1>5. CASE MappingStep
  BY <1>5 DEF MappingStep, WriteEntryHi, ReadIndexed, WriteEntry
<1>6. CASE \E s \in guest.statuses : WriteStatus(s)
  BY <1>6, GuestStatusIsKernel DEF WriteStatus, Privileged
<1> QED BY <1>1, <1>2, <1>3, <1>4, <1>5, <1>6, StepKinds DEF ModeStep

PcMay == Allowed(pc)

\* Where an instruction goes that is no jump.
LEMMA GoesInSegment == ASSUME NEW op, Goes(op) PROVE Segment(pc') = Segment(pc)
BY DEF Goes

LEMMA PcMayNext ==
    ASSUME ~Stray
    PROVE  TlbType /\ CpuType /\ PcMay /\ [Next]_vars => PcMay'
<1> SUFFICES ASSUME TlbType, CpuType, PcMay, [Next]_vars PROVE PcMay'
  OBVIOUS
<1>1. PcMay' <=> AllowedIn(Mode', pc')
  BY DEF PcMay, Allowed, AllowedIn, Segment
<1>2. CASE Mode' = "kernel"
  BY <1>1, <1>2, KernelMay
<1>3. CASE Eret
  <2>1. MayGo(Mode', pc')
    BY <1>3 DEF Eret, Mode
  <2> QED BY <1>1, <2>1 DEF MayGo
<1>4. CASE UNCHANGED status
  <2>1. Mode' = Mode
    BY <1>4 DEF status, Mode
  <2>2. CASE Segment(pc') = Segment(pc)
    BY <1>1, <2>1, <2>2, SameSegmentMay DEF PcMay, Allowed
  <2>3. CASE \E page \in guest.pages : Jump(page)
    BY <1>1, <2>1, <2>3 DEF Jump, MayGo
  <2>4. CASE MemoryStep
    BY <2>2, <2>4, GoesInSegment DEF MemoryStep, Load, Store, LoadLinked, StoreConditional
  <2>5. CASE PlainStep
    BY <2>2, <2>5, GoesInSegment DEF PlainStep, WriteEPC, WriteErrorEPC, WriteEntryLo,
                                     WriteIndex, WriteWired, Probe
  <2>6. CASE MappingStep
    BY <2>2, <2>6, GoesInSegment DEF MappingStep, WriteEntryHi, ReadIndexed, WriteEntry
  <2>7. CASE \E s \in guest.statuses : WriteStatus(s)
    BY <2>2, <2>7, GoesInSegment DEF WriteStatus
  <2>8. CASE EnterBlock \/ UNCHANGED vars
    BY <2>2, <2>8 DEF EnterBlock, vars
  <2>9. CASE ExceptionStep
    BY <1>2, <2>9 DEF ExceptionStep, Raise, Enter, Mode, ModeOf
  <2> QED BY <1>3, <2>3, <2>4, <2>5, <2>6, <2>7, <2>8, <2>9, StepKinds DEF ModeStep
<1> QED BY <1>2, <1>3, <1>4, ModeKept

-----------------------------------------------------------------------------
(* Random and Wired.                                                         *)

LEMMA TickSpares ==
    ASSUME TlbType, RandomSparesWired, Tick
    PROVE  random' \in wired .. Entries - 1
BY SizesAssumption DEF TlbType, RandomSparesWired, Tick, AdvanceRandom, Indices

LEMMA RandomNext ==
    TlbType /\ CpuType /\ RandomSparesWired /\ [Next]_vars => RandomSparesWired'
<1> SUFFICES ASSUME TlbType, CpuType, RandomSparesWired, [Next]_vars
             PROVE  RandomSparesWired'
  OBVIOUS
<1>1. CASE Tick /\ UNCHANGED wired
  BY <1>1, TickSpares DEF RandomSparesWired
<1>2. CASE UNCHANGED <<random, wired>>
  BY <1>2 DEF RandomSparesWired
<1>3. CASE \E w \in Indices : WriteWired(w)
  BY <1>3, SizesAssumption DEF WriteWired, RandomSparesWired, Indices
<1>4. CASE ExceptionStep
  BY <1>1, <1>4 DEF ExceptionStep, Raise, Enter
<1>5. CASE EnterBlock \/ UNCHANGED vars
  BY <1>2, <1>5 DEF EnterBlock, vars
<1>6. CASE \E page \in guest.pages : Jump(page)
  BY <1>1, <1>6 DEF Jump
<1>7. CASE MemoryStep
  BY <1>1, <1>7 DEF MemoryStep, Load, Store, LoadLinked, StoreConditional, accessed
<1>8. CASE PlainStep
  BY <1>1, <1>3, <1>8 DEF PlainStep, WriteEPC, WriteErrorEPC, WriteEntryLo, WriteIndex, Probe
<1>9. CASE MappingStep
  BY <1>1, <1>9 DEF MappingStep, WriteEntryHi, ReadIndexed, WriteEntry
<1>10. CASE ModeStep
  BY <1>1, <1>10 DEF ModeStep, WriteStatus, Eret
<1> QED BY <1>4, <1>5, <1>6, <1>7, <1>8, <1>9, <1>10, StepKinds

-----------------------------------------------------------------------------
(* The reservation.                                                          *)

\* While the bit is set it is the running program's, and nobody stored to it.
Reservation == ll_bit => intact[Flow] = ll_addr

LEMMA FlowKept ==
    ASSUME UNCHANGED <<status, entry_hi>> \/ (Mode = "kernel" /\ Mode' = "kernel")
    PROVE  Flow' = Flow
BY DEF Flow, Mode, status

LEMMA ReservationNext ==
    /\ TlbType /\ CpuType /\ HistoryType
    /\ Reservation /\ ScAtomic /\ [Next]_vars
    => Reservation' /\ ScAtomic'
<1> SUFFICES ASSUME TlbType, CpuType, HistoryType, Reservation, ScAtomic, [Next]_vars
             PROVE  Reservation' /\ ScAtomic'
  OBVIOUS
<1>1. CASE ll_bit' = FALSE /\ UNCHANGED last_sc
  BY <1>1 DEF Reservation, ScAtomic
<1>2. CASE UNCHANGED <<ll_bit, ll_addr, intact, last_sc>> /\ Flow' = Flow
  BY <1>2 DEF Reservation, ScAtomic
<1>3. CASE ExceptionStep \/ Eret
  BY <1>1, <1>3 DEF ExceptionStep, Raise, Enter, Eret, others
<1>4. CASE EnterBlock \/ (\E page \in guest.pages : Jump(page)) \/ UNCHANGED vars
  BY <1>2, <1>4, FlowKept DEF EnterBlock, Jump, vars, cp0, reservation, history
<1>5. CASE MemoryStep
  <2>1. PICK page \in Pages : \/ Load(page) \/ Store(page)
                              \/ LoadLinked(page) \/ StoreConditional(page)
    BY <1>5 DEF MemoryStep
  <2>2. Flow' = Flow
    BY <2>1, FlowKept DEF Load, Store, LoadLinked, StoreConditional, accessed, cp0
  <2>3. CASE Load(page)
    BY <1>2, <2>2, <2>3 DEF Load, reservation
  <2>4. CASE Store(page)
    BY <1>1, <2>4 DEF Store
  <2>5. CASE LoadLinked(page)
    <3>1. intact'[Flow] = ll_addr'
      BY <2>5, FlowType DEF LoadLinked, HistoryType
    <3> QED BY <2>2, <2>5, <3>1 DEF LoadLinked, Reservation, ScAtomic
  <2>6. CASE StoreConditional(page)
    BY <2>6 DEF StoreConditional, Reserved, Reservation, ScAtomic
  <2> QED BY <2>1, <2>3, <2>4, <2>5, <2>6
<1>6. CASE PlainStep
  BY <1>2, <1>6, FlowKept DEF PlainStep, WriteEPC, WriteErrorEPC, WriteEntryLo, WriteIndex,
                              WriteWired, Probe, others, cp0, reservation, history
<1>7. CASE MappingStep
  <2>1. Mode = "kernel" /\ UNCHANGED status
    BY <1>7 DEF MappingStep, WriteEntryHi, ReadIndexed, WriteEntry, Privileged
  <2>2. Flow' = Flow
    BY <2>1, FlowKept DEF status, Mode
  <2> QED BY <1>2, <1>7, <2>2
             DEF MappingStep, WriteEntryHi, ReadIndexed, WriteEntry, others, reservation
<1>8. CASE \E s \in guest.statuses : WriteStatus(s)
  <2>1. Flow' = Flow
    BY <1>8, GuestStatusIsKernel, FlowKept DEF WriteStatus, Privileged
  <2> QED BY <1>2, <1>8, <2>1 DEF WriteStatus, others, reservation
<1> QED BY <1>3, <1>4, <1>5, <1>6, <1>7, <1>8, StepKinds DEF ModeStep

-----------------------------------------------------------------------------
(* What a refill handler is told.                                            *)

FaultTold ==
    fault # None =>
        entry_hi.pair = fault.page \div 2 /\ fault.entry = Decides(fault.page)

LEMMA FaultKept ==
    ASSUME TlbType, CpuType, [Next]_vars
    PROVE  ExceptionStep \/ fault' = None \/ UNCHANGED <<fault, tlb, entry_hi>>
<1>1. CASE EnterBlock \/ (\E page \in guest.pages : Jump(page)) \/ UNCHANGED vars
  BY <1>1 DEF EnterBlock, Jump, vars, cp0, history
<1>2. CASE MemoryStep
  BY <1>2 DEF MemoryStep, Load, Store, LoadLinked, StoreConditional, accessed, cp0
<1>3. CASE PlainStep
  BY <1>3 DEF PlainStep, WriteEPC, WriteErrorEPC, WriteEntryLo, WriteIndex, WriteWired,
              Probe, cp0, history
<1>4. CASE MappingStep
  BY <1>4 DEF MappingStep, WriteEntryHi, ReadIndexed, WriteEntry
<1>5. CASE ModeStep
  BY <1>5 DEF ModeStep, WriteStatus, Eret, cp0
<1> QED BY <1>1, <1>2, <1>3, <1>4, <1>5, StepKinds

LEMMA FaultToldNext ==
    TlbType /\ CpuType /\ FaultTold /\ [Next]_vars => FaultTold'
<1> SUFFICES ASSUME TlbType, CpuType, FaultTold, [Next]_vars PROVE FaultTold'
  OBVIOUS
<1>1. ASSUME tlb' = tlb, entry_hi'.asid = entry_hi.asid, NEW page
      PROVE  Decides(page)' = Decides(page)
  BY <1>1, SameMapping DEF Decides
<1>2. CASE UNCHANGED <<fault, tlb, entry_hi>>
  <2>1. Decides(fault.page)' = Decides(fault.page)
    <3>1. ASSUME NEW page PROVE Decides(page)' = Decides(page)
      BY <1>1, <1>2
    <3> QED BY <1>2, <3>1 DEF Decides, Matching
  <2> QED BY <1>2, <2>1 DEF FaultTold
<1>3. CASE ExceptionStep
  <2>1. PICK is_tlb \in BOOLEAN, page \in Pages : \E entry :
            (is_tlb => entry = Decides(page)) /\ Raise(is_tlb, page, entry)
    BY <1>3 DEF ExceptionStep
  <2>2. tlb' = tlb /\ entry_hi'.asid = entry_hi.asid
    BY <2>1 DEF Raise, Enter, TlbType, Hi
  <2>3. CASE is_tlb
    <3>1. fault' = [page |-> page, entry |-> Decides(page)]
      BY <2>1, <2>3 DEF Raise, Enter
    <3>2. entry_hi'.pair = page \div 2
      BY <2>1, <2>3 DEF Raise, Enter, TlbType, Hi
    <3>3. Decides(page)' = Decides(page)
      BY <1>1, <2>2
    <3> QED BY <3>1, <3>2, <3>3 DEF FaultTold
  <2>4. CASE ~is_tlb
    BY <1>2, <2>1, <2>4 DEF Raise, Enter
  <2> QED BY <2>3, <2>4
<1>4. CASE fault' = None
  BY <1>4 DEF FaultTold
<1> QED BY <1>2, <1>3, <1>4, FaultKept

-----------------------------------------------------------------------------
(* The theorems.                                                             *)

IInv ==
    /\ TypeOK
    /\ BlocksMapped
    /\ RandomSparesWired
    /\ Reservation /\ ScAtomic
    /\ FaultTold

LEMMA InitTypes == Init => TypeOK
<1> SUFFICES ASSUME Init PROVE TypeOK
  OBVIOUS
<1>1. 0 \in Pages /\ 0 \in Pairs /\ VectorPage \in Pages
  <2>1. 0 \in Pages
    BY SizesAssumption DEF Pages
  <2> QED BY <2>1, PagesAreNaturals DEF Pairs
<1>2. Zero.hi \in Hi
  BY <1>1, SizesAssumption DEF Zero, Hi
<1>3. Zero.lo \in PairLo
  BY SizesAssumption DEF Zero, PairLo, Lo
<1>4. Zero \in Entry
  BY <1>2, <1>3 DEF Zero, Entry
<1>5. TlbType
  BY <1>2, <1>3, <1>4, SizesAssumption DEF Init, TlbType, Indices
<1>6. CpuType
  <2>1. guest \in Guests /\ ksu \in Modes /\ exl \in BOOLEAN /\ erl \in BOOLEAN
    BY DEF Init, Modes
  <2>2. pc \in Pages /\ epc \in Pages /\ error_epc \in Pages
    BY <1>1 DEF Init
  <2>3. ll_bit \in BOOLEAN /\ ll_addr = 0
    BY DEF Init
  <2>4. 0 \in 0 .. Frames - 1
    BY SizesAssumption
  <2> QED BY <2>1, <2>2, <2>3, <2>4 DEF CpuType
<1>7. HistoryType
  BY DEF Init, HistoryType
<1> QED BY <1>5, <1>6, <1>7 DEF Init, TypeOK

LEMMA InitInv == Init => IInv
<1> SUFFICES ASSUME Init PROVE IInv
  OBVIOUS
<1>1. BlocksMapped /\ Reservation /\ ScAtomic /\ FaultTold
  BY DEF Init, BlocksMapped, Reservation, ScAtomic, FaultTold
<1>2. RandomSparesWired
  BY SizesAssumption DEF Init, RandomSparesWired
<1> QED BY <1>1, <1>2, InitTypes DEF IInv

LEMMA NextInv == IInv /\ [Next]_vars => IInv'
<1>1. TypeOK <=> TlbType /\ CpuType /\ HistoryType /\ Running
  BY DEF TypeOK, Running
<1>2. TypeOK' <=> TlbType' /\ CpuType' /\ HistoryType' /\ Running'
  BY DEF TypeOK, Running
<1> QED BY <1>1, <1>2, TlbTypeNext, CpuTypeNext, HistoryTypeNext, RunningNext, BlocksMappedNext,
           RandomNext, ReservationNext, FaultToldNext DEF IInv

LEMMA Invariant == Spec => []IInv
BY InitInv, NextInv, PTL DEF Spec

\* TLB, Status, the reservation and the cache keep their types, and a running block
\* is one that lookup finds at pc (cpu.cpp).
THEOREM TypeCorrect == Spec => []TypeOK
<1>1. IInv => TypeOK
  BY DEF IInv
<1> QED BY Invariant, <1>1, PTL

\* TLBWR never replaces a wired entry (advance_count).
THEOREM WiredEntriesStay == Spec => []RandomSparesWired
<1>1. IInv => RandomSparesWired
  BY DEF IInv
<1> QED BY Invariant, <1>1, PTL

\* SC stores only over what the same program's LL read (exec_ll, exec_sc, the
\* stores, raise_exception and do_eret).
THEOREM ConditionalStoresAreAtomic == Spec => []ScAtomic
<1>1. IInv => ScAtomic
  BY DEF IInv
<1> QED BY Invariant, <1>1, PTL

\* If no program goes where its mode may not, execute_block executes what step
\* would fetch.
THEOREM BlocksRunAsMapped ==
    ASSUME ~Stray
    PROVE  Spec => []RunsWhatIsMapped
<1>1. Init => PcMay
  <2>1. ASSUME Init PROVE Mode = "kernel"
    BY <2>1 DEF Init, Mode, ModeOf
  <2> QED BY <2>1, KernelMay DEF PcMay, Allowed
<1>2. IInv /\ PcMay /\ [Next]_vars => PcMay'
  BY PcMayNext DEF IInv, TypeOK
<1>3. IInv /\ PcMay => RunsWhatIsMapped
  BY DEF IInv, TypeOK, BlocksMapped, PcMay, RunsWhatIsMapped, Translate
<1> QED BY Invariant, <1>1, <1>2, <1>3, PTL DEF Spec

\* TLBP in a refill handler finds the entry that refused the access, or that there
\* is none (translate_address, raise_exception and tlb_probe).
THEOREM ProbeFindsFault == Spec => ProbeNamesTheFault
<1>1. ASSUME IInv, Probe, fault # None PROVE index' = fault.entry
  <2>1. fault.page \in Pages
    BY <1>1 DEF IInv, TypeOK, HistoryType
  <2>2. Probed = Matching(fault.page)
    BY <1>1, <2>1, ProbeFindsMatch DEF IInv, TypeOK, FaultTold
  <2> QED BY <1>1, <2>2 DEF Probe, IInv, FaultTold, Decides
<1>2. IInv => [(Probe /\ fault # None) => index' = fault.entry]_vars
  BY <1>1
<1> QED BY Invariant, <1>2, PTL DEF ProbeNamesTheFault

\* A refill handler that writes a valid entry where the fault was decided, or
\* anywhere after a miss, lets the access through (tlb_write_indexed, tlb_write_random,
\* raise_exception and translate_address): the entry covers the address, is the
\* first to match, and its valid half is the one looked at.
THEOREM RefillsRepair == Spec => WriteRepairs
<1> DEFINE written == [hi |-> entry_hi, lo |-> entry_lo]
<1> DEFINE Repairs(p) ==
        /\ fault # None /\ fault.page = p
        /\ LoOf(written, p).valid
        /\ \/ WriteRandom /\ fault.entry = ProbeFail
           \/ WriteIndexed /\ fault.entry \in {index, ProbeFail}
<1>1. ASSUME IInv, NEW p \in Pages, Repairs(p) PROVE Translates(p, FALSE)'
  <2>1. PICK i \in Indices : /\ tlb' = [tlb EXCEPT ![i] = written]
                            /\ UNCHANGED <<cp0, status>> /\ Mode = "kernel"
                            /\ fault.entry \in {i, ProbeFail}
    <3>1. index \in Indices \cup {ProbeFail} /\ random \in Indices /\ 0 \in Indices
      BY <1>1, IndicesAreNaturals DEF IInv, TypeOK, TlbType
    <3>2. CASE WriteRandom /\ fault.entry = ProbeFail
      BY <3>1, <3>2 DEF WriteRandom, WriteEntry, Privileged
    <3>3. CASE WriteIndexed /\ fault.entry \in {index, ProbeFail}
      <4> DEFINE at == IF index = ProbeFail THEN 0 ELSE index
      <4>1. at \in Indices /\ fault.entry \in {at, ProbeFail}
        BY <3>1, <3>3
      <4>2. WriteEntry("tlbwi", at)
        BY <3>3 DEF WriteIndexed
      <4> HIDE DEF at
      <4> QED BY <4>1, <4>2 DEF WriteEntry, Privileged
    <3> QED BY <1>1, <3>2, <3>3
  <2>2. /\ entry_hi' = entry_hi /\ tlb \in [Indices -> Entry] /\ tlb'[i] = written
        /\ \A j \in Indices \ {i} : tlb'[j] = tlb[j]
    BY <1>1, <2>1 DEF cp0, IInv, TypeOK, TlbType
  <2>3. entry_hi.pair = p \div 2 /\ fault.entry = Decides(p)
    BY <1>1 DEF IInv, FaultTold
  <2>4. i \in Matching(p)'
    <3>1. entry_lo.size \in Nat \ {0} /\ p \in Nat
      BY <1>1, SizesAssumption, PagesAreNaturals DEF IInv, TypeOK, TlbType, PairLo
    <3>2. p \div (2 * entry_lo.size) = (2 * entry_hi.pair) \div (2 * entry_lo.size)
      BY <2>3, <3>1, PairOfPage
    <3>3. Covers(tlb[i], p)'
      BY <2>2, <3>2 DEF Covers
    <3> QED BY <3>3 DEF Matching, Indices
  <2>5. Matching(p)' \subseteq Matching(p) \cup {i}
    BY <2>2 DEF Matching, Covers, Global, Indices
  <2>6. \A j \in Matching(p) : i <= j
    <3>1. CASE Matching(p) = {}
      BY <3>1
    <3>2. CASE Matching(p) # {}
      <4>1. Min(Matching(p)) \in Indices /\ Matching(p) \in SUBSET Nat
        BY <3>2, FirstMatch, IndicesAreNaturals DEF Matching
      <4>2. Min(Matching(p)) = i
        BY <2>1, <2>3, <3>2, <4>1, IndicesAreNaturals DEF Decides
      <4> QED BY <3>2, <4>1, <4>2, MinIsLeast
    <3> QED BY <3>1, <3>2
  <2>7. Min(Matching(p)') = i
    <3> DEFINE now == Matching(p)'
               m == Min(now)
    <3>1. now \in SUBSET Nat /\ i \in now /\ i \in Nat
      BY <2>4, IndicesAreNaturals DEF Matching, Indices
    <3>2. \A j \in now : i <= j
      BY <2>5, <2>6, <3>1
    <3> HIDE DEF now
    <3>3. m \in now /\ m <= i
      BY <3>1, MinIsLeast
    <3>4. i <= m /\ m \in Nat
      BY <3>1, <3>2, <3>3
    <3> HIDE DEF m
    <3>5. m = i
      BY <3>1, <3>3, <3>4
    <3> QED BY <3>5 DEF m, now
  <2>8. Mode' = "kernel"
    BY <2>1 DEF Mode, ModeOf, status
  <2>9. ThroughEntry(written, p, FALSE, i).fault = None
    BY <1>1 DEF ThroughEntry, Gives
  <2>10. ThroughEntry(tlb[i], p, FALSE, i)' = ThroughEntry(written, p, FALSE, i)
    BY <2>2 DEF ThroughEntry, LoOf, Fails, Gives
  <2>11. Matching(p)' # {}
    BY <2>4
  <2>12. Mapped(p, FALSE)'.fault = None
    BY <2>7, <2>9, <2>10, <2>11 DEF Mapped, Gives
  <2> QED BY <2>8, <2>12, KernelMay DEF Translates, Translate, Allowed
<1>2. IInv => [\A p \in Pages : Repairs(p) => Translates(p, FALSE)']_vars
  BY <1>1
<1> QED BY Invariant, <1>2, PTL DEF WriteRepairs

=============================================================================
