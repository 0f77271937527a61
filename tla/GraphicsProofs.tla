--------------------------- MODULE GraphicsProofs ---------------------------
(* That the RSP runs its program in order, whatever the CPU does to it, and that
   the display processor runs whole lists, draws where it may and fills as asked,
   for every program, every list and memories of every size.                 *)
EXTENDS GraphicsTask, SequenceTheorems, TLAPS

-----------------------------------------------------------------------------
(* The RSP.                                                                  *)

Words == 0 .. ImemWords - 1

\* A branch that is pending has left the RSP at an instruction that is neither a
\* branch nor BREAK: halting it there and resuming it changes nothing.
RspInv ==
    /\ guest \in Guests /\ pc \in Words
    /\ \E program \in Range(guest.programs) : imem = Image(program)
    /\ branch_pending \in BOOLEAN
    /\ branch_pending => /\ next_pc \in Words
                         /\ imem[pc].op \notin Branches \cup {"break"}

LEMMA Wrapped == \A a \in Nat : Wrap(a) \in Words
    BY ProgramsAssumption DEF Wrap, Words

\* What is known of the instruction at pc.
LEMMA AtPc ==
    ASSUME RspInv
    PROVE  /\ imem[pc].op \notin {"branch", "likely"}
           /\ imem[pc].op \in Branches => /\ imem[pc].to \in Words
                                          /\ imem[Wrap(pc + 1)].op \notin Branches \cup {"break"}
    BY ProgramsAssumption DEF RspInv, Words

LEMMA InitRsp == Init => RspInv
<1> SUFFICES ASSUME Init PROVE RspInv
    OBVIOUS
<1>1. guest \in Guests /\ imem = Image(guest.programs[1]) /\ pc = 0 /\ branch_pending = FALSE
    BY DEF Init
<1>2. guest.programs[1] \in Range(guest.programs)
    BY <1>1, ProgramsAssumption DEF Range
<1>3. 0 \in Words
    BY ProgramsAssumption DEF Words
<1> QED
    BY <1>1, <1>2, <1>3 DEF RspInv

\* Rsp::step: it completes the instruction in the order of the architecture, or
\* stops where it is.
LEMMA RspSteps ==
    ASSUME RspInv, RspStep
    PROVE  /\ RspInv'
           /\ IF halted' THEN UNCHANGED <<pc, Target>> ELSE Flow!Complete
<1> DEFINE insn == imem[pc]
<1>1. PICK outcome \in Outcomes(insn) : Advance(insn, outcome[1], outcome[2])
    BY DEF RspStep
<1>2. halted' = Stops(insn) /\ guest' = guest /\ imem' = imem
    BY DEF RspStep
<1>3. /\ pc \in Words /\ Wrap(pc + 1) \in Words /\ branch_pending \in BOOLEAN
      /\ guest \in Guests /\ \E program \in Range(guest.programs) : imem = Image(program)
      /\ branch_pending => next_pc \in Words /\ insn.op \notin Branches \cup {"break"}
    BY Wrapped DEF RspInv, Words
<1>4. /\ insn.op \notin {"branch", "likely"}
      /\ insn.op \in Branches => /\ insn.to \in Words
                                 /\ imem[Wrap(pc + 1)].op \notin Branches \cup {"break"}
    BY AtPc
<1>5. \A a \in Words : a # NoTarget /\ Following(a) = Wrap(a + 1)
    BY TargetAssumption DEF Words, Following
<1> HIDE DEF insn
<1>6. \/ insn.op \in Branches /\ outcome = <<insn.to, TRUE>>
      \/ insn.op # "jump" /\ outcome = <<IF branch_pending THEN next_pc ELSE Wrap(pc + 1),
                                         branch_pending>>
    BY DEF Outcomes, Branches
<1>7. CASE Stops(insn)
    <2>1. /\ pc' = pc /\ next_pc' = outcome[1]
          /\ branch_pending' = (outcome[2] /\ insn.op # "break")
        BY <1>1, <1>7 DEF Advance
    <2>2. outcome = <<IF branch_pending THEN next_pc ELSE Wrap(pc + 1), branch_pending>>
        BY <1>6, <1>7 DEF Stops, Branches
    <2>3. branch_pending' = branch_pending /\ (branch_pending => next_pc' = next_pc)
        BY <1>3, <2>1, <2>2
    <2> QED
        BY <1>2, <1>3, <1>7, <2>1, <2>3 DEF RspInv, Target, insn
<1>8. CASE ~Stops(insn) /\ branch_pending
    <2>1. outcome = <<next_pc, TRUE>>
        BY <1>3, <1>6, <1>8
    <2>2. pc' = next_pc /\ branch_pending' = FALSE
        BY <1>1, <1>8, <2>1 DEF Advance
    <2>3. Target = next_pc /\ Target' = NoTarget
        BY <1>8, <2>2 DEF Target
    <2>4. Flow!Complete
        BY <1>3, <1>5, <1>8, <2>2, <2>3 DEF Flow!Complete
    <2> QED
        BY <1>2, <1>3, <1>8, <2>2, <2>4 DEF RspInv
<1>9. CASE ~Stops(insn) /\ ~branch_pending /\ insn.op \in Branches /\ outcome = <<insn.to, TRUE>>
    <2>1. pc' = Wrap(pc + 1) /\ next_pc' = insn.to /\ branch_pending' = TRUE
        BY <1>1, <1>9 DEF Advance
    <2>2. Target = NoTarget /\ Target' = insn.to
        BY <1>9, <2>1 DEF Target
    <2>3. <<pc', Target'>> = <<Following(pc), insn.to>>
        BY <1>3, <1>5, <2>1, <2>2
    <2>4. insn.op = "jump" \/ insn.op = "conditional"
        BY <1>9 DEF Branches
    <2>5. <<pc', Target'>> \in Flow!Successors(insn)
        BY <2>3, <2>4 DEF Flow!Successors
    <2>6. Flow!Complete
        BY <2>2, <2>5 DEF Flow!Complete, insn
    <2> QED
        BY <1>2, <1>3, <1>4, <1>9, <2>1, <2>6 DEF RspInv
<1>10. CASE ~Stops(insn) /\ ~branch_pending /\ insn.op # "jump" /\ outcome = <<Wrap(pc + 1), FALSE>>
    <2>1. pc' = Wrap(pc + 1) /\ branch_pending' = FALSE
        BY <1>1, <1>10 DEF Advance
    <2>2. Target = NoTarget /\ Target' = NoTarget
        BY <1>10, <2>1 DEF Target
    <2>3. <<pc', Target'>> = <<Following(pc), NoTarget>>
        BY <1>3, <1>5, <2>1, <2>2
    <2>4. <<pc', Target'>> \in Flow!Successors(insn)
        BY <1>4, <1>10, <2>3 DEF Flow!Successors
    <2>5. Flow!Complete
        BY <2>2, <2>4 DEF Flow!Complete, insn
    <2> QED
        BY <1>2, <1>3, <1>10, <2>1, <2>5 DEF RspInv
<1> QED
    BY <1>3, <1>6, <1>7, <1>8, <1>9, <1>10

\* What the CPU and the lists do to the RSP.
LEMMA OthersSpareRsp ==
    ASSUME RspInv, [Next]_vars, ~RspStep
    PROVE  RspInv' /\ (WritePc \/ UNCHANGED <<pc, Target>>)
<1>1. WritePc => RspInv'
    <2>1. 0 \in Words
        BY ProgramsAssumption DEF Words
    <2>2. WritePc => guest' = guest /\ imem' = imem /\ pc' = 0 /\ branch_pending' = FALSE
        BY DEF WritePc
    <2> QED
        BY <2>1, <2>2 DEF RspInv
<1>2. ASSUME NEW program \in Range(guest.programs), LoadImem(program)
      PROVE  RspInv' /\ UNCHANGED <<pc, Target>>
    BY <1>2 DEF LoadImem, RspInv, Target
<1> DEFINE Spared == /\ guest' = guest /\ imem' = imem /\ pc' = pc
                     /\ next_pc' = next_pc /\ branch_pending' = branch_pending
<1>3. Spared => RspInv' /\ UNCHANGED <<pc, Target>>
    BY DEF RspInv, Target
<1>4. RunCommand \/ EndList => Spared
    BY DEF RunCommand, EndList, rsp
<1>5. SetHalt \/ ClearHalt => Spared
    BY DEF SetHalt, ClearHalt
<1>6. \A commands \in guest.lists : PutList(commands) => Spared
    BY DEF PutList, rsp
<1>7. CpuStart \/ CpuEnd => Spared
    BY DEF CpuStart, CpuEnd, rsp
<1>8. \A clear \in SUBSET {"freeze", "xbus"}, set \in SUBSET {"freeze", "flush"} :
         CpuDpStatus(clear, set) => Spared
    BY DEF CpuDpStatus, rsp
<1>9. UNCHANGED vars => Spared
    BY DEF vars, rsp
<1> HIDE DEF Spared
<1>10. WritePc \/ Spared \/ \E program \in Range(guest.programs) : LoadImem(program)
    BY <1>4, <1>5, <1>6, <1>7, <1>8, <1>9 DEF Next
<1> QED
    BY <1>1, <1>2, <1>3, <1>10

\* Rsp::step with SP_STATUS and SP_PC: for every program without a branch or BREAK in
\* a delay slot, a branch is followed by its delay slot and that by its target, round
\* the end of IMEM too, through halts and resumes at any instruction.
THEOREM RspRunsInOrder == Spec => RspFollowsProgram
<1>1. Init => RspInv
    BY InitRsp
<1>2. RspInv /\ [Next]_vars
          => /\ RspInv'
             /\ [IF RspStep /\ ~halted' THEN Flow!Complete
                 ELSE WritePc \/ UNCHANGED <<pc, Target>>]_vars
    <2> SUFFICES ASSUME RspInv, [Next]_vars
                 PROVE  /\ RspInv'
                        /\ IF RspStep /\ ~halted' THEN Flow!Complete
                           ELSE WritePc \/ UNCHANGED <<pc, Target>>
        OBVIOUS
    <2>1. CASE RspStep
        BY <2>1, RspSteps
    <2>2. CASE ~RspStep
        BY <2>2, OthersSpareRsp
    <2> QED
        BY <2>1, <2>2
<1> QED
    BY <1>1, <1>2, PTL DEF Spec, RspFollowsProgram

-----------------------------------------------------------------------------
(* The display processor.                                                    *)

\* The fields of a command are bits of its words.
IsCommand(c) ==
    /\ c.op \in {"scissor", "fill_rectangle", "texture_rectangle"} =>
          {c.xh, c.yh, c.xl, c.yl} \subseteq Nat
    /\ c.op = "color_image" => {c.address, c.width} \subseteq Nat

\* What a list has for a command is one, and it does not run on into the memory
\* behind it.
CommandsGiven == Working /\ ~AtEnd => IsCommand(Command)

RegistersInv ==
    /\ {color.address, color.width} \subseteq Nat
    /\ {scissor.xh, scissor.yh, scissor.xl, scissor.yl} \subseteq Nat

LEMMA MinOf == \A h, l \in Nat : Min({h, l}) \in Nat /\ Min({h, l}) <= h /\ Min({h, l}) <= l
<1> SUFFICES ASSUME NEW h \in Nat, NEW l \in Nat
             PROVE  Min({h, l}) \in {h, l} /\ \A y \in {h, l} : Min({h, l}) <= y
    OBVIOUS
<1>1. \E x \in {h, l} : \A y \in {h, l} : x <= y
    OBVIOUS
<1> QED
    BY <1>1 DEF Min

LEMMA MaxOf == \A h, l \in Nat : Max({h, l}) \in Nat /\ Max({h, l}) >= h /\ Max({h, l}) >= l
<1> SUFFICES ASSUME NEW h \in Nat, NEW l \in Nat
             PROVE  Max({h, l}) \in {h, l} /\ \A y \in {h, l} : Max({h, l}) >= y
    OBVIOUS
<1>1. \E x \in {h, l} : \A y \in {h, l} : x >= y
    OBVIOUS
<1> QED
    BY <1>1 DEF Max

\* A rectangle takes no column and no row that it does not touch.
LEMMA SpanTouched ==
    \A h, l \in Nat : \A v \in Span(h, l) : v \in Nat /\ Touched(v, h, l)
<1> SUFFICES ASSUME NEW h \in Nat, NEW l \in Nat, NEW v \in Span(h, l)
             PROVE  v \in Nat /\ Touched(v, h, l)
    OBVIOUS
<1>1. /\ Min({h, l}) \in Nat /\ Min({h, l}) <= h /\ Min({h, l}) <= l
      /\ Max({h, l}) \in Nat /\ Max({h, l}) >= h /\ Max({h, l}) >= l
    BY MinOf, MaxOf
<1>2. v \in Nat /\ \/ 4 * v + 4 > h /\ 4 * v < l
                   \/ 4 * v + 4 > l /\ 4 * v < h
    BY DEF Span
<1> QED
    BY <1>1, <1>2 DEF Touched

\* The place of a pixel, from its number.
LEMMA PlaceOf ==
    \A w \in Nat, x \in Nat, y \in Nat :
       x < w => (y * w + x) \div w = y /\ (y * w + x) % w = x
OBVIOUS

\* A pixel is stored whole or not at all.
LEMMA StoredLength == \A p : Len(Stored(p)) \in {0, IF color.size = 2 THEN 2 ELSE 4}
<1> TAKE p
<1>1. Len(<<>>) = 0 /\ Len(Narrow(p)) = 2 /\ Len(<<0, 0, 0, 0>>) = 4
    BY DEF Narrow
<1> QED
    BY <1>1 DEF Stored

\* write_color_pixel: a byte that it writes says which pixel it is of.
LEMMA PixelPlaced ==
    ASSUME RegistersInv, NEW x \in Nat, NEW y \in Nat, NEW p, NEW a \in PixelBytes(x, y, p)
    PROVE  LET bpp == IF color.size = 2 THEN 2 ELSE 4
           IN /\ ClipPoint(x, y) /\ a >= color.address
              /\ ((a - color.address) \div bpp) % color.width = x
              /\ ((a - color.address) \div bpp) \div color.width = y
<1> DEFINE bpp == IF color.size = 2 THEN 2 ELSE 4
           n == Len(Stored(p))
           place == y * color.width + x
<1>1. n \in {0, bpp}
    BY StoredLength
<1>2. /\ ClipPoint(x, y)
      /\ a \in Address(x, y, n) .. Address(x, y, n) + n - 1
    BY DEF PixelBytes
<1>3. color.address \in Nat /\ color.width \in Nat /\ place \in Nat
    BY DEF RegistersInv
<1>4. place \div color.width = y /\ place % color.width = x
    BY <1>2, <1>3, PlaceOf DEF ClipPoint
<1>5. Address(x, y, n) = color.address + place * n
    BY DEF Address
<1>6. bpp \in {2, 4}
    OBVIOUS
<1> HIDE DEF n, place, bpp
<1>7. n = bpp /\ a \in Int
    BY <1>1, <1>2, <1>3, <1>5, <1>6
<1>8. a \in color.address + place * bpp .. color.address + place * bpp + bpp - 1
    BY <1>2, <1>5, <1>7
<1>9. a >= color.address /\ (a - color.address) \div bpp = place
    BY <1>3, <1>6, <1>7, <1>8
<1> QED
    BY <1>2, <1>4, <1>9 DEF bpp

\* No two pixels share a byte, so the order of drawing them does not matter (Paint).
LEMMA PixelsApart ==
    ASSUME RegistersInv, NEW x \in Nat, NEW y \in Nat, NEW p, NEW u \in Nat, NEW v \in Nat, NEW q,
           PixelBytes(x, y, p) \cap PixelBytes(u, v, q) # {}
    PROVE  x = u /\ y = v
<1>1. PICK a : a \in PixelBytes(x, y, p) /\ a \in PixelBytes(u, v, q)
    OBVIOUS
<1> DEFINE place == (a - color.address) \div (IF color.size = 2 THEN 2 ELSE 4)
<1>2. place % color.width = x /\ place \div color.width = y
    BY <1>1, PixelPlaced
<1>3. place % color.width = u /\ place \div color.width = v
    BY <1>1, PixelPlaced
<1> QED
    BY <1>2, <1>3

LEMMA PixelInside ==
    ASSUME RegistersInv, NEW c, {c.xh, c.yh, c.xl, c.yl} \subseteq Nat,
           NEW x \in Columns(c), NEW y \in Rows(c), NEW p, NEW a \in PixelBytes(x, y, p)
    PROVE  Inside(a, c)
<1>1. /\ x \in Nat /\ Touched(x, c.xh, c.xl)
      /\ y \in Nat /\ Touched(y, c.yh, c.yl)
    BY SpanTouched DEF Columns, Rows
<1>2. ClipPoint(x, y) => (scissor.set => /\ x >= scissor.xh /\ x < scissor.xl
                                         /\ y >= scissor.yh /\ y < scissor.yl)
    BY <1>1 DEF ClipPoint, RegistersInv
<1> QED
    BY <1>1, <1>2, PixelPlaced DEF Inside

\* Rectangles change bytes of their pixels only.
LEMMA PaintsInside ==
    ASSUME RegistersInv, NEW c, {c.xh, c.yh, c.xl, c.yl} \subseteq Nat,
           NEW pixels, DOMAIN pixels = Places(c), Paint(pixels),
           NEW a \in DOMAIN dram, dram'[a] # dram[a]
    PROVE  Inside(a, c)
<1> DEFINE on == {at \in DOMAIN pixels : a \in PixelBytes(at[1], at[2], pixels[at])}
<1>1. on # {}
    BY DEF Paint
<1>2. PICK at \in Places(c) : a \in PixelBytes(at[1], at[2], pixels[at])
    BY <1>1
<1>3. at[1] \in Columns(c) /\ at[2] \in Rows(c)
    BY DEF Places
<1> QED
    BY <1>2, <1>3, PixelInside

\* execute_command: only rectangles draw.
LEMMA ExecuteInside ==
    ASSUME RegistersInv, NEW c, IsCommand(c), NEW lo, Execute(c, lo)
    PROVE  /\ RegistersInv'
           /\ \A a \in DOMAIN dram : dram'[a] # dram[a] =>
                 c.op \in {"fill_rectangle", "texture_rectangle"} /\ Inside(a, c)
<1>1. CASE c.op = "fill_rectangle"
    <2>1. FillRectangle(c)
        BY <1>1 DEF Execute
    <2>2. {c.xh, c.yh, c.xl, c.yl} \subseteq Nat
        BY <1>1 DEF IsCommand
    <2> DEFINE pixels == [at \in Places(c) |-> FillPixel(at[1], at[2])]
    <2>3. Paint(pixels) /\ DOMAIN pixels = Places(c)
        BY <2>1 DEF FillRectangle
    <2>4. RegistersInv'
        BY <2>3 DEF Paint, registers, RegistersInv
    <2> HIDE DEF pixels
    <2> QED
        BY <1>1, <2>2, <2>3, <2>4, PaintsInside
<1>2. CASE c.op = "texture_rectangle"
    <2>1. TextureRectangle(c, lo)
        BY <1>2 DEF Execute
    <2>2. {c.xh, c.yh, c.xl, c.yl} \subseteq Nat
        BY <1>2 DEF IsCommand
    <2>3. PICK pixels : Paint(pixels) /\ DOMAIN pixels = Places(c)
        BY <2>1 DEF TextureRectangle
    <2>4. RegistersInv'
        BY <2>3 DEF Paint, registers, RegistersInv
    <2> QED
        BY <1>2, <2>2, <2>3, <2>4, PaintsInside
<1>3. CASE c.op = "color_image"
    <2>1. SetColorImage(c) /\ c.address \in Nat /\ c.width \in Nat
        BY <1>3 DEF Execute, IsCommand
    <2>2. dram' = dram /\ scissor' = scissor /\ color' = ImageOf(c)
        BY <2>1 DEF SetColorImage
    <2>3. color'.address \in Nat /\ color'.width \in Nat
        BY <2>1, <2>2 DEF ImageOf
    <2> QED
        BY <2>2, <2>3 DEF RegistersInv
<1>4. CASE c.op = "scissor"
    <2>1. SetScissor(c) /\ c.xh \in Nat /\ c.yh \in Nat /\ c.xl \in Nat /\ c.yl \in Nat
        BY <1>4 DEF Execute, IsCommand
    <2>2. /\ dram' = dram /\ color' = color
          /\ scissor' = [xh |-> c.xh \div 4, yh |-> c.yh \div 4,
                         xl |-> c.xl \div 4, yl |-> c.yl \div 4, set |-> TRUE]
        BY <2>1 DEF SetScissor
    <2>3. \A v \in Nat : v \div 4 \in Nat
        OBVIOUS
    <2>4. {scissor'.xh, scissor'.yh, scissor'.xl, scissor'.yl} \subseteq Nat
        BY <2>1, <2>2, <2>3
    <2> QED
        BY <2>2, <2>4 DEF RegistersInv
<1>5. CASE c.op \notin {"fill_rectangle", "texture_rectangle", "color_image", "scissor"}
    <2>1. UNCHANGED <<dram, color, scissor>>
        BY <1>5 DEF Execute, SetTextureImage, SetFillColor, SetTile, SetTileSize,
                    LoadBlock, LoadTile, rdpVars, registers
    <2> QED
        BY <2>1 DEF RegistersInv
<1> QED
    BY <1>1, <1>2, <1>3, <1>4, <1>5

\* Outside of a command of a list nothing is drawn.
LEMMA OthersDrawNothing ==
    ASSUME [Next]_vars, ~RunCommand
    PROVE  UNCHANGED rdpVars
BY DEF Next, vars, EndList, RspStep, SetHalt, ClearHalt, WritePc, LoadImem, PutList,
       CpuStart, CpuEnd, CpuDpStatus

\* run_command_list with write_color_pixel: for every memory, every image and every
\* scissor, a list whose commands are well formed changes only pixels of the colour
\* image that are inside the scissor, the width and the rectangle.
THEOREM DrawsWhereItMay == Spec /\ []CommandsGiven => DrawsInside
<1>1. Init => RegistersInv
    BY DEF Init, ResetRdp, NoImage, RegistersInv
<1>2. RegistersInv /\ CommandsGiven /\ [Next]_vars
          => /\ RegistersInv'
             /\ [\A a \in DOMAIN dram : dram'[a] # dram[a] =>
                    /\ Working /\ Command.op \in {"fill_rectangle", "texture_rectangle"}
                    /\ Inside(a, Command)]_vars
    <2> SUFFICES ASSUME RegistersInv, CommandsGiven, [Next]_vars
                 PROVE  /\ RegistersInv'
                        /\ \A a \in DOMAIN dram : dram'[a] # dram[a] =>
                              /\ Working
                              /\ Command.op \in {"fill_rectangle", "texture_rectangle"}
                              /\ Inside(a, Command)
        OBVIOUS
    <2>1. CASE RunCommand
        <3>1. Working /\ IsCommand(Command) /\ Execute(Command, Whole[Len(Whole)])
            BY <2>1 DEF RunCommand, CommandsGiven
        <3> QED
            BY <3>1, ExecuteInside
    <2>2. CASE ~RunCommand
        <3>1. dram' = dram /\ color' = color /\ scissor' = scissor
            BY <2>2, OthersDrawNothing DEF rdpVars, registers
        <3> QED
            BY <3>1 DEF RegistersInv
    <2> QED
        BY <2>1, <2>2
<1> QED
    BY <1>1, <1>2, PTL DEF Spec, DrawsInside

-----------------------------------------------------------------------------
(* Lists.                                                                    *)

\* Where the commands of a list are.
Source(xbus) == IF xbus THEN [i \in Nat |-> dmem[i % DmemCells]] ELSE InRdram(area)

\* An RSP program that writes DP_END has stored what it means to have run, from
\* START to there.
RspMeans ==
    ~Working /\ ~halted /\ imem[pc].op = "end" /\ "freeze" \notin dp_status =>
       /\ "start_valid" \in dp_status /\ dp_start < imem[pc].at
       /\ Laid(Source("xbus" \in dp_status), imem[pc].list, dp_start, imem[pc].at)

\* What is left of the list is laid out from where run_command_list is.
ListInv ==
    /\ guest \in Guests
    /\ area = <<>> \/ area \in guest.lists
    /\ Working => /\ list = [at |-> list.at, stop |-> list.stop, xbus |-> list.xbus]
                  /\ Laid(Source(list.xbus), due, list.at, list.stop)
    /\ ~Working => due = <<>>

LEMMA ListIsWork == \A at, stop, xbus : [at |-> at, stop |-> stop, xbus |-> xbus] # Idle
<1> SUFFICES ASSUME NEW at, NEW stop, NEW xbus,
                    [at |-> at, stop |-> stop, xbus |-> xbus] = <<>>
             PROVE  FALSE
    BY DEF Idle
<1>1. "at" \in DOMAIN [at |-> at, stop |-> stop, xbus |-> xbus]
    OBVIOUS
<1>2. DOMAIN <<>> = {}
    OBVIOUS
<1> QED
    BY <1>1, <1>2

LEMMA TailIsASeq ==
    ASSUME NEW s, s \in Seq(Range(s)), Len(s) # 0
    PROVE  /\ Tail(s) \in Seq(Range(Tail(s))) /\ Len(Tail(s)) = Len(s) - 1
           /\ \A k \in 1 .. Len(Tail(s)) : Tail(s)[k] = s[k + 1]
           /\ Head(s) = s[1] /\ s # <<>>
<1>1. /\ Tail(s) \in Seq(Range(s)) /\ Len(Tail(s)) = Len(s) - 1
      /\ \A k \in 1 .. Len(Tail(s)) : Tail(s)[k] = s[k + 1]
      /\ Head(s) = s[1] /\ s # <<>>
    OBVIOUS
<1> DEFINE t == Tail(s)
<1>2. Len(t) \in Nat /\ t \in [1 .. Len(t) -> Range(s)]
    BY <1>1, LenProperties
<1> HIDE DEF t
<1>3. t \in [1 .. Len(t) -> Range(t)]
    BY <1>2 DEF Range
<1>4. t \in Seq(Range(t))
    BY <1>2, <1>3
<1> QED
    BY <1>1, <1>4 DEF t

\* The first packet, and the rest.
LEMMA LaidStep ==
    ASSUME NEW memory, NEW packets, NEW at, NEW stop,
           Laid(memory, packets, at, stop), at # stop
    PROVE  LET whole == IF IsPair(memory[at]) THEN <<memory[at], memory[at + 1]>>
                        ELSE <<memory[at]>>
           IN /\ at \in Nat /\ packets # <<>> /\ Head(packets) = whole
              /\ at + Len(whole) <= stop
              /\ Laid(memory, Tail(packets), at + Len(whole), stop)
<1> DEFINE n == Len(packets)
           whole == IF IsPair(memory[at]) THEN <<memory[at], memory[at + 1]>>
                    ELSE <<memory[at]>>
<1>1. packets \in Seq(Range(packets)) /\ n \in Nat /\ stop \in Nat
    BY DEF Laid
<1>2. PICK begins \in [1 .. n + 1 -> 0 .. stop] :
          /\ begins[1] = at /\ begins[n + 1] = stop
          /\ \A k \in 1 .. n :
                /\ begins[k + 1] = begins[k] + Len(packets[k])
                /\ packets[k] = IF IsPair(memory[begins[k]])
                                THEN <<memory[begins[k]], memory[begins[k] + 1]>>
                                ELSE <<memory[begins[k]]>>
    BY DEF Laid
<1>3. n # 0
    BY <1>2
<1>4. /\ Tail(packets) \in Seq(Range(Tail(packets))) /\ Len(Tail(packets)) = n - 1
      /\ \A k \in 1 .. Len(Tail(packets)) : Tail(packets)[k] = packets[k + 1]
      /\ Head(packets) = packets[1] /\ packets # <<>>
    BY <1>1, <1>3, TailIsASeq
<1>5. packets[1] = whole /\ begins[2] = at + Len(whole)
    <2>1. 1 \in 1 .. n /\ 1 + 1 = 2
        BY <1>1, <1>3
    <2>2. begins[2] = begins[1] + Len(packets[1]) /\ packets[1] = whole
        BY <1>2, <2>1
    <2> QED
        BY <1>2, <2>2
<1>6. at \in 0 .. stop /\ begins[2] \in 0 .. stop
    BY <1>1, <1>2, <1>3
<1> HIDE DEF whole
<1> DEFINE later == [k \in 1 .. n |-> begins[k + 1]]
<1>7. /\ later \in [1 .. Len(Tail(packets)) + 1 -> 0 .. stop]
      /\ later[1] = at + Len(whole) /\ later[Len(Tail(packets)) + 1] = stop
    BY <1>1, <1>2, <1>3, <1>4, <1>5
<1>8. ASSUME NEW k \in 1 .. Len(Tail(packets))
      PROVE  /\ later[k + 1] = later[k] + Len(Tail(packets)[k])
             /\ Tail(packets)[k] = IF IsPair(memory[later[k]])
                                   THEN <<memory[later[k]], memory[later[k] + 1]>>
                                   ELSE <<memory[later[k]]>>
    <2>1. k + 1 \in 1 .. n /\ Tail(packets)[k] = packets[k + 1]
        BY <1>1, <1>3, <1>4
    <2>2. later[k] = begins[k + 1] /\ later[k + 1] = begins[k + 1 + 1]
        BY <1>1, <1>4, <2>1
    <2> QED
        BY <1>2, <2>1, <2>2
<1> HIDE DEF later
<1>9. Laid(memory, Tail(packets), at + Len(whole), stop)
    BY <1>4, <1>7, <1>8 DEF Laid
<1> QED
    BY <1>4, <1>5, <1>6, <1>9 DEF whole

\* A list that is through has nothing left.
LEMMA LaidEnds ==
    ASSUME NEW memory, NEW packets, NEW stop, Laid(memory, packets, stop, stop)
    PROVE  packets = <<>>
<1>1. packets \in Seq(Range(packets)) /\ Len(packets) \in Nat /\ stop \in Nat
    BY DEF Laid
<1>2. SUFFICES ASSUME Len(packets) # 0 PROVE FALSE
    BY <1>1
<1>3. PICK begins \in [1 .. Len(packets) + 1 -> 0 .. stop] :
          /\ begins[1] = stop
          /\ begins[1 + 1] = begins[1] + Len(packets[1])
          /\ packets[1] = IF IsPair(memory[begins[1]])
                          THEN <<memory[begins[1]], memory[begins[1] + 1]>>
                          ELSE <<memory[begins[1]]>>
    <2>1. 1 \in 1 .. Len(packets)
        BY <1>1, <1>2
    <2> QED
        BY <2>1 DEF Laid
<1>4. Len(packets[1]) \in {1, 2}
    BY <1>3
<1> QED
    BY <1>1, <1>2, <1>3, <1>4

\* The list as the code reads it.
LEMMA CellsOfList ==
    ASSUME NEW at \in Nat
    PROVE  Cell(at) = Source(list.xbus)[at]
BY DEF Cell, Source, InRdram

LEMMA RunCommandKeepsList ==
    ASSUME ListInv, RunCommand
    PROVE  ListInv'
<1> DEFINE memory == Source(list.xbus)
<1>1. /\ Working /\ ~AtEnd
      /\ list' = [list EXCEPT !.at = After]
      /\ due' = IF due # <<>> /\ Head(due) = Whole THEN Tail(due) ELSE Append(due, Whole)
      /\ UNCHANGED <<guest, dmem, area>>
    BY DEF RunCommand
<1>2. /\ list = [at |-> list.at, stop |-> list.stop, xbus |-> list.xbus]
      /\ Laid(memory, due, list.at, list.stop) /\ list.stop \in Nat
    BY <1>1 DEF ListInv, Laid
<1>3. list.at # list.stop
    BY <1>1, <1>2 DEF AtEnd
<1> DEFINE whole == IF IsPair(memory[list.at]) THEN <<memory[list.at], memory[list.at + 1]>>
                    ELSE <<memory[list.at]>>
<1>4. /\ list.at \in Nat /\ due # <<>> /\ Head(due) = whole
      /\ Laid(memory, Tail(due), list.at + Len(whole), list.stop)
    BY <1>2, <1>3, LaidStep
<1>5. Whole = whole
    BY <1>4, CellsOfList DEF Whole, Command
<1> HIDE DEF whole
<1>6. due' = Tail(due)
    BY <1>1, <1>4, <1>5
<1>7. list' = [at |-> list.at + Len(whole), stop |-> list.stop, xbus |-> list.xbus]
    BY <1>1, <1>2, <1>5 DEF After
<1>8. Source(list.xbus)' = memory
    BY <1>1, <1>7 DEF Source
<1> HIDE DEF memory
<1>9. /\ list'.at = list.at + Len(whole) /\ list'.stop = list.stop /\ list'.xbus = list.xbus
      /\ list' = [at |-> list'.at, stop |-> list'.stop, xbus |-> list'.xbus]
    BY <1>7
<1>10. Working'
    BY <1>9, ListIsWork DEF Working, Idle
<1>11. Laid(Source(list.xbus), due, list.at, list.stop)'
    BY <1>4, <1>6, <1>8, <1>9
<1> QED
    BY <1>1, <1>2, <1>9, <1>10, <1>11 DEF ListInv

LEMMA EndListKeepsList ==
    ASSUME ListInv, EndList
    PROVE  ListInv'
<1> DEFINE memory == Source(list.xbus)
<1>1. Working /\ AtEnd /\ list' = Idle /\ UNCHANGED <<guest, area, due>>
    BY DEF EndList
<1>2. list.stop \in Nat /\ Laid(memory, due, list.at, list.stop)
    BY <1>1 DEF ListInv, Laid
<1>3. list.at = list.stop
    <2>1. SUFFICES ASSUME list.at # list.stop PROVE FALSE
        OBVIOUS
    <2> DEFINE whole == IF IsPair(memory[list.at])
                        THEN <<memory[list.at], memory[list.at + 1]>>
                        ELSE <<memory[list.at]>>
    <2>2. list.at \in Nat /\ list.at + Len(whole) <= list.stop
        BY <1>2, <2>1, LaidStep
    <2>3. Command = memory[list.at]
        BY <2>2, CellsOfList DEF Command
    <2>4. Len(whole) = IF IsPair(Command) THEN 2 ELSE 1
        BY <2>3
    <2> HIDE DEF whole
    <2> QED
        BY <1>1, <1>2, <2>2, <2>4 DEF AtEnd
<1>4. due = <<>>
    BY <1>2, <1>3, LaidEnds
<1> QED
    BY <1>1, <1>4 DEF ListInv, Working

\* A write of DP_END that runs the list that lies from START to there.
LEMMA EndGivesList ==
    ASSUME ListInv, NEW at, WriteEnd(at), UNCHANGED <<guest, dmem, area>>,
           "start_valid" \in dp_status, "freeze" \notin dp_status, at > dp_start,
           Laid(Source("xbus" \in dp_status), due', dp_start, at)
    PROVE  ListInv'
<1> DEFINE xbus == "xbus" \in dp_status
<1>1. list' = [at |-> dp_start, stop |-> at, xbus |-> xbus]
    BY DEF WriteEnd
<1>2. Laid(Source(xbus), due', dp_start, at)
    OBVIOUS
<1> HIDE DEF xbus
<1>3. /\ list'.at = dp_start /\ list'.stop = at /\ list'.xbus = xbus
      /\ list' = [at |-> list'.at, stop |-> list'.stop, xbus |-> list'.xbus]
    BY <1>1
<1>4. Source(list.xbus)' = Source(xbus)
    BY <1>3 DEF Source
<1>5. Working'
    BY <1>3, ListIsWork DEF Working, Idle
<1>6. Laid(Source(list.xbus), due, list.at, list.stop)'
    BY <1>2, <1>3, <1>4
<1> QED
    BY <1>3, <1>5, <1>6 DEF ListInv

LEMMA IdleKeepsList ==
    ASSUME ListInv, ~Working, UNCHANGED <<guest, list, due>>,
           area' = area \/ area' \in guest.lists
    PROVE  ListInv'
BY DEF ListInv, Working

LEMMA RspKeepsList ==
    ASSUME ListInv, RspMeans, RspStep
    PROVE  ListInv'
<1> DEFINE insn == imem[pc]
<1>1. /\ ~Working /\ ~halted
      /\ insn.op = "end" => "freeze" \notin dp_status
      /\ Effects(insn) /\ UNCHANGED <<guest, area>>
    BY DEF RspStep
<1>2. CASE insn.op = "end"
    <2>1. WriteEnd(insn.at) /\ dmem' = dmem /\ due' = insn.list
        BY <1>1, <1>2 DEF Effects
    <2>2. /\ "start_valid" \in dp_status /\ "freeze" \notin dp_status /\ dp_start < insn.at
          /\ Laid(Source("xbus" \in dp_status), insn.list, dp_start, insn.at)
        BY <1>1, <1>2 DEF RspMeans
    <2> HIDE DEF insn
    <2> QED
        BY <1>1, <2>1, <2>2, EndGivesList
<1>3. CASE insn.op # "end"
    <2>1. list' = list /\ due' = due
        BY <1>1, <1>3 DEF Effects, WriteStart, WriteDpStatus, dp
    <2> QED
        BY <1>1, <2>1, IdleKeepsList
<1> QED
    BY <1>2, <1>3

LEMMA CpuKeepsList ==
    ASSUME ListInv, CpuEnd
    PROVE  ListInv'
<1>1. /\ "start_valid" \in dp_status /\ dp_start = 0 /\ area # <<>>
      /\ dp_status \cap {"freeze", "xbus"} = {}
      /\ WriteEnd(Len(FlattenSeq(area))) /\ due' = area
      /\ UNCHANGED <<guest, dmem, area>>
    BY DEF CpuEnd, rsp
<1>2. Len(FlattenSeq(area)) > 0 /\ Laid(InRdram(area), area, 0, Len(FlattenSeq(area)))
    BY <1>1, ListsAssumption DEF ListInv
<1>3. "freeze" \notin dp_status /\ "xbus" \notin dp_status
    BY <1>1
<1>4. Source("xbus" \in dp_status) = InRdram(area)
    BY <1>3 DEF Source
<1> QED
    BY <1>1, <1>2, <1>3, <1>4, EndGivesList

LEMMA ListStep ==
    ASSUME ListInv, RspMeans, [Next]_vars
    PROVE  ListInv'
<1>1. CASE RunCommand
    BY <1>1, RunCommandKeepsList
<1>2. CASE EndList
    BY <1>2, EndListKeepsList
<1>3. CASE RspStep
    BY <1>3, RspKeepsList
<1>4. CASE CpuEnd
    BY <1>4, CpuKeepsList
<1>5. ASSUME NEW commands \in guest.lists, PutList(commands)
      PROVE  ListInv'
    BY <1>5, IdleKeepsList DEF PutList, Cpu, dp
<1> DEFINE Spared == ~Working /\ UNCHANGED <<guest, list, due, area>>
<1>6. SetHalt \/ ClearHalt \/ WritePc => Spared
    BY DEF SetHalt, ClearHalt, WritePc, Cpu, dp
<1>7. \A program \in Range(guest.programs) : LoadImem(program) => Spared
    BY DEF LoadImem, Cpu, dp
<1>8. CpuStart => Spared
    BY DEF CpuStart, CpuMay, Cpu, WriteStart
<1>9. \A clear \in SUBSET {"freeze", "xbus"}, set \in SUBSET {"freeze", "flush"} :
         CpuDpStatus(clear, set) => Spared
    BY DEF CpuDpStatus, CpuMay, Cpu, WriteDpStatus
<1>10. CASE UNCHANGED vars
    <2>1. UNCHANGED <<guest, list, due, area, dmem>>
        BY <1>10 DEF vars, dp
    <2>2. Source(list.xbus)' = Source(list.xbus)
        BY <2>1 DEF Source
    <2> QED
        BY <2>1, <2>2 DEF ListInv, Working
<1>11. Spared => ListInv'
    BY IdleKeepsList
<1> HIDE DEF Spared
<1>12. \/ RunCommand \/ EndList \/ RspStep \/ CpuEnd \/ UNCHANGED vars \/ Spared
       \/ \E commands \in guest.lists : PutList(commands)
    BY <1>6, <1>7, <1>8, <1>9 DEF Next
<1> QED
    BY <1>1, <1>2, <1>3, <1>4, <1>5, <1>10, <1>11, <1>12

\* run_command_list: a list of any length in any memory is run whole, each of its
\* commands once and in order and each texture rectangle with its second word, if
\* RSP programs have stored the lists that they give.
THEOREM ListsRunWhole == Spec /\ []RspMeans => []ListsRunAsMeant
<1>1. Init => ListInv
    BY DEF Init, ListInv, Working, Idle
<1>2. ListInv /\ RspMeans /\ [Next]_vars => ListInv'
    BY ListStep
<1>3. ListInv => ListsRunAsMeant
    BY DEF ListInv, ListsRunAsMeant
<1> QED
    BY <1>1, <1>2, <1>3, PTL DEF Spec

-----------------------------------------------------------------------------
(* Fills.                                                                    *)

\* A fill colour is a word, and images lie at words.
FillsGiven ==
    Working /\ ~AtEnd =>
       /\ Command.op = "fill_color" => Command.bytes \in Seq(Byte) /\ Len(Command.bytes) = 4
       /\ Command.op = "color_image" => Command.address % 4 = 0

FillInv ==
    /\ DOMAIN dram = 0 .. RdramBytes - 1
    /\ fill \in Seq(Byte) /\ Len(fill) = 4
    /\ color.address % 4 = 0

\* write_fill_pixel stores two bytes or four, of the place in the word that their
\* address has.
LEMMA FillStored ==
    ASSUME FillInv, RegistersInv, color.size \in {2, 3}, NEW x \in Nat, NEW y \in Nat
    PROVE  LET n == BytesPerTexel(color.size)
               bytes == Stored(FillPixel(x, y))
           IN /\ Len(bytes) = n
              /\ \A i \in 0 .. n - 1 : bytes[i + 1] = fill[((Address(x, y, n) + i) % 4) + 1]
<1> DEFINE place == y * color.width + x
<1>1. place \in Nat /\ color.address \in Nat /\ color.address % 4 = 0
    <2>1. color.address \in Nat /\ color.width \in Nat
        BY DEF RegistersInv
    <2>2. place \in Nat
        BY <2>1
    <2> QED
        BY <2>1, <2>2 DEF FillInv
<1>2. \A n : Address(x, y, n) = color.address + place * n
    BY DEF Address
<1> HIDE DEF place
<1>3. CASE color.size = 3
    <2>1. BytesPerTexel(color.size) = 4 /\ FillPixel(x, y) = fill
        BY <1>3 DEF BytesPerTexel, FillPixel
    <2>2. fill # <<>> /\ Len(fill) = 4
        BY DEF FillInv
    <2>3. Stored(fill) = fill
        BY <1>3, <2>2 DEF Stored
    <2>4. \A i \in 0 .. 3 : (Address(x, y, 4) + i) % 4 = i
        BY <1>1, <1>2
    <2> QED
        BY <2>1, <2>2, <2>3, <2>4
<1>4. CASE color.size = 2
    <2> DEFINE half == (Address(x, y, 2) \div 2) % 2
               part == SubSeq(fill, 1 + 2 * half, 2 + 2 * half)
    <2>1. BytesPerTexel(color.size) = 2 /\ FillPixel(x, y) = part
        <3>1. BytesPerTexel(color.size) = 2
            BY <1>4 DEF BytesPerTexel
        <3>2. FillPixel(x, y) = part
            <4>1. color.size # 3
                BY <1>4
            <4> QED
                BY <1>4, <4>1, Zenon DEF FillPixel
        <3> QED
            BY <3>1, <3>2
    <2>2. half \in {0, 1} /\ \A i \in 0 .. 1 : (Address(x, y, 2) + i) % 4 = 2 * half + i
        <3> DEFINE m == color.address \div 2 + place
        <3>1. m \in Nat /\ Address(x, y, 2) = 2 * m
            BY <1>1, <1>2
        <3> HIDE DEF m
        <3>2. Address(x, y, 2) \div 2 = m /\ m % 2 \in {0, 1}
            BY <3>1
        <3>3. \A i \in 0 .. 1 : (2 * m + i) % 4 = 2 * (m % 2) + i
            BY <3>1
        <3> QED
            BY <3>1, <3>2, <3>3
    <2> HIDE DEF half
    <2>3. Len(part) = 2 /\ \A i \in 0 .. 1 : part[i + 1] = fill[2 * half + i + 1]
        BY <2>2 DEF FillInv
    <2> HIDE DEF part
    <2>4. Stored(part) = part
        <3>1. part # <<>>
            <4> SUFFICES ASSUME part = <<>> PROVE FALSE
                OBVIOUS
            <4>1. Len(<<>>) = 0
                OBVIOUS
            <4>2. Len(part) = 0
                BY <4>1, Zenon
            <4> QED
                BY <2>3, <4>2
        <3> QED
            BY <1>4, <2>3, <3>1 DEF Stored
    <2> QED
        BY <2>1, <2>2, <2>3, <2>4
<1> QED
    BY <1>3, <1>4

\* A byte of a pixel that is drawn is the byte of the fill word that lies there.
LEMMA FillPaints ==
    ASSUME FillInv, RegistersInv, color.size \in {2, 3}, color.valid,
           NEW c, {c.xh, c.yh, c.xl, c.yl} \subseteq Nat, FillRectangle(c),
           NEW xy \in Drawn(c), NEW a \in Nat,
           a - Address(xy[1], xy[2], BytesPerTexel(color.size))
              \in 0 .. BytesPerTexel(color.size) - 1
    PROVE  dram'[a] = fill[(a % 4) + 1]
<1> DEFINE pixels == [at \in Places(c) |-> FillPixel(at[1], at[2])]
           n == BytesPerTexel(color.size)
           on == {at \in DOMAIN pixels : a \in PixelBytes(at[1], at[2], pixels[at])}
           begin == Address(xy[1], xy[2], n)
           bytes == Stored(pixels[xy])
<1>1. \A at \in Places(c) : at[1] \in Nat /\ at[2] \in Nat /\ at = <<at[1], at[2]>>
    BY SpanTouched DEF Places, Columns, Rows
<1>2. /\ xy \in Places(c) /\ ClipPoint(xy[1], xy[2]) /\ begin + n <= RdramBytes
    BY DEF Drawn
<1>3. n \in {2, 4}
    BY DEF BytesPerTexel
<1>4. pixels[xy] = FillPixel(xy[1], xy[2])
    BY <1>2
<1>5. /\ Len(bytes) = n
      /\ \A i \in 0 .. n - 1 : bytes[i + 1] = fill[((begin + i) % 4) + 1]
    BY <1>1, <1>2, <1>4, FillStored
<1>6. begin \in Nat
    BY <1>1, <1>2, <1>3 DEF Address, RegistersInv
<1>7. a - begin \in 0 .. n - 1
    OBVIOUS
<1> HIDE DEF begin, bytes, n
<1>8. xy \in on
    <2>1. a \in begin .. begin + n - 1
        BY <1>3, <1>6, <1>7
    <2>2. PixelBytes(xy[1], xy[2], pixels[xy]) = begin .. begin + n - 1
        BY <1>2, <1>5 DEF PixelBytes, begin, bytes
    <2> QED
        BY <1>2, <2>1, <2>2
<1>9. \A at \in on : at = xy
    <2>1. SUFFICES ASSUME NEW at \in on PROVE at = xy
        OBVIOUS
    <2>2. at[1] = xy[1] /\ at[2] = xy[2]
        BY <1>1, <1>2, <1>8, <2>1, PixelsApart
    <2> QED
        BY <1>1, <1>2, <2>1, <2>2
<1>10. (CHOOSE place \in on : TRUE) = xy
    BY <1>8, <1>9
<1>11. a \in DOMAIN dram
    BY <1>2, <1>3, <1>6, <1>7, RdpAssumption DEF FillInv
<1>12. dram'[a] = bytes[a - begin + 1]
    <2>1. Paint(pixels)
        BY DEF FillRectangle
    <2> HIDE DEF pixels
    <2>2. dram'[a] = LET at == CHOOSE place \in on : TRUE
                         stored == Stored(pixels[at])
                     IN IF color.valid /\ on # {}
                        THEN stored[a - Address(at[1], at[2], Len(stored)) + 1] ELSE dram[a]
        BY <1>11, <2>1 DEF Paint
    <2> HIDE DEF on
    <2>3. dram'[a] = bytes[a - Address(xy[1], xy[2], Len(bytes)) + 1]
        BY <1>8, <1>10, <2>2 DEF bytes
    <2> QED
        BY <1>5, <2>3 DEF begin
<1>13. begin + (a - begin) = a
    BY <1>6
<1> QED
    BY <1>5, <1>7, <1>12, <1>13

LEMMA ExecuteKeepsFill ==
    ASSUME FillInv, NEW c, NEW lo, Execute(c, lo),
           c.op = "fill_color" => c.bytes \in Seq(Byte) /\ Len(c.bytes) = 4,
           c.op = "color_image" => c.address % 4 = 0
    PROVE  FillInv'
<1>1. CASE c.op \in {"fill_rectangle", "texture_rectangle"}
    <2>1. PICK pixels : Paint(pixels)
        BY <1>1 DEF Execute, FillRectangle, TextureRectangle
    <2>2. DOMAIN dram' = DOMAIN dram /\ fill' = fill /\ color' = color
        BY <2>1 DEF Paint, registers
    <2> QED
        BY <2>2 DEF FillInv
<1>2. CASE c.op = "color_image"
    <2>1. dram' = dram /\ fill' = fill /\ color' = ImageOf(c)
        BY <1>2 DEF Execute, SetColorImage
    <2>2. color'.address = c.address
        BY <2>1 DEF ImageOf
    <2> QED
        BY <1>2, <2>1, <2>2 DEF FillInv
<1>3. CASE c.op = "fill_color"
    BY <1>3 DEF Execute, SetFillColor, FillInv
<1>4. CASE c.op \notin {"fill_rectangle", "texture_rectangle", "color_image", "fill_color"}
    <2>1. UNCHANGED <<dram, color, fill>>
        BY <1>4 DEF Execute, SetTextureImage, SetScissor, SetTile, SetTileSize,
                    LoadBlock, LoadTile, rdpVars, registers
    <2> QED
        BY <2>1 DEF FillInv
<1> QED
    BY <1>1, <1>2, <1>3, <1>4

\* What a fill leaves in a word that it covers.
LEMMA FillsWords ==
    ASSUME FillInv, RegistersInv, color.size \in {2, 3}, color.valid,
           NEW c, {c.xh, c.yh, c.xl, c.yl} \subseteq Nat, FillRectangle(c),
           NEW w \in DOMAIN dram, w % 4 = 0,
           \A a \in w .. w + 3 : \E xy \in Drawn(c) :
              a - Address(xy[1], xy[2], BytesPerTexel(color.size))
                \in 0 .. BytesPerTexel(color.size) - 1,
           NEW j \in 0 .. 3
    PROVE  dram'[w + j] = fill[j + 1]
<1>1. w \in Nat /\ w + j \in Nat /\ w + j \in w .. w + 3 /\ (w + j) % 4 = j
    <2>1. w \in Nat
        BY RdpAssumption DEF FillInv
    <2> DEFINE m == w \div 4
    <2>2. m \in Nat /\ w = 4 * m
        BY <2>1
    <2> HIDE DEF m
    <2>3. w + j \in Nat /\ w + j \in w .. w + 3
        BY <2>1
    <2>4. (4 * m + j) % 4 = j
        BY <2>2
    <2> QED
        BY <2>1, <2>2, <2>3, <2>4
<1>2. PICK xy \in Drawn(c) :
         (w + j) - Address(xy[1], xy[2], BytesPerTexel(color.size))
           \in 0 .. BytesPerTexel(color.size) - 1
    BY <1>1
<1>3. dram'[w + j] = fill[((w + j) % 4) + 1]
    BY <1>1, <1>2, FillPaints
<1> QED
    BY <1>1, <1>3

\* write_fill_pixel: for every memory, every image that lies at words, of any width,
\* and every rectangle and scissor, the words that a fill covers hold the fill word.
THEOREM FillsWithTheWord == Spec /\ []CommandsGiven /\ []FillsGiven => FillsAsAsked
<1>1. Init => RegistersInv /\ FillInv
    <2> SUFFICES ASSUME Init PROVE RegistersInv /\ FillInv
        OBVIOUS
    <2>1. RegistersInv
        BY DEF Init, ResetRdp, NoImage, RegistersInv
    <2>2. DOMAIN dram = 0 .. RdramBytes - 1
        BY PicturesAssumption DEF Init
    <2>3. fill = <<0, 0, 0, 0>> /\ color.address = 0
        BY DEF Init, ResetRdp, NoImage
    <2>4. fill \in Seq(Byte) /\ Len(fill) = 4
        BY <2>3 DEF Byte
    <2> QED
        BY <2>1, <2>2, <2>3, <2>4 DEF FillInv
<1>2. RegistersInv /\ FillInv /\ CommandsGiven /\ FillsGiven /\ [Next]_vars
          => /\ RegistersInv' /\ FillInv'
             /\ [Working /\ ~AtEnd /\ Command.op = "fill_rectangle" /\ color.valid
                    => FillRectangle(Command)]_vars
    <2> SUFFICES ASSUME RegistersInv, FillInv, CommandsGiven, FillsGiven, [Next]_vars
                 PROVE  /\ RegistersInv' /\ FillInv'
                        /\ [Working /\ ~AtEnd /\ Command.op = "fill_rectangle" /\ color.valid
                              => FillRectangle(Command)]_vars
        OBVIOUS
    <2>1. CASE RunCommand
        <3>1. /\ Working /\ ~AtEnd /\ IsCommand(Command)
              /\ Execute(Command, Whole[Len(Whole)])
            BY <2>1 DEF RunCommand, CommandsGiven
        <3>2. /\ Command.op = "fill_color" =>
                    Command.bytes \in Seq(Byte) /\ Len(Command.bytes) = 4
              /\ Command.op = "color_image" => Command.address % 4 = 0
            BY <3>1 DEF FillsGiven
        <3>3. RegistersInv' /\ FillInv'
            BY <3>1, <3>2, ExecuteInside, ExecuteKeepsFill
        <3>4. Command.op = "fill_rectangle" => FillRectangle(Command)
            BY <3>1 DEF Execute
        <3> QED
            BY <3>3, <3>4
    <2>2. CASE ~RunCommand
        <3>1. UNCHANGED <<dram, color, scissor, fill>>
            BY <2>2, OthersDrawNothing DEF rdpVars, registers
        <3>2. UNCHANGED vars \/ ~Working \/ AtEnd
            BY <2>2 DEF Next, EndList, RspStep, SetHalt, ClearHalt, WritePc, LoadImem, PutList,
                        CpuStart, CpuEnd, CpuDpStatus, CpuMay, Cpu
        <3> QED
            BY <3>1, <3>2 DEF RegistersInv, FillInv
    <2> QED
        BY <2>1, <2>2
<1>3. RegistersInv /\ FillInv /\ CommandsGiven
          => ((Working /\ ~AtEnd /\ Command.op = "fill_rectangle" /\ color.valid
                 => FillRectangle(Command))
              => (Working /\ ~AtEnd /\ Command.op = "fill_rectangle" /\ color.valid
                    /\ color.size \in {2, 3} =>
                    \A w \in {a \in DOMAIN dram : a % 4 = 0} :
                       (\A a \in w .. w + 3 : \E xy \in Drawn(Command) :
                           a - Address(xy[1], xy[2], BytesPerTexel(color.size))
                             \in 0 .. BytesPerTexel(color.size) - 1)
                       => \A j \in 0 .. 3 : dram'[w + j] = fill[j + 1]))
    <2> SUFFICES ASSUME RegistersInv, FillInv, Working, ~AtEnd, CommandsGiven,
                        Command.op = "fill_rectangle", color.valid, color.size \in {2, 3},
                        FillRectangle(Command),
                        NEW w \in {a \in DOMAIN dram : a % 4 = 0},
                        \A a \in w .. w + 3 : \E xy \in Drawn(Command) :
                           a - Address(xy[1], xy[2], BytesPerTexel(color.size))
                             \in 0 .. BytesPerTexel(color.size) - 1,
                        NEW j \in 0 .. 3
                 PROVE  dram'[w + j] = fill[j + 1]
        OBVIOUS
    <2>1. {Command.xh, Command.yh, Command.xl, Command.yl} \subseteq Nat
        BY DEF CommandsGiven, IsCommand
    <2> QED
        BY <2>1, FillsWords
<1> QED
    BY <1>1, <1>2, <1>3, PTL DEF Spec, FillsAsAsked
=============================================================================
