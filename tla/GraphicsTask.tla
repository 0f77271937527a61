---------------------------- MODULE GraphicsTask ----------------------------
(* How pictures come to be drawn: a program on the RSP builds lists of commands
   in DMEM and gives them to the display processor with MTC0, or the CPU gives it
   lists in RDRAM; and the CPU halts the RSP where it is, resumes it, writes its
   program counter and loads it with other programs.

   The CPU and the RSP interleave by instructions.  A list runs in the store that
   writes DP_END: its commands are steps of their own here, with everything else
   standing still.  Addresses of lists count in commands of eight bytes, those of
   the RSP in instructions; what an RSP program computes, beyond its control and
   the commands it stores, is left out.  The SP and DP interrupts and the status
   bits without an effect here are RcpInterrupts', SP memory is SpTask's.

   Of programs it is assumed that a list is not given piecemeal: START is written
   for each END, by one processor at a time; that END lies ahead of START and is
   not written while the display processor is frozen; that a texture rectangle is
   followed by its second word; and that nobody draws over a list.           *)
EXTENDS Rdp

CONSTANTS
    ImemWords,     \* kSpImemSize, in instructions
    DmemCells,     \* the part of DMEM that lists use, at whose end addresses wrap
    Guests,        \* what programs do: see the definitions of MCGraphicsTask
    MaxLists,      \* bound: how many lists the CPU gives
    NoTarget

VARIABLES
    guest,                             \* the programs: chosen once
    imem, pc, next_pc, branch_pending, \* the RSP
    halted, broke,
    dmem, area,                        \* the lists: in DMEM, and in RDRAM from 0
    dp_start, dp_end, dp_current, dp_status,
    list,                              \* what run_command_list has left, or Idle
    due,                               \* history: what the program wants to have run
    loaded,                            \* history: the tile that TMEM holds, as it was loaded
    given                              \* how many lists the CPU gave

rsp == <<imem, pc, next_pc, branch_pending, halted, broke>>
dp == <<dp_start, dp_end, dp_current, dp_status, list>>
vars == <<guest, rsp, dmem, area, dp, due, loaded, given, rdpVars>>

Idle == <<>>
Nop == [op |-> "nop"]
Wrap(address) == address % ImemWords
Image(program) ==
    [i \in 0 .. ImemWords - 1 |-> IF i < Len(program) THEN program[i + 1] ELSE Nop]

\* Programs fill no delay slot with a branch, nor with BREAK.
Branches == {"jump", "conditional"}
ASSUME ProgramsAssumption ==
    /\ ImemWords \in Nat \ {0}
    /\ \A g \in Guests :
          /\ 1 \in DOMAIN g.programs
          /\ \A program \in Range(g.programs) : \A i \in 0 .. ImemWords - 1 :
                LET insn == Image(program)[i]
                IN /\ insn.op \notin {"branch", "likely"}
                   /\ insn.op \in Branches =>
                         /\ insn.to \in 0 .. ImemWords - 1
                         /\ Image(program)[Wrap(i + 1)].op \notin Branches \cup {"break"}
ASSUME PicturesAssumption == \A g \in Guests : DOMAIN g.pictures = 0 .. RdramBytes - 1
ASSUME TargetAssumption == NoTarget \notin Int

\* A list as memory has it from at to stop: packets of a command each, or of a
\* texture rectangle and its second word.
IsPair(c) == c.op = "texture_rectangle"
Laid(memory, packets, at, stop) ==
    /\ packets \in Seq(Range(packets)) /\ stop \in Nat
    /\ \E begins \in [1 .. Len(packets) + 1 -> 0 .. stop] :
          /\ begins[1] = at /\ begins[Len(packets) + 1] = stop
          /\ \A k \in 1 .. Len(packets) :
                /\ begins[k + 1] = begins[k] + Len(packets[k])
                /\ packets[k] = IF IsPair(memory[begins[k]])
                                THEN <<memory[begins[k]], memory[begins[k] + 1]>>
                                ELSE <<memory[begins[k]]>>

\* The lists that the CPU gives are laid out so.
InRdram(commands) == [i \in Nat |-> FlattenSeq(commands)[i + 1]]
ASSUME ListsAssumption ==
    \A g \in Guests : \A commands \in g.lists :
       /\ Len(FlattenSeq(commands)) > 0
       /\ Laid(InRdram(commands), commands, 0, Len(FlattenSeq(commands)))

\* After the reset; a game's pictures and its first RSP program are in place.
Init ==
    /\ guest \in Guests
    /\ imem = Image(guest.programs[1])
    /\ pc = 0 /\ next_pc = 1 /\ branch_pending = FALSE
    /\ halted = TRUE /\ broke = FALSE
    /\ dmem = [i \in 0 .. DmemCells - 1 |-> Nop] /\ area = <<>>
    /\ dp_start = 0 /\ dp_end = 0 /\ dp_current = 0 /\ dp_status = {} /\ list = Idle
    /\ due = <<>> /\ loaded = {} /\ given = 0
    /\ dram = guest.pictures
    /\ ResetRdp

-----------------------------------------------------------------------------
(* The registers of the display processor.                                   *)

WriteStart(at) ==
    /\ dp_start' = at /\ dp_current' = at
    /\ dp_status' = dp_status \cup {"start_valid"}
    /\ UNCHANGED <<dp_end, list>>

\* DP_END: with a valid START it runs the list.
WriteEnd(at) ==
    /\ dp_end' = at
    /\ dp_status' = dp_status \cup {"end_valid"}
    /\ list' = IF "start_valid" \in dp_status /\ at > dp_start /\ "freeze" \notin dp_status
               THEN [at |-> dp_start, stop |-> at, xbus |-> "xbus" \in dp_status]
               ELSE Idle
    /\ UNCHANGED <<dp_start, dp_current>>

\* DP_STATUS: of a pair of bits, set comes after clear.
WriteDpStatus(clear, set) ==
    /\ dp_status' = (dp_status \ clear) \cup set
    /\ UNCHANGED <<dp_start, dp_end, dp_current, list>>

\* read_cmd64.
Cell(at) == IF list.xbus THEN dmem[at % DmemCells] ELSE FlattenSeq(area)[at + 1]

Working == list # Idle
Command == Cell(list.at)
Whole == IF IsPair(Command) THEN <<Command, Cell(list.at + 1)>> ELSE <<Command>>

AfterOneWord == list.at + 1                      \* mutant: the second word is run too
After == list.at + Len(Whole)

\* A list ends at its end, or before a texture rectangle that it cuts.
AtEnd == IF list.at < list.stop THEN IsPair(Command) /\ list.at + 2 > list.stop ELSE TRUE

\* What a tile shows when it is drawn: the texels of the picture it came from.
Texels(c) ==
    LET bpp == BytesPerTexel(texture.size)
        sl == c.sl \div 4
        tl == c.tl \div 4
    IN [st \in (0 .. Extent(sl, c.sh \div 4) - 1) \X (0 .. Extent(tl, c.th \div 4) - 1) |->
          [j \in 1 .. bpp |->
             dram[(texture.address + ((tl + st[2]) * texture.width + sl + st[1]) * bpp + j - 1)
                    % RdramBytes]]]

\* A tile that lies in TMEM without rows that overlap or wrap.
Fits(c) ==
    LET row == Extent(c.sl \div 4, c.sh \div 4) * BytesPerTexel(texture.size)
        line == 8 * tiles[c.tile].line
    IN /\ texture.valid /\ line >= row
       /\ 8 * tiles[c.tile].tmem + (Extent(c.tl \div 4, c.th \div 4) - 1) * line + row
            <= TmemBytes

Loaded(c) ==
    CASE c.op = "load_tile" /\ Fits(c) ->
           {[tmem |-> tiles[c.tile].tmem, line |-> tiles[c.tile].line,
             size |-> texture.size, texels |-> Texels(c)]}
      [] c.op \in {"load_tile", "load_block"} -> {}
      [] OTHER -> loaded

\* The next command of the list.
RunCommand ==
    /\ Working /\ ~AtEnd
    /\ Execute(Command, Whole[Len(Whole)])
    /\ list' = [list EXCEPT !.at = After]
    /\ due' = IF due # <<>> /\ Head(due) = Whole THEN Tail(due) ELSE Append(due, Whole)
    /\ loaded' = Loaded(Command)
    /\ UNCHANGED <<guest, rsp, dmem, area, dp_start, dp_end, dp_current, dp_status, given>>

\* The rest of run_commands: START has to be written again.
EndList ==
    /\ Working /\ AtEnd
    /\ list' = Idle
    /\ dp_start' = dp_end /\ dp_current' = dp_end
    /\ dp_status' = dp_status \ {"start_valid", "end_valid", "flush"}
    /\ UNCHANGED <<guest, rsp, dmem, area, dp_end, due, loaded, given, rdpVars>>

-----------------------------------------------------------------------------
(* The RSP.                                                                  *)

\* What an instruction does besides control.
Effects(insn) ==
    /\ dmem' = IF insn.op = "store" THEN [dmem EXCEPT ![insn.cell] = insn.value] ELSE dmem
    /\ CASE insn.op = "start" -> WriteStart(insn.at)
         [] insn.op = "end" -> WriteEnd(insn.at)
         [] insn.op = "dp_status" -> WriteDpStatus(insn.clear, insn.set)
         [] OTHER -> UNCHANGED dp
    /\ due' = IF insn.op = "end" THEN insn.list ELSE due

Stops(insn) == insn.op \in {"break", "halt"}

\* next_pc_ and branch_pending_ as execute leaves them.
Outcomes(insn) ==
    LET falls == <<IF branch_pending THEN next_pc ELSE Wrap(pc + 1), branch_pending>>
    IN CASE insn.op = "jump" -> {<<insn.to, TRUE>>}
         [] insn.op = "conditional" -> {<<insn.to, TRUE>>, falls}
         [] OTHER -> {falls}

\* Where an instruction that ended with next and pending leaves the RSP.  BREAK
\* and MTC0 of a halt leave pc at the instruction; BREAK drops the branch.
Advance(insn, next, pending) ==
    IF Stops(insn) THEN /\ next_pc' = next
                        /\ branch_pending' = (pending /\ insn.op # "break")
                        /\ UNCHANGED pc
    ELSE IF pending /\ ~branch_pending
    THEN pc' = Wrap(pc + 1) /\ next_pc' = next /\ branch_pending' = TRUE
    ELSE pc' = next /\ next_pc' = Wrap(next + 1) /\ branch_pending' = FALSE

\* Rsp::step.
RspStep ==
    /\ ~Working /\ ~halted
    /\ LET insn == imem[pc]
       IN /\ insn.op = "end" => "freeze" \notin dp_status
          /\ Effects(insn)
          /\ \E outcome \in Outcomes(insn) : Advance(insn, outcome[1], outcome[2])
          /\ halted' = Stops(insn)
          /\ broke' = (broke \/ insn.op = "break")
    /\ UNCHANGED <<guest, imem, area, loaded, given, rdpVars>>

-----------------------------------------------------------------------------
(* The CPU.                                                                  *)

Cpu(op) == ~Working /\ op \in guest.cpu

\* SP_STATUS, with WrSetHalt.
SetHalt ==
    /\ Cpu("halt")
    /\ halted' = TRUE
    /\ UNCHANGED <<guest, imem, pc, next_pc, branch_pending, broke, dmem, area, dp, due,
                   loaded, given, rdpVars>>

ClearHaltAtSlot ==                               \* mutant: as after SP_PC
    /\ Cpu("resume")
    /\ halted' = FALSE /\ broke' = FALSE
    /\ next_pc' = Wrap(pc + 1) /\ branch_pending' = FALSE
    /\ UNCHANGED <<guest, imem, pc, dmem, area, dp, due, loaded, given, rdpVars>>

\* SP_STATUS, with WrClearHalt.
ClearHalt ==
    /\ Cpu("resume")
    /\ halted' = FALSE /\ broke' = FALSE
    /\ UNCHANGED <<guest, imem, pc, next_pc, branch_pending, dmem, area, dp, due, loaded,
                   given, rdpVars>>

\* SP_PC: a program is started from its beginning.
WritePc ==
    /\ Cpu("pc")
    /\ pc' = 0 /\ next_pc' = 1 /\ branch_pending' = FALSE
    /\ UNCHANGED <<guest, imem, halted, broke, dmem, area, dp, due, loaded, given, rdpVars>>

\* SP DMA of another program into IMEM, under the halted RSP.
LoadImem(program) ==
    /\ Cpu("load") /\ halted /\ pc = 0 /\ ~branch_pending
    /\ imem' = Image(program)
    /\ UNCHANGED <<guest, pc, next_pc, branch_pending, halted, broke, dmem, area, dp, due,
                   loaded, given, rdpVars>>

\* The stores that make a list in RDRAM.
PutList(commands) ==
    /\ Cpu("lists") /\ given < MaxLists
    /\ area' = commands
    /\ given' = given + 1
    /\ UNCHANGED <<guest, rsp, dmem, dp, due, loaded, rdpVars>>

\* The CPU gives a list when the RSP is not giving one.
CpuMay(op) == Cpu(op) /\ ((halted /\ pc = 0) \/ broke)

CpuStart ==
    /\ CpuMay("lists") /\ area # <<>>
    /\ WriteStart(0)
    /\ UNCHANGED <<guest, rsp, dmem, area, due, loaded, given, rdpVars>>

CpuEnd ==
    /\ CpuMay("lists") /\ "start_valid" \in dp_status /\ dp_start = 0 /\ area # <<>>
    /\ dp_status \cap {"freeze", "xbus"} = {}
    /\ WriteEnd(Len(FlattenSeq(area)))
    /\ due' = area
    /\ UNCHANGED <<guest, rsp, dmem, area, loaded, given, rdpVars>>

CpuDpStatus(clear, set) ==
    /\ CpuMay("dp_status")
    /\ WriteDpStatus(clear, set)
    /\ UNCHANGED <<guest, rsp, dmem, area, due, loaded, given, rdpVars>>

Next ==
    \/ RunCommand \/ EndList \/ RspStep
    \/ SetHalt \/ ClearHalt \/ WritePc
    \/ \E program \in Range(guest.programs) : LoadImem(program)
    \/ \E commands \in guest.lists : PutList(commands)
    \/ CpuStart \/ CpuEnd
    \/ \E clear \in SUBSET {"freeze", "xbus"}, set \in SUBSET {"freeze", "flush"} :
          CpuDpStatus(clear, set)

Spec == Init /\ [][Next]_vars

-----------------------------------------------------------------------------
(* Properties.                                                               *)

\* Every list runs as it was meant: all its commands, once, in order, a texture
\* rectangle with its second word, whether it lies in RDRAM or round the end of
\* the part of DMEM that the RSP fills again and again, and wherever the CPU
\* halts, resumes or restarts the RSP (write of DP_END, run_command_list).
ListsRunAsMeant == ~Working => due = <<>>

Target == IF branch_pending THEN next_pc ELSE NoTarget
Following(address) == Wrap(address + 1)
Flow == INSTANCE ProgramFlow WITH code <- imem, at <- pc, target <- Target

\* The RSP runs its program in the order of the architecture, a branch, its delay
\* slot, its target, through every halt and resume between two of them; only
\* SP_PC takes it elsewhere, and a stop leaves it at the instruction that stopped.
RspFollowsProgram ==
    [][IF RspStep /\ ~halted' THEN Flow!Complete
       ELSE WritePc \/ UNCHANGED <<pc, Target>>]_vars

\* The byte at a is of a pixel inside the scissor, inside the image's width and
\* touched by the rectangle c.
Touched(v, h, l) == 4 * v + 4 > Min({h, l}) /\ 4 * v < Max({h, l})
Inside(a, c) ==
    LET bpp == IF color.size = 2 THEN 2 ELSE 4
        x == ((a - color.address) \div bpp) % color.width
        y == ((a - color.address) \div bpp) \div color.width
    IN /\ a >= color.address
       /\ scissor.set => x >= scissor.xh /\ x < scissor.xl /\ y >= scissor.yh /\ y < scissor.yl
       /\ Touched(x, c.xh, c.xl) /\ Touched(y, c.yh, c.yl)

\* A list changes nothing in RDRAM but pixels of the colour image in force, inside
\* the scissor, inside the image's width and touched by the rectangle drawn.
DrawsInside ==
    [][\A a \in DOMAIN dram : dram'[a] # dram[a] =>
         /\ Working /\ Command.op \in {"fill_rectangle", "texture_rectangle"}
         /\ Inside(a, Command)]_vars

PixelAt(x, y, bpp) == [j \in 1 .. bpp |-> dram[Address(x, y, bpp) + j - 1]]

Drawn(c) ==
    {xy \in Places(c) :
       /\ ClipPoint(xy[1], xy[2])
       /\ LET bpp == BytesPerTexel(color.size)
          IN Address(xy[1], xy[2], bpp) + bpp <= RdramBytes}

\* A fill leaves the fill word in every word of memory that it covers, whatever the
\* width of the image (write_fill_pixel).
FillsAsAsked ==
    [][Working /\ ~AtEnd /\ Command.op = "fill_rectangle" /\ color.valid /\ color.size \in {2, 3} =>
         \A w \in {a \in DOMAIN dram : a % 4 = 0} :
            (\A a \in w .. w + 3 : \E xy \in Drawn(Command) :
                a - Address(xy[1], xy[2], BytesPerTexel(color.size))
                  \in 0 .. BytesPerTexel(color.size) - 1)
            => \A j \in 0 .. 3 : dram'[w + j] = fill[j + 1]]_vars

\* A tile that was loaded is drawn texel by texel as the picture was when it was
\* loaded, whatever lists, images, tiles and scissors came between, if it fits in
\* TMEM and is drawn in its own size and format (LoadTile, sample_tile and
\* write_color_pixel agree).
ShowsWhatWasLoaded ==
    [][Working /\ ~AtEnd /\ Command.op = "texture_rectangle" /\ color.valid =>
         \A l \in loaded : \A xy \in Drawn(Command) :
            LET tile == tiles[Command.tile]
                lo == Whole[2]
                st == <<(lo.s \div 32) + xy[1] - Min(Columns(Command)),
                        (lo.t \div 32) + xy[2] - Min(Rows(Command))>>
            IN (/\ tile.tmem = l.tmem /\ tile.line = l.line /\ tile.size = l.size
                /\ tile.defined /\ tile.mask_s = 0 /\ tile.mask_t = 0
                /\ l.size = color.size /\ l.size \in {2, 3}
                /\ lo.dsdx = 1024 /\ lo.dtdy = 1024
                /\ st \in DOMAIN l.texels)
               => PixelAt(xy[1], xy[2], BytesPerTexel(l.size))' = l.texels[st]]_vars

\* A list shows what was asked for: fills and tiles (execute_command).
ShowsWhatIsAsked == FillsAsAsked /\ ShowsWhatWasLoaded
=============================================================================
