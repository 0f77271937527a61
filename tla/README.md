# n64emu: TLA+ models and proofs

n64emu is a Nintendo 64 emulator in C++20: an interpreter of the VR4300 with a
cache of basic blocks, the RSP and its DMA, the registers of the reality
co-processor (RCP), a video and an audio interface, a debugger and an SDL front
end.  This directory holds a TLA+ model of the parts of it whose correctness
depends on the order of events: what two processors, several devices, a debugger
and an audio thread do to shared state.  TLC checks the models on small
instances, and TLAPS proves the properties that matter most for every value of
the constants.

## 1. The system

Paths are relative to the repository.  Everything but the audio callback runs in
one thread: `Application::run` calls `Emulator::run_frame` once a picture, which
runs the CPU and then the RSP in slices of at most 32 instructions
(`kDeviceBatch`), and then tells the devices how much time has passed.  Nothing
is interrupted in the middle of an instruction.  The difficulty is elsewhere:

* the guest's program is unknown, so any instruction may follow any other, on two
  processors that program the same devices;
* the same fact is kept in several places (a device's status and the MI's line,
  the SP's flags in `SpRegisters` and in `Rsp`, DMEM and IMEM in `Bus` and in
  `Rsp`, memory and the blocks compiled from it, four clocks), and every handler
  must update all of them;
* the audio callback runs in SDL's thread and shares a ring with the emulator with
  two atomics and no lock.

| component | state | operations | interacts with |
|---|---|---|---|
| CPU (`src/src/cpu/cpu.cpp`) | registers, COP0, TLB, `pc_`, `next_pc_`, `branch_pending_` | `run`, `execute_block`, `step`, `raise_exception`, ERET, TLB and COP0 moves | bus for every access, block cache, MI through Cause.IP2 |
| Block cache (`cpu/block_cache.cpp`) | a direct table of blocks, a vector of aliased slots, a count | `lookup`, `compile`, `invalidate`, `clear` | told of writes by `Bus::notify_memory_write`, cleared by TLB and COP0 writes |
| FPU (`cpu/cop1.cpp`) | registers and FCR31 | IEEE arithmetic | CPU |
| Bus (`bus/bus.cpp`) | RDRAM, DMEM, IMEM, the register blocks | 8 to 64 bit reads and writes, address decoding, mirroring | everything |
| MI (`bus/mi.cpp`) | raised lines, mask, mode | `raise`, `clear`, register writes, `notify` | every device, Cause.IP2 |
| PI, SI (`bus/pi.cpp`, `bus/si.cpp`) | addresses, lengths, an interrupt latch | DMA within the write that starts it | cartridge, PIF RAM, RDRAM, block cache, MI |
| SP registers (`bus/sp_regs.cpp`) | status, DMA addresses, semaphore, pc | writes by CPU and RSP, DMA | RSP, RDRAM, MI |
| DP registers (`bus/dp_regs.cpp`) | start, end, current, status | writes by CPU and RSP | RDP, MI |
| RSP (`rcp/rsp/*.cpp`) | scalar and vector registers, its copies of DMEM, IMEM and flags | `run`, `step`, BREAK, COP0 moves | SP and DP registers, bus |
| RDP (`rcp/rdp/rdp.cpp`) | colour and texture image, scissor, fill colour, eight tiles, TMEM | a display list at a time: registers, loads into TMEM, fill and texture rectangles | DP registers, DMEM or RDRAM for the list, RDRAM, MI |
| VI (`vi/vi.cpp`) | registers, the half-line, `frame_ready` | `tick`, register writes, scan-out | MI, emulator |
| AI (`ai/ai.cpp`) | registers, two DMAs, the sample ring | `tick`, register writes, `push_frame`, `pull_frames` | MI, RDRAM, audio output |
| PIF and boot (`pif/*.cpp`) | 64 bytes of RAM, controllers | joybus commands, booting from the cartridge or a PIF ROM | SI, CPU, RSP, bus, files |
| Cartridge (`cart/header.cpp`) | ROM image, header | byte-order detection, parsing | PI |
| Emulator (`core/emulator.cpp`) | cycle counters, `device_debt`, the configuration, header and timing of the last boot | `load_rom`, `boot`, `reset`, `run_cycles`, `run_frame` | everything |
| Scheduler (`core/scheduler.cpp`) | clock, event queue | `advance`, `dispatch_due` | emulator; nothing ever schedules an event |
| Debugger (`debug/debugger.cpp`) | pause, steps left, breakpoints, watchpoints, traces | asked before and told after every instruction | emulator, CPU, bus |
| Front end (`frontend/*.cpp`) | window, input, audio device | the main loop, the audio callback | emulator, AI ring |

What makes each correct, in short: the CPU executes the program in its order
whatever interrupts it; no block is executed that memory no longer holds, or where
its page is no longer mapped; what refused an access is what the handler finds and
repairs; SC is atomic; a display list runs once, whole and in order, and draws what
it asks for where it may; the CPU sees an interrupt exactly while an unmasked line is raised, and every
enabled one is served; the two views of the SP agree; the ring neither loses,
tears, repeats nor reorders what it accepted; the clocks agree and the calls of
the main loop return.  `PROJECT.json` lists, under "hazards", the lines where
each of these could go wrong and the properties that would notice.

## 2. The modules

| module | models | state |
|---|---|---|
| `AudioRing` | `push_frame` and `pull_frames`, every access to shared memory a step | slots, both cursors, where each thread stands, histories of what was accepted and delivered |
| `LossyFifo` | what the ring promises: a bounded queue that rejects the newest frame when full | queue, frames lost, frames played |
| `RcpInterrupts` | MI, the interrupt bits of COP0, and the interrupt side of PI, SI, SP, DP, VI and AI | lines, mask, Cause, Status, latches, both copies of SP_STATUS, lines of VI, audio DMAs |
| `BlockCache` | the block cache with compilation, replacement, both sweeps of `invalidate`, stores through every segment, DMA and the TLB | memory, TLB, the cache object |
| `ProgramFlow` | the order in which a program's instructions complete, as the architecture gives it | the next instruction, the branch target behind a delay slot |
| `Interpreter` | `Cpu::step` with branches, likely branches, delay slots, faults, traps, interrupts, ERET | memory of instructions, `pc_`, `next_pc_`, `branch_pending_`, EXL, EPC, BD, IE, Count |
| `CachedBlocks` | `Cpu::run` and `execute_block` over `Interpreter`, with the blocks that `lookup` finds, `compile` puts into the table and stores, TLB writes and Status drop from it | the table of blocks, the block that runs and how far it is |
| `AddressSpace` | `translate_address`, the TLB instructions, MTC0 to the registers of the TLB and to Status, `raise_exception`, ERET, `advance_count`'s Random, LL and SC, and the blocks `Cpu::run` finds by virtual address | TLB, Index, Random, Wired, EntryHi, EntryLo, Status, pages of `pc_`, EPC and ErrorEPC, `ll_bit_`, `ll_addr_`, blocks, the running block; histories of the last fault, of who read what with LL, of the last SC |
| `Unaligned` | LWL, LWR, SWL, SWR and their eight-byte forms, of the CPU and of the RSP | memory, the register, the half of a pair that was done |
| `SpTask` | SP memory and its two copies, the DMA engine, the semaphore | both copies, RDRAM, DMA addresses, semaphore, who holds it |
| `Rdp` | the commands of the display processor: `copy_rdram_to_tmem`, `sample_tile`, `write_color_pixel`, the rectangles, the registers | RDRAM, TMEM, both images, scissor, tiles, fill colour |
| `GraphicsTask` | over `Rdp`: `run_commands` and `run_command_list`, the DP registers, `Rsp::step` with branches, BREAK and halts, and the CPU that stops, starts and loads the RSP or gives lists itself | IMEM, the RSP's `pc_`, `next_pc_`, `branch_pending_`, `halted_`, `broke_`, the lists in DMEM and RDRAM, the DP registers, the list that runs; histories of what is meant to run and of the tile that was loaded |
| `Joybus` | `Pif::process_joybus` over a block of bytes, the SI's DMA in both directions, stores to PIF RAM, controllers that come and go | the PIF's RAM and Bus's copy, the game's block in RDRAM, the controllers, what the game meant by each block |
| `Boot` | `load_rom`, `load_rom_bytes`, `boot`, `reset` and `hle_boot_loaded`, with each of their failures | the images, what every memory holds, which components a game has used, what the emulator says of the machine |
| `EmulatorLoop` | `run_frame`, `run_cycles`, the device debt, `VideoInterface::tick`, the debugger | debugger, clocks, beam, the call that runs |

`MC*` modules give the constants of the instances; `*Proofs` modules hold the
theorems of the module they are named after, but `MemoryProofs` holds those of `SpTask`
and `BlockCache`, `EmulatorProofs` those of `Boot` and `EmulatorLoop`, and
`GraphicsProofs` those of `GraphicsTask`.  Definitions keep the names of the code where
they can; `PROJECT.json` ("map") gives the lines of each.  A definition marked as a mutant is a plausible bug: put in the place of the
definition after it, it violates one of the properties, which is how we know
that the property looks at that piece of the code.

How the parts meet: `CachedBlocks` extends `Interpreter` and instantiates
nothing but what the interpreter promises; `Interpreter` and
`GraphicsTask` instantiate `ProgramFlow`, one for the CPU and one for the RSP, whose
addresses wrap at the end of IMEM (`Following`), and
`AudioRing` instantiates `LossyFifo`, each with a refinement mapping.
How a write finds the blocks that it overlaps is `BlockCache`; that the blocks found
again and the one that runs are then what memory holds is `CachedBlocks`; that it is the block of the page that
`pc_` is mapped to is `AddressSpace`.  `RcpInterrupts` decides when a line
is raised and delivered (the devices of a behaviour, `in_use`, are chosen once), and
`Interpreter` what an interrupt does to the program; `EmulatorLoop` says when the
devices of `RcpInterrupts` get their time.  An SI
transfer is seen from three sides: what it moves and answers in `Joybus`, its
status and interrupt in `RcpInterrupts`, the code it overwrites in `BlockCache`.

### Abstractions

* One CPU or RSP instruction, one tick of a device or one iteration of a loop is
  an action, since nothing runs in between.  In `AudioRing`, which is the one place
  with two threads, an action is one load or store of shared memory; the loads
  acquire and the stores release, so interleaving them in one order loses nothing.
* DMAs, display lists and joybus exchanges are over when the store that starts them
  returns, as in the code, and are part of that store's action.
* Slices are not modelled in `RcpInterrupts` and `SpTask`: the processors interleave
  freely, which contains every slicing.
* Instructions are their kinds.  Data that decides a branch or a fault is a free
  choice.  VI lines are whole lines (`V_CURRENT` and
  `V_INTR` hold half-lines, and the code moves by two), memory is a few cells.
* `Interpreter` counts addresses in words.  A CPU that has jumped to an address that is
  not a multiple of four goes on four bytes at a time, so such addresses are words of
  their own, `Unaligned`, numbered apart; `fetch` raises an exception there
  (`Fetches`), `compile` reads two halves of words.
* `CachedBlocks` takes words that follow each other to do so in memory too, and leaves
  how `invalidate` finds the blocks, and which it misses, to `BlockCache`.
* `Joybus` keeps bytes, since a length, a mark and a command differ only by where
  they stand; but a game's block is stated as a list of packets, and what it should
  become is computed from the list and the controllers, not from the bytes.  The
  game's block is at one address, `SI_DRAM_ADDR`, and it leaves it alone while it
  copies it byte by byte.  The pad of channel 0 may be unplugged, as
  `Pif::set_controller` allows, although `Input` only ever moves it.
* `AddressSpace` counts memory in pages, since translation never looks below a page,
  and knows a block by its page and frame.  A program is the set of the instructions
  and operands it uses, in any order.
* In `GraphicsTask` the commands of a list are steps of their own with everything else
  standing still, which is what running the list inside the store of DP_END amounts
  to, so that properties can look at each command.  A command is a record of the
  fields that the code takes from its bits.  `area` holds the lists that the CPU puts
  in RDRAM, apart from the pictures.  What an RSP program computes is left out.
* `Unaligned` takes a word to be the sequence of its bytes.
* Counters are bounded: `MaxPushes`, `MaxWrites`, `MaxLists`, `ClockRange`, `CountRange`
  and `DramRange` (where the code's 64, 32 or 24 bits wrap round).

## 3. What is checked

| run | question | instance |
|---|---|---|
| `audio_ring` | Is the lock-free ring a FIFO?  `NoDataRace`: no slot is read while it is written.  `DeliveredInOrder`: SDL gets what was accepted, whole and in order.  `UnreadUntouched`: no step changes an unread slot.  `ImplementsLossyFifo`: refinement, liveness included. | 4 slots, 9 pushes, requests of 0, 1, 3 and 5: the cursors pass the end of the ring more than twice, and the ring is full, empty and overrun |
| `rcp` | Does Cause.IP2 follow MI (`IrqLevel`), do latches and lines agree (`StatusAgreement`), do the two copies of SP_STATUS (`SpAgreement`)?  Is every enabled interrupt served (`InterruptsServed`), does the vertical interrupt recur (`VerticalRecurs`), is each audio DMA answered (`AudioAnswered`)? | PI, SI, SP and DP with both processors and every combination of commands that conflict, or VI with frames of 2 and 3 lines and AI with its two DMAs; resets at any time; under fairness; 117,532 states |
| `rcp_display` | Can the guest lower the DP line?  It cannot: see findings. | DP, a guest that keeps writing |
| `block_cache` | Do the count and the list of aliased slots say what the table holds (`BookkeepingAgrees`), and is no block stale whose bytes are where `invalidate` looks (`TrackedCoherent`)? | 6 words of RDRAM in pages of 3, 5 of them reached directly, a table of 4, blocks of 2 and a delay slot, one mapped page, 2 writes |
| `cached_blocks` | Is what runs what memory holds (`ParityWithMemory`), is running blocks the same as stepping (`ImplementsInterpreter`), are exceptions precise (`PreciseExceptions`)?  For programs that spare the rest of the running block in their stores, while blocks lie at multiples of four (`SparingSpec`). | 540 loops of six words with faults, traps, masked interrupts, taken, untaken and likely branches, unmapped words, and a store in the middle of a block, into the words before and after it and into other blocks; blocks of 3 and a delay slot in pages of 4, a table of 2 where they replace each other and are found again; a jump to an address between two words, where `step` raises an exception; a handler that steps over traps and maps pages; 1,062,432 states |
| `address_space` | Does a block only run where and as its page is mapped (`RunsWhatIsMapped`, for programs that go only where their mode may, `Stray = FALSE`), does TLBWR spare the wired entries (`RandomSparesWired`), does TLBP in a handler name the entry that refused the access (`ProbeNamesTheFault`) and the write that follows repair it (`WriteRepairs`), is SC atomic (`ScAtomic`)? | two entries, pages of one and of two; four user pages, one of KSEG0, two each of SSEG and KSEG3; four frames, two ASIDs; four guests, that map and compile, refill and probe, share a word, change modes; 299,436 states |
| `graphics_task` | Does every list run as it was meant (`ListsRunAsMeant`), does the RSP follow its program through halts and restarts (`RspFollowsProgram`), does drawing stay inside scissor, image and rectangle (`DrawsInside`), does it show the fill word and the loaded texels (`ShowsWhatIsAsked`, which is `FillsAsAsked` and `ShowsWhatWasLoaded`)? | 32 bytes of RDRAM with pictures of 16, 32 and 8 bits, 16 bytes of TMEM, two tiles; up to six lists from the CPU; an RSP program of 14 instructions that gives lists from a ring of 4 commands, under a CPU that halts, resumes, restarts and reloads it; 188,792 states |
| `unaligned` | Do LWL and LWR load the word they are used for?  They do not: see findings. | two words of memory, words of 4 bytes |
| `sp_task` | Do the two SP memories agree (`CopiesAgree`), does the semaphore exclude (`SemaphoreExclusion`), does its holder get the transfer it programmed (`DmaAsProgrammed`)? | banks and RDRAM of 2 cells, transfers that wrap and that skip |
| `joybus` | Does each channel get its own controller's answer and nothing else move (`AnswersRight`), does the control byte survive (`ControlKept`), is an answered block sent again answered like a fresh one (`AnswersForgetTheLast`), do the two copies of PIF RAM agree (`MirrorsAgree`)? | 16 bytes, room for two full packets; five lists with skips, resets, padding, every kind of command and room for the answer or more; seven malformed blocks, with answers that end just below the control byte and one past it; a pad that moves and is unplugged |
| `boot` | Does the emulator say of a booted machine what is so (`AsDescribed`), is nothing of a game left after a load or a reset (`NothingSurvives`), does compiled code outlive the memory a boot overwrites (`CodeCurrent`)? | four images, of two regions and two chips, one that ends in its IPL3 and one without a header; two PIF ROM files that may be missing; seven configurations, one for each decision of the boot |
| `emulator_loop` | Do the clocks agree (`ClocksAgree`), is a frame reported once (`FrameReportedOnce`), are breakpoints met (`BreakpointHonoured`) and passed (`StopsOnce`), are steps counted (`StepsExact`), do calls return (`CallsReturn`)? | two addresses, batches of 2, lines of 3, a budget of 5 and a limit of 8, steps of 1 and 2 |

Most modules have a type invariant, `TypeOK`, that also bounds what the code
indexes with.  Where a `*Proofs` module has a theorem `TypeCorrect` it holds for every
instance, and no run repeats it.

**Why the bounds are enough.**  Each instance is chosen so that every quantity
that wraps, fills or runs out does so: the ring more than twice, the block table
with fewer slots than words, banks shorter than a transfer, a batch that does not
divide a line, a limit that two short frames fit in, a block of bytes that two
packets fill, a TLB in which a large page hides a small one and in which every entry
but one may be wired, a ring of commands that a texture rectangle crosses the end of.  Devices that interact only
through MI are checked a few at a time (`InUse`); the invariants of MI are proved
for all at once.  Two addresses suffice for the debugger, that compares one with
the next.

**Fairness.**  `AudioRing`: a `push_frame` that began ends, and SDL calls an open
device's callback again; nobody is obliged to push.  `RcpInterrupts`: the CPU
executes and VI and AI get ticks, because `step_cpu_rsp` always runs at least one
instruction and its callers flush the debt; resets may come at any time, as often as
they like, and `VerticalRecurs` is about a game that leaves V_INTR and V_SYNC alone,
`AudioAnswered` about transfers that no reset cuts off.  The guest is under no
obligation except in `GuestSpec`, the run that asks what a guest that keeps trying
can reach.  `EmulatorLoop`: a call that began goes on and the main loop calls
`run_frame` unless the debugger is paused (`Application::run`); the keys may be
left alone for ever.

## 4. What is proved

For every value of the constants allowed by the named assumptions of each module:

* `AudioRingProofs`: `TypeCorrect`, `RaceFree`, `Delivery`, `UnreadStaysUntouched`
  and `Refinement` (every behaviour of the ring is one of `LossyFifo`).  The
  properties are not inductive.  `IInv` adds that the cursors are never more than
  `RingFrames` apart (`Cursors`), where each thread stands and what it still has to
  copy (`Pushing`, `Pulling`), that cursors are the lengths of the histories
  (`Histories`), that the unread slots hold the accepted frames (`Unread`) and that
  the callback's buffer holds their prefix (`Copied`).  The arithmetic it rests on
  is one lemma, `SlotsDiffer`: two indices less than the ring apart have different
  slots.
* `RcpInterruptsProofs`: `TypeCorrect`, `IrqFollowsMi`, `DevicesAgree`,
  `ProcessorsAgree`.  Every step moves MI in one of four ways (`MiSteps`), all of
  which end in `notify`; the rest goes device by device.
* `MemoryProofs`, of SP memory: `OneSpMemory`, `SemaphoreExcludes` and
  `DmaFollowsItsProgram`.  A DMA is a loop over bytes within one over lines; `OneByOne`
  (what holds before a loop and after each round always holds) and `Recursion` (the
  function that states the loop exists) are inductions over sets and over functions,
  and with them the addresses that the loops leave are those of the closed form.
  Of the block cache: `BookkeepingAgreed` and `NoStaleCode`.  `Sound` joins the types
  with three facts: the vector and the positions in the slots point at each other
  (`Linked`), a slot is in the vector exactly when its block was compiled at a mapped
  address (`Exact`), and the count is the number of valid slots (`Counted`).  Every
  sweep of `invalidate` keeps it, though it moves the last of the vector to where it
  removes one; the second sweep ends because what it has left to look at shrinks with
  every round.  For `NoStaleCode`, a block that is not in the vector lies where its address
  says, in the slot of that address (`Placed`), so that the first sweep, which looks at the slots of the words
  written and of those a block can reach back from, meets it (`DirectCandidate`).  The
  theorem assumes `~WritesWrap`, see section 5.
* `JoybusProofs`: `TypeCorrect`, `RequestServedOnce`, `OnePifRam`,
  `RequestsForgetTheLast` and `ListsAnswered`.  The argument for the first three is
  about the walk: from any cursor at or below the control byte and any bytes,
  `process_channel` leaves bytes, a cursor no further than the control byte and
  the control byte itself (`Walks`).  `IInv` adds to the three properties that the
  last byte of the game's block is what the game wrote (`HeldControl`), without
  which a transfer could bring a byte nobody meant.  The lists and the odd blocks
  are arbitrary as long as they are blocks of bytes (`ListsAssumption`,
  `BlocksAssumption`).  For the other two, the walk is taken apart: where each channel
  begins (`CursorAt`, `Ahead`) and which bytes it leaves (`Replied`) are functions of
  the block alone, and they do not read the bytes of an answer nor the mark on its
  length, so that blocks that differ only there (`Alike`) are walked alike
  (`AlikeAnswered`).  `RequestsForgetTheLast` follows for blocks whose packets ask for
  as much as the answer takes (`BlocksLeaveRoom`), which every transfer keeps
  (`RoomInv`).  For `ListsAnswered` the bytes that a list lays out are followed packet
  by packet (`LaidBytes`, `ItemWalked`, `ListServed`); a block that is sent again
  differs from a fresh one in answers only (`ContentServed`); and what the program has
  stored byte by byte is a prefix of its block (`CopiedSoFar`).  It is about lists that
  are well formed and fit (`ListsGood`).  Both hypotheses were evaluated for the lists
  and blocks of `MCJoybus`, and hold.
* `EmulatorProofs`, of `Boot`: `TypeCorrect`, `DescribesTheMachine`, `RestartsAreClean` and
  `CodeStaysCurrent`, for every set of images, PIF ROMs and configurations.  The
  first two need that the stored configuration is one, since `reset` and `load_rom`
  change a field of it, and that the machine is a record of its fields (`BootInv`).  The
  argument for the third is that a boot of a machine that was just reset adds the
  program of the cartridge and its own values and nothing else (`BootOfUnplayed`),
  and for the fourth that a boot clears the cache before it writes or fails
  (`BootClears`).
  Of `EmulatorLoop`: `StepsAreExact`, `PausedIsFrozen`, `BreakpointsHold`,
  `BreakpointsStopOnce`, `ClocksStayTogether` and `FramesReportedOnce`.  Every step is, for the debugger, one of five
  (`StepKinds`); the invariant `DebuggerInv` says what a pause leaves behind and
  that an address to be skipped is the one stopped at.  For the clocks, `ClockInv` adds
  that what the devices are owed stays below a batch, which is no longer than a line,
  and is nothing outside `run_cycles` under the debugger; so that `tick`, which ends one
  line at most, is never handed more (`FlushKeeps`).  The wrapping rests on three facts
  of arithmetic (`AddToClock`, `WrapKeepsPhase`, `BeamMoves`).  For the frames,
  `FrameInv` says that between two slices of `run_frame` none is complete: a slice ends
  at most one (`SliceReports`), and one that does ends the call.
* `AddressSpaceProofs`: `TypeCorrect`, `BlocksRunAsMapped`, `WiredEntriesStay`,
  `ConditionalStoresAreAtomic`, `ProbeFindsFault` and `RefillsRepair`, for every number
  of entries, pages and frames, every size of large page and every set of guests.
  `IInv` joins the type with what each needs.  Blocks: every block that lookup finds
  is what its page is mapped to by TLB and ASID (`BlocksMapped`), since each step that
  touches either also empties the cache and forgets the fault (`MappingKept`).  The
  mode is not part of that, so `BlocksRunAsMapped` assumes `~Stray` and carries beside
  it that `pc_` is where the mode may go.  SC: while `ll_bit_` is set, the flow that
  executes has read the frame in `ll_addr_` and nobody has stored to it since
  (`Reservation`), because exceptions and ERET, the ways from one flow to the next,
  clear the bit.  Faults: as long as EntryHi tells of the last fault, the lowest entry
  that matches its page is the one remembered (`FaultTold`); `PairOfPage` says that the
  pair of pages in EntryHi and the page itself fall into the same large page, which is
  where the two matching loops meet.
* `CachedBlocksProofs`: `ParityMakesInterpreter`: as long as the running block is
  what memory holds and lies at multiples of four (`BlocksAligned`), `Cpu::run` does what
  `Cpu::step` does, for every program and every size of block, page and table.
  `BlocksHoldMemory` says when memory holds the block: if the program
  stays where there are words (`StaysInside`) and its stores leave alone what is left
  of the block that they are in (`StoresSpareBlock`).  Some programs violate
  this or alignment, see section 5.  `BlockInv` says that memory holds every
  block of the table (`TableInv`) and the rest of the one that runs, which need not be
  in the table any more, and that only the last instruction of a block may be one
  after which memory can be another (`HeldBy`).  A block that is compiled has that
  (`CompiledHeld`), and a store leaves in the table only blocks that it has no word of
  (`CacheAfterHeld`).  `BlocksInterpret` joins the two under `SparingSpec`, the
  specification that TLC checks, which implies these two conditions
  (`SparingPrograms`).
  `InterpreterIsPrecise` is the refinement of `ProgramFlow` by `Cpu::step`: a handler
  moves EPC only over a trap, an exception in a delay slot takes the program back to the
  branch, and everything else is the next instruction of the program or none.  It is
  about programs that put no branch into a delay slot and leave ERET to their
  handlers (`KeepsToFlow`); outside of one ERET goes wherever EPC was left.
  `BlocksArePrecise` has it of `Cpu::run`, with `BlocksInterpret`.  TLC has confirmed
  `KeepsToFlow`, `StaysInside` and `BlockInv` in every state of `MCCachedBlocks`.
* `GraphicsProofs`: `RspRunsInOrder`, `ListsRunWhole`, `DrawsWhereItMay` and
  `FillsWithTheWord`.  The RSP: with a branch pending it is at an instruction that is
  neither a branch nor BREAK (`RspInv`), so that a halt there keeps the target and a
  resume takes it up.  That holds for programs that fill no delay slot with either
  (`ProgramsAssumption`).  Lists: what is left of one is laid out in memory from where
  `run_command_list` is (`ListInv`), so that the packet it takes next is the one that
  was meant (`LaidStep`), a list that is through has nothing left (`LaidEnds`), and none
  ends in the middle of a pair.  The CPU's lists are laid out so by `ListsAssumption`;
  of RSP programs the theorem assumes it where they write DP_END (`RspMeans`).
  Drawing: the place of a pixel can be read off each of its bytes (`PixelPlaced`), so
  that a byte that changes tells which pixel it was of, and that pixel passed
  `clip_point` and is in a row and a column that the rectangle touches (`SpanTouched`).
  For the same reason no two pixels share a byte (`PixelsApart`), which is why `Paint`
  need not say in which order they are drawn.  Fills: a pixel of two bytes or four
  stores the part of the fill word that its address has in its word (`FillStored`).
  That needs images that lie at words (`FillsGiven`), as the console's do: at an
  odd address the halves would be cut elsewhere.  `DrawsWhereItMay` and
  `FillsWithTheWord` assume besides that a list consists of commands
  (`CommandsGiven`): the fields of any word are bits of it, but the model has only
  the words that programs put into lists.  TLC evaluates the module's assumptions in
  its run, and has confirmed the three hypotheses, `RspInv`,
  `ListInv` and `FillInv` in each of its states.

Left to TLC: liveness (the prover has no rule for fairness), the bytes that an SP DMA
copies, and that tiles are drawn as they were loaded (`ShowsWhatWasLoaded`).

## 5. Findings

* **DP interrupts cannot be acknowledged** (`rcp_display`).  `mi.cpp:36` says that
  devices clear their lines through their own registers; nothing clears DP's, and
  the MI_MODE bit that does on the console is only stored.
* **LWL and LWR exchange the ends of a word** (`unaligned`).  `cpu.cpp:716` calls them
  big-endian, and `rsp.hpp:125` the RSP's; the shifts are those of a little-endian
  machine.  Of the bytes 1 2 3 4 at an aligned address, LWL there brings 4 instead of
  all four, and LWR at the last byte then only 1.  SWL and SWR have the same shifts.

Four more disagreements were met while modelling the blocks.  They are the reason for the
conditions in the properties and theorems about blocks.  Each has a configuration of its
own, under which TLC finds the counterexample; they are not part of the runs, and
can be repeated with `tlc -config <file> <module>`.

* **A delay slot in the next page can be stale** (`MCBlockCacheSplit.cfg`, `MCBlockCache`,
  `WholeBlocksCoherent`).
  `block_cache.hpp:42` promises to "invalidate blocks that overlap the modified physical
  memory range".  `compile` follows the virtual address into the next page, and
  `invalidate` takes the block to be physically contiguous (`block_cache.cpp:199`): a
  write to the frame of the slot leaves the block in place.  `TrackedCoherent` is the
  property of the words that lie in one physical run.
* **A store into the rest of the running block is not seen**
  (`MCCachedBlocksPatched.cfg`, `MCCachedBlocks`, `ParityWithMemory` under `Spec`).
  `invalidate` drops the block from the table, but `execute_block` goes through its
  instructions to the end (`cpu.cpp:370`), where `step` executes the new word.  The
  parity that `tests/core/test_block_cache.cpp:54` and `docs/ROADMAP.md:54` speak of is that
  of programs that do not do this (`StoresSpareBlock`).
* **A jump to an unaligned address runs a block** (`MCCachedBlocksUnaligned.cfg`,
  `MCCachedBlocks`, `ImplementsInterpreter` under `Spec`).  `fetch`
  raises an address error there (`cpu.cpp:619`, `cpu.hpp:51`); `run`, `lookup` and
  `compile` do not ask (`cpu.cpp:306`, `block_cache.cpp:113`), so after JR or ERET
  to such an address `run` executes what the bus reads, and `step` traps
  (`BlocksAligned`).
* **User mode runs blocks of the kernel** (`MCAddressSpaceStray.cfg`, `MCAddressSpace`,
  `UserCannotFetchKseg0`).  A block compiled in
  kernel mode is found by its address after ERET to user mode (`cpu.cpp:1805` changes
  the mode and keeps the blocks), where `step` raises the address error that
  `tests/cpu/test_tlb.cpp:240` expects.  `RunsWhatIsMapped` is about programs that go only
  where their mode may, `Stray = FALSE`.

`BlockCache` also has PI DMAs and stores that wrap round the end of RDRAM, written
modulo its size (`pi.cpp:105`, `bus.cpp:529`) and reported without
(`pi.cpp:108`, `bus.cpp:519`).  With `WritesWrap = TRUE` in `MCBlockCache.cfg`,
`TrackedCoherent` fails: a block at the start of RDRAM keeps its old instructions.
The run leaves it `FALSE`, since no program places code to be overwritten that way.

What modelling showed besides, where the sources promise nothing that a run could
refute:

* `reset` stores the warm start it boots with (`emulator.cpp:101`, `:110`), so a
  later `load_rom_bytes` with the default argument is a warm start too
  (`emulator.cpp:206`); `load_rom` is not, since it sets the field back.
* `reset` counts a PIF ROM in the bus as something to boot (`emulator.cpp:98`), but
  `hle_boot_loaded` accepts only one that it has just read from a file
  (`boot.cpp:250`), so that such a reset always fails.
* A load that fails leaves the last cartridge in the bus with `rom_loaded_` false;
  the next `reset` boots it.
* `boot` on a running machine resets the RSP, not the SP registers: Bus's IMEM, the
  SP's DMA registers, MI and the memory keep what the game left.
* DMTC0 to EntryHi does not end a block as MTC0 does (`block_cache.cpp:56`), so that the
  rest of it runs under the new ASID; the block is left at its next branch.
* A list whose END is written while the display processor is frozen is not run when
  the freeze is cleared (`dp_regs.cpp:42`).  A list that ran also makes START invalid
  (`dp_regs.cpp:86`), so that moving END on alone, to give a list piece by piece, runs
  nothing more.
* A texture of 16 bits drawn on an image of 32 leaves zeros (`rdp.cpp:381`), while the
  other way round is converted.
* `load_tile` packs the rows of a tile without a line by its own width (`rdp.cpp:333`),
  `sample_tile` takes them to be as wide as the texture image (`rdp.cpp:488`): such a
  tile is drawn askew unless it is as wide as the image.  `ShowsWhatWasLoaded` asks only
  of tiles with a line.
* The display processor writes RDRAM without telling the block cache (`rdp.cpp:379`);
  code that it draws over keeps running.
* A game that reads PIF RAM again without sending its list gets the answers of the
  last time it sent it: the check in `dma_from_pif` (`si.cpp:67`) never finds a request,
  because every writer of one also serves and clears it.

## 6. Not modelled, and the plan

Out of reach or without behaviour: floating point and vector arithmetic (every
instruction is a function of its operands, and a model of it would be a second copy of
the code), integer arithmetic, scan-out, resampling, the CRC that tells the lockout
chips apart, mapping keys to buttons, logging, SDL windows, the scheduler's queue
(never used), register blocks that only store.  Of the display processor: triangles,
which the code only traces, and blend colour, other modes, palettes and shifts, which
nothing reads.  The debugger's traces and dumps are output.

`Boot` follows what each memory and component holds, not single registers: an entry
point is known by the image and the chip it comes from, `load_size` is left at its
automatic value, an IPL3 file has the 16 bytes that `install_ipl3_to_dmem` asks for,
an image does not end at 0x1000 exactly, and `set_timing` and `request_stop`, which
only tests call, are left out.

Assumed rather than modelled: the audio device is opened after the ROM is loaded
and `AudioInterface::reset` does not run while it is open; the debugger is enabled
once, before the window opens; programs touch the SP's DMA registers only while
they hold the semaphore; branches are not put in delay slots; games leave room
for the answer of the command they send (`AnswersForgetTheLast` is about those, a
packet that is too short keeps what was there).  `AddressSpace`: EntryHi and Status are
written with MTC0, and MTC0 to Status leaves the CPU in kernel mode, from which
handlers return with ERET; page masks are all small or all of one larger size.
`GraphicsTask`: START is written for each END, by one processor at a time, END lies
ahead of START and is not written under a freeze, a texture rectangle is followed by
its second word, and nobody draws over a list.

The order of the modules was: the ring (the only concurrency), interrupts, the
block cache, SP memory, the loop and the debugger, the CPU, the controllers, the
boot, address spaces, display lists, the unaligned instructions.  Next:

1. Proofs: `ShowsWhatWasLoaded` of `GraphicsTask`, for tiles that LoadTile brings row by
   row, and the bytes that an SP DMA copies.
2. `AddressSpace` and `BlockCache` with `CachedBlocks`: the table by physical address,
   with delay slots in the next page, and conditions on stores, mappings and modes under
   which `BlocksInterpret` holds of it.
3. Scan-out: which picture `VideoInterface` shows when a game changes V_ORIGIN, V_WIDTH
   and the image in the middle of a frame.
4. The debugger's trace ring and its log of unknown accesses, whose bounds are code.
5. Freeze under both processors, without `GraphicsTask`'s assumption.
