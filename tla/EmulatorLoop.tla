---------------------------- MODULE EmulatorLoop ----------------------------
(* How Emulator runs the machine: run_frame for the window's loop, run_cycles
   for everybody else, in slices after which the devices are told the time; and
   the debugger, which is asked before each instruction and told after it.

   One thread does all of this, so an iteration of a loop is one step, and the
   user's keys come between the calls.  A program is any sequence of program
   counters; a slice may also write V_SYNC.  Clocks are 64 bits wide in the code
   and count modulo ClockRange here; lines are whole lines, half of V_CURRENT. *)
EXTENDS Integers

CONSTANTS
    Pcs,           \* the addresses of the program
    NoPc,          \* resume_breakpoint_pc_ without a value
    DeviceBatch,   \* kDeviceBatch
    Budget,        \* TimingConfig::cycles_per_frame
    Limit,         \* TimingConfig::max_cycles_per_frame
    LineCycles,    \* VideoInterface::cycles_per_line_
    LastLines,     \* the last lines that V_SYNC may give
    DefaultLast,   \* the one it has at reset
    CycleCounts,   \* what run_cycles may be asked for
    StepCounts,    \* what request_step may be asked for
    ClockRange

VARIABLES
    pc,
    debug,         \* Debugger::enabled_, set once before the window opens
    paused, stop_reason, steps_left, resume_pc, breakpoints,
    call,          \* the call that runs, if any: run_frame or run_cycles
    ran,           \* cycles it has run
    left,          \* cycles that run_cycles still owes
    result,        \* the last FrameResult
    executed,      \* Emulator::cycles_executed_
    debt,          \* Impl::device_debt
    now,           \* Scheduler::now
    line, accum, last_line, frame_ready,       \* VideoInterface
    new_frames,    \* frame_count less frames_before
    stopped_at,    \* history: the breakpoint stopped at, and no step since
    granted,       \* history: the steps last requested
    taken          \* history: the steps taken since

debugger == <<paused, stop_reason, steps_left, resume_pc, breakpoints>>
clocks == <<executed, debt, now>>
video == <<line, accum, last_line, frame_ready, new_frames>>
loop == <<call, ran, left, result>>
history == <<stopped_at, granted, taken>>
vars == <<pc, debug, debugger, clocks, video, loop, history>>

ASSUME PcsAssumption == NoPc \notin Pcs /\ Pcs # {}
ASSUME TimingAssumption ==
    /\ {DeviceBatch, Budget, Limit, LineCycles} \subseteq Nat \ {0}
    /\ DeviceBatch <= LineCycles     \* 32 and 5963
    /\ Budget <= Limit
ASSUME ClockAssumption == ClockRange \in Nat \ {0} /\ ClockRange % LineCycles = 0 /\ ClockRange > DeviceBatch
ASSUME InputsAssumption ==
    /\ LastLines \subseteq Nat \ {0} /\ DefaultLast \in Nat \ {0}
    /\ CycleCounts \subseteq Nat \ {0} /\ StepCounts \subseteq Nat \ {0}

NoFrame == [vi_frame |-> FALSE, hit_limit |-> FALSE, stopped |-> FALSE]

\* A ROM is loaded, and --debug was given or was not.
Init ==
    /\ pc \in Pcs
    /\ debug \in BOOLEAN
    /\ paused = FALSE /\ stop_reason = "None" /\ steps_left = 0
    /\ resume_pc = NoPc /\ breakpoints = {}
    /\ call = "none" /\ ran = 0 /\ left = 0 /\ result = NoFrame
    /\ executed = 0 /\ debt = 0 /\ now = 0
    /\ line = 0 /\ accum = 0 /\ last_line = DefaultLast
    /\ frame_ready = FALSE /\ new_frames = 0
    /\ stopped_at = NoPc /\ granted = 0 /\ taken = 0

-----------------------------------------------------------------------------
(* The debugger.                                                             *)

Pause(reason) == paused' = TRUE /\ stop_reason' = reason /\ steps_left' = 0

\* on_before_step: the three ways it answers.
Frozen == paused /\ steps_left = 0

AtBreakpointAlways == pc \in breakpoints             \* mutant: every stop is final
AtBreakpoint == resume_pc # pc /\ pc \in breakpoints

StopAtBreakpoint ==
    /\ ~Frozen
    /\ AtBreakpoint
    /\ Pause("Breakpoint")
    /\ resume_pc' = pc
    /\ stopped_at' = pc
    /\ UNCHANGED <<breakpoints, granted, taken>>

AfterStepLate(watched) ==                            \* mutant: pauses one step late
    IF watched THEN Pause("Watchpoint")
    ELSE /\ steps_left' = IF steps_left > 0 THEN steps_left - 1 ELSE 0
         /\ paused' = (steps_left = 0 /\ stop_reason = "None" /\ granted > 0)
         /\ stop_reason' = IF paused' THEN "StepDone" ELSE stop_reason

\* What a watchpoint does during the instruction and on_after_step after it.
AfterStep(watched) ==
    IF watched THEN Pause("Watchpoint")
    ELSE IF steps_left = 1 THEN Pause("StepDone")
    ELSE /\ steps_left' = IF steps_left > 0 THEN steps_left - 1 ELSE 0
         /\ UNCHANGED <<paused, stop_reason>>

DebugStepKeepsResume(next, watched) ==               \* mutant: skips it next time too
    /\ ~Frozen /\ ~AtBreakpoint
    /\ pc' = next
    /\ resume_pc' = resume_pc
    /\ AfterStep(watched)
    /\ stopped_at' = NoPc
    /\ taken' = IF taken <= granted THEN taken + 1 ELSE taken
    /\ UNCHANGED <<breakpoints, granted>>

\* One instruction, or the entry to an interrupt, under the debugger.
DebugStep(next, watched) ==
    /\ ~Frozen /\ ~AtBreakpoint
    /\ pc' = next
    /\ resume_pc' = NoPc
    /\ AfterStep(watched)
    /\ stopped_at' = NoPc
    /\ taken' = IF taken <= granted THEN taken + 1 ELSE taken
    /\ UNCHANGED <<breakpoints, granted>>

\* F2 and F5, and F3 with its count.
UserPause ==
    /\ call = "none" /\ debug
    /\ Pause("UserPause")
    /\ UNCHANGED <<pc, debug, resume_pc, breakpoints, clocks, video, loop, history>>

Resume ==
    /\ call = "none" /\ debug
    /\ paused' = FALSE /\ stop_reason' = "None" /\ steps_left' = 0
    /\ UNCHANGED <<pc, debug, resume_pc, breakpoints, clocks, video, loop, history>>

RequestStep(count) ==
    /\ call = "none" /\ debug
    /\ paused' = FALSE /\ stop_reason' = "None" /\ steps_left' = count
    /\ granted' = count /\ taken' = 0
    /\ UNCHANGED <<pc, debug, resume_pc, breakpoints, clocks, video, loop, stopped_at>>

SetBreakpoints(pcs) ==
    /\ call = "none" /\ debug
    /\ breakpoints' = pcs
    /\ UNCHANGED <<pc, debug, paused, stop_reason, steps_left, resume_pc, clocks, video,
                   loop, history>>

-----------------------------------------------------------------------------
(* Time.                                                                     *)

VsyncWrite == last_line' \in LastLines \cup {last_line}

\* VideoInterface::tick; a batch is no longer than a line.
Tick(d) ==
    LET ends_line == accum + d >= LineCycles
        wraps == ends_line /\ line + 1 > last_line'
    IN /\ accum' = IF ends_line THEN accum + d - LineCycles ELSE accum + d
       /\ line' = IF wraps THEN 0 ELSE IF ends_line THEN line + 1 ELSE line
       /\ frame_ready' = (frame_ready \/ wraps)
       /\ new_frames' = IF wraps /\ call = "frame" THEN new_frames + 1 ELSE new_frames

\* flush_devices: VI, AI and the scheduler get the cycles owed.
Flush(owed) == debt' = 0 /\ now' = (now + owed) % ClockRange /\ Tick(owed)

Owe(owed) ==
    /\ debt' = owed
    /\ UNCHANGED <<now, line, accum, frame_ready, new_frames>>

Count(did) == executed' = (executed + did) % ClockRange

\* step_cpu_rsp(slice): the program runs did cycles.  Without the debugger
\* Cpu::run fills the slice, and pc may be anywhere.
Runs(slice, did) ==
    \/ /\ debug
       /\ did = 1
       /\ \E next \in Pcs, watched \in BOOLEAN : DebugStep(next, watched)
    \/ /\ ~debug
       /\ did = slice
       /\ pc' \in Pcs
       /\ UNCHANGED <<debugger, history>>

\* step_cpu_rsp(slice) returns 0.
Refuses ==
    /\ debug
    /\ \/ Frozen /\ UNCHANGED <<debugger, history>>
       \/ StopAtBreakpoint
    /\ UNCHANGED pc

Smaller(a, b) == IF a < b THEN a ELSE b

-----------------------------------------------------------------------------
(* run_frame.                                                                *)

BeginFrameKeepsReady ==                              \* mutant: an old frame still counts
    /\ call = "none" /\ ~paused
    /\ call' = "frame" /\ ran' = 0 /\ new_frames' = 0
    /\ UNCHANGED <<pc, debug, debugger, clocks, line, accum, last_line, frame_ready, left,
                   result, history>>

\* The window's loop calls run_frame unless the debugger is paused.
BeginFrame ==
    /\ call = "none" /\ ~paused
    /\ call' = "frame" /\ ran' = 0
    /\ frame_ready' = FALSE /\ new_frames' = 0
    /\ UNCHANGED <<pc, debug, debugger, clocks, line, accum, last_line, left, result,
                   history>>

\* The end of run_frame after total cycles; vi_frame is what the loop set.
Return(total, vi_frame) ==
    /\ call' = "none"
    /\ result' = [vi_frame |-> vi_frame \/ total >= Budget,
                  hit_limit |-> ~vi_frame /\ total >= Limit,
                  stopped |-> debug /\ paused']

\* An iteration that ran something; the loop ends at a VI frame or at the limit.
FrameSlice ==
    /\ call = "frame" /\ ran < Limit
    /\ \E did \in 1 .. DeviceBatch :
          /\ Runs(Smaller(DeviceBatch, Limit - ran), did)
          /\ VsyncWrite
          /\ Count(did)
          /\ Flush(debt + did)
          /\ ran' = ran + did
    /\ LET vi_frame == frame_ready' \/ new_frames' > 0
       IN IF vi_frame \/ ran' >= Limit THEN Return(ran', vi_frame)
                                       ELSE UNCHANGED <<call, result>>
    /\ UNCHANGED <<debug, left>>

FrameRefusedSpins ==                                 \* mutant: the loop goes on
    /\ call = "frame" /\ ran < Limit
    /\ Refuses
    /\ UNCHANGED <<debug, clocks, video, loop>>

\* An iteration that the debugger stopped.
FrameRefused ==
    /\ call = "frame" /\ ran < Limit
    /\ Refuses
    /\ Return(ran, FALSE)
    /\ UNCHANGED <<debug, clocks, video, ran, left>>

-----------------------------------------------------------------------------
(* run_cycles.                                                               *)

BeginCycles(count) ==
    /\ call = "none"
    /\ call' = "cycles" /\ left' = count
    /\ UNCHANGED <<pc, debug, debugger, clocks, video, ran, result, history>>

\* The loop flushes when a batch is owed, and once more at the end.
CyclesSliceForgetsRest ==                            \* mutant: without the last flush
    /\ call = "cycles"
    /\ \E did \in 1 .. DeviceBatch :
          /\ Runs(Smaller(DeviceBatch, left), did)
          /\ VsyncWrite
          /\ Count(did)
          /\ left' = left - did
          /\ IF debt + did >= DeviceBatch THEN Flush(debt + did)
             ELSE IF left' = 0 THEN Owe(0) ELSE Owe(debt + did)
    /\ call' = IF left' = 0 THEN "none" ELSE call
    /\ UNCHANGED <<debug, ran, result>>

CyclesSlice ==
    /\ call = "cycles"
    /\ \E did \in 1 .. DeviceBatch :
          /\ Runs(Smaller(DeviceBatch, left), did)
          /\ VsyncWrite
          /\ Count(did)
          /\ left' = left - did
          /\ IF debt + did >= DeviceBatch \/ left' = 0 THEN Flush(debt + did)
                                                       ELSE Owe(debt + did)
    /\ call' = IF left' = 0 THEN "none" ELSE call
    /\ UNCHANGED <<debug, ran, result>>

CyclesRefused ==
    /\ call = "cycles"
    /\ Refuses
    /\ last_line' = last_line
    /\ Flush(debt)
    /\ call' = "none" /\ left' = 0
    /\ UNCHANGED <<debug, executed, ran, result>>

-----------------------------------------------------------------------------
User ==
    \/ UserPause
    \/ Resume
    \/ \E count \in StepCounts : RequestStep(count)
    \/ \E pcs \in SUBSET Pcs : SetBreakpoints(pcs)
    \/ \E count \in CycleCounts : BeginCycles(count)

Working == FrameSlice \/ FrameRefused \/ CyclesSlice \/ CyclesRefused
Next == User \/ BeginFrame \/ Working

Spec == Init /\ [][Next]_vars

\* A call runs until it returns, and the window's loop calls again; that nobody
\* touches the keys is always possible.
FairSpec == Spec /\ WF_vars(Working) /\ WF_vars(BeginFrame)

-----------------------------------------------------------------------------
(* Properties.                                                               *)

\* Emulator's count of cycles, the scheduler's clock with what the devices are
\* owed, and the position of the beam within its line tell the same time, and
\* nothing is owed between calls (flush_devices, step_cpu_rsp, VideoInterface::tick).
ClocksAgree ==
    /\ executed = (now + debt) % ClockRange
    /\ accum = now % LineCycles
    /\ call = "none" => debt = 0

\* run_frame completes at most one frame of the video interface, and reports a
\* frame when it completed one or spent the budget, and only then.
FrameReportedOnce ==
    [][(call = "frame" /\ call' = "none") =>
          /\ new_frames' <= 1
          /\ result'.vi_frame <=> (new_frames' = 1 \/ ran' >= Budget)]_vars

\* An instruction at a breakpoint runs only after the debugger stopped at it,
\* with no other instruction in between (on_before_step).
BreakpointHonoured ==
    [][(debug /\ executed' # executed /\ pc \in breakpoints) => stopped_at = pc]_vars

\* And it stops there only once: resuming or stepping gets past it.
StopsOnce ==
    [][(stop_reason' = "Breakpoint" /\ stop_reason # "Breakpoint")
          => stopped_at # pc]_vars

\* request_step(n) runs n instructions: the pause that ends it comes after
\* exactly n, and what is left and what was run add up to n until then.
StepsExact ==
    /\ stop_reason = "StepDone" => granted > 0 /\ taken = granted
    /\ steps_left > 0 => taken + steps_left = granted

\* While the debugger is paused no call runs an instruction (step_cpu_rsp).
FrozenWhilePaused == [][paused => UNCHANGED <<pc, executed>>]_vars

\* run_frame and run_cycles return to the window, whatever the debugger does.
CallsReturn == []<>(call = "none")
=============================================================================
