---------------------------- MODULE ProgramFlow -----------------------------
(* The order in which the instructions of a program complete, as the MIPS
   architecture promises it to a program that knows nothing of interrupts,
   exceptions and cached blocks: a branch is followed by its delay slot and
   that by where the branch goes, and a fault in a delay slot only takes the
   program back to the branch.                                               *)
EXTENDS Integers

CONSTANTS
    NoTarget,
    Following(_)   \* the address after another

VARIABLES
    code,      \* the program, which something else may change
    at,        \* the next instruction to complete
    target     \* where to go after it, if it is in a delay slot


\* What may follow the instruction at `at', outside a delay slot.  A conditional
\* branch is one of a processor without exceptions, to which what follows it is a
\* delay slot only when it is taken.
Successors(insn) ==
    LET next == Following(at)
        slot(t) == <<next, t>>
    IN CASE insn.op = "jump" -> {slot(insn.to)}
         [] insn.op = "branch" -> {slot(insn.to), slot(Following(next))}
         [] insn.op = "likely" -> {slot(insn.to), <<Following(next), NoTarget>>}
         [] insn.op = "conditional" -> {slot(insn.to), <<next, NoTarget>>}
         [] OTHER -> {<<next, NoTarget>>}

Complete ==
    IF target # NoTarget
    THEN at' = target /\ target' = NoTarget
    ELSE <<at', target'>> \in Successors(code[at])

\* The instruction in the delay slot did not complete: the branch runs again.
BackToBranch == target # NoTarget /\ at = Following(at') /\ target' = NoTarget

Next == Complete \/ (BackToBranch /\ UNCHANGED code)

FlowSpec == [][Next]_<<at, target>>
=============================================================================
