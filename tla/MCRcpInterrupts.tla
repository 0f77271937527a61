-------------------------- MODULE MCRcpInterrupts --------------------------
(* A guest that may disable interrupts, enable the RCP's and the timer's, or be
   in an error trap, and enters its handlers by exceptions and interrupts; masks
   that let nothing, some lines or all through.                               *)
EXTENDS RcpInterrupts

Off == [ie |-> FALSE, exl |-> FALSE, erl |-> FALSE, im |-> Causes]
On == [Off EXCEPT !.ie = TRUE]
InErrorTrap == [On EXCEPT !.erl = TRUE]

MCStatuses == {Off, On, InErrorTrap}
MCMaskWrites == {<<{}, Lines>>, <<{"VI", "SP"}, {}>>}
MCSpWrites == {{"ClearHalt"}, {"ClearHalt", "SetIntrBreak"}, {"ClearBroke", "ClearIntr"},
               {"ClearIntr", "SetIntr"}, {"SetHalt", "ClearHalt", "ClearIntrBreak"}}
MCDpWrites == {{"SetFreeze"}, {"ClearFreeze"}, {"SetFlush"}}
MCLastLines == {1, 2}

\* The processors' devices together, and those that run with time.
Families == {{"PI", "SI", "SP", "DP"}, {"VI", "AI"}}
Display == {{"DP"}}
=============================================================================
