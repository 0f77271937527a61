------------------------ MODULE RcpInterruptsProofs ------------------------
(* Interrupt delivery for every set of devices, every guest and every frame
   length: the CPU's view of the RCP line, the devices' own status bits and the
   RSP's copy of its flags never part from MI and SP_STATUS.

   The three agreements are inductive together with the types: each register
   write moves both sides in one step, and the proof is that none of the steps
   forgets one of them.  Every step falls into one of a few kinds for each part
   of the state (MiSteps, SpSteps), and the invariant is shown for the kinds.  *)
EXTENDS RcpInterrupts, TLAPS

IInv ==
    /\ TypeOK
    /\ IrqLevel
    /\ StatusAgreement
    /\ SpAgreement

LEMMA InitInv == Init => IInv
<1> SUFFICES ASSUME Init PROVE IInv
  OBVIOUS
<1>1. MiType /\ IrqLevel
  BY DEF Init, MiType, IrqLevel
<1>2. CpuType
  BY DEF Init, CpuType, StatusRegister
<1>3. SpType /\ SpAgreement
  BY DEF Init, SpType, SpAgreement
<1>4. DeviceType
  <2>1. last_line \in LastLines
    BY LinesAssumption DEF Init
  <2>2. pi_intr \in BOOLEAN /\ si_intr \in BOOLEAN /\ interrupt_line \in BOOLEAN
    BY DEF Init
  <2>3. dp_start_valid \in BOOLEAN /\ dp_freeze \in BOOLEAN
    BY DEF Init
  <2>4. v_current \in Nat /\ v_intr \in Nat /\ ai_jobs \in 0 .. 2
    BY DEF Init
  <2> QED BY <2>1, <2>2, <2>3, <2>4 DEF DeviceType
<1>5. StatusAgreement
  BY DEF Init, StatusAgreement
<1> QED BY <1>1, <1>2, <1>3, <1>4, <1>5 DEF IInv, TypeOK

-----------------------------------------------------------------------------
(* The MIPS interface.                                                       *)

\* A step leaves MI alone, drives a set of lines, or writes the mask.
MiMoves ==
    \/ UNCHANGED mi
    \/ \E lines \in SUBSET Lines : Drive(lines)
    \/ \E w \in MaskWrites : WriteMask(w[1], w[2])
    \/ Reset

LEMMA LineMoves ==
    ASSUME MiType, NEW line \in Lines, Raise(line) \/ Clear(line)
    PROVE  MiMoves
<1>1. intr \cup {line} \in SUBSET Lines /\ intr \ {line} \in SUBSET Lines
  BY DEF MiType
<1> QED BY <1>1 DEF MiMoves, Raise, Clear

LEMMA MiSteps == MiType /\ [Next]_vars => MiMoves
<1> SUFFICES ASSUME MiType, [Next]_vars PROVE MiMoves
  OBVIOUS
<1>0. {"SP", "SI", "AI", "VI", "PI", "DP"} \subseteq Lines
  BY DEF Lines
<1>1. CASE TakeInterrupt \/ TakeException \/ Branch \/ OtherInstruction \/ WriteStatus
           \/ WriteCause \/ WriteCompare \/ Eret \/ WriteMiMode
  BY <1>1 DEF TakeInterrupt, TakeException, Branch, OtherInstruction, WriteStatus,
              WriteCause, WriteCompare, Eret, WriteMiMode, MiMoves
<1>2. CASE WriteMiMask
  BY <1>2 DEF WriteMiMask, MiMoves
<1>3. CASE PiDma \/ SiDma \/ SiStatusWrite \/ AiStatusWrite \/ ViCurrentWrite \/ AiFinish
  BY <1>0, <1>3, LineMoves
     DEF PiDma, SiDma, SiStatusWrite, AiStatusWrite, ViCurrentWrite, AiFinish
<1>4. CASE \E clear \in BOOLEAN : PiStatusWrite(clear)
  BY <1>0, <1>4, LineMoves DEF PiStatusWrite, MiMoves
<1>5. CASE ViIntrWrite \/ ViSyncWrite \/ AiLenWrite
  BY <1>5 DEF ViIntrWrite, ViSyncWrite, AiLenWrite, MiMoves
<1>6. CASE CpuSpDma \/ RspSpDma
  BY <1>0, <1>6, LineMoves DEF CpuSpDma, RspSpDma, SpDma
<1>7. CASE CpuSpStatusWrite \/ RspSpStatusWrite
  <2>1. PICK value \in SpWrites : SpStatusWrite(value)
    BY <1>7 DEF CpuSpStatusWrite, RspSpStatusWrite
  <2> QED BY <1>0, <2>1, LineMoves DEF SpStatusWrite, MiMoves
<1>8. CASE CpuDpWrite \/ RspDpWrite
  <2>1. DpWrite
    BY <1>8 DEF CpuDpWrite, RspDpWrite
  <2> QED BY <1>0, <2>1, LineMoves
             DEF DpWrite, DpStartWrite, DpEndWrite, DpStatusWrite, MiMoves
<1>9. CASE RspBreak
  BY <1>0, <1>9, LineMoves DEF RspBreak, MiMoves
<1>10. CASE ViLine
  BY <1>0, <1>10, LineMoves DEF ViLine, MiMoves
<1>11. CASE Reset
  BY <1>11 DEF MiMoves
<1>12. CASE UNCHANGED vars
  BY <1>12 DEF vars, machine, MiMoves
<1> QED BY <1>1, <1>2, <1>3, <1>4, <1>5, <1>6, <1>7, <1>8, <1>9, <1>10, <1>11, <1>12
           DEF Next, Run, CpuStep, RspStep

LEMMA MiNext == MiType /\ IrqLevel /\ [Next]_vars => MiType' /\ IrqLevel'
<1> SUFFICES ASSUME MiType, IrqLevel, [Next]_vars PROVE MiType' /\ IrqLevel'
  OBVIOUS
<1>1. CASE UNCHANGED mi
  BY <1>1 DEF mi, MiType, IrqLevel
<1>2. ASSUME NEW lines \in SUBSET Lines, Drive(lines)
      PROVE  MiType' /\ IrqLevel'
  BY <1>2 DEF Drive, MiType, IrqLevel
<1>3. ASSUME NEW w \in MaskWrites, WriteMask(w[1], w[2])
      PROVE  MiType' /\ IrqLevel'
  <2>1. w[2] \subseteq Lines
    BY MaskWritesAssumption
  <2> QED BY <1>3, <2>1 DEF WriteMask, MiType, IrqLevel
<1>4. CASE Reset
  BY <1>4 DEF Reset, MiType, IrqLevel
<1> QED BY <1>1, <1>2, <1>3, <1>4, MiSteps DEF MiMoves

-----------------------------------------------------------------------------
(* The flags of the RSP and their copy in SP_STATUS.                         *)

LEMMA SpSteps ==
    [Next]_vars => \/ UNCHANGED <<sp, rsp>>
                   \/ \E value \in SpWrites : SpStatusWrite(value)
                   \/ RspBreak
                   \/ Reset
<1> SUFFICES ASSUME [Next]_vars
             PROVE  \/ UNCHANGED <<sp, rsp>>
                    \/ \E value \in SpWrites : SpStatusWrite(value)
                    \/ RspBreak
                    \/ Reset
  OBVIOUS
<1>1. CASE CpuStep
  BY <1>1 DEF CpuStep, TakeInterrupt, TakeException, Branch, OtherInstruction,
     WriteStatus, WriteCause, WriteCompare, Eret, WriteMiMask, WriteMiMode, PiDma,
     SiDma, SiStatusWrite, PiStatusWrite, ViCurrentWrite, ViIntrWrite, ViSyncWrite,
     AiStatusWrite, AiLenWrite, CpuSpDma, SpDma, CpuSpStatusWrite, CpuDpWrite
<1>2. CASE RspStep
  BY <1>2 DEF RspStep, RspSpDma, SpDma, RspSpStatusWrite, RspDpWrite
<1>3. CASE ViLine \/ AiFinish \/ UNCHANGED vars
  BY <1>3 DEF ViLine, AiFinish, vars, machine
<1> QED BY <1>1, <1>2, <1>3 DEF Next, Run

LEMMA SpNext == SpType /\ SpAgreement /\ [Next]_vars => SpType' /\ SpAgreement'
<1> SUFFICES ASSUME SpType, SpAgreement, [Next]_vars PROVE SpType' /\ SpAgreement'
  OBVIOUS
<1>1. CASE UNCHANGED <<sp, rsp>>
  BY <1>1 DEF SpType, SpAgreement
<1>2. ASSUME NEW value \in SpWrites, SpStatusWrite(value)
      PROVE  SpType' /\ SpAgreement'
  BY <1>2 DEF SpStatusWrite, SpFlags, SpType, SpAgreement
<1>3. CASE RspBreak
  BY <1>3 DEF RspBreak, SpType, SpAgreement
<1>4. CASE Reset
  BY <1>4 DEF Reset, SpType, SpAgreement
<1> QED BY <1>1, <1>2, <1>3, <1>4, SpSteps

-----------------------------------------------------------------------------
(* The other types.                                                          *)

LEMMA CpuNext == CpuType /\ [Next]_vars => CpuType'
<1> SUFFICES ASSUME CpuType, [Next]_vars PROVE CpuType'
  OBVIOUS
<1> USE DEF CpuType
<1>1. CASE TakeInterrupt
  BY <1>1 DEF TakeInterrupt, AdvanceCount, StatusRegister
<1>2. CASE TakeException
  BY <1>2 DEF TakeException, AdvanceCount, Instruction, StatusRegister
<1>3. CASE Branch
  BY <1>3 DEF Branch, AdvanceCount
<1>4. CASE OtherInstruction \/ WriteCompare \/ WriteCause
  BY <1>4 DEF OtherInstruction, WriteCompare, WriteCause, AdvanceCount, Instruction
<1>5. CASE WriteStatus
  BY <1>5, StatusesAssumption DEF WriteStatus, AdvanceCount, Instruction
<1>6. CASE Eret
  BY <1>6 DEF Eret, AdvanceCount, Instruction, StatusRegister
<1>7. CASE Store
  BY <1>7 DEF Store, AdvanceCount, Instruction
<1>8. CASE UNCHANGED cpu
  BY <1>8 DEF cpu
<1>9. CASE Reset
  BY <1>9 DEF Reset, StatusRegister
<1>10. CASE CpuStep
  BY <1>1, <1>2, <1>3, <1>4, <1>5, <1>6, <1>7, <1>10
     DEF CpuStep, WriteMiMask, WriteMiMode, PiDma, SiDma, SiStatusWrite, PiStatusWrite,
         ViCurrentWrite, ViIntrWrite, ViSyncWrite, AiStatusWrite, AiLenWrite, CpuSpDma,
         CpuSpStatusWrite, CpuDpWrite
<1>11. CASE RspStep \/ ViLine \/ AiFinish
  BY <1>8, <1>11 DEF RspStep, RspBreak, RspSpDma, RspSpStatusWrite, RspDpWrite,
                     ViLine, AiFinish
<1>12. CASE UNCHANGED vars
  BY <1>8, <1>12 DEF vars, machine
<1> QED BY <1>9, <1>10, <1>11, <1>12 DEF Next, Run

LEMMA DpWriteType ==
    ASSUME DeviceType, DpWrite
    PROVE  dp_start_valid' \in BOOLEAN /\ dp_freeze' \in BOOLEAN
BY DEF DeviceType, DpWrite, DpStartWrite, DpEndWrite, DpStatusWrite, dp

LEMMA DeviceNext == DeviceType /\ [Next]_vars => DeviceType'
<1> SUFFICES ASSUME DeviceType, [Next]_vars PROVE DeviceType'
  OBVIOUS
<1>1. CASE UNCHANGED <<pi_intr, si_intr, dp, vi, ai_jobs>>
  BY <1>1 DEF DeviceType, dp, vi
<1>2. CASE PiDma \/ SiDma \/ SiStatusWrite
  BY <1>2 DEF DeviceType, PiDma, SiDma, SiStatusWrite, dp, vi
<1>3. CASE \E clear \in BOOLEAN : PiStatusWrite(clear)
  BY <1>3 DEF DeviceType, PiStatusWrite, dp, vi
<1>4. CASE ViCurrentWrite
  BY <1>4 DEF DeviceType, ViCurrentWrite, dp
<1>5. CASE ViIntrWrite
  BY <1>5, LinesAssumption DEF DeviceType, ViIntrWrite, dp
<1>6. CASE ViSyncWrite
  BY <1>6 DEF DeviceType, ViSyncWrite, dp
<1>7. CASE AiStatusWrite \/ AiLenWrite \/ AiFinish
  BY <1>7 DEF DeviceType, AiStatusWrite, AiLenWrite, AiFinish, dp, vi
<1>8. CASE CpuDpWrite \/ RspDpWrite
  BY <1>8, DpWriteType DEF DeviceType, CpuDpWrite, RspDpWrite, vi
<1>9. CASE ViLine
  <2>1. NextLine \in Nat
    BY DEF NextLine, DeviceType
  <2>2. interrupt_line' \in BOOLEAN
    BY <1>9 DEF ViLine, DeviceType
  <2> QED BY <1>9, <2>1, <2>2 DEF DeviceType, ViLine, dp
<1>10. CASE Reset
  <2>1. last_line' \in LastLines
    BY <1>10, LinesAssumption DEF Reset
  <2>2. pi_intr' \in BOOLEAN /\ si_intr' \in BOOLEAN /\ interrupt_line' \in BOOLEAN
    BY <1>10 DEF Reset
  <2>3. dp_start_valid' \in BOOLEAN /\ dp_freeze' \in BOOLEAN
    BY <1>10 DEF Reset
  <2>4. v_current' \in Nat /\ v_intr' \in Nat /\ ai_jobs' \in 0 .. 2
    BY <1>10 DEF Reset
  <2> QED BY <2>1, <2>2, <2>3, <2>4 DEF DeviceType
<1>11. CASE CpuStep
  BY <1>1, <1>2, <1>3, <1>4, <1>5, <1>6, <1>7, <1>8, <1>11
     DEF CpuStep, TakeInterrupt, TakeException, Branch, OtherInstruction, WriteStatus,
         WriteCause, WriteCompare, Eret, WriteMiMask, WriteMiMode, CpuSpDma,
         CpuSpStatusWrite
<1>12. CASE RspStep
  BY <1>1, <1>8, <1>12 DEF RspStep, RspBreak, RspSpDma, RspSpStatusWrite
<1>13. CASE UNCHANGED vars
  BY <1>1, <1>13 DEF vars, machine
<1> QED BY <1>7, <1>9, <1>10, <1>11, <1>12, <1>13 DEF Next, Run

-----------------------------------------------------------------------------
(* The devices' own status bits.                                             *)

Polled == {"PI", "SI", "VI"}

\* A step that leaves the three devices alone leaves their lines alone.
LEMMA OthersKeepLines ==
    ASSUME StatusAgreement, UNCHANGED <<pi_intr, si_intr, interrupt_line>>,
           intr' \cap Polled = intr \cap Polled
    PROVE  StatusAgreement'
BY DEF StatusAgreement, Polled

LEMMA StatusNext == StatusAgreement /\ [Next]_vars => StatusAgreement'
<1> SUFFICES ASSUME StatusAgreement, [Next]_vars PROVE StatusAgreement'
  OBVIOUS
<1> DEFINE Others == /\ UNCHANGED <<pi_intr, si_intr, interrupt_line>>
                     /\ intr' \cap Polled = intr \cap Polled
<1>1. Others => StatusAgreement'
  BY OthersKeepLines
<1>2. ASSUME UNCHANGED mi \/ Raise("SP") \/ Clear("SP") \/ Raise("DP") \/ Raise("AI")
             \/ Clear("AI")
      PROVE  intr' \cap Polled = intr \cap Polled
  BY <1>2 DEF mi, Raise, Clear, Drive, Polled
<1>3. CASE TakeInterrupt \/ TakeException \/ Branch \/ OtherInstruction \/ WriteStatus
           \/ WriteCause \/ WriteCompare \/ Eret \/ WriteMiMode
  BY <1>1, <1>2, <1>3
     DEF TakeInterrupt, TakeException, Branch, OtherInstruction, WriteStatus,
         WriteCause, WriteCompare, Eret, WriteMiMode, vi
<1>4. CASE WriteMiMask
  BY <1>1, <1>4 DEF WriteMiMask, WriteMask, vi
<1>5. CASE PiDma \/ SiDma \/ SiStatusWrite
  BY <1>5 DEF PiDma, SiDma, SiStatusWrite, Raise, Clear, Drive, StatusAgreement, vi
<1>6. CASE \E clear \in BOOLEAN : PiStatusWrite(clear)
  BY <1>6 DEF PiStatusWrite, Clear, Drive, StatusAgreement, vi, mi
<1>7. CASE ViCurrentWrite
  BY <1>7 DEF ViCurrentWrite, Clear, Drive, StatusAgreement
<1>8. CASE ViIntrWrite \/ ViSyncWrite \/ AiStatusWrite \/ AiLenWrite \/ AiFinish
  BY <1>1, <1>2, <1>8
     DEF ViIntrWrite, ViSyncWrite, AiStatusWrite, AiLenWrite, AiFinish, vi
<1>9. CASE CpuSpDma \/ RspSpDma \/ CpuSpStatusWrite \/ RspSpStatusWrite
  BY <1>1, <1>2, <1>9
     DEF CpuSpDma, RspSpDma, SpDma, CpuSpStatusWrite, RspSpStatusWrite, SpStatusWrite, vi
<1>10. CASE CpuDpWrite \/ RspDpWrite
  BY <1>1, <1>2, <1>10
     DEF CpuDpWrite, RspDpWrite, DpWrite, DpStartWrite, DpEndWrite, DpStatusWrite, vi
<1>11. CASE RspBreak
  BY <1>1, <1>2, <1>11 DEF RspBreak, vi
<1>12. CASE ViLine
  <2>1. intr' = intr \/ intr' = intr \cup {"VI"}
    BY <1>12 DEF ViLine, Raise, Drive, mi
  <2>2. UNCHANGED <<pi_intr, si_intr>>
    BY <1>12 DEF ViLine
  <2>3. interrupt_line' => interrupt_line \/ "VI" \in intr'
    BY <1>12 DEF ViLine, Raise, Drive
  <2> QED BY <2>1, <2>2, <2>3 DEF StatusAgreement
<1>13. CASE Reset
  BY <1>13 DEF Reset, StatusAgreement
<1>14. CASE UNCHANGED vars
  BY <1>1, <1>2, <1>14 DEF vars, machine, vi
<1> QED BY <1>3, <1>4, <1>5, <1>6, <1>7, <1>8, <1>9, <1>10, <1>11, <1>12, <1>13, <1>14
           DEF Next, Run, CpuStep, RspStep

-----------------------------------------------------------------------------
(* The theorems.                                                             *)

LEMMA NextInv == IInv /\ [Next]_vars => IInv'
BY MiNext, SpNext, CpuNext, DeviceNext, StatusNext DEF IInv, TypeOK

\* Every variable keeps its type.
THEOREM TypeCorrect == Spec => []TypeOK
<1>1. IInv => TypeOK
  BY DEF IInv
<1> QED BY InitInv, NextInv, <1>1, PTL DEF Spec

\* Cause.IP2 is the level of MI's unmasked lines, after every instruction of
\* either processor, every device tick and every reset.
THEOREM IrqFollowsMi == Spec => []IrqLevel
<1>1. IInv => IrqLevel
  BY DEF IInv
<1> QED BY InitInv, NextInv, <1>1, PTL DEF Spec

\* PI_STATUS, SI_STATUS and VI's latch agree with MI's lines.
THEOREM DevicesAgree == Spec => []StatusAgreement
<1>1. IInv => StatusAgreement
  BY DEF IInv
<1> QED BY InitInv, NextInv, <1>1, PTL DEF Spec

\* SP_STATUS and the flags the RSP runs by stay equal.
THEOREM ProcessorsAgree == Spec => []SpAgreement
<1>1. IInv => SpAgreement
  BY DEF IInv
<1> QED BY InitInv, NextInv, <1>1, PTL DEF Spec

=============================================================================
