---------------------------- MODULE JoybusProofs ----------------------------
(* The walk of process_joybus over any 64 bytes stays below the last one, and
   what follows from that for every transfer.                                *)
EXTENDS Joybus, SequenceTheorems, WellFoundedInduction, TLAPS

USE SizeAssumption DEF Offsets, Control, Blocks, Byte

-----------------------------------------------------------------------------
(* process_channel.                                                          *)

\* The padding ends at a channel or at the last byte.
LEMMA PaddingEnds ==
    ASSUME NEW ram \in Blocks, NEW cursor \in 0 .. Control
    PROVE  /\ AfterPadding(ram, cursor) \in cursor .. Control
           /\ \/ AfterPadding(ram, cursor) = Control
              \/ ram[AfterPadding(ram, cursor)] # 255
           /\ \A i \in cursor .. AfterPadding(ram, cursor) - 1 : i < Control /\ ram[i] = 255
<1> DEFINE T == {c \in cursor .. Control : c = Control \/ ram[c] # 255}
<1>1. T \subseteq Nat /\ T # {}
    <2>1. Control \in T
        OBVIOUS
    <2> QED
        BY <2>1
<1> HIDE DEF T
<1>2. PICK c \in T : \A y \in T : <<y, c>> \notin OpToRel(<, Nat)
    BY <1>1, WFMin, NatLessThanWellFounded, Zenon
<1>3. \A y \in T : ~(y < c)
    BY <1>1, <1>2, Zenon DEF OpToRel
<1> USE DEF T
<1>4. \A i \in cursor .. c - 1 : i < Control /\ ram[i] = 255
    BY <1>1, <1>3
<1>5. \E x \in cursor .. Control :
          /\ x = Control \/ ram[x] # 255
          /\ \A i \in cursor .. x - 1 : i < Control /\ ram[i] = 255
    BY <1>4
<1> HIDE DEF Offsets, Control, Blocks, Byte, T
<1> QED
    BY <1>5, Zenon DEF AfterPadding

LEMMA LengthBytes == \A byte \in Byte : Length(byte) \in 0 .. 63 /\ Marked(byte) \in Byte
    BY DEF Length, Marked

LEMMA RequestIsLost ==
    \A byte \in Byte : /\ WithoutRequest(byte) \in Byte
                       /\ WithoutRequest(byte) % 2 = 0 /\ WithoutRequest(byte) % 2 # 1
    BY DEF WithoutRequest

LEMMA NoRequestStays ==
    \A byte \in Byte : byte % 2 # 1 => WithoutRequest(byte) = byte /\ byte % 2 = 0
    BY DEF WithoutRequest

\* An answer is as long as the game asked for.
LEMMA AnswerBytes ==
    ASSUME NEW cmd \in Byte, NEW pad \in PadStates \cup {Absent}, NEW n \in Nat,
           NEW before \in [1 .. n -> Byte]
    PROVE  Answer(cmd, pad, n, before) \in [1 .. n -> Byte]
<1> DEFINE padded(s) == IF Len(s) > n THEN before
                        ELSE [i \in 1 .. n |-> IF i <= Len(s) THEN s[i] ELSE 0]
<1>1. ASSUME NEW s \in Seq(Byte)
      PROVE  padded(s) \in [1 .. n -> Byte]
    <2>1. \A i \in 1 .. n : i <= Len(s) => s[i] \in Byte
        <3> HIDE DEF Byte
        <3> QED
            OBVIOUS
    <2>2. CASE Len(s) > n
        BY <2>2
    <2>3. CASE ~(Len(s) > n)
        <3>1. padded(s) = [i \in 1 .. n |-> IF i <= Len(s) THEN s[i] ELSE 0]
            BY <2>3
        <3>2. \A i \in 1 .. n : (IF i <= Len(s) THEN s[i] ELSE 0) \in Byte
            BY <2>1
        <3> HIDE DEF Byte, padded
        <3> QED
            BY <3>1, <3>2
    <2> QED
        BY <2>2, <2>3, Zenon
<1>2. << >> \in Seq(Byte) /\ Type \in Seq(Byte)
    BY DEF Type
<1>3. pad # Absent => pad \in Seq(Byte)
    <2>1. pad # Absent => pad \in [1 .. 4 -> Byte]
        BY PadsAssumption
    <2> HIDE DEF Byte
    <2> QED
        BY <2>1, SeqDef
<1>4. /\ padded(<< >>) \in [1 .. n -> Byte]
      /\ padded(Type) \in [1 .. n -> Byte]
      /\ pad # Absent => padded(pad) \in [1 .. n -> Byte]
    BY <1>1, <1>2, <1>3
<1> HIDE DEF padded
<1>5. Answer(cmd, pad, n, before) = CASE pad = Absent -> padded(<< >>)
         [] pad # Absent /\ cmd \in {0, 255} -> padded(Type)
         [] pad # Absent /\ cmd = 1 -> padded(pad)
         [] OTHER -> padded(<< >>)
    BY DEF Answer, padded
<1> HIDE DEF Byte
<1>6. CASE pad = Absent
    BY <1>4, <1>5, <1>6
<1>7. CASE pad # Absent /\ cmd \in {0, 255}
    BY <1>4, <1>5, <1>7
<1>8. CASE pad # Absent /\ cmd = 1
    BY <1>4, <1>5, <1>8
<1>9. CASE pad # Absent /\ cmd # 1 /\ cmd \notin {0, 255}
    BY <1>4, <1>5, <1>9
<1> QED
    BY <1>6, <1>7, <1>8, <1>9

\* A packet that fits is answered below the last byte.
LEMMA AnsweredStaysInside ==
    ASSUME NEW ram \in Blocks, NEW c \in Offsets, NEW pad \in PadStates \cup {Absent},
           ~Overruns(ram, c)
    PROVE  /\ Answered(ram, c, pad) \in Blocks
           /\ Answered(ram, c, pad)[Control] = ram[Control]
           /\ PacketEnd(ram, c) \in 0 .. Control
<1>1. c \in Int /\ c + 1 < Control
    BY DEF Overruns
<1>2. ram[c] \in Byte /\ ram[c + 1] \in Byte /\ ram[c + 2] \in Byte
    BY <1>1
<1>3. PICK tlen \in 0 .. 63, rlen \in 0 .. 63 :
          tlen = Length(ram[c]) /\ rlen = Length(ram[c + 1])
    BY <1>2, LengthBytes
<1> DEFINE rx == c + 2 + tlen
           cmd == IF tlen > 0 THEN ram[c + 2] ELSE 0
           before == [i \in 1 .. rlen |-> ram[rx + i - 1]]
           answer == Answer(cmd, pad, rlen, before)
<1>4. PacketEnd(ram, c) = rx + rlen
    BY <1>3 DEF PacketEnd
<1>5. rx + rlen <= Control
    BY <1>1, <1>4 DEF Overruns
<1>6. before \in [1 .. rlen -> Byte]
    <2>1. \A i \in 1 .. rlen : rx + i - 1 \in Offsets
        BY <1>1, <1>5
    <2> QED
        BY <2>1
<1>7. answer \in [1 .. rlen -> Byte]
    <2>1. cmd \in Byte
        BY <1>2
    <2>2. rlen \in Nat
        OBVIOUS
    <2> HIDE DEF before, cmd, Byte
    <2> QED
        BY <1>6, <2>1, <2>2, AnswerBytes, Zenon
<1>8. Answered(ram, c, pad) =
          [i \in Offsets |->
              IF i = c + 1 THEN IF pad = Absent THEN Marked(ram[i]) ELSE Length(ram[i])
              ELSE IF i \in rx .. rx + rlen - 1 THEN answer[i - rx + 1]
              ELSE ram[i]]
    BY <1>3, Zenon DEF Answered
<1> HIDE DEF answer
<1>9. \A i \in rx .. rx + rlen - 1 : answer[i - rx + 1] \in Byte
    BY <1>1, <1>7
<1>10. \A i \in Offsets : Marked(ram[i]) \in Byte /\ Length(ram[i]) \in Byte
    <2> TAKE i \in Offsets
    <2>1. ram[i] \in Byte
        OBVIOUS
    <2>2. Length(ram[i]) \in 0 .. 63 /\ Marked(ram[i]) \in Byte
        BY <2>1, LengthBytes
    <2> QED
        BY <2>2
<1> DEFINE new(i) ==
        IF i = c + 1 THEN IF pad = Absent THEN Marked(ram[i]) ELSE Length(ram[i])
        ELSE IF i \in rx .. rx + rlen - 1 THEN answer[i - rx + 1]
        ELSE ram[i]
<1>11. Answered(ram, c, pad) \in Blocks
    <2>1. ASSUME NEW i \in Offsets
          PROVE  new(i) \in Byte
        <3>1. Marked(ram[i]) \in Byte /\ Length(ram[i]) \in Byte /\ ram[i] \in Byte
            BY <1>10
        <3> HIDE DEF Byte
        <3> QED
            BY <1>9, <3>1
    <2>2. Answered(ram, c, pad) = [i \in Offsets |-> new(i)]
        BY <1>8, Zenon
    <2> HIDE DEF new
    <2> QED
        BY <2>1, <2>2
<1>12. Answered(ram, c, pad)[Control] = ram[Control]
    <2>1. Control \in Offsets /\ Control # c + 1 /\ Control \notin rx .. rx + rlen - 1
        BY <1>1, <1>5
    <2> HIDE DEF Offsets, Control, rx
    <2> QED
        BY <1>8, <2>1
<1> QED
    BY <1>1, <1>4, <1>5, <1>11, <1>12

-----------------------------------------------------------------------------
(* process_joybus.                                                           *)

\* Where the walk may be: before a channel, or at its end.
Walks == {at \in [ram : Blocks, cursor : 0 .. Control, go : BOOLEAN] :
             at.go => at.cursor < Control}

LEMMA ChannelStaysInside ==
    ASSUME NEW at \in Walks, NEW pad \in PadStates \cup {Absent}
    PROVE  /\ NextChannel(at, pad) \in Walks
           /\ NextChannel(at, pad).ram[Control] = at.ram[Control]
<1> SUFFICES ASSUME at.go
             PROVE  /\ ProcessChannel(at, pad) \in Walks
                    /\ ProcessChannel(at, pad).ram[Control] = at.ram[Control]
    BY DEF NextChannel
<1> DEFINE c == AfterPadding(at.ram, at.cursor)
           moveTo(ram, cursor) == [ram |-> ram, cursor |-> cursor, go |-> cursor < Control]
           stop == [at EXCEPT !.go = FALSE]
<1>1. at.ram \in Blocks /\ at.cursor \in 0 .. Control
    BY DEF Walks
<1>2. c \in 0 .. Control
    <2>1. c \in at.cursor .. Control
        BY <1>1, PaddingEnds
    <2> QED
        BY <1>1, <2>1
<1> HIDE DEF c
<1>3. stop \in Walks /\ stop.ram = at.ram
    BY DEF Walks
<1>4. ASSUME NEW ram \in Blocks, NEW cursor \in 0 .. Control
      PROVE  moveTo(ram, cursor) \in Walks /\ moveTo(ram, cursor).ram = ram
    <2>1. CASE cursor < Control
        <3>1. moveTo(ram, cursor) = [ram |-> ram, cursor |-> cursor, go |-> TRUE]
            BY <2>1, Zenon
        <3> HIDE DEF moveTo, Blocks
        <3> QED
            BY <2>1, <3>1 DEF Walks
    <2>2. CASE ~(cursor < Control)
        <3>1. moveTo(ram, cursor) = [ram |-> ram, cursor |-> cursor, go |-> FALSE]
            <4>1. (cursor < Control) = FALSE
                BY <2>2
            <4> QED
                BY <4>1, Zenon
        <3> HIDE DEF moveTo, Blocks
        <3> QED
            BY <2>2, <3>1 DEF Walks
    <2> QED
        BY <2>1, <2>2
<1>5. c # Control => Skip(at.ram, c) \in 0 .. Control /\ c + 1 \in 0 .. Control
    BY <1>2 DEF Skip
<1>6. ~Overruns(at.ram, c) =>
          /\ Answered(at.ram, c, pad) \in Blocks
          /\ Answered(at.ram, c, pad)[Control] = at.ram[Control]
          /\ PacketEnd(at.ram, c) \in 0 .. Control
    <2>1. c \in Offsets
        BY <1>2
    <2> HIDE DEF Blocks, Offsets, Control
    <2> QED
        BY <1>1, <2>1, AnsweredStaysInside
<1>7. \/ ProcessChannel(at, pad) = stop
      \/ c # Control /\ ProcessChannel(at, pad) = moveTo(at.ram, Skip(at.ram, c))
      \/ c # Control /\ ProcessChannel(at, pad) = moveTo(at.ram, c + 1)
      \/ /\ ~Overruns(at.ram, c)
         /\ ProcessChannel(at, pad) = moveTo(Answered(at.ram, c, pad), PacketEnd(at.ram, c))
    <2>1. c < Control => c # Control
        BY <1>2
    <2> HIDE DEF Control
    <2> DEFINE tlen == at.ram[c]
    <2>2. ProcessChannel(at, pad) =
              CASE c = Control -> stop
                [] c < Control /\ tlen = 254 -> stop
                [] c < Control /\ tlen = 0 -> moveTo(at.ram, Skip(at.ram, c))
                [] c < Control /\ tlen = 253 -> moveTo(at.ram, c + 1)
                [] OTHER -> IF Overruns(at.ram, c) THEN stop
                            ELSE moveTo(Answered(at.ram, c, pad), PacketEnd(at.ram, c))
        BY Zenon DEF ProcessChannel, c
    <2> HIDE DEF stop, moveTo, tlen
    <2> QED
        BY <2>1, <2>2, Zenon
<1> HIDE DEF stop, moveTo, Blocks, Control
<1>8. CASE ProcessChannel(at, pad) = stop
    BY <1>3, <1>8
<1>9. ASSUME NEW ram \in Blocks, NEW cursor \in 0 .. Control,
             ram[Control] = at.ram[Control],
             ProcessChannel(at, pad) = moveTo(ram, cursor)
      PROVE  /\ ProcessChannel(at, pad) \in Walks
             /\ ProcessChannel(at, pad).ram[Control] = at.ram[Control]
    BY <1>4, <1>9
<1> QED
    BY <1>1, <1>5, <1>6, <1>7, <1>8, <1>9

\* Whatever the block holds, its last byte only loses the request.
LEMMA ProcessStaysInside ==
    ASSUME NEW ram \in Blocks, NEW pads \in Pads
    PROVE  /\ ProcessJoybus(ram, pads) \in Blocks
           /\ ProcessJoybus(ram, pads)[Control] = WithoutRequest(ram[Control])
<1> DEFINE start == [ram |-> ram, cursor |-> 0, go |-> TRUE]
           ch0 == NextChannel(start, pads[0])
           ch1 == NextChannel(ch0, pads[1])
           ch2 == NextChannel(ch1, pads[2])
           ch3 == NextChannel(ch2, pads[3])
<1>1. \A ch \in {0, 1, 2, 3} : pads[ch] \in PadStates \cup {Absent}
    BY DEF Pads, Channels
<1>2. start \in Walks /\ start.ram = ram
    BY DEF Walks
<1> HIDE DEF start
<1>3. ch0 \in Walks /\ ch0.ram[Control] = ram[Control]
    BY <1>1, <1>2, ChannelStaysInside
<1> HIDE DEF ch0
<1>4. ch1 \in Walks /\ ch1.ram[Control] = ram[Control]
    BY <1>1, <1>3, ChannelStaysInside
<1> HIDE DEF ch1
<1>5. ch2 \in Walks /\ ch2.ram[Control] = ram[Control]
    BY <1>1, <1>4, ChannelStaysInside
<1> HIDE DEF ch2
<1>6. ch3 \in Walks /\ ch3.ram[Control] = ram[Control]
    BY <1>1, <1>5, ChannelStaysInside
<1> HIDE DEF ch3
<1>7. ProcessJoybus(ram, pads) = [ch3.ram EXCEPT ![Control] = WithoutRequest(@)]
    BY Zenon DEF ProcessJoybus, start, ch0, ch1, ch2, ch3
<1>8. ch3.ram \in Blocks
    BY <1>6 DEF Walks
<1>9. WithoutRequest(ram[Control]) \in Byte
    <2>1. ram[Control] \in Byte
        OBVIOUS
    <2> QED
        BY <2>1, RequestIsLost
<1>10. Control \in Offsets
    OBVIOUS
<1> HIDE DEF Byte, Control, Offsets
<1> QED
    BY <1>6, <1>7, <1>8, <1>9, <1>10

LEMMA ServedStaysInside ==
    ASSUME NEW ram \in Blocks, controllers \in Pads
    PROVE  /\ Served(ram) \in Blocks
           /\ Served(ram)[Control] = WithoutRequest(ram[Control])
<1>1. CASE Requested(ram)
    BY <1>1, ProcessStaysInside DEF Served
<1>2. CASE ~Requested(ram)
    <2>1. ram[Control] \in Byte /\ ram[Control] % 2 # 1
        BY <1>2 DEF Requested
    <2>2. WithoutRequest(ram[Control]) = ram[Control]
        BY <2>1, NoRequestStays
    <2> QED
        BY <1>2, <2>2 DEF Served
<1> QED
    BY <1>1, <1>2

LEMMA AfterKeeps ==
    ASSUME NEW content \in Contents, controllers \in Pads
    PROVE  /\ After(content) \in Contents
           /\ After(content).control = WithoutRequest(content.control)
<1>1. content.control \in Byte
    BY DEF Contents
<1>2. CASE content.control % 2 = 0
    <2>1. WithoutRequest(content.control) = content.control
        BY <1>1, <1>2 DEF WithoutRequest
    <2> QED
        BY <1>2, <2>1 DEF After
<1>3. CASE content.control % 2 # 0
    <2>1. After(content) = [content EXCEPT !.control = WithoutRequest(@), !.pads = controllers]
        BY <1>3 DEF After
    <2>2. WithoutRequest(content.control) \in Byte
        BY <1>1, RequestIsLost
    <2> HIDE DEF Byte
    <2> QED
        BY <2>1, <2>2 DEF Contents
<1> QED
    BY <1>2, <1>3

\* Storing a byte in both copies, with the walk that a request starts.
LEMMA WriteKeeps ==
    ASSUME NEW off \in Offsets, NEW value \in Byte, NEW ram \in Blocks, controllers \in Pads
    PROVE  LET rams == Write8(off, value, [pif |-> ram, bus |-> ram])
           IN /\ rams.pif \in Blocks
              /\ rams.bus = rams.pif
              /\ off # Control => rams.pif[Control] = ram[Control]
              /\ off = Control => rams.pif[Control] = WithoutRequest(value)
<1> DEFINE written == [ram EXCEPT ![off] = value]
           rams == Write8(off, value, [pif |-> ram, bus |-> ram])
<1>1. written \in Blocks /\ written[off] = value
    OBVIOUS
<1>2. off # Control => written[Control] = ram[Control]
    OBVIOUS
<1> HIDE DEF Blocks
<1>3. CASE off = Control /\ value % 2 = 1
    <2>1. rams = [pif |-> Served(written), bus |-> Served(written)]
        BY <1>3 DEF Write8
    <2>2. Served(written) \in Blocks /\ Served(written)[Control] = WithoutRequest(value)
        BY <1>1, <1>3, ServedStaysInside
    <2> HIDE DEF rams, written
    <2> QED
        BY <1>3, <2>1, <2>2 DEF rams
<1>4. CASE ~(off = Control /\ value % 2 = 1)
    <2>1. rams = [pif |-> written, bus |-> written]
        BY <1>4 DEF Write8
    <2>2. off = Control => WithoutRequest(value) = value
        BY <1>4 DEF WithoutRequest
    <2> HIDE DEF rams, written
    <2> QED
        BY <1>1, <1>2, <2>1, <2>2 DEF rams
<1> QED
    BY <1>3, <1>4

-----------------------------------------------------------------------------
(* What a channel does to the walk, by the block alone.                      *)

LEMMA PaddingIs ==
    ASSUME NEW ram \in Blocks, NEW cursor \in 0 .. Control, NEW c \in cursor .. Control,
           c = Control \/ ram[c] # 255,
           \A i \in cursor .. c - 1 : i < Control /\ ram[i] = 255
    PROVE  AfterPadding(ram, cursor) = c
<1>1. PICK d \in cursor .. Control :
          /\ d = AfterPadding(ram, cursor)
          /\ d = Control \/ ram[d] # 255
          /\ \A i \in cursor .. d - 1 : i < Control /\ ram[i] = 255
    <2> HIDE DEF Blocks, Control
    <2> QED
        BY PaddingEnds
<1>2. ~(c < d) /\ ~(d < c)
    BY <1>1
<1> QED
    BY <1>1, <1>2

LEMMA LengthOfMark ==
    \A byte \in Byte : /\ Length(Marked(byte)) = Length(byte)
                       /\ Length(Length(byte)) = Length(byte)
    BY DEF Length, Marked

LEMMA MarkByLength ==
    \A x, y \in Byte : Length(x) = Length(y) => Marked(x) = Marked(y)
    BY DEF Length, Marked

\* Where the walk is: at the end if it stopped.
Reached(at) == IF at.go THEN at.cursor ELSE Control

HoldsPacket(ram, c) == c < Control /\ ram[c] \notin {0, 253, 254} /\ ~Overruns(ram, c)

\* The cursor after the channel that starts at p, and what the channel's answer
\* makes of the block.
Ahead(ram, p) ==
    LET c == AfterPadding(ram, p)
    IN CASE c < Control /\ ram[c] = 0 -> Skip(ram, c)
         [] c < Control /\ ram[c] = 253 -> c + 1
         [] HoldsPacket(ram, c) -> PacketEnd(ram, c)
         [] OTHER -> Control

Replied(ram, p, pad) ==
    IF HoldsPacket(ram, AfterPadding(ram, p))
    THEN Answered(ram, AfterPadding(ram, p), pad) ELSE ram

\* Ahead by what is after the padding.
LEMMA AheadCases ==
    ASSUME NEW ram \in Blocks, NEW p \in 0 .. Control, NEW c \in p .. Control,
           c = AfterPadding(ram, p)
    PROVE  /\ c < Control /\ ram[c] = 0 => Ahead(ram, p) = Skip(ram, c)
           /\ c < Control /\ ram[c] = 253 => Ahead(ram, p) = c + 1
           /\ HoldsPacket(ram, c) => Ahead(ram, p) = PacketEnd(ram, c)
           /\ ~HoldsPacket(ram, c) /\ ~(c < Control /\ ram[c] \in {0, 253}) => Ahead(ram, p) = Control
<1>1. Ahead(ram, p) = CASE c < Control /\ ram[c] = 0 -> Skip(ram, c)
                        [] c < Control /\ ram[c] = 253 -> c + 1
                        [] HoldsPacket(ram, c) -> PacketEnd(ram, c)
                        [] OTHER -> Control
    BY Zenon DEF Ahead
<1>2. HoldsPacket(ram, c) => c < Control /\ ram[c] # 0 /\ ram[c] # 253
    BY DEF HoldsPacket
<1> HIDE DEF Control, Blocks
<1>3. c < Control /\ ram[c] = 0 => Ahead(ram, p) = Skip(ram, c)
    BY <1>1, <1>2
<1>4. c < Control /\ ram[c] = 253 => Ahead(ram, p) = c + 1
    BY <1>1, <1>2
<1>5. HoldsPacket(ram, c) => Ahead(ram, p) = PacketEnd(ram, c)
    BY <1>1, <1>2
<1>6. ~HoldsPacket(ram, c) /\ ~(c < Control /\ ram[c] \in {0, 253}) => Ahead(ram, p) = Control
    BY <1>1, <1>2
<1> QED
    BY <1>3, <1>4, <1>5, <1>6

\* The bytes of a packet.
LEMMA PacketLengths ==
    ASSUME NEW ram \in Blocks, NEW c \in 0 .. Control, HoldsPacket(ram, c)
    PROVE  /\ c + 1 < Control
           /\ Length(ram[c]) \in Nat /\ Length(ram[c + 1]) \in Nat
           /\ PacketEnd(ram, c) = c + 2 + Length(ram[c]) + Length(ram[c + 1])
           /\ PacketEnd(ram, c) <= Control
<1>1. c \in Int /\ c + 1 < Control
    BY DEF HoldsPacket, Overruns
<1>2. ram[c] \in Byte /\ ram[c + 1] \in Byte
    BY <1>1
<1>3. PICK tlen \in 0 .. 63, rlen \in 0 .. 63 :
          tlen = Length(ram[c]) /\ rlen = Length(ram[c + 1])
    BY <1>2, LengthBytes
<1>4. PacketEnd(ram, c) = c + 2 + tlen + rlen
    BY <1>3, Zenon DEF PacketEnd
<1>5. ~(PacketEnd(ram, c) > Control)
    BY Zenon DEF HoldsPacket, Overruns
<1> HIDE DEF Blocks
<1> QED
    BY <1>1, <1>3, <1>4, <1>5

LEMMA AheadBounds ==
    ASSUME NEW ram \in Blocks, NEW p \in 0 .. Control
    PROVE  /\ AfterPadding(ram, p) \in p .. Control
           /\ Ahead(ram, p) \in p .. Control
           /\ AfterPadding(ram, p) < Control => AfterPadding(ram, p) < Ahead(ram, p)
           /\ AfterPadding(ram, p) = Control => Ahead(ram, p) = Control
<1>1. PICK c \in p .. Control : c = AfterPadding(ram, p)
    <2> HIDE DEF Control, Blocks
    <2> QED
        BY PaddingEnds
<1>2. CASE c < Control /\ ram[c] = 0
    <2>1. Ahead(ram, p) = Skip(ram, c)
        BY <1>1, <1>2, AheadCases
    <2> QED
        BY <1>1, <1>2, <2>1 DEF Skip
<1>3. CASE c < Control /\ ram[c] = 253
    <2>1. Ahead(ram, p) = c + 1
        <3> HIDE DEF Control, Blocks
        <3> QED
            BY <1>1, <1>3, AheadCases
    <2> QED
        BY <1>1, <1>3, <2>1
<1>4. CASE HoldsPacket(ram, c)
    <2>1. Ahead(ram, p) = PacketEnd(ram, c)
        BY <1>1, <1>4, AheadCases
    <2> QED
        BY <1>1, <1>4, <2>1, PacketLengths
<1>5. CASE ~HoldsPacket(ram, c) /\ ~(c < Control /\ ram[c] \in {0, 253})
    <2>1. Ahead(ram, p) = Control
        BY <1>1, <1>5, AheadCases
    <2> QED
        BY <1>1, <1>5, <2>1
<1> QED
    BY <1>2, <1>3, <1>4, <1>5

\* What a channel does to the walk.
LEMMA ChannelSteps ==
    ASSUME NEW at \in Walks, NEW pad
    PROVE  /\ NextChannel(at, pad).ram = Replied(at.ram, Reached(at), pad)
           /\ Reached(NextChannel(at, pad)) = Ahead(at.ram, Reached(at))
<1> DEFINE next == NextChannel(at, pad)
<1>1. at.ram \in Blocks /\ at.cursor \in 0 .. Control /\ Reached(at) \in 0 .. Control
    BY DEF Walks, Reached
<1>2. PICK c \in Reached(at) .. Control : c = AfterPadding(at.ram, Reached(at))
    <2> HIDE DEF Control, Blocks
    <2> QED
        BY <1>1, PaddingEnds
<1>3. (c < Control \/ c = Control) /\ ~(c < Control /\ c = Control)
    BY <1>1, <1>2
<1> DEFINE ram == at.ram
           moveTo(block, cursor) == [ram |-> block, cursor |-> cursor, go |-> cursor < Control]
           stop == [at EXCEPT !.go = FALSE]
<1>4. /\ c < Control /\ ram[c] = 0 => Ahead(ram, Reached(at)) = Skip(ram, c)
      /\ c < Control /\ ram[c] = 253 => Ahead(ram, Reached(at)) = c + 1
      /\ HoldsPacket(ram, c) => Ahead(ram, Reached(at)) = PacketEnd(ram, c)
      /\ ~HoldsPacket(ram, c) /\ ~(c < Control /\ ram[c] \in {0, 253})
              => Ahead(ram, Reached(at)) = Control
    <2> HIDE DEF Control, Blocks
    <2> QED
        BY <1>1, <1>2, AheadCases
<1>5. Replied(ram, Reached(at), pad) = IF HoldsPacket(ram, c) THEN Answered(ram, c, pad) ELSE ram
    BY <1>2, Zenon DEF Replied
<1>6. stop.ram = ram /\ Reached(stop) = Control
    <2>1. stop.ram = ram /\ ~stop.go
        BY DEF Walks
    <2> QED
        BY <2>1 DEF Reached
<1>7. ASSUME NEW block, NEW cursor \in 0 .. Control
      PROVE  moveTo(block, cursor).ram = block /\ Reached(moveTo(block, cursor)) = cursor
    <2>1. /\ moveTo(block, cursor).ram = block /\ moveTo(block, cursor).cursor = cursor
          /\ moveTo(block, cursor).go = (cursor < Control)
        BY Zenon
    <2>2. ~(cursor < Control) => cursor = Control
        OBVIOUS
    <2> HIDE DEF moveTo, Control
    <2>3. Reached(moveTo(block, cursor)) = IF cursor < Control THEN cursor ELSE Control
        BY <2>1, Zenon DEF Reached
    <2> QED
        BY <2>1, <2>2, <2>3, Zenon
<1>8. Ahead(ram, Reached(at)) \in 0 .. Control
    <2>1. Ahead(ram, Reached(at)) \in Reached(at) .. Control
        <3> HIDE DEF Control, Blocks
        <3> QED
            BY <1>1, AheadBounds
    <2> QED
        BY <1>1, <2>1
<1>9. HoldsPacket(ram, c) => c < Control /\ ram[c] \notin {0, 253, 254} /\ ~Overruns(ram, c)
    BY DEF HoldsPacket
<1>10. c < Control /\ ram[c] \notin {0, 253, 254} /\ ~Overruns(ram, c) => HoldsPacket(ram, c)
    BY DEF HoldsPacket
<1>11. CASE ~at.go
    <2>1. Reached(at) = Control /\ next = at
        BY <1>11 DEF Reached, NextChannel
    <2>2. c = Control
        BY <1>1, <1>2, <2>1
    <2> HIDE DEF Control, next, Blocks
    <2> QED
        BY <1>3, <1>4, <1>5, <1>9, <2>1, <2>2 DEF next
<1>12. CASE at.go
    <2>1. Reached(at) = at.cursor
        BY <1>12 DEF Reached
    <2>2. next = ProcessChannel(at, pad)
        BY <1>12 DEF NextChannel
    <2>3. c = AfterPadding(at.ram, at.cursor)
        BY <1>2, <2>1
    <2>4. ProcessChannel(at, pad) =
              CASE c = Control -> stop
                [] c < Control /\ ram[c] = 254 -> stop
                [] c < Control /\ ram[c] = 0 -> moveTo(ram, Skip(ram, c))
                [] c < Control /\ ram[c] = 253 -> moveTo(ram, c + 1)
                [] OTHER -> IF Overruns(ram, c) THEN stop
                            ELSE moveTo(Answered(ram, c, pad), PacketEnd(ram, c))
        BY <2>3, Zenon DEF ProcessChannel
    <2> HIDE DEF Control, next, Blocks, stop, moveTo, ram
    <2>5. CASE c = Control
        <3>1. next = stop
            BY <1>3, <2>2, <2>4, <2>5, Zenon
        <3> QED
            BY <1>3, <1>4, <1>5, <1>6, <1>9, <2>5, <3>1 DEF next, ram
    <2>6. CASE c < Control /\ ram[c] = 254
        <3>1. next = stop
            BY <1>3, <2>2, <2>4, <2>6
        <3> QED
            BY <1>3, <1>4, <1>5, <1>6, <1>9, <2>6, <3>1 DEF next, ram
    <2>7. CASE c < Control /\ ram[c] = 0
        <3>1. next = moveTo(ram, Skip(ram, c))
            BY <1>3, <2>2, <2>4, <2>7
        <3> QED
            BY <1>3, <1>4, <1>5, <1>7, <1>8, <1>9, <2>7, <3>1 DEF next, ram
    <2>8. CASE c < Control /\ ram[c] = 253
        <3>1. next = moveTo(ram, c + 1)
            BY <1>3, <2>2, <2>4, <2>8
        <3> QED
            BY <1>3, <1>4, <1>5, <1>7, <1>8, <1>9, <2>8, <3>1 DEF next, ram
    <2>9. CASE c < Control /\ ram[c] \notin {0, 253, 254} /\ Overruns(ram, c)
        <3>1. next = stop
            BY <1>3, <2>2, <2>4, <2>9
        <3> QED
            BY <1>3, <1>4, <1>5, <1>6, <1>9, <2>9, <3>1 DEF next, ram
    <2>10. CASE c < Control /\ ram[c] \notin {0, 253, 254} /\ ~Overruns(ram, c)
        <3>1. next = moveTo(Answered(ram, c, pad), PacketEnd(ram, c))
            BY <1>3, <2>2, <2>4, <2>10
        <3> QED
            BY <1>4, <1>5, <1>7, <1>8, <1>10, <2>10, <3>1 DEF next, ram
    <2> QED
        BY <1>3, <2>5, <2>6, <2>7, <2>8, <2>9, <2>10
<1> QED
    BY <1>11, <1>12

\* Where a packet is answered.
IsAnswer(ram, c, i) ==
    i = c + 1 \/ i \in c + 2 + Length(ram[c]) .. PacketEnd(ram, c) - 1

\* y's channel at p differs from x's by its answer at most.
Alike(x, y, p) ==
    LET c == AfterPadding(x, p)
    IN /\ \A i \in p .. Ahead(x, p) :
              i < Control /\ ~(HoldsPacket(x, c) /\ IsAnswer(x, c, i)) => y[i] = x[i]
       /\ HoldsPacket(x, c) => Length(y[c + 1]) = Length(x[c + 1])

LEMMA AlikeShape ==
    ASSUME NEW x \in Blocks, NEW y \in Blocks, NEW p \in 0 .. Control, Alike(x, y, p)
    PROVE  /\ AfterPadding(y, p) = AfterPadding(x, p)
           /\ HoldsPacket(y, AfterPadding(y, p)) <=> HoldsPacket(x, AfterPadding(x, p))
           /\ Ahead(y, p) = Ahead(x, p)
<1>1. PICK c \in p .. Control : c = AfterPadding(x, p)
    <2> HIDE DEF Control, Blocks
    <2> QED
        BY PaddingEnds
<1>2. /\ c = Control \/ x[c] # 255
      /\ \A i \in p .. c - 1 : i < Control /\ x[i] = 255
    <2> HIDE DEF Control, Blocks
    <2> QED
        BY <1>1, PaddingEnds
<1>3. /\ \A i \in p .. Ahead(x, p) :
              i < Control /\ ~(HoldsPacket(x, c) /\ IsAnswer(x, c, i)) => y[i] = x[i]
      /\ HoldsPacket(x, c) => Length(y[c + 1]) = Length(x[c + 1])
    BY <1>1, Zenon DEF Alike
<1>4. /\ Ahead(x, p) \in p .. Control
      /\ c < Control => c < Ahead(x, p)
      /\ c = Control => Ahead(x, p) = Control
    BY <1>1, AheadBounds
<1>5. HoldsPacket(x, c) => Length(x[c]) \in Nat
    <2>1. c \in 0 .. Control
        OBVIOUS
    <2> HIDE DEF Control, Blocks
    <2> QED
        BY <2>1, PacketLengths
<1>6. ASSUME NEW i \in p .. c, i < Control
      PROVE  y[i] = x[i]
    <2>1. HoldsPacket(x, c) => ~IsAnswer(x, c, i)
        BY <1>5 DEF IsAnswer
    <2>2. i \in p .. Ahead(x, p)
        BY <1>4, <1>6
    <2> HIDE DEF Control, Blocks
    <2> QED
        BY <1>3, <1>6, <2>1, <2>2
<1>7. AfterPadding(y, p) = c
    <2>1. c = Control \/ y[c] # 255
        BY <1>2, <1>6
    <2>2. \A i \in p .. c - 1 : i < Control /\ y[i] = 255
        BY <1>2, <1>6
    <2> HIDE DEF Control, Blocks
    <2> QED
        BY <2>1, <2>2, PaddingIs
<1>8. /\ c < Control /\ x[c] = 0 => Ahead(x, p) = Skip(x, c)
      /\ c < Control /\ x[c] = 253 => Ahead(x, p) = c + 1
      /\ HoldsPacket(x, c) => Ahead(x, p) = PacketEnd(x, c)
      /\ ~HoldsPacket(x, c) /\ ~(c < Control /\ x[c] \in {0, 253}) => Ahead(x, p) = Control
    <2> HIDE DEF Control, Blocks
    <2> QED
        BY <1>1, AheadCases
<1>9. /\ c < Control /\ y[c] = 0 => Ahead(y, p) = Skip(y, c)
      /\ c < Control /\ y[c] = 253 => Ahead(y, p) = c + 1
      /\ HoldsPacket(y, c) => Ahead(y, p) = PacketEnd(y, c)
      /\ ~HoldsPacket(y, c) /\ ~(c < Control /\ y[c] \in {0, 253}) => Ahead(y, p) = Control
    <2> HIDE DEF Control, Blocks
    <2> QED
        BY <1>7, AheadCases
<1>10. c < Control => y[c] = x[c]
    BY <1>6
<1>11. CASE c = Control
    <2>1. ~HoldsPacket(x, c) /\ ~HoldsPacket(y, c) /\ ~(c < Control)
        BY <1>11 DEF HoldsPacket
    <2> HIDE DEF Control, Blocks
    <2> QED
        BY <1>1, <1>7, <1>8, <1>9, <2>1
<1>12. CASE c < Control /\ x[c] = 0
    <2>1. ~HoldsPacket(x, c) /\ ~HoldsPacket(y, c)
        BY <1>10, <1>12 DEF HoldsPacket
    <2>2. c + 1 < Control => y[c + 1] = x[c + 1]
        BY <1>3, <1>4, <1>12, <2>1
    <2>3. Skip(y, c) = Skip(x, c)
        BY <2>2 DEF Skip
    <2> HIDE DEF Control, Blocks
    <2> QED
        BY <1>1, <1>7, <1>8, <1>9, <1>10, <1>12, <2>1, <2>3
<1>13. CASE c < Control /\ x[c] = 253
    <2>1. ~HoldsPacket(x, c) /\ ~HoldsPacket(y, c)
        BY <1>10, <1>13 DEF HoldsPacket
    <2> HIDE DEF Control, Blocks
    <2> QED
        BY <1>1, <1>7, <1>8, <1>9, <1>10, <1>13, <2>1
<1>14. CASE HoldsPacket(x, c)
    <2>1. PacketEnd(y, c) = PacketEnd(x, c)
        BY <1>3, <1>10, <1>14 DEF PacketEnd, HoldsPacket
    <2>2. HoldsPacket(y, c)
        BY <1>10, <1>14, <2>1 DEF HoldsPacket, Overruns
    <2> HIDE DEF Control, Blocks
    <2> QED
        BY <1>1, <1>7, <1>8, <1>9, <1>14, <2>1, <2>2
<1>15. CASE c < Control /\ x[c] \notin {0, 253} /\ ~HoldsPacket(x, c)
    <2>1. Ahead(x, p) = Control
        BY <1>8, <1>15
    <2>2. c + 1 < Control => y[c + 1] = x[c + 1]
        BY <1>3, <1>15, <2>1
    <2>3. c + 1 < Control => PacketEnd(y, c) = PacketEnd(x, c)
        BY <1>10, <1>15, <2>2 DEF PacketEnd
    <2>4. ~HoldsPacket(y, c)
        BY <1>10, <1>15, <2>3 DEF HoldsPacket, Overruns
    <2> HIDE DEF Control, Blocks
    <2> QED
        BY <1>1, <1>7, <1>9, <1>10, <1>15, <2>1, <2>4
<1>16. c < Control \/ c = Control
    OBVIOUS
<1> HIDE DEF Control, Blocks
<1> QED
    BY <1>11, <1>12, <1>13, <1>14, <1>15, <1>16

\* An answer that leaves no room for the command's own keeps what was there.
LongEnough(cmd, rlen) == (cmd \in {0, 255} => rlen >= 3) /\ (cmd = 1 => rlen >= 4)

LEMMA AnswerIsNew ==
    ASSUME NEW cmd \in Byte, NEW n \in Nat, LongEnough(cmd, n),
           NEW pad \in PadStates \cup {Absent}, NEW before, NEW after
    PROVE  Answer(cmd, pad, n, before) = Answer(cmd, pad, n, after)
<1> DEFINE padded(s, b) == IF Len(s) > n THEN b
                           ELSE [i \in 1 .. n |-> IF i <= Len(s) THEN s[i] ELSE 0]
<1>1. \A b : Answer(cmd, pad, n, b) =
          CASE pad = Absent -> padded(<< >>, b)
            [] pad # Absent /\ cmd \in {0, 255} -> padded(Type, b)
            [] pad # Absent /\ cmd = 1 -> padded(pad, b)
            [] OTHER -> padded(<< >>, b)
    BY Zenon DEF Answer
<1>2. padded(<< >>, before) = padded(<< >>, after)
    OBVIOUS
<1>3. cmd \in {0, 255} => padded(Type, before) = padded(Type, after)
    BY DEF LongEnough, Type
<1>4. cmd = 1 /\ pad # Absent => padded(pad, before) = padded(pad, after)
    <2> HAVE cmd = 1 /\ pad # Absent
    <2>1. pad \in [1 .. 4 -> Byte]
        BY PadsAssumption
    <2>2. pad \in Seq(Byte) /\ Len(pad) = 4
        <3> HIDE DEF Byte
        <3>1. pad \in Seq(Byte) /\ DOMAIN pad = 1 .. 4
            BY <2>1, SeqDef
        <3>2. PICK len \in Nat : len = Len(pad) /\ 1 .. len = 1 .. 4
            BY <3>1, LenProperties
        <3>3. 4 \in 1 .. len
            BY <3>2
        <3>4. len \in 1 .. 4
            BY <3>2, <3>3
        <3> QED
            BY <3>1, <3>2, <3>3, <3>4
    <2>3. ~(Len(pad) > n)
        BY <2>2 DEF LongEnough
    <2> QED
        BY <2>3, Zenon
<1> HIDE DEF padded, Byte
<1>5. CASE pad = Absent
    BY <1>1, <1>2, <1>5
<1>6. CASE pad # Absent /\ cmd \in {0, 255}
    BY <1>1, <1>3, <1>6
<1>7. CASE pad # Absent /\ cmd = 1
    BY <1>1, <1>4, <1>7
<1>8. CASE pad # Absent /\ cmd # 1 /\ cmd \notin {0, 255}
    BY <1>1, <1>2, <1>8
<1> QED
    BY <1>5, <1>6, <1>7, <1>8

\* What the packet at c is and asks for.
Asked(ram, c) == IF Length(ram[c]) > 0 THEN ram[c + 2] ELSE 0
Room(ram, p) ==
    LET c == AfterPadding(ram, p)
    IN HoldsPacket(ram, c) => LongEnough(Asked(ram, c), Length(ram[c + 1]))

\* An answered packet by its bytes.
AnsweredByte(ram, c, pad, i) ==
    IF i = c + 1 THEN IF pad = Absent THEN Marked(ram[i]) ELSE Length(ram[i])
    ELSE IF i \in c + 2 + Length(ram[c]) .. PacketEnd(ram, c) - 1
         THEN Answer(Asked(ram, c), pad, Length(ram[c + 1]), << >>)
                  [i - (c + 2 + Length(ram[c])) + 1]
    ELSE ram[i]

LEMMA AnsweredBytes ==
    ASSUME NEW ram \in Blocks, NEW c \in 0 .. Control, HoldsPacket(ram, c),
           LongEnough(Asked(ram, c), Length(ram[c + 1])),
           NEW pad \in PadStates \cup {Absent}
    PROVE  \A i \in Offsets : Answered(ram, c, pad)[i] = AnsweredByte(ram, c, pad, i)
<1> DEFINE rlen == Length(ram[c + 1])
           rx == c + 2 + Length(ram[c])
           before == [i \in 1 .. rlen |-> ram[rx + i - 1]]
<1>1. /\ c \in Int /\ c + 1 < Control
      /\ rx \in Int /\ Length(ram[c]) \in Nat /\ rlen \in Nat
      /\ PacketEnd(ram, c) = rx + rlen /\ rx + rlen <= Control
    <2>1. c \in Int
        OBVIOUS
    <2>2. /\ c + 1 < Control
          /\ Length(ram[c]) \in Nat /\ Length(ram[c + 1]) \in Nat
          /\ PacketEnd(ram, c) = c + 2 + Length(ram[c]) + Length(ram[c + 1])
          /\ PacketEnd(ram, c) <= Control
        <3> HIDE DEF Control, Blocks
        <3> QED
            BY PacketLengths
    <2> QED
        BY <2>1, <2>2
<1>2. Asked(ram, c) \in Byte
    <2>1. Length(ram[c]) > 0 => ram[c + 2] \in Byte
        BY <1>1
    <2> QED
        BY <2>1 DEF Asked
<1>3. Answered(ram, c, pad) =
          [i \in Offsets |->
              IF i = c + 1 THEN IF pad = Absent THEN Marked(ram[i]) ELSE Length(ram[i])
              ELSE IF i \in rx .. rx + rlen - 1
                   THEN Answer(Asked(ram, c), pad, rlen, before)[i - rx + 1]
              ELSE ram[i]]
    BY Zenon DEF Answered, Asked
<1>4. Answer(Asked(ram, c), pad, rlen, before) = Answer(Asked(ram, c), pad, rlen, << >>)
    <2> HIDE DEF before, Byte
    <2> QED
        BY <1>1, <1>2, AnswerIsNew
<1>5. rx .. rx + rlen - 1 = rx .. PacketEnd(ram, c) - 1
    BY <1>1
<1> HIDE DEF Offsets, before, Blocks, Control
<1> QED
    BY <1>3, <1>4, <1>5, Zenon DEF AnsweredByte

\* An answer lies after the first byte of its channel and before the next channel.
LEMMA AnswerPlace ==
    ASSUME NEW ram \in Blocks, NEW p \in 0 .. Control,
           HoldsPacket(ram, AfterPadding(ram, p)),
           NEW i, IsAnswer(ram, AfterPadding(ram, p), i)
    PROVE  i \in p + 1 .. Ahead(ram, p) - 1 /\ i < Control
<1>1. PICK c \in p .. Control : c = AfterPadding(ram, p)
    <2> HIDE DEF Control, Blocks
    <2> QED
        BY PaddingEnds
<1>2. c \in 0 .. Control /\ c \in Int
    OBVIOUS
<1>3. /\ c + 1 < Control
      /\ Length(ram[c]) \in Nat /\ Length(ram[c + 1]) \in Nat
      /\ PacketEnd(ram, c) = c + 2 + Length(ram[c]) + Length(ram[c + 1])
      /\ PacketEnd(ram, c) <= Control
    <2> HIDE DEF Control, Blocks
    <2> QED
        BY <1>1, <1>2, PacketLengths
<1>4. Ahead(ram, p) = PacketEnd(ram, c)
    <2> HIDE DEF Control, Blocks
    <2> QED
        BY <1>1, AheadCases
<1>5. i = c + 1 \/ i \in c + 2 + Length(ram[c]) .. PacketEnd(ram, c) - 1
    BY <1>1 DEF IsAnswer
<1> HIDE DEF Blocks
<1> QED
    BY <1>2, <1>3, <1>4, <1>5

LEMMA RepliesKeep ==
    ASSUME NEW ram \in Blocks, NEW p \in 0 .. Control, NEW pad \in PadStates \cup {Absent},
           Room(ram, p)
    PROVE  LET c == AfterPadding(ram, p)
           IN /\ \A i \in Offsets : ~(HoldsPacket(ram, c) /\ IsAnswer(ram, c, i))
                     => Replied(ram, p, pad)[i] = ram[i]
              /\ HoldsPacket(ram, c) => Length(Replied(ram, p, pad)[c + 1]) = Length(ram[c + 1])
<1> DEFINE c == AfterPadding(ram, p)
<1>1. c \in p .. Control /\ c \in 0 .. Control
    <2>1. c \in p .. Control
        <3> HIDE DEF Control, Blocks
        <3> QED
            BY PaddingEnds
    <2> QED
        BY <2>1
<1>2. HoldsPacket(ram, c) => LongEnough(Asked(ram, c), Length(ram[c + 1]))
    BY Zenon DEF Room
<1>3. Replied(ram, p, pad) = IF HoldsPacket(ram, c) THEN Answered(ram, c, pad) ELSE ram
    BY Zenon DEF Replied
<1> HIDE DEF c
<1>4. CASE HoldsPacket(ram, c)
    <2>1. \A i \in Offsets : Answered(ram, c, pad)[i] = AnsweredByte(ram, c, pad, i)
        <3> HIDE DEF Blocks, Control, Offsets
        <3> QED
            BY <1>1, <1>2, <1>4, AnsweredBytes, Zenon
    <2>2. c + 1 < Control
        <3> HIDE DEF Blocks, Control, Offsets
        <3> QED
            BY <1>1, <1>4, PacketLengths, Zenon
    <2>3. c + 1 \in Offsets /\ ram[c + 1] \in Byte
        BY <1>1, <2>2
    <2>4. /\ Length(Marked(ram[c + 1])) = Length(ram[c + 1])
          /\ Length(Length(ram[c + 1])) = Length(ram[c + 1])
        <3> HIDE DEF Byte
        <3> QED
            BY <2>3, LengthOfMark, Zenon
    <2> HIDE DEF Blocks, Control, Offsets, Byte
    <2>5. \A i \in Offsets : ~IsAnswer(ram, c, i) => Answered(ram, c, pad)[i] = ram[i]
        BY <2>1, Zenon DEF IsAnswer, AnsweredByte
    <2>6. Answered(ram, c, pad)[c + 1] =
              IF pad = Absent THEN Marked(ram[c + 1]) ELSE Length(ram[c + 1])
        BY <2>1, <2>3, Zenon DEF AnsweredByte
    <2> QED
        BY <1>3, <1>4, <2>4, <2>5, <2>6, Zenon DEF c
<1>5. CASE ~HoldsPacket(ram, c)
    BY <1>3, <1>5, Zenon DEF c
<1> QED
    BY <1>4, <1>5

LEMMA AlikeReplies ==
    ASSUME NEW x \in Blocks, NEW y \in Blocks, NEW p \in 0 .. Control,
           Alike(x, y, p), Room(x, p)
    PROVE  /\ Room(y, p)
           /\ \A pad \in PadStates \cup {Absent} : \A i \in p .. Ahead(x, p) - 1 :
                  i < Control => Replied(y, p, pad)[i] = Replied(x, p, pad)[i]
<1>1. PICK c \in p .. Control : c = AfterPadding(x, p)
    <2> HIDE DEF Control, Blocks
    <2> QED
        BY PaddingEnds
<1>2. /\ AfterPadding(y, p) = c
      /\ HoldsPacket(y, c) <=> HoldsPacket(x, c)
    <2> HIDE DEF Control, Blocks
    <2> QED
        BY <1>1, AlikeShape
<1>3. /\ \A i \in p .. Ahead(x, p) :
              i < Control /\ ~(HoldsPacket(x, c) /\ IsAnswer(x, c, i)) => y[i] = x[i]
      /\ HoldsPacket(x, c) => Length(y[c + 1]) = Length(x[c + 1])
    BY <1>1, Zenon DEF Alike
<1>4. Ahead(x, p) \in p .. Control
    BY AheadBounds
<1>5. CASE ~HoldsPacket(x, c)
    <2>1. Room(y, p)
        BY <1>2, <1>5, Zenon DEF Room
    <2>2. \A pad : Replied(x, p, pad) = x /\ Replied(y, p, pad) = y
        BY <1>1, <1>2, <1>5, Zenon DEF Replied
    <2>3. \A i \in p .. Ahead(x, p) - 1 : i < Control => y[i] = x[i]
        BY <1>3, <1>4, <1>5
    <2> HIDE DEF Control, Blocks
    <2> QED
        BY <2>1, <2>2, <2>3, Zenon
<1>6. CASE HoldsPacket(x, c)
    <2>1. c \in 0 .. Control /\ c \in Int
        OBVIOUS
    <2>2. /\ c + 1 < Control
          /\ Length(x[c]) \in Nat /\ Length(x[c + 1]) \in Nat
          /\ PacketEnd(x, c) = c + 2 + Length(x[c]) + Length(x[c + 1])
          /\ PacketEnd(x, c) <= Control
        <3> HIDE DEF Control, Blocks
        <3> QED
            BY <1>6, <2>1, PacketLengths
    <2>3. Ahead(x, p) = PacketEnd(x, c)
        <3> HIDE DEF Control, Blocks
        <3> QED
            BY <1>1, <1>6, AheadCases
    <2>4. ASSUME NEW i \in p .. Ahead(x, p), i < Control, ~IsAnswer(x, c, i)
          PROVE  y[i] = x[i]
        BY <1>3, <2>4
    <2>5. y[c] = x[c]
        <3>1. c \in p .. Ahead(x, p) /\ c < Control /\ ~IsAnswer(x, c, c)
            BY <2>1, <2>2, <2>3 DEF IsAnswer
        <3> QED
            BY <2>4, <3>1
    <2>6. Asked(y, c) = Asked(x, c)
        <3>1. ASSUME Length(x[c]) > 0
              PROVE  y[c + 2] = x[c + 2]
            <4>1. c + 2 \in p .. Ahead(x, p)
                BY <2>1, <2>2, <2>3, <3>1
            <4>2. c + 2 < Control \/ c + 2 = Control
                BY <2>1, <2>2, <2>3, <3>1
            <4>3. c + 2 # Control
                BY <2>1, <2>2, <2>3, <3>1
            <4>4. ~IsAnswer(x, c, c + 2)
                BY <2>1, <2>2, <3>1 DEF IsAnswer
            <4> QED
                BY <2>4, <4>1, <4>2, <4>3, <4>4
        <3> QED
            BY <2>5, <3>1, Zenon DEF Asked
    <2>7. PacketEnd(y, c) = PacketEnd(x, c)
        BY <1>3, <1>6, <2>5, Zenon DEF PacketEnd
    <2>8. LongEnough(Asked(x, c), Length(x[c + 1]))
        BY <1>1, <1>6, Zenon DEF Room
    <2>9. Length(y[c + 1]) = Length(x[c + 1])
        BY <1>3, <1>6
    <2>10. Room(y, p)
        BY <1>2, <2>6, <2>8, <2>9, Zenon DEF Room
    <2>11. ASSUME NEW pad \in PadStates \cup {Absent}, NEW i \in p .. Ahead(x, p) - 1, i < Control
           PROVE  Replied(y, p, pad)[i] = Replied(x, p, pad)[i]
        <3>1. Replied(x, p, pad) = Answered(x, c, pad) /\ Replied(y, p, pad) = Answered(y, c, pad)
            BY <1>1, <1>2, <1>6, Zenon DEF Replied
        <3>2. i \in Offsets /\ i \in p .. Ahead(x, p)
            BY <1>4, <2>11
        <3>3. Answered(x, c, pad)[i] = AnsweredByte(x, c, pad, i)
            <4> HIDE DEF Control, Blocks, Offsets
            <4> QED
                BY <1>6, <2>1, <2>8, <3>2, AnsweredBytes, Zenon
        <3>4. Answered(y, c, pad)[i] = AnsweredByte(y, c, pad, i)
            <4>1. LongEnough(Asked(y, c), Length(y[c + 1]))
                BY <2>6, <2>8, <2>9
            <4> HIDE DEF Control, Blocks, Offsets
            <4> QED
                BY <1>2, <1>6, <2>1, <3>2, <4>1, AnsweredBytes, Zenon
        <3>5. i = c + 1 => Marked(y[i]) = Marked(x[i]) /\ Length(y[i]) = Length(x[i])
            <4>1. x[i] \in Byte /\ y[i] \in Byte
                BY <3>2
            <4> HIDE DEF Byte
            <4> QED
                BY <2>9, <4>1, MarkByLength, Zenon
        <3>6. i # c + 1 /\ i \notin c + 2 + Length(x[c]) .. PacketEnd(x, c) - 1 => y[i] = x[i]
            BY <2>4, <2>11, <3>2, Zenon DEF IsAnswer
        <3>7. AnsweredByte(y, c, pad, i) = AnsweredByte(x, c, pad, i)
            <4> HIDE DEF Control, Blocks, Offsets, Byte
            <4> QED
                BY <2>5, <2>6, <2>7, <2>9, <3>5, <3>6, Zenon DEF AnsweredByte
        <3> QED
            BY <3>1, <3>3, <3>4, <3>7, Zenon
    <2> HIDE DEF Control, Blocks
    <2> QED
        BY <2>10, <2>11, Zenon
<1> QED
    BY <1>5, <1>6

-----------------------------------------------------------------------------
(* The walk over a block, by where its channels start.                       *)

CursorAt(ram, ch) ==
    LET c1 == Ahead(ram, 0)
        c2 == Ahead(ram, c1)
        c3 == Ahead(ram, c2)
    IN CASE ch = 0 -> 0 [] ch = 1 -> c1 [] ch = 2 -> c2 [] ch = 3 -> c3
         [] ch = 4 -> Ahead(ram, c3)

LEMMA CursorSteps ==
    ASSUME NEW ram \in Blocks
    PROVE  /\ CursorAt(ram, 0) = 0
           /\ \A ch \in Channels :
                  /\ CursorAt(ram, ch) \in 0 .. Control
                  /\ CursorAt(ram, ch + 1) = Ahead(ram, CursorAt(ram, ch))
                  /\ CursorAt(ram, ch + 1) \in CursorAt(ram, ch) .. Control
           /\ CursorAt(ram, 4) \in 0 .. Control
<1>1. /\ CursorAt(ram, 0) = 0
      /\ CursorAt(ram, 1) = Ahead(ram, CursorAt(ram, 0))
      /\ CursorAt(ram, 2) = Ahead(ram, CursorAt(ram, 1))
      /\ CursorAt(ram, 3) = Ahead(ram, CursorAt(ram, 2))
      /\ CursorAt(ram, 4) = Ahead(ram, CursorAt(ram, 3))
    <2> DEFINE c1 == Ahead(ram, 0)
               c2 == Ahead(ram, c1)
               c3 == Ahead(ram, c2)
               c4 == Ahead(ram, c3)
    <2> HIDE DEF c1, c2, c3, c4
    <2>1. \A ch : CursorAt(ram, ch) =
              CASE ch = 0 -> 0 [] ch = 1 -> c1 [] ch = 2 -> c2 [] ch = 3 -> c3 [] ch = 4 -> c4
        BY Zenon DEF CursorAt, c1, c2, c3, c4
    <2>2. /\ CursorAt(ram, 0) = 0 /\ CursorAt(ram, 1) = c1 /\ CursorAt(ram, 2) = c2
          /\ CursorAt(ram, 3) = c3 /\ CursorAt(ram, 4) = c4
        BY <2>1
    <2> QED
        BY <2>2, Zenon DEF c1, c2, c3, c4
<1>2. \A p \in 0 .. Control : Ahead(ram, p) \in p .. Control
    BY AheadBounds
<1>3. 0 \in 0 .. Control /\ \A p \in 0 .. Control : p .. Control \subseteq 0 .. Control
    OBVIOUS
<1> HIDE DEF Control, Blocks
<1>4. CursorAt(ram, 0) \in 0 .. Control /\ CursorAt(ram, 1) \in CursorAt(ram, 0) .. Control
    BY <1>1, <1>2, <1>3
<1>5. CursorAt(ram, 1) \in 0 .. Control /\ CursorAt(ram, 2) \in CursorAt(ram, 1) .. Control
    BY <1>1, <1>2, <1>3, <1>4
<1>6. CursorAt(ram, 2) \in 0 .. Control /\ CursorAt(ram, 3) \in CursorAt(ram, 2) .. Control
    BY <1>1, <1>2, <1>3, <1>5
<1>7. CursorAt(ram, 3) \in 0 .. Control /\ CursorAt(ram, 4) \in CursorAt(ram, 3) .. Control
    BY <1>1, <1>2, <1>3, <1>6
<1>8. CursorAt(ram, 4) \in 0 .. Control
    BY <1>3, <1>7
<1>9. ASSUME NEW ch \in Channels
      PROVE  /\ CursorAt(ram, ch) \in 0 .. Control
             /\ CursorAt(ram, ch + 1) = Ahead(ram, CursorAt(ram, ch))
             /\ CursorAt(ram, ch + 1) \in CursorAt(ram, ch) .. Control
    <2>1. ch = 0 \/ ch = 1 \/ ch = 2 \/ ch = 3
        BY DEF Channels
    <2>2. CASE ch = 0
        BY <1>1, <1>4, <2>2
    <2>3. CASE ch = 1
        BY <1>1, <1>5, <2>3
    <2>4. CASE ch = 2
        BY <1>1, <1>6, <2>4
    <2>5. CASE ch = 3
        BY <1>1, <1>7, <2>5
    <2> QED
        BY <2>1, <2>2, <2>3, <2>4, <2>5
<1> QED
    BY <1>1, <1>8, <1>9

\* Every packet that is answered asks for as much as its command's answer.
LeavesRoom(ram) == \A ch \in Channels : Room(ram, CursorAt(ram, ch))

\* One channel of the walk over x, from where nothing is answered yet.
LEMMA WalkOn ==
    ASSUME NEW x \in Blocks, NEW p \in 0 .. Control, Room(x, p),
           NEW at \in Walks, Reached(at) = p,
           \A i \in p .. Control : at.ram[i] = x[i],
           NEW pad \in PadStates \cup {Absent}
    PROVE  LET next == NextChannel(at, pad)
           IN /\ next \in Walks
              /\ Reached(next) = Ahead(x, p)
              /\ \A i \in Ahead(x, p) .. Control : next.ram[i] = x[i]
              /\ \A i \in p .. Ahead(x, p) - 1 : next.ram[i] = Replied(x, p, pad)[i]
              /\ \A i \in 0 .. p - 1 : next.ram[i] = at.ram[i]
<1> DEFINE next == NextChannel(at, pad)
<1>1. at.ram \in Blocks
    BY DEF Walks
<1>2. next \in Walks
    <2> HIDE DEF Blocks, Control
    <2> QED
        BY ChannelStaysInside, Zenon
<1>3. next.ram = Replied(at.ram, p, pad) /\ Reached(next) = Ahead(at.ram, p)
    <2> HIDE DEF Blocks, Control
    <2> QED
        BY ChannelSteps, Zenon
<1> HIDE DEF next
<1>4. Ahead(x, p) \in p .. Control /\ AfterPadding(x, p) \in p .. Control
    BY AheadBounds
<1>5. Alike(x, at.ram, p)
    <2>1. \A i \in p .. Ahead(x, p) : at.ram[i] = x[i]
        BY <1>4
    <2>2. HoldsPacket(x, AfterPadding(x, p)) => AfterPadding(x, p) + 1 \in p .. Control
        BY <1>4 DEF HoldsPacket
    <2> HIDE DEF Blocks, Control
    <2> QED
        BY <2>1, <2>2, Zenon DEF Alike
<1>6. Ahead(at.ram, p) = Ahead(x, p) /\ AfterPadding(at.ram, p) = AfterPadding(x, p)
    <2> HIDE DEF Blocks, Control
    <2> QED
        BY <1>1, <1>5, AlikeShape, Zenon
<1>7. /\ Room(at.ram, p)
      /\ \A i \in p .. Ahead(x, p) - 1 :
             i < Control => Replied(at.ram, p, pad)[i] = Replied(x, p, pad)[i]
    <2> HIDE DEF Blocks, Control
    <2> QED
        BY <1>1, <1>5, AlikeReplies, Zenon
<1>8. ASSUME NEW i \in Offsets, i \notin p .. Ahead(x, p) - 1
      PROVE  next.ram[i] = at.ram[i]
    <2>1. ~(HoldsPacket(at.ram, AfterPadding(at.ram, p))
              /\ IsAnswer(at.ram, AfterPadding(at.ram, p), i))
        <3>1. i \notin p + 1 .. Ahead(at.ram, p) - 1
            BY <1>4, <1>6, <1>8
        <3> HIDE DEF Blocks, Control
        <3> QED
            BY <1>1, <3>1, AnswerPlace, Zenon
    <2> HIDE DEF Blocks, Control, Offsets
    <2>2. \A j \in Offsets : ~(HoldsPacket(at.ram, AfterPadding(at.ram, p))
                               /\ IsAnswer(at.ram, AfterPadding(at.ram, p), j))
              => Replied(at.ram, p, pad)[j] = at.ram[j]
        BY <1>1, <1>7, RepliesKeep, Zenon
    <2>3. Replied(at.ram, p, pad)[i] = at.ram[i]
        BY <2>1, <2>2, Zenon
    <2> QED
        BY <1>3, <2>3, Zenon
<1>9. \A i \in Ahead(x, p) .. Control : next.ram[i] = x[i]
    BY <1>4, <1>8
<1>10. \A i \in p .. Ahead(x, p) - 1 : next.ram[i] = Replied(x, p, pad)[i]
    BY <1>3, <1>4, <1>7
<1>11. ASSUME NEW i \in 0 .. p - 1
       PROVE  next.ram[i] = at.ram[i]
    <2>1. i \in Offsets /\ i \notin p .. Ahead(x, p) - 1
        BY <1>4
    <2> HIDE DEF Blocks, Control, Offsets
    <2> QED
        BY <1>8, <2>1, Zenon
<1> QED
    BY <1>2, <1>3, <1>6, <1>9, <1>10, <1>11, Zenon DEF next

\* What the walk leaves, byte by byte.
LEMMA ProcessedBytes ==
    ASSUME NEW x \in Blocks, LeavesRoom(x), NEW pads \in Pads
    PROVE  /\ \A ch \in Channels : \A i \in CursorAt(x, ch) .. CursorAt(x, ch + 1) - 1 :
                  ProcessJoybus(x, pads)[i] = Replied(x, CursorAt(x, ch), pads[ch])[i]
           /\ \A i \in CursorAt(x, 4) .. Control - 1 : ProcessJoybus(x, pads)[i] = x[i]
<1> DEFINE start == [ram |-> x, cursor |-> 0, go |-> TRUE]
           at1 == NextChannel(start, pads[0])
           at2 == NextChannel(at1, pads[1])
           at3 == NextChannel(at2, pads[2])
           at4 == NextChannel(at3, pads[3])
           c1 == CursorAt(x, 1)
           c2 == CursorAt(x, 2)
           c3 == CursorAt(x, 3)
           c4 == CursorAt(x, 4)
<1>1. \A ch \in {0, 1, 2, 3} : pads[ch] \in PadStates \cup {Absent}
    BY DEF Pads, Channels
<1>2. start \in Walks /\ start.ram = x /\ Reached(start) = 0
    BY DEF Walks, Reached
<1>3. /\ CursorAt(x, 0) = 0
      /\ c1 \in 0 .. Control /\ c1 = Ahead(x, 0)
      /\ c2 \in c1 .. Control /\ c2 = Ahead(x, c1)
      /\ c3 \in c2 .. Control /\ c3 = Ahead(x, c2)
      /\ c4 \in c3 .. Control /\ c4 = Ahead(x, c3)
    <2>1. /\ CursorAt(x, 0) = 0
          /\ \A ch \in Channels :
                 /\ CursorAt(x, ch + 1) = Ahead(x, CursorAt(x, ch))
                 /\ CursorAt(x, ch + 1) \in CursorAt(x, ch) .. Control
        <3> HIDE DEF Blocks, Control
        <3> QED
            BY CursorSteps
    <2>2. /\ CursorAt(x, 0 + 1) = Ahead(x, 0) /\ CursorAt(x, 0 + 1) \in 0 .. Control
          /\ CursorAt(x, 1 + 1) = Ahead(x, c1) /\ CursorAt(x, 1 + 1) \in c1 .. Control
          /\ CursorAt(x, 2 + 1) = Ahead(x, c2) /\ CursorAt(x, 2 + 1) \in c2 .. Control
          /\ CursorAt(x, 3 + 1) = Ahead(x, c3) /\ CursorAt(x, 3 + 1) \in c3 .. Control
        <3>1. {0, 1, 2, 3} \subseteq Channels
            BY DEF Channels
        <3> HIDE DEF Control
        <3> QED
            BY <2>1, <3>1
    <2>3. 0 + 1 = 1 /\ 1 + 1 = 2 /\ 2 + 1 = 3 /\ 3 + 1 = 4
        OBVIOUS
    <2> HIDE DEF Control
    <2> QED
        BY <2>1, <2>2, <2>3
<1>4. Room(x, 0) /\ Room(x, c1) /\ Room(x, c2) /\ Room(x, c3)
    <2>1. {0, 1, 2, 3} \subseteq Channels
        BY DEF Channels
    <2> QED
        BY <1>3, <2>1, Zenon DEF LeavesRoom
<1>5. 0 \in 0 .. Control /\ c2 \in 0 .. Control /\ c3 \in 0 .. Control
    BY <1>3
<1>6. \A i \in 0 .. Control : start.ram[i] = x[i]
    BY <1>2
<1> HIDE DEF start, c1, c2, c3, c4, Blocks, Control
<1>7. /\ at1 \in Walks /\ Reached(at1) = c1
      /\ \A i \in c1 .. Control : at1.ram[i] = x[i]
      /\ \A i \in 0 .. c1 - 1 : at1.ram[i] = Replied(x, 0, pads[0])[i]
    BY <1>1, <1>2, <1>3, <1>4, <1>5, <1>6, WalkOn
<1> HIDE DEF at1
<1>8. /\ at2 \in Walks /\ Reached(at2) = c2
      /\ \A i \in c2 .. Control : at2.ram[i] = x[i]
      /\ \A i \in c1 .. c2 - 1 : at2.ram[i] = Replied(x, c1, pads[1])[i]
      /\ \A i \in 0 .. c1 - 1 : at2.ram[i] = at1.ram[i]
    BY <1>1, <1>3, <1>4, <1>7, WalkOn
<1> HIDE DEF at2
<1>9. /\ at3 \in Walks /\ Reached(at3) = c3
      /\ \A i \in c3 .. Control : at3.ram[i] = x[i]
      /\ \A i \in c2 .. c3 - 1 : at3.ram[i] = Replied(x, c2, pads[2])[i]
      /\ \A i \in 0 .. c2 - 1 : at3.ram[i] = at2.ram[i]
    BY <1>1, <1>3, <1>4, <1>5, <1>8, WalkOn
<1> HIDE DEF at3
<1>10. /\ at4 \in Walks
       /\ \A i \in c4 .. Control : at4.ram[i] = x[i]
       /\ \A i \in c3 .. c4 - 1 : at4.ram[i] = Replied(x, c3, pads[3])[i]
       /\ \A i \in 0 .. c3 - 1 : at4.ram[i] = at3.ram[i]
    BY <1>1, <1>3, <1>4, <1>5, <1>9, WalkOn
<1> HIDE DEF at4
<1>11. ProcessJoybus(x, pads) = [at4.ram EXCEPT ![Control] = WithoutRequest(@)]
    BY Zenon DEF ProcessJoybus, start, at1, at2, at3, at4
<1>12. \A i \in 0 .. Control - 1 : ProcessJoybus(x, pads)[i] = at4.ram[i]
    <2>1. at4.ram \in Blocks
        BY <1>10 DEF Walks
    <2>2. \A i \in 0 .. Control - 1 : i \in Offsets /\ i # Control
        BY DEF Control
    <2>3. DOMAIN at4.ram = Offsets
        BY <2>1 DEF Blocks
    <2> HIDE DEF Offsets
    <2> QED
        BY <1>11, <2>2, <2>3
<1>13. c1 \in Int /\ c2 \in Int /\ c3 \in Int /\ c4 \in Int /\ Control \in Int
    BY <1>3, <1>5 DEF Control
<1>14. \A i \in 0 .. c1 - 1 : ProcessJoybus(x, pads)[i] = Replied(x, 0, pads[0])[i]
    BY <1>3, <1>7, <1>8, <1>9, <1>10, <1>12, <1>13
<1>15. \A i \in c1 .. c2 - 1 : ProcessJoybus(x, pads)[i] = Replied(x, c1, pads[1])[i]
    BY <1>3, <1>8, <1>9, <1>10, <1>12, <1>13
<1>16. \A i \in c2 .. c3 - 1 : ProcessJoybus(x, pads)[i] = Replied(x, c2, pads[2])[i]
    BY <1>3, <1>5, <1>9, <1>10, <1>12, <1>13
<1>17. \A i \in c3 .. c4 - 1 : ProcessJoybus(x, pads)[i] = Replied(x, c3, pads[3])[i]
    BY <1>3, <1>5, <1>10, <1>12, <1>13
<1>18. \A i \in c4 .. Control - 1 : ProcessJoybus(x, pads)[i] = x[i]
    BY <1>3, <1>5, <1>10, <1>12, <1>13
<1>19. ASSUME NEW ch \in Channels
       PROVE  \A i \in CursorAt(x, ch) .. CursorAt(x, ch + 1) - 1 :
                  ProcessJoybus(x, pads)[i] = Replied(x, CursorAt(x, ch), pads[ch])[i]
    <2>1. ch = 0 \/ ch = 1 \/ ch = 2 \/ ch = 3
        BY DEF Channels
    <2>2. 0 + 1 = 1 /\ 1 + 1 = 2 /\ 2 + 1 = 3 /\ 3 + 1 = 4
        OBVIOUS
    <2>3. CASE ch = 0
        BY <1>3, <1>14, <2>2, <2>3, Zenon DEF c1
    <2>4. CASE ch = 1
        BY <1>15, <2>2, <2>4, Zenon DEF c1, c2
    <2>5. CASE ch = 2
        BY <1>16, <2>2, <2>5, Zenon DEF c2, c3
    <2>6. CASE ch = 3
        BY <1>17, <2>2, <2>6, Zenon DEF c3, c4
    <2> QED
        BY <2>1, <2>3, <2>4, <2>5, <2>6
<1> QED
    BY <1>18, <1>19, Zenon DEF c4

\* Every byte but the last is in one of the channels or after them.
LEMMA Covered ==
    ASSUME NEW ram \in Blocks, NEW i \in 0 .. Control - 1
    PROVE  \/ i \in CursorAt(ram, 4) .. Control - 1
           \/ \E ch \in Channels : i \in CursorAt(ram, ch) .. CursorAt(ram, ch + 1) - 1
<1>1. /\ CursorAt(ram, 0) = 0
      /\ \A ch \in Channels : /\ CursorAt(ram, ch) \in 0 .. Control
                              /\ CursorAt(ram, ch + 1) \in CursorAt(ram, ch) .. Control
      /\ CursorAt(ram, 4) \in 0 .. Control
    <2> HIDE DEF Blocks, Control
    <2> QED
        BY CursorSteps
<1>2. /\ 0 \in Channels /\ 1 \in Channels /\ 2 \in Channels /\ 3 \in Channels
      /\ 0 + 1 = 1 /\ 1 + 1 = 2 /\ 2 + 1 = 3 /\ 3 + 1 = 4
    BY DEF Channels
<1>3. /\ CursorAt(ram, 1) \in Int /\ CursorAt(ram, 2) \in Int /\ CursorAt(ram, 3) \in Int
      /\ CursorAt(ram, 4) \in Int
    BY <1>1, <1>2
<1>4. \/ i \in CursorAt(ram, 0) .. CursorAt(ram, 1) - 1
      \/ i \in CursorAt(ram, 1) .. CursorAt(ram, 2) - 1
      \/ i \in CursorAt(ram, 2) .. CursorAt(ram, 3) - 1
      \/ i \in CursorAt(ram, 3) .. CursorAt(ram, 4) - 1
      \/ i \in CursorAt(ram, 4) .. Control - 1
    BY <1>1, <1>3
<1> HIDE DEF Channels, Control
<1> QED
    BY <1>2, <1>4

\* A block that differs from x in answers, and in the last byte, at most.
AlikeBelow(x, y) ==
    /\ \A ch \in Channels : Alike(x, y, CursorAt(x, ch))
    /\ \A i \in CursorAt(x, 4) .. Control - 1 : y[i] = x[i]

LEMMA AlikeAnswered ==
    ASSUME NEW x \in Blocks, NEW y \in Blocks, AlikeBelow(x, y), LeavesRoom(x)
    PROVE  /\ LeavesRoom(y)
           /\ \A pads \in Pads : \A i \in 0 .. Control - 1 :
                  ProcessJoybus(y, pads)[i] = ProcessJoybus(x, pads)[i]
<1>1. /\ CursorAt(x, 0) = 0 /\ CursorAt(y, 0) = 0
      /\ \A ch \in Channels :
             /\ CursorAt(x, ch) \in 0 .. Control
             /\ CursorAt(x, ch + 1) = Ahead(x, CursorAt(x, ch))
             /\ CursorAt(x, ch + 1) \in CursorAt(x, ch) .. Control
             /\ CursorAt(y, ch + 1) = Ahead(y, CursorAt(y, ch))
      /\ CursorAt(x, 4) \in 0 .. Control
    <2> HIDE DEF Blocks, Control
    <2> QED
        BY CursorSteps
<1>2. ASSUME NEW ch \in Channels, CursorAt(y, ch) = CursorAt(x, ch)
      PROVE  CursorAt(y, ch + 1) = CursorAt(x, ch + 1)
    <2>1. Alike(x, y, CursorAt(x, ch)) /\ CursorAt(x, ch) \in 0 .. Control
        BY <1>1 DEF AlikeBelow
    <2> HIDE DEF Blocks, Control
    <2>2. Ahead(y, CursorAt(x, ch)) = Ahead(x, CursorAt(x, ch))
        BY <2>1, AlikeShape, Zenon
    <2> QED
        BY <1>1, <1>2, <2>2, Zenon
<1>3. /\ CursorAt(y, 0) = CursorAt(x, 0) /\ CursorAt(y, 1) = CursorAt(x, 1)
      /\ CursorAt(y, 2) = CursorAt(x, 2) /\ CursorAt(y, 3) = CursorAt(x, 3)
      /\ CursorAt(y, 4) = CursorAt(x, 4)
    <2>1. /\ 0 \in Channels /\ 1 \in Channels /\ 2 \in Channels /\ 3 \in Channels
          /\ 0 + 1 = 1 /\ 1 + 1 = 2 /\ 2 + 1 = 3 /\ 3 + 1 = 4
        BY DEF Channels
    <2>2. CursorAt(y, 1) = CursorAt(x, 1)
        BY <1>1, <1>2, <2>1, Zenon
    <2>3. CursorAt(y, 2) = CursorAt(x, 2)
        BY <1>2, <2>1, <2>2, Zenon
    <2>4. CursorAt(y, 3) = CursorAt(x, 3)
        BY <1>2, <2>1, <2>3, Zenon
    <2>5. CursorAt(y, 4) = CursorAt(x, 4)
        BY <1>2, <2>1, <2>4, Zenon
    <2> QED
        BY <1>1, <2>2, <2>3, <2>4, <2>5
<1>4. \A ch \in Channels : CursorAt(y, ch) = CursorAt(x, ch)
    <2> TAKE ch \in Channels
    <2>1. ch = 0 \/ ch = 1 \/ ch = 2 \/ ch = 3
        BY DEF Channels
    <2> QED
        BY <1>3, <2>1, Zenon
<1>5. LeavesRoom(y)
    <2> SUFFICES ASSUME NEW ch \in Channels
                 PROVE  Room(y, CursorAt(y, ch))
        BY Zenon DEF LeavesRoom
    <2>1. Alike(x, y, CursorAt(x, ch)) /\ CursorAt(x, ch) \in 0 .. Control
        BY <1>1 DEF AlikeBelow
    <2>2. Room(x, CursorAt(x, ch))
        BY Zenon DEF LeavesRoom
    <2> HIDE DEF Blocks, Control
    <2> QED
        BY <1>4, <2>1, <2>2, AlikeReplies, Zenon
<1>6. ASSUME NEW pads \in Pads, NEW ch \in Channels,
             NEW i \in CursorAt(x, ch) .. CursorAt(x, ch + 1) - 1
      PROVE  ProcessJoybus(y, pads)[i] = ProcessJoybus(x, pads)[i]
    <2>1. Alike(x, y, CursorAt(x, ch)) /\ CursorAt(x, ch) \in 0 .. Control
        BY <1>1 DEF AlikeBelow
    <2>2. Room(x, CursorAt(x, ch))
        BY Zenon DEF LeavesRoom
    <2>3. pads[ch] \in PadStates \cup {Absent}
        BY DEF Pads
    <2>4. i < Control
        BY <1>1
    <2>5. i \in CursorAt(x, ch) .. Ahead(x, CursorAt(x, ch)) - 1
        BY <1>1
    <2>6. i \in CursorAt(y, ch) .. CursorAt(y, ch + 1) - 1
        BY <1>2, <1>4
    <2> HIDE DEF Blocks, Control
    <2>7. Replied(y, CursorAt(x, ch), pads[ch])[i] = Replied(x, CursorAt(x, ch), pads[ch])[i]
        BY <2>1, <2>2, <2>3, <2>4, <2>5, AlikeReplies, Zenon
    <2>8. ProcessJoybus(x, pads)[i] = Replied(x, CursorAt(x, ch), pads[ch])[i]
        BY ProcessedBytes, Zenon
    <2>9. ProcessJoybus(y, pads)[i] = Replied(y, CursorAt(y, ch), pads[ch])[i]
        BY <1>5, <2>6, ProcessedBytes, Zenon
    <2> QED
        BY <1>4, <2>7, <2>8, <2>9, Zenon
<1>7. ASSUME NEW pads \in Pads, NEW i \in CursorAt(x, 4) .. Control - 1
      PROVE  ProcessJoybus(y, pads)[i] = ProcessJoybus(x, pads)[i]
    <2>1. y[i] = x[i]
        BY Zenon DEF AlikeBelow
    <2>2. i \in CursorAt(y, 4) .. Control - 1
        BY <1>3
    <2> HIDE DEF Blocks, Control
    <2>3. ProcessJoybus(x, pads)[i] = x[i]
        BY ProcessedBytes, Zenon
    <2>4. ProcessJoybus(y, pads)[i] = y[i]
        BY <1>5, <2>2, ProcessedBytes, Zenon
    <2> QED
        BY <2>1, <2>3, <2>4, Zenon
<1> HIDE DEF Blocks, Control, Channels
<1>8. \A i \in 0 .. Control - 1 :
          \/ i \in CursorAt(x, 4) .. Control - 1
          \/ \E ch \in Channels : i \in CursorAt(x, ch) .. CursorAt(x, ch + 1) - 1
    BY Covered
<1> QED
    BY <1>5, <1>6, <1>7, <1>8

LEMMA SameBelowControl ==
    ASSUME NEW x \in Blocks, NEW y \in Blocks, \A i \in 0 .. Control - 1 : y[i] = x[i]
    PROVE  AlikeBelow(x, y)
<1>1. \A ch \in Channels : CursorAt(x, ch) \in 0 .. Control
    <2> HIDE DEF Blocks, Control
    <2> QED
        BY CursorSteps
<1>2. CursorAt(x, 4) \in 0 .. Control
    <2> HIDE DEF Blocks, Control
    <2> QED
        BY CursorSteps
<1>3. ASSUME NEW p \in 0 .. Control
      PROVE  Alike(x, y, p)
    <2>1. Ahead(x, p) \in p .. Control /\ AfterPadding(x, p) \in p .. Control
        BY AheadBounds
    <2>2. \A i \in p .. Ahead(x, p) : i < Control => y[i] = x[i]
        BY <2>1
    <2>3. HoldsPacket(x, AfterPadding(x, p)) => AfterPadding(x, p) + 1 \in 0 .. Control - 1
        BY <2>1 DEF HoldsPacket, Overruns
    <2> HIDE DEF Blocks, Control
    <2> QED
        BY <2>2, <2>3, Zenon DEF Alike
<1>4. \A i \in CursorAt(x, 4) .. Control - 1 : y[i] = x[i]
    BY <1>2
<1> HIDE DEF Control
<1> QED
    BY <1>1, <1>3, <1>4, Zenon DEF AlikeBelow

\* The answers are all that the walk leaves.
LEMMA ProcessedIsAlike ==
    ASSUME NEW x \in Blocks, LeavesRoom(x), NEW pads \in Pads
    PROVE  AlikeBelow(x, ProcessJoybus(x, pads))
<1> DEFINE y == ProcessJoybus(x, pads)
<1>1. /\ \A ch \in Channels :
             /\ CursorAt(x, ch) \in 0 .. Control
             /\ CursorAt(x, ch + 1) = Ahead(x, CursorAt(x, ch))
      /\ CursorAt(x, 4) \in 0 .. Control
    <2> HIDE DEF Blocks, Control
    <2> QED
        BY CursorSteps
<1>2. /\ \A ch \in Channels : \A i \in CursorAt(x, ch) .. CursorAt(x, ch + 1) - 1 :
             y[i] = Replied(x, CursorAt(x, ch), pads[ch])[i]
      /\ \A i \in CursorAt(x, 4) .. Control - 1 : y[i] = x[i]
    <2> HIDE DEF Blocks, Control
    <2> QED
        BY ProcessedBytes, Zenon
<1>3. \A ch \in Channels : pads[ch] \in PadStates \cup {Absent} /\ Room(x, CursorAt(x, ch))
    BY DEF Pads, LeavesRoom
<1> HIDE DEF y
<1>4. ASSUME NEW ch \in Channels, NEW i \in Offsets, i < Control,
             i \in CursorAt(x, ch) .. Ahead(x, CursorAt(x, ch)) - 1,
             ~(/\ HoldsPacket(x, AfterPadding(x, CursorAt(x, ch)))
               /\ IsAnswer(x, AfterPadding(x, CursorAt(x, ch)), i))
      PROVE  y[i] = x[i]
    <2> HIDE DEF Blocks, Control, Offsets
    <2>1. y[i] = Replied(x, CursorAt(x, ch), pads[ch])[i]
        BY <1>1, <1>2, <1>4, Zenon
    <2>2. \A j \in Offsets : ~(HoldsPacket(x, AfterPadding(x, CursorAt(x, ch)))
                               /\ IsAnswer(x, AfterPadding(x, CursorAt(x, ch)), j))
              => Replied(x, CursorAt(x, ch), pads[ch])[j] = x[j]
        BY <1>1, <1>3, RepliesKeep, Zenon
    <2> QED
        BY <1>4, <2>1, <2>2, Zenon
<1>5. ASSUME NEW ch \in Channels, CursorAt(x, ch) < Control
      PROVE  y[CursorAt(x, ch)] = x[CursorAt(x, ch)]
    <2> DEFINE p == CursorAt(x, ch)
    <2>1. p \in 0 .. Control
        BY <1>1
    <2> HIDE DEF p
    <2>2. /\ AfterPadding(x, p) \in p .. Control
          /\ AfterPadding(x, p) < Control => AfterPadding(x, p) < Ahead(x, p)
          /\ AfterPadding(x, p) = Control => Ahead(x, p) = Control
          /\ Ahead(x, p) \in p .. Control
        BY <2>1, AheadBounds
    <2>3. p \in p .. Ahead(x, p) - 1 /\ p \in Offsets /\ p < Control
        BY <1>5, <2>1, <2>2 DEF p
    <2>4. p \notin p + 1 .. Ahead(x, p) - 1
        BY <2>1
    <2>5. ~(HoldsPacket(x, AfterPadding(x, p)) /\ IsAnswer(x, AfterPadding(x, p), p))
        <3> HIDE DEF Blocks, Control
        <3> QED
            BY <2>1, <2>4, AnswerPlace, Zenon
    <2> HIDE DEF Blocks, Control, Offsets
    <2> QED
        BY <1>4, <2>3, <2>5, Zenon DEF p
<1>6. ASSUME NEW ch \in Channels, CursorAt(x, ch + 1) < Control
      PROVE  y[CursorAt(x, ch + 1)] = x[CursorAt(x, ch + 1)]
    <2>1. CASE ch + 1 \in Channels
        <3> HIDE DEF Control
        <3> QED
            BY <1>5, <1>6, <2>1, Zenon
    <2>2. CASE ch + 1 \notin Channels
        <3>1. ch + 1 = 4
            BY <2>2 DEF Channels
        <3>2. CursorAt(x, 4) \in CursorAt(x, 4) .. Control - 1
            BY <1>1, <1>6, <3>1
        <3> HIDE DEF Control
        <3> QED
            BY <1>2, <3>1, <3>2, Zenon
    <2> QED
        BY <2>1, <2>2
<1>7. ASSUME NEW ch \in Channels
      PROVE  Alike(x, y, CursorAt(x, ch))
    <2> DEFINE p == CursorAt(x, ch)
               c == AfterPadding(x, p)
    <2>1. p \in 0 .. Control /\ CursorAt(x, ch + 1) = Ahead(x, p)
        BY <1>1
    <2> HIDE DEF p
    <2>2. /\ c \in p .. Control
          /\ c < Control => c < Ahead(x, p)
          /\ c = Control => Ahead(x, p) = Control
          /\ Ahead(x, p) \in p .. Control
        BY <2>1, AheadBounds
    <2> HIDE DEF c
    <2>3. ASSUME NEW i \in p .. Ahead(x, p), i < Control, ~(HoldsPacket(x, c) /\ IsAnswer(x, c, i))
          PROVE  y[i] = x[i]
        <3>1. CASE i = Ahead(x, p)
            <4> HIDE DEF Control
            <4> QED
                BY <1>6, <2>1, <2>3, <3>1
        <3>2. CASE i # Ahead(x, p)
            <4>1. i \in Offsets /\ i \in p .. Ahead(x, p) - 1
                BY <2>1, <2>2, <2>3, <3>2
            <4> HIDE DEF Control, Offsets
            <4> QED
                BY <1>4, <2>3, <4>1, Zenon DEF p, c
        <3> QED
            BY <3>1, <3>2
    <2>4. ASSUME HoldsPacket(x, c)
          PROVE  Length(y[c + 1]) = Length(x[c + 1])
        <3>1. c \in 0 .. Control /\ c \in Int
            BY <2>1, <2>2
        <3>2. /\ c + 1 < Control
              /\ Length(x[c]) \in Nat /\ Length(x[c + 1]) \in Nat
              /\ PacketEnd(x, c) = c + 2 + Length(x[c]) + Length(x[c + 1])
            <4> HIDE DEF Blocks, Control
            <4> QED
                BY <2>4, <3>1, PacketLengths
        <3>3. Ahead(x, p) = PacketEnd(x, c)
            <4> HIDE DEF Blocks, Control
            <4> QED
                BY <2>1, <2>2, <2>4, AheadCases DEF c
        <3>4. c + 1 \in p .. Ahead(x, p) - 1
            BY <2>1, <2>2, <3>1, <3>2, <3>3
        <3> HIDE DEF Blocks, Control
        <3>5. y[c + 1] = Replied(x, p, pads[ch])[c + 1]
            BY <1>2, <2>1, <3>4, Zenon DEF p
        <3>6. Length(Replied(x, p, pads[ch])[c + 1]) = Length(x[c + 1])
            BY <1>3, <2>1, <2>4, RepliesKeep, Zenon DEF c, p
        <3> QED
            BY <3>5, <3>6, Zenon
    <2> HIDE DEF Control
    <2> QED
        BY <2>3, <2>4, Zenon DEF Alike, c, p
<1> HIDE DEF Control
<1> QED
    BY <1>2, <1>7, Zenon DEF AlikeBelow, y

\* An answer is the same whatever was answered before.
LEMMA ForgetsTheLast ==
    ASSUME NEW x \in Blocks, LeavesRoom(x), NEW before \in Pads
    PROVE  /\ LeavesRoom(ProcessJoybus(x, before))
           /\ \A pads \in Pads : ProcessJoybus(ProcessJoybus(x, before), pads)
                                     = ProcessJoybus(x, pads)
<1> DEFINE y == ProcessJoybus(x, before)
<1>1. y \in Blocks /\ y[Control] = WithoutRequest(x[Control])
    <2> HIDE DEF Blocks, Control
    <2> QED
        BY ProcessStaysInside
<1>2. AlikeBelow(x, y)
    <2> HIDE DEF Blocks, Control
    <2> QED
        BY ProcessedIsAlike
<1> HIDE DEF y
<1>3. /\ LeavesRoom(y)
      /\ \A pads \in Pads : \A i \in 0 .. Control - 1 :
             ProcessJoybus(y, pads)[i] = ProcessJoybus(x, pads)[i]
    <2> HIDE DEF Blocks, Control
    <2> QED
        BY <1>1, <1>2, AlikeAnswered
<1>4. ASSUME NEW pads \in Pads
      PROVE  ProcessJoybus(y, pads) = ProcessJoybus(x, pads)
    <2>1. /\ ProcessJoybus(y, pads) \in Blocks
          /\ ProcessJoybus(x, pads) \in Blocks
          /\ ProcessJoybus(y, pads)[Control] = WithoutRequest(y[Control])
          /\ ProcessJoybus(x, pads)[Control] = WithoutRequest(x[Control])
        <3> HIDE DEF Blocks, Control
        <3> QED
            BY <1>1, ProcessStaysInside
    <2>2. WithoutRequest(WithoutRequest(x[Control])) = WithoutRequest(x[Control])
        <3>1. x[Control] \in Byte
            OBVIOUS
        <3>2. PICK byte \in Byte : byte = WithoutRequest(x[Control]) /\ byte % 2 = 0
            BY <3>1, RequestIsLost
        <3>3. WithoutRequest(byte) = byte
            BY <3>2 DEF WithoutRequest
        <3> QED
            BY <3>2, <3>3
    <2>3. \A i \in Offsets : ProcessJoybus(y, pads)[i] = ProcessJoybus(x, pads)[i]
        <3> TAKE i \in Offsets
        <3>1. i \in 0 .. Control - 1 \/ i = Control
            OBVIOUS
        <3> HIDE DEF Blocks, Control, Offsets
        <3> QED
            BY <1>1, <1>3, <2>1, <2>2, <3>1
    <2> HIDE DEF Offsets, Byte
    <2> QED
        BY <2>1, <2>3
<1> QED
    BY <1>3, <1>4 DEF y

-----------------------------------------------------------------------------
(* The lists.                                                                *)

\* An item a game may ask for: a packet asks for as much as its answer takes.
WellFormed(item) ==
    \/ item.kind \in {"skip", "reset"}
    \/ /\ item.kind = "packet"
       /\ item.cmd \in Byte /\ item.rlen \in 0 .. 63
       /\ item.padding \in Seq({255})
       /\ LongEnough(item.cmd, item.rlen)

ItemSize(item) == CASE item.kind = "skip" -> 2 [] item.kind = "reset" -> 1
                    [] item.kind = "packet" -> Len(item.padding) + 3 + item.rlen

Replies == PadStates \cup {Absent, Nobody}

Fresh(rlen) == [i \in 1 .. rlen |-> 255]
Reply(item, pad) ==
    IF pad = Nobody THEN Fresh(item.rlen) ELSE Answer(item.cmd, pad, item.rlen, Fresh(item.rlen))
ReplyLength(item, pad) == IF pad = Absent THEN item.rlen + 128 ELSE item.rlen

\* A packet's bytes.
LEMMA PacketBytes ==
    ASSUME NEW item, WellFormed(item), item.kind = "packet", NEW pad \in Replies
    PROVE  /\ Bytes(item, pad) \in Seq(Byte)
           /\ Len(Bytes(item, pad)) = Len(item.padding) + 3 + item.rlen
           /\ Len(item.padding) \in Nat /\ item.rlen \in 0 .. 63
           /\ \A i \in 1 .. Len(item.padding) : Bytes(item, pad)[i] = 255
           /\ Bytes(item, pad)[Len(item.padding) + 1] = 1
           /\ Bytes(item, pad)[Len(item.padding) + 2] = ReplyLength(item, pad)
           /\ Bytes(item, pad)[Len(item.padding) + 3] = item.cmd
           /\ \A i \in 1 .. item.rlen :
                  Bytes(item, pad)[Len(item.padding) + 3 + i] = Reply(item, pad)[i]
<1> DEFINE fresh == Fresh(item.rlen)
           reply == Reply(item, pad)
           head == <<1, ReplyLength(item, pad), item.cmd>>
<1>1. /\ item.cmd \in Byte /\ item.rlen \in 0 .. 63 /\ item.padding \in Seq({255})
      /\ item.rlen \in Nat
    <2>1. item.kind \notin {"skip", "reset"}
        OBVIOUS
    <2>2. item.cmd \in Byte /\ item.rlen \in 0 .. 63 /\ item.padding \in Seq({255})
        BY <2>1, Zenon DEF WellFormed
    <2>3. \A n \in 0 .. 63 : n \in Nat
        OBVIOUS
    <2> QED
        BY <2>2, <2>3, Zenon
<1>2. Bytes(item, pad) = item.padding \o head \o reply
    BY DEF Bytes, Reply, ReplyLength, Fresh
<1>3. item.padding \in Seq(Byte) /\ Len(item.padding) \in Nat
    <2>1. 255 \in Byte
        OBVIOUS
    <2> HIDE DEF Byte
    <2>2. /\ Len(item.padding) \in Nat
          /\ item.padding \in [1 .. Len(item.padding) -> {255}]
        BY <1>1, LenProperties
    <2>3. item.padding \in [1 .. Len(item.padding) -> Byte]
        BY <2>1, <2>2
    <2> QED
        BY <2>2, <2>3, SeqDef
<1>4. head \in Seq(Byte) /\ Len(head) = 3 /\ head[1] = 1 /\ head[2] = ReplyLength(item, pad)
          /\ head[3] = item.cmd
    <2>1. ReplyLength(item, pad) \in Byte /\ 1 \in Byte
        <3>1. \A n \in 0 .. 63 : n \in Byte /\ n + 128 \in Byte /\ 1 \in Byte
            OBVIOUS
        <3>2. item.rlen \in Byte /\ item.rlen + 128 \in Byte /\ 1 \in Byte
            BY <1>1, <3>1, Zenon
        <3> QED
            BY <3>2, Zenon DEF ReplyLength
    <2> HIDE DEF Byte
    <2> QED
        BY <1>1, <2>1
<1>5. fresh \in [1 .. item.rlen -> Byte]
    BY DEF Fresh
<1> HIDE DEF fresh
<1>6. reply \in [1 .. item.rlen -> Byte]
    <2>1. CASE pad = Nobody
        BY <1>5, <2>1, Zenon DEF Reply, fresh
    <2>2. CASE pad # Nobody
        <3>1. pad \in PadStates \cup {Absent}
            BY <2>2 DEF Replies
        <3>2. reply = Answer(item.cmd, pad, item.rlen, fresh)
            BY <2>2, Zenon DEF Reply, fresh
        <3> HIDE DEF Byte, reply
        <3> QED
            BY <1>1, <1>5, <3>1, <3>2, AnswerBytes
    <2> QED
        BY <2>1, <2>2
<1> HIDE DEF reply, head, Byte
<1>7. reply \in Seq(Byte) /\ Len(reply) = item.rlen
    <2>1. reply \in Seq(Byte) /\ DOMAIN reply = 1 .. item.rlen
        BY <1>1, <1>6, SeqDef
    <2>2. PICK len \in Nat : len = Len(reply) /\ 1 .. len = 1 .. item.rlen
        BY <2>1, LenProperties
    <2>3. \A m, n \in Nat : 1 .. m = 1 .. n => m = n
        <3>1. ASSUME NEW m \in Nat, NEW n \in Nat, 1 .. m = 1 .. n, m < n PROVE FALSE
            <4>1. n \in 1 .. n
                BY <3>1
            <4>2. n \in 1 .. m
                BY <3>1, <4>1
            <4> QED
                BY <3>1, <4>2
        <3>2. \A m, n \in Nat : m < n \/ n < m \/ m = n
            OBVIOUS
        <3> QED
            BY <3>1, <3>2
    <2>4. len = item.rlen
        BY <1>1, <2>2, <2>3, Zenon
    <2> QED
        BY <2>1, <2>2, <2>4, Zenon
<1>8. /\ item.padding \o head \in Seq(Byte)
      /\ Len(item.padding \o head) = Len(item.padding) + 3
      /\ \A i \in 1 .. Len(item.padding) + 3 : (item.padding \o head)[i] =
             IF i <= Len(item.padding) THEN item.padding[i] ELSE head[i - Len(item.padding)]
    <2>1. /\ item.padding \o head \in Seq(Byte)
          /\ Len(item.padding \o head) = Len(item.padding) + Len(head)
          /\ \A i \in 1 .. Len(item.padding) + Len(head) : (item.padding \o head)[i] =
                 IF i <= Len(item.padding) THEN item.padding[i] ELSE head[i - Len(item.padding)]
        BY <1>3, <1>4, ConcatProperties, Zenon
    <2> QED
        BY <1>4, <2>1, Zenon
<1> DEFINE front == item.padding \o head
<1> HIDE DEF front
<1>9. /\ front \o reply \in Seq(Byte)
      /\ Len(front \o reply) = Len(item.padding) + 3 + item.rlen
      /\ \A i \in 1 .. Len(item.padding) + 3 + item.rlen : (front \o reply)[i] =
             IF i <= Len(item.padding) + 3 THEN front[i] ELSE reply[i - (Len(item.padding) + 3)]
    <2>1. front \in Seq(Byte) /\ Len(front) = Len(item.padding) + 3
        BY <1>8, Zenon DEF front
    <2>2. /\ front \o reply \in Seq(Byte)
          /\ Len(front \o reply) = Len(front) + Len(reply)
          /\ \A i \in 1 .. Len(front) + Len(reply) : (front \o reply)[i] =
                 IF i <= Len(front) THEN front[i] ELSE reply[i - Len(front)]
        BY <1>7, <2>1, ConcatProperties, Zenon
    <2> QED
        BY <1>7, <2>1, <2>2, Zenon
<1>10. Bytes(item, pad) = front \o reply
    BY <1>2, Zenon DEF front
<1>11. \A i \in 1 .. Len(item.padding) : Bytes(item, pad)[i] = 255
    <2>1. \A i \in 1 .. Len(item.padding) : item.padding[i] = 255
        BY <1>1, LenProperties
    <2> QED
        BY <1>1, <1>3, <1>8, <1>9, <1>10, <2>1 DEF front
<1>12. /\ Bytes(item, pad)[Len(item.padding) + 1] = head[1]
       /\ Bytes(item, pad)[Len(item.padding) + 2] = head[2]
       /\ Bytes(item, pad)[Len(item.padding) + 3] = head[3]
    <2> DEFINE k == Len(item.padding)
    <2>1. k \in Nat
        BY <1>3
    <2> HIDE DEF k
    <2>2. \A j \in {1, 2, 3} : (front \o reply)[k + j] = front[k + j]
        BY <1>1, <1>9, <2>1 DEF k
    <2>3. \A j \in {1, 2, 3} : front[k + j] = head[j]
        <3>1. \A i \in 1 .. k + 3 : front[i] = IF i <= k THEN item.padding[i] ELSE head[i - k]
            BY <1>8, Zenon DEF front, k
        <3>2. \A j \in {1, 2, 3} : k + j \in 1 .. k + 3 /\ ~(k + j <= k) /\ (k + j) - k = j
            BY <2>1
        <3> QED
            BY <3>1, <3>2
    <2> QED
        BY <1>10, <2>2, <2>3 DEF k
<1>13. \A i \in 1 .. item.rlen : Bytes(item, pad)[Len(item.padding) + 3 + i] = reply[i]
    <2> DEFINE k == Len(item.padding) + 3
    <2>1. k \in Nat
        BY <1>3
    <2> HIDE DEF k
    <2>2. \A i \in 1 .. k + item.rlen : (front \o reply)[i] = IF i <= k THEN front[i] ELSE reply[i - k]
        BY <1>9, Zenon DEF k
    <2>3. \A i \in 1 .. item.rlen : k + i \in 1 .. k + item.rlen /\ ~(k + i <= k) /\ (k + i) - k = i
        BY <1>1, <2>1
    <2> QED
        BY <1>10, <2>2, <2>3 DEF k
<1> QED
    BY <1>1, <1>3, <1>4, <1>9, <1>10, <1>11, <1>12, <1>13 DEF reply

LEMMA SmallLengths == \A n \in 0 .. 63 : Marked(n) = n + 128 /\ Length(n) = n
    BY DEF Marked, Length

LEMMA ItemBytes ==
    ASSUME NEW item, WellFormed(item), NEW pad \in Replies
    PROVE  /\ Bytes(item, pad) \in Seq(Byte)
           /\ Len(Bytes(item, pad)) = ItemSize(item)
           /\ ItemSize(item) \in Nat
<1>1. CASE item.kind = "skip"
    <2>1. Bytes(item, pad) = <<0, 0>> /\ ItemSize(item) = 2
        BY <1>1 DEF Bytes, ItemSize
    <2> QED
        BY <2>1
<1>2. CASE item.kind = "reset"
    <2>1. Bytes(item, pad) = <<253>> /\ ItemSize(item) = 1
        BY <1>2 DEF Bytes, ItemSize
    <2> QED
        BY <2>1
<1>3. CASE item.kind = "packet"
    <2>1. ItemSize(item) = Len(item.padding) + 3 + item.rlen
        BY <1>3 DEF ItemSize
    <2>2. /\ Bytes(item, pad) \in Seq(Byte)
          /\ Len(Bytes(item, pad)) = Len(item.padding) + 3 + item.rlen
          /\ Len(item.padding) \in Nat /\ item.rlen \in 0 .. 63
        <3> HIDE DEF Byte
        <3> QED
            BY <1>3, PacketBytes
    <2>3. \A m \in Nat, n \in 0 .. 63 : m + 3 + n \in Nat
        OBVIOUS
    <2> HIDE DEF Byte
    <2> QED
        BY <2>1, <2>2, <2>3, Zenon
<1> QED
    BY <1>1, <1>2, <1>3, Zenon DEF WellFormed

\* A channel whose item is laid at p.
LEMMA ItemWalked ==
    ASSUME NEW x \in Blocks, NEW p \in 0 .. Control, NEW item, WellFormed(item),
           p + ItemSize(item) <= Control,
           \A i \in 1 .. ItemSize(item) : x[p + i - 1] = Bytes(item, Nobody)[i]
    PROVE  /\ Ahead(x, p) = p + ItemSize(item)
           /\ Room(x, p)
           /\ \A pad \in PadStates \cup {Absent} : \A i \in 1 .. ItemSize(item) :
                  Replied(x, p, pad)[p + i - 1] = Bytes(item, pad)[i]
<1>1. CASE item.kind = "skip"
    <2>1. ItemSize(item) = 2 /\ \A pad : Bytes(item, pad) = <<0, 0>>
        BY <1>1 DEF Bytes, ItemSize
    <2>2. x[p] = 0 /\ x[p + 1] = 0 /\ p + 1 < Control
        <3>1. 1 \in 1 .. 2 /\ 2 \in 1 .. 2 /\ p + 1 - 1 = p /\ p + 2 - 1 = p + 1
            OBVIOUS
        <3>2. x[p + 1 - 1] = <<0, 0>>[1] /\ x[p + 2 - 1] = <<0, 0>>[2]
            BY <2>1, <3>1, Zenon
        <3>3. p + 2 <= Control
            BY <2>1, Zenon
        <3> QED
            BY <3>1, <3>2, <3>3
    <2>3. AfterPadding(x, p) = p
        <3>1. p \in p .. Control /\ x[p] # 255 /\ \A i \in p .. p - 1 : i < Control /\ x[i] = 255
            BY <2>2
        <3> HIDE DEF Blocks, Control
        <3> QED
            BY <3>1, PaddingIs
    <2>4. ~HoldsPacket(x, p)
        BY <2>2, Zenon DEF HoldsPacket
    <2>5. Ahead(x, p) = p + 2
        <3>1. p \in p .. Control /\ p < Control
            BY <2>2
        <3>2. Ahead(x, p) = Skip(x, p)
            <4> HIDE DEF Blocks, Control
            <4> QED
                BY <2>2, <2>3, <3>1, AheadCases
        <3> QED
            BY <2>2, <3>2, Zenon DEF Skip
    <2>6. \A pad : Replied(x, p, pad) = x
        BY <2>3, <2>4, Zenon DEF Replied
    <2>7. Room(x, p)
        BY <2>3, <2>4, Zenon DEF Room
    <2> HIDE DEF Control, Blocks
    <2> QED
        BY <2>1, <2>5, <2>6, <2>7, Zenon
<1>2. CASE item.kind = "reset"
    <2>1. ItemSize(item) = 1 /\ \A pad : Bytes(item, pad) = <<253>>
        BY <1>2 DEF Bytes, ItemSize
    <2>2. x[p] = 253 /\ p < Control
        <3>1. 1 \in 1 .. 1 /\ p + 1 - 1 = p
            OBVIOUS
        <3>2. x[p + 1 - 1] = <<253>>[1]
            <4>1. 1 \in 1 .. ItemSize(item)
                BY <2>1, <3>1
            <4>2. Bytes(item, Nobody) = <<253>>
                BY <2>1, Zenon
            <4> HIDE DEF Blocks, Control
            <4> QED
                BY <4>1, <4>2, Zenon
        <3>3. p + 1 <= Control
            BY <2>1, Zenon
        <3> QED
            BY <3>1, <3>2, <3>3
    <2>3. AfterPadding(x, p) = p
        <3>1. p \in p .. Control /\ x[p] # 255 /\ \A i \in p .. p - 1 : i < Control /\ x[i] = 255
            BY <2>2
        <3> HIDE DEF Blocks, Control
        <3> QED
            BY <3>1, PaddingIs
    <2>4. ~HoldsPacket(x, p)
        BY <2>2, Zenon DEF HoldsPacket
    <2>5. Ahead(x, p) = p + 1
        <3>1. p \in p .. Control /\ p < Control
            BY <2>2
        <3> HIDE DEF Blocks, Control
        <3> QED
            BY <2>2, <2>3, <3>1, AheadCases
    <2>6. \A pad : Replied(x, p, pad) = x
        BY <2>3, <2>4, Zenon DEF Replied
    <2>7. Room(x, p)
        BY <2>3, <2>4, Zenon DEF Room
    <2> HIDE DEF Control, Blocks
    <2> QED
        BY <2>1, <2>5, <2>6, <2>7, Zenon
<1>3. CASE item.kind = "packet"
    <2> DEFINE k == Len(item.padding)
               n == item.rlen
               c == p + k
    <2>1. /\ item.cmd \in Byte /\ LongEnough(item.cmd, n)
        <3>1. item.kind \notin {"skip", "reset"}
            BY <1>3
        <3> QED
            BY <3>1, Zenon DEF WellFormed
    <2>2. /\ k \in Nat /\ n \in 0 .. 63
          /\ \A i \in 1 .. k : Bytes(item, Nobody)[i] = 255
          /\ Bytes(item, Nobody)[k + 1] = 1
          /\ Bytes(item, Nobody)[k + 2] = ReplyLength(item, Nobody)
          /\ Bytes(item, Nobody)[k + 3] = item.cmd
        <3>1. Nobody \in Replies
            BY DEF Replies
        <3> HIDE DEF Byte
        <3> QED
            BY <1>3, <3>1, PacketBytes
    <2>3. ReplyLength(item, Nobody) = n
        BY PadsAssumption, Zenon DEF ReplyLength
    <2>4. ItemSize(item) = k + 3 + n
        BY <1>3 DEF ItemSize
    <2> HIDE DEF k, n
    <2>5. c + 3 + n <= Control /\ c \in p .. Control /\ c \in Int /\ c + 1 < Control
        BY <2>2, <2>4
    <2>6. /\ x[c] = 1 /\ x[c + 1] = n /\ x[c + 2] = item.cmd
          /\ \A i \in p .. c - 1 : i < Control /\ x[i] = 255
        <3>1. \A j \in {1, 2, 3} : /\ k + j \in 1 .. ItemSize(item)
                                   /\ p + (k + j) - 1 = c + j - 1
            BY <2>2, <2>4
        <3>2. \A j \in {1, 2, 3} : x[c + j - 1] = Bytes(item, Nobody)[k + j]
            BY <3>1
        <3>3. c + 1 - 1 = c /\ c + 2 - 1 = c + 1 /\ c + 3 - 1 = c + 2
            BY <2>5
        <3>4. x[c] = 1 /\ x[c + 1] = n /\ x[c + 2] = item.cmd
            BY <2>2, <2>3, <3>2, <3>3
        <3>5. ASSUME NEW i \in p .. c - 1
              PROVE  i < Control /\ x[i] = 255
            <4>1. (i - p) + 1 \in 1 .. k /\ p + ((i - p) + 1) - 1 = i
                BY <2>2
            <4>2. (i - p) + 1 \in 1 .. ItemSize(item)
                BY <2>2, <2>4, <4>1
            <4>3. x[i] = 255
                <5>1. x[p + ((i - p) + 1) - 1] = Bytes(item, Nobody)[(i - p) + 1]
                    BY <4>2, Zenon
                <5>2. Bytes(item, Nobody)[(i - p) + 1] = 255
                    BY <2>2, <4>1, Zenon
                <5> QED
                    BY <4>1, <5>1, <5>2, Zenon
            <4> QED
                BY <2>5, <4>3
        <3> QED
            BY <3>4, <3>5
    <2> HIDE DEF c
    <2>7. AfterPadding(x, p) = c
        <3>1. x[c] # 255
            BY <2>6
        <3> HIDE DEF Blocks, Control
        <3> QED
            BY <2>5, <2>6, <3>1, PaddingIs
    <2>8. Length(x[c]) = 1 /\ Length(x[c + 1]) = n
        <3>1. 1 \in 0 .. 63 /\ n \in 0 .. 63
            BY <2>2
        <3>2. x[c] = 1 /\ x[c + 1] = n
            BY <2>6
        <3> QED
            BY <3>1, <3>2, SmallLengths, Zenon
    <2>9. PacketEnd(x, c) = c + 3 + n
        BY <2>2, <2>5, <2>8 DEF PacketEnd
    <2>10. HoldsPacket(x, c)
        <3>1. c < Control /\ ~(c + 1 >= Control) /\ ~(c + 3 + n > Control)
            BY <2>2, <2>5
        <3>2. ~Overruns(x, c)
            BY <2>9, <3>1, Zenon DEF Overruns
        <3>3. x[c] \notin {0, 253, 254}
            BY <2>6
        <3> QED
            BY <3>1, <3>2, <3>3, Zenon DEF HoldsPacket
    <2>11. Asked(x, c) = item.cmd
        BY <2>6, <2>8 DEF Asked
    <2>12. Room(x, p)
        BY <2>1, <2>7, <2>8, <2>11, Zenon DEF Room
    <2>13. Ahead(x, p) = p + ItemSize(item)
        <3>1. c + 3 + n = p + (k + 3 + n)
            BY <2>2 DEF c
        <3> HIDE DEF Blocks, Control
        <3> QED
            BY <2>4, <2>5, <2>7, <2>9, <2>10, <3>1, AheadCases
    <2>14. ASSUME NEW pad \in PadStates \cup {Absent}, NEW i \in 1 .. ItemSize(item)
           PROVE  Replied(x, p, pad)[p + i - 1] = Bytes(item, pad)[i]
        <3> DEFINE at == p + i - 1
        <3>1. Replied(x, p, pad) = Answered(x, c, pad)
            BY <2>7, <2>10, Zenon DEF Replied
        <3>2. at \in Offsets
            BY <2>2, <2>4, <2>5 DEF c
        <3>3. Answered(x, c, pad)[at] = AnsweredByte(x, c, pad, at)
            <4>1. c \in 0 .. Control /\ LongEnough(Asked(x, c), Length(x[c + 1]))
                BY <2>1, <2>5, <2>8, <2>11
            <4> HIDE DEF at, Blocks, Control, Offsets
            <4> QED
                BY <2>10, <3>2, <4>1, AnsweredBytes, Zenon
        <3>4. AnsweredByte(x, c, pad, at) =
                  IF at = c + 1 THEN IF pad = Absent THEN Marked(n) ELSE Length(n)
                  ELSE IF at \in c + 3 .. c + 3 + n - 1
                       THEN Answer(item.cmd, pad, n, << >>)[at - (c + 3) + 1]
                  ELSE x[at]
            <4>1. c + 2 + Length(x[c]) = c + 3 /\ PacketEnd(x, c) - 1 = c + 3 + n - 1
                BY <2>2, <2>5, <2>8, <2>9
            <4> HIDE DEF at
            <4>2. AnsweredByte(x, c, pad, at) =
                      IF at = c + 1 THEN IF pad = Absent THEN Marked(x[at]) ELSE Length(x[at])
                      ELSE IF at \in c + 3 .. c + 3 + n - 1
                           THEN Answer(item.cmd, pad, n, << >>)[at - (c + 3) + 1]
                      ELSE x[at]
                BY <2>8, <2>11, <4>1, Zenon DEF AnsweredByte
            <4>3. CASE at = c + 1
                BY <2>6, <4>2, <4>3, Zenon
            <4>4. CASE at # c + 1
                BY <4>2, <4>4, Zenon
            <4> QED
                BY <4>3, <4>4, Zenon
        <3>5. /\ \A j \in 1 .. k : Bytes(item, pad)[j] = 255
              /\ Bytes(item, pad)[k + 1] = 1
              /\ Bytes(item, pad)[k + 2] = ReplyLength(item, pad)
              /\ Bytes(item, pad)[k + 3] = item.cmd
              /\ \A j \in 1 .. n : Bytes(item, pad)[k + 3 + j] = Reply(item, pad)[j]
            <4>1. pad \in Replies
                BY DEF Replies
            <4> HIDE DEF Byte
            <4> QED
                BY <1>3, <4>1, PacketBytes DEF k, n
        <3>6. pad # Nobody
            BY PadsAssumption
        <3>7. Reply(item, pad) = Answer(item.cmd, pad, n, << >>)
            <4>1. Reply(item, pad) = Answer(item.cmd, pad, n, Fresh(n))
                BY <3>6, Zenon DEF Reply, n
            <4>2. n \in Nat
                BY <2>2
            <4> HIDE DEF Byte
            <4> QED
                <5>1. Answer(item.cmd, pad, n, Fresh(n)) = Answer(item.cmd, pad, n, << >>)
                    BY <2>1, <4>2, AnswerIsNew
                <5> QED
                    BY <4>1, <5>1, Zenon
        <3>8. Marked(n) = n + 128 /\ Length(n) = n
            BY <2>2, SmallLengths, Zenon
        <3>9. ReplyLength(item, pad) = IF pad = Absent THEN n + 128 ELSE n
            BY Zenon DEF ReplyLength, n
        <3>a. Answered(x, c, pad)[at] =
                  IF at = c + 1 THEN IF pad = Absent THEN n + 128 ELSE n
                  ELSE IF at \in c + 3 .. c + 3 + n - 1
                       THEN Answer(item.cmd, pad, n, << >>)[at - (c + 3) + 1]
                  ELSE x[at]
            BY <3>3, <3>4, <3>8, Zenon
        <3>b. /\ i \in 1 .. k => at \in p .. c - 1
              /\ i = k + 1 => at = c
              /\ i = k + 2 => at = c + 1
              /\ i = k + 3 => at = c + 2
              /\ i \in k + 4 .. k + 3 + n =>
                     /\ at \in c + 3 .. c + 3 + n - 1
                     /\ \E j \in 1 .. n : at - (c + 3) + 1 = j /\ k + 3 + j = i
            <4>1. i \in k + 4 .. k + 3 + n =>
                      /\ i - (k + 3) \in 1 .. n
                      /\ at - (c + 3) + 1 = i - (k + 3) /\ k + 3 + (i - (k + 3)) = i
                BY <2>2, <2>5 DEF c
            <4>2. i \in k + 4 .. k + 3 + n => at \in c + 3 .. c + 3 + n - 1
                BY <2>2, <2>5 DEF c
            <4>3. i \in 1 .. k => at \in p .. c - 1
                BY <2>2, <2>5 DEF c
            <4>4. /\ i = k + 1 => at = c
                  /\ i = k + 2 => at = c + 1
                  /\ i = k + 3 => at = c + 2
                BY <2>2, <2>5 DEF c
            <4> HIDE DEF at
            <4> QED
                BY <4>1, <4>2, <4>3, <4>4
        <3> HIDE DEF at
        <3>c. /\ \A m \in p .. c - 1 : m # c + 1 /\ m \notin c + 3 .. c + 3 + n - 1
              /\ c # c + 1 /\ c \notin c + 3 .. c + 3 + n - 1
              /\ c + 2 # c + 1 /\ c + 2 \notin c + 3 .. c + 3 + n - 1
              /\ \A m \in c + 3 .. c + 3 + n - 1 : m # c + 1
            BY <2>2, <2>5
        <3> SUFFICES Answered(x, c, pad)[at] = Bytes(item, pad)[i]
            BY <3>1, Zenon DEF at
        <3>10. CASE i \in 1 .. k
            <4>1. at \in p .. c - 1
                BY <3>10, <3>b, Zenon
            <4>2. at # c + 1 /\ at \notin c + 3 .. c + 3 + n - 1
                BY <3>c, <4>1, Zenon
            <4>3. Answered(x, c, pad)[at] = x[at]
                BY <3>a, <4>2, Zenon
            <4>4. x[at] = 255
                BY <2>6, <4>1, Zenon
            <4>5. Bytes(item, pad)[i] = 255
                BY <3>5, <3>10
            <4> QED
                BY <4>3, <4>4, <4>5
        <3>11. CASE i = k + 1
            BY <2>6, <3>5, <3>11, <3>a, <3>b, <3>c, Zenon
        <3>12. CASE i = k + 2
            BY <3>5, <3>9, <3>12, <3>a, <3>b, Zenon
        <3>13. CASE i = k + 3
            <4>1. at = c + 2
                BY <3>13, <3>b, Zenon
            <4>2. at # c + 1 /\ at \notin c + 3 .. c + 3 + n - 1
                BY <3>c, <4>1, Zenon
            <4>3. Answered(x, c, pad)[at] = x[c + 2]
                BY <3>a, <4>1, <4>2, Zenon
            <4> QED
                BY <2>6, <3>5, <3>13, <4>3, Zenon
        <3>14. CASE i \in k + 4 .. k + 3 + n
            <4>1. PICK j \in 1 .. n : at - (c + 3) + 1 = j /\ k + 3 + j = i
                BY <3>14, <3>b, Zenon
            <4>2. Answered(x, c, pad)[at] = Answer(item.cmd, pad, n, << >>)[j]
                <5>1. at \in c + 3 .. c + 3 + n - 1
                    BY <3>14, <3>b, Zenon
                <5>2. at # c + 1
                    BY <3>c, <5>1, Zenon
                <5> QED
                    BY <3>a, <4>1, <5>1, <5>2, Zenon
            <4>3. Bytes(item, pad)[i] = Answer(item.cmd, pad, n, << >>)[j]
                <5>1. Bytes(item, pad)[k + 3 + j] = Reply(item, pad)[j]
                    BY <3>5
                <5> QED
                    BY <3>7, <4>1, <5>1
            <4> QED
                BY <4>2, <4>3
        <3>15. \/ i \in 1 .. k \/ i = k + 1 \/ i = k + 2 \/ i = k + 3
               \/ i \in k + 4 .. k + 3 + n
            BY <2>2, <2>4
        <3> QED
            BY <3>10, <3>11, <3>12, <3>13, <3>14, <3>15
    <2> HIDE DEF Blocks, Control
    <2> QED
        BY <2>12, <2>13, <2>14, Zenon
<1> QED
    BY <1>1, <1>2, <1>3, Zenon DEF WellFormed

\* After the list, nothing is walked.
LEMMA EndWalked ==
    ASSUME NEW x \in Blocks, NEW p \in 0 .. Control, p = Control \/ x[p] = 254
    PROVE  /\ Ahead(x, p) = Control
           /\ Room(x, p)
           /\ \A pad : Replied(x, p, pad) = x
<1>1. AfterPadding(x, p) = p
    <2>1. /\ p \in p .. Control /\ (p = Control \/ x[p] # 255)
          /\ \A i \in p .. p - 1 : i < Control /\ x[i] = 255
        BY SMT
    <2> HIDE DEF Blocks, Control
    <2> QED
        BY <2>1, PaddingIs
<1>2. ~HoldsPacket(x, p) /\ ~(p < Control /\ x[p] \in {0, 253})
    <2>1. p < Control => x[p] = 254
        OBVIOUS
    <2> HIDE DEF Blocks, Control
    <2> QED
        BY <2>1 DEF HoldsPacket
<1>3. p \in p .. Control
    OBVIOUS
<1> HIDE DEF Blocks, Control
<1>4. Ahead(x, p) = Control
    BY <1>1, <1>2, <1>3, AheadCases
<1>5. ~HoldsPacket(x, p)
    BY <1>2
<1> QED
    <2>1. Room(x, p)
        BY <1>1, <1>5, Zenon DEF Room
    <2>2. \A pad : Replied(x, p, pad) = x
        BY <1>1, <1>5, Zenon DEF Replied
    <2> QED
        BY <1>4, <2>1, <2>2, Zenon

PadOf(pads, ch) == IF pads = Nobody THEN Nobody ELSE pads[ch]

\* f is the bytes of the items up to the n-th, for every n.
Laying(f, list, pads) ==
    /\ f[0] = << >>
    /\ \A n \in 1 .. Len(list) : f[n] = f[n - 1] \o Bytes(list[n], PadOf(pads, n - 1))
    /\ Laid(list, pads) = f[Len(list)] \o <<254>>

LEMMA LaidOut ==
    ASSUME NEW list, Len(list) \in 0 .. 4, NEW pads
    PROVE  \E f : Laying(f, list, pads)
<1> DEFINE B(n) == Bytes(list[n], IF pads = Nobody THEN Nobody ELSE pads[n - 1])
           Next1(n, s) == IF n = 0 \/ n > Len(list) THEN << >> ELSE s \o B(n)
           Is(f) == f = [n \in 0 .. 4 |->
                            IF n = 0 \/ n > Len(list) THEN << >> ELSE f[n - 1] \o B(n)]
           F == CHOOSE f : Is(f)
<1>1. Laid(list, pads) = F[Len(list)] \o <<254>>
    BY Zenon DEF Laid
<1> DEFINE s0 == << >>
           s1 == Next1(1, s0)
           s2 == Next1(2, s1)
           s3 == Next1(3, s2)
           s4 == Next1(4, s3)
           g == [n \in 0 .. 4 |-> IF n = 0 THEN s0 ELSE IF n = 1 THEN s1
                                  ELSE IF n = 2 THEN s2 ELSE IF n = 3 THEN s3 ELSE s4]
<1>2. Is(g)
    <2> HIDE DEF Next1, s1, s2, s3, s4
    <2>1. /\ g[0] = << >> /\ g[1] = s1 /\ g[2] = s2 /\ g[3] = s3 /\ g[4] = s4
        OBVIOUS
    <2>2. DOMAIN g = 0 .. 4 /\ g = [n \in 0 .. 4 |-> g[n]]
        OBVIOUS
    <2> HIDE DEF g
    <2>3. \A n \in 0 .. 4 : g[n] = Next1(n, g[n - 1])
        <3> TAKE n \in 0 .. 4
        <3>1. n = 0 \/ n = 1 \/ n = 2 \/ n = 3 \/ n = 4
            OBVIOUS
        <3>2. CASE n = 0
            BY <2>1, <3>2 DEF Next1
        <3>3. CASE n = 1
            BY <2>1, <3>3 DEF s1
        <3>4. CASE n = 2
            BY <2>1, <3>4 DEF s2
        <3>5. CASE n = 3
            BY <2>1, <3>5 DEF s3
        <3>6. CASE n = 4
            BY <2>1, <3>6 DEF s4
        <3> QED
            BY <3>1, <3>2, <3>3, <3>4, <3>5, <3>6
    <2>4. g = [n \in 0 .. 4 |-> Next1(n, g[n - 1])]
        BY <2>2, <2>3, Zenon
    <2> QED
        BY <2>4, Zenon DEF Next1
<1>3. Is(F)
    BY <1>2, Zenon
<1> HIDE DEF F, B
<1>4. \A n \in 0 .. 4 : F[n] = IF n = 0 \/ n > Len(list) THEN << >> ELSE F[n - 1] \o B(n)
    BY <1>3, Zenon
<1>5. F[0] = << >>
    BY <1>4
<1>6. \A n \in 1 .. Len(list) : F[n] = F[n - 1] \o B(n)
    <2>1. \A m \in 0 .. 4 : \A n \in 1 .. m : n \in 0 .. 4 /\ ~(n = 0 \/ n > m)
        OBVIOUS
    <2> QED
        BY <1>4, <2>1, Zenon
<1>7. Laying(F, list, pads)
    BY <1>1, <1>5, <1>6, Zenon DEF Laying, PadOf, B
<1> QED
    BY <1>7, Zenon

GoodList(list) == Len(list) \in 0 .. 4 /\ \A n \in 1 .. Len(list) : WellFormed(list[n])

\* How many bytes the first n items are.
Start(list, n) ==
    LET size(k) == IF n >= k THEN ItemSize(list[k]) ELSE 0
    IN size(1) + size(2) + size(3) + size(4)

LEMMA StartSteps ==
    ASSUME NEW list, GoodList(list)
    PROVE  /\ Start(list, 0) = 0
           /\ \A n \in 0 .. Len(list) : Start(list, n) \in Nat
           /\ \A n \in 1 .. Len(list) : /\ ItemSize(list[n]) \in Nat
                                        /\ Start(list, n) = Start(list, n - 1) + ItemSize(list[n])
<1>1. PICK m \in 0 .. 4 : m = Len(list) /\ \A n \in 1 .. m : ItemSize(list[n]) \in Nat
    <2>1. Len(list) \in 0 .. 4 /\ \A n \in 1 .. Len(list) : WellFormed(list[n])
        BY DEF GoodList
    <2>2. \A item : WellFormed(item) => ItemSize(item) \in Nat
        <3>1. Nobody \in Replies
            BY DEF Replies
        <3> HIDE DEF Byte
        <3> QED
            BY <3>1, ItemBytes
    <2> QED
        BY <2>1, <2>2
<1> DEFINE S(k, n) == IF n >= k THEN ItemSize(list[k]) ELSE 0
<1>2. \A n : Start(list, n) = S(1, n) + S(2, n) + S(3, n) + S(4, n)
    BY Zenon DEF Start
<1>3. \A n \in 0 .. m : \A k \in 1 .. 4 : S(k, n) \in Nat
    BY <1>1
<1>4. \A k \in 1 .. 4 : S(k, 0) = 0
    OBVIOUS
<1>5. \A n \in 1 .. m : \A k \in 1 .. 4 :
          S(k, n) = IF k = n THEN ItemSize(list[n]) ELSE S(k, n - 1)
    OBVIOUS
<1>6. \A n \in 1 .. m : S(n, n - 1) = 0
    OBVIOUS
<1> HIDE DEF S
<1>7. Start(list, 0) = 0
    BY <1>2, <1>4
<1>8. \A n \in 0 .. m : Start(list, n) \in Nat
    BY <1>2, <1>3
<1>9. ASSUME NEW n \in 1 .. m
      PROVE  Start(list, n) = Start(list, n - 1) + ItemSize(list[n])
    <2>1. \A k \in 1 .. 4 : S(k, n) \in Nat /\ S(k, n - 1) \in Nat
        BY <1>3
    <2>2. ItemSize(list[n]) \in Nat
        BY <1>1
    <2>3. Start(list, n) = S(1, n) + S(2, n) + S(3, n) + S(4, n)
        BY <1>2
    <2>4. Start(list, n - 1) = S(1, n - 1) + S(2, n - 1) + S(3, n - 1) + S(4, n - 1)
        BY <1>2
    <2>5. n = 1 \/ n = 2 \/ n = 3 \/ n = 4
        OBVIOUS
    <2>6. CASE n = 1
        BY <1>5, <1>6, <2>1, <2>2, <2>3, <2>4, <2>6
    <2>7. CASE n = 2
        BY <1>5, <1>6, <2>1, <2>2, <2>3, <2>4, <2>7
    <2>8. CASE n = 3
        BY <1>5, <1>6, <2>1, <2>2, <2>3, <2>4, <2>8
    <2>9. CASE n = 4
        BY <1>5, <1>6, <2>1, <2>2, <2>3, <2>4, <2>9
    <2> QED
        BY <2>5, <2>6, <2>7, <2>8, <2>9
<1> QED
    BY <1>1, <1>7, <1>8, <1>9

\* A list's bytes are its items', one after the other, and the end.
LEMMA LaidBytes ==
    ASSUME NEW list, GoodList(list), NEW pads \in Pads \cup {Nobody}
    PROVE  /\ Laid(list, pads) \in Seq(Byte)
           /\ Len(Laid(list, pads)) = Start(list, Len(list)) + 1
           /\ Laid(list, pads)[Start(list, Len(list)) + 1] = 254
           /\ \A n \in 1 .. Len(list) :
                  /\ Start(list, n) <= Start(list, Len(list))
                  /\ \A i \in 1 .. ItemSize(list[n]) :
                         Laid(list, pads)[Start(list, n - 1) + i]
                             = Bytes(list[n], PadOf(pads, n - 1))[i]
<1>1. PICK m \in 0 .. 4 : m = Len(list)
    BY DEF GoodList
<1>2. PICK f : Laying(f, list, pads)
    BY <1>1, LaidOut
<1>3. /\ f[0] = << >>
      /\ \A n \in 1 .. m : f[n] = f[n - 1] \o Bytes(list[n], PadOf(pads, n - 1))
      /\ Laid(list, pads) = f[m] \o <<254>>
    BY <1>1, <1>2, Zenon DEF Laying
<1>4. /\ Start(list, 0) = 0
      /\ \A n \in 0 .. m : Start(list, n) \in Nat
      /\ \A n \in 1 .. m : Start(list, n) = Start(list, n - 1) + ItemSize(list[n])
    BY <1>1, StartSteps
<1>5. ASSUME NEW n \in 1 .. m
      PROVE  /\ Bytes(list[n], PadOf(pads, n - 1)) \in Seq(Byte)
             /\ Len(Bytes(list[n], PadOf(pads, n - 1))) = ItemSize(list[n])
             /\ ItemSize(list[n]) \in Nat
    <2>1. WellFormed(list[n])
        BY <1>1 DEF GoodList
    <2>2. PadOf(pads, n - 1) \in Replies
        <3>1. n - 1 \in Channels
            BY DEF Channels
        <3>2. CASE pads = Nobody
            BY <3>2, Zenon DEF PadOf, Replies
        <3>3. CASE pads # Nobody
            BY <3>1, <3>3 DEF PadOf, Replies, Pads
        <3> QED
            BY <3>2, <3>3
    <2> HIDE DEF Byte
    <2> QED
        BY <2>1, <2>2, ItemBytes
<1> HIDE DEF Byte
<1> DEFINE L == Laid(list, pads)
           B(n) == Bytes(list[n], PadOf(pads, n - 1))
           Typed(n) == n <= m => f[n] \in Seq(Byte) /\ Len(f[n]) = Start(list, n)
<1>6. Typed(0)
    BY <1>3, <1>4
<1>7. ASSUME NEW n \in 1 .. 4, Typed(n - 1)
      PROVE  /\ Typed(n)
             /\ n <= m => \A i \in 1 .. Start(list, n - 1) + ItemSize(list[n]) :
                    f[n][i] = IF i <= Start(list, n - 1) THEN f[n - 1][i]
                              ELSE B(n)[i - Start(list, n - 1)]
    <2> SUFFICES ASSUME n <= m
                 PROVE  /\ f[n] \in Seq(Byte) /\ Len(f[n]) = Start(list, n)
                        /\ \A i \in 1 .. Start(list, n - 1) + ItemSize(list[n]) :
                               f[n][i] = IF i <= Start(list, n - 1) THEN f[n - 1][i]
                                         ELSE B(n)[i - Start(list, n - 1)]
        OBVIOUS
    <2>1. n \in 1 .. m
        OBVIOUS
    <2>2. f[n - 1] \in Seq(Byte) /\ Len(f[n - 1]) = Start(list, n - 1)
        BY <1>7, <2>1
    <2>3. f[n] = f[n - 1] \o B(n)
        BY <1>3, <2>1
    <2>4. B(n) \in Seq(Byte) /\ Len(B(n)) = ItemSize(list[n])
        BY <1>5, <2>1
    <2>5. Start(list, n) = Start(list, n - 1) + ItemSize(list[n])
        BY <1>4, <2>1
    <2> HIDE DEF B
    <2>6. /\ f[n - 1] \o B(n) \in Seq(Byte)
          /\ Len(f[n - 1] \o B(n)) = Len(f[n - 1]) + Len(B(n))
          /\ \A i \in 1 .. Len(f[n - 1]) + Len(B(n)) :
                 (f[n - 1] \o B(n))[i] = IF i <= Len(f[n - 1]) THEN f[n - 1][i]
                                         ELSE B(n)[i - Len(f[n - 1])]
        BY <2>2, <2>4, ConcatProperties, Zenon
    <2> QED
        BY <2>2, <2>3, <2>4, <2>5, <2>6, Zenon
<1> HIDE DEF Typed
<1>8. Typed(1)
    BY <1>6, <1>7
<1>9. Typed(2)
    BY <1>7, <1>8
<1>10. Typed(3)
    BY <1>7, <1>9
<1>11. Typed(4)
    BY <1>7, <1>10
<1>12. \A n \in 0 .. 4 : Typed(n)
    <2> TAKE n \in 0 .. 4
    <2>1. n = 0 \/ n = 1 \/ n = 2 \/ n = 3 \/ n = 4
        OBVIOUS
    <2> QED
        BY <1>6, <1>8, <1>9, <1>10, <1>11, <2>1, Zenon
<1>13. \A n \in 1 .. m : \A i \in 1 .. Start(list, n - 1) + ItemSize(list[n]) :
          f[n][i] = IF i <= Start(list, n - 1) THEN f[n - 1][i]
                    ELSE B(n)[i - Start(list, n - 1)]
    <2> TAKE n \in 1 .. m
    <2>1. n - 1 \in 0 .. 4 /\ n \in 1 .. 4 /\ n <= m
        OBVIOUS
    <2> HIDE DEF B
    <2> QED
        BY <1>7, <1>12, <2>1, Zenon
<1>14. /\ L \in Seq(Byte)
       /\ Len(L) = Start(list, m) + 1
       /\ L[Start(list, m) + 1] = 254
       /\ \A i \in 1 .. Start(list, m) : L[i] = f[m][i]
    <2>1. f[m] \in Seq(Byte) /\ Len(f[m]) = Start(list, m) /\ Start(list, m) \in Nat
        BY <1>4, <1>12 DEF Typed
    <2> DEFINE end == <<254>>
    <2>2. end \in Seq(Byte) /\ Len(end) = 1 /\ end[1] = 254
        BY DEF Byte
    <2> HIDE DEF end
    <2>3. /\ f[m] \o end \in Seq(Byte)
          /\ Len(f[m] \o end) = Len(f[m]) + Len(end)
          /\ \A i \in 1 .. Len(f[m]) + Len(end) :
                 (f[m] \o end)[i] = IF i <= Len(f[m]) THEN f[m][i] ELSE end[i - Len(f[m])]
        <3>1. f[m] \in Seq(Byte)
            BY <2>1
        <3>2. end \in Seq(Byte)
            BY <2>2
        <3> QED
            BY <3>1, <3>2, ConcatProperties, Zenon
    <2>4. L = f[m] \o end
        BY <1>3, Zenon DEF end
    <2>5. L \in Seq(Byte)
        BY <2>3, <2>4, Zenon
    <2> HIDE DEF L
    <2>6. /\ Len(L) = Start(list, m) + 1
          /\ \A i \in 1 .. Start(list, m) + 1 :
                 L[i] = IF i <= Start(list, m) THEN f[m][i] ELSE end[i - Start(list, m)]
        <3>1. /\ Len(L) = Len(f[m]) + Len(end)
              /\ \A i \in 1 .. Len(f[m]) + Len(end) :
                     L[i] = IF i <= Len(f[m]) THEN f[m][i] ELSE end[i - Len(f[m])]
            BY <2>3, <2>4, Zenon
        <3>2. Len(f[m]) = Start(list, m) /\ Len(end) = 1
            BY <2>1, <2>2, Zenon
        <3> QED
            BY <3>1, <3>2, Zenon
    <2> DEFINE st == Start(list, m)
    <2>7. /\ st + 1 \in 1 .. st + 1 /\ ~(st + 1 <= st) /\ (st + 1) - st = 1
          /\ \A i \in 1 .. st : i \in 1 .. st + 1 /\ i <= st
        BY <2>1
    <2>8. /\ Len(L) = st + 1
          /\ \A i \in 1 .. st + 1 : L[i] = IF i <= st THEN f[m][i] ELSE end[i - st]
        BY <2>6
    <2> HIDE DEF st
    <2>9. L[st + 1] = 254
        BY <2>2, <2>7, <2>8
    <2>10. \A i \in 1 .. st : L[i] = f[m][i]
        BY <2>7, <2>8, Zenon
    <2> QED
        BY <2>5, <2>8, <2>9, <2>10, Zenon DEF st
<1> DEFINE Below(n) == n <= m => /\ Start(list, n) <= Start(list, m)
                                 /\ \A i \in 1 .. Start(list, n) : L[i] = f[n][i]
<1>15. ASSUME NEW n \in 1 .. m, Below(n)
       PROVE  Below(n - 1)
    <2>1. /\ Start(list, n) \in Nat /\ Start(list, n - 1) \in Nat /\ ItemSize(list[n]) \in Nat
          /\ Start(list, n) = Start(list, n - 1) + ItemSize(list[n]) /\ Start(list, m) \in Nat
        BY <1>4, <1>5
    <2>2. /\ Start(list, n) <= Start(list, m)
          /\ \A i \in 1 .. Start(list, n) : L[i] = f[n][i]
        BY <1>15
    <2>3. Start(list, n - 1) <= Start(list, m)
        BY <2>1, <2>2
    <2>4. ASSUME NEW i \in 1 .. Start(list, n - 1)
          PROVE  L[i] = f[n - 1][i]
        <3>1. i \in 1 .. Start(list, n - 1) + ItemSize(list[n]) /\ i \in 1 .. Start(list, n)
              /\ i <= Start(list, n - 1)
            BY <2>1
        <3> HIDE DEF L, B
        <3>2. f[n][i] = f[n - 1][i]
            BY <1>13, <3>1, Zenon
        <3> QED
            BY <2>2, <3>1, <3>2, Zenon
    <2> HIDE DEF L
    <2> QED
        BY <2>3, <2>4
<1>16. Below(m)
    <2> HIDE DEF L
    <2> QED
        BY <1>4, <1>14
<1>17. \A n \in 0 .. 4 : n > m => Below(n)
    OBVIOUS
<1> HIDE DEF Below
<1>18. \A n \in 0 .. 4 : Below(n)
    <2>1. ASSUME NEW n \in 0 .. 3, Below(n + 1)
          PROVE  Below(n)
        <3>1. CASE n + 1 \in 1 .. m
            <4>1. (n + 1) - 1 = n
                OBVIOUS
            <4>2. Below((n + 1) - 1)
                BY <1>15, <2>1, <3>1, Zenon
            <4> QED
                BY <4>1, <4>2, Zenon
        <3>2. CASE n = m
            BY <1>16, <3>2
        <3>3. CASE n > m
            BY <1>17, <3>3
        <3>4. n + 1 \in 1 .. m \/ n = m \/ n > m
            OBVIOUS
        <3> QED
            BY <3>1, <3>2, <3>3, <3>4
    <2>2. Below(4)
        BY <1>16, <1>17
    <2>3. Below(3) /\ Below(2) /\ Below(1) /\ Below(0)
        BY <2>1, <2>2
    <2> TAKE n \in 0 .. 4
    <2>4. n = 0 \/ n = 1 \/ n = 2 \/ n = 3 \/ n = 4
        OBVIOUS
    <2> QED
        BY <2>2, <2>3, <2>4, Zenon
<1>19. ASSUME NEW n \in 1 .. m
       PROVE  /\ Start(list, n) <= Start(list, m)
              /\ \A i \in 1 .. ItemSize(list[n]) : L[Start(list, n - 1) + i] = B(n)[i]
    <2>1. /\ Start(list, n) \in Nat /\ Start(list, n - 1) \in Nat /\ ItemSize(list[n]) \in Nat
          /\ Start(list, n) = Start(list, n - 1) + ItemSize(list[n])
        BY <1>4, <1>5
    <2>2. /\ Start(list, n) <= Start(list, m)
          /\ \A i \in 1 .. Start(list, n) : L[i] = f[n][i]
        <3>1. Below(n) /\ n <= m
            BY <1>18
        <3> QED
            BY <3>1, Zenon DEF Below
    <2>3. ASSUME NEW i \in 1 .. ItemSize(list[n])
          PROVE  L[Start(list, n - 1) + i] = B(n)[i]
        <3> DEFINE st == Start(list, n - 1)
        <3>1. /\ st + i \in 1 .. st + ItemSize(list[n]) /\ st + i \in 1 .. Start(list, n)
              /\ ~(st + i <= st) /\ (st + i) - st = i
            BY <2>1
        <3> HIDE DEF L, B
        <3>2. f[n][st + i] = B(n)[(st + i) - st]
            BY <1>13, <3>1, Zenon
        <3> QED
            BY <2>2, <3>1, <3>2, Zenon
    <2> HIDE DEF L, B
    <2> QED
        BY <2>2, <2>3, Zenon
<1> QED
    BY <1>1, <1>14, <1>19

Content(list, pads, control) == [list |-> list, pads |-> pads, control |-> control]

\* A block by its bytes.
LEMMA BlockBytes ==
    ASSUME NEW list, GoodList(list), NEW pads \in Pads \cup {Nobody}, NEW control
    PROVE  /\ Block(Content(list, pads, control))[Control] = control
           /\ \A i \in 0 .. Control - 1 :
                  Block(Content(list, pads, control))[i] =
                      IF i <= Start(list, Len(list)) THEN Laid(list, pads)[i + 1] ELSE 0
<1>1. PICK n \in 0 .. 4 : n = Len(list)
    BY DEF GoodList
<1>2. Len(Laid(list, pads)) = Start(list, n) + 1 /\ Start(list, n) \in Nat
    <2>1. Len(Laid(list, pads)) = Start(list, n) + 1
        BY <1>1, LaidBytes
    <2>2. Start(list, n) \in Nat
        BY <1>1, StartSteps
    <2> QED
        BY <2>1, <2>2
<1>3. Block(Content(list, pads, control)) =
          [i \in Offsets |-> IF i = Control THEN control
                             ELSE IF i < Len(Laid(list, pads)) THEN Laid(list, pads)[i + 1]
                             ELSE 0]
    BY DEF Block, Content
<1>4. Control \in Offsets /\ \A i \in 0 .. Control - 1 : i \in Offsets /\ i # Control
    OBVIOUS
<1>5. \A i \in 0 .. Control - 1 : i < Start(list, n) + 1 <=> i <= Start(list, n)
    BY <1>2
<1> HIDE DEF Offsets, Control
<1>6. \A i \in 0 .. Control - 1 : Block(Content(list, pads, control))[i] =
          IF i < Start(list, n) + 1 THEN Laid(list, pads)[i + 1] ELSE 0
    BY <1>2, <1>3, <1>4
<1> QED
    BY <1>1, <1>3, <1>4, <1>5, <1>6

\* Every controller's answer is in the packet of its channel, and nothing moved.
LEMMA ListServed ==
    ASSUME NEW list, GoodList(list), Len(Laid(list, Nobody)) <= Control,
           NEW control, Block(Content(list, Nobody, control)) \in Blocks, NEW pads \in Pads
    PROVE  /\ LeavesRoom(Block(Content(list, Nobody, control)))
           /\ ProcessJoybus(Block(Content(list, Nobody, control)), pads)
                  = Block(Content(list, pads, WithoutRequest(control)))
<1> DEFINE x == Block(Content(list, Nobody, control))
           st(k) == Start(list, k)
<1>1. PICK n \in 0 .. 4 : n = Len(list)
    BY DEF GoodList
<1>2. /\ st(0) = 0
      /\ \A k \in 0 .. n : st(k) \in Nat
      /\ \A k \in 1 .. n : ItemSize(list[k]) \in Nat /\ st(k) = st(k - 1) + ItemSize(list[k])
    BY <1>1, StartSteps
<1>3. /\ Len(Laid(list, Nobody)) = st(n) + 1
      /\ Laid(list, Nobody)[st(n) + 1] = 254
      /\ \A k \in 1 .. n : /\ st(k) <= st(n)
                           /\ \A i \in 1 .. ItemSize(list[k]) :
                                  Laid(list, Nobody)[st(k - 1) + i] = Bytes(list[k], Nobody)[i]
    <2>1. \A ch : PadOf(Nobody, ch) = Nobody
        BY Zenon DEF PadOf
    <2> QED
        BY <1>1, <2>1, LaidBytes
<1>4. /\ Laid(list, pads)[st(n) + 1] = 254
      /\ \A k \in 1 .. n : \A i \in 1 .. ItemSize(list[k]) :
             Laid(list, pads)[st(k - 1) + i] = Bytes(list[k], pads[k - 1])[i]
    <2>1. \A ch : PadOf(pads, ch) = pads[ch]
        <3>1. pads # Nobody
            BY PadsAssumption DEF Pads
        <3> QED
            BY <3>1, Zenon DEF PadOf
    <2> QED
        BY <1>1, <2>1, LaidBytes
<1>5. st(n) < Control /\ st(n) \in Nat
    BY <1>2, <1>3
<1>6. \A i \in 0 .. Control - 1 : x[i] = IF i <= st(n) THEN Laid(list, Nobody)[i + 1] ELSE 0
    <2>1. Nobody \in Pads \cup {Nobody}
        OBVIOUS
    <2> HIDE DEF Control, x
    <2>2. /\ Block(Content(list, Nobody, control))[Control] = control
          /\ \A i \in 0 .. Control - 1 : Block(Content(list, Nobody, control))[i] =
                 IF i <= Start(list, Len(list)) THEN Laid(list, Nobody)[i + 1] ELSE 0
        <3> HIDE DEF Blocks
        <3> QED
            BY <2>1, BlockBytes
    <2> QED
        BY <1>1, <2>2, Zenon DEF x
<1>7. x \in Blocks
    OBVIOUS
<1> HIDE DEF x, st
<1>s. ASSUME NEW ch \in Channels, ch < n
      PROVE  /\ ch + 1 \in 1 .. n /\ (ch + 1) - 1 = ch /\ ch \in 0 .. n
             /\ ItemSize(list[ch + 1]) \in Nat /\ st(ch) \in Nat
             /\ st(ch + 1) = st(ch) + ItemSize(list[ch + 1]) /\ st(ch + 1) <= st(n)
    <2>1. ch + 1 \in 1 .. n /\ (ch + 1) - 1 = ch /\ ch \in 0 .. n
        BY <1>s DEF Channels
    <2>2. st(ch) \in Nat
        BY <1>2, <2>1, Zenon
    <2>3. ItemSize(list[ch + 1]) \in Nat /\ st(ch + 1) = st((ch + 1) - 1) + ItemSize(list[ch + 1])
        BY <1>2, <2>1, Zenon
    <2>4. st(ch + 1) <= st(n)
        BY <1>3, <2>1, Zenon
    <2> QED
        BY <2>1, <2>2, <2>3, <2>4, Zenon
<1>8. ASSUME NEW ch \in Channels, ch < n, CursorAt(x, ch) = st(ch)
      PROVE  /\ st(ch) \in 0 .. Control
             /\ Ahead(x, st(ch)) = st(ch + 1)
             /\ Room(x, st(ch))
             /\ \A pad \in PadStates \cup {Absent} : \A i \in 1 .. ItemSize(list[ch + 1]) :
                    Replied(x, st(ch), pad)[st(ch) + i - 1] = Bytes(list[ch + 1], pad)[i]
    <2>1. ch + 1 \in 1 .. n /\ (ch + 1) - 1 = ch /\ ch \in 0 .. n
        BY <1>8, <1>s, Zenon
    <2>2. /\ ItemSize(list[ch + 1]) \in Nat /\ st(ch) \in Nat
          /\ st(ch + 1) = st(ch) + ItemSize(list[ch + 1]) /\ st(ch + 1) <= st(n)
        BY <1>8, <1>s, Zenon
    <2>3. WellFormed(list[ch + 1])
        BY <1>1, <2>1 DEF GoodList
    <2>4. /\ st(ch) \in 0 .. Control
          /\ st(ch) + ItemSize(list[ch + 1]) <= Control
        BY <1>5, <2>2
    <2>5. ASSUME NEW i \in 1 .. ItemSize(list[ch + 1])
          PROVE  x[st(ch) + i - 1] = Bytes(list[ch + 1], Nobody)[i]
        <3>1. /\ st(ch) + i - 1 \in 0 .. Control - 1 /\ st(ch) + i - 1 <= st(n)
              /\ (st(ch) + i - 1) + 1 = st(ch) + i
            BY <1>5, <2>2
        <3>2. Laid(list, Nobody)[st(ch) + i] = Bytes(list[ch + 1], Nobody)[i]
            BY <1>3, <2>1
        <3>3. x[st(ch) + i - 1] = Laid(list, Nobody)[(st(ch) + i - 1) + 1]
            BY <1>6, <3>1, Zenon
        <3> QED
            BY <3>1, <3>2, <3>3, Zenon
    <2> HIDE DEF Blocks, Control
    <2>6. /\ Ahead(x, st(ch)) = st(ch) + ItemSize(list[ch + 1])
          /\ Room(x, st(ch))
          /\ \A pad \in PadStates \cup {Absent} : \A i \in 1 .. ItemSize(list[ch + 1]) :
                 Replied(x, st(ch), pad)[st(ch) + i - 1] = Bytes(list[ch + 1], pad)[i]
        BY <1>7, <2>3, <2>4, <2>5, ItemWalked
    <2> QED
        BY <2>2, <2>4, <2>6
<1>9. /\ CursorAt(x, 0) = 0
      /\ \A ch \in Channels : /\ CursorAt(x, ch) \in 0 .. Control
                              /\ CursorAt(x, ch + 1) = Ahead(x, CursorAt(x, ch))
      /\ CursorAt(x, 4) \in 0 .. Control
    <2> HIDE DEF Blocks, Control
    <2> QED
        BY <1>7, CursorSteps
<1> DEFINE InList(k) == k <= n => CursorAt(x, k) = st(k)
           PastIt(k) == k > n => CursorAt(x, k) = Control
<1>10. x[st(n)] = 254
    <2>1. st(n) \in 0 .. Control - 1
        BY <1>5
    <2> QED
        BY <1>3, <1>6, <2>1
<1>11. ASSUME NEW ch \in Channels, ch >= n, InList(ch), PastIt(ch)
       PROVE  /\ CursorAt(x, ch) >= st(n)
              /\ CursorAt(x, ch + 1) = Control
              /\ Room(x, CursorAt(x, ch))
              /\ \A pad : Replied(x, CursorAt(x, ch), pad) = x
    <2> DEFINE p == CursorAt(x, ch)
    <2>1. p = Control \/ (p = st(n) /\ x[p] = 254)
        BY <1>10, <1>11 DEF Channels
    <2>2. p \in 0 .. Control /\ CursorAt(x, ch + 1) = Ahead(x, p)
        BY <1>9
    <2>3. p >= st(n)
        BY <1>5, <2>1
    <2> HIDE DEF p, Blocks, Control
    <2>4. /\ Ahead(x, p) = Control
          /\ Room(x, p)
          /\ \A pad : Replied(x, p, pad) = x
        BY <1>7, <2>1, <2>2, EndWalked
    <2> QED
        BY <2>2, <2>3, <2>4 DEF p
<1>12. ASSUME NEW ch \in Channels, InList(ch), PastIt(ch)
       PROVE  InList(ch + 1) /\ PastIt(ch + 1)
    <2>1. CASE ch < n
        <3>1. CursorAt(x, ch + 1) = st(ch + 1)
            BY <1>8, <1>9, <1>12, <2>1 DEF Channels
        <3>2. ~(ch + 1 > n)
            BY <2>1 DEF Channels
        <3> QED
            BY <3>1, <3>2
    <2>2. CASE ch >= n
        <3>1. CursorAt(x, ch + 1) = Control
            BY <1>11, <1>12, <2>2, Zenon
        <3>2. ~(ch + 1 <= n)
            BY <2>2 DEF Channels
        <3> QED
            BY <3>1, <3>2
    <2> QED
        BY <2>1, <2>2 DEF Channels
<1>13. \A ch \in 0 .. 4 : InList(ch) /\ PastIt(ch)
    <2>1. InList(0) /\ PastIt(0)
        BY <1>2, <1>9
    <2> HIDE DEF InList, PastIt
    <2>2. /\ 0 \in Channels /\ 1 \in Channels /\ 2 \in Channels /\ 3 \in Channels
          /\ 0 + 1 = 1 /\ 1 + 1 = 2 /\ 2 + 1 = 3 /\ 3 + 1 = 4
        BY DEF Channels
    <2>3. InList(1) /\ PastIt(1)
        BY <1>12, <2>1, <2>2, Zenon
    <2>4. InList(2) /\ PastIt(2)
        BY <1>12, <2>2, <2>3, Zenon
    <2>5. InList(3) /\ PastIt(3)
        BY <1>12, <2>2, <2>4, Zenon
    <2>6. InList(4) /\ PastIt(4)
        BY <1>12, <2>2, <2>5, Zenon
    <2> TAKE ch \in 0 .. 4
    <2>7. ch = 0 \/ ch = 1 \/ ch = 2 \/ ch = 3 \/ ch = 4
        OBVIOUS
    <2> QED
        BY <2>1, <2>3, <2>4, <2>5, <2>6, <2>7, Zenon
<1>14. \A ch \in Channels : /\ InList(ch) /\ PastIt(ch)
                            /\ ch < n => CursorAt(x, ch) = st(ch)
                            /\ ch < n \/ ch >= n
    BY <1>13 DEF Channels
<1> HIDE DEF InList, PastIt
<1>15. LeavesRoom(x)
    <2> SUFFICES ASSUME NEW ch \in Channels
                 PROVE  Room(x, CursorAt(x, ch))
        BY Zenon DEF LeavesRoom
    <2>1. CASE ch < n
        BY <1>8, <1>14, <2>1, Zenon
    <2>2. CASE ch >= n
        BY <1>11, <1>14, <2>2, Zenon
    <2> QED
        BY <1>14, <2>1, <2>2, Zenon
<1> DEFINE y == ProcessJoybus(x, pads)
           z == Block(Content(list, pads, WithoutRequest(control)))
<1>16. /\ z[Control] = WithoutRequest(control)
       /\ \A i \in 0 .. Control - 1 : z[i] = IF i <= st(n) THEN Laid(list, pads)[i + 1] ELSE 0
    <2> HIDE DEF Control
    <2> QED
        BY <1>1, BlockBytes DEF st
<1>17. /\ y \in Blocks /\ y[Control] = WithoutRequest(x[Control])
       /\ \A ch \in Channels : \A i \in CursorAt(x, ch) .. CursorAt(x, ch + 1) - 1 :
              y[i] = Replied(x, CursorAt(x, ch), pads[ch])[i]
       /\ \A i \in CursorAt(x, 4) .. Control - 1 : y[i] = x[i]
    <2> HIDE DEF Blocks, Control
    <2> QED
        BY <1>7, <1>15, ProcessStaysInside, ProcessedBytes
<1>18. x[Control] = control
    <2> HIDE DEF Control
    <2> QED
        BY BlockBytes DEF x
<1>19. z = [i \in Offsets |-> z[i]]
    BY DEF Block
<1> HIDE DEF y, z
<1>20. ASSUME NEW i \in 0 .. Control - 1, i >= st(n)
       PROVE  x[i] = z[i]
    <2>1. CASE i = st(n)
        <3>1. i <= st(n) /\ i + 1 = st(n) + 1
            BY <1>5, <2>1
        <3> QED
            BY <1>3, <1>4, <1>6, <1>16, <3>1
    <2>2. CASE i # st(n)
        <3>1. ~(i <= st(n))
            BY <1>5, <1>20, <2>2
        <3> QED
            BY <1>6, <1>16, <3>1
    <2> QED
        BY <2>1, <2>2
<1>21. ASSUME NEW i \in 0 .. Control - 1, NEW ch \in Channels,
              i \in CursorAt(x, ch) .. CursorAt(x, ch + 1) - 1
       PROVE  y[i] = z[i]
    <2>1. y[i] = Replied(x, CursorAt(x, ch), pads[ch])[i]
        BY <1>17, <1>21
    <2>2. CASE ch < n
        <3> DEFINE j == (i - st(ch)) + 1
                   s == ItemSize(list[ch + 1])
        <3>1. CursorAt(x, ch) = st(ch)
            BY <1>14, <2>2, Zenon
        <3>2. Ahead(x, st(ch)) = st(ch + 1) /\ CursorAt(x, ch + 1) = st(ch + 1)
            BY <1>8, <1>9, <2>2, <3>1
        <3>3. \A pad \in PadStates \cup {Absent} : \A k \in 1 .. s :
                  Replied(x, st(ch), pad)[st(ch) + k - 1] = Bytes(list[ch + 1], pad)[k]
            BY <1>8, <2>2, <3>1
        <3>4. ch + 1 \in 1 .. n /\ (ch + 1) - 1 = ch /\ ch \in 0 .. n
            BY <1>s, <2>2, Zenon
        <3>5. /\ s \in Nat /\ st(ch) \in Nat /\ st(ch + 1) = st(ch) + s /\ st(ch + 1) <= st(n)
            BY <1>s, <2>2, Zenon
        <3> HIDE DEF s
        <3>6. /\ j \in 1 .. s /\ st(ch) + j - 1 = i /\ st(ch) + j = i + 1 /\ i <= st(n)
            BY <1>5, <1>21, <3>1, <3>2, <3>5
        <3> HIDE DEF j
        <3>7. pads[ch] \in PadStates \cup {Absent}
            BY DEF Pads
        <3>8. y[i] = Bytes(list[ch + 1], pads[ch])[j]
            BY <2>1, <3>1, <3>3, <3>6, <3>7
        <3>9. Laid(list, pads)[st(ch) + j] = Bytes(list[ch + 1], pads[ch])[j]
            BY <1>4, <3>4, <3>6 DEF s
        <3>10. z[i] = Laid(list, pads)[i + 1]
            BY <1>16, <3>6
        <3> QED
            BY <3>6, <3>8, <3>9, <3>10
    <2>3. CASE ch >= n
        <3>1. CursorAt(x, ch) >= st(n) /\ Replied(x, CursorAt(x, ch), pads[ch]) = x
            BY <1>11, <1>14, <2>3, Zenon
        <3>2. i >= st(n)
            BY <1>5, <1>9, <1>21, <3>1
        <3> QED
            BY <1>20, <2>1, <3>1, <3>2
    <2> QED
        BY <1>14, <2>2, <2>3, Zenon
<1>22. ASSUME NEW i \in CursorAt(x, 4) .. Control - 1
       PROVE  y[i] = z[i]
    <2>1. CursorAt(x, 4) >= st(n)
        BY <1>5, <1>13 DEF InList, PastIt
    <2>2. i \in 0 .. Control - 1 /\ i >= st(n)
        BY <1>5, <1>9, <2>1
    <2> QED
        BY <1>17, <1>20, <2>2
<1>23. \A i \in Offsets : y[i] = z[i]
    <2> TAKE i \in Offsets
    <2>1. i \in 0 .. Control - 1 \/ i = Control
        OBVIOUS
    <2>2. ASSUME NEW k \in 0 .. Control - 1
          PROVE  y[k] = z[k]
        <3>1. \/ k \in CursorAt(x, 4) .. Control - 1
              \/ \E ch \in Channels : k \in CursorAt(x, ch) .. CursorAt(x, ch + 1) - 1
            <4> HIDE DEF Blocks, Control
            <4> QED
                BY <1>7, Covered
        <3> HIDE DEF Control
        <3> QED
            BY <1>21, <1>22, <3>1
    <2>3. y[Control] = z[Control]
        BY <1>16, <1>17, <1>18
    <2> HIDE DEF Control
    <2> QED
        BY <2>1, <2>2, <2>3
<1>24. y = z
    <2>1. y = [i \in Offsets |-> y[i]]
        BY <1>17
    <2> HIDE DEF Offsets
    <2> QED
        BY <1>19, <1>23, <2>1, Zenon
<1> QED
    BY <1>15, <1>24 DEF x, y, z

-----------------------------------------------------------------------------
(* The invariant.                                                            *)

\* The game's own block is what it says.
HeldControl == rdram[Control] = held.control

IInv == TypeOK /\ ControlKept /\ MirrorsAgree /\ HeldControl

LEMMA UnlistedTyped == \A control \in Byte : /\ Unlisted(control) \in Contents
                                             /\ Unlisted(control).control = control
    BY DEF Unlisted, Contents

LEMMA BootTyped ==
    /\ Seeded \in Blocks /\ Zeros \in Blocks
    /\ Seeded[Control] = 0 /\ Zeros[Control] = 0
<1>1. Control \in Offsets /\ Control \notin SeedOffsets
    BY BlocksAssumption
<1> QED
    BY <1>1 DEF Seeded, Zeros

LEMMA OnePadTyped == OnePad \in Pads
    BY PadsAssumption DEF OnePad, Pads, Idle

LEMMA InitIInv == Init => IInv
<1> SUFFICES ASSUME Init PROVE IInv
    OBVIOUS
<1>1. controllers \in Pads
    BY OnePadTyped DEF Init
<1>2. Unlisted(0) \in Contents /\ Unlisted(0).control = 0
    BY UnlistedTyped
<1>3. ~Requested(pif_ram) /\ 0 \in Offsets
    BY BootTyped DEF Init, Requested
<1> HIDE DEF Blocks, Offsets, Control
<1> QED
    BY <1>1, <1>2, <1>3, BootTyped DEF Init, IInv, TypeOK, ControlKept, MirrorsAgree, HeldControl

LEMMA StepIInv == IInv /\ [Next]_vars => IInv'
<1> SUFFICES ASSUME IInv, [Next]_vars PROVE IInv'
    OBVIOUS
<1> USE DEF IInv
<1>0. /\ pif_ram \in Blocks /\ bus_pif_ram = pif_ram /\ rdram \in Blocks
      /\ controllers \in Pads /\ copied \in Offsets
      /\ queued \in Contents /\ held \in Contents
      /\ recent \subseteq Pads
      /\ pif_ram[Control] = queued.control /\ ~Requested(pif_ram)
      /\ rdram[Control] = held.control
    BY DEF TypeOK, ControlKept, MirrorsAgree, HeldControl
<1>d. Control \in Offsets
    OBVIOUS
<1> HIDE DEF Byte, Offsets, Control
<1>a. rdram[Control] \in Byte /\ pif_ram[Control] \in Byte
    BY <1>0, <1>d
<1> HIDE DEF Blocks
<1>b. pif_ram[Control] % 2 = 0 /\ WithoutRequest(pif_ram[Control]) = pif_ram[Control]
    BY <1>0, <1>a, NoRequestStays, Zenon DEF Requested
<1>c. WithoutRequest(rdram[Control]) % 2 # 1
    BY <1>a, RequestIsLost, Zenon
<1>1. ASSUME NEW list \in Lists, NEW control \in Controls, Compose(list, control)
      PROVE  IInv'
    <2>1. held' \in Contents /\ held'.control = control
        BY <1>1, BlocksAssumption DEF Compose, Contents
    <2>2. rdram' \in Blocks
        BY <1>1, ListsAssumption DEF Compose
    <2>3. rdram'[Control] = control
        <3>1. Control \in Offsets
            BY DEF Control, Offsets
        <3> QED
            BY <1>1, <2>1, <3>1 DEF Compose, Block
    <2> QED
        BY <1>0, <1>1, <2>1, <2>2, <2>3
        DEF Compose, TypeOK, ControlKept, MirrorsAgree, HeldControl
<1>2. ASSUME NEW block \in Oddities, NEW control \in Controls, Scribble(block, control)
      PROVE  IInv'
    <2>1. block \in Blocks /\ control \in Byte /\ Control \in Offsets
        BY BlocksAssumption DEF Control, Offsets
    <2>2. rdram' \in Blocks /\ rdram'[Control] = control
        BY <1>2, <2>1 DEF Scribble, Blocks
    <2>3. held' \in Contents /\ held'.control = control
        BY <1>2, <2>1, UnlistedTyped DEF Scribble
    <2> QED
        BY <1>0, <1>2, <2>2, <2>3
        DEF Scribble, TypeOK, ControlKept, MirrorsAgree, HeldControl
<1>3. CASE AskAgain
    <2>1. rdram[Control] + 1 \in Byte
        BY <1>3, <1>a DEF AskAgain, Requested, Byte
    <2>2. Control \in Offsets
        BY DEF Control, Offsets
    <2>3. rdram' \in Blocks /\ rdram'[Control] = rdram[Control] + 1
        BY <1>0, <1>3, <2>1, <2>2 DEF AskAgain, Blocks
    <2>4. held' \in Contents /\ held'.control = rdram[Control] + 1
        BY <1>0, <1>3, <2>1 DEF AskAgain, Contents
    <2> QED
        BY <1>0, <1>3, <2>3, <2>4
        DEF AskAgain, TypeOK, ControlKept, MirrorsAgree, HeldControl
<1>4. CASE DmaToPif
    <2>1. pif_ram' \in Blocks /\ pif_ram'[Control] = WithoutRequest(rdram[Control])
        BY <1>0, <1>4, ServedStaysInside DEF DmaToPif
    <2>2. queued' \in Contents /\ queued'.control = WithoutRequest(rdram[Control])
        BY <1>0, <1>4, AfterKeeps DEF DmaToPif
    <2>3. ~Requested(pif_ram)'
        BY <1>c, <2>1 DEF Requested
    <2> QED
        BY <1>0, <1>4, <2>1, <2>2, <2>3
        DEF DmaToPif, TypeOK, ControlKept, MirrorsAgree, HeldControl
<1>5. CASE DmaFromPif
    <2>1. pif_ram' \in Blocks /\ pif_ram'[Control] = pif_ram[Control]
        BY <1>0, <1>b, <1>5, ServedStaysInside DEF DmaFromPif
    <2>2. queued' \in Contents /\ queued'.control = pif_ram[Control]
        BY <1>0, <1>b, <1>5, AfterKeeps DEF DmaFromPif
    <2>3. ~Requested(pif_ram)'
        BY <1>b, <2>1 DEF Requested
    <2> QED
        BY <1>0, <1>5, <2>1, <2>2, <2>3
        DEF DmaFromPif, TypeOK, ControlKept, MirrorsAgree, HeldControl
<1>6. CASE StoreByte
    <2> DEFINE value == rdram[copied]
               rams == Write8(copied, value, [pif |-> pif_ram, bus |-> pif_ram])
    <2>1. value \in Byte
        BY <1>0 DEF Blocks
    <2>2. /\ rams.pif \in Blocks
          /\ rams.bus = rams.pif
          /\ copied # Control => rams.pif[Control] = pif_ram[Control]
          /\ copied = Control => rams.pif[Control] = WithoutRequest(value)
        BY <1>0, <2>1, WriteKeeps
    <2>3. pif_ram' = rams.pif /\ bus_pif_ram' = rams.bus
        BY <1>0, <1>6 DEF StoreByte
    <2>4. UNCHANGED <<rdram, controllers, held>> /\ recent' \subseteq Pads
        BY <1>0, <1>6 DEF StoreByte
    <2> HIDE DEF rams
    <2>5. CASE copied = Control
        <3>1. copied' = 0 /\ queued' = After(held)
            BY <1>6, <2>5 DEF StoreByte
        <3>2. copied' \in Offsets
            BY <3>1 DEF Offsets, Control
        <3>3. queued' \in Contents /\ queued'.control = WithoutRequest(rdram[Control])
            BY <1>0, <3>1, AfterKeeps
        <3>4. ~Requested(pif_ram)'
            BY <1>c, <2>2, <2>3, <2>5 DEF Requested
        <3> QED
            BY <1>0, <2>2, <2>3, <2>4, <2>5, <3>2, <3>3, <3>4
            DEF TypeOK, ControlKept, MirrorsAgree, HeldControl
    <2>6. CASE copied # Control
        <3>1. copied' = copied + 1 /\ queued' = Unlisted(pif_ram[Control])
            BY <1>6, <2>6 DEF StoreByte
        <3>2. copied' \in Offsets
            BY <1>0, <2>6, <3>1 DEF Offsets, Control
        <3>3. queued' \in Contents /\ queued'.control = pif_ram[Control]
            BY <1>a, <3>1, UnlistedTyped
        <3>4. ~Requested(pif_ram)'
            BY <1>b, <2>2, <2>3, <2>6 DEF Requested
        <3> QED
            BY <1>0, <2>2, <2>3, <2>4, <2>6, <3>2, <3>3, <3>4
            DEF TypeOK, ControlKept, MirrorsAgree, HeldControl
    <2> QED
        BY <2>5, <2>6
<1>7. ASSUME NEW ch \in Sockets, NEW state \in PadStates \cup {Absent},
             SetController(ch, state)
      PROVE  IInv'
    <2>1. controllers' \in Pads
        BY <1>0, <1>7 DEF SetController, Pads
    <2> QED
        BY <1>0, <1>7, <2>1
        DEF SetController, TypeOK, ControlKept, MirrorsAgree, HeldControl
<1>8. CASE Reset
    <2>1. controllers' \in Pads
        BY <1>8, OnePadTyped DEF Reset
    <2>2. Unlisted(0) \in Contents /\ Unlisted(0).control = 0
        BY UnlistedTyped DEF Byte
    <2>3. ~Requested(pif_ram)'
        BY <1>8, BootTyped DEF Reset, Requested
    <2>4. 0 \in Offsets
        BY DEF Offsets, Control
    <2> QED
        BY <1>8, <2>1, <2>2, <2>3, <2>4, BootTyped
        DEF Reset, TypeOK, ControlKept, MirrorsAgree, HeldControl
<1>9. CASE UNCHANGED vars
    BY <1>0, <1>9 DEF vars, TypeOK, ControlKept, MirrorsAgree, HeldControl, Requested
<1> QED
    BY <1>1, <1>2, <1>3, <1>4, <1>5, <1>6, <1>7, <1>8, <1>9 DEF Next

THEOREM Invariant == Spec => []IInv
    BY InitIInv, StepIInv, PTL DEF Spec

\* Every state of the joybus is well typed: no length, mark or answer that
\* process_joybus writes leaves a byte or the block.
THEOREM TypeCorrect == Spec => []TypeOK
<1>1. IInv => TypeOK
    BY DEF IInv
<1> QED
    BY <1>1, Invariant, PTL

\* The last byte keeps what the game wrote in it, but for the request, which no
\* transfer leaves behind (process_joybus and its three callers).
THEOREM RequestServedOnce == Spec => []ControlKept
<1>1. IInv => ControlKept
    BY DEF IInv
<1> QED
    BY <1>1, Invariant, PTL

\* Bus's copy of the PIF's RAM is the PIF's.
THEOREM OnePifRam == Spec => []MirrorsAgree
<1>1. IInv => MirrorsAgree
    BY DEF IInv
<1> QED
    BY <1>1, Invariant, PTL
-----------------------------------------------------------------------------
(* The stores.                                                               *)

\* What the program has stored so far is the game's block.
CopiedSoFar == \A i \in 0 .. copied - 1 : pif_ram[i] = rdram[i]

\* Once all is stored, the game's block is served as a DMA would.
LEMMA StoreServes ==
    ASSUME pif_ram \in Blocks, bus_pif_ram = pif_ram, rdram \in Blocks,
           copied \in Offsets, CopiedSoFar, StoreByte
    PROVE  /\ CopiedSoFar' /\ rdram' = rdram
           /\ copied = Control => pif_ram' = Served(rdram)
           /\ copied # Control => copied' # 0
<1> DEFINE value == rdram[copied]
           written == [pif_ram EXCEPT ![copied] = value]
           rams == Write8(copied, value, [pif |-> pif_ram, bus |-> bus_pif_ram])
<1>1. pif_ram' = rams.pif /\ rdram' = rdram
    BY Zenon DEF StoreByte
<1>2. written \in Blocks /\ \A i \in 0 .. copied : written[i] = rdram[i]
    <2>1. value \in Byte
        OBVIOUS
    <2>2. \A i \in 0 .. copied : i \in Offsets /\ (i = copied \/ i \in 0 .. copied - 1)
        OBVIOUS
    <2> HIDE DEF Byte, Offsets, Control
    <2> QED
        BY <2>1, <2>2 DEF CopiedSoFar
<1>3. CASE copied = Control
    <2>1. copied' = 0
        BY <1>3, Zenon DEF StoreByte
    <2>2. written = rdram
        BY <1>2, <1>3
    <2>3. rams.pif = Served(rdram)
        <3>1. CASE value % 2 = 1
            <4>1. rams = [pif |-> Served(written), bus |-> Served(written)]
                BY <1>3, <3>1, Zenon DEF Write8
            <4> HIDE DEF rams, written
            <4> QED
                BY <2>2, <4>1
        <3>2. CASE value % 2 # 1
            <4>1. rams = [pif |-> written, bus |-> [bus_pif_ram EXCEPT ![copied] = value]]
                BY <3>2, Zenon DEF Write8
            <4>2. Served(rdram) = rdram
                BY <1>3, <3>2, Zenon DEF Served, Requested
            <4> HIDE DEF rams, written
            <4> QED
                BY <2>2, <4>1, <4>2
        <3> QED
            BY <3>1, <3>2
    <2>4. CopiedSoFar'
        BY <2>1 DEF CopiedSoFar
    <2> HIDE DEF rams, written, Blocks, Offsets, Control
    <2> QED
        BY <1>1, <1>3, <2>3, <2>4
<1>4. CASE copied # Control
    <2>1. copied' = copied + 1
        BY <1>4, Zenon DEF StoreByte
    <2>2. rams.pif = written
        <3>1. rams = [pif |-> written, bus |-> [bus_pif_ram EXCEPT ![copied] = value]]
            BY <1>4, Zenon DEF Write8
        <3> HIDE DEF rams, written
        <3> QED
            BY <3>1
    <2> HIDE DEF rams, written
    <2>3. copied' # 0 /\ \A i \in 0 .. copied' - 1 : i \in 0 .. copied
        BY <2>1
    <2> HIDE DEF Blocks, Offsets, Control
    <2> QED
        BY <1>1, <1>2, <1>4, <2>2, <2>3 DEF CopiedSoFar
<1> QED
    BY <1>3, <1>4

-----------------------------------------------------------------------------
(* Every block that a transfer serves leaves room for its answers.           *)

\* What games write and the boot leaves does.
BlocksLeaveRoom ==
    /\ LeavesRoom(Seeded)
    /\ \A block \in Oddities : LeavesRoom(block)
    /\ \A list \in Lists, control \in Controls :
           LeavesRoom(Block([list |-> list, pads |-> Nobody, control |-> control]))

RoomInv ==
    /\ LeavesRoom(rdram)
    /\ copied = 0 => LeavesRoom(pif_ram)
    /\ CopiedSoFar

LEMMA ZerosLeaveRoom == LeavesRoom(Zeros)
<1> SUFFICES ASSUME NEW ch \in Channels, HoldsPacket(Zeros, AfterPadding(Zeros, CursorAt(Zeros, ch)))
             PROVE  FALSE
    BY Zenon DEF LeavesRoom, Room
<1> DEFINE p == CursorAt(Zeros, ch)
           c == AfterPadding(Zeros, p)
<1>1. Zeros \in Blocks
    BY BootTyped
<1>2. p \in 0 .. Control
    <2> HIDE DEF Blocks, Control
    <2> QED
        BY <1>1, CursorSteps
<1> HIDE DEF p
<1>3. c \in p .. Control
    <2> HIDE DEF Blocks, Control
    <2> QED
        BY <1>1, <1>2, PaddingEnds
<1> HIDE DEF c
<1>4. HoldsPacket(Zeros, c)
    BY Zenon DEF c, p
<1>5. c \in Offsets
    BY <1>2, <1>3
<1>6. Zeros[c] = 0
    <2> HIDE DEF Offsets
    <2> QED
        BY <1>5 DEF Zeros
<1> QED
    BY <1>4, <1>6, Zenon DEF HoldsPacket

\* The last byte is no part of the walk.
LEMMA ControlMakesNoRoom ==
    ASSUME NEW x \in Blocks, NEW y \in Blocks, LeavesRoom(x),
           \A i \in 0 .. Control - 1 : y[i] = x[i]
    PROVE  LeavesRoom(y)
<1>1. AlikeBelow(x, y)
    BY SameBelowControl
<1> HIDE DEF Blocks, Control
<1> QED
    BY <1>1, AlikeAnswered

LEMMA ServedLeavesRoom ==
    ASSUME NEW ram \in Blocks, LeavesRoom(ram), controllers \in Pads
    PROVE  LeavesRoom(Served(ram))
<1> HIDE DEF Blocks, Control
<1>1. CASE Requested(ram)
    BY <1>1, ForgetsTheLast DEF Served
<1>2. CASE ~Requested(ram)
    BY <1>2 DEF Served
<1> QED
    BY <1>1, <1>2

LEMMA InitRoom == BlocksLeaveRoom /\ Init => RoomInv
<1> SUFFICES ASSUME BlocksLeaveRoom, Init PROVE RoomInv
    OBVIOUS
<1>1. CopiedSoFar
    BY DEF Init, CopiedSoFar
<1> HIDE DEF Blocks, Offsets, Control
<1> QED
    BY <1>1, ZerosLeaveRoom DEF Init, RoomInv, BlocksLeaveRoom

LEMMA StepRoom == BlocksLeaveRoom /\ IInv /\ RoomInv /\ [Next]_vars => RoomInv'
<1> SUFFICES ASSUME BlocksLeaveRoom, IInv, RoomInv, [Next]_vars PROVE RoomInv'
    OBVIOUS
<1>0. /\ pif_ram \in Blocks /\ bus_pif_ram = pif_ram /\ rdram \in Blocks
      /\ controllers \in Pads /\ copied \in Offsets
    BY DEF IInv, TypeOK, MirrorsAgree
<1>a. /\ LeavesRoom(rdram)
      /\ copied = 0 => LeavesRoom(pif_ram)
      /\ CopiedSoFar
    BY Zenon DEF RoomInv
<1>b. copied' = 0 => CopiedSoFar'
    BY DEF CopiedSoFar
<1>1. ASSUME NEW list \in Lists, NEW control \in Controls, Compose(list, control)
      PROVE  RoomInv'
    <2>1. rdram' = Block([list |-> list, pads |-> Nobody, control |-> control])
        BY <1>1, Zenon DEF Compose
    <2>2. LeavesRoom(rdram')
        BY <2>1, Zenon DEF BlocksLeaveRoom
    <2> HIDE DEF Blocks, Offsets, Control
    <2> QED
        BY <1>1, <1>a, <1>b, <2>2 DEF Compose, RoomInv
<1>2. ASSUME NEW block \in Oddities, NEW control \in Controls, Scribble(block, control)
      PROVE  RoomInv'
    <2>1. block \in Blocks /\ control \in Byte
        BY BlocksAssumption
    <2>2. rdram' = [block EXCEPT ![Control] = control]
        BY <1>2, Zenon DEF Scribble
    <2>3. rdram' \in Blocks /\ \A i \in 0 .. Control - 1 : rdram'[i] = block[i]
        BY <2>1, <2>2
    <2>4. LeavesRoom(block)
        BY Zenon DEF BlocksLeaveRoom
    <2> HIDE DEF Blocks, Offsets, Control
    <2>5. LeavesRoom(rdram')
        BY <2>1, <2>3, <2>4, ControlMakesNoRoom
    <2> QED
        BY <1>2, <1>a, <1>b, <2>5 DEF Scribble, RoomInv
<1>3. CASE AskAgain
    <2>1. rdram' = [rdram EXCEPT ![Control] = @ + 1]
        BY <1>3, Zenon DEF AskAgain
    <2>2. rdram[Control] + 1 \in Byte
        <3>1. rdram[Control] \in Byte
            BY <1>0
        <3> QED
            BY <1>3, <3>1 DEF AskAgain, Requested
    <2>3. rdram' \in Blocks /\ \A i \in 0 .. Control - 1 : rdram'[i] = rdram[i]
        BY <1>0, <2>1, <2>2
    <2> HIDE DEF Blocks, Offsets, Control
    <2>4. LeavesRoom(rdram')
        BY <1>0, <1>a, <2>3, ControlMakesNoRoom
    <2> QED
        BY <1>3, <1>a, <1>b, <2>4 DEF AskAgain, RoomInv
<1>4. CASE DmaToPif
    <2> HIDE DEF Blocks, Offsets, Control
    <2>1. LeavesRoom(pif_ram')
        BY <1>0, <1>4, <1>a, ServedLeavesRoom DEF DmaToPif
    <2> QED
        BY <1>4, <1>a, <1>b, <2>1 DEF DmaToPif, RoomInv
<1>5. CASE DmaFromPif
    <2> HIDE DEF Blocks, Offsets, Control
    <2>1. LeavesRoom(pif_ram')
        BY <1>0, <1>5, <1>a, ServedLeavesRoom DEF DmaFromPif
    <2>2. rdram' = pif_ram' /\ copied' = 0
        BY <1>5 DEF DmaFromPif
    <2> QED
        BY <1>b, <2>1, <2>2 DEF RoomInv
<1>6. CASE StoreByte
    <2> HIDE DEF Blocks, Offsets, Control
    <2>1. /\ CopiedSoFar' /\ rdram' = rdram
          /\ copied = Control => pif_ram' = Served(rdram)
          /\ copied # Control => copied' # 0
        BY <1>0, <1>6, <1>a, StoreServes, Zenon
    <2>2. copied' = 0 => LeavesRoom(pif_ram')
        BY <1>0, <1>a, <2>1, ServedLeavesRoom
    <2> QED
        BY <1>a, <2>1, <2>2 DEF RoomInv
<1>7. ASSUME NEW ch \in Sockets, NEW state \in PadStates \cup {Absent},
             SetController(ch, state)
      PROVE  RoomInv'
    BY <1>7, <1>a DEF SetController, RoomInv, CopiedSoFar
<1>8. CASE Reset
    <2> HIDE DEF Blocks, Offsets, Control
    <2> QED
        BY <1>8, <1>b, ZerosLeaveRoom DEF Reset, RoomInv, BlocksLeaveRoom
<1>9. CASE UNCHANGED vars
    BY <1>9, <1>a DEF vars, RoomInv, CopiedSoFar
<1> QED
    BY <1>1, <1>2, <1>3, <1>4, <1>5, <1>6, <1>7, <1>8, <1>9 DEF Next

\* What a request reads does not depend on the requests before it, however often
\* a game reuses a block whose packets ask for as much as their answers take
\* (process_channel: the error bits, the lengths and the bytes it leaves).
THEOREM RequestsForgetTheLast ==
    ASSUME BlocksLeaveRoom PROVE Spec => []AnswersForgetTheLast
<1>1. Init => RoomInv
    BY InitRoom
<1>2. IInv /\ RoomInv /\ [Next]_vars => RoomInv'
    BY StepRoom
<1>3. IInv /\ RoomInv => AnswersForgetTheLast
    <2> SUFFICES ASSUME IInv, RoomInv, copied = 0, NEW pads \in recent
                 PROVE  ProcessJoybus(ProcessJoybus(pif_ram, controllers), pads)
                            = ProcessJoybus(pif_ram, pads)
        BY Zenon DEF AnswersForgetTheLast
    <2>1. pif_ram \in Blocks /\ controllers \in Pads /\ pads \in Pads
        BY DEF IInv, TypeOK
    <2>2. LeavesRoom(pif_ram)
        BY Zenon DEF RoomInv
    <2> HIDE DEF Blocks
    <2> QED
        BY <2>1, <2>2, ForgetsTheLast
<1> QED
    BY <1>1, <1>2, <1>3, Invariant, PTL DEF Spec
-----------------------------------------------------------------------------
(* Every list is answered.                                                   *)

\* What games ask for is well formed, and fits.
ListsGood == \A list \in Lists : GoodList(list) /\ Len(Laid(list, Nobody)) <= Control

LEMMA BlockTyped ==
    ASSUME NEW list, GoodList(list), NEW pads \in Pads \cup {Nobody}, NEW control \in Byte
    PROVE  Block(Content(list, pads, control)) \in Blocks
<1> DEFINE L == Laid(list, pads)
           b(i) == IF i = Control THEN control ELSE IF i < Len(L) THEN L[i + 1] ELSE 0
<1>1. L \in Seq(Byte)
    <2> HIDE DEF Byte
    <2> QED
        BY LaidBytes
<1>2. Block(Content(list, pads, control)) = [i \in Offsets |-> b(i)]
    BY DEF Block, Content
<1> HIDE DEF L
<1>3. \A i \in Offsets : b(i) \in Byte
    <2> TAKE i \in Offsets
    <2>1. i < Len(L) => L[i + 1] \in Byte
        <3>1. Len(L) \in Nat
            BY <1>1, LenProperties
        <3>2. \A k \in 1 .. Len(L) : L[k] \in Byte
            BY <1>1, ElementOfSeq
        <3> QED
            BY <3>1, <3>2
    <2>2. 0 \in Byte
        BY DEF Byte
    <2> HIDE DEF Byte
    <2> QED
        BY <2>1, <2>2
<1> HIDE DEF b, Offsets, Byte
<1> QED
    BY <1>2, <1>3

LEMMA NewControl ==
    ASSUME NEW content \in Contents, NEW control
    PROVE  Block([content EXCEPT !.control = control]) = [Block(content) EXCEPT ![Control] = control]
<1> DEFINE new == [content EXCEPT !.control = control]
<1>1. new.list = content.list /\ new.pads = content.pads /\ new.control = control
    BY DEF Contents
<1> DEFINE bytes == Laid(content.list, content.pads)
           b(i) == IF i < Len(bytes) THEN bytes[i + 1] ELSE 0
<1>2. Block(new) = [i \in Offsets |-> IF i = Control THEN control ELSE b(i)]
    <2> HIDE DEF new, Control, Offsets
    <2> QED
        BY <1>1, Zenon DEF Block
<1>3. Block(content) = [i \in Offsets |-> IF i = Control THEN content.control ELSE b(i)]
    BY Zenon DEF Block
<1>4. Control \in Offsets
    BY SizeAssumption DEF Offsets, Control
<1> HIDE DEF new, b, Control, Offsets
<1>5. [Block(content) EXCEPT ![Control] = control] =
          [i \in Offsets |-> IF i = Control THEN control ELSE b(i)]
    BY <1>3, <1>4
<1> QED
    BY <1>2, <1>5 DEF new

\* A block of the game's that a transfer serves is what it is to be.
LEMMA ContentServed ==
    ASSUME ListsGood, controllers \in Pads, NEW content \in Contents, content.list # NoList
    PROVE  Served(Block(content)) = Block(After(content))
<1> DEFINE list == content.list
           pads == content.pads
           control == content.control
           asked == Block(Content(list, Nobody, control))
           b == Block(content)
<1>1. /\ list \in Lists /\ pads \in Pads \cup {Nobody} /\ control \in Byte
      /\ content = Content(list, pads, control)
    BY DEF Contents, Content
<1>2. GoodList(list) /\ Len(Laid(list, Nobody)) <= Control
    BY <1>1 DEF ListsGood
<1> HIDE DEF list, pads, control, Byte, Control
<1>3. /\ b \in Blocks /\ b[Control] = control
      /\ \A i \in 0 .. Control - 1 :
             b[i] = IF i <= Start(list, Len(list)) THEN Laid(list, pads)[i + 1] ELSE 0
    <2> HIDE DEF Blocks
    <2>1. Block(Content(list, pads, control)) \in Blocks
        BY <1>1, <1>2, BlockTyped
    <2>2. /\ Block(Content(list, pads, control))[Control] = control
          /\ \A i \in 0 .. Control - 1 : Block(Content(list, pads, control))[i] =
                 IF i <= Start(list, Len(list)) THEN Laid(list, pads)[i + 1] ELSE 0
        BY <1>1, <1>2, BlockBytes
    <2> QED
        BY <1>1, <2>1, <2>2, Zenon
<1>4. CASE control % 2 = 0
    <2>1. After(content) = content
        BY <1>4, Zenon DEF After, control
    <2>2. ~Requested(b)
        BY <1>3, <1>4 DEF Requested
    <2> HIDE DEF b
    <2> QED
        BY <2>1, <2>2, Zenon DEF Served, b
<1>5. CASE control % 2 # 0
    <2>1. asked \in Blocks
        <3> HIDE DEF Blocks
        <3> QED
            BY <1>1, <1>2, BlockTyped
    <2>2. /\ LeavesRoom(asked)
          /\ \A who \in Pads : ProcessJoybus(asked, who)
                                   = Block(Content(list, who, WithoutRequest(control)))
        <3> HIDE DEF Blocks
        <3> QED
            BY <1>2, <2>1, ListServed
    <2>3. After(content) = Content(list, controllers, WithoutRequest(control))
        BY <1>5 DEF After, Content, Contents, list, control
    <2>4. Served(b) = ProcessJoybus(b, controllers)
        <3>1. control % 2 = 1
            BY <1>1, <1>5 DEF Byte
        <3> HIDE DEF b
        <3> QED
            BY <1>3, <3>1, Zenon DEF Served, Requested
    <2>5. CASE pads = Nobody
        BY <1>1, <2>2, <2>3, <2>4, <2>5, Zenon
    <2>6. CASE pads # Nobody
        <3> DEFINE before == ProcessJoybus(asked, pads)
                   z == Block(Content(list, controllers, WithoutRequest(control)))
        <3>1. pads \in Pads
            BY <1>1, <2>6
        <3> HIDE DEF b, asked, Blocks
        <3>2. /\ before \in Blocks /\ LeavesRoom(before)
              /\ ProcessJoybus(before, controllers) = z
            <4>1. before \in Blocks
                BY <2>1, <3>1, ProcessStaysInside
            <4>2. LeavesRoom(before)
                BY <2>1, <2>2, <3>1, ForgetsTheLast
            <4>3. ProcessJoybus(before, controllers) = ProcessJoybus(asked, controllers)
                BY <2>1, <2>2, <3>1, ForgetsTheLast
            <4> QED
                BY <2>2, <4>1, <4>2, <4>3
        <3>3. before = Block(Content(list, pads, WithoutRequest(control)))
            BY <2>2, <3>1, Zenon
        <3>4. \A i \in 0 .. Control - 1 : b[i] = before[i]
            <4>1. \A i \in 0 .. Control - 1 :
                      Block(Content(list, pads, WithoutRequest(control)))[i] =
                          IF i <= Start(list, Len(list)) THEN Laid(list, pads)[i + 1] ELSE 0
                BY <1>1, <1>2, BlockBytes
            <4> QED
                BY <1>3, <3>3, <4>1, Zenon
        <3> HIDE DEF before
        <3>5. AlikeBelow(before, b)
            BY <1>3, <3>2, <3>4, SameBelowControl
        <3>6. \A i \in 0 .. Control - 1 :
                  ProcessJoybus(b, controllers)[i] = ProcessJoybus(before, controllers)[i]
            BY <1>3, <3>2, <3>5, AlikeAnswered
        <3>7. ProcessJoybus(b, controllers) \in Blocks
              /\ ProcessJoybus(b, controllers)[Control] = WithoutRequest(control)
            BY <1>3, ProcessStaysInside
        <3>8. z \in Blocks /\ z[Control] = WithoutRequest(control)
            <4>1. z \in Blocks
                BY <3>2, ProcessStaysInside
            <4>2. z[Control] = WithoutRequest(control)
                BY <1>2, BlockBytes
            <4> QED
                BY <4>1, <4>2
        <3> HIDE DEF z
        <3>9. \A i \in Offsets : ProcessJoybus(b, controllers)[i] = z[i]
            <4> TAKE i \in Offsets
            <4>1. i \in 0 .. Control - 1 \/ i = Control
                BY SizeAssumption DEF Offsets, Control
            <4> QED
                BY <3>2, <3>6, <3>7, <3>8, <4>1, Zenon
        <3>10. ProcessJoybus(b, controllers) = z
            <4> HIDE DEF Offsets
            <4> QED
                BY <3>7, <3>8, <3>9 DEF Blocks
        <3> QED
            BY <2>3, <2>4, <3>10, Zenon DEF b, z
    <2> QED
        BY <2>5, <2>6
<1> QED
    BY <1>4, <1>5

AnswersInv == AnswersRight /\ CopiedSoFar

LEMMA InitAnswers == Init => AnswersInv
    BY DEF Init, AnswersInv, AnswersRight, CopiedSoFar, Unlisted

LEMMA StepAnswers == ListsGood /\ IInv /\ AnswersInv /\ [Next]_vars => AnswersInv'
<1> SUFFICES ASSUME ListsGood, IInv, AnswersInv, [Next]_vars PROVE AnswersInv'
    OBVIOUS
<1>0. /\ pif_ram \in Blocks /\ bus_pif_ram = pif_ram /\ rdram \in Blocks
      /\ controllers \in Pads /\ copied \in Offsets
      /\ queued \in Contents /\ held \in Contents
      /\ rdram[Control] = held.control /\ ~Requested(pif_ram)
    BY DEF IInv, TypeOK, MirrorsAgree, HeldControl, ControlKept
<1>a. /\ queued.list # NoList => pif_ram = Block(queued)
      /\ held.list # NoList => rdram = Block(held)
      /\ CopiedSoFar
    BY Zenon DEF AnswersInv, AnswersRight
<1>b. copied' = 0 => CopiedSoFar'
    BY DEF CopiedSoFar
<1>c. \A content \in Contents : After(content).list = content.list
    BY DEF After, Contents
<1>d. \A control : Unlisted(control).list = NoList
    BY DEF Unlisted
<1> HIDE DEF Blocks, Offsets, Control, Contents, Pads
<1>1. ASSUME NEW list \in Lists, NEW control \in Controls, Compose(list, control)
      PROVE  AnswersInv'
    <2>1. copied' = 0
        BY <1>1 DEF Compose
    <2> QED
        BY <1>1, <1>a, <1>b, <2>1, Zenon DEF Compose, AnswersInv, AnswersRight
<1>2. ASSUME NEW block \in Oddities, NEW control \in Controls, Scribble(block, control)
      PROVE  AnswersInv'
    <2>1. copied' = 0
        BY <1>2 DEF Scribble
    <2> QED
        BY <1>2, <1>a, <1>b, <1>d, <2>1, Zenon DEF Scribble, AnswersInv, AnswersRight
<1>3. CASE AskAgain
    <2>1. /\ copied' = 0 /\ pif_ram' = pif_ram /\ queued' = queued
          /\ rdram' = [rdram EXCEPT ![Control] = rdram[Control] + 1]
          /\ held' = [held EXCEPT !.control = held.control + 1]
        BY <1>3 DEF AskAgain
    <2>2. held'.list = held.list
        BY <1>0, <2>1 DEF Contents
    <2>3. held.list # NoList => rdram' = Block(held')
        <3>1. Block(held') = [Block(held) EXCEPT ![Control] = held.control + 1]
            BY <1>0, <2>1, NewControl, Zenon
        <3> QED
            BY <1>0, <1>a, <2>1, <3>1, Zenon
    <2> QED
        BY <1>a, <1>b, <2>1, <2>2, <2>3, Zenon DEF AnswersInv, AnswersRight
<1>4. CASE DmaToPif
    <2>1. /\ copied' = 0 /\ pif_ram' = Served(rdram) /\ queued' = After(held)
          /\ rdram' = rdram /\ held' = held
        BY <1>4 DEF DmaToPif
    <2>2. held.list # NoList => Served(Block(held)) = Block(After(held))
        BY <1>0, ContentServed
    <2> QED
        BY <1>0, <1>a, <1>b, <1>c, <2>1, <2>2, Zenon DEF AnswersInv, AnswersRight
<1>5. CASE DmaFromPif
    <2>1. /\ copied' = 0 /\ pif_ram' = Served(pif_ram) /\ rdram' = pif_ram'
          /\ queued' = After(queued) /\ held' = queued'
        BY <1>5 DEF DmaFromPif
    <2>2. queued.list # NoList => Served(Block(queued)) = Block(After(queued))
        BY <1>0, ContentServed
    <2> QED
        BY <1>0, <1>a, <1>b, <1>c, <2>1, <2>2, Zenon DEF AnswersInv, AnswersRight
<1>6. CASE StoreByte
    <2>1. /\ CopiedSoFar' /\ rdram' = rdram
          /\ copied = Control => pif_ram' = Served(rdram)
        BY <1>0, <1>6, <1>a, StoreServes, Zenon
    <2>2. /\ held' = held
          /\ queued' = IF copied = Control THEN After(held) ELSE Unlisted(pif_ram[Control])
        BY <1>6, Zenon DEF StoreByte
    <2>3. held.list # NoList => Served(Block(held)) = Block(After(held))
        BY <1>0, ContentServed
    <2>4. queued'.list # NoList => pif_ram' = Block(queued')
        <3>1. CASE copied = Control
            BY <1>0, <1>a, <1>c, <2>1, <2>2, <2>3, <3>1, Zenon
        <3>2. CASE copied # Control
            BY <1>d, <2>2, <3>2, Zenon
        <3> QED
            BY <3>1, <3>2
    <2> QED
        BY <1>a, <2>1, <2>2, <2>4, Zenon DEF AnswersInv, AnswersRight
<1>7. ASSUME NEW ch \in Sockets, NEW state \in PadStates \cup {Absent},
             SetController(ch, state)
      PROVE  AnswersInv'
    BY <1>7, <1>a DEF SetController, AnswersInv, AnswersRight, CopiedSoFar
<1>8. CASE Reset
    <2>1. copied' = 0 /\ queued' = Unlisted(0) /\ held' = Unlisted(0)
        BY <1>8 DEF Reset
    <2> QED
        BY <1>b, <1>d, <2>1, Zenon DEF AnswersInv, AnswersRight
<1>9. CASE UNCHANGED vars
    BY <1>9, <1>a DEF vars, AnswersInv, AnswersRight, CopiedSoFar
<1> QED
    BY <1>1, <1>2, <1>3, <1>4, <1>5, <1>6, <1>7, <1>8, <1>9 DEF Next

\* Every transfer leaves each channel's answer in that channel's packet and moves
\* nothing else, whatever a game asked, and however often it asks again with the
\* block it read back (process_joybus, the two DMA directions and the stores).
THEOREM ListsAnswered == ASSUME ListsGood PROVE Spec => []AnswersRight
<1>1. Init => AnswersInv
    BY InitAnswers
<1>2. IInv /\ AnswersInv /\ [Next]_vars => AnswersInv'
    BY StepAnswers
<1>3. AnswersInv => AnswersRight
    BY DEF AnswersInv
<1> QED
    BY <1>1, <1>2, <1>3, Invariant, PTL DEF Spec
=============================================================================
