------------------------------- MODULE Joybus -------------------------------
(* The controllers as a game sees them: it puts a block of commands, one packet
   per channel, into the PIF's RAM, by DMA or byte by byte, and reads the answers
   that process_joybus wrote into it.  A block is a function from offsets to
   bytes; its last byte holds the request.

     2 1 ..   a packet: bytes to send, bytes to receive, what is sent, the answer
     00 00    skips a channel, and so does a lone 00
     FD       resets one
     FE       ends the list
     FF       padding                                                        *)
EXTENDS Integers, Sequences

CONSTANTS
    RamSize,       \* kPifRamSize
    Sockets,       \* the channels whose controllers come and go
    PadStates,     \* what a controller may answer, four bytes each
    Lists,         \* what games ask for: a sequence of items, one per channel
    Oddities,      \* other contents that a block may have
    Controls,      \* what games write in the last byte
    SeedOffsets,   \* where the boot leaves its seeds
    Absent,
    Nobody,
    NoList

VARIABLES
    pif_ram,       \* Pif::pif_ram_
    bus_pif_ram,   \* Bus::pif_ram_
    rdram,         \* the block at SI_DRAM_ADDR
    controllers,   \* what is in each channel
    copied,        \* how much the program has copied with stores, 0 if it is not
    queued, held,  \* what is in pif_ram and in rdram, in the game's terms
    recent         \* what the sockets held since the last transfer

vars == <<pif_ram, bus_pif_ram, rdram, controllers, copied, queued, held, recent>>
history == <<queued, held, recent>>

Channels == 0 .. 3
Byte == 0 .. 255
Control == RamSize - 1
Offsets == 0 .. Control
Blocks == [Offsets -> Byte]
Idle == <<0, 0, 0, 0>>               \* no button pressed, the stick at rest

ASSUME SizeAssumption == RamSize \in Nat /\ RamSize >= 2
ASSUME PadsAssumption ==
    /\ Sockets \subseteq Channels
    /\ PadStates \subseteq [1 .. 4 -> Byte] /\ Idle \in PadStates
    /\ Absent \notin PadStates
    /\ Nobody \notin PadStates \cup {Absent} \cup [Channels -> PadStates \cup {Absent}]
ASSUME BlocksAssumption ==
    /\ Oddities \subseteq Blocks /\ Controls \subseteq Byte
    /\ SeedOffsets \subseteq Offsets \ {Control}
    /\ NoList \notin Lists

Pads == [Channels -> PadStates \cup {Absent}]

-----------------------------------------------------------------------------
(* process_joybus.                                                           *)

Requested(ram) == ram[Control] % 2 = 1
WithoutRequest(control) == control - (control % 2)

\* The cursor after the padding before a channel.
AfterPadding(ram, cursor) ==
    CHOOSE c \in cursor .. Control :
        /\ c = Control \/ ram[c] # 255
        /\ \A i \in cursor .. c - 1 : i < Control /\ ram[i] = 255

SkipByte(ram, c) == c + 1                                            \* mutant

\* The cursor after a channel that is skipped.
Skip(ram, c) == IF c + 1 < Control /\ ram[c + 1] = 0 THEN c + 2 ELSE c + 1

RawLength(byte) == byte                                              \* mutant
Length(byte) == byte % 64

Marked(byte) == (byte % 64) + 128

Type == <<0, 5, 0>>                  \* kControllerType, kControllerStatus

\* The answer to a command, n bytes long; what was there if the game left no
\* room for the command's own.
Answer(cmd, pad, n, before) ==
    LET padded(s) == IF Len(s) > n THEN before
                     ELSE [i \in 1 .. n |-> IF i <= Len(s) THEN s[i] ELSE 0]
    IN CASE pad = Absent -> padded(<< >>)
         [] pad # Absent /\ cmd \in {0, 255} -> padded(Type)
         [] pad # Absent /\ cmd = 1 -> padded(pad)
         [] OTHER -> padded(<< >>)

\* The block with the packet at c answered.
Answered(ram, c, pad) ==
    LET rlen == Length(ram[c + 1])
        rx == c + 2 + Length(ram[c])
        cmd == IF Length(ram[c]) > 0 THEN ram[c + 2] ELSE 0
        answer == Answer(cmd, pad, rlen, [i \in 1 .. rlen |-> ram[rx + i - 1]])
    IN [i \in Offsets |->
           IF i = c + 1 THEN IF pad = Absent THEN Marked(ram[i]) ELSE Length(ram[i])
           ELSE IF i \in rx .. rx + rlen - 1 THEN answer[i - rx + 1]
           ELSE ram[i]]

PacketEnd(ram, c) == c + 2 + Length(ram[c]) + Length(ram[c + 1])

OverrunsLate(ram, c) == c + 1 >= Control \/ PacketEnd(ram, c) > RamSize   \* mutant
Overruns(ram, c) == c + 1 >= Control \/ PacketEnd(ram, c) > Control

\* process_channel: `go' tells whether there is a next one.
ProcessChannel(at, pad) ==
    LET c == AfterPadding(at.ram, at.cursor)
        tlen == at.ram[c]
        moveTo(ram, cursor) == [ram |-> ram, cursor |-> cursor, go |-> cursor < Control]
    IN CASE c = Control -> [at EXCEPT !.go = FALSE]
         [] c < Control /\ tlen = 254 -> [at EXCEPT !.go = FALSE]
         [] c < Control /\ tlen = 0 -> moveTo(at.ram, Skip(at.ram, c))
         [] c < Control /\ tlen = 253 -> moveTo(at.ram, c + 1)
         [] OTHER -> IF Overruns(at.ram, c) THEN [at EXCEPT !.go = FALSE]
                     ELSE moveTo(Answered(at.ram, c, pad), PacketEnd(at.ram, c))

NextChannel(at, pad) == IF at.go THEN ProcessChannel(at, pad) ELSE at

ProcessJoybus(ram, pads) ==
    LET ch0 == NextChannel([ram |-> ram, cursor |-> 0, go |-> TRUE], pads[0])
        ch1 == NextChannel(ch0, pads[1])
        ch2 == NextChannel(ch1, pads[2])
        ch3 == NextChannel(ch2, pads[3])
    IN [ch3.ram EXCEPT ![Control] = WithoutRequest(@)]

Served(ram) == IF Requested(ram) THEN ProcessJoybus(ram, controllers) ELSE ram

-----------------------------------------------------------------------------
(* What a game means by a block: a list of items, to which the controllers that
   `pads' names have answered, and a last byte.                              *)

Bytes(item, pad) ==
    LET fresh == [i \in 1 .. item.rlen |-> 255]
        rlen == IF pad = Absent THEN item.rlen + 128 ELSE item.rlen
        reply == IF pad = Nobody THEN fresh
                 ELSE Answer(item.cmd, pad, item.rlen, fresh)
    IN CASE item.kind = "skip" -> <<0, 0>>
         [] item.kind = "reset" -> <<253>>
         [] item.kind = "packet" ->
                item.padding \o <<1, rlen, item.cmd>> \o reply

\* The bytes of the items up to the n-th, and then the end of the list.
Laid(list, pads) ==
    LET upTo[n \in 0 .. 4] ==
            IF n = 0 \/ n > Len(list) THEN << >>
            ELSE upTo[n - 1] \o Bytes(list[n], IF pads = Nobody THEN Nobody ELSE pads[n - 1])
    IN upTo[Len(list)] \o <<254>>

Block(content) ==
    LET bytes == Laid(content.list, content.pads)
    IN [i \in Offsets |-> IF i = Control THEN content.control
                          ELSE IF i < Len(bytes) THEN bytes[i + 1] ELSE 0]

\* What processing a block is to do.
After(content) ==
    IF content.control % 2 = 0 THEN content
    ELSE [content EXCEPT !.control = WithoutRequest(@), !.pads = controllers]

ASSUME ListsAssumption ==
    \A list \in Lists, control \in Controls :
        Block([list |-> list, pads |-> Nobody, control |-> control]) \in Blocks

Contents == [list : Lists \cup {NoList}, pads : Pads \cup {Nobody}, control : Byte]

Unlisted(control) == [list |-> NoList, pads |-> Nobody, control |-> control]

-----------------------------------------------------------------------------
(* Boot and reset.                                                           *)

Zeros == [i \in Offsets |-> 0]
Seeded == [i \in Offsets |-> IF i \in SeedOffsets THEN 63 ELSE 0]
OnePad == [ch \in Channels |-> IF ch = 0 THEN Idle ELSE Absent]

Init ==
    /\ pif_ram = Seeded /\ bus_pif_ram = Seeded /\ rdram = Zeros
    /\ controllers = OnePad
    /\ copied = 0
    /\ queued = Unlisted(0) /\ held = Unlisted(0)
    /\ recent = {controllers}

Reset ==
    /\ pif_ram' = Seeded /\ bus_pif_ram' = Seeded /\ rdram' = Zeros
    /\ controllers' = OnePad
    /\ copied' = 0
    /\ queued' = Unlisted(0) /\ held' = Unlisted(0)
    /\ recent' = {controllers'}

-----------------------------------------------------------------------------
(* The frontend.                                                             *)

SetController(ch, state) ==
    /\ controllers' = [controllers EXCEPT ![ch] = state]
    /\ recent' = recent \cup {controllers'}
    /\ UNCHANGED <<pif_ram, bus_pif_ram, rdram, copied, queued, held>>

-----------------------------------------------------------------------------
(* The game.                                                                 *)

\* It composes a list, asking for answers or not.
Compose(list, control) ==
    /\ copied = 0
    /\ held' = [list |-> list, pads |-> Nobody, control |-> control]
    /\ rdram' = Block(held')
    /\ UNCHANGED <<pif_ram, bus_pif_ram, controllers, copied, queued, recent>>

\* It leaves something else there.
Scribble(block, control) ==
    /\ copied = 0
    /\ rdram' = [block EXCEPT ![Control] = control]
    /\ held' = Unlisted(control)
    /\ UNCHANGED <<pif_ram, bus_pif_ram, controllers, copied, queued, recent>>

\* It uses the block that it read back, with the answers in it, again.
AskAgain ==
    /\ copied = 0 /\ ~Requested(rdram)
    /\ rdram' = [rdram EXCEPT ![Control] = @ + 1]
    /\ held' = [held EXCEPT !.control = @ + 1]
    /\ UNCHANGED <<pif_ram, bus_pif_ram, controllers, copied, queued, recent>>

DmaToPif ==
    /\ copied = 0
    /\ pif_ram' = Served(rdram)
    /\ bus_pif_ram' = pif_ram'
    /\ queued' = After(held)
    /\ recent' = {controllers}
    /\ UNCHANGED <<rdram, controllers, copied, held>>

DmaFromPif ==
    /\ copied = 0
    /\ pif_ram' = Served(pif_ram)
    /\ rdram' = pif_ram'
    /\ bus_pif_ram' = pif_ram'
    /\ queued' = After(queued)
    /\ held' = queued'
    /\ recent' = {controllers}
    /\ UNCHANGED <<controllers, copied>>

WriteNotMirrored(off, value, rams) ==                                \* mutant
    LET written == [rams.pif EXCEPT ![off] = value]
    IN [pif |-> IF off = Control THEN Served(written) ELSE written,
        bus |-> [rams.bus EXCEPT ![off] = value]]

\* Bus::write8, on both copies.
Write8(off, value, rams) ==
    LET written == [rams.pif EXCEPT ![off] = value]
    IN IF off = Control /\ value % 2 = 1
       THEN [pif |-> Served(written), bus |-> Served(written)]
       ELSE [pif |-> written, bus |-> [rams.bus EXCEPT ![off] = value]]

\* A store copies the next byte of the block; a word is written as four.
StoreByte ==
    LET rams == Write8(copied, rdram[copied], [pif |-> pif_ram, bus |-> bus_pif_ram])
        last == copied = Control
    IN /\ pif_ram' = rams.pif /\ bus_pif_ram' = rams.bus
       /\ copied' = IF last THEN 0 ELSE copied + 1
       /\ queued' = IF last THEN After(held) ELSE Unlisted(pif_ram[Control])
       /\ recent' = IF last THEN {controllers} ELSE recent
       /\ UNCHANGED <<rdram, controllers, held>>

Next ==
    \/ \E list \in Lists, control \in Controls : Compose(list, control)
    \/ \E block \in Oddities, control \in Controls : Scribble(block, control)
    \/ AskAgain
    \/ DmaToPif \/ DmaFromPif \/ StoreByte
    \/ \E ch \in Sockets, state \in PadStates \cup {Absent} : SetController(ch, state)
    \/ Reset

Spec == Init /\ [][Next]_vars

-----------------------------------------------------------------------------
(* Properties.                                                               *)

TypeOK ==
    /\ {pif_ram, bus_pif_ram, rdram} \subseteq Blocks
    /\ controllers \in Pads
    /\ copied \in Offsets
    /\ {queued, held} \subseteq Contents
    /\ recent \subseteq Pads

\* Each channel's packet holds the answer of the controller in that channel when
\* the request was served, marked if there is none, and nothing else in the block
\* moved, however often the game reuses it (process_joybus, the two DMA
\* directions and the stores against the list of packets).
AnswersRight ==
    /\ queued.list # NoList => pif_ram = Block(queued)
    /\ held.list # NoList => rdram = Block(held)

\* The last byte is what the game wrote, without the request: no answer reaches
\* it, and no request is left for the next transfer to serve again.
ControlKept ==
    /\ pif_ram[Control] = queued.control
    /\ ~Requested(pif_ram)

\* What is answered does not depend on what was answered before, for any block
\* that leaves room for its answers (the error bits of process_channel).
AnswersForgetTheLast ==
    copied = 0 => \A pads \in recent :
        ProcessJoybus(ProcessJoybus(pif_ram, controllers), pads)
            = ProcessJoybus(pif_ram, pads)

\* Bus's copy is the PIF's.
MirrorsAgree == bus_pif_ram = pif_ram
=============================================================================
