--------------------------- MODULE MCGraphicsTask ---------------------------
(* Pictures of 16 and 32 bits in 32 bytes of RDRAM, 16 bytes of TMEM, two tiles.
   Painter and Texturer are CPU programs that give one list after the other; the
   others are RSP programs under a CPU that stops and starts them.

   A guest: its RSP programs, what its CPU does, its lists, and the pictures.  *)
EXTENDS GraphicsTask

Rect(op, xh, yh, xl, yl) == [op |-> op, xh |-> xh, yh |-> yh, xl |-> xl, yl |-> yl]
FillRect(xh, yh, xl, yl) == Rect("fill_rectangle", xh, yh, xl, yl)
Scissor(xh, yh, xl, yl) == Rect("scissor", xh, yh, xl, yl)
Picture(op, address, width, size) ==
    [op |-> op, address |-> address, width |-> width, size |-> size]
Fill(b) == [op |-> "fill_color", bytes |-> <<b, b + 1, b + 2, b + 3>>]
Tile(i, size, line, at, mask) ==
    [op |-> "tile", tile |-> i, size |-> size, line |-> line, tmem |-> at,
     mask_s |-> mask, mask_t |-> 0]
Load(op, i, sl, tl, sh, th) ==
    [op |-> op, tile |-> i, sl |-> sl, tl |-> tl, sh |-> sh, th |-> th]
TexRect(i, xh, yh, xl, yl, flip) ==
    [op |-> "texture_rectangle", tile |-> i, flip |-> flip,
     xh |-> xh, yh |-> yh, xl |-> xl, yl |-> yl]
Texels1(s, t, ds, dt) == [op |-> "second", s |-> s, t |-> t, dsdx |-> ds, dtdy |-> dt]
Sync == [op |-> "sync"]

\* Every byte is another.
MCPictures == [i \in 0 .. 31 |-> 7 * i]

Painter ==
    [programs |-> << <<>> >>, cpu |-> {"lists", "dp_status"}, pictures |-> MCPictures,
     lists |-> {<< <<Picture("color_image", 8, 3, 2)>>, <<Fill(240)>> >>,
                << <<Picture("color_image", 0, 4, 2)>>, <<Sync>> >>,
                << <<Picture("color_image", 0, 3, 3)>>, <<Fill(250)>> >>,
                << <<FillRect(0, 0, 16, 8)>> >>,
                << <<Scissor(4, 4, 12, 16)>>, <<FillRect(11, 1, 2, 17)>>, <<Sync>> >>,
                << <<Scissor(0, 0, 16, 4)>> >>}]

Texturer ==
    [programs |-> << <<>> >>, cpu |-> {"lists"}, pictures |-> MCPictures,
     lists |-> {<< <<Picture("color_image", 16, 4, 2)>>, <<Picture("texture_image", 0, 4, 2)>>,
                   <<Tile(0, 2, 1, 0, 0)>>, <<Tile(1, 2, 1, 1, 0)>> >>,
                << <<Load("load_tile", 0, 4, 0, 8, 4)>> >>,
                << <<Load("load_tile", 1, 0, 4, 12, 4)>> >>,
                << <<Load("load_block", 1, 0, 0, 8, 0)>>, <<Tile(0, 2, 1, 0, 1)>> >>,
                << <<TexRect(0, 0, 0, 8, 8, FALSE), Texels1(0, 0, 1024, 1024)>> >>,
                << <<TexRect(1, 4, 4, 16, 7, TRUE), Texels1(32, 0, 1024, 1024)>>, <<Sync>> >>,
                << <<Scissor(4, 0, 12, 8)>>, <<Picture("texture_image", 16, 2, 2)>> >>,
                << <<FillRect(0, 0, 8, 8)>> >>}]

\* Textures of 32 and 8 bits, tiles without a line, stretched and out of TMEM.
Deep ==
    [programs |-> << <<>> >>, cpu |-> {"lists"}, pictures |-> MCPictures,
     lists |-> {<< <<Picture("color_image", 16, 2, 3)>>, <<Picture("texture_image", 0, 2, 3)>>,
                   <<Tile(0, 3, 1, 0, 0)>> >>,
                << <<Picture("color_image", 16, 4, 2)>> >>,
                << <<Picture("texture_image", 0, 4, 1)>>, <<Tile(1, 1, 0, 1, 0)>> >>,
                << <<Load("load_tile", 0, 0, 0, 4, 4)>>, <<[op |-> "tile_size", tile |-> 1]>> >>,
                << <<Load("load_block", 1, 4, 0, 0, 0)>> >>,
                << <<TexRect(0, 0, 0, 8, 8, FALSE), Texels1(0, 0, 1024, 1024)>> >>,
                << <<TexRect(1, 0, 0, 16, 4, FALSE), Texels1(-32, 0, 512, 1024)>> >>}]

Insn(op) == [op |-> op]
To(op, to) == [op |-> op, to |-> to]
Put(cell, value) == [op |-> "store", cell |-> cell, value |-> value]
Start(at) == [op |-> "start", at |-> at]
End(at, meant) == [op |-> "end", at |-> at, list |-> meant]
DpStatus(clear, set) == [op |-> "dp_status", clear |-> clear, set |-> set]

MCRow == TexRect(0, 0, 0, 8, 4, FALSE)
MCRowTexels == Texels1(0, 0, 1024, 1024)

\* A ring of commands in DMEM, given from its start and across its end.
Ring ==
    [programs |-> << <<DpStatus({}, {"xbus"}),
                       Put(0, Picture("color_image", 16, 4, 2)), Put(1, Fill(240)),
                       Put(2, FillRect(0, 0, 8, 4)), Start(0),
                       End(3, << <<Picture("color_image", 16, 4, 2)>>, <<Fill(240)>>,
                                 <<FillRect(0, 0, 8, 4)>> >>),
                       To("conditional", 0), Put(3, MCRow), Put(0, MCRowTexels), Start(3),
                       To("jump", 13), End(5, << <<MCRow, MCRowTexels>> >>),
                       Insn("nop"), Insn("break")>>,
                     <<To("jump", 3), Insn("nop"), Insn("nop"), To("conditional", 1), Insn("halt"),
                       Insn("break")>> >>,
     cpu |-> {"halt", "resume", "pc", "load", "lists", "dp_status"}, pictures |-> MCPictures,
     lists |-> {<< <<Fill(200)>>, <<FillRect(0, 0, 4, 4)>> >>}]

MCGuests == {Painter, Texturer, Deep, Ring}
=============================================================================
