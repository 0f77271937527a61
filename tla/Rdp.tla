-------------------------------- MODULE Rdp ---------------------------------
(* The display processor: what each command of a list does to its registers, to
   texture memory and to the picture in RDRAM.

   Memory counts in bytes.  A command is a record of the fields that the code
   takes from its 64 bits, coordinates in quarters of a pixel; a texture
   rectangle is given with its second word.  Colours are the bytes that are
   stored.  Tile sizes, palettes, clamping and shifts are stored and never read,
   and the commands that only trace themselves are "stub".  That a full sync
   raises DP is in RcpInterrupts.                                            *)
EXTENDS Integers, Sequences, SequencesExt, FiniteSetsExt

CONSTANTS
    RdramBytes,
    TmemBytes,     \* kTmemBytes
    Tiles          \* the tiles in use, of kTileCount

ASSUME RdpAssumption == {RdramBytes, TmemBytes} \subseteq Nat \ {0}

VARIABLES
    dram,          \* RDRAM: the pictures and the textures in it
    tmem,
    color,         \* color_image_
    texture,       \* texture_image_
    scissor,
    tiles,
    fill           \* fill_color_: four bytes

registers == <<color, texture, scissor, tiles, fill>>
rdpVars == <<dram, tmem, registers>>

Byte == 0 .. 255
NoImage == [address |-> 0, width |-> 0, size |-> 2, valid |-> FALSE]
NoTile == [size |-> 2, line |-> 0, tmem |-> 0, mask_s |-> 0, mask_t |-> 0, defined |-> FALSE]

\* Rdp::reset.
ResetRdp ==
    /\ tmem = [i \in 0 .. TmemBytes - 1 |-> 0]
    /\ color = NoImage /\ texture = NoImage
    /\ scissor = [xh |-> 0, yh |-> 0, xl |-> 320, yl |-> 240, set |-> FALSE]
    /\ tiles = [i \in Tiles |-> NoTile]
    /\ fill = <<0, 0, 0, 0>>

-----------------------------------------------------------------------------
(* Pixels.                                                                   *)

ClipPointFromZero(x, y) ==                       \* mutant: the scissor's left and top
    /\ scissor.set => x \in 0 .. scissor.xl - 1 /\ y \in 0 .. scissor.yl - 1
    /\ x < color.width

\* clip_point, for the coordinates a rectangle can have.
ClipPoint(x, y) ==
    /\ scissor.set => x \in scissor.xh .. scissor.xl - 1 /\ y \in scissor.yh .. scissor.yl - 1
    /\ x < color.width

\* 8 bits to a grey 5551, and 8888 to 5551.
Grey(p) == LET g == p \div 8 IN <<8 * g + (g \div 4), 64 * (g % 4) + 2 * g + 1>>
Narrow(p) ==
    <<8 * (p[1] \div 8) + (p[2] \div 32),
      64 * ((p[2] \div 8) % 4) + 2 * (p[3] \div 8) + (IF p[4] # 0 THEN 1 ELSE 0)>>

\* What write_color_pixel stores of a pixel of two or four bytes, if anything: a
\* 16-bit pixel has no 32-bit form, so it leaves zeros in a 32-bit image.
Stored(p) ==
    CASE p = <<>> -> <<>>
      [] color.size = 2 -> IF Len(p) = 2 THEN p ELSE Narrow(p)
      [] color.size = 3 -> IF Len(p) = 4 THEN p ELSE <<0, 0, 0, 0>>
      [] OTHER -> IF Len(p) = 4 THEN p ELSE <<>>

Address(x, y, bpp) == color.address + (y * color.width + x) * bpp

\* The bytes that write_color_pixel writes: out of RDRAM a pixel is skipped.
PixelBytes(x, y, p) ==
    LET n == Len(Stored(p))
        a == Address(x, y, n)
    IN IF ClipPoint(x, y) /\ a + n <= RdramBytes THEN a .. a + n - 1 ELSE {}

FillPixelByColumn(x, y) ==                       \* mutant: the half by the column
    CASE color.size = 2 -> SubSeq(fill, 1 + 2 * (x % 2), 2 + 2 * (x % 2))
      [] color.size = 3 -> fill
      [] OTHER -> <<>>

\* write_fill_pixel: a 16-bit image takes the half that its address asks for.
FillPixel(x, y) ==
    CASE color.size = 2 ->
           LET half == (Address(x, y, 2) \div 2) % 2 IN SubSeq(fill, 1 + 2 * half, 2 + 2 * half)
      [] color.size = 3 -> fill
      [] OTHER -> <<>>

\* The columns or rows of a rectangle: the lower end is rounded down and the
\* upper one up, and either may be the larger.
Span(h, l) ==
    LET low == h \div 4
        high == (l + 3) \div 4
    IN IF high < low THEN high .. low - 1 ELSE low .. high - 1

Columns(c) == Span(c.xh, c.xl)
Rows(c) == Span(c.yh, c.yl)

Places(c) == Columns(c) \X Rows(c)

\* Draws pixels, a function of places, in an order that does not matter: no two of
\* them share a byte.
Paint(pixels) ==
    /\ dram' = [i \in DOMAIN dram |->
          LET on == {at \in DOMAIN pixels : i \in PixelBytes(at[1], at[2], pixels[at])}
              at == CHOOSE place \in on : TRUE
              bytes == Stored(pixels[at])
          IN IF color.valid /\ on # {} THEN bytes[i - Address(at[1], at[2], Len(bytes)) + 1]
                                      ELSE dram[i]]
    /\ UNCHANGED <<tmem, registers>>

FillRectangle(c) == Paint([at \in Places(c) |-> FillPixel(at[1], at[2])])

-----------------------------------------------------------------------------
(* Textures.                                                                 *)

BytesPerTexel(size) == CASE size = 3 -> 4 [] size = 2 -> 2 [] OTHER -> 1

\* copy_rdram_to_tmem: both wrap; of more than TMEM holds the last remains.
Copied(memory, from, to, n) ==
    [b \in DOMAIN memory |->
       LET d == (b - to) % TmemBytes
       IN IF d < n THEN dram[(from + d + ((n - 1 - d) \div TmemBytes) * TmemBytes) % RdramBytes]
                   ELSE memory[b]]

\* How many texels lie from a to b.
Extent(a, b) == IF b >= a THEN b - a + 1 ELSE 1

LoadBlock(c) ==
    /\ LET bpp == BytesPerTexel(texture.size)
           s0 == c.sl \div 4
           n == Extent(s0, c.sh \div 4) * bpp
       IN tmem' = IF texture.valid
                  THEN Copied(tmem, texture.address + s0 * bpp, 8 * tiles[c.tile].tmem,
                              Min({n, TmemBytes}))
                  ELSE tmem
    /\ UNCHANGED <<dram, registers>>

\* Where the rows of a tile start in TMEM, when LoadTile packs them.
LineOfTile(c) ==
    IF tiles[c.tile].line # 0 THEN 8 * tiles[c.tile].line
    ELSE Extent(c.sl \div 4, c.sh \div 4) * BytesPerTexel(texture.size)

RowFromTop(c, row) ==                            \* mutant: the tile's first row
    texture.address
      + (row * texture.width + c.sl \div 4) * BytesPerTexel(texture.size)

\* Where the rows of a tile start in the image.
RowOfTile(c, row) ==
    texture.address
      + ((c.tl \div 4 + row) * texture.width + c.sl \div 4) * BytesPerTexel(texture.size)

LoadTile(c) ==
    /\ LET Row(memory, row) ==
               Copied(memory, RowOfTile(c, row), 8 * tiles[c.tile].tmem + row * LineOfTile(c),
                      Extent(c.sl \div 4, c.sh \div 4) * BytesPerTexel(texture.size))
       IN tmem' = IF texture.valid
                  THEN FoldLeft(Row, tmem, [i \in 1 .. Extent(c.tl \div 4, c.th \div 4) |-> i - 1])
                  ELSE tmem
    /\ UNCHANGED <<dram, registers>>

Masked(v, mask) == IF mask = 0 \/ mask >= 10 THEN v ELSE v % 2^mask

\* sample_tile: no pixel where the texel is not in TMEM.
Sample(i, s_given, t_given) ==
    LET tile == tiles[i]
        s == Masked(s_given, tile.mask_s)
        t == Masked(t_given, tile.mask_t)
        size == IF tile.defined THEN tile.size ELSE texture.size
        bpp == BytesPerTexel(size)
        line == IF tile.line # 0 THEN 8 * tile.line
                ELSE (IF texture.valid THEN texture.width ELSE s + 1) * bpp
        offset == 8 * tile.tmem + t * line + s * bpp
    IN CASE s < 0 \/ t < 0 \/ offset + bpp > TmemBytes -> <<>>
         [] size \in {2, 3} -> [j \in 1 .. bpp |-> tmem[offset + j - 1]]
         [] OTHER -> Grey(tmem[offset])

\* TextureRectangle and its flipped form: texel coordinates in 10.5, slopes in
\* 5.10, from the corner that is drawn first.
TextureRectangle(c, lo) ==
    LET ds == (IF c.flip THEN lo.dtdy ELSE lo.dsdx) \div 32
        dt == (IF c.flip THEN lo.dsdx ELSE lo.dtdy) \div 32
        Texel(x, y) == Sample(c.tile, (lo.s + (x - Min(Columns(c))) * ds) \div 32,
                                      (lo.t + (y - Min(Rows(c))) * dt) \div 32)
    IN Paint([at \in Places(c) |-> Texel(at[1], at[2])])

-----------------------------------------------------------------------------
(* Registers.                                                                *)

ImageOf(c) == [address |-> c.address, width |-> c.width, size |-> c.size, valid |-> TRUE]

SetColorImage(c) ==
    /\ color' = ImageOf(c)
    /\ UNCHANGED <<dram, tmem, texture, scissor, tiles, fill>>

SetTextureImage(c) ==
    /\ texture' = ImageOf(c)
    /\ UNCHANGED <<dram, tmem, color, scissor, tiles, fill>>

SetScissor(c) ==
    /\ scissor' = [xh |-> c.xh \div 4, yh |-> c.yh \div 4,
                   xl |-> c.xl \div 4, yl |-> c.yl \div 4, set |-> TRUE]
    /\ UNCHANGED <<dram, tmem, color, texture, tiles, fill>>

SetFillColor(c) ==
    /\ fill' = c.bytes
    /\ UNCHANGED <<dram, tmem, color, texture, scissor, tiles>>

SetTile(c) ==
    /\ tiles' = [tiles EXCEPT ![c.tile] =
                    [size |-> c.size, line |-> c.line, tmem |-> c.tmem,
                     mask_s |-> c.mask_s, mask_t |-> c.mask_t, defined |-> TRUE]]
    /\ UNCHANGED <<dram, tmem, color, texture, scissor, fill>>

SetTileSize(c) ==
    /\ tiles' = [tiles EXCEPT ![c.tile].defined = TRUE]
    /\ UNCHANGED <<dram, tmem, color, texture, scissor, fill>>

\* execute_command and execute_command_pair; lo is the second word of a pair.
Execute(c, lo) ==
    CASE c.op = "color_image" -> SetColorImage(c)
      [] c.op = "texture_image" -> SetTextureImage(c)
      [] c.op = "scissor" -> SetScissor(c)
      [] c.op = "fill_color" -> SetFillColor(c)
      [] c.op = "tile" -> SetTile(c)
      [] c.op = "tile_size" -> SetTileSize(c)
      [] c.op = "load_block" -> LoadBlock(c)
      [] c.op = "load_tile" -> LoadTile(c)
      [] c.op = "fill_rectangle" -> FillRectangle(c)
      [] c.op = "texture_rectangle" -> TextureRectangle(c, lo)
      [] OTHER -> UNCHANGED rdpVars
=============================================================================
