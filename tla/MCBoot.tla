------------------------------- MODULE MCBoot -------------------------------
(* A PAL and an NTSC cartridge with programs, an image that ends in its IPL3 and
   one that ends in its header; two PIF ROM files; one configuration for each
   decision of the boot.                                                     *)
EXTENDS Boot

CONSTANTS pal, ntsc, stub, scrap, chip, other_chip, rom1, rom2

MCCarts == {pal, ntsc, stub, scrap}
Looks(size, tv, cic) == [size |-> size, tv |-> tv, cic |-> cic]
MCImage ==
    [c \in MCCarts |-> IF c = pal THEN Looks("Full", "PAL", chip)
                       ELSE IF c = ntsc THEN Looks("Full", "NTSC", other_chip)
                       ELSE IF c = stub THEN Looks("Short", "MPAL", chip)
                       ELSE Looks("Tiny", "NTSC", chip)]
MCCics == {chip, other_chip}
MCPifRoms == {rom1, rom2}

Lle == [DefaultConfig EXCEPT !.mode = "LlePif"]
MCConfigs ==
    {DefaultConfig, Lle, [Lle EXCEPT !.pif_rom_path = TRUE],
     [Lle EXCEPT !.pif_rom_path = TRUE, !.ipl3_path = TRUE],
     [DefaultConfig EXCEPT !.pif_rom_path = TRUE, !.force_tv = "PAL"],
     [DefaultConfig EXCEPT !.force_cic = chip, !.ipl3_path = TRUE],
     [DefaultConfig EXCEPT !.skip_rom_copy = TRUE, !.reset_type = 1]}
=============================================================================
