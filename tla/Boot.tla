-------------------------------- MODULE Boot --------------------------------
(* Loading, booting and resetting: what Emulator::load_rom, load_rom_bytes,
   boot and reset do to the machine and to what the emulator says of it
   (booted, header, timing), in any order, with games played in between and
   with files that cannot be read.

   The machine is a record.  Memories hold what was put there last: nothing,
   the boot's own values, or Game, whatever a game left.  A component whose
   state the boot does not set is in hw.used once a game has run and until
   its reset().  The emulator's calls come from one thread and each is one
   step.                                                                     *)
EXTENDS Naturals

CONSTANTS
    Carts,          \* cartridge images, in the byte order of normalize_cart_endian
    Image,          \* what an image's bytes say: see ImageType
    Cics, SomeCic,  \* the lockout chips; the one of an image without a header
    PifRoms,        \* the images a PIF ROM file may hold
    Configs,        \* the boot configurations callers use
    None            \* no cartridge, no PIF ROM, no file

Tvs == {"PAL", "NTSC", "MPAL"}
Detected == "Detected"                     \* not forced
Sizes == {"Tiny", "Short", "Full"}         \* below 0x40 bytes, below 0x1000, longer
ImageType == [Carts -> [size : Sizes, tv : Tvs, cic : Cics]]

BootConfig == [mode : {"Hle", "LlePif"}, skip_rom_copy : BOOLEAN,
               force_cic : Cics \cup {Detected}, force_tv : Tvs \cup {Detected},
               pif_rom_path : BOOLEAN, ipl3_path : BOOLEAN, reset_type : {0, 1}]
DefaultConfig ==
    [mode |-> "Hle", skip_rom_copy |-> FALSE, force_cic |-> Detected,
     force_tv |-> Detected, pif_rom_path |-> FALSE, ipl3_path |-> FALSE, reset_type |-> 0]

ASSUME ImageAssumption == Image \in ImageType
ASSUME ChipAssumption == SomeCic \in Cics
ASSUME ConfigsAssumption == Configs \subseteq BootConfig /\ DefaultConfig \in Configs
ASSUME NoneAssumption == None \notin Carts /\ None \notin PifRoms

VARIABLES
    cart, pif_rom,                  \* Bus: the images, which no reset takes out
    hw,                             \* everything else of the machine
    boot_cfg, rom_loaded, booted,   \* Emulator
    header, timing

bootVars == <<cart, pif_rom, hw, boot_cfg, rom_loaded, booted, header, timing>>

-----------------------------------------------------------------------------
(* Headers.  An entry point is known by the image and the chip it comes from. *)

ResetVector == <<"reset vector">>
NoEntry == <<"zero">>
Entry(c, cic) == <<"entry", c, cic>>

NoHeader == [tv |-> "NTSC", cic |-> SomeCic, entry |-> NoEntry]

ParseCartHeader(c) ==
    IF c = None \/ Image[c].size = "Tiny" THEN NoHeader
    ELSE [tv |-> Image[c].tv, cic |-> Image[c].cic, entry |-> Entry(c, Image[c].cic)]

\* What hle_boot_loaded makes of the cartridge under a configuration.
Header(c, cfg) ==
    LET parsed == ParseCartHeader(c)
        cic == IF cfg.force_cic = Detected THEN parsed.cic ELSE cfg.force_cic
    IN [tv |-> IF cfg.force_tv = Detected THEN parsed.tv ELSE cfg.force_tv,
        cic |-> cic,
        entry |-> IF cfg.mode = "LlePif" THEN ResetVector
                  ELSE IF cfg.force_cic = Detected THEN parsed.entry ELSE Entry(c, cic)]

Region(tv) == IF tv = "PAL" THEN "PAL" ELSE "NTSC"

-----------------------------------------------------------------------------
(* The machine.                                                              *)

Parts == {"sp memory", "sp registers", "mi", "pi", "si", "ri", "dp", "cpu", "vi", "ai",
          "pads", "rsp", "rdp", "scheduler", "budget", "debugger"}
CodeRegions == {"ram", "pif rom"}
Sides == {"bus", "device"}                 \* the copies of PIF RAM and of DMEM
Both(value) == [s \in Sides |-> value]

\* RDRAM and DMEM hold the things of a set, and zeros where nothing was put.
Zeros == <<"zeros">>
Game == <<"game">>
Seeds(hdr, reset_type) == <<"seeds", hdr.tv, hdr.cic, reset_type>>
PifSeeds(hdr, reset_type) == <<"pif seeds", hdr.cic, reset_type>>
Ipl3(source) == <<"ipl3", source>>

\* Every component's reset() and the counters; the debugger's is reset()'s own.
PowerOnKeepsPif(h) ==                      \* mutant: Pif::reset is forgotten
    [pc |-> ResetVector, gpr |-> Zeros, ram |-> {}, dmem |-> Both({}),
     pif_ram |-> [Both(Zeros) EXCEPT !["device"] = h.pif_ram["device"]],
     blocks |-> {}, used |-> h.used \cap {"debugger", "pads"}]

PowerOn(h) ==
    [pc |-> ResetVector, gpr |-> Zeros, ram |-> {}, dmem |-> Both({}),
     pif_ram |-> Both(Zeros), blocks |-> {}, used |-> h.used \cap {"debugger"}]

\* IPL3 comes from its file or from the image, if that is long enough.  It goes to
\* both copies of DMEM, from 0x40 on and as far as it is long, after the RSP's was
\* cleared; of Bus's the rest stays.
Ipl3Installed(h, c, cfg) ==
    LET ipl3 == IF cfg.ipl3_path THEN {Ipl3(None)}
                ELSE IF c # None /\ Image[c].size = "Full" THEN {Ipl3(c)} ELSE {}
    IN [s \in Sides |-> IF s = "bus" THEN h.dmem["bus"] \cup ipl3 ELSE ipl3]

\* The program, through a PI DMA.
Copied(c, hdr, cfg) ==
    IF cfg.skip_rom_copy \/ c = None \/ Image[c].size # "Full" THEN {}
    ELSE {<<c, hdr.entry>>}

SeededPifOnly(h, hdr, cfg) ==              \* mutant: Bus's copy is not updated
    [h.pif_ram EXCEPT !["device"] = PifSeeds(hdr, cfg.reset_type)]
SeededPif(h, hdr, cfg) == Both(PifSeeds(hdr, cfg.reset_type))

\* Both ways reset the RSP, but neither the SP registers nor what the boot does
\* not set.
Started(h, c, hdr, cfg, gpr, ram) ==
    [pc |-> hdr.entry, gpr |-> gpr, ram |-> ram,
     dmem |-> Ipl3Installed(h, c, cfg), pif_ram |-> SeededPif(h, hdr, cfg),
     blocks |-> h.blocks, used |-> h.used \ {"rsp", "budget"}]

LleBooted(h, c, hdr, cfg) == Started(h, c, hdr, cfg, Zeros, h.ram)
HleBooted(h, c, hdr, cfg) ==
    Started(h, c, hdr, cfg, Seeds(hdr, cfg.reset_type), h.ram \cup Copied(c, hdr, cfg))

-----------------------------------------------------------------------------
(* Emulator::boot, given the machine and the cartridge as its caller left them. *)

ClearedNever(h) == h                       \* mutant: the block cache is kept
Cleared(h) == [h EXCEPT !.blocks = {}]

\* What reading the PIF ROM file gives; None stands for a file that is missing,
\* empty or too large.  A file may change between two boots.
Files == {None} \cup PifRoms

\* hle_boot_loaded tests in this order: the last two come after the PIF ROM file
\* was installed.
NoProgram(c, cfg) == c = None /\ cfg.mode = "Hle"
PifRomFails(cfg, rom) == cfg.pif_rom_path /\ rom = None
Ipl3Fails(cfg, ipl3_read) == cfg.ipl3_path /\ ~ipl3_read
NoPifRom(cfg) == cfg.mode = "LlePif" /\ ~cfg.pif_rom_path

BootWith(h, c, cfg, rom, ipl3_read) ==
    LET early == NoProgram(c, cfg) \/ PifRomFails(cfg, rom)
        hdr == Header(c, cfg)
    IN /\ boot_cfg' = cfg
       /\ pif_rom' = IF cfg.pif_rom_path /\ ~early THEN rom ELSE pif_rom
       /\ booted' = ~(early \/ Ipl3Fails(cfg, ipl3_read) \/ NoPifRom(cfg))
       /\ IF ~booted'
          THEN /\ hw' = Cleared(h)
               /\ header' = NoHeader
               /\ UNCHANGED timing
          ELSE /\ hw' = IF cfg.mode = "LlePif" THEN LleBooted(Cleared(h), c, hdr, cfg)
                        ELSE HleBooted(Cleared(h), c, hdr, cfg)
               /\ header' = hdr
               /\ timing' = Region(hdr.tv)

BootFrom(h, c, cfg) ==
    \E rom \in IF cfg.pif_rom_path THEN Files ELSE {None},
       ipl3_read \in IF cfg.ipl3_path THEN BOOLEAN ELSE {FALSE} :
        BootWith(h, c, cfg, rom, ipl3_read)

-----------------------------------------------------------------------------
BootInit ==
    /\ cart = None /\ pif_rom = None
    /\ hw = [pc |-> ResetVector, gpr |-> Zeros, ram |-> {}, dmem |-> Both({}),
             pif_ram |-> Both(Zeros), blocks |-> {}, used |-> {}]
    /\ boot_cfg = DefaultConfig
    /\ rom_loaded = FALSE /\ booted = FALSE
    /\ header = NoHeader /\ timing = "NTSC"

\* A game, or whatever is in memory, runs.  It may leave anything anywhere but
\* in the images; it compiles code where there is some.  run_frame and
\* run_cycles do not ask whether the machine is booted.
Play ==
    /\ \E regions \in SUBSET CodeRegions :
         /\ "pif rom" \in regions => pif_rom # None
         /\ hw' = [pc |-> Game, gpr |-> Game, ram |-> hw.ram \cup {Game},
                   dmem |-> Both({Game}), pif_ram |-> Both(Game),
                   blocks |-> regions, used |-> Parts]
    /\ UNCHANGED <<cart, pif_rom, boot_cfg, rom_loaded, booted, header, timing>>

SetBootConfig(cfg) ==
    /\ boot_cfg' = cfg
    /\ UNCHANGED <<cart, pif_rom, hw, rom_loaded, booted, header, timing>>

\* boot(cfg) on the machine as it is; boot() passes boot_cfg.
Reboot(cfg) == BootFrom(hw, cart, cfg) /\ UNCHANGED <<cart, rom_loaded>>

\* reset(): everything, then the last configuration as a soft reset, if there is
\* something to boot; otherwise header and timing stay as they were.
CanBoot ==
    \/ cart # None
    \/ boot_cfg.mode = "LlePif" /\ (boot_cfg.pif_rom_path \/ pif_rom # None)

Reset ==
    LET h == [PowerOn(hw) EXCEPT !.used = {}]
    IN /\ IF CanBoot
          THEN BootFrom(h, cart, [boot_cfg EXCEPT !.reset_type = 1])
          ELSE /\ hw' = h /\ booted' = FALSE
               /\ UNCHANGED <<pif_rom, boot_cfg, header, timing>>
       /\ UNCHANGED <<cart, rom_loaded>>

\* load_rom and load_rom_bytes of something unreadable or empty: the machine was
\* already reset, and the cartridge that was in it stays there.
LoadFails ==
    /\ hw' = PowerOn(hw)
    /\ booted' = FALSE /\ rom_loaded' = FALSE /\ header' = NoHeader
    /\ UNCHANGED <<cart, pif_rom, boot_cfg, timing>>

Load(c, cfg) ==
    /\ cart' = c /\ rom_loaded' = TRUE
    /\ BootFrom(PowerOn(hw), c, cfg)

LoadRom(c) == Load(c, [boot_cfg EXCEPT !.reset_type = 0])

\* An argument that differs from the default replaces the stored configuration.
LoadRomBytes(c, arg) == Load(c, IF arg = DefaultConfig THEN boot_cfg ELSE arg)

Restart ==
    \/ Reset
    \/ LoadFails
    \/ \E c \in Carts : LoadRom(c) \/ \E arg \in Configs : LoadRomBytes(c, arg)

BootNext ==
    \/ Play
    \/ \E cfg \in Configs : SetBootConfig(cfg) \/ Reboot(cfg)
    \/ Restart

BootSpec == BootInit /\ [][BootNext]_bootVars

-----------------------------------------------------------------------------
(* Properties.                                                               *)

\* Every variable has its type.
TypeOK ==
    /\ cart \in Carts \cup {None} /\ pif_rom \in Files
    /\ boot_cfg \in BootConfig
    /\ rom_loaded \in BOOLEAN /\ booted \in BOOLEAN
    /\ header.tv \in Tvs /\ header.cic \in Cics /\ timing \in {"PAL", "NTSC"}
    /\ hw.used \subseteq Parts /\ hw.blocks \subseteq CodeRegions

\* What the emulator says of a booted machine is so, whatever loads, boots and
\* resets failed before: the frame budget is that of the header's region, a
\* machine that has not run yet stands at the header's entry point with the
\* header's seeds in its registers and in both copies of PIF RAM, a machine
\* started in the PIF ROM has one, and any other has a cartridge.
AtItsStart ==
    /\ hw.pc = header.entry
    /\ \E reset_type \in {0, 1} :
         /\ hw.pif_ram = Both(PifSeeds(header, reset_type))
         /\ hw.gpr = IF header.entry = ResetVector THEN Zeros
                     ELSE Seeds(header, reset_type)
AsDescribed ==
    /\ booted => /\ timing = Region(header.tv)
                 /\ hw.pc # Game => AtItsStart
                 /\ IF header.entry = ResetVector THEN pif_rom # None ELSE cart # None
    /\ rom_loaded => cart # None

\* After a load or a reset, successful or not, nothing of an earlier game is
\* left but the images and, after a load, the debugger's state: RDRAM holds at
\* most the program of the cartridge that is in, where the CPU will start, the
\* copies of DMEM and of PIF RAM are one, and no block is compiled.
Unplayed(h, c) ==
    /\ h.used \subseteq {"debugger"} /\ h.blocks = {}
    /\ h.ram \subseteq {<<c, h.pc>>}
    /\ h.dmem["bus"] = h.dmem["device"] /\ h.pif_ram["bus"] = h.pif_ram["device"]
    /\ Game \notin {h.pc, h.gpr, h.pif_ram["bus"]} \cup h.dmem["bus"]
NothingSurvives == [][Restart => Unplayed(hw', cart')]_bootVars

\* The boot writes the PIF ROM, and resets write RDRAM, without the notification
\* that stores make: no compiled code may outlive that, even when the boot then
\* fails.
CodeCurrent ==
    [][/\ pif_rom' # pif_rom => "pif rom" \notin hw'.blocks
       /\ hw'.ram # hw.ram /\ hw'.pc # Game => "ram" \notin hw'.blocks]_bootVars

=============================================================================
