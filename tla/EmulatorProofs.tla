--------------------------- MODULE EmulatorProofs ---------------------------
(* What the emulator object promises.  Of its boots and resets (Boot): types, that
   what it says of a booted machine is so, that nothing survives a load or a reset,
   and that no compiled code outlives what it was compiled from, for every set of
   images and configurations.  The inductive invariant adds to AsDescribed that the
   stored configuration is one, which reset and load_rom change a field of, and
   that the machine is a record of its fields.

   Of its loops (EmulatorLoop): the debugger's promises for any program, any timing
   and any set of breakpoints.  The loops around it do not matter but for what a
   step of theirs does to the debugger, which StepKinds sorts out once.  Then the
   clocks and the frames, for any batch, line, budget and range.             *)
EXTENDS Boot, EmulatorLoop, TLAPS

-----------------------------------------------------------------------------
(* Boots and resets.                                                         *)

Shaped(h) ==
    h = [pc |-> h.pc, gpr |-> h.gpr, ram |-> h.ram, dmem |-> h.dmem,
         pif_ram |-> h.pif_ram, blocks |-> h.blocks, used |-> h.used]

BootInv == /\ cart \in Carts \cup {None} /\ boot_cfg \in BootConfig
           /\ Shaped(hw) /\ AsDescribed

-----------------------------------------------------------------------------
\* The marks of a game, of a reset and of the boot are never taken for each other.
LEMMA Marks ==
    ASSUME NEW x, NEW y, NEW z
    PROVE  /\ Entry(x, y) # ResetVector /\ NoEntry # ResetVector
           /\ Game # ResetVector /\ Game # NoEntry /\ Game # Entry(x, y)
           /\ Game # Zeros /\ Game # <<"seeds", x, y, z>>
           /\ Game # <<"pif seeds", x, y>> /\ Game # Ipl3(x)
  BY DEF Entry, ResetVector, NoEntry, Game, Zeros, Ipl3

\* Both puts the value on both sides.
LEMMA BothSides == ASSUME NEW x PROVE Both(x)["bus"] = x /\ Both(x)["device"] = x
  BY DEF Both, Sides

\* A machine stands at the reset vector exactly when the boot is of the PIF ROM.
LEMMA Entries ==
    ASSUME NEW c, NEW cfg \in BootConfig
    PROVE  /\ Header(c, cfg).entry = ResetVector <=> cfg.mode = "LlePif"
           /\ Header(c, cfg).entry # Game
  BY Marks DEF Header, ParseCartHeader, NoHeader, BootConfig

\* Every machine the operations make is a record of the same fields.
LEMMA Shapes ==
    ASSUME NEW h, Shaped(h), NEW c, NEW hdr, NEW cfg
    PROVE  /\ Shaped(PowerOn(h)) /\ Shaped(Cleared(h))
           /\ Shaped([PowerOn(h) EXCEPT !.used = {}])
           /\ Shaped(LleBooted(h, c, hdr, cfg)) /\ Shaped(HleBooted(h, c, hdr, cfg))
<1>1. Shaped(PowerOn(h)) /\ Shaped([PowerOn(h) EXCEPT !.used = {}])
  BY DEF Shaped, PowerOn
<1>2. Shaped(Cleared(h))
  BY DEF Shaped, Cleared
<1>3. Shaped(LleBooted(h, c, hdr, cfg))
  BY DEF Shaped, LleBooted, Started
<1>4. Shaped(HleBooted(h, c, hdr, cfg))
  BY DEF Shaped, HleBooted, Started
<1> QED
  BY <1>1, <1>2, <1>3, <1>4

-----------------------------------------------------------------------------
\* What a boot leaves, from any machine and cartridge.
LEMMA BootKeepsInvariant ==
    ASSUME NEW h, Shaped(h), NEW c \in Carts \cup {None}, NEW cfg \in BootConfig,
           BootFrom(h, c, cfg), cart' = c, rom_loaded' => c # None
    PROVE  BootInv'
<1>1. PICK rom \in (IF cfg.pif_rom_path THEN Files ELSE {None}), ipl3_read \in BOOLEAN :
        BootWith(h, c, cfg, rom, ipl3_read)
  BY DEF BootFrom
<1> DEFINE hdr == Header(c, cfg)
<1>2. boot_cfg' \in BootConfig
  BY <1>1 DEF BootWith
<1>3. CASE ~booted'
  BY <1>1, <1>2, <1>3, Shapes DEF BootWith, BootInv, AsDescribed
<1>4. CASE booted'
  <2>1. /\ ~NoProgram(c, cfg) /\ ~PifRomFails(cfg, rom) /\ ~NoPifRom(cfg)
        /\ header' = hdr /\ timing' = Region(hdr.tv)
        /\ pif_rom' = IF cfg.pif_rom_path THEN rom ELSE pif_rom
    BY <1>1, <1>4 DEF BootWith
  <2>2. hw' = IF cfg.mode = "LlePif" THEN LleBooted(Cleared(h), c, hdr, cfg)
              ELSE HleBooted(Cleared(h), c, hdr, cfg)
    BY <1>1, <1>4 DEF BootWith
  <2>3. Shaped(hw')
    BY <2>2, Shapes
  <2>4. cfg.reset_type \in {0, 1}
    BY DEF BootConfig
  <2>5. /\ hw'.pc = hdr.entry
        /\ hw'.pif_ram = Both(PifSeeds(hdr, cfg.reset_type))
        /\ hw'.gpr = IF cfg.mode = "LlePif" THEN Zeros ELSE Seeds(hdr, cfg.reset_type)
    BY <2>2 DEF LleBooted, HleBooted, Started, SeededPif
  <2>6. AtItsStart'
    BY <2>1, <2>4, <2>5, Entries DEF AtItsStart
  <2>7. IF hdr.entry = ResetVector THEN pif_rom' # None ELSE c # None
    BY <2>1, Entries DEF NoProgram, PifRomFails, NoPifRom, BootConfig
  <2> QED
    BY <1>2, <2>1, <2>3, <2>6, <2>7 DEF BootInv, AsDescribed
<1> QED
  BY <1>3, <1>4, <1>1 DEF BootWith

LEMMA LoadKeepsInvariant ==
    ASSUME Shaped(hw), NEW c \in Carts, NEW cfg \in BootConfig, Load(c, cfg)
    PROVE  BootInv'
  BY Shapes, NoneAssumption, BootKeepsInvariant DEF Load

LEMMA BootStepKeeps == BootInv /\ [BootNext]_bootVars => BootInv'
<1> SUFFICES ASSUME BootInv, [BootNext]_bootVars PROVE BootInv'
  OBVIOUS
<1> USE DEF BootInv
<1>1. CASE Play
  <2>1. Shaped(hw') /\ hw'.pc = Game
    <3>1. PICK regions :
            hw' = [pc |-> Game, gpr |-> Game, ram |-> hw.ram \cup {Game},
                   dmem |-> Both({Game}), pif_ram |-> Both(Game),
                   blocks |-> regions, used |-> Parts]
      BY <1>1 DEF Play
    <3> QED
      BY <3>1 DEF Shaped
  <2>2. UNCHANGED <<cart, pif_rom, boot_cfg, rom_loaded, booted, header, timing>>
    BY <1>1 DEF Play
  <2>3. AsDescribed'
    BY <2>1, <2>2 DEF AsDescribed
  <2> QED
    BY <2>1, <2>2, <2>3
<1>2. ASSUME NEW cfg \in Configs, SetBootConfig(cfg) PROVE BootInv'
  BY <1>2, ConfigsAssumption DEF SetBootConfig, AsDescribed, AtItsStart, Shaped
<1>3. ASSUME NEW cfg \in Configs, Reboot(cfg) PROVE BootInv'
  BY <1>3, ConfigsAssumption, BootKeepsInvariant DEF Reboot, AsDescribed
<1>4. CASE Reset
  <2> DEFINE h == [PowerOn(hw) EXCEPT !.used = {}]
  <2>1. Shaped(h)
    BY Shapes
  <2>2. [boot_cfg EXCEPT !.reset_type = 1] \in BootConfig
    BY DEF BootConfig
  <2>3. CASE CanBoot
    BY <1>4, <2>1, <2>2, <2>3, BootKeepsInvariant DEF Reset, AsDescribed
  <2>4. CASE ~CanBoot
    BY <1>4, <2>1, <2>4 DEF Reset, AsDescribed
  <2> QED
    BY <2>3, <2>4
<1>5. CASE LoadFails
  BY <1>5, Shapes DEF LoadFails, AsDescribed
<1>6. ASSUME NEW c \in Carts, LoadRom(c) PROVE BootInv'
  <2>1. [boot_cfg EXCEPT !.reset_type = 0] \in BootConfig
    BY DEF BootConfig
  <2> QED
    BY <1>6, <2>1, LoadKeepsInvariant DEF LoadRom
<1>7. ASSUME NEW c \in Carts, NEW arg \in Configs, LoadRomBytes(c, arg) PROVE BootInv'
  BY <1>7, ConfigsAssumption, LoadKeepsInvariant DEF LoadRomBytes
<1>8. CASE UNCHANGED bootVars
  BY <1>8 DEF bootVars, AsDescribed, AtItsStart, Shaped
<1> QED
  BY <1>1, <1>2, <1>3, <1>4, <1>5, <1>6, <1>7, <1>8 DEF BootNext, Restart

LEMMA BootInvariant == BootSpec => []BootInv
<1>1. BootInit => BootInv
  BY ConfigsAssumption DEF BootInit, BootInv, Shaped, AsDescribed
<1> QED
  BY <1>1, BootStepKeeps, PTL DEF BootSpec

\* What the emulator says of a booted machine is so, after any calls and failures.
THEOREM DescribesTheMachine == BootSpec => []AsDescribed
<1>1. BootInv => AsDescribed
  BY DEF BootInv
<1> QED
  BY <1>1, BootInvariant, PTL

-----------------------------------------------------------------------------
\* A header has a region and a chip, forced or not.
LEMMA HeaderTyped ==
    ASSUME NEW c \in Carts \cup {None}, NEW cfg \in BootConfig
    PROVE  /\ Header(c, cfg).tv \in Tvs /\ Header(c, cfg).cic \in Cics
           /\ Region(Header(c, cfg).tv) \in {"PAL", "NTSC"}
<1> DEFINE parsed == ParseCartHeader(c)
<1>1. parsed.tv \in Tvs /\ parsed.cic \in Cics
  <2>1. CASE c = None \/ Image[c].size = "Tiny"
    BY <2>1, ChipAssumption DEF ParseCartHeader, NoHeader, Tvs
  <2>2. CASE ~(c = None \/ Image[c].size = "Tiny")
    <3>1. Image[c].tv \in Tvs /\ Image[c].cic \in Cics
      BY <2>2, ImageAssumption DEF ImageType
    <3> QED
      BY <2>2, <3>1 DEF ParseCartHeader
  <2> QED
    BY <2>1, <2>2
<1>2. cfg.force_cic \in Cics \cup {Detected}
  BY DEF BootConfig
<1>3. cfg.force_tv \in Tvs \cup {Detected}
  BY DEF BootConfig
<1>4. Header(c, cfg).tv = IF cfg.force_tv = Detected THEN parsed.tv ELSE cfg.force_tv
  BY DEF Header
<1>5. Header(c, cfg).cic = IF cfg.force_cic = Detected THEN parsed.cic ELSE cfg.force_cic
  BY DEF Header
<1>6. \A tv : Region(tv) \in {"PAL", "NTSC"}
  BY DEF Region
<1> QED
  <2> HIDE DEF parsed
  <2> QED
    BY <1>1, <1>2, <1>3, <1>4, <1>5, <1>6

\* What a boot does to the types.
LEMMA BootTyped ==
    ASSUME TypeOK, NEW h, Shaped(h), h.used \subseteq Parts,
           NEW c \in Carts \cup {None}, NEW cfg \in BootConfig,
           BootFrom(h, c, cfg), cart' = c, rom_loaded' \in BOOLEAN
    PROVE  TypeOK'
<1>1. PICK rom \in (IF cfg.pif_rom_path THEN Files ELSE {None}), ipl3_read \in BOOLEAN :
        BootWith(h, c, cfg, rom, ipl3_read)
  BY DEF BootFrom
<1>2. Shaped(Cleared(h)) /\ Cleared(h).blocks = {} /\ Cleared(h).used \subseteq Parts
  BY Shapes DEF Cleared, Shaped
<1>3. hw'.blocks = {} /\ hw'.used \subseteq Parts
  BY <1>1, <1>2 DEF BootWith, LleBooted, HleBooted, Started
<1>4. boot_cfg' \in BootConfig /\ pif_rom' \in Files /\ booted' \in BOOLEAN
  BY <1>1 DEF BootWith, TypeOK, Files
<1>5. header'.tv \in Tvs /\ header'.cic \in Cics /\ timing' \in {"PAL", "NTSC"}
  <2>1. CASE booted'
    BY <1>1, <2>1, HeaderTyped DEF BootWith
  <2>2. CASE ~booted'
    BY <1>1, <2>2, ChipAssumption DEF BootWith, TypeOK, NoHeader, Tvs
  <2> QED
    BY <2>1, <2>2
<1> QED
  BY <1>3, <1>4, <1>5 DEF TypeOK

LEMMA StepTyped == TypeOK /\ BootInv /\ [BootNext]_bootVars => TypeOK'
<1> SUFFICES ASSUME TypeOK, BootInv, [BootNext]_bootVars PROVE TypeOK'
  OBVIOUS
<1> DEFINE p == PowerOn(hw)
           h == [p EXCEPT !.used = {}]
<1>1. Shaped(hw) /\ Shaped(p) /\ Shaped(h)
  BY Shapes DEF BootInv
<1>2. /\ p.used \subseteq Parts /\ h.used \subseteq Parts
      /\ p.blocks = {} /\ h.blocks = {}
  BY DEF PowerOn, Parts
<1>3. CASE Play
  <2>1. PICK regions \in SUBSET CodeRegions :
          hw' = [pc |-> Game, gpr |-> Game, ram |-> hw.ram \cup {Game},
                 dmem |-> Both({Game}), pif_ram |-> Both(Game),
                 blocks |-> regions, used |-> Parts]
    BY <1>3 DEF Play
  <2>2. hw'.blocks \subseteq CodeRegions /\ hw'.used \subseteq Parts
    BY <2>1
  <2>3. UNCHANGED <<cart, pif_rom, boot_cfg, rom_loaded, booted, header, timing>>
    BY <1>3 DEF Play
  <2> QED
    BY <2>2, <2>3 DEF TypeOK
<1>4. ASSUME NEW cfg \in Configs, SetBootConfig(cfg) PROVE TypeOK'
  BY <1>4, ConfigsAssumption DEF SetBootConfig, TypeOK
<1>5. ASSUME NEW cfg \in Configs, Reboot(cfg) PROVE TypeOK'
  <2>1. hw.used \subseteq Parts /\ rom_loaded' \in BOOLEAN /\ cart \in Carts \cup {None}
        /\ cart' = cart /\ BootFrom(hw, cart, cfg) /\ cfg \in BootConfig
    BY <1>5, ConfigsAssumption DEF TypeOK, Reboot
  <2> QED
    BY <1>1, <2>1, BootTyped
<1>6. CASE Reset
  <2>1. [boot_cfg EXCEPT !.reset_type = 1] \in BootConfig
    BY DEF BootInv, BootConfig
  <2>2. rom_loaded' \in BOOLEAN /\ cart \in Carts \cup {None} /\ cart' = cart
    BY <1>6 DEF TypeOK, Reset
  <2>3. CASE CanBoot
    BY <1>1, <1>2, <1>6, <2>1, <2>2, <2>3, BootTyped DEF Reset
  <2>4. CASE ~CanBoot
    BY <1>2, <1>6, <2>4 DEF Reset, TypeOK
  <2> QED
    BY <2>3, <2>4
<1>7. CASE LoadFails
  BY <1>2, <1>7, ChipAssumption DEF LoadFails, TypeOK, NoHeader, Tvs
<1>8. ASSUME NEW c \in Carts, NEW cfg \in BootConfig, Load(c, cfg) PROVE TypeOK'
  BY <1>1, <1>2, <1>8, BootTyped DEF Load
<1>9. ASSUME NEW c \in Carts, LoadRom(c) PROVE TypeOK'
  <2>1. [boot_cfg EXCEPT !.reset_type = 0] \in BootConfig
    BY DEF BootInv, BootConfig
  <2> QED
    BY <1>8, <1>9, <2>1 DEF LoadRom
<1>10. ASSUME NEW c \in Carts, NEW arg \in Configs, LoadRomBytes(c, arg) PROVE TypeOK'
  BY <1>8, <1>10, ConfigsAssumption DEF LoadRomBytes, BootInv
<1>11. CASE UNCHANGED bootVars
  BY <1>11 DEF bootVars, TypeOK
<1> QED
  BY <1>3, <1>4, <1>5, <1>6, <1>7, <1>9, <1>10, <1>11 DEF BootNext, Restart

\* Every variable has its type, for every set of images and configurations: what
\* the emulator calls the header always has a region and a chip.
THEOREM TypeCorrect == BootSpec => []TypeOK
<1>1. BootInit => TypeOK
  <2> SUFFICES ASSUME BootInit PROVE TypeOK
    OBVIOUS
  <2>1. header.tv \in Tvs /\ header.cic \in Cics /\ timing \in {"PAL", "NTSC"}
    BY ChipAssumption DEF BootInit, NoHeader, Tvs
  <2>2. hw.used = {} /\ hw.blocks = {}
    BY DEF BootInit
  <2> QED
    BY <2>1, <2>2, ConfigsAssumption DEF BootInit, TypeOK, Files
<1> QED
  BY <1>1, StepTyped, BootInvariant, PTL DEF BootSpec

-----------------------------------------------------------------------------
\* A boot of a machine that was just reset leaves nothing of a game in it.
LEMMA BootOfUnplayed ==
    ASSUME NEW h, Shaped(h), NEW c, NEW cfg \in BootConfig, BootFrom(h, c, cfg),
           h.used \subseteq {"debugger"}, h.ram = {}, h.dmem = Both({}),
           h.pif_ram = Both(Zeros), h.pc = ResetVector, h.gpr = Zeros
    PROVE  Unplayed(hw', c)
<1>1. PICK rom \in (IF cfg.pif_rom_path THEN Files ELSE {None}), ipl3_read \in BOOLEAN :
        BootWith(h, c, cfg, rom, ipl3_read)
  BY DEF BootFrom
<1> DEFINE hdr == Header(c, cfg)
           k == Cleared(h)
<1>2. k = [h EXCEPT !.blocks = {}] /\ Shaped(k)
  BY Shapes DEF Cleared
<1>3. /\ k.blocks = {} /\ k.used = h.used /\ k.ram = {} /\ k.dmem = Both({})
      /\ k.pif_ram = Both(Zeros) /\ k.pc = ResetVector /\ k.gpr = Zeros
  BY <1>2 DEF Shaped
<1>4. /\ Both(Zeros)["bus"] = Zeros /\ Both(Zeros)["device"] = Zeros
      /\ Both({})["bus"] = {} /\ Both({})["device"] = {}
  BY BothSides
<1>5. CASE ~booted'
  BY <1>1, <1>3, <1>4, <1>5, Marks DEF BootWith, Unplayed
<1>6. CASE booted'
  <2>1. hw' = IF cfg.mode = "LlePif" THEN Started(k, c, hdr, cfg, Zeros, {})
              ELSE Started(k, c, hdr, cfg, Seeds(hdr, cfg.reset_type), Copied(c, hdr, cfg))
    BY <1>1, <1>3, <1>6 DEF BootWith, LleBooted, HleBooted
  <2>2. /\ hw'.pc = hdr.entry /\ hw'.blocks = {} /\ hw'.used \subseteq {"debugger"}
        /\ hw'.dmem = Ipl3Installed(k, c, cfg) /\ hw'.pif_ram = SeededPif(k, hdr, cfg)
        /\ hw'.ram \subseteq Copied(c, hdr, cfg)
        /\ hw'.gpr \in {Zeros, Seeds(hdr, cfg.reset_type)}
    BY <1>3, <2>1 DEF Started
  <2>3. hw'.ram \subseteq {<<c, hw'.pc>>}
    BY <2>2 DEF Copied
  <2>4. hw'.dmem["bus"] = hw'.dmem["device"] /\ Game \notin hw'.dmem["bus"]
    <3> DEFINE ipl3 == IF cfg.ipl3_path THEN {Ipl3(None)}
                       ELSE IF c # None /\ Image[c].size = "Full" THEN {Ipl3(c)} ELSE {}
    <3>1. k.dmem["bus"] = {}
      BY <1>3, <1>4
    <3>2. hw'.dmem["bus"] = {} \cup ipl3 /\ hw'.dmem["device"] = ipl3
      BY <2>2, <3>1 DEF Ipl3Installed, Sides
    <3>3. Game \notin ipl3
      BY Marks
    <3> QED
      BY <3>2, <3>3
  <2>5. hw'.pif_ram["bus"] = hw'.pif_ram["device"] /\ hw'.pif_ram["bus"] # Game
    <3>1. hw'.pif_ram = Both(PifSeeds(hdr, cfg.reset_type))
      BY <2>2 DEF SeededPif
    <3>2. PifSeeds(hdr, cfg.reset_type) # Game
      BY Marks DEF PifSeeds
    <3> QED
      BY <3>1, <3>2, BothSides
  <2>6. hw'.gpr # Game /\ hw'.pc # Game
    BY <2>2, Marks, Entries DEF Seeds
  <2> QED
    BY <2>2, <2>3, <2>4, <2>5, <2>6 DEF Unplayed
<1> QED
  BY <1>5, <1>6

\* Every load and reset, failed ones too.
LEMMA RestartsClear == ASSUME BootInv, Restart PROVE Unplayed(hw', cart')
<1> DEFINE p == PowerOn(hw)
           h == [p EXCEPT !.used = {}]
<1>1. Shaped(p) /\ Shaped(h)
  BY Shapes DEF BootInv
<1>2. /\ p.used \subseteq {"debugger"} /\ p.ram = {} /\ p.dmem = Both({})
      /\ p.pif_ram = Both(Zeros) /\ p.pc = ResetVector /\ p.gpr = Zeros /\ p.blocks = {}
  BY DEF PowerOn
<1>3. /\ h.used = {} /\ h.ram = {} /\ h.dmem = Both({}) /\ h.blocks = {}
      /\ h.pif_ram = Both(Zeros) /\ h.pc = ResetVector /\ h.gpr = Zeros
  BY DEF PowerOn
<1>4. /\ Both(Zeros)["bus"] = Zeros /\ Both(Zeros)["device"] = Zeros
      /\ Both({})["bus"] = {} /\ Both({})["device"] = {}
  BY BothSides
<1>5. Unplayed(p, cart') /\ Unplayed(h, cart')
  BY <1>2, <1>3, <1>4, Marks DEF Unplayed
<1>6. CASE Reset
  <2>1. [boot_cfg EXCEPT !.reset_type = 1] \in BootConfig
    BY DEF BootInv, BootConfig
  <2>2. CASE CanBoot
    BY <1>1, <1>3, <1>6, <2>1, <2>2, BootOfUnplayed DEF Reset
  <2>3. CASE ~CanBoot
    BY <1>5, <1>6, <2>3 DEF Reset
  <2> QED
    BY <2>2, <2>3
<1>7. CASE LoadFails
  BY <1>5, <1>7 DEF LoadFails
<1>8. ASSUME NEW c \in Carts, NEW cfg \in BootConfig, Load(c, cfg)
      PROVE  Unplayed(hw', cart')
  BY <1>1, <1>2, <1>8, BootOfUnplayed DEF Load
<1>9. ASSUME NEW c \in Carts, LoadRom(c) PROVE Unplayed(hw', cart')
  <2>1. [boot_cfg EXCEPT !.reset_type = 0] \in BootConfig
    BY DEF BootInv, BootConfig
  <2> QED
    BY <1>8, <1>9, <2>1 DEF LoadRom
<1>10. ASSUME NEW c \in Carts, NEW arg \in Configs, LoadRomBytes(c, arg)
       PROVE  Unplayed(hw', cart')
  <2>1. boot_cfg \in BootConfig /\ arg \in BootConfig
    BY ConfigsAssumption DEF BootInv
  <2> QED
    BY <1>8, <1>10, <2>1 DEF LoadRomBytes
<1> QED
  BY <1>6, <1>7, <1>9, <1>10 DEF Restart

\* Whatever was played before, a load or a reset leaves only the images, and the
\* debugger's state after a load.
THEOREM RestartsAreClean == BootSpec => NothingSurvives
<1>1. BootInv /\ [BootNext]_bootVars => [Restart => Unplayed(hw', cart')]_bootVars
  BY RestartsClear
<1> QED
  BY <1>1, BootInvariant, PTL DEF BootSpec, NothingSurvives

-----------------------------------------------------------------------------
\* A boot leaves no compiled code, however far it gets.
LEMMA BootClears ==
    ASSUME NEW h, Shaped(h), NEW c, NEW cfg, BootFrom(h, c, cfg)
    PROVE  hw'.blocks = {}
<1>1. Shaped(Cleared(h)) /\ Cleared(h).blocks = {}
  BY Shapes DEF Cleared, Shaped
<1>2. PICK rom, ipl3_read : BootWith(h, c, cfg, rom, ipl3_read)
  BY DEF BootFrom
<1> QED
  BY <1>1, <1>2 DEF BootWith, LleBooted, HleBooted, Started

\* No compiled code outlives a PIF ROM that is replaced, or RDRAM that a reset or
\* a boot writes, whether that boot succeeds or fails.
THEOREM CodeStaysCurrent == BootSpec => CodeCurrent
<1> DEFINE Current ==
      /\ pif_rom' # pif_rom => "pif rom" \notin hw'.blocks
      /\ hw'.ram # hw.ram /\ hw'.pc # Game => "ram" \notin hw'.blocks
<1>1. ASSUME BootInv, BootNext PROVE Current
  <2>1. Shaped(hw)
    BY <1>1 DEF BootInv
  <2>2. CASE Play
    <3>1. PICK regions :
            hw' = [pc |-> Game, gpr |-> Game, ram |-> hw.ram \cup {Game},
                   dmem |-> Both({Game}), pif_ram |-> Both(Game),
                   blocks |-> regions, used |-> Parts]
      BY <2>2 DEF Play
    <3>2. pif_rom' = pif_rom
      BY <2>2 DEF Play
    <3> QED
      BY <3>1, <3>2
  <2>3. ASSUME NEW cfg \in Configs, SetBootConfig(cfg) PROVE Current
    BY <2>3 DEF SetBootConfig
  <2>4. ASSUME NEW cfg \in Configs, Reboot(cfg) PROVE Current
    BY <2>1, <2>4, BootClears DEF Reboot
  <2>5. CASE Restart
    BY <1>1, <2>5, RestartsClear DEF Unplayed
  <2> QED
    BY <1>1, <2>2, <2>3, <2>4, <2>5 DEF BootNext
<1>2. BootInv /\ [BootNext]_bootVars => [Current]_bootVars
  BY <1>1
<1> QED
  BY <1>2, BootInvariant, PTL DEF BootSpec, CodeCurrent

-----------------------------------------------------------------------------
(* The debugger.                                                             *)


\* What a step can be, to the debugger.
Instruction ==
    /\ debug /\ debug' = debug
    /\ \E next \in Pcs, watched \in BOOLEAN : DebugStep(next, watched)
Stop == debug /\ debug' = debug /\ StopAtBreakpoint /\ UNCHANGED <<pc, executed>>
FreeRun == ~debug /\ debug' = debug /\ UNCHANGED <<debugger, history>>
Rest == UNCHANGED <<pc, executed, debug, debugger, history>>
Key ==
    \/ UserPause
    \/ Resume
    \/ \E count \in StepCounts : RequestStep(count)
    \/ \E pcs \in SUBSET Pcs : SetBreakpoints(pcs)

LEMMA RunsKinds ==
    ASSUME NEW slice, NEW did, Runs(slice, did), UNCHANGED debug
    PROVE  Instruction \/ FreeRun
BY DEF Runs, Instruction, FreeRun

LEMMA RefusesKinds ==
    ASSUME Refuses, UNCHANGED <<debug, executed>>
    PROVE  Stop \/ Rest
BY DEF Refuses, Stop, Rest

LEMMA StepKinds == [Next]_vars => Instruction \/ Stop \/ FreeRun \/ Rest \/ Key
<1> SUFFICES ASSUME [Next]_vars PROVE Instruction \/ Stop \/ FreeRun \/ Rest \/ Key
  OBVIOUS
<1>1. CASE User
  <2>1. CASE \E count \in CycleCounts : BeginCycles(count)
    BY <2>1 DEF BeginCycles, Rest, clocks
  <2>2. QED
    BY <1>1, <2>1 DEF User, Key
<1>2. CASE BeginFrame
  BY <1>2 DEF BeginFrame, Rest, clocks
<1>3. CASE FrameSlice
  <2>1. PICK did \in 1 .. DeviceBatch : Runs(Smaller(DeviceBatch, Limit - ran), did)
    BY <1>3 DEF FrameSlice
  <2>2. UNCHANGED debug
    BY <1>3 DEF FrameSlice
  <2>3. QED
    BY <2>1, <2>2, RunsKinds
<1>4. CASE FrameRefused
  BY <1>4, RefusesKinds DEF FrameRefused, clocks
<1>5. CASE CyclesSlice
  <2>1. PICK did \in 1 .. DeviceBatch : Runs(Smaller(DeviceBatch, left), did)
    BY <1>5 DEF CyclesSlice
  <2>2. UNCHANGED debug
    BY <1>5 DEF CyclesSlice
  <2>3. QED
    BY <2>1, <2>2, RunsKinds
<1>6. CASE CyclesRefused
  BY <1>6, RefusesKinds DEF CyclesRefused
<1>7. CASE UNCHANGED vars
  BY <1>7 DEF vars, Rest, clocks
<1>8. QED
  BY <1>1, <1>2, <1>3, <1>4, <1>5, <1>6, <1>7 DEF Next, Working

-----------------------------------------------------------------------------
(* The inductive invariant.                                                  *)

Counts == steps_left \in Nat /\ granted \in Nat /\ taken \in Nat

\* A pause has a reason and ends the steps, and only a debugger pauses.
PauseShape ==
    /\ debug \in BOOLEAN /\ paused \in BOOLEAN
    /\ paused <=> stop_reason # "None"
    /\ paused => steps_left = 0 /\ debug

\* The address to be let past is the one that the program stands at.
PastBreakpoint ==
    /\ resume_pc = stopped_at
    /\ stopped_at \in {NoPc, pc}
    /\ ~debug => stopped_at = NoPc

DebuggerInv == Counts /\ PauseShape /\ PastBreakpoint /\ StepsExact

\* A debugger that has just been let go.
LEMMA GoingShape ==
    ASSUME paused = FALSE, stop_reason = "None", debug \in BOOLEAN PROVE PauseShape
<1>1. ~paused /\ paused \in BOOLEAN
  OBVIOUS
<1>2. QED
  BY <1>1 DEF PauseShape

LEMMA InitDebugger == Init => DebuggerInv
<1> SUFFICES ASSUME Init PROVE DebuggerInv
  OBVIOUS
<1>1. PauseShape
  BY GoingShape DEF Init
<1>2. Counts /\ PastBreakpoint /\ StepsExact
  BY DEF Init, Counts, PastBreakpoint, StepsExact
<1>3. QED
  BY <1>1, <1>2 DEF DebuggerInv

LEMMA InstructionKeeps == DebuggerInv /\ Instruction => DebuggerInv'
<1> SUFFICES ASSUME DebuggerInv, Instruction PROVE DebuggerInv'
  OBVIOUS
<1>1. PICK next \in Pcs, watched \in BOOLEAN : DebugStep(next, watched)
  BY DEF Instruction
<1>2. ~paused /\ stop_reason = "None" /\ debug' = debug /\ debug
  BY <1>1 DEF DebugStep, Frozen, DebuggerInv, PauseShape, Instruction
<1>3. granted' = granted /\ taken' = IF taken <= granted THEN taken + 1 ELSE taken
  BY <1>1 DEF DebugStep
<1>4. CASE watched
  <2>1. paused' = TRUE /\ stop_reason' = "Watchpoint" /\ steps_left' = 0
    BY <1>1, <1>4 DEF DebugStep, AfterStep, Pause
  <2>2. QED
    BY <1>1, <1>2, <1>3, <2>1
       DEF DebugStep, DebuggerInv, Counts, PauseShape, PastBreakpoint, StepsExact
<1>5. CASE ~watched /\ steps_left = 1
  <2>1. paused' = TRUE /\ stop_reason' = "StepDone" /\ steps_left' = 0
    BY <1>1, <1>5 DEF DebugStep, AfterStep, Pause
  <2>2. taken' = granted /\ granted > 0
    BY <1>3, <1>5 DEF DebuggerInv, Counts, StepsExact
  <2>3. QED
    BY <1>1, <1>2, <1>3, <2>1, <2>2
       DEF DebugStep, DebuggerInv, Counts, PauseShape, PastBreakpoint, StepsExact
<1>6. CASE ~watched /\ steps_left # 1
  <2>1. /\ steps_left' = IF steps_left > 0 THEN steps_left - 1 ELSE 0
        /\ paused' = paused /\ stop_reason' = stop_reason
    BY <1>1, <1>6 DEF DebugStep, AfterStep
  <2>2. steps_left' > 0 => taken' + steps_left' = granted'
    BY <1>3, <1>6, <2>1 DEF DebuggerInv, Counts, StepsExact
  <2>3. QED
    BY <1>1, <1>2, <1>3, <2>1, <2>2
       DEF DebugStep, DebuggerInv, Counts, PauseShape, PastBreakpoint, StepsExact
<1>7. QED
  BY <1>4, <1>5, <1>6

LEMMA NextDebugger == DebuggerInv /\ [Next]_vars => DebuggerInv'
<1> SUFFICES ASSUME DebuggerInv, [Next]_vars PROVE DebuggerInv'
  OBVIOUS
<1>1. CASE Instruction
  BY <1>1, InstructionKeeps
<1> USE DEF DebuggerInv, Counts, PastBreakpoint, StepsExact
<1>2. CASE Stop
  BY <1>2 DEF Stop, StopAtBreakpoint, Pause, PauseShape
<1>3. CASE FreeRun
  BY <1>3 DEF FreeRun, debugger, history, PauseShape
<1>4. CASE Rest
  BY <1>4 DEF Rest, debugger, history, PauseShape
<1>5. CASE Key
  <2>1. CASE UserPause
    BY <2>1 DEF UserPause, Pause, history, PauseShape
  <2>2. CASE Resume
    <3>1. PauseShape'
      <4>1. paused' = FALSE /\ stop_reason' = "None" /\ debug' \in BOOLEAN
        BY <2>2 DEF Resume, PauseShape
      <4>2. ~paused' /\ paused' \in BOOLEAN
        BY <4>1
      <4>3. QED
        BY <4>1, <4>2 DEF PauseShape
    <3>2. QED
      BY <2>2, <3>1 DEF Resume, history, PauseShape
  <2>3. CASE \E count \in StepCounts : RequestStep(count)
    <3>1. PICK count \in StepCounts : RequestStep(count)
      BY <2>3
    <3>2. PauseShape'
      <4>1. paused' = FALSE /\ stop_reason' = "None" /\ debug' \in BOOLEAN
        BY <3>1 DEF RequestStep, PauseShape
      <4>2. ~paused' /\ paused' \in BOOLEAN
        BY <4>1
      <4>3. QED
        BY <4>1, <4>2 DEF PauseShape
    <3>3. QED
      BY <3>1, <3>2, InputsAssumption DEF RequestStep, PauseShape
  <2>4. CASE \E pcs \in SUBSET Pcs : SetBreakpoints(pcs)
    BY <2>4 DEF SetBreakpoints, history, PauseShape
  <2>5. QED
    BY <1>5, <2>1, <2>2, <2>3, <2>4 DEF Key
<1>6. QED
  BY <1>1, <1>2, <1>3, <1>4, <1>5, StepKinds

LEMMA DebuggerInvariant == Spec => []DebuggerInv
BY InitDebugger, NextDebugger, PTL DEF Spec

-----------------------------------------------------------------------------
(* What follows.                                                             *)

\* Debugger::request_step: n steps run n instructions, for every n.
THEOREM StepsAreExact == Spec => []StepsExact
<1>1. DebuggerInv => StepsExact
  BY DEF DebuggerInv
<1>2. QED
  BY <1>1, DebuggerInvariant, PTL

\* Emulator::step_cpu_rsp: a paused debugger stops the program, in every call.
THEOREM PausedIsFrozen == Spec => FrozenWhilePaused
<1>1. DebuggerInv /\ [Next]_vars => [paused => UNCHANGED <<pc, executed>>]_vars
  <2> SUFFICES ASSUME DebuggerInv, [Next]_vars, paused PROVE UNCHANGED <<pc, executed>>
    OBVIOUS
  <2>1. ~Instruction
    BY DEF Instruction, DebugStep, Frozen, DebuggerInv, PauseShape
  <2>2. ~FreeRun
    BY DEF FreeRun, DebuggerInv, PauseShape
  <2>3. Key => UNCHANGED <<pc, executed>>
    BY DEF Key, UserPause, Resume, RequestStep, SetBreakpoints, clocks
  <2>4. QED
    BY <2>1, <2>2, <2>3, StepKinds DEF Stop, Rest
<1>2. QED
  BY <1>1, DebuggerInvariant, PTL DEF Spec, FrozenWhilePaused

\* Debugger::on_before_step: no breakpoint is passed unseen.
THEOREM BreakpointsHold == Spec => BreakpointHonoured
<1> DEFINE A == (debug /\ executed' # executed /\ pc \in breakpoints) => stopped_at = pc
<1>1. DebuggerInv /\ [Next]_vars => [A]_vars
  <2> SUFFICES ASSUME DebuggerInv, [Next]_vars, debug, executed' # executed,
                      pc \in breakpoints
               PROVE  stopped_at = pc
    OBVIOUS
  <2>1. ~FreeRun /\ ~Stop /\ ~Rest
    BY DEF FreeRun, Stop, Rest
  <2>2. ~Key
    BY DEF Key, UserPause, Resume, RequestStep, SetBreakpoints, clocks
  <2>3. ~AtBreakpoint
    BY <2>1, <2>2, StepKinds DEF Instruction, DebugStep
  <2>4. QED
    BY <2>3 DEF AtBreakpoint, DebuggerInv, PastBreakpoint
<1>2. QED
  BY <1>1, DebuggerInvariant, PTL DEF Spec, BreakpointHonoured

\* Debugger::on_before_step: resuming from a breakpoint gets past it.
THEOREM BreakpointsStopOnce == Spec => StopsOnce
<1> DEFINE A == (stop_reason' = "Breakpoint" /\ stop_reason # "Breakpoint")
                   => stopped_at # pc
<1>1. DebuggerInv /\ [Next]_vars => [A]_vars
  <2> SUFFICES ASSUME DebuggerInv, [Next]_vars,
                      stop_reason' = "Breakpoint", stop_reason # "Breakpoint"
               PROVE  stopped_at # pc
    OBVIOUS
  <2>1. ~Instruction
    BY DEF Instruction, DebugStep, AfterStep, Pause
  <2>2. ~FreeRun /\ ~Rest
    BY DEF FreeRun, Rest, debugger
  <2>3. ~Key
    BY DEF Key, UserPause, Resume, RequestStep, SetBreakpoints, Pause
  <2>4. AtBreakpoint
    BY <2>1, <2>2, <2>3, StepKinds DEF Stop, StopAtBreakpoint
  <2>5. QED
    BY <2>4 DEF AtBreakpoint, DebuggerInv, PastBreakpoint
<1>2. QED
  BY <1>1, DebuggerInvariant, PTL DEF Spec, StopsOnce

-----------------------------------------------------------------------------
(* The clocks.                                                               *)

\* A quotient and a remainder are the only ones.
LEMMA OneRemainder ==
    ASSUME NEW b \in Nat \ {0}, NEW a \in Int, NEW r \in 0 .. b - 1,
           \E q \in Int : a = b * q + r
    PROVE  a % b = r
<1> PICK q \in Int : a = b * q + r
  OBVIOUS
<1> DEFINE k == a \div b
           t == a % b
<1>1. k \in Int /\ t \in 0 .. b - 1 /\ a = b * k + t
  OBVIOUS
<1> HIDE DEF k, t
<1>2. b * q + r = b * k + t
  BY <1>1
<1>3. CASE q < k
  <2>1. b * (k - q) >= b
    BY <1>1, <1>3
  <2> QED BY <1>1, <1>2, <2>1
<1>4. CASE k < q
  <2>1. b * (q - k) >= b
    BY <1>1, <1>4
  <2> QED BY <1>1, <1>2, <2>1
<1>5. CASE k = q
  BY <1>1, <1>2, <1>5 DEF t
<1> QED BY <1>1, <1>3, <1>4, <1>5

LEMMA InRange == ASSUME NEW b \in Nat \ {0}, NEW a \in 0 .. b - 1 PROVE a % b = a
<1>1. a = b * 0 + a /\ a \in Int
  OBVIOUS
<1>2. \E q \in Int : a = b * q + a
  BY <1>1
<1> QED BY <1>1, <1>2, OneRemainder

\* Adding to a clock and adding to the time that it shows are one.
LEMMA AddToClock ==
    ASSUME NEW m \in Nat \ {0}, NEW a \in Int, NEW b \in Int
    PROVE  ((a % m) + b) % m = (a + b) % m
<1> DEFINE q == a \div m
           r == a % m
           k == (r + b) \div m
           t == (r + b) % m
<1>1. q \in Int /\ r \in Int /\ a = m * q + r
  OBVIOUS
<1>2. k \in Int /\ t \in 0 .. m - 1 /\ r + b = m * k + t
  BY <1>1
<1> HIDE DEF q, r, k, t
<1>3. m * (q + k) = m * q + m * k
  BY <1>1, <1>2
<1>4. a + b = m * (q + k) + t /\ q + k \in Int /\ a + b \in Int
  BY <1>1, <1>2, <1>3
<1>5. (a + b) % m = t
  BY <1>1, <1>2, <1>4, OneRemainder
<1> QED BY <1>5 DEF r, t

\* A clock that wraps at a multiple of a line still tells where in the line it is.
LEMMA WrapKeepsPhase ==
    ASSUME NEW R \in Nat \ {0}, NEW L \in Nat \ {0}, R % L = 0, NEW x \in Int
    PROVE  (x % R) % L = x % L
<1> DEFINE c == R \div L
           q == x \div R
           r == x % R
           k == r \div L
           t == r % L
<1>1. c \in Int /\ R = L * c
  OBVIOUS
<1>2. q \in Int /\ r \in Int /\ x = R * q + r
  OBVIOUS
<1>3. k \in Int /\ t \in 0 .. L - 1 /\ r = L * k + t
  BY <1>2
<1> HIDE DEF c, q, r, k, t
<1>4. R * q = L * (c * q) /\ c * q \in Int
  BY <1>1, <1>2
<1>5. L * (c * q + k) = L * (c * q) + L * k
  BY <1>3, <1>4
<1>6. x = L * (c * q + k) + t /\ c * q + k \in Int
  BY <1>2, <1>3, <1>4, <1>5
<1>7. x % L = t
  BY <1>3, <1>4, <1>6, OneRemainder
<1> QED BY <1>7 DEF r, t

\* Where a beam is that moves by no more than a line.
LEMMA BeamMoves ==
    ASSUME NEW L \in Nat \ {0}, NEW x \in Int, NEW d \in 0 .. L
    PROVE  (x + d) % L = IF (x % L) + d >= L THEN (x % L) + d - L ELSE (x % L) + d
<1> DEFINE a == x % L
<1>1. a \in 0 .. L - 1
  OBVIOUS
<1>2. (a + d) % L = (x + d) % L
  <2>1. x \in Int /\ d \in Int
    OBVIOUS
  <2> QED BY <2>1, AddToClock
<1> HIDE DEF a
<1>3. CASE a + d >= L
  <2>1. a + d = L * 1 + (a + d - L) /\ a + d - L \in 0 .. L - 1 /\ a + d \in Int
    BY <1>1, <1>3
  <2>2. \E q \in Int : a + d = L * q + (a + d - L)
    <3> WITNESS 1 \in Int
    <3> QED BY <2>1
  <2>3. (a + d) % L = a + d - L
    BY <2>1, <2>2, OneRemainder
  <2> QED BY <1>2, <1>3, <2>3 DEF a
<1>4. CASE a + d < L
  <2>1. a + d \in 0 .. L - 1
    BY <1>1, <1>4
  <2>2. (a + d) % L = a + d
    BY <2>1, InRange
  <2> QED BY <1>1, <1>2, <1>4, <2>2 DEF a
<1> QED BY <1>1, <1>3, <1>4


\* What is owed stays under a batch, and only run_cycles under the debugger leaves
\* anything owed between two iterations.
ClockInv ==
    /\ now \in 0 .. ClockRange - 1
    /\ debt \in 0 .. DeviceBatch - 1
    /\ debug \in BOOLEAN /\ left \in Nat
    /\ call # "cycles" \/ ~debug => debt = 0
    /\ call = "cycles" => left > 0
    /\ ClocksAgree

LEMMA LoopSizes ==
    /\ {ClockRange, LineCycles, DeviceBatch} \subseteq Nat \ {0}
    /\ ClockRange % LineCycles = 0 /\ DeviceBatch <= LineCycles
BY TimingAssumption, ClockAssumption

LEMMA InitClocks == Init => ClockInv
<1> SUFFICES ASSUME Init PROVE ClockInv
  OBVIOUS
<1>1. 0 % ClockRange = 0 /\ 0 % LineCycles = 0
  BY LoopSizes, InRange
<1> QED BY <1>1, LoopSizes DEF Init, ClockInv, ClocksAgree

\* flush_devices after did cycles, of which the debt makes no more than a batch.
LEMMA FlushKeeps ==
    ASSUME ClockInv, NEW did \in Nat, debt + did <= DeviceBatch,
           executed' = (executed + did) % ClockRange, Flush(debt + did)
    PROVE  /\ now' \in 0 .. ClockRange - 1 /\ debt' = 0
           /\ executed' = (now' + debt') % ClockRange
           /\ accum' = now' % LineCycles
<1> DEFINE owed == debt + did
<1>1. now \in Int /\ debt \in Int /\ owed \in 0 .. LineCycles /\ now + debt \in Int
  BY LoopSizes DEF ClockInv
<1>2. now' = (now + owed) % ClockRange /\ debt' = 0
  BY DEF Flush
<1>3. now' \in 0 .. ClockRange - 1
  BY <1>1, <1>2, LoopSizes
<1>4. executed' = now'
  <2>1. executed' = (((now + debt) % ClockRange) + did) % ClockRange
    BY DEF ClockInv, ClocksAgree
  <2>2. executed' = ((now + debt) + did) % ClockRange
    <3> DEFINE due == now + debt
    <3>1. due \in Int /\ did \in Int /\ executed' = ((due % ClockRange) + did) % ClockRange
      BY <1>1, <2>1
    <3> HIDE DEF due
    <3>2. executed' = (due + did) % ClockRange
      BY <3>1, LoopSizes, AddToClock
    <3> QED BY <3>2 DEF due
  <2>3. (now + debt) + did = now + owed
    BY <1>1
  <2> QED BY <1>2, <2>2, <2>3
<1>5. now' = (now' + debt') % ClockRange
  <2>1. now' + debt' = now'
    BY <1>2, <1>3
  <2> QED BY <1>3, <2>1, LoopSizes, InRange
<1>6. accum' = now' % LineCycles
  <2>1. accum' = IF accum + owed >= LineCycles THEN accum + owed - LineCycles
                                               ELSE accum + owed
    BY DEF Flush, Tick
  <2>2. accum' = (now + owed) % LineCycles
    BY <1>1, <2>1, LoopSizes, BeamMoves DEF ClockInv, ClocksAgree
  <2>3. now + owed \in Int
    BY <1>1
  <2>4. ((now + owed) % ClockRange) % LineCycles = (now + owed) % LineCycles
    BY <2>3, LoopSizes, WrapKeepsPhase
  <2> QED BY <1>2, <2>2, <2>4
<1> QED BY <1>2, <1>3, <1>4, <1>5, <1>6

LEMMA OweKeeps ==
    ASSUME ClockInv, NEW did \in Nat, Count(did), Owe(debt + did)
    PROVE  /\ now' = now /\ accum' = accum /\ debt' = debt + did
           /\ executed' = (now' + debt') % ClockRange
<1>1. now \in Int /\ debt \in Int /\ now + debt \in Int
  BY DEF ClockInv
<1>2. executed' = (((now + debt) % ClockRange) + did) % ClockRange
  BY DEF Count, ClockInv, ClocksAgree
<1>3. executed' = ((now + debt) + did) % ClockRange
  <2> DEFINE due == now + debt
  <2>1. due \in Int /\ did \in Int /\ executed' = ((due % ClockRange) + did) % ClockRange
    BY <1>1, <1>2
  <2> HIDE DEF due
  <2>2. executed' = (due + did) % ClockRange
    BY <2>1, LoopSizes, AddToClock
  <2> QED BY <2>2 DEF due
<1> QED BY <1>1, <1>3 DEF Owe

LEMMA ClocksNext == ClockInv /\ [Next]_vars => ClockInv'
<1> SUFFICES ASSUME ClockInv, [Next]_vars PROVE ClockInv'
  OBVIOUS
<1>1. CASE UserPause \/ Resume \/ (\E count \in StepCounts : RequestStep(count))
           \/ (\E pcs \in SUBSET Pcs : SetBreakpoints(pcs)) \/ UNCHANGED vars
  BY <1>1 DEF UserPause, Resume, RequestStep, SetBreakpoints, vars, clocks, video, loop,
              ClockInv, ClocksAgree
<1>2. CASE \E count \in CycleCounts : BeginCycles(count)
  BY <1>2, InputsAssumption DEF BeginCycles, clocks, video, ClockInv, ClocksAgree
<1>3. CASE BeginFrame
  BY <1>3 DEF BeginFrame, clocks, ClockInv, ClocksAgree
<1>4. CASE FrameSlice
  <2>1. PICK did \in 1 .. DeviceBatch : Count(did) /\ Flush(debt + did)
    BY <1>4 DEF FrameSlice
  <2>2. did \in Nat /\ debt + did <= DeviceBatch
    BY <1>4, LoopSizes DEF FrameSlice, ClockInv
  <2>3. /\ now' \in 0 .. ClockRange - 1 /\ debt' = 0
        /\ executed' = (now' + debt') % ClockRange
        /\ accum' = now' % LineCycles
    BY <2>1, <2>2, FlushKeeps DEF Count
  <2>4. debug' = debug /\ left' = left /\ call' # "cycles"
    BY <1>4 DEF FrameSlice, Return
  <2> QED BY <2>3, <2>4, LoopSizes DEF ClockInv, ClocksAgree
<1>5. CASE FrameRefused
  BY <1>5 DEF FrameRefused, Return, clocks, video, ClockInv, ClocksAgree
<1>6. CASE CyclesSlice
  <2>1. PICK did \in 1 .. DeviceBatch :
            /\ Runs(Smaller(DeviceBatch, left), did) /\ Count(did)
            /\ left' = left - did
            /\ IF debt + did >= DeviceBatch \/ left' = 0 THEN Flush(debt + did)
                                                         ELSE Owe(debt + did)
    BY <1>6 DEF CyclesSlice
  <2>2. did \in Nat /\ debug' = debug
    BY <1>6, LoopSizes DEF CyclesSlice
  <2>3. debt + did <= DeviceBatch
    BY <2>1, LoopSizes DEF Runs, ClockInv
  <2>4. left' \in Nat
    BY <1>6, <2>1, LoopSizes DEF Runs, Smaller, ClockInv, CyclesSlice
  <2>5. CASE debt + did >= DeviceBatch \/ left' = 0
    <3>1. /\ now' \in 0 .. ClockRange - 1 /\ debt' = 0
          /\ executed' = (now' + debt') % ClockRange
          /\ accum' = now' % LineCycles
      BY <2>1, <2>2, <2>3, <2>5, FlushKeeps DEF Count
    <3>2. call' = "cycles" => left' > 0
      BY <1>6, <2>4 DEF CyclesSlice
    <3> QED BY <2>2, <2>4, <3>1, <3>2, LoopSizes DEF ClockInv, ClocksAgree
  <2>6. CASE ~(debt + did >= DeviceBatch \/ left' = 0)
    <3>1. /\ now' = now /\ accum' = accum /\ debt' = debt + did
          /\ executed' = (now' + debt') % ClockRange
      BY <2>1, <2>2, <2>6, OweKeeps
    <3>2. debug
      BY <2>1, <2>6, LoopSizes DEF Runs, Smaller, ClockInv
    <3>3. call' = "cycles"
      BY <1>6, <2>6 DEF CyclesSlice
    <3> QED BY <2>2, <2>4, <2>6, <3>1, <3>2, <3>3, LoopSizes DEF ClockInv, ClocksAgree
  <2> QED BY <2>5, <2>6
<1>7. CASE CyclesRefused
  <2>1. executed' = (executed + 0) % ClockRange
    <3>1. now + debt \in Int
      BY DEF ClockInv
    <3>2. executed \in 0 .. ClockRange - 1
      BY <3>1, LoopSizes DEF ClockInv, ClocksAgree
    <3>3. executed + 0 = executed /\ executed % ClockRange = executed
      BY <3>2, LoopSizes, InRange
    <3> QED BY <1>7, <3>3 DEF CyclesRefused
  <2>2. debt + 0 = debt /\ debt <= DeviceBatch
    BY LoopSizes DEF ClockInv
  <2>3. Flush(debt + 0)
    BY <1>7, <2>2 DEF CyclesRefused
  <2>4. /\ now' \in 0 .. ClockRange - 1 /\ debt' = 0
        /\ executed' = (now' + debt') % ClockRange
        /\ accum' = now' % LineCycles
    BY <2>1, <2>2, <2>3, FlushKeeps
  <2>5. debug' = debug /\ left' = 0 /\ call' = "none"
    BY <1>7 DEF CyclesRefused
  <2> QED BY <2>4, <2>5, LoopSizes DEF ClockInv, ClocksAgree
<1> QED BY <1>1, <1>2, <1>3, <1>4, <1>5, <1>6, <1>7 DEF Next, User, Working

\* flush_devices, step_cpu_rsp and VideoInterface::tick: whatever the slices, the
\* budget, the lines and the debugger, the clocks tell the same time.
THEOREM ClocksStayTogether == Spec => []ClocksAgree
<1>1. Spec => []ClockInv
  BY InitClocks, ClocksNext, PTL DEF Spec
<1>2. ClockInv => ClocksAgree
  BY DEF ClockInv
<1> QED BY <1>1, <1>2, PTL

-----------------------------------------------------------------------------
(* The frames.                                                               *)

\* Between two slices of run_frame no frame is complete.
FrameInv ==
    call = "frame" => ran \in Nat /\ new_frames = 0 /\ frame_ready = FALSE

\* An iteration that ran something: the beam wraps at most once in it, and the
\* loop goes on only while it has not.
LEMMA SliceReports ==
    ASSUME FrameInv, FrameSlice
    PROVE  /\ FrameInv'
           /\ call' = "none" =>
                 /\ new_frames' <= 1
                 /\ result'.vi_frame <=> (new_frames' = 1 \/ ran' >= Budget)
<1>1. PICK did \in 1 .. DeviceBatch : Flush(debt + did) /\ ran' = ran + did
  BY DEF FrameSlice
<1>2. call = "frame" /\ ran \in Nat /\ new_frames = 0 /\ ~frame_ready
  BY DEF FrameSlice, FrameInv
<1>3. ran' \in Nat
  BY <1>1, <1>2, LoopSizes
<1>4. \/ frame_ready' = TRUE /\ new_frames' = 1
      \/ frame_ready' = FALSE /\ new_frames' = 0
  <2> DEFINE wraps == accum + (debt + did) >= LineCycles /\ line + 1 > last_line'
  <2>1. frame_ready' = (frame_ready \/ wraps)
    BY <1>1, Zenon DEF Flush, Tick
  <2>2. new_frames' = IF wraps /\ call = "frame" THEN new_frames + 1 ELSE new_frames
    BY <1>1, Zenon DEF Flush, Tick
  <2> HIDE DEF wraps
  <2>3. CASE wraps
    <3>1. frame_ready' = TRUE
      BY <1>2, <2>1, <2>3
    <3>2. new_frames' = 1
      BY <1>2, <2>2, <2>3
    <3> QED BY <3>1, <3>2
  <2>4. CASE ~wraps
    <3>1. frame_ready' = FALSE
      BY <1>2, <2>1, <2>4
    <3>2. new_frames' = 0
      BY <1>2, <2>2, <2>4
    <3> QED BY <3>1, <3>2
  <2> QED BY <2>3, <2>4
<1> DEFINE vi_frame == frame_ready' \/ new_frames' > 0
<1>5. IF vi_frame \/ ran' >= Limit THEN Return(ran', vi_frame)
                                   ELSE UNCHANGED <<call, result>>
  BY Zenon DEF FrameSlice
<1>6. vi_frame <=> new_frames' = 1
  BY <1>4
<1>7. CASE vi_frame \/ ran' >= Limit
  <2>1. call' = "none" /\ result'.vi_frame = (vi_frame \/ ran' >= Budget)
    BY <1>5, <1>7 DEF Return
  <2>2. new_frames' <= 1
    BY <1>4
  <2> HIDE DEF vi_frame
  <2>3. result'.vi_frame <=> (new_frames' = 1 \/ ran' >= Budget)
    BY <1>6, <2>1
  <2> QED BY <2>1, <2>2, <2>3 DEF FrameInv
<1>8. CASE ~(vi_frame \/ ran' >= Limit)
  <2>1. new_frames' = 0 /\ frame_ready' = FALSE /\ call' = "frame"
    BY <1>2, <1>4, <1>5, <1>8
  <2> QED BY <1>3, <2>1 DEF FrameInv
<1> QED BY <1>7, <1>8

LEMMA FramesNext == FrameInv /\ [Next]_vars => FrameInv'
<1> SUFFICES ASSUME FrameInv, [Next]_vars PROVE FrameInv'
  OBVIOUS
<1>1. CASE FrameSlice
  BY <1>1, SliceReports
<1>2. CASE BeginFrame
  BY <1>2 DEF BeginFrame, FrameInv
<1>3. CASE User \/ FrameRefused \/ CyclesSlice \/ CyclesRefused
  <2>1. call' # "frame" \/ UNCHANGED <<call, ran, new_frames, frame_ready>>
    BY <1>3 DEF User, UserPause, Resume, RequestStep, SetBreakpoints, BeginCycles,
                FrameRefused, Return, CyclesSlice, CyclesRefused, video, loop
  <2> QED BY <2>1 DEF FrameInv
<1>4. CASE UNCHANGED vars
  BY <1>4 DEF vars, video, loop, FrameInv
<1> QED BY <1>1, <1>2, <1>3, <1>4 DEF Next, Working

\* run_frame: for any batch, budget and limit, whatever the program writes to V_SYNC
\* and wherever the debugger stops it, a call completes at most one frame, and
\* its result says so exactly when it did or when the budget was spent.
THEOREM FramesReportedOnce == Spec => FrameReportedOnce
<1> DEFINE A == (call = "frame" /\ call' = "none") =>
                   /\ new_frames' <= 1
                   /\ result'.vi_frame <=> (new_frames' = 1 \/ ran' >= Budget)
<1>1. Init => FrameInv
  BY DEF Init, FrameInv
<1>2. FrameInv /\ [Next]_vars => [A]_vars
  <2> SUFFICES ASSUME FrameInv, [Next]_vars, call = "frame", call' = "none" PROVE A
    OBVIOUS
  <2>1. FrameSlice \/ FrameRefused
    BY DEF Next, User, Working, UserPause, Resume, RequestStep, SetBreakpoints,
           BeginCycles, BeginFrame, CyclesSlice, CyclesRefused, vars, loop
  <2>2. CASE FrameSlice
    BY <2>2, SliceReports
  <2>3. CASE FrameRefused
    <3>1. new_frames' = 0 /\ ran' = ran /\ result'.vi_frame = (FALSE \/ ran >= Budget)
      BY <2>3 DEF FrameRefused, Return, video, FrameInv
    <3>2. result'.vi_frame <=> ran >= Budget
      BY <3>1
    <3> QED BY <3>1, <3>2
  <2> QED BY <2>1, <2>2, <2>3
<1>3. QED
  BY <1>1, <1>2, FramesNext, PTL DEF Spec, FrameReportedOnce
=============================================================================
