CONSTANTS
    pal = pal
    ntsc = ntsc
    stub = stub
    scrap = scrap
    chip = chip
    other_chip = other_chip
    rom1 = rom1
    rom2 = rom2
    None = None
    Carts <- MCCarts
    Image <- MCImage
    Cics <- MCCics
    SomeCic = chip
    PifRoms <- MCPifRoms
    Configs <- MCConfigs
SPECIFICATION BootSpec
INVARIANTS
    AsDescribed
PROPERTIES
    NothingSurvives
    CodeCurrent
