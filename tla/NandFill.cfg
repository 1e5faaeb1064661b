SPECIFICATION Spec
CONSTANTS
    DeviceBlocks = 4
    AddrBlocks = 3
    Pages = 3
    FilePages = 5
    Lengths = {0, 1, 2}
    MaxBlock = 4
    MaxFails = 1
INVARIANTS
    FilledAsDocumented
