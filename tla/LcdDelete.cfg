SPECIFICATION LcdSpec
CONSTANTS
    Height = 2
    MaxRows = 5
    Strs = {1, 2, 3}
    LongStrs = {2}
    LongLen = 2
    Width = 3
    MaxLen = 6
    TextBuf = 128
    MaxPreset = 5
    Chars <- MCChars
    Selection <- MCSelection
    Presets <- MCPresets
    h1 = h1
    h2 = h2
    Handles = {h1, h2}
    NoScreen = NoScreen
    Hour = 2
    KindsAt <- MCKindsAt
    StatusRows = {"lower"}
INVARIANTS
    TickSafe
