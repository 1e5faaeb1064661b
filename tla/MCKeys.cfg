SPECIFICATION SpecKeys
CONSTANTS
    OtherKeys = {7, 8}
    EVENT_FD_COUNT = 3
    MaxEvents = 4
    MaxStray = 2
INVARIANTS
    NoKeyStaysDown
    DigitAsTyped
    OvertakesByDevice
    EachKeyOnce
PROPERTIES
    DigitIsRead
    KeysArrive
CHECK_DEADLOCK FALSE
