SPECIFICATION Spec
CONSTANTS
    Timeout = 2
    Ports = {1, 2}
    Backlog = 1
    MaxFds = 2
    MaxRoom = 2
    MaxSent = 3
INVARIANTS
    StoredExactly
