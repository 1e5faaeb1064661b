SPECIFICATION FairSpec
CONSTANTS
    Ports = {1}
    QueueLen = 2
    Backlog = 2
    MaxSize = 2
    MaxFaults = 2
CHECK_DEADLOCK FALSE
INVARIANTS TypeOK RadioDirected ImageWhole QueryIsThere
PROPERTIES UpgradeCompletes
