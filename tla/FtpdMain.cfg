SPECIFICATION FairMainSpec
CONSTANTS
    Clients = {c1, c2, c3, c4}
    MainFds = 3
CHECK_DEADLOCK FALSE
INVARIANTS NoZombieForgotten
PROPERTIES AllReaped ClientTaken
