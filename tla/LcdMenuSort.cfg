SPECIFICATION Spec
CONSTANTS
    Height = 2
    MaxRows = 3
    Strs = {1, 2, 3}
    LongStrs = {2}
    LongLen = 2
PROPERTIES
    MenuSorts
