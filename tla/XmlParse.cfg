SPECIFICATION Spec
CONSTANTS CFGLINES = 6
          Names = {"a", "b"}
          MaxThings = 2
          MaxLines = 3
          MaxSize = 5
          MaxLoopLines = 5
          MaxLoopSize = 6
          MaxPrinted = 8
PROPERTIES CommandsAsDocumented Terminates
CHECK_DEADLOCK FALSE
