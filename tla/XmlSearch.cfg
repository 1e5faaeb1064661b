SPECIFICATION Spec
CONSTANTS CFGLINES = 6
          Names = {"a", "b"}
          MaxThings = 2
          MaxLines = 1
          MaxSize = 5
          MaxLoopLines = 1
          MaxLoopSize = 6
          MaxPrinted = 8
PROPERTIES SearchAsDocumented
CHECK_DEADLOCK FALSE
