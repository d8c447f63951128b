SPECIFICATION MCSpec
CONSTANTS
  Key = {"ESC", "[", "3", "~", "A", "B", "C", "D", "x", " ", "BS", "CR", "ctl"}
  Size = 4
  Depth = 2
  Byte = {a, b}
  BUFFER_SIZE = 5
  Burst = 3
INVARIANTS TypeOK HistoryPacked
PROPERTIES ImplementsEditor ImplementsQueue
