SPECIFICATION MCSpec
CONSTANTS LastZone = 2
          Text = {"ping", "open", "nul", "restart"}
          Cmd = {"print", "recv", "timer", "restart", "trap"}
          MaxSends = 5
          Capacity = 1
          Burst = 1
INVARIANTS TypeOK SleepsOnlyOnLateInput
PROPERTIES ServesRun RunIsServed ByteIsRead
CHECK_DEADLOCK FALSE
