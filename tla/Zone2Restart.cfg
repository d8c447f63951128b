SPECIFICATION Spec
CONSTANTS LastZone = 1
          Text = {"ping", "restart"}
          Cmd = {"print", "timer", "restart"}
          MaxSends = 2
          Capacity = 1
          Burst = 1
INVARIANT EveryInterruptHasHandler
