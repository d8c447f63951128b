SPECIFICATION MCSpec
CONSTANTS LastZone = 2
          Text = {"ping", "restart", "mie0", "mie1", "block"}
          MaxSends = 2
          MaxCount = 11
          MSG_SIZE = 12
          LastZoneImage = 2
          LastHart = 2
INVARIANTS TextFits HartRunsWhatWasLoaded
PROPERTIES OnlyStartLoses MessageIsHandled MessageIsTaken HartIsReleased
CHECK_DEADLOCK FALSE
