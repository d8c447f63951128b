SPECIFICATION FairSpec
CONSTANTS
  LastZone = 2
  MaxSends = 1
  CmdRecv = FALSE
PROPERTIES PingIsServed
