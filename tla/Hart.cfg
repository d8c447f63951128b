SPECIFICATION FairSpec
CONSTANTS
  LastZone = 2
  MaxSends = 2
  CmdRecv = TRUE
PROPERTIES OnlyRecvLoses ServedOnce InboxIsServed RungIsDrained
