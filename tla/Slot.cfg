SPECIFICATION FairSpec
CONSTANTS
  lo = lo
  hi = hi
  Word <- MCWord
  CmdRecv = TRUE
INVARIANT IsrReceivesWhole
PROPERTIES ImplementsMailbox FullIsStable OnlyIsrSilences RungIsTaken
