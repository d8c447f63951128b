SPECIFICATION Spec
CONSTANTS
  LastZone = 1
  Text = {"stop", "start", "fold", "key"}
INVARIANTS TypeOK ManualExcludesSequence ManualHasDeadline StepInBounds
PROPERTIES OnlyHaltOrphans Settled OnlyClearStrands OnlyStackDropsStop
