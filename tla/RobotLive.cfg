SPECIFICATION MCSpec
CONSTANTS
  LastZone = 1
  Text = {"unfold", "start", "stop", "key"}
PROPERTIES ManualEnds KeysStop SequenceEnds
