SPECIFICATION FairSpec
CONSTANTS
  LastZone = 1
  Text = {"stop", "start"}
PROPERTIES StopIsObeyed
