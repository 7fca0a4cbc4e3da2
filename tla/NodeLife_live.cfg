SPECIFICATION FairSpec
CONSTANTS
  Kinds = {"SOCK"}
  MaxMsg = 1
  MaxSend = 0
  MaxReport = 1
  Failures = {"read", "refuse", "reset"}
PROPERTIES CloseCompletes ReceivedTaken
