SPECIFICATION FairSpec
CONSTANTS
  Board = {"g3s", "g2l"}
  Channel = {0, 1}
  MaxReadWait = 3
PROPERTY PreviousReceived
