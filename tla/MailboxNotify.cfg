SPECIFICATION FairSpec
CONSTANTS
  Board = {"g3s", "g2l", "n2h"}
  Channel = {0, 1}
  MaxReadWait = 3
INVARIANT NotifyInv
PROPERTY SentIsSeen
