SPECIFICATION Spec
CONSTANTS
  SeqSize = 32
  TrackSize = 16
  Peers = 2
  LostAfter = 1
  FirstSend = 30
  MaxSends = 4
  MaxLost = 1
INVARIANTS
  TrackerTypeOK
  OutcomesTrue
PROPERTIES
  PendingEnds
