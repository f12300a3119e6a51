CONSTANTS
  MaxBoots = 2
  MaxSessions = 3
  Tries = 2
SPECIFICATION Spec
INVARIANTS
  TypeOK
  NoConnectionLeft
  WatchedAlone
  ForeignBootOnlyLate
PROPERTIES
  BootWaitEnds
