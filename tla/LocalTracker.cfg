SPECIFICATION FairSpec
CONSTANTS
  N = 3
  sampling_ = 2
  Consumers = {batcher, log}
  MaxEvents = 12
INVARIANTS
  TypeOK
  NoSlotRace
PROPERTIES
  IsChannel
  DropsOnlyWhenFull
  EventuallyDrained
