CONSTANTS
  CAP = 4
  Values = {v1, v2}
  Blank = blank
  Producer = producer
  Consumer = consumer
SPECIFICATION FairSpec
INVARIANTS
  NoSlotRace
PROPERTIES
  ImplementsFifo
  Drains
