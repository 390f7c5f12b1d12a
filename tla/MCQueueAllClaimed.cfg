SPECIFICATION Spec
CONSTANTS
  Producers = {p1, p2}
  Consumers = {c1}
  InitialProducerCapacity = 1
  BufferCapacityMax = 4
  ReserveCapacities = {2, 4}
  ConsumerForceRelocationPopCount = 2
  RelocationIndices = 4
  MaxPushes = 2
  NoItem = NoItem
  Dummy = Dummy
PROPERTIES AllClaimed
