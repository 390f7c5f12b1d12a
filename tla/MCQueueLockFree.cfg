SPECIFICATION Spec
CONSTANTS
  Producers = {p1, p2}
  Consumers = {c1, c2}
  InitialProducerCapacity = 2
  BufferCapacityMax = 4
  ReserveCapacities = {}
  ConsumerForceRelocationPopCount = 24
  RelocationIndices = 4
  MaxPushes = 2
  NoItem = NoItem
  Dummy = Dummy
PROPERTIES SomePopReturns
