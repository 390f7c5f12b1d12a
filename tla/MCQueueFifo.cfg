SPECIFICATION SafeSpec
CONSTANTS
  Producers = {p1}
  Consumers = {c1, c2}
  InitialProducerCapacity = 1
  BufferCapacityMax = 4
  ReserveCapacities = {}
  ConsumerForceRelocationPopCount = 24
  RelocationIndices = 4
  MaxPushes = 5
  NoItem = NoItem
  Dummy = Dummy
SYMMETRY Interchangeable
PROPERTIES KeepsFifo
