SPECIFICATION Spec
CONSTANTS
  Producers = {p1}
  Consumers = {c1, c2}
  InitialProducerCapacity = 2
  BufferCapacityMax = 4
  ReserveCapacities = {4}
  ConsumerForceRelocationPopCount = 24
  RelocationIndices = 4
  MaxPushes = 5
  NoItem = NoItem
  Dummy = Dummy
INVARIANTS NothingStranded ReservationsExact TakesItsItem
PROPERTIES KeepsFifo SomePopReturns
