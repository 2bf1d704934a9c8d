\* Two deliveries, a dispatch and a call of bin/notarise, in a row or together.
CONSTANTS
  Delivery = {d1, d2}
  Dispatch = {s1}
  Notary = {n1}
  Seed = g
  NoEvent = NoEvent
  Torn = Torn
  Bad = Bad
SPECIFICATION Spec
SYMMETRY Symmetry
INVARIANTS TypeOK LinksToItsPast ToldTheTruth PositionCovers OneRecordPerDelivery
  NotariseKeepsApart
CHECK_DEADLOCK FALSE
