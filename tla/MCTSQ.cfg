CONSTANTS
  p1 = p1
  p2 = p2
  c1 = c1
  a = a
  b = b
  none = none
  Producers = {p1}
  Consumers = {c1}
  Elems = {a, b}
  Size = 3
  LengthMod = 65536
  SpuriousWakeups = FALSE
  None = none
SPECIFICATION Spec
INVARIANTS TypeOK Bounded NoLostWakeup
PROPERTIES ImplementsFifo DestroyFreesAll
