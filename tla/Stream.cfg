SPECIFICATION Spec
CONSTANTS
  a = a
  b = b
  u = u
  v = v
  w = w
  x = x
  Instances = {a, b}
  Writers = {u, v, w}
  Readers = {x}
  Nested = {v}
  Home <- HomeMC
  FirstSeq = 1
  MaxPos = 4
  MaxCount = 1
INVARIANTS StreamInv WatermarkBelowHeld
PROPERTIES SureAnswersHold ImplementsPublishedStream
