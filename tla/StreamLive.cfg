SPECIFICATION FairSpec
CONSTANTS
  a = a
  b = b
  u = u
  v = v
  w = w
  x = x
  Instances = {a, b}
  Writers = {u, w}
  Readers = {x}
  Nested = {}
  Home <- HomeMC
  FirstSeq = 1
  MaxPos = 3
  MaxCount = 2
PROPERTIES CommittedIsAnswered
