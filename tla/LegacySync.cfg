SPECIFICATION Spec
CONSTANTS
  h1 = h1  h2 = h2  r1 = r1  r2 = r2
  t1 = t1  t2 = t2  t3 = t3
  tags = tags  marker = marker  room1 = room1  room2 = room2  alice = alice
  Handlers = {h1, h2}
  Requests = {r1, r2}
  Txns = {t1, t2, t3}
  Queuing = {t1, t2}
  Limit = 1
  Types = {tags, marker}
  Tags = tags
  Rooms = {room1, room2}
  Users = {alice}
  MaxWrites = 2
SYMMETRY Symmetric
INVARIANTS TypeOK QueuedOnce NoTagIsLost DeletedWasReceived ReceivedInOrder
           AccountDataIsAhead TypingIsAhead
CHECK_DEADLOCK FALSE
