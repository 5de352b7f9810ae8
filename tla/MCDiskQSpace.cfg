SPECIFICATION Spec
CONSTANTS
  id1 = id1
  id2 = id2
  id3 = id3
  id4 = id4
  NoId = NoId
  QBytes = 7
  Sizes = {1, 2, 3, 4}
  Ids = {id1, id2, id3, id4}
  UIntRange = 1024
  KillAt = {"moved", "written"}
INVARIANTS
  MessagesKept
  RoomIsFound
  MovesBounded
SYMMETRY Symmetric
CHECK_DEADLOCK FALSE
