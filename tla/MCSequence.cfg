SPECIFICATION FairSpec
CONSTANTS
  r1 = r1
  r2 = r2
  r3 = r3
  i1 = i1
  NoProc = NoProc
  NoDigit = NoDigit
  Absent = Absent
  Empty = Empty
  Junk = Junk
  Readers = {r1, r2}
  Initers = {i1}
  InitVals = {0, 1}
  Digits = {NoDigit}
  Half = 8
  MaxNum = 3
  Killable = {r1, i1}
PROPERTIES
  TakenOnce
  LockComesFree
