SPECIFICATION Spec
CONSTANTS
  Ids = {h, i}
  Vals = {v, w}
  None = None
  HotId = h
  Deletable = {i}
  NPages = 3
  PageItems = 2
  CutErase <- MCCutErase
INVARIANTS RoomCounted ReadsStored
PROPERTIES ImplementsNvMap ComesNearer ComesToRest
