SPECIFICATION FairSpec
CONSTANTS
  Letters = {a}
  Symbols = {one}
  Shifts = {lshift, rshift}
  CapsKey = capslock
  ExtKeys = {up}
  E0 = E0
  NoKey = NoKey
  Char <- MCChar
  Size = 3
  WindowKeys = FALSE
  FifoSize = 4
  MaxPresses = 3
INVARIANTS
  TypeOK
  EdgePending
  TypedInOrder
  NoStuckShift
PROPERTIES
  KeysArrive
  ImplementsKeyQueue
