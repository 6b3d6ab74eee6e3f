SPECIFICATION FairSpec
CONSTANTS
  Letters = {a}
  Symbols = {one}
  Shifts = {lshift, rshift}
  CapsKey = capslock
  ExtKeys = {up}
  E0 = E0
  NoKey = NoKey
  Char <- MCChar
  Size = 3
  WindowKeys = TRUE
  FifoSize = 4
  MaxPresses = 2
PROPERTY
  KeysArrive
