SPECIFICATION Spec
CONSTANTS
  fb_w = 11
  fb_h = 5
  cell_w = 2
  cell_h = 2
  GlyphW = 1
  GlyphH = 1
  a = a
  A = A
  tilde = tilde
  gt = gt
  sp = sp
  qm = qm
  Letters <- MCLetters
  Upcase <- MCUpcase
  Shapes <- MCShapes
  Plain <- MCPlain
  Space <- sp
  Query <- qm
  NL = NL
  CR = CR
  BS = BS
  Key <- MCKey
  BufSize = 4
  Banner <- MCBanner
  Prompt <- MCPrompt
  Output <- MCOutput
INVARIANTS
  TypeOK
  CursorInside
  LineShown
PROPERTIES
  ImplementsTextScreen
