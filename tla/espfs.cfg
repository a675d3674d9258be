CONSTANTS
  ByteBits = 3
  Windows <- MCWindows
  Lookaheads <- MCLookaheads
  MinWindow = 3
  MaxWindow = 4
  MinLookahead = 2
  InBuf = 2
  Chunk = 3
  MaxLen = 7
  Blocks = 7
  Percent = 1
  MaxToken = 2
  Build <- MCBuild
  Deflate <- MCDeflate
SPECIFICATION Spec
INVARIANTS TypeOK ServesFile FindsFile TemplatesAreWhole
PROPERTIES Ends
