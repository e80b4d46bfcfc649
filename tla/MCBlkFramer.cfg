CONSTANTS
  a = a
  b = b
  bad = bad
  ByteBase = 4
  Magic <- MCMagic
  BlockIds = {a, b, bad}
  Undecodable = {bad}
  Encodings <- MCEncodings
  MaxFrames = 2
  MaxPad = 2
SPECIFICATION Spec
INVARIANT TypeOK
INVARIANT ParseRecoversFrames
INVARIANT NoPhantomBlocks
PROPERTY ParseTerminates
CHECK_DEADLOCK FALSE
