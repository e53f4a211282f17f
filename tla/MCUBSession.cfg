\* Two connections of two packets each: either may be superseded, muted or torn
\* at every fragment, and framing has a packet left to find its feet on.
SPECIFICATION Spec
CONSTANTS
  NConn = 2
  MaxFrag = 4
INVARIANTS TypeOK SoleSession FrameIntegrity Accounted InOrderOnce
PROPERTY NoSpuriousLoss
