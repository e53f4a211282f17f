\* Two connections of one packet each.
SPECIFICATION FairSpec
CONSTANTS
  NConn = 2
  MaxFrag = 2
PROPERTIES EveryClientServed NewBytesFlush
