\* Three objects, so that a broadcast can be caught half way; object 1 sends two
\* packets, broadcasts or to an id that does not exist. Object 2 is disconnected
\* and reconnected, loses its vehicle and its agent; the mode changes once, in
\* the middle of all that.
SPECIFICATION Spec
CONSTANTS
  Ids = {1, 2, 3}
  Senders = {1}
  Dests = {9, 255}
  Ranges = {1}
  Positions = {0}
  Range0 = 1
  MaxSent = 2
  Restless = {2}
  MaxChanges = 1
INVARIANTS TypeOK SimpleFifo ModeAgreement
PROPERTIES ImplementsRelay NothingNewAfterDisconnect
