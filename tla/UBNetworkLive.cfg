\* Two objects that move in and out of range and change it; object 2 also comes
\* and goes in every other way.
SPECIFICATION FairSpec
CONSTANTS
  Ids = {1, 2}
  Senders = {1}
  Dests = {2, 255}
  Ranges = {1, 2}
  Positions = {0, 2}
  Range0 = 2
  MaxSent = 1
  Restless = {2}
  MaxChanges = 2
PROPERTY ReachesInRange
