\* One object, a second vehicle without one, three Vehicles in all: vehicles
\* come back while their predecessors are being deleted.
SPECIFICATION FairSpec
CONSTANTS
  Ids = {1}
  SystemIds = {1, 2}
  NVehicles = 3
  MaxPicks = 2
INVARIANTS TypeOK BindingConverges ActiveConverges NoDeletedActive
PROPERTY RemovedIsDeleted
CHECK_DEADLOCK FALSE
