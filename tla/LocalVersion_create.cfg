SPECIFICATION Spec
CONSTANTS
  Clients = {c1, c2}
  x = x
  y = y
  Fields <- MCFields
  Values = {0, 1, 2}
  Initial <- MCInitial
  Deltas <- MCDeltas
  Entities <- MCEntities
  MaxRequests = 4
INVARIANT ShowsConfirmed
CHECK_DEADLOCK FALSE
