SPECIFICATION Spec
CONSTANTS
  Admins = {"a", "b"}
  Tunnels = {TRUE, FALSE}
  MaxOrders = 3
  MaxCrashes = 1
  MaxTries = 2
  CanFail = TRUE
INVARIANTS
  
  LastOrderDecides
  PortServed
PROPERTY
  OrdersEnd
CHECK_DEADLOCK FALSE
