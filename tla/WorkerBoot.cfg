SPECIFICATION Spec
CONSTANTS
  Daemon = {"dnsmasq", "nginx", "ulogd"}
  MaxWait = 2
  MaxOrders = 3
INVARIANTS TypeOK ArqHasRoute
PROPERTIES WaitIsDecided GatewayFallsWhole
CHECK_DEADLOCK FALSE
