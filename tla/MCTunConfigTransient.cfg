\* Six configuration calls: enough to open a device, configure server and
\* client, configure the server again (a second -D/-A pass), or crash
\* between -D and -A and start again.
CONSTANTS
    RouteDestinations <- MCRouteDestinations
    TransientFailure = TRUE
    MaxCalls = 6
    MaxFlows = 1
SPECIFICATION Spec
INVARIANT NoDuplicateMasquerade
\* The host stops calling once MaxCalls is reached.
CHECK_DEADLOCK FALSE
