\* Two daemons start over a stale socket.
CONSTANTS
  d1 = d1
  d2 = d2
  d3 = d3
  d4 = d4
  Daemons = {d1, d2, d3}
  Overlap = TRUE
  Nothing = Nothing
SPECIFICATION Spec
PROPERTIES
  ClearsOnlyStale
\* Every process ends.
CHECK_DEADLOCK FALSE
