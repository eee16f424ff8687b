\* Daemons that start and end one at a time, and are killed at any time, with
\* clients that ask, stay silent and leave.
CONSTANTS
  d1 = d1
  d2 = d2
  c1 = c1
  c2 = c2
  Daemons = {d1, d2}
  Clients = {c1, c2}
  Overlap = FALSE
  Nothing = Nothing
SPECIFICATION FairControlSpec
INVARIANTS
  ControlTypeOK
  ServerReachable
  AnswersTrue
PROPERTIES
  RefusedOnlyIfServed
  ImplementsRequestOnce
  EveryoneServed
  ExitEnds
\* Every process ends.
CHECK_DEADLOCK FALSE
