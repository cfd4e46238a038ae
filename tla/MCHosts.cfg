SPECIFICATION FairSpec
CONSTANTS
  a = a
  b = b
  c = c
  d = d
  p = p
  Address = {a, b, c, d, p}
  Portless = {p}
  Invalid = Invalid
  Capacity = 4
  Seed = {s1}
  Messages <- Told
  MaxStarts = 2
INVARIANTS
  FillsTheGap
PROPERTIES
  SuccessHasHosts
  StartIsAnswered
