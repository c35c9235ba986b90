SPECIFICATION Spec
CONSTANTS
  c1 = c1
  c2 = c2
  p1 = p1
  p2 = p2
  Calls = {c1, c2}
  Pids = {p1, p2}
  MaxTokens = 2
PROPERTY DeadOwnerIsReal
