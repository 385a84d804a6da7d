SPECIFICATION WorkSpec
CONSTANTS
  p1 = p1  d1 = d1  d2 = d2  d3 = d3  r1 = r1  r2 = r2
  Workers = {p1}
  Attempts = {d1, d2, d3}
  Responses = {r1, r2}
  Failures = {"crash"}
  MaxFailures = 1
INVARIANTS ResponsesKept
CHECK_DEADLOCK FALSE
