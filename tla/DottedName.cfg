SPECIFICATION Spec
CONSTANTS
  Clients = {c1}
  Submits = {s1, s2}
  Names <- DottedNames
  MaxAttempts = 2
  Window = 3
  Lockout = 4
  TTL = 4
  MaxTime = 8
  MaxWait = 1
  Nobody = Nobody
SYMMETRY MCSymmetry
INVARIANT SessionWorks
CHECK_DEADLOCK FALSE
