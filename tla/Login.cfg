SPECIFICATION Spec
CONSTANTS
  Clients = {c1}
  Submits = {s1, s2, s3}
  Names <- PlainNames
  MaxAttempts = 2
  Window = 3
  Lockout = 4
  TTL = 4
  MaxTime = 8
  MaxWait = 1
  Nobody = Nobody
SYMMETRY MCSymmetry
INVARIANT TypeOK LockBounded GuessesBounded LockHeld SessionWorks
CHECK_DEADLOCK FALSE
