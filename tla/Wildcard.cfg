SPECIFICATION MCSpec
CONSTANTS
  a = a
  b = b
  c = c
  t = t
  w = w
  Slugs = {a, b, c}
  Tags = {t}
  Words = {w}
  Contents <- MCContents
  Dates <- MCDates
  NoDate = NoDate
  NoTime = NoTime
  NoPass = NoPass
  Passwords = {"own", "site"}
  EnvDefault = "site"
  Matches <- WildMatches
  PageSize = 2
  UnlockTTL = 2
  SessionTTL = 1
  MaxIds = 3
  MaxTime = 3
INVARIANT BacklinksTrue
CHECK_DEADLOCK FALSE
