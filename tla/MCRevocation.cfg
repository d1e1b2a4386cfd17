SPECIFICATION FairSpec
CONSTANTS
  Users = {u1}
  Passwords = {p1}
  Invalid = invalid
  FirstPassword = p1
  Sessions = {s1}
  Intents = {i1, i2}
  Threads = {t1}
  Nobody = nobody
  Free = free
  MaxSalt = 1
  Jobs = {j1}
  NoIntent = noIntent
  Attempts = 2
  MaxFaults = 2
  Connections = {c1}
  MaxRestarts = 1
  Administrators = {s1}
INVARIANT RevokedStreamsAreOwed
PROPERTIES
  CableAssumptionsHold
  RevokedSessionsFallSilent
