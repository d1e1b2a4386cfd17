SPECIFICATION FairSpec
CONSTANTS
  Users = {u1}
  Passwords = {p1, p2}
  Invalid = invalid
  FirstPassword = p1
  Sessions = {s1, s2, s3}
  Intents = {i1, i2}
  Threads = {t1, t2}
  Nobody = nobody
  Free = free
  MaxSalt = 1
INVARIANTS
  LiveSessionsMatchDigest
  RemovedSessionsHaveIntent
PROPERTIES
  PasswordChangeConsumesToken
  SessionsFollowPolicy
  RequestsEnd
