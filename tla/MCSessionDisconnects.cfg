SPECIFICATION FairSpec
CONSTANTS
  Intents = {i1, i2}
  Sessions = {s1, s2, s3}
  Jobs = {j1, j2}
  NoIntent = noIntent
  Legacy = {s3}
  Attempts = 2
  MaxFaults = 2
INVARIANTS
  AcknowledgedIsPublished
PROPERTIES
  IntentsAcknowledged
