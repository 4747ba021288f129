SPECIFICATION FairSpec
CONSTANTS
  Sessions = {s1, s2, s3}
  UserIds = {u1, u2}
  GameIds = {g1, g2}
  NoName = NoName
  Threads = 1
  Faulty = {s1, s2}
INVARIANTS
  TypeOK
  ModesMatch
PROPERTIES
  ListensAgain
  RefusedIsReaped
  ImplementsConnections
