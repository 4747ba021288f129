SPECIFICATION Spec
CONSTANTS
  Sessions = {s1, s2, s3, s4}
  UserIds = {u1, u2}
  GameIds = {g1}
  NoName = NoName
  Threads = 2
  Faulty = {s4}
SYMMETRY LobbySymmetry
INVARIANTS
  AcceptsBack
  ListenLoop
  Sharers
