SPECIFICATION Spec
CONSTANTS
  Member = {m1, m2}
  None = None
  Ttl = 1
  MaxWrites = 5
  MaxSessions = 3
SYMMETRY MemberSymmetry
CHECK_DEADLOCK FALSE
INVARIANTS
  
  OneAnswers
  WritesKept
  PendingIsTold
  OneConfiguration
PROPERTIES
  ImplementsLeaderKey
