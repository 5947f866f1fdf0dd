SPECIFICATION Spec
CONSTANTS
  Workers = {w1, w2}
  Users = {u1, u2}
  Scopes = {s1}
  Ttl = 1
  ResolveTime = 1
  MaxClock = 2
  MaxChanges = 1
  None = None
  CitationCounts <- MCCitationCounts
SYMMETRY WorkerSymmetry
INVARIANTS
  RevocationTakesEffect
  CacheKeepsOwners
  AnswersAreEarned
  CitationsMeantOrShadowed
