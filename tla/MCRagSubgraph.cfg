SPECIFICATION Spec
CONSTANTS
  policy = policy
  handbook = handbook
  salaries = salaries
  Paths = {policy, handbook, salaries}
  ScopeOf <- MCScopeOf
  Users <- MCUsers
  MaxChanges = 2
  NoResult = NoResult
INVARIANTS
  KeepsContract
  EvidenceIsCurrent
