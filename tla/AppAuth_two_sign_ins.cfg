SPECIFICATION Spec
CONSTANTS
  u1 = u1
  u2 = u2
  a1 = a1
  a2 = a2
  SignIns = {s1, s2}
  Requests = {q1}
  Users = {u1, u2}
  Apps = {a1, a2}
  Integrated <- MCIntegrated
  LegacyRows <- MCLegacyRows
  None = None
INVARIANTS
  TypeOK
  TokensOfOwnUser
  ForeignTokensAreRefreshed
  DuplicatesOnlyByOverlap
  ScopesFitTokens
  RefusedOnlyIfOverwritten
