SPECIFICATION FairSpec
CONSTANTS
  Requests = {r1, r2, r3}
  Emails = {e1, e2}
  MaxFailures = 1
  None = None
INVARIANTS TypeOK OrgsOfTheirUsers TwoOrgsOnlyByOverlap ResetsUseLastToken
PROPERTIES CreatedCanLogIn SignUpsSettle
CHECK_DEADLOCK FALSE
