SPECIFICATION Spec
CONSTANTS
  Requests = {r1, r2}
  AppIds = {x1}
  OldApps = {x1}
  Platforms = {"tidal", "ytmusic"}
  Urls = {v1, v2}
  None = None
SYMMETRY Symmetry
INVARIANTS TypeOK WebhookAppExists
PROPERTIES AnsweredAppGetsEvents OneUrlAfterwards OnlyPassedFieldsChange LetThroughByValidKey
CHECK_DEADLOCK FALSE
