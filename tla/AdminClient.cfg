SPECIFICATION Spec
CONSTANTS
  Tokens = {t1, t2}
  None = None
  Old = Old
  Urls <- MCUrls
  Calls = {1, 2}
  Scenarios <- MCScenarios
  NoView = NoView
  NoUrl = NoUrl
INVARIANTS TypeOK LastWriterAgrees ViewOfUrl QuietViewIsCurrent
PROPERTIES EndsForAReason SecretStays EditsStayHome LoadingEnds
CHECK_DEADLOCK FALSE
