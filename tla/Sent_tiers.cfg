CONSTANTS
  Detection <- MCDetection
  Stray = "u"
  Within <- MCWithin
  Kinds <- MCKinds
  Gaps <- MCGaps
  Marks <- MCMarks
  Owasp <- MCOwasp
  Sensitive = {"/app/.env"}
  AI_UA = {"gptbot"}
  Booster <- MCBooster
  Live <- MCLive
  RPS_THRESHOLD = 6
  MAXLEN = 5
  MaxExpired = 1
  MaxTokens = 7
  MaxGarbled = 3
SPECIFICATION TiersSpec
CHECK_DEADLOCK FALSE
INVARIANT TiersTypeOK
INVARIANT ConditionMeansWhatItSays
INVARIANT FastIsNotBenign
