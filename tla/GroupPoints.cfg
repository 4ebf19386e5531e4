SPECIFICATION Spec
CONSTANTS
  ann = ann
  bob = bob
  cid = cid
  dan = dan
  None = None
  Players = {ann, bob, cid, dan}
  Names <- MCNames
  Who <- MCWho
  Lower <- MCLower
  Groups <- MCGroups
  Defaults <- MCDefaults
  Submissions <- MCSubmissions
  MaxFaults = 1
INVARIANTS
  OnePaymentEach
  SplitAddsUp
  RulesAndLimits
  ReportIsTrue
CHECK_DEADLOCK FALSE
