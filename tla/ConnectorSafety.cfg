\* Two runs over three servers; a run that is over stays over.
SPECIFICATION Spec
CHECK_DEADLOCK FALSE
CONSTANTS
  Caller = {r1, r2}
  REFRESH_SKEW = 1
  FALLBACK = 2
  Lifetime = {2}
  MaxNow = 3
  NoToken = NoToken
  Spelling = {"acme", "AcMe", "other"}
  ScopeOrg = "acme"
  Lower <- MCLower
  Site = "site"
  None = None
  Configured = {"datadog", "github", "esa", "jira"}
  Listings <- MCListings
  Arguments <- MCArguments
  ToolName <- MCToolName
SYMMETRY MCSymmetry
INVARIANTS
  RequestsCarryLiveTokens
  SessionsAreClosed
  CallsStayInScope
