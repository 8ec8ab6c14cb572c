SPECIFICATION FairSpec
CONSTANTS
  a4 = a4
  a6 = a6
  private4 = private4
  Addresses <- MCAddresses
  Family <- MCFamily
  BuiltIn = {private4}
  Internal = {}
  GlobalUnicast = {a6}
  MaxAddresses = 2
  Capabilities = {"DNS_READ", "HTTP_GET_HEAD", "HTTP_HEADER_OBSERVE"}
  Required = {"DNS_READ", "HTTP_GET_HEAD"}
  Policies <- MCPolicies
  Ceiling <- MCCeiling
  Answers <- MCAnswers
  Peers = {a4, a6, private4}
  Responses <- MCResponses
  PageBytes = 3
  TextBytes = 1
  LeastRemaining = 1
  MaxTimeout = 4
  OtherDocuments <- MCOtherDocuments
  Step = 1
  Horizon = 5
  MaxBytes = 15
  MaxDuration = 4
  MaxRequests = 9
  MaxFindings = 8
  MaxWarnings = 6
  MaxEvidence = 5
  Redaction = 2
  Lifetime = 2
  MaxLifetime = 3
  MaxSkew = 1
  SigningKey = 1
  Keyring = {1, 2}
INVARIANTS
  RequestsAreCounted
  OnlyPinned
  NothingOutlivesTheRun
  ShownIsTrue
  AcceptedIsShown
PROPERTY
  RunEnds
CHECK_DEADLOCK FALSE
