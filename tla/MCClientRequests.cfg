CONSTANTS
  PageSize = 2
  MaxPages = 2
  FlowRequests <- MCFlowRequests
  DefiRequests <- MCDefiRequests
  Tools = {"vector52_status", "vector52_wallet_flow", "other"}
  RequiredTools = {"vector52_status", "vector52_wallet_flow"}
  McpRequests <- MCMcpRequests
  Names = {"a", "b", ".env"}
  Contents = {"x", "y"}
  Excluded = {".env"}
  VerifyRequests <- MCVerifyRequests
  Fields = {"contract", "blockHash"}
  FromReceipt = {"blockHash"}
  DerivationRequests <- MCDerivationRequests
  SelectionRequests <- MCSelectionRequests
SPECIFICATION FairSpec
INVARIANTS
  FlowIsTheLatest
  UntruncatedIsWhole
  ScanAccountsForEveryChain
  VerificationIsExact
  DerivationIsExact
  PathReachesOneChain
  ReadyIsVerified
PROPERTIES
  EveryRequestAnswered
CHECK_DEADLOCK FALSE
