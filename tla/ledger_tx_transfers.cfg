SPECIFICATION FairSpec
CONSTANTS
  Sessions = {s1, s2}
  NoRequest = NoRequest
  NoRef = NoRef
  Amounts = {1, 2}
  Refs <- MCRefs
  Keys <- MCKeys
  Wallets <- TransferWallets
  Requests <- TransferRequests
  Opened = {2, 3}
  Freezable = {3}
INVARIANTS
  NoWaitCycle
PROPERTIES
  ImplementsLedger
  CallsEnd
