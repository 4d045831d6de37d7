SPECIFICATION Spec
CONSTANTS
  Sessions = {s1, s2}
  NoRequest = NoRequest
  NoRef = NoRef
  Amounts = {1, 2}
  Refs <- MCRefs
  Keys <- MCKeys
  Wallets <- MCWallets
  Requests <- SingleRequests
  Opened = {}
  Freezable = {}
SYMMETRY Symmetry
INVARIANTS
  AckedIsPosted
PROPERTIES
  ImplementsLedger
