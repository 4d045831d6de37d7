SPECIFICATION Spec
CONSTANTS
  NoRef = NoRef
  Amounts = {1, 2}
  Refs <- MCRefs
  Keys <- MCKeys
  Wallets <- MCWallets
  Legs <- MCLegs
  Opened = {1}
INVARIANTS
  TypeOK
  AuditTrail
  OncePerKeyAndSlot
