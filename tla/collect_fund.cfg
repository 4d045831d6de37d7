SPECIFICATION TreasurySpec
CONSTANTS
  Wallets = {"org"}
  Org = "org"
  Opened = {}
  Keys <- MCKeys
  Refs = {"a", "b", "c"}
  NoRef = "none"
  NoOne = "noone"
  Amounts = {1, 2}
  Collections = {"a", "b", "c"}
  Live = {"a", "b", "c"}
  Flutterwave = {"b"}
  Creators <- RacedCreators
  FundingOff = {"b", "c"}
  SubmitResults = {"confirmed", "unseen", "lost", "failed"}
  Treasury = 3
  MaxSends = 2
  Rebalances = {"r"}
  RebalanceAmount <- RebalanceOfTwo
  Quotes <- MixedQuotes
  Procs = {"p1", "p2"}
CONSTRAINT OneOrFunded
CHECK_DEADLOCK FALSE
INVARIANTS
  AvailableNeedsFunding
  CreditNeedsPayment
  SettledIsAvailable
  ConfirmedRebalanceLanded
