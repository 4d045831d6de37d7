SPECIFICATION SteadySpec
CONSTANTS
  Wallets = {"org"}
  Org = "org"
  Opened = {}
  Keys <- MCKeys
  Refs = {"a", "b", "c"}
  NoRef = "none"
  NoOne = "noone"
  Amounts = {1, 2}
  Collections = {"a", "b", "c"}
  Live = {"a", "c"}
  Flutterwave = {"a"}
  Creators <- OneCreator
  FundingOff = {}
  SubmitResults = {"confirmed", "unseen", "failed"}
  Treasury = 6
  MaxSends = 2
  Rebalances = {}
  Quotes <- DriftingQuotes
  Procs = {"p1"}
CONSTRAINT TwoSeen
CHECK_DEADLOCK FALSE
INVARIANTS
  FundedAsCredited
PROPERTIES
  PaidIsAvailable
