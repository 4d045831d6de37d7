SPECIFICATION OfframpSpec
CONSTANTS
  Wallets = {"org"}
  Org = "org"
  Opened = {"org"}
  Keys <- MCKeys
  Refs = {"a", "b"}
  NoRef = "none"
  NoOne = "noone"
  Amounts = {1, 2, 3}
  Payouts = {"a"}
  Live = {"a"}
  Banked = {"a"}
  Unconfigured = {}
  Creators <- OneCreator
  SubmitResults = {"accepted", "timeout"}
  Quotes <- FixedQuotes
  Funds = 3
  Outcomes = {}
  LegOutcomes = {"confirmed", "unseen", "failed"}
  MaxSends = 2
  Procs = {"p1", "p2"}
  Settlers = {"p1"}
  ConfirmCalls = {}
  SafeStops = {"leg.patch"}
CHECK_DEADLOCK FALSE
INVARIANTS
  ReceiptKeepsLock
