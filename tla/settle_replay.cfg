SPECIFICATION StellarSpec
CONSTANTS
  Wallets = {"org"}
  Org = "org"
  Opened = {"org"}
  Keys <- MCKeys
  Refs = {"a", "b"}
  NoRef = "none"
  NoOne = "noone"
  Amounts = {1, 2, 3}
  Payouts = {"a"}
  Live = {"a"}
  Banked = {}
  Unconfigured = {}
  Creators <- OneCreator
  SubmitResults = {}
  Quotes <- FixedQuotes
  Funds = 3
  Outcomes = {"confirmed"}
  MaxSends = 2
  Procs = {"p1", "p2"}
CHECK_DEADLOCK FALSE
INVARIANTS
  SentOnce
