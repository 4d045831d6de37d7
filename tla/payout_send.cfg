SPECIFICATION BillSpec
CONSTANTS
  Wallets = {"org"}
  Org = "org"
  Opened = {"org"}
  Keys <- MCKeys
  Refs = {"a", "b", "c", "d", "e"}
  NoRef = "none"
  NoOne = "noone"
  Amounts = {1, 2, 3}
  Payouts = {"a", "b", "c", "d", "e"}
  Live = {"a", "c", "d"}
  Banked = {"a", "b", "c", "d"}
  Unconfigured = {"c"}
  Creators <- OneCreator
  SubmitResults = {"accepted", "refused"}
  Quotes <- DriftingQuotes
  Funds = 3
  Procs = {"p1", "p2"}
  Bills = {"d", "e"}
  Payers <- OnePayer
  BillAnswers = {"paid", "open", "queued", "refused"}
  Blind = {"paid"}
  Asked = {}
CONSTRAINT AtMostTwo
CHECK_DEADLOCK FALSE
INVARIANTS
  LockEndsOnce
  LockedIsInFlight
  LockFollowsOrder
