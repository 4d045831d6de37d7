SPECIFICATION ReconSpec
CONSTANTS
  Wallets = {"org"}
  Org = "org"
  Opened = {"org"}
  Keys <- MCKeys
  Refs = {"a", "b", "c"}
  NoRef = "none"
  NoOne = "noone"
  Amounts = {1, 2, 3}
  Payouts = {"a", "b", "c"}
  Live = {"a", "c"}
  Banked = {"a", "b"}
  Unconfigured = {}
  Creators <- OneCreator
  SubmitResults = {"accepted", "timeout"}
  Quotes <- FixedQuotes
  Funds = 2
  Outcomes = {"confirmed", "unseen", "lost"}
  LegOutcomes = {"confirmed", "unseen", "lost", "refused", "failed"}
  MaxSends = 2
  Procs = {"p1", "p2"}
  Settlers = {"p1"}
  ConfirmCalls = {"c"}
  Reviewed = {"a", "b", "c"}
  SafeStops <- BetweenAwaits
CONSTRAINTS
  OneKind
  DoubtAlone
  NoMismatch
CHECK_DEADLOCK FALSE
INVARIANTS
  ReceiptKeepsLock
  DebitedIsDelivered
  OrderAfterReceipt
  ReceivedOnce
  ConfirmedIsLanded
  ReconciledIsDelivered
