SPECIFICATION BulkSpec
CONSTANTS
  Wallets = {"org"}
  Org = "org"
  Opened = {"org"}
  Keys <- MCKeys
  Refs = {"a", "b", "c"}
  NoRef = "none"
  NoOne = "noone"
  Amounts = {1, 2, 3}
  Payouts = {"a", "b", "c"}
  Batches <- LiveOrTest
  Operators = {"p1"}
  Readers = {"p1", "p2"}
  Live = {"a", "b"}
  Banked = {"a", "b"}
  Unconfigured = {}
  Creators <- OneCreator
  SubmitResults = {"accepted", "refused"}
  Quotes <- FixedQuotes
  Funds = 3
  Procs = {"p1", "p2"}
CHECK_DEADLOCK FALSE
PROPERTIES
  OrdersAreSettled
  BatchTellsOutcomes
