SPECIFICATION AppFairSpec
CONSTANTS
  ada = ada
  ben = ben
  out = out
  Accounts = {ada, ben}
  Opening <- MCOpening
  Calls <- EveryCall
  UserCalls <- AllCalls
  MaxCalls = 3
  Answers = {"accepted", "failed", "refused"}
  Pots = {"p", "q"}
  OpenPots = {"p"}
  MaxDays = 1
  Requests <- AllRequests
  Positions = {31, 32, 33}
  OpenPositions <- MCOpenPositions
  Outside = out
  MaxLocked = 3
  Interest = 1
  Fee = 1
  EarlyEffects = {}
  Payer = ada
  Schedules <- MCSchedules
  Runs <- MCRuns
  PaymentOf <- MCPaymentOf
  Overlaps = {}
  Utterances <- MCUtterances
  MaxMessages = 3
  Attempts = {1, 2}
  ExecutionOf <- MCExecutionOf
  Doubled = {"message"}
CONSTRAINT OneKind
CHECK_DEADLOCK FALSE
INVARIANTS
  TypeOK
  ReversalIsOfFailed
  BooksBalance
  PocketIsLocked
  SchedulePaidOnce
  ReviewPaidOnce
  PaidAsShown
  FreshAmount
PROPERTIES
  FailedSendIsReversed
