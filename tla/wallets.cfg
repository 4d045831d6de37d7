SPECIFICATION MCSpec
CONSTANTS
  alice = alice
  bob = bob
  carol = carol
  revenue = revenue
  k1 = k1
  k2 = k2
  k3 = k3
  d1 = d1
  Newcomers = {carol}
  Provisioners = {"a", "b", "c"}
  Node <- NodeOf
  MaxKeys = 2
  Users = {"u"}
  Provisions <- MCProvisions
  Trustlines = 2
  MasterFunds = 1
  Misfortunes = {}
  NoAddress = NoAddress
  Wallets = {alice, bob, carol, revenue}
  Opened = {alice, bob, carol, revenue}
  Revenue = revenue
  Funded = {alice, carol}
  Funds = 4
  Fee = 1
  OnchainFee = 1
  Amounts = {1, 2, 4}
  Keys <- MCKeys
  Refs <- MCRefs
  NoRef = NoRef
  NoRequest = NoRequest
  Requests <- Mixed
  Callers <- OneEach
  Procs = {"p1", "p2"}
  OutcomeNames = {"confirmed", "unseen", "lost", "refused", "failed"}
  MaxSends = 1
  Deposits <- Outside
  Watched = {carol}
  Watchers = {"p1", "p2"}
CHECK_DEADLOCK FALSE
CONSTRAINT Calm
INVARIANTS
  AllOrNothing
  NothingInvented
  DoneIsMoved
  AddressIsKept
  AddressForGood
