SPECIFICATION Spec
CONSTANTS
  owner = owner
  guardian = guardian
  OwnerFunds = 6
  NoAccount = NoAccount
  Account = {owner, guardian}
  Amount = {1, 2}
  Delay = {0, 1, 2}
  LockAmount = {}
  ExistentialDeposit = 2
  MaxPendingPerAccount = 2
  MaxScheduledPerBlock = 2
  MinDelayPeriod = 1
  GenesisFree <- MCFree
  GenesisDelay <- OwnerDelay
INVARIANT ScheduledIsCancellable
