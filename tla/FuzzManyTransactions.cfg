\* Time scaled down, so that entries grow old over many transactions and
\* the counter of ledgers comes to its end.
CONSTANTS
  Account0 = Account0
  Account1 = Account1
  Account2 = Account2
  Address = {Account0, Account1, Account2}
  NoAddress = NoAddress
  I128_MAX = 1
  U32_MAX = 22
  U8_MAX = 10
  DAY_IN_LEDGERS = 5
  INSTANCE_BUMP_AMOUNT = 8
  BALANCE_BUMP_AMOUNT = 10
  MIN_PERSISTENT_TTL = 3
  MIN_TEMP_TTL = 2
  MAX_ENTRY_TTL = 11
  MAX_LEDGERS_TO_ADVANCE = 2
  AuthSets <- MCAuthSets
  Amounts <- MCFewAmounts
  Expirations = {1, 7}
  Decimals = {10}
  Advances = {1, 5}
  BarePanics <- AllPanics
  MAX_TRANSACTIONS = 6
  MAX_COMMANDS = 2
SPECIFICATION FairSpec
INVARIANTS BalancesSurviveTransaction ClockKeepsPace
PROPERTIES RunsGetShorter Termination
