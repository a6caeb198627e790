\* The token as it is: every error it finds itself is a bare panic.
CONSTANTS
  Account0 = Account0
  Account1 = Account1
  Account2 = Account2
  Address = {Account0, Account1, Account2}
  NoAddress = NoAddress
  I128_MAX = 1
  U32_MAX = 18
  U8_MAX = 10
  DAY_IN_LEDGERS = 4
  INSTANCE_BUMP_AMOUNT = 7
  BALANCE_BUMP_AMOUNT = 8
  MIN_PERSISTENT_TTL = 3
  MIN_TEMP_TTL = 2
  MAX_ENTRY_TTL = 9
  MAX_LEDGERS_TO_ADVANCE = 2
  AuthSets <- MCAuthSets
  Amounts <- MCFewAmounts
  Expirations = {1, 7}
  Decimals = {10}
  Advances = {1, 4}
  BarePanics <- AllPanics
  MAX_TRANSACTIONS = 2
  MAX_COMMANDS = 2
SPECIFICATION Spec
INVARIANT ContractCallsDoNotPanic
