\* The code's own lengths of time.
CONSTANTS
  Account0 = Account0
  Account1 = Account1
  Account2 = Account2
  Address = {Account0, Account1, Account2}
  NoAddress = NoAddress
  I128_MAX = 2
  U32_MAX = 2000000000
  U8_MAX = 255
  DAY_IN_LEDGERS = 17280
  INSTANCE_BUMP_AMOUNT = 120960
  BALANCE_BUMP_AMOUNT = 518400
  MIN_PERSISTENT_TTL = 4096
  MIN_TEMP_TTL = 16
  MAX_ENTRY_TTL = 6312000
  MAX_LEDGERS_TO_ADVANCE = 4095
  AuthSets <- MCAuthSets
  Amounts <- MCAmounts
  Expirations = {16, 4100}
  Decimals = {10}
  Advances = {16, 17280}
  BarePanics = {}
  MAX_TRANSACTIONS = 2
  MAX_COMMANDS = 3
SYMMETRY MCSymmetry
SPECIFICATION Spec
INVARIANTS TypeOK NoFalseAlarm MirrorFollowsToken SupplyIsConserved ContractSurvivesHop
PROPERTY OnlyExpiredAllowancesVanish
