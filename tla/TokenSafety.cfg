\* Two parties; time scaled down, with the order of the code's lifetimes kept.
CONSTANTS
  alice = alice
  bob = bob
  Address = {alice, bob}
  NoAddress = NoAddress
  I128_MAX = 2
  U32_MAX = 6
  U8_MAX = 1
  DAY_IN_LEDGERS = 3
  INSTANCE_BUMP_AMOUNT = 9
  BALANCE_BUMP_AMOUNT = 12
  MIN_PERSISTENT_TTL = 3
  MIN_TEMP_TTL = 2
  MAX_ENTRY_TTL = 20
  AuthSets <- MCAuthSets
  Amounts <- MCAmounts
  Expirations = {2, 4}
  Decimals = {1, 2}
  Advances = {1, 3}
  MAX_STEPS = 6
SYMMETRY MCSymmetry
SPECIFICATION MCSpec
INVARIANTS TokenTypeOK AllowanceEntryOutlivesAllowance
PROPERTIES DebitsAreAuthorized AllowancesGrowOnlyByOwner AdminHandsOver
CHECK_DEADLOCK FALSE
