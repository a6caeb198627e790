SPECIFICATION Spec
CONSTANTS
  U64_MAX = 5
  MIN_SEED = 2
  MIN_PERSISTENT_TTL = 2
  MIN_TEMP_TTL = 1
  MAX_ENTRY_TTL = 3
  Invocations <- MCInvocations
  U32_MAX = 8
  MAX_LEDGERS_TO_ADVANCE = 2
  MAX_COMMANDS = 2
INVARIANT CommandsReachTheToken
PROPERTY ImplementsAuthorization
