---------------------------- MODULE ExampleToken ----------------------------
(***************************************************************************)
(* The example token contract (tokens/example-token/src): its storage, one *)
(* action per entry point, and, for each entry point, the result the       *)
(* caller sees.  A call that fails leaves no trace: the host rolls back    *)
(* everything an invocation wrote when it panics or returns an error.      *)
(***************************************************************************)
EXTENDS SorobanStorage

CONSTANTS
  Address,              \* the addresses that hold tokens
  NoAddress,            \* stands for "no administrator stored"
  I128_MAX,             \* largest i128
  U32_MAX,              \* largest u32, the last ledger there can be
  U8_MAX,               \* largest u8
  DAY_IN_LEDGERS,
  INSTANCE_BUMP_AMOUNT,
  BALANCE_BUMP_AMOUNT,
  \* what callers pass, and how far the ledger moves between calls
  AuthSets, Amounts, Expirations, Decimals, Advances

INSTANCE_LIFETIME_THRESHOLD == INSTANCE_BUMP_AMOUNT - DAY_IN_LEDGERS
BALANCE_LIFETIME_THRESHOLD == BALANCE_BUMP_AMOUNT - DAY_IN_LEDGERS

ASSUME TokenAssumption ==
  /\ NoAddress \notin Address
  /\ I128_MAX \in Nat
  /\ U32_MAX \in Nat /\ U8_MAX \in Nat
  /\ DAY_IN_LEDGERS \in Nat \ {0}
  /\ INSTANCE_BUMP_AMOUNT \in Nat /\ INSTANCE_LIFETIME_THRESHOLD \in Nat
  /\ BALANCE_BUMP_AMOUNT \in Nat /\ BALANCE_LIFETIME_THRESHOLD \in Nat
  /\ INSTANCE_BUMP_AMOUNT < MAX_ENTRY_TTL /\ BALANCE_BUMP_AMOUNT < MAX_ENTRY_TTL
  /\ AuthSets \subseteq SUBSET Address
  /\ Amounts \subseteq -I128_MAX - 1 .. I128_MAX
  /\ Expirations \subseteq Nat
  /\ Decimals \subseteq Nat
  /\ Advances \subseteq 1 .. DAY_IN_LEDGERS

VARIABLES
  sequence,    \* the ledger's sequence number
  auths,       \* the addresses that authorized the current invocation
  instance,    \* instance storage: administrator, metadata, lifetime
  balances,    \* persistent entries DataKey::Balance(address)
  allowances   \* temporary entries DataKey::Allowance{from, spender}

storage == <<instance, balances, allowances>>
tokenVars == <<sequence, auths, storage>>

I128 == -I128_MAX - 1 .. I128_MAX

NoInstance == [admin |-> NoAddress, decimals |-> 0, live_until |-> Absent]
NoBalance == [amount |-> 0, live_until |-> Absent]
NoAllowance == [amount |-> 0, expiration_ledger |-> 0, live_until |-> Absent]

-----------------------------------------------------------------------------
(* Storage helpers.  Each takes the ledger seq it runs in.                 *)

(* storage().instance().extend_ttl(INSTANCE_LIFETIME_THRESHOLD, ...)       *)
extend_instance(entry, seq) ==
  [admin |-> entry.admin,
   decimals |-> entry.decimals,
   live_until |-> ExtendTTL(entry.live_until, INSTANCE_LIFETIME_THRESHOLD,
                            INSTANCE_BUMP_AMOUNT, seq)]

bump_instance(seq) == extend_instance(instance, seq)

(* Of the metadata: the entry points decimals, name and symbol read it     *)
(* and nothing else.                                                       *)
read_decimal == instance.decimals

read_balance(bal, addr) == bal[addr].amount

(* Reading a balance prolongs its entry, if it has one.                    *)
bump_balance(entry, seq) ==
  IF entry.live_until = Absent THEN entry
  ELSE [amount |-> entry.amount,
        live_until |-> ExtendTTL(entry.live_until, BALANCE_LIFETIME_THRESHOLD,
                                 BALANCE_BUMP_AMOUNT, seq)]

write_balance(bal, addr, amount) ==
  [bal EXCEPT ![addr] = bump_balance(
     [amount |-> amount,
      live_until |-> SetTTL(@.live_until, MIN_PERSISTENT_TTL, sequence)],
     sequence)]

receive_balance(bal, addr, amount) ==
  write_balance(bal, addr, read_balance(bal, addr) + amount)

spend_balance(bal, addr, amount) ==
  write_balance(bal, addr, read_balance(bal, addr) - amount)

(* Faulty variant: an allowance is lost in its last ledger.                *)
read_allowance_early(entry, seq) ==
  [amount |-> IF entry.expiration_ledger <= seq THEN 0 ELSE entry.amount,
   expiration_ledger |-> entry.expiration_ledger]

(* An allowance past its expiration ledger reads as 0, with the            *)
(* expiration that was stored.                                             *)
read_allowance(entry, seq) ==
  [amount |-> IF entry.expiration_ledger < seq THEN 0 ELSE entry.amount,
   expiration_ledger |-> entry.expiration_ledger]

(* Faulty variant: the entry keeps its lifetime, however long it must last. *)
write_allowance_no_extend(pair, amount, expiration_ledger) ==
  [allowances EXCEPT ![pair] =
     [amount |-> amount,
      expiration_ledger |-> expiration_ledger,
      live_until |-> SetTTL(@.live_until, MIN_TEMP_TTL, sequence)]]

write_allowance(pair, amount, expiration_ledger) ==
  [allowances EXCEPT ![pair] =
     [amount |-> amount,
      expiration_ledger |-> expiration_ledger,
      live_until |->
        LET kept == SetTTL(@.live_until, MIN_TEMP_TTL, sequence)
            live_for == expiration_ledger - sequence
        IN  IF amount > 0
              THEN ExtendTTL(kept, live_for, live_for, sequence)
              ELSE kept]]

(* Faulty variant: the allowance is checked and never reduced.             *)
spend_allowance_unspent(pair, amount) == allowances

spend_allowance(pair, amount) ==
  LET held == read_allowance(allowances[pair], sequence)
  IN  write_allowance(pair, held.amount - amount, held.expiration_ledger)

-----------------------------------------------------------------------------
(* Results.  "Ok", or the reason the call fails; r && s is the result of   *)
(* doing r and then, if it succeeded, s.                                   *)

Ok == "Ok"

(* The failures that are a bare panic of the contract: panic!, unwrap of   *)
(* nothing, or arithmetic overflow.  The others (Unauthorized,             *)
(* MissingContract, TTLTooLong) the host reports by itself.                *)
Panics == {"NegativeAmount", "InsufficientBalance", "InsufficientAllowance",
           "ExpirationInThePast", "Overflow", "AlreadyInitialized",
           "NotInitialized", "DecimalTooLarge"}

r && s == IF r = Ok THEN s ELSE r

Unless(failed, reason) == IF failed THEN reason ELSE Ok

(* The host finds the contract's instance entry before it runs any code.   *)
contract_found == Unless(instance.live_until = Absent, "MissingContract")

require_auth(signed, addr) == Unless(addr \notin signed, "Unauthorized")

check_nonnegative_amount(amount) == Unless(amount < 0, "NegativeAmount")

has_administrator == instance.admin # NoAddress

read_administrator == Unless(~has_administrator, "NotInitialized")

(* Faulty variant: the addition is not checked.                            *)
receive_balance_result_unchecked(bal, addr, amount) == Ok

receive_balance_result(bal, addr, amount) ==
  Unless(read_balance(bal, addr) + amount > I128_MAX, "Overflow")

(* Faulty variant: the balance is not checked.                             *)
spend_balance_result_unchecked(bal, addr, amount) == Ok

spend_balance_result(bal, addr, amount) ==
  Unless(read_balance(bal, addr) < amount, "InsufficientBalance")

write_allowance_result(amount, expiration_ledger) ==
  Unless(amount > 0 /\ expiration_ledger < sequence, "ExpirationInThePast")
  && Unless(amount > 0 /\ expiration_ledger > MaxLiveUntil(sequence),
            "TTLTooLong")

spend_allowance_result(pair, amount) ==
  LET held == read_allowance(allowances[pair], sequence)
  IN  Unless(held.amount < amount, "InsufficientAllowance")
      && write_allowance_result(held.amount - amount, held.expiration_ledger)

(* Faulty variant: the contract can be initialized again.                  *)
initialize_result_again(decimal) ==
  contract_found && Unless(decimal > U8_MAX, "DecimalTooLarge")

initialize_result(decimal) ==
  contract_found
  && Unless(has_administrator, "AlreadyInitialized")
  && Unless(decimal > U8_MAX, "DecimalTooLarge")

mint_result(signed, to, amount) ==
  contract_found
  && check_nonnegative_amount(amount)
  && read_administrator
  && require_auth(signed, instance.admin)
  && receive_balance_result(balances, to, amount)

set_admin_result(signed) ==
  contract_found
  && read_administrator
  && require_auth(signed, instance.admin)

(* Faulty variant: nobody has to sign.                                     *)
approve_result_unsigned(signed, from, amount, expiration_ledger) ==
  contract_found
  && check_nonnegative_amount(amount)
  && write_allowance_result(amount, expiration_ledger)

approve_result(signed, from, amount, expiration_ledger) ==
  contract_found
  && require_auth(signed, from)
  && check_nonnegative_amount(amount)
  && write_allowance_result(amount, expiration_ledger)

transfer_result(signed, from, to, amount) ==
  contract_found
  && require_auth(signed, from)
  && check_nonnegative_amount(amount)
  && spend_balance_result(balances, from, amount)
  && receive_balance_result(spend_balance(balances, from, amount), to, amount)

transfer_from_result(signed, spender, from, to, amount) ==
  contract_found
  && require_auth(signed, spender)
  && check_nonnegative_amount(amount)
  && spend_allowance_result(<<from, spender>>, amount)
  && spend_balance_result(balances, from, amount)
  && receive_balance_result(spend_balance(balances, from, amount), to, amount)

burn_result(signed, from, amount) ==
  contract_found
  && require_auth(signed, from)
  && check_nonnegative_amount(amount)
  && spend_balance_result(balances, from, amount)

burn_from_result(signed, spender, from, amount) ==
  contract_found
  && require_auth(signed, spender)
  && check_nonnegative_amount(amount)
  && spend_allowance_result(<<from, spender>>, amount)
  && spend_balance_result(balances, from, amount)

-----------------------------------------------------------------------------
(* The entry points, when they succeed.  signed are the addresses whose    *)
(* authorization the transaction carries for this invocation.              *)

initialize(admin, decimal) ==
  /\ initialize_result(decimal) = Ok
  /\ instance' = [admin |-> admin, decimals |-> decimal,
                  live_until |-> instance.live_until]
  /\ UNCHANGED <<sequence, auths, balances, allowances>>

mint(signed, to, amount) ==
  /\ mint_result(signed, to, amount) = Ok
  /\ auths' = signed
  /\ instance' = bump_instance(sequence)
  /\ balances' = receive_balance(balances, to, amount)
  /\ UNCHANGED <<sequence, allowances>>

set_admin(signed, new_admin) ==
  /\ set_admin_result(signed) = Ok
  /\ auths' = signed
  /\ instance' = [admin |-> new_admin, decimals |-> instance.decimals,
                  live_until |-> bump_instance(sequence).live_until]
  /\ UNCHANGED <<sequence, balances, allowances>>

approve(signed, from, spender, amount, expiration_ledger) ==
  /\ approve_result(signed, from, amount, expiration_ledger) = Ok
  /\ auths' = signed
  /\ instance' = bump_instance(sequence)
  /\ allowances' = write_allowance(<<from, spender>>, amount, expiration_ledger)
  /\ UNCHANGED <<sequence, balances>>

(* Faulty variant: both balances are read before either is written.        *)
transfer_stale(signed, from, to, amount) ==
  /\ transfer_result(signed, from, to, amount) = Ok
  /\ auths' = signed
  /\ instance' = bump_instance(sequence)
  /\ balances' = write_balance(spend_balance(balances, from, amount), to,
                               read_balance(balances, to) + amount)
  /\ UNCHANGED <<sequence, allowances>>

transfer(signed, from, to, amount) ==
  /\ transfer_result(signed, from, to, amount) = Ok
  /\ auths' = signed
  /\ instance' = bump_instance(sequence)
  /\ balances' =
       receive_balance(spend_balance(balances, from, amount), to, amount)
  /\ UNCHANGED <<sequence, allowances>>

transfer_from(signed, spender, from, to, amount) ==
  /\ transfer_from_result(signed, spender, from, to, amount) = Ok
  /\ auths' = signed
  /\ instance' = bump_instance(sequence)
  /\ allowances' = spend_allowance(<<from, spender>>, amount)
  /\ balances' =
       receive_balance(spend_balance(balances, from, amount), to, amount)
  /\ UNCHANGED sequence

burn(signed, from, amount) ==
  /\ burn_result(signed, from, amount) = Ok
  /\ auths' = signed
  /\ instance' = bump_instance(sequence)
  /\ balances' = spend_balance(balances, from, amount)
  /\ UNCHANGED <<sequence, allowances>>

burn_from(signed, spender, from, amount) ==
  /\ burn_from_result(signed, spender, from, amount) = Ok
  /\ auths' = signed
  /\ instance' = bump_instance(sequence)
  /\ allowances' = spend_allowance(<<from, spender>>, amount)
  /\ balances' = spend_balance(balances, from, amount)
  /\ UNCHANGED sequence

(* The accessors write nothing but lifetimes.                              *)
allowance ==
  /\ contract_found = Ok
  /\ instance' = bump_instance(sequence)
  /\ UNCHANGED <<sequence, auths, balances, allowances>>

balance(id) ==
  /\ contract_found = Ok
  /\ instance' = bump_instance(sequence)
  /\ balances' = [balances EXCEPT ![id] = bump_balance(@, sequence)]
  /\ UNCHANGED <<sequence, auths, allowances>>

(* A call that fails: whatever it wrote is rolled back.                    *)
rejected(signed, result) ==
  /\ result # Ok
  /\ auths' = signed
  /\ UNCHANGED <<sequence, storage>>

-----------------------------------------------------------------------------
(* The contract on a ledger, called by anyone with anything.  A call that  *)
(* is rejected changes nothing here, so it needs no step of its own.       *)

(* register_contract creates the instance entry; nothing is in it yet.     *)
registered(seq) == [admin |-> NoAddress, decimals |-> 0,
                    live_until |-> SetTTL(Absent, MIN_PERSISTENT_TTL, seq)]

no_balances == [a \in Address |-> NoBalance]
no_allowances == [p \in Address \X Address |-> NoAllowance]

TokenInit ==
  /\ sequence = 0
  /\ auths = {}
  /\ instance = registered(sequence)
  /\ balances = no_balances
  /\ allowances = no_allowances

(* Ledgers close, and expired temporary entries are gone.  Persistent      *)
(* entries that expire are archived until someone restores them, which is  *)
(* outside this module: time only passes while they are live.              *)
LedgerClose(n) ==
  /\ sequence + n <= U32_MAX
  /\ sequence + n <= instance.live_until
  /\ \A a \in Address : ~Expired(balances[a].live_until, sequence + n)
  /\ sequence' = sequence + n
  /\ auths' = {}
  /\ allowances' = [p \in Address \X Address |->
       IF Expired(allowances[p].live_until, sequence + n)
         THEN NoAllowance ELSE allowances[p]]
  /\ UNCHANGED <<instance, balances>>

TokenNext ==
  \/ \E n \in Advances : LedgerClose(n)
  \/ \E admin \in Address, decimal \in Decimals : initialize(admin, decimal)
  \/ allowance
  \/ \E a \in Address : balance(a)
  \/ \E signed \in AuthSets, a \in Address : set_admin(signed, a)
  \/ \E signed \in AuthSets, a \in Address, n \in Amounts :
       \/ mint(signed, a, n)
       \/ burn(signed, a, n)
  \/ \E signed \in AuthSets, a, b \in Address, n \in Amounts :
       \/ transfer(signed, a, b, n)
       \/ burn_from(signed, a, b, n)
       \/ \E e \in Expirations : approve(signed, a, b, n, e)
       \/ \E to \in Address : transfer_from(signed, a, b, to, n)

TokenSpec == TokenInit /\ [][TokenNext]_tokenVars

-----------------------------------------------------------------------------
Balance(addr) == read_balance(balances, addr)
Allowance(pair) == read_allowance(allowances[pair], sequence).amount

TokenTypeOK ==
  /\ sequence \in 0 .. U32_MAX
  /\ auths \in SUBSET Address
  /\ instance \in [admin : Address \cup {NoAddress}, decimals : 0 .. U8_MAX,
                   live_until : Int]
  /\ balances \in [Address -> [amount : 0 .. I128_MAX, live_until : Int]]
  /\ allowances \in [Address \X Address ->
       [amount : 0 .. I128_MAX, expiration_ledger : Nat, live_until : Int]]

(* What an allowance needs from write_allowance: as long as an amount can  *)
(* be read from it, the temporary entry that holds it outlives its         *)
(* expiration ledger.  The two are separate numbers: the entry keeps the   *)
(* lifetime of an earlier approval when it is overwritten, gets the short  *)
(* minimum lifetime when it is new, and extend_ttl prolongs it only below  *)
(* a threshold.                                                            *)
AllowanceEntryOutlivesAllowance ==
  \A p \in Address \X Address :
    allowances[p].amount > 0 =>
      allowances[p].live_until >= allowances[p].expiration_ledger

(* Nobody loses tokens without having signed, unless a spender who signed  *)
(* pays for it with at least that much of the allowance the loser gave     *)
(* (transfer, transfer_from, burn, burn_from with any aliasing of from,    *)
(* to and spender).                                                        *)
DebitsAreAuthorized ==
  [][\A a \in Address : Balance(a)' < Balance(a) =>
       \/ a \in auths'
       \/ \E s \in auths' :
            Allowance(<<a, s>>) - Allowance(<<a, s>>)' >= Balance(a) - Balance(a)'
    ]_tokenVars

(* An allowance grows only by an approval its owner signed: no other call, *)
(* and no passing of time, can revive an allowance that expired, was spent *)
(* or was revoked (approve, spend_allowance and purging of entries).       *)
AllowancesGrowOnlyByOwner ==
  [][\A a, s \in Address : Allowance(<<a, s>>)' > Allowance(<<a, s>>) =>
       a \in auths']_tokenVars

(* The administrator is set once by initialize, and after that changes     *)
(* only with the signature of the one being replaced; nothing unsets it    *)
(* (initialize runs at any time, set_admin by anyone).                     *)
AdminHandsOver ==
  [][instance.admin' # instance.admin =>
       /\ instance.admin' # NoAddress
       /\ instance.admin = NoAddress \/ instance.admin \in auths']_tokenVars

(* What callers can see of balances and allowances.                        *)
SeenBalances == [a \in Address |-> Balance(a)]

SeenGrants ==
  [p \in Address \X Address |->
    IF Allowance(p) = 0 THEN [amount |-> 0, until |-> 0]
    ELSE [amount |-> Allowance(p), until |-> allowances[p].expiration_ledger]]

(* The example token implements the abstract token: whatever the lifetimes *)
(* of its storage entries do, callers see balances and grants that change  *)
(* as the interface promises.                                              *)
Abstract == INSTANCE AbstractToken WITH
  Amount <- 0 .. I128_MAX,
  MaxAmount <- I128_MAX,
  Ledgers <- Expirations,
  ledger <- sequence,
  signers <- auths,
  admin <- instance.admin,
  bal <- SeenBalances,
  grants <- SeenGrants

(* Every behaviour of the contract is one of the abstract token.           *)
ImplementsAbstractToken == Abstract!Spec
=============================================================================
