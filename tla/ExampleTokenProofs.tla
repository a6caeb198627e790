------------------------- MODULE ExampleTokenProofs -------------------------
(***************************************************************************)
(* What holds of the example token for any addresses, amounts, lifetimes   *)
(* and number of calls.                                                    *)
(***************************************************************************)
EXTENDS ExampleToken, TLAPS

Pair == Address \X Address
BalanceEntry == [amount : 0 .. I128_MAX, live_until : Int]
AllowanceEntry ==
  [amount : 0 .. I128_MAX, expiration_ledger : Nat, live_until : Int]

-----------------------------------------------------------------------------
(* Calls that succeed have passed their checks.                            *)

(* initialize: the contract exists, has no administrator, and decimal fits.*)
LEMMA InitializeChecks ==
  ASSUME NEW decimal, initialize_result(decimal) = Ok
  PROVE  /\ instance.live_until # Absent
         /\ instance.admin = NoAddress
         /\ ~(decimal > U8_MAX)
  BY DEF initialize_result, &&, Unless, Ok, contract_found, has_administrator

(* mint: the amount is not negative and fits, the administrator signed.    *)
LEMMA MintChecks ==
  ASSUME NEW signed, NEW to, NEW amount, mint_result(signed, to, amount) = Ok
  PROVE  /\ instance.live_until # Absent
         /\ ~(amount < 0)
         /\ instance.admin # NoAddress
         /\ instance.admin \in signed
         /\ ~(balances[to].amount + amount > I128_MAX)
  BY DEF mint_result, &&, Unless, Ok, contract_found, check_nonnegative_amount,
     read_administrator, has_administrator, require_auth,
     receive_balance_result, read_balance

(* set_admin: there is an administrator, and it signed.                    *)
LEMMA SetAdminChecks ==
  ASSUME NEW signed, set_admin_result(signed) = Ok
  PROVE  /\ instance.live_until # Absent
         /\ instance.admin # NoAddress
         /\ instance.admin \in signed
  BY DEF set_admin_result, &&, Unless, Ok, contract_found,
     read_administrator, has_administrator, require_auth

(* approve: the owner signed, and a positive amount has not expired.       *)
LEMMA ApproveChecks ==
  ASSUME NEW signed, NEW from, NEW amount, NEW expiration_ledger,
         approve_result(signed, from, amount, expiration_ledger) = Ok
  PROVE  /\ instance.live_until # Absent
         /\ from \in signed
         /\ ~(amount < 0)
         /\ ~(amount > 0 /\ expiration_ledger < sequence)
  BY DEF approve_result, &&, Unless, Ok, contract_found, require_auth,
     check_nonnegative_amount, write_allowance_result

(* transfer: the sender signed and can pay, the sum fits.                  *)
LEMMA TransferChecks ==
  ASSUME NEW signed, NEW from, NEW to, NEW amount,
         transfer_result(signed, from, to, amount) = Ok
  PROVE  /\ instance.live_until # Absent
         /\ from \in signed
         /\ ~(amount < 0)
         /\ ~(balances[from].amount < amount)
         /\ ~(spend_balance(balances, from, amount)[to].amount + amount > I128_MAX)
  BY DEF transfer_result, &&, Unless, Ok, contract_found, require_auth,
     check_nonnegative_amount, spend_balance_result, receive_balance_result,
     read_balance

(* burn: the holder signed and can pay.                                    *)
LEMMA BurnChecks ==
  ASSUME NEW signed, NEW from, NEW amount, burn_result(signed, from, amount) = Ok
  PROVE  /\ instance.live_until # Absent
         /\ from \in signed
         /\ ~(amount < 0)
         /\ ~(balances[from].amount < amount)
  BY DEF burn_result, &&, Unless, Ok, contract_found, require_auth,
     check_nonnegative_amount, spend_balance_result, read_balance

(* The allowance is large enough, and what is left of it has not expired.  *)
LEMMA SpendAllowanceChecks ==
  ASSUME NEW pair, NEW amount, spend_allowance_result(pair, amount) = Ok
  PROVE  LET held == read_allowance(allowances[pair], sequence)
         IN  /\ ~(held.amount < amount)
             /\ ~(held.amount - amount > 0 /\ held.expiration_ledger < sequence)
  BY DEF spend_allowance_result, write_allowance_result, &&, Unless, Ok

(* transfer_from: the spender signed; allowance and balance suffice.       *)
LEMMA TransferFromChecks ==
  ASSUME NEW signed, NEW spender, NEW from, NEW to, NEW amount,
         transfer_from_result(signed, spender, from, to, amount) = Ok
  PROVE  /\ instance.live_until # Absent
         /\ spender \in signed
         /\ ~(amount < 0)
         /\ spend_allowance_result(<<from, spender>>, amount) = Ok
         /\ ~(balances[from].amount < amount)
         /\ ~(spend_balance(balances, from, amount)[to].amount + amount > I128_MAX)
  BY DEF transfer_from_result, &&, Unless, Ok, contract_found, require_auth,
     check_nonnegative_amount, spend_balance_result, receive_balance_result,
     read_balance

(* burn_from: the spender signed; allowance and balance suffice.           *)
LEMMA BurnFromChecks ==
  ASSUME NEW signed, NEW spender, NEW from, NEW amount,
         burn_from_result(signed, spender, from, amount) = Ok
  PROVE  /\ instance.live_until # Absent
         /\ spender \in signed
         /\ ~(amount < 0)
         /\ spend_allowance_result(<<from, spender>>, amount) = Ok
         /\ ~(balances[from].amount < amount)
  BY DEF burn_from_result, &&, Unless, Ok, contract_found, require_auth,
     check_nonnegative_amount, spend_balance_result, read_balance

-----------------------------------------------------------------------------
(* What the storage helpers compute.                                       *)

(* write_balance sets the amount of one entry, and gives it a lifetime of  *)
(* at least BALANCE_LIFETIME_THRESHOLD.                                    *)
LEMMA WriteBalance ==
  ASSUME NEW bal \in [Address -> BalanceEntry], NEW addr \in Address,
         NEW amount \in 0 .. I128_MAX, sequence \in Nat
  PROVE  \E u \in Int :
           /\ u >= sequence + BALANCE_LIFETIME_THRESHOLD
           /\ write_balance(bal, addr, amount) =
                [bal EXCEPT ![addr] = [amount |-> amount, live_until |-> u]]
<1> DEFINE kept == SetTTL(bal[addr].live_until, MIN_PERSISTENT_TTL, sequence)
           u == ExtendTTL(kept, BALANCE_LIFETIME_THRESHOLD,
                          BALANCE_BUMP_AMOUNT, sequence)
<1>1. kept \in Int /\ kept # Absent
  BY StorageAssumption DEF SetTTL, Absent, BalanceEntry
<1>2. u \in Int /\ u >= sequence + BALANCE_LIFETIME_THRESHOLD
  <2>1. /\ BALANCE_LIFETIME_THRESHOLD \in Int
        /\ BALANCE_BUMP_AMOUNT \in Int
        /\ BALANCE_LIFETIME_THRESHOLD <= BALANCE_BUMP_AMOUNT
    BY TokenAssumption DEF BALANCE_LIFETIME_THRESHOLD
  <2> QED  BY <1>1, <2>1 DEF ExtendTTL
<1>3. write_balance(bal, addr, amount) =
        [bal EXCEPT ![addr] = [amount |-> amount, live_until |-> u]]
  BY <1>1 DEF write_balance, bump_balance, BalanceEntry
<1> QED  BY <1>2, <1>3

(* write_allowance sets one entry; if it grants something, the entry lives *)
(* through its expiration ledger.                                          *)
LEMMA WriteAllowance ==
  ASSUME allowances \in [Pair -> AllowanceEntry], NEW pair \in Pair,
         NEW amount \in 0 .. I128_MAX, NEW expiration_ledger \in Nat,
         sequence \in Nat, ~(amount > 0 /\ expiration_ledger < sequence)
  PROVE  \E u \in Int :
           /\ amount > 0 => u >= expiration_ledger
           /\ write_allowance(pair, amount, expiration_ledger) =
                [allowances EXCEPT ![pair] =
                   [amount |-> amount, expiration_ledger |-> expiration_ledger,
                    live_until |-> u]]
<1> DEFINE kept == SetTTL(allowances[pair].live_until, MIN_TEMP_TTL, sequence)
           live_for == expiration_ledger - sequence
           u == IF amount > 0 THEN ExtendTTL(kept, live_for, live_for, sequence)
                              ELSE kept
<1>1. kept \in Int
  BY StorageAssumption DEF SetTTL, Absent, AllowanceEntry
<1>2. u \in Int /\ (amount > 0 => u >= expiration_ledger)
  BY <1>1, TokenAssumption DEF ExtendTTL
<1>3. write_allowance(pair, amount, expiration_ledger) =
        [allowances EXCEPT ![pair] =
           [amount |-> amount, expiration_ledger |-> expiration_ledger,
            live_until |-> u]]
  BY DEF write_allowance, AllowanceEntry
<1> QED  BY <1>2, <1>3

(* extend_ttl on the instance changes only its lifetime.                   *)
LEMMA BumpInstanceType ==
  ASSUME instance \in [admin : Address \cup {NoAddress}, decimals : 0 .. U8_MAX,
                       live_until : Int],
         NEW seq \in Nat
  PROVE  bump_instance(seq) \in [admin : Address \cup {NoAddress},
                                 decimals : 0 .. U8_MAX, live_until : Int]
  BY TokenAssumption
  DEF bump_instance, extend_instance, ExtendTTL, INSTANCE_LIFETIME_THRESHOLD

(* What one address pays or gets changes no other address; the lifetime of *)
(* an entry that is written is at least BALANCE_LIFETIME_THRESHOLD.        *)
Prolonged(before, after) ==
  \A a \in Address :
    \/ after[a].live_until = before[a].live_until
    \/ after[a].live_until >= sequence + BALANCE_LIFETIME_THRESHOLD

(* spend_balance takes the amount from one balance only.                   *)
LEMMA SpendBalance ==
  ASSUME NEW bal \in [Address -> BalanceEntry], NEW from \in Address,
         NEW amount \in Nat, amount <= bal[from].amount, sequence \in Nat
  PROVE  /\ spend_balance(bal, from, amount) \in [Address -> BalanceEntry]
         /\ \A a \in Address : spend_balance(bal, from, amount)[a].amount =
              IF a = from THEN bal[a].amount - amount ELSE bal[a].amount
         /\ Prolonged(bal, spend_balance(bal, from, amount))
<1> DEFINE new == bal[from].amount - amount
<1>1. new \in 0 .. I128_MAX
  BY TokenAssumption DEF BalanceEntry
<1>2. spend_balance(bal, from, amount) = write_balance(bal, from, new)
  BY DEF spend_balance, read_balance
<1> HIDE DEF new
<1>3. PICK u \in Int :
        /\ u >= sequence + BALANCE_LIFETIME_THRESHOLD
        /\ write_balance(bal, from, new) =
             [bal EXCEPT ![from] = [amount |-> new, live_until |-> u]]
  BY <1>1, WriteBalance
<1> DEFINE after == spend_balance(bal, from, amount)
<1>4. after \in [Address -> BalanceEntry]
  BY <1>1, <1>2, <1>3 DEF BalanceEntry
<1>5. \A a \in Address : after[a].amount = IF a = from THEN new ELSE bal[a].amount
  BY <1>2, <1>3
<1>6. Prolonged(bal, after)
  BY <1>2, <1>3 DEF Prolonged
<1> QED  BY <1>4, <1>5, <1>6 DEF new

(* receive_balance adds the amount to one balance only.                    *)
LEMMA ReceiveBalance ==
  ASSUME NEW bal \in [Address -> BalanceEntry], NEW to \in Address,
         NEW amount \in Nat, bal[to].amount + amount <= I128_MAX, sequence \in Nat
  PROVE  /\ receive_balance(bal, to, amount) \in [Address -> BalanceEntry]
         /\ \A a \in Address : receive_balance(bal, to, amount)[a].amount =
              IF a = to THEN bal[a].amount + amount ELSE bal[a].amount
         /\ Prolonged(bal, receive_balance(bal, to, amount))
<1> DEFINE new == bal[to].amount + amount
<1>1. new \in 0 .. I128_MAX
  BY TokenAssumption DEF BalanceEntry
<1>2. receive_balance(bal, to, amount) = write_balance(bal, to, new)
  BY DEF receive_balance, read_balance
<1> HIDE DEF new
<1>3. PICK u \in Int :
        /\ u >= sequence + BALANCE_LIFETIME_THRESHOLD
        /\ write_balance(bal, to, new) =
             [bal EXCEPT ![to] = [amount |-> new, live_until |-> u]]
  BY <1>1, WriteBalance
<1> DEFINE after == receive_balance(bal, to, amount)
<1>4. after \in [Address -> BalanceEntry]
  BY <1>1, <1>2, <1>3 DEF BalanceEntry
<1>5. \A a \in Address : after[a].amount = IF a = to THEN new ELSE bal[a].amount
  BY <1>2, <1>3
<1>6. Prolonged(bal, after)
  BY <1>2, <1>3 DEF Prolonged
<1> QED  BY <1>4, <1>5, <1>6 DEF new

(* A transfer: from pays, then to gets, also when they are the same.       *)
LEMMA MoveBalance ==
  ASSUME balances \in [Address -> BalanceEntry], NEW from \in Address,
         NEW to \in Address, NEW amount \in Nat, sequence \in Nat,
         amount <= balances[from].amount,
         ~(spend_balance(balances, from, amount)[to].amount + amount > I128_MAX)
  PROVE  LET new == receive_balance(spend_balance(balances, from, amount), to, amount)
         IN  /\ new \in [Address -> BalanceEntry]
             /\ \A a \in Address : new[a].amount =
                  balances[a].amount - (IF a = from THEN amount ELSE 0)
                                     + (IF a = to THEN amount ELSE 0)
             /\ Prolonged(balances, new)
<1> DEFINE mid == spend_balance(balances, from, amount)
           new == receive_balance(mid, to, amount)
<1>1. /\ mid \in [Address -> BalanceEntry]
      /\ \A a \in Address : mid[a].amount =
            IF a = from THEN balances[a].amount - amount ELSE balances[a].amount
      /\ Prolonged(balances, mid)
  BY SpendBalance
<1>2. mid[to].amount + amount <= I128_MAX
  BY <1>1, TokenAssumption DEF BalanceEntry
<1> HIDE DEF mid
<1>3. /\ new \in [Address -> BalanceEntry]
      /\ \A a \in Address : new[a].amount =
            IF a = to THEN mid[a].amount + amount ELSE mid[a].amount
      /\ Prolonged(mid, new)
  BY <1>1, <1>2, ReceiveBalance
<1> HIDE DEF new
<1>4. \A a \in Address : new[a].amount =
         balances[a].amount - (IF a = from THEN amount ELSE 0)
                            + (IF a = to THEN amount ELSE 0)
  BY <1>1, <1>3 DEF BalanceEntry
<1>5. Prolonged(balances, new)
  BY <1>1, <1>3 DEF Prolonged
<1> QED  BY <1>3, <1>4, <1>5 DEF new, mid

(* spend_allowance takes amount off one allowance, and what is left still  *)
(* lives through its expiration ledger.                                    *)
LEMMA SpendAllowance ==
  ASSUME allowances \in [Pair -> AllowanceEntry], NEW pair \in Pair,
         NEW amount \in Nat, sequence \in Nat,
         spend_allowance_result(pair, amount) = Ok
  PROVE  \E u \in Int :
           /\ Allowance(pair) - amount \in 0 .. I128_MAX
           /\ Allowance(pair) - amount > 0 =>
                /\ u >= allowances[pair].expiration_ledger
                /\ allowances[pair].expiration_ledger >= sequence
           /\ spend_allowance(pair, amount) =
                [allowances EXCEPT ![pair] =
                   [amount |-> Allowance(pair) - amount,
                    expiration_ledger |-> allowances[pair].expiration_ledger,
                    live_until |-> u]]
<1> DEFINE held == read_allowance(allowances[pair], sequence)
           left == held.amount - amount
           e == allowances[pair].expiration_ledger
<1>1. /\ held.amount \in 0 .. I128_MAX
      /\ held.expiration_ledger = e
      /\ e \in Nat
  BY TokenAssumption DEF read_allowance, AllowanceEntry
<1>2. ~(held.amount < amount) /\ ~(left > 0 /\ e < sequence)
  BY <1>1, SpendAllowanceChecks
<1> HIDE DEF held, e
<1>3. left \in 0 .. I128_MAX
  BY <1>1, <1>2, TokenAssumption
<1>4. spend_allowance(pair, amount) = write_allowance(pair, left, e)
  BY <1>1 DEF spend_allowance, held
<1> HIDE DEF left
<1>5. PICK u \in Int :
        /\ left > 0 => u >= e
        /\ write_allowance(pair, left, e) =
             [allowances EXCEPT ![pair] =
                [amount |-> left, expiration_ledger |-> e, live_until |-> u]]
  BY <1>1, <1>2, <1>3, WriteAllowance
<1>6. left > 0 => e >= sequence
  BY <1>1, <1>2, <1>3, TokenAssumption
<1>7. left = Allowance(pair) - amount
  BY DEF left, held, Allowance
<1> QED  BY <1>3, <1>4, <1>5, <1>6, <1>7 DEF e

-----------------------------------------------------------------------------
(* The invariant.  It is inductive as it stands: an allowance entry        *)
(* outlives its allowance because write_allowance, the only writer,        *)
(* establishes it whatever lifetime the entry had before.                  *)

TokenInv == TokenTypeOK /\ AllowanceEntryOutlivesAllowance

(* A well-formed entry that outlives its expiration keeps both facts true. *)
LEMMA AllowanceWritten ==
  ASSUME TokenInv, NEW pair \in Pair, NEW amount \in 0 .. I128_MAX,
         NEW e \in Nat, NEW u \in Int, amount > 0 => u >= e,
         allowances' = [allowances EXCEPT ![pair] =
           [amount |-> amount, expiration_ledger |-> e, live_until |-> u]]
  PROVE  /\ allowances' \in [Pair -> AllowanceEntry]
         /\ AllowanceEntryOutlivesAllowance'
<1>1. allowances \in [Pair -> AllowanceEntry]
  BY DEF TokenInv, TokenTypeOK, Pair, AllowanceEntry
<1>2. allowances' \in [Pair -> AllowanceEntry]
  BY <1>1 DEF AllowanceEntry
<1>3. ASSUME NEW p \in Pair, allowances'[p].amount > 0
      PROVE  allowances'[p].live_until >= allowances'[p].expiration_ledger
  <2>1. CASE p = pair
    <3>1. allowances'[p] = [amount |-> amount, expiration_ledger |-> e,
                            live_until |-> u]
      BY <1>1, <2>1
    <3> QED  BY <1>3, <3>1
  <2>2. CASE p # pair
    <3>1. allowances'[p] = allowances[p]
      BY <1>1, <2>2
    <3> QED  BY <1>3, <3>1 DEF TokenInv, AllowanceEntryOutlivesAllowance, Pair
  <2> QED  BY <2>1, <2>2
<1> QED  BY <1>2, <1>3 DEF AllowanceEntryOutlivesAllowance, Pair

(* Only what a step writes can break the invariant.                        *)
LEMMA TokenInvParts ==
  ASSUME TokenInv,
         sequence' \in 0 .. U32_MAX,
         auths' \in SUBSET Address,
         instance' \in [admin : Address \cup {NoAddress}, decimals : 0 .. U8_MAX,
                        live_until : Int],
         balances' \in [Address -> BalanceEntry],
         \/ UNCHANGED allowances
         \/ allowances' \in [Pair -> AllowanceEntry] /\ AllowanceEntryOutlivesAllowance'
  PROVE  TokenInv'
  BY DEF TokenInv, TokenTypeOK, AllowanceEntryOutlivesAllowance, BalanceEntry,
     AllowanceEntry, Pair

(* A call of approve, transfer_from or burn_from leaves the allowances     *)
(* well formed.                                                            *)
LEMMA ApproveAllowances ==
  ASSUME TokenInv, NEW signed, NEW from \in Address, NEW spender \in Address,
         NEW amount \in I128, NEW e \in Nat, approve(signed, from, spender, amount, e)
  PROVE  /\ allowances' \in [Pair -> AllowanceEntry]
         /\ AllowanceEntryOutlivesAllowance'
<1> DEFINE pair == <<from, spender>>
<1>1. ~(amount < 0) /\ ~(amount > 0 /\ e < sequence)
  BY ApproveChecks DEF approve
<1>2. /\ allowances \in [Pair -> AllowanceEntry]
      /\ sequence \in Nat
      /\ amount \in 0 .. I128_MAX
      /\ pair \in Pair
  BY <1>1, TokenAssumption
  DEF TokenInv, TokenTypeOK, I128, Pair, AllowanceEntry
<1>3. allowances' = write_allowance(pair, amount, e)
  BY DEF approve
<1> HIDE DEF pair
<1>4. PICK u \in Int :
        /\ amount > 0 => u >= e
        /\ write_allowance(pair, amount, e) =
             [allowances EXCEPT ![pair] =
                [amount |-> amount, expiration_ledger |-> e, live_until |-> u]]
  BY <1>1, <1>2, WriteAllowance
<1> QED  BY <1>2, <1>3, <1>4, AllowanceWritten

(* spend_allowance keeps entries well-formed and outliving their amounts.  *)
LEMMA SpentAllowances ==
  ASSUME TokenInv, NEW pair \in Pair, NEW amount \in Nat,
         spend_allowance_result(pair, amount) = Ok,
         allowances' = spend_allowance(pair, amount)
  PROVE  /\ allowances' \in [Pair -> AllowanceEntry]
         /\ AllowanceEntryOutlivesAllowance'
<1> DEFINE left == Allowance(pair) - amount
           e == allowances[pair].expiration_ledger
<1>1. allowances \in [Pair -> AllowanceEntry] /\ sequence \in Nat
  BY TokenAssumption DEF TokenInv, TokenTypeOK, Pair, AllowanceEntry
<1>2. e \in Nat
  BY <1>1 DEF AllowanceEntry
<1>3. PICK u \in Int :
        /\ left \in 0 .. I128_MAX
        /\ left > 0 => u >= e /\ e >= sequence
        /\ spend_allowance(pair, amount) =
             [allowances EXCEPT ![pair] =
                [amount |-> left, expiration_ledger |-> e, live_until |-> u]]
  BY <1>1, SpendAllowance
<1> HIDE DEF left, e
<1> QED  BY <1>2, <1>3, AllowanceWritten

(* The contract as it is registered.                                       *)
LEMMA TokenInitInv == TokenInit => TokenInv
  BY TokenAssumption, StorageAssumption
  DEF TokenInit, TokenInv, TokenTypeOK, AllowanceEntryOutlivesAllowance,
     registered, no_balances, no_allowances, NoBalance, NoAllowance, SetTTL, Absent

(* Every entry point, and the closing of ledgers, keeps the invariant.     *)
LEMMA TokenNextInv ==
  ASSUME TokenInv, [TokenNext]_tokenVars
  PROVE  TokenInv'
<1> DEFINE InstanceType == [admin : Address \cup {NoAddress}, decimals : 0 .. U8_MAX,
                            live_until : Int]
<1>0. /\ sequence \in 0 .. U32_MAX /\ sequence \in Nat
      /\ auths \in SUBSET Address
      /\ instance \in InstanceType
      /\ bump_instance(sequence) \in InstanceType
      /\ balances \in [Address -> BalanceEntry]
      /\ allowances \in [Pair -> AllowanceEntry]
  BY BumpInstanceType, TokenAssumption
  DEF TokenInv, TokenTypeOK, BalanceEntry, AllowanceEntry, Pair
<1>1. ASSUME NEW signed \in AuthSets PROVE signed \in SUBSET Address
  BY TokenAssumption
<1>2. ASSUME NEW n \in Amounts PROVE n \in I128 /\ n \in Int
  BY TokenAssumption DEF I128
<1>3. ASSUME NEW n \in Advances, LedgerClose(n) PROVE TokenInv'
  <2>1. sequence' \in 0 .. U32_MAX
    BY <1>0, <1>3, TokenAssumption DEF LedgerClose
  <2>2. allowances' \in [Pair -> AllowanceEntry]
    BY <1>0, <1>3, TokenAssumption DEF LedgerClose, Pair, AllowanceEntry, NoAllowance, Absent
  <2>3. AllowanceEntryOutlivesAllowance'
    BY <1>0, <1>3 DEF LedgerClose, TokenInv, AllowanceEntryOutlivesAllowance, NoAllowance, Pair
  <2> QED  BY <1>0, <1>3, <2>1, <2>2, <2>3, TokenInvParts DEF LedgerClose
<1>4. ASSUME NEW admin \in Address, NEW decimal \in Decimals, initialize(admin, decimal)
      PROVE  TokenInv'
  <2>1. decimal \in 0 .. U8_MAX
    BY <1>4, InitializeChecks, TokenAssumption DEF initialize
  <2> QED  BY <1>0, <1>4, <2>1, TokenInvParts DEF initialize
<1>5. ASSUME allowance PROVE TokenInv'
  BY <1>0, <1>5, TokenInvParts DEF allowance
<1>6. ASSUME NEW a \in Address, balance(a) PROVE TokenInv'
  <2>1. balances' \in [Address -> BalanceEntry]
    BY <1>0, <1>6, TokenAssumption
    DEF balance, bump_balance, BalanceEntry, ExtendTTL, BALANCE_LIFETIME_THRESHOLD
  <2> QED  BY <1>0, <1>6, <2>1, TokenInvParts DEF balance
<1>7. ASSUME NEW signed \in AuthSets, NEW a \in Address, set_admin(signed, a)
      PROVE  TokenInv'
  BY <1>0, <1>1, <1>7, TokenInvParts DEF set_admin
<1>8. ASSUME NEW signed \in AuthSets, NEW a \in Address, NEW n \in Amounts,
             mint(signed, a, n)
      PROVE  TokenInv'
  <2>1. n \in Nat /\ balances[a].amount + n <= I128_MAX
    BY <1>0, <1>2, <1>8, MintChecks, TokenAssumption DEF mint, BalanceEntry
  <2>2. balances' \in [Address -> BalanceEntry]
    BY <1>0, <1>8, <2>1, ReceiveBalance DEF mint
  <2> QED  BY <1>0, <1>1, <1>8, <2>2, TokenInvParts DEF mint
<1>9. ASSUME NEW signed \in AuthSets, NEW a \in Address, NEW n \in Amounts,
             burn(signed, a, n)
      PROVE  TokenInv'
  <2>1. n \in Nat /\ n <= balances[a].amount
    BY <1>0, <1>2, <1>9, BurnChecks, TokenAssumption DEF burn, BalanceEntry
  <2>2. balances' \in [Address -> BalanceEntry]
    BY <1>0, <1>9, <2>1, SpendBalance DEF burn
  <2> QED  BY <1>0, <1>1, <1>9, <2>2, TokenInvParts DEF burn
<1>10. ASSUME NEW signed \in AuthSets, NEW a \in Address, NEW b \in Address,
              NEW n \in Amounts, transfer(signed, a, b, n)
       PROVE  TokenInv'
  <2>1. n \in Nat /\ n <= balances[a].amount
    BY <1>0, <1>2, <1>10, TransferChecks, TokenAssumption DEF transfer, BalanceEntry
  <2>2. balances' \in [Address -> BalanceEntry]
    BY <1>0, <1>10, <2>1, TransferChecks, MoveBalance DEF transfer
  <2> QED  BY <1>0, <1>1, <1>10, <2>2, TokenInvParts DEF transfer
<1>11. ASSUME NEW signed \in AuthSets, NEW a \in Address, NEW b \in Address,
              NEW n \in Amounts, burn_from(signed, a, b, n)
       PROVE  TokenInv'
  <2>0. /\ ~(n < 0) /\ ~(balances[b].amount < n)
        /\ spend_allowance_result(<<b, a>>, n) = Ok
    BY <1>11, BurnFromChecks, Zenon DEF burn_from
  <2>1. n \in Nat /\ n <= balances[b].amount
    BY <1>0, <1>2, <2>0, TokenAssumption DEF BalanceEntry
  <2>2. balances' \in [Address -> BalanceEntry]
    BY <1>0, <1>11, <2>1, SpendBalance DEF burn_from
  <2> DEFINE pair == <<b, a>>
  <2>3. /\ pair \in Pair
        /\ spend_allowance_result(pair, n) = Ok
        /\ allowances' = spend_allowance(pair, n)
    BY <1>11, <2>0 DEF burn_from, Pair
  <2> HIDE DEF pair
  <2>4. allowances' \in [Pair -> AllowanceEntry] /\ AllowanceEntryOutlivesAllowance'
    BY <2>1, <2>3, SpentAllowances
  <2> QED  BY <1>0, <1>1, <1>11, <2>2, <2>4, TokenInvParts DEF burn_from
<1>12. ASSUME NEW signed \in AuthSets, NEW a \in Address, NEW b \in Address,
              NEW n \in Amounts, NEW e \in Expirations, approve(signed, a, b, n, e)
       PROVE  TokenInv'
  <2>1. n \in I128 /\ e \in Nat
    BY <1>2, TokenAssumption
  <2>2. allowances' \in [Pair -> AllowanceEntry] /\ AllowanceEntryOutlivesAllowance'
    BY <1>12, <2>1, ApproveAllowances
  <2> QED  BY <1>0, <1>1, <1>12, <2>2, TokenInvParts DEF approve
<1>13. ASSUME NEW signed \in AuthSets, NEW a \in Address, NEW b \in Address,
              NEW n \in Amounts, NEW to \in Address,
              transfer_from(signed, a, b, to, n)
       PROVE  TokenInv'
  <2>0. /\ ~(n < 0) /\ ~(balances[b].amount < n)
        /\ spend_allowance_result(<<b, a>>, n) = Ok
        /\ ~(spend_balance(balances, b, n)[to].amount + n > I128_MAX)
    BY <1>13, TransferFromChecks, Zenon DEF transfer_from
  <2>1. n \in Nat /\ n <= balances[b].amount
    BY <1>0, <1>2, <2>0, TokenAssumption DEF BalanceEntry
  <2>2. balances' \in [Address -> BalanceEntry]
    BY <1>0, <1>13, <2>0, <2>1, MoveBalance DEF transfer_from
  <2> DEFINE pair == <<b, a>>
  <2>3. /\ pair \in Pair
        /\ spend_allowance_result(pair, n) = Ok
        /\ allowances' = spend_allowance(pair, n)
    BY <1>13, <2>0 DEF transfer_from, Pair
  <2> HIDE DEF pair
  <2>4. allowances' \in [Pair -> AllowanceEntry] /\ AllowanceEntryOutlivesAllowance'
    BY <2>1, <2>3, SpentAllowances
  <2> QED  BY <1>0, <1>1, <1>13, <2>2, <2>4, TokenInvParts DEF transfer_from
<1>14. CASE UNCHANGED tokenVars
  BY <1>0, <1>14, TokenInvParts DEF tokenVars, storage
<1> QED
  BY <1>3, <1>4, <1>5, <1>6, <1>7, <1>8, <1>9, <1>10, <1>11, <1>12, <1>13, <1>14
  DEF TokenNext

(* Whatever calls are made and whenever, the token's state is well formed: *)
(* in particular no balance and no allowance is ever negative or exceeds   *)
(* an i128.                                                                *)
THEOREM TokenTypeCorrect == TokenSpec => []TokenTypeOK
<1>1. TokenInv => TokenTypeOK
  BY DEF TokenInv
<1> QED  BY <1>1, TokenInitInv, TokenNextInv, PTL DEF TokenSpec

(* No allowance is lost early: the temporary entry write_allowance leaves  *)
(* behind always lives through the expiration ledger it holds.             *)
THEOREM AllowanceEntriesLast == TokenSpec => []AllowanceEntryOutlivesAllowance
<1>1. TokenInv => AllowanceEntryOutlivesAllowance
  BY DEF TokenInv
<1> QED  BY <1>1, TokenInitInv, TokenNextInv, PTL DEF TokenSpec

-----------------------------------------------------------------------------
(* Authorization.  Every step is one of the following, so that each        *)
(* property needs to look at a call only once.                             *)

(* The steps that leave balances and allowances as callers see them: no    *)
(* amount changes, and allowances change at most by expiring.              *)
Idle ==
  /\ \A a \in Address : balances'[a].amount = balances[a].amount
  /\ \A p \in Pair :
       \/ allowances'[p] = allowances[p]
       \/ allowances'[p] = NoAllowance
  /\ sequence' >= sequence

(* An address gets tokens, or the owner signed what happens to its own.    *)
OwnersCall ==
  \E from \in auths' :
    /\ \A a \in Address :
         a = from \/ balances'[a].amount >= balances[a].amount
    /\ \A p \in Pair : p[1] = from \/ allowances'[p] = allowances[p]
    /\ sequence' = sequence

(* A spender signed and pays with the allowance it got from the owner.     *)
SpendersCall ==
  \E from \in Address, spender \in auths', n \in Nat :
    /\ spender \in Address
    /\ \A a \in Address :
         balances'[a].amount >= balances[a].amount - (IF a = from THEN n ELSE 0)
    /\ Allowance(<<from, spender>>)' = Allowance(<<from, spender>>) - n
    /\ \A p \in Pair : p = <<from, spender>> \/ allowances'[p] = allowances[p]
    /\ sequence' = sequence

(* spend_allowance takes exactly the amount, from exactly this allowance.  *)
LEMMA AllowanceSpent ==
  ASSUME TokenInv, NEW pair \in Pair, NEW amount \in Nat,
         spend_allowance_result(pair, amount) = Ok,
         allowances' = spend_allowance(pair, amount),
         sequence' = sequence
  PROVE  /\ Allowance(pair)' = Allowance(pair) - amount
         /\ \A p \in Pair : p = pair \/ allowances'[p] = allowances[p]
<1>1. allowances \in [Pair -> AllowanceEntry] /\ sequence \in Nat
  BY TokenAssumption DEF TokenInv, TokenTypeOK, Pair, AllowanceEntry
<1>2. PICK u \in Int :
        /\ Allowance(pair) - amount \in 0 .. I128_MAX
        /\ Allowance(pair) - amount > 0 =>
             /\ u >= allowances[pair].expiration_ledger
             /\ allowances[pair].expiration_ledger >= sequence
        /\ spend_allowance(pair, amount) =
             [allowances EXCEPT ![pair] =
                [amount |-> Allowance(pair) - amount,
                 expiration_ledger |-> allowances[pair].expiration_ledger,
                 live_until |-> u]]
  BY <1>1, SpendAllowance
<1> DEFINE left == Allowance(pair) - amount
           e == allowances[pair].expiration_ledger
<1>3. /\ allowances'[pair].amount = left
      /\ allowances'[pair].expiration_ledger = e
      /\ \A p \in Pair : p = pair \/ allowances'[p] = allowances[p]
  BY <1>1, <1>2
<1>4. e \in Nat
  BY <1>1 DEF AllowanceEntry
<1>5. /\ left \in 0 .. I128_MAX
      /\ left > 0 => e >= sequence
  BY <1>2
<1> HIDE DEF left, e
<1>6. Allowance(pair)' = left
  BY <1>1, <1>3, <1>4, <1>5, TokenAssumption DEF Allowance, read_allowance
<1> QED  BY <1>3, <1>6 DEF left

(* Every step of the contract and the ledger is of one of the three kinds, *)
(* or a mint, which gives to an address and takes from none.               *)
LEMMA StepKinds ==
  ASSUME TokenInv, TokenNext
  PROVE  \/ Idle
         \/ /\ \A a \in Address : balances'[a].amount >= balances[a].amount
            /\ UNCHANGED <<sequence, allowances>>
         \/ OwnersCall
         \/ SpendersCall
<1> DEFINE Given == /\ \A a \in Address : balances'[a].amount >= balances[a].amount
                    /\ UNCHANGED <<sequence, allowances>>
           Goal == Idle \/ Given \/ OwnersCall \/ SpendersCall
<1>0. /\ sequence \in Nat
      /\ balances \in [Address -> BalanceEntry]
      /\ allowances \in [Pair -> AllowanceEntry]
      /\ \A a \in Address : balances[a].amount \in Int
  BY TokenAssumption
  DEF TokenInv, TokenTypeOK, BalanceEntry, AllowanceEntry, Pair
<1>1. ASSUME NEW signed \in AuthSets PROVE signed \in SUBSET Address
  BY TokenAssumption
<1>2. ASSUME NEW n \in Amounts PROVE n \in Int
  BY TokenAssumption DEF I128
<1>3. ASSUME UNCHANGED <<sequence, balances, allowances>> PROVE Goal
  BY <1>0, <1>3 DEF Idle
<1>4. ASSUME NEW n \in Advances, LedgerClose(n) PROVE Goal
  <2>1. sequence' >= sequence
    BY <1>0, <1>4, TokenAssumption DEF LedgerClose
  <2>2. \A p \in Pair : allowances'[p] = allowances[p] \/ allowances'[p] = NoAllowance
    BY <1>4 DEF LedgerClose, Pair
  <2> QED  BY <1>4, <2>1, <2>2 DEF LedgerClose, Idle
<1>5. ASSUME NEW admin \in Address, NEW decimal \in Decimals, initialize(admin, decimal)
      PROVE  Goal
  BY <1>3, <1>5 DEF initialize
<1>6. ASSUME allowance PROVE Goal
  BY <1>3, <1>6 DEF allowance
<1>7. ASSUME NEW b \in Address, balance(b) PROVE Goal
  <2>1. \A a \in Address : balances'[a].amount = balances[a].amount
    BY <1>0, <1>7 DEF balance, bump_balance, BalanceEntry
  <2> QED  BY <1>0, <1>7, <2>1 DEF balance, Idle
<1>8. ASSUME NEW signed \in AuthSets, NEW a \in Address, set_admin(signed, a)
      PROVE  Goal
  BY <1>3, <1>8 DEF set_admin
<1>9. ASSUME NEW signed \in AuthSets, NEW to \in Address, NEW n \in Amounts,
             mint(signed, to, n)
      PROVE  Goal
  <2>1. n \in Nat /\ balances[to].amount + n <= I128_MAX
    BY <1>0, <1>2, <1>9, MintChecks, TokenAssumption DEF mint, BalanceEntry
  <2>2. \A a \in Address : balances'[a].amount =
          IF a = to THEN balances[a].amount + n ELSE balances[a].amount
    BY <1>0, <1>9, <2>1, ReceiveBalance DEF mint
  <2>3. \A a \in Address : balances'[a].amount >= balances[a].amount
    BY <1>0, <2>1, <2>2
  <2> QED  BY <1>9, <2>3 DEF mint
<1>10. ASSUME NEW signed \in AuthSets, NEW from \in Address, NEW n \in Amounts,
              burn(signed, from, n)
       PROVE  Goal
  <2>1. from \in auths' /\ n \in Nat /\ n <= balances[from].amount
    BY <1>0, <1>2, <1>10, BurnChecks, TokenAssumption DEF burn, BalanceEntry
  <2>2. \A a \in Address : balances'[a].amount =
          IF a = from THEN balances[a].amount - n ELSE balances[a].amount
    BY <1>0, <1>10, <2>1, SpendBalance DEF burn
  <2>3. \A a \in Address : a = from \/ balances'[a].amount >= balances[a].amount
    BY <1>0, <2>2
  <2> QED  BY <1>10, <2>1, <2>3 DEF burn, OwnersCall
<1>11. ASSUME NEW signed \in AuthSets, NEW from \in Address, NEW to \in Address,
              NEW n \in Amounts, transfer(signed, from, to, n)
       PROVE  Goal
  <2>1. from \in auths' /\ n \in Nat /\ n <= balances[from].amount
    BY <1>0, <1>2, <1>11, TransferChecks, TokenAssumption DEF transfer, BalanceEntry
  <2>2. \A a \in Address : balances'[a].amount =
          balances[a].amount - (IF a = from THEN n ELSE 0)
                             + (IF a = to THEN n ELSE 0)
    BY <1>0, <1>11, <2>1, TransferChecks, MoveBalance DEF transfer
  <2>3. \A a \in Address : a = from \/ balances'[a].amount >= balances[a].amount
    BY <1>0, <2>1, <2>2
  <2> QED  BY <1>11, <2>1, <2>3 DEF transfer, OwnersCall
<1>12. ASSUME NEW signed \in AuthSets, NEW from \in Address, NEW spender \in Address,
              NEW n \in Amounts, NEW e \in Expirations,
              approve(signed, from, spender, n, e)
       PROVE  Goal
  <2>1. from \in auths'
    BY <1>12, ApproveChecks DEF approve
  <2>2. \A p \in Pair : p[1] = from \/ allowances'[p] = allowances[p]
    BY <1>0, <1>12 DEF approve, write_allowance, Pair
  <2>3. balances' = balances /\ sequence' = sequence
    BY <1>12 DEF approve
  <2>4. \A a \in Address : balances'[a].amount >= balances[a].amount
    BY <1>0, <2>3
  <2> QED  BY <2>1, <2>2, <2>3, <2>4 DEF OwnersCall
<1>13. ASSUME NEW signed \in AuthSets, NEW spender \in Address, NEW from \in Address,
              NEW n \in Amounts, burn_from(signed, spender, from, n)
       PROVE  Goal
  <2>0. /\ spender \in signed /\ ~(n < 0) /\ ~(balances[from].amount < n)
        /\ spend_allowance_result(<<from, spender>>, n) = Ok
    BY <1>13, BurnFromChecks, Zenon DEF burn_from
  <2>1. n \in Nat /\ n <= balances[from].amount
    BY <1>0, <1>2, <2>0
  <2>2. \A a \in Address : balances'[a].amount =
          IF a = from THEN balances[a].amount - n ELSE balances[a].amount
    BY <1>0, <1>13, <2>1, SpendBalance DEF burn_from
  <2>3. \A a \in Address :
          balances'[a].amount >= balances[a].amount - (IF a = from THEN n ELSE 0)
    BY <1>0, <2>1, <2>2
  <2> DEFINE pair == <<from, spender>>
  <2>4. /\ pair \in Pair
        /\ spend_allowance_result(pair, n) = Ok
        /\ allowances' = spend_allowance(pair, n)
        /\ sequence' = sequence
    BY <1>13, <2>0 DEF burn_from, Pair
  <2> HIDE DEF pair
  <2>5. /\ Allowance(pair)' = Allowance(pair) - n
        /\ \A p \in Pair : p = pair \/ allowances'[p] = allowances[p]
    BY <2>1, <2>4, AllowanceSpent
  <2>6. spender \in auths'
    BY <1>13, <2>0 DEF burn_from
  <2>7. SpendersCall
    BY <2>1, <2>3, <2>4, <2>5, <2>6, Zenon DEF SpendersCall, pair
  <2> QED  BY <2>7
<1>14. ASSUME NEW signed \in AuthSets, NEW spender \in Address, NEW from \in Address,
              NEW n \in Amounts, NEW to \in Address,
              transfer_from(signed, spender, from, to, n)
       PROVE  Goal
  <2>0. /\ spender \in signed /\ ~(n < 0) /\ ~(balances[from].amount < n)
        /\ spend_allowance_result(<<from, spender>>, n) = Ok
        /\ ~(spend_balance(balances, from, n)[to].amount + n > I128_MAX)
    BY <1>14, TransferFromChecks, Zenon DEF transfer_from
  <2>1. n \in Nat /\ n <= balances[from].amount
    BY <1>0, <1>2, <2>0
  <2>2. \A a \in Address : balances'[a].amount =
          balances[a].amount - (IF a = from THEN n ELSE 0)
                             + (IF a = to THEN n ELSE 0)
    BY <1>0, <1>14, <2>0, <2>1, MoveBalance DEF transfer_from
  <2>3. \A a \in Address :
          balances'[a].amount >= balances[a].amount - (IF a = from THEN n ELSE 0)
    BY <1>0, <2>1, <2>2
  <2> DEFINE pair == <<from, spender>>
  <2>4. /\ pair \in Pair
        /\ spend_allowance_result(pair, n) = Ok
        /\ allowances' = spend_allowance(pair, n)
        /\ sequence' = sequence
    BY <1>14, <2>0 DEF transfer_from, Pair
  <2> HIDE DEF pair
  <2>5. /\ Allowance(pair)' = Allowance(pair) - n
        /\ \A p \in Pair : p = pair \/ allowances'[p] = allowances[p]
    BY <2>1, <2>4, AllowanceSpent
  <2>6. spender \in auths'
    BY <1>14, <2>0 DEF transfer_from
  <2>7. SpendersCall
    BY <2>1, <2>3, <2>4, <2>5, <2>6, Zenon DEF SpendersCall, pair
  <2> QED  BY <2>7
<1> HIDE DEF Goal
<1>15. Goal
  BY <1>4, <1>5, <1>6, <1>7, <1>8, <1>9, <1>10, <1>11, <1>12, <1>13, <1>14
  DEF TokenNext
<1> QED  BY <1>15 DEF Goal

(* Any allowance can be read, and reading an expired one gives 0.          *)
LEMMA AllowanceType ==
  ASSUME TokenInv, NEW p \in Pair
  PROVE  Allowance(p) \in Nat
  BY TokenAssumption
  DEF TokenInv, TokenTypeOK, Pair, Allowance, read_allowance

(* Time only takes allowances away.                                        *)
LEMMA AllowancesExpire ==
  ASSUME TokenInv, TokenInv', Idle, NEW p \in Pair
  PROVE  Allowance(p)' <= Allowance(p)
<1>0. /\ sequence \in Nat /\ sequence' \in Nat /\ sequence' >= sequence
      /\ allowances[p].amount \in Nat
      /\ allowances[p].expiration_ledger \in Nat
  BY TokenAssumption DEF TokenInv, TokenTypeOK, Pair, Idle
<1>1. CASE allowances'[p] = NoAllowance
  <2>1. Allowance(p)' = 0
    BY <1>1 DEF Allowance, read_allowance, NoAllowance
  <2> QED  BY <2>1, AllowanceType
<1>2. CASE allowances'[p] = allowances[p]
  <2>1. allowances[p].expiration_ledger < sequence =>
          allowances[p].expiration_ledger < sequence'
    BY <1>0
  <2> QED  BY <1>0, <1>2, <2>1 DEF Allowance, read_allowance
<1> QED  BY <1>1, <1>2 DEF Idle

(* Nobody loses tokens without having signed, except to a spender who      *)
(* signed and pays with the allowance it was given: for any calls, with    *)
(* any aliasing of owner, spender and receiver.                            *)
THEOREM DebitsNeedASignature == TokenSpec => DebitsAreAuthorized
<1> DEFINE Authorized(a) ==
      \/ a \in auths'
      \/ \E s \in auths' :
           Allowance(<<a, s>>) - Allowance(<<a, s>>)' >= Balance(a) - Balance(a)'
<1>1. ASSUME TokenInv, TokenNext, NEW a \in Address, Balance(a)' < Balance(a)
      PROVE  Authorized(a)
  <2>0. balances'[a].amount < balances[a].amount /\ balances[a].amount \in Int
    BY <1>1 DEF Balance, read_balance, TokenInv, TokenTypeOK
  <2>1. TokenInv'
    BY <1>1, TokenNextInv
  <2>2. balances'[a].amount \in Int
    BY <2>1 DEF TokenInv, TokenTypeOK
  <2>3. CASE OwnersCall
    BY <2>0, <2>2, <2>3 DEF OwnersCall
  <2>4. CASE SpendersCall
    <3>1. PICK from \in Address, spender \in auths', n \in Nat :
            /\ spender \in Address
            /\ balances'[a].amount >=
                 balances[a].amount - (IF a = from THEN n ELSE 0)
            /\ Allowance(<<from, spender>>)' = Allowance(<<from, spender>>) - n
      BY <2>4 DEF SpendersCall
    <3>2. a = from /\ balances[a].amount - balances'[a].amount <= n
      BY <2>0, <2>2, <3>1
    <3>3. Allowance(<<a, spender>>) \in Nat
      BY <1>1, <3>1, AllowanceType DEF Pair
    <3>4. Allowance(<<a, spender>>) - Allowance(<<a, spender>>)' = n
      BY <3>1, <3>2, <3>3
    <3> QED  BY <2>0, <2>2, <3>1, <3>2, <3>4 DEF Balance, read_balance
  <2>5. ~Idle
    BY <2>0, <2>2 DEF Idle
  <2>6. ~(\A b \in Address : balances'[b].amount >= balances[b].amount)
    BY <2>0, <2>2
  <2> QED  BY <1>1, <2>3, <2>4, <2>5, <2>6, StepKinds
<1>2. ASSUME TokenInv, [TokenNext]_tokenVars
      PROVE  [\A a \in Address : Balance(a)' < Balance(a) => Authorized(a)]_tokenVars
  BY <1>1, <1>2
<1> QED  BY <1>2, TokenInitInv, TokenNextInv, PTL DEF TokenSpec, DebitsAreAuthorized

(* An allowance never grows unless its owner signed: not by spending, not  *)
(* by the passing of time, not by entries that are purged or prolonged.    *)
THEOREM GrantsNeedTheOwner == TokenSpec => AllowancesGrowOnlyByOwner
<1>1. ASSUME TokenInv, TokenNext, NEW a \in Address, NEW s \in Address,
             Allowance(<<a, s>>)' > Allowance(<<a, s>>)
      PROVE  a \in auths'
  <2> DEFINE p == <<a, s>>
  <2>0. p \in Pair /\ p[1] = a /\ Allowance(p) \in Nat
    BY <1>1, AllowanceType DEF Pair
  <2>1. Allowance(p)' > Allowance(p)
    BY <1>1
  <2>2. TokenInv'
    BY <1>1, TokenNextInv
  <2> HIDE DEF p
  <2>3. ASSUME allowances'[p] = allowances[p], sequence' = sequence PROVE FALSE
    BY <2>0, <2>1, <2>3 DEF Allowance
  <2>4. ASSUME Idle PROVE FALSE
    <3>1. Allowance(p)' <= Allowance(p)
      BY <1>1, <2>0, <2>2, <2>4, AllowancesExpire
    <3>2. allowances'[p] = allowances[p] \/ allowances'[p] = NoAllowance
      BY <2>0, <2>4 DEF Idle
    <3>3. Allowance(p)' \in Int
      BY <2>0, <2>2, <3>2, TokenAssumption
      DEF Allowance, read_allowance, TokenInv, TokenTypeOK, Pair, NoAllowance
    <3> QED  BY <2>0, <2>1, <3>1, <3>3
  <2>5. CASE OwnersCall
    BY <2>0, <2>3, <2>5 DEF OwnersCall
  <2>6. ASSUME SpendersCall PROVE FALSE
    <3>1. PICK from \in Address, spender \in auths', n \in Nat :
            /\ Allowance(<<from, spender>>)' = Allowance(<<from, spender>>) - n
            /\ p = <<from, spender>> \/ allowances'[p] = allowances[p]
            /\ sequence' = sequence
      BY <2>0, <2>6 DEF SpendersCall
    <3>2. CASE p = <<from, spender>>
      BY <2>0, <2>1, <3>1, <3>2
    <3> QED  BY <2>3, <3>1, <3>2
  <2> QED  BY <1>1, <2>3, <2>4, <2>5, <2>6, StepKinds
<1>2. ASSUME TokenInv, [TokenNext]_tokenVars
      PROVE  [\A a, s \in Address : Allowance(<<a, s>>)' > Allowance(<<a, s>>) =>
                a \in auths']_tokenVars
  BY <1>1, <1>2
<1> QED
  BY <1>2, TokenInitInv, TokenNextInv, PTL DEF TokenSpec, AllowancesGrowOnlyByOwner

(* The administrator is replaced only with its own signature, however      *)
(* often and by whomever initialize and set_admin are called.              *)
THEOREM AdminNeedsTheAdmin == TokenSpec => AdminHandsOver
<1>1. ASSUME TokenNext, instance.admin' # instance.admin
      PROVE  /\ instance.admin' # NoAddress
             /\ instance.admin = NoAddress \/ instance.admin \in auths'
  <2>1. ASSUME instance' = bump_instance(sequence) PROVE FALSE
    BY <1>1, <2>1 DEF bump_instance, extend_instance
  <2>2. \A n \in Advances : ~LedgerClose(n)
    BY <1>1 DEF LedgerClose
  <2>3. /\ ~allowance
        /\ \A a \in Address : ~balance(a)
        /\ \A signed \in AuthSets, a \in Address, n \in Amounts :
             ~mint(signed, a, n) /\ ~burn(signed, a, n)
        /\ \A signed \in AuthSets, a, b \in Address, n \in Amounts :
             /\ ~transfer(signed, a, b, n) /\ ~burn_from(signed, a, b, n)
             /\ \A e \in Expirations : ~approve(signed, a, b, n, e)
             /\ \A to \in Address : ~transfer_from(signed, a, b, to, n)
    BY <2>1 DEF allowance, balance, mint, burn, transfer, burn_from, approve,
       transfer_from
  <2>4. CASE \E admin \in Address, decimal \in Decimals : initialize(admin, decimal)
    BY <2>4, InitializeChecks, TokenAssumption DEF initialize
  <2>5. CASE \E signed \in AuthSets, a \in Address : set_admin(signed, a)
    BY <2>5, SetAdminChecks, TokenAssumption DEF set_admin
  <2> QED  BY <1>1, <2>2, <2>3, <2>4, <2>5 DEF TokenNext
<1>2. ASSUME [TokenNext]_tokenVars
      PROVE  [instance.admin' # instance.admin =>
                /\ instance.admin' # NoAddress
                /\ instance.admin = NoAddress \/ instance.admin \in auths']_tokenVars
  BY <1>1, <1>2
<1> QED  BY <1>2, PTL DEF TokenSpec, AdminHandsOver
=============================================================================
