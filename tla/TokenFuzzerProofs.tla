-------------------------- MODULE TokenFuzzerProofs --------------------------
(***************************************************************************)
(* The fuzzer on the example token, for any input: any number of commands  *)
(* and transactions, any amounts and any lengths of time that satisfy the  *)
(* assumptions on the constants.                                           *)
(***************************************************************************)
EXTENDS TokenFuzzer, ExampleTokenProofs

(* The contract is set up once, and its metadata never changes.            *)
SetUp ==
  /\ phase \in {"start", "registered"} => sequence = 0 /\ balances = no_balances
  /\ phase = "registered" => instance = registered(0)
  /\ phase \in {"commands", "advance", "sync", "assert"} =>
       instance.admin = Account0 /\ cs_decimals = instance.decimals

(* The clock is short of the ledger it is heading for.                     *)
Heading == phase = "advance" => sequence < to_ledger /\ to_ledger <= U32_MAX

(* An allowance that the mirror lists is there, unless it is one the token *)
(* may have lost.                                                          *)
Accounted(lost, p) ==
  \/ cs_allowances[p] = Allowance(p)
  \/ p \in lost /\ Allowance(p) = 0

(* MirrorFollowsToken for a token that may lose the allowances of the      *)
(* pairs in lost: until they are synchronised the mirror still lists them. *)
(* Of a token that loses none, MirrorUpTo({}) says MirrorFollowsToken.     *)
MirrorUpTo(lost) ==
  /\ \A a \in Address : cs_balances[a] = Balance(a)
  /\ \A p \in Address \X Address :
       \/ cs_allowances[p] = Allowance(p)
       \/ phase \in {"advance", "sync", "EndOfTime"} /\ Allowance(p) = 0
       \/ phase # "assert" /\ p \in lost /\ Allowance(p) = 0

(* The inductive invariant.  That assert_state finds no difference (part   *)
(* of NoFalseAlarm) needs the mirror to be right, which needs entries to   *)
(* outlive the hops, which needs the bounds on their lifetimes.            *)
FuzzInv(lost) ==
  /\ TypeOK
  /\ AllowanceEntryOutlivesAllowance
  /\ NoFalseAlarm
  /\ MirrorUpTo(lost)
  /\ SupplyIsConserved
  /\ ContractSurvivesHop
  /\ BalancesSurviveTransaction
  /\ SetUp
  /\ Heading

InstanceEntry ==
  [admin : Address \cup {NoAddress}, decimals : 0 .. U8_MAX, live_until : Int]

PendingCommand ==
  [kind : {"transfer_from", "burn_from"}, signed : AuthSets, spender : Address,
   from : Address, to : Address, amount : Amounts]

(* The typing facts, spelled out.                                          *)
LEMMA Types ==
  ASSUME NEW lost, FuzzInv(lost)
  PROVE  /\ TokenInv
         /\ sequence \in 0 .. U32_MAX /\ sequence \in Nat
         /\ auths \in SUBSET Address
         /\ instance \in InstanceEntry
         /\ balances \in [Address -> BalanceEntry]
         /\ allowances \in [Pair -> AllowanceEntry]
         /\ pending \in SUBSET PendingCommand
         /\ to_ledger \in Nat /\ txs \in Nat /\ commands \in Nat
         /\ cs_balances \in [Address -> 0 .. I128_MAX]
         /\ cs_allowances \in [Pair -> 0 .. I128_MAX]
         /\ cs_decimals \in Nat
         /\ sum_of_mints \in Nat /\ sum_of_burns \in Nat
  BY TokenAssumption
  DEF FuzzInv, TypeOK, TokenTypeOK, TokenInv, InstanceEntry, BalanceEntry,
     AllowanceEntry, Pair, PendingCommand

(* A call that is made at all leaves the instance entry with a lifetime    *)
(* that covers the longest hop.                                            *)
LEMMA BumpedInstance ==
  ASSUME instance \in InstanceEntry, NEW seq \in Nat
  PROVE  /\ bump_instance(seq) \in InstanceEntry
         /\ bump_instance(seq).admin = instance.admin
         /\ bump_instance(seq).decimals = instance.decimals
         /\ bump_instance(seq).live_until >= instance.live_until
         /\ bump_instance(seq).live_until >= seq + MAX_LEDGERS_TO_ADVANCE
  BY TokenAssumption, FuzzerAssumption
  DEF bump_instance, extend_instance, ExtendTTL, INSTANCE_LIFETIME_THRESHOLD,
     InstanceEntry

(* The sum of three balances, when they are known one by one.              *)
LEMMA SumFacts ==
  /\ Account0 \in Address /\ Account1 \in Address /\ Account2 \in Address
  /\ \A a \in Address : a = Account0 \/ a = Account1 \/ a = Account2
  BY FuzzerAssumption

-----------------------------------------------------------------------------
(* Judging a call.                                                         *)

(* A call that fails raises no alarm but the one about bare panics.        *)
LEMMA FailureVerdict ==
  ASSUME NEW r, NEW signed, NEW signer, NEW amount, NEW fits, r # Ok
  PROVE  Verdict(r, signed, signer, amount, fits) \in {"commands", "UnexpectedPanic"}
  BY DEF Verdict

(* A call that succeeds as it should raises none.                          *)
LEMMA SuccessVerdict ==
  ASSUME NEW signed, NEW signer, NEW amount, NEW fits,
         ~(amount < 0), signer \in signed, fits
  PROVE  Verdict(Ok, signed, signer, amount, fits) = "commands"
<1>1. Ok \notin BarePanics
  BY FuzzerAssumption DEF Ok, Panics
<1> QED  BY <1>1 DEF Verdict

(* A failed call leaves the token and the mirror as they were.             *)
LEMMA CallFails ==
  ASSUME NEW lost, FuzzInv(lost), phase = "commands",
         NEW signed \in SUBSET Address, NEW r, rejected(signed, r),
         UNCHANGED <<mirror, progress>>,
         pending' \in SUBSET PendingCommand, commands' \in Nat,
         phase' \in {"commands", "UnexpectedPanic"}
  PROVE  FuzzInv(lost)'
<1>1. /\ UNCHANGED <<sequence, instance, balances, allowances>>
      /\ auths' = signed
      /\ UNCHANGED <<cs_balances, cs_allowances, cs_decimals, sum_of_mints, sum_of_burns>>
      /\ UNCHANGED <<to_ledger, txs>>
  BY DEF rejected, storage, mirror, progress
<1>2. TypeOK'
  BY <1>1 DEF FuzzInv, TypeOK, TokenTypeOK, PendingCommand, Running, Finished, Alarms
<1>3. AllowanceEntryOutlivesAllowance'
  BY <1>1 DEF FuzzInv, AllowanceEntryOutlivesAllowance
<1>4. NoFalseAlarm'
  BY DEF NoFalseAlarm, Alarms
<1>5. MirrorUpTo(lost)'
  BY <1>1 DEF FuzzInv, MirrorUpTo, Balance, Allowance, read_balance
<1>6. SupplyIsConserved'
  BY <1>1 DEF FuzzInv, SupplyIsConserved, sum_of_balances, Balance, read_balance
<1>7. ContractSurvivesHop' /\ BalancesSurviveTransaction'
  BY <1>1 DEF FuzzInv, ContractSurvivesHop, BalancesSurviveTransaction
<1>8. SetUp' /\ Heading'
  BY <1>1 DEF FuzzInv, SetUp, Heading
<1> QED  BY <1>2, <1>3, <1>4, <1>5, <1>6, <1>7, <1>8 DEF FuzzInv

(* A call that succeeds and that the mirror follows.                       *)
LEMMA CallSucceeds ==
  ASSUME NEW lost, FuzzInv(lost), phase = "commands",
         auths' \in SUBSET Address,
         UNCHANGED sequence,
         instance' = bump_instance(sequence),
         balances' \in [Address -> BalanceEntry],
         Prolonged(balances, balances'),
         allowances' \in [Pair -> AllowanceEntry],
         AllowanceEntryOutlivesAllowance',
         cs_balances' \in [Address -> 0 .. I128_MAX],
         cs_allowances' \in [Pair -> 0 .. I128_MAX],
         \A a \in Address : cs_balances'[a] = balances'[a].amount,
         \A p \in Pair : Accounted(lost, p)',
         UNCHANGED <<cs_decimals, progress>>,
         sum_of_mints' \in Nat, sum_of_burns' \in Nat,
         SupplyIsConserved',
         pending' \in SUBSET PendingCommand, commands' \in Nat,
         phase' = "commands"
  PROVE  FuzzInv(lost)'
<1>0. /\ sequence \in Nat /\ sequence \in 0 .. U32_MAX /\ instance \in InstanceEntry
      /\ balances \in [Address -> BalanceEntry]
      /\ to_ledger \in Nat /\ txs \in Nat /\ cs_decimals \in Nat
  BY Types
<1>1. TypeOK'
  BY <1>0, BumpedInstance
  DEF TypeOK, TokenTypeOK, PendingCommand, Running, InstanceEntry, BalanceEntry,
     AllowanceEntry, Pair, progress
<1>2. NoFalseAlarm' /\ Heading'
  BY DEF NoFalseAlarm, Alarms, Heading
<1>3. MirrorUpTo(lost)'
  BY DEF MirrorUpTo, Accounted, Balance, read_balance, Pair
<1>4. ContractSurvivesHop'
  BY <1>0, BumpedInstance DEF ContractSurvivesHop
<1>5. BalancesSurviveTransaction'
  <2> SUFFICES ASSUME NEW a \in Address, balances'[a].live_until # Absent
               PROVE  balances'[a].live_until >= sequence + DAY_IN_LEDGERS
    BY DEF BalancesSurviveTransaction
  <2>1. CASE balances'[a].live_until = balances[a].live_until
    BY <2>1 DEF FuzzInv, BalancesSurviveTransaction
  <2>2. CASE balances'[a].live_until >= sequence + BALANCE_LIFETIME_THRESHOLD
    BY <1>0, <2>2, TokenAssumption, FuzzerAssumption DEF BalanceEntry
  <2> QED  BY <2>1, <2>2 DEF Prolonged
<1>6. SetUp'
  BY <1>0, BumpedInstance DEF FuzzInv, SetUp
<1> QED  BY <1>1, <1>2, <1>3, <1>4, <1>5, <1>6 DEF FuzzInv

-----------------------------------------------------------------------------
(* The six calls.                                                          *)

(* Between calls the mirror agrees with the token but for what it lost.    *)
LEMMA Synced ==
  ASSUME NEW lost, FuzzInv(lost), phase = "commands"
  PROVE  /\ \A a \in Address : cs_balances[a] = balances[a].amount
         /\ \A p \in Pair : Accounted(lost, p)
         /\ instance.admin = Account0
         /\ sum_of_mints - sum_of_burns = balances[Account0].amount
              + balances[Account1].amount + balances[Account2].amount
  BY DEF FuzzInv, MirrorUpTo, Accounted, SetUp, SupplyIsConserved,
     sum_of_balances, Balance, read_balance, Pair

(* What the input generator can produce.                                   *)
LEMMA InputTypes ==
  /\ \A signed \in AuthSets : signed \in SUBSET Address
  /\ \A n \in Amounts : n \in Int /\ n \in I128
  /\ \A e \in Expirations : e \in Nat
  BY TokenAssumption DEF I128

(* Allowances that are not written read the same.                          *)
LEMMA AllowancesKept ==
  ASSUME NEW lost, FuzzInv(lost), UNCHANGED <<sequence, allowances>>
  PROVE  /\ allowances' \in [Pair -> AllowanceEntry]
         /\ AllowanceEntryOutlivesAllowance'
         /\ \A p \in Pair : Allowance(p)' = Allowance(p)
  BY Types DEF FuzzInv, AllowanceEntryOutlivesAllowance, Allowance

(* One allowance is written, with an amount that can be read back.         *)
LEMMA AllowanceReadBack ==
  ASSUME NEW lost, FuzzInv(lost), NEW pair \in Pair, NEW amount \in 0 .. I128_MAX,
         NEW e \in Nat, NEW u \in Int, amount > 0 => e >= sequence,
         UNCHANGED sequence,
         allowances' = [allowances EXCEPT ![pair] =
           [amount |-> amount, expiration_ledger |-> e, live_until |-> u]]
  PROVE  \A p \in Pair : Allowance(p)' = IF p = pair THEN amount ELSE Allowance(p)
<1>1. allowances \in [Pair -> AllowanceEntry] /\ sequence \in Nat
  BY Types
<1> SUFFICES ASSUME NEW p \in Pair
             PROVE  Allowance(p)' = IF p = pair THEN amount ELSE Allowance(p)
  OBVIOUS
<1>2. CASE p = pair
  <2>1. allowances'[p] = [amount |-> amount, expiration_ledger |-> e,
                          live_until |-> u]
    BY <1>1, <1>2
  <2>2. Allowance(p)' = IF e < sequence THEN 0 ELSE amount
    BY <2>1 DEF Allowance, read_allowance
  <2> QED  BY <1>1, <1>2, <2>2, TokenAssumption
<1>3. CASE p # pair
  <2>1. allowances'[p] = allowances[p]
    BY <1>1, <1>3
  <2> QED  BY <1>3, <2>1 DEF Allowance
<1> QED  BY <1>2, <1>3

(* Command::Mint keeps the invariant, whatever the call returns.           *)
LEMMA ExecMintInv ==
  ASSUME NEW lost, FuzzInv(lost), phase = "commands", NEW signed \in AuthSets, NEW to \in Address,
         NEW n \in Amounts, ExecMint(signed, to, n), UNCHANGED progress,
         pending' \in SUBSET PendingCommand, commands' \in Nat
  PROVE  FuzzInv(lost)'
<1> DEFINE r == mint_result(signed, to, n)
<1>0. /\ signed \in SUBSET Address /\ n \in Int
      /\ sequence \in Nat /\ instance \in InstanceEntry
      /\ balances \in [Address -> BalanceEntry]
      /\ cs_balances \in [Address -> 0 .. I128_MAX]
      /\ cs_allowances \in [Pair -> 0 .. I128_MAX]
      /\ sum_of_mints \in Nat /\ sum_of_burns \in Nat
  BY Types, InputTypes
<1>1. CASE rejected(signed, r) /\ UNCHANGED mirror
  <2>1. phase' \in {"commands", "UnexpectedPanic"}
    BY <1>1, FailureVerdict DEF ExecMint, rejected
  <2> QED  BY <1>0, <1>1, <2>1, CallFails
<1>2. CASE /\ mint(signed, to, n)
           /\ cs_balances' = add_balance(cs_balances, to, n)
           /\ sum_of_mints' = sum_of_mints + n
           /\ UNCHANGED <<cs_allowances, cs_decimals, sum_of_burns>>
  <2>1. /\ ~(n < 0) /\ instance.admin \in signed
        /\ ~(balances[to].amount + n > I128_MAX)
    BY <1>2, MintChecks DEF mint
  <2>2. n \in Nat /\ balances[to].amount + n <= I128_MAX
    BY <1>0, <2>1, TokenAssumption DEF BalanceEntry
  <2>3. /\ balances' \in [Address -> BalanceEntry]
        /\ \A a \in Address : balances'[a].amount =
             IF a = to THEN balances[a].amount + n ELSE balances[a].amount
        /\ Prolonged(balances, balances')
    BY <1>0, <1>2, <2>2, ReceiveBalance DEF mint
  <2>4. InRange(cs_balances[to] + n)
    BY <1>0, <2>2, Synced DEF InRange
  <2>5. phase' = "commands"
    BY <1>2, <2>1, <2>4, Synced, SuccessVerdict DEF ExecMint, mint
  <2>6. /\ cs_balances' \in [Address -> 0 .. I128_MAX]
        /\ \A a \in Address : cs_balances'[a] = balances'[a].amount
    BY <1>0, <1>2, <2>2, <2>3, <2>4, Synced DEF add_balance, InRange
  <2>7. SupplyIsConserved'
    BY <1>0, <1>2, <2>2, <2>3, Synced, SumFacts, FuzzerAssumption
    DEF SupplyIsConserved, sum_of_balances, Balance, read_balance, BalanceEntry
  <2>8. sum_of_mints' \in Nat /\ sum_of_burns' \in Nat
    BY <1>0, <1>2, <2>2
  <2>9. /\ UNCHANGED <<sequence, allowances>>
        /\ auths' \in SUBSET Address
        /\ instance' = bump_instance(sequence)
    BY <1>0, <1>2 DEF mint
  <2>10. /\ allowances' \in [Pair -> AllowanceEntry]
         /\ AllowanceEntryOutlivesAllowance'
         /\ \A p \in Pair : Accounted(lost, p)'
         /\ cs_allowances' \in [Pair -> 0 .. I128_MAX]
    BY <1>0, <1>2, <2>9, AllowancesKept, Synced DEF Accounted
  <2> QED
    BY <1>2, <2>3, <2>5, <2>6, <2>7, <2>8, <2>9, <2>10, CallSucceeds
<1> QED  BY <1>1, <1>2 DEF ExecMint

(* The mirror takes off the allowance what the token takes off.            *)
LEMMA SpentAllowanceFollowed ==
  ASSUME NEW lost, FuzzInv(lost), phase = "commands", NEW pair \in Pair, NEW n \in Nat,
         spend_allowance_result(pair, n) = Ok, UNCHANGED sequence,
         allowances' = spend_allowance(pair, n),
         cs_allowances' = sub_allowance(cs_allowances, pair, n)
  PROVE  /\ allowances' \in [Pair -> AllowanceEntry]
         /\ AllowanceEntryOutlivesAllowance'
         /\ \A p \in Pair : Accounted(lost, p)'
         /\ cs_allowances' \in [Pair -> 0 .. I128_MAX]
<1> DEFINE left == Allowance(pair) - n
           e == allowances[pair].expiration_ledger
<1>0. /\ sequence \in Nat /\ allowances \in [Pair -> AllowanceEntry] /\ TokenInv
      /\ cs_allowances \in [Pair -> 0 .. I128_MAX]
  BY Types
<1>1. allowances' \in [Pair -> AllowanceEntry] /\ AllowanceEntryOutlivesAllowance'
  BY <1>0, SpentAllowances
<1>2. e \in Nat
  BY <1>0 DEF AllowanceEntry
<1>3. PICK u \in Int :
        /\ left \in 0 .. I128_MAX
        /\ left > 0 => u >= e /\ e >= sequence
        /\ spend_allowance(pair, n) =
             [allowances EXCEPT ![pair] =
                [amount |-> left, expiration_ledger |-> e, live_until |-> u]]
  BY <1>0, SpendAllowance
<1>4. \/ cs_allowances[pair] - n = left
      \/ pair \in lost /\ n = 0 /\ left = 0
  BY <1>3, Synced, TokenAssumption DEF Accounted
<1> HIDE DEF left, e
<1>5. \A p \in Pair : Allowance(p)' = IF p = pair THEN left ELSE Allowance(p)
  BY <1>2, <1>3, AllowanceReadBack
<1>6. cs_allowances' = [cs_allowances EXCEPT ![pair] = @ - n]
  BY DEF sub_allowance
<1>7. cs_allowances' \in [Pair -> 0 .. I128_MAX]
  BY <1>0, <1>3, <1>4, <1>6
<1>8. ASSUME NEW p \in Pair
      PROVE  Accounted(lost, p)'
  <2>1. CASE p = pair
    BY <1>0, <1>4, <1>5, <1>6, <2>1 DEF Accounted
  <2>2. CASE p # pair
    BY <1>0, <1>5, <1>6, <2>2, Synced DEF Accounted
  <2> QED  BY <2>1, <2>2
<1> QED  BY <1>1, <1>7, <1>8

(* Command::Approve keeps the invariant, whatever the call returns.        *)
LEMMA ExecApproveInv ==
  ASSUME NEW lost, FuzzInv(lost), phase = "commands", NEW signed \in AuthSets,
         NEW from \in Address, NEW spender \in Address,
         NEW n \in Amounts, NEW e \in Expirations,
         ExecApprove(signed, from, spender, n, e), UNCHANGED progress,
         pending' \in SUBSET PendingCommand, commands' \in Nat
  PROVE  FuzzInv(lost)'
<1> DEFINE r == approve_result(signed, from, n, e)
           pair == <<from, spender>>
<1>0. /\ signed \in SUBSET Address /\ n \in Int
      /\ sequence \in Nat /\ instance \in InstanceEntry
      /\ balances \in [Address -> BalanceEntry]
      /\ allowances \in [Pair -> AllowanceEntry]
      /\ cs_balances \in [Address -> 0 .. I128_MAX]
      /\ cs_allowances \in [Pair -> 0 .. I128_MAX]
      /\ sum_of_mints \in Nat /\ sum_of_burns \in Nat
      /\ TokenInv
  BY Types, InputTypes
<1>1. CASE rejected(signed, r) /\ UNCHANGED mirror
  <2>1. phase' \in {"commands", "UnexpectedPanic"}
    BY <1>1, FailureVerdict DEF ExecApprove, rejected
  <2> QED  BY <1>0, <1>1, <2>1, CallFails
<1>2. CASE /\ approve(signed, from, spender, n, e)
           /\ cs_allowances' = set_allowance(cs_allowances, pair, n)
           /\ UNCHANGED <<cs_balances, cs_decimals, sum_of_mints, sum_of_burns>>
  <2>1. /\ ~(n < 0) /\ from \in signed
        /\ ~(n > 0 /\ e < sequence)
    BY <1>2, ApproveChecks DEF approve
  <2>2. n \in I128 /\ n \in 0 .. I128_MAX /\ e \in Nat /\ pair \in Pair
    BY <1>0, <2>1, InputTypes, TokenAssumption DEF I128, Pair
  <2>3. InRange(n)
    BY <2>2 DEF InRange
  <2>4. phase' = "commands"
    BY <1>2, <2>1, <2>3, SuccessVerdict DEF ExecApprove, approve
  <2>5. allowances' \in [Pair -> AllowanceEntry] /\ AllowanceEntryOutlivesAllowance'
    BY <1>0, <1>2, <2>2, ApproveAllowances
  <2>6. /\ UNCHANGED <<sequence, balances>>
        /\ auths' \in SUBSET Address
        /\ instance' = bump_instance(sequence)
        /\ allowances' = write_allowance(pair, n, e)
        /\ cs_allowances' = [cs_allowances EXCEPT ![pair] = n]
    BY <1>0, <1>2 DEF approve, set_allowance
  <2> HIDE DEF pair
  <2>7. PICK u \in Int :
          /\ n > 0 => u >= e
          /\ write_allowance(pair, n, e) =
               [allowances EXCEPT ![pair] =
                  [amount |-> n, expiration_ledger |-> e, live_until |-> u]]
    BY <1>0, <2>1, <2>2, WriteAllowance
  <2>8. \A p \in Pair : Allowance(p)' = IF p = pair THEN n ELSE Allowance(p)
    <3>1. n > 0 => e >= sequence
      BY <1>0, <2>1, <2>2
    <3> QED  BY <2>2, <2>6, <2>7, <3>1, AllowanceReadBack
  <2>9. /\ cs_allowances' \in [Pair -> 0 .. I128_MAX]
        /\ \A p \in Pair : Accounted(lost, p)'
    BY <1>0, <2>2, <2>6, <2>8, Synced DEF Accounted
  <2>10. /\ balances' \in [Address -> BalanceEntry]
         /\ Prolonged(balances, balances')
         /\ cs_balances' \in [Address -> 0 .. I128_MAX]
         /\ \A a \in Address : cs_balances'[a] = balances'[a].amount
         /\ sum_of_mints' \in Nat /\ sum_of_burns' \in Nat
    BY <1>0, <1>2, <2>6, Synced DEF Prolonged
  <2>11. SupplyIsConserved'
    BY <1>2, <2>6, Synced DEF SupplyIsConserved, sum_of_balances, Balance, read_balance
  <2> QED
    BY <1>2, <2>4, <2>5, <2>6, <2>9, <2>10, <2>11, CallSucceeds
<1> QED  BY <1>1, <1>2 DEF ExecApprove

(* What the mirror of a transfer holds, also for one account twice.        *)
LEMMA MovedMirror ==
  ASSUME cs_balances \in [Address -> 0 .. I128_MAX], NEW from \in Address,
         NEW to \in Address, NEW n \in Nat
  PROVE  /\ moved(from, to, n) \in [Address -> Int]
         /\ \A a \in Address : moved(from, to, n)[a] =
              cs_balances[a] - (IF a = from THEN n ELSE 0)
                             + (IF a = to THEN n ELSE 0)
<1> DEFINE mid == sub_balance(cs_balances, from, n)
<1>1. mid \in [Address -> Int]
  BY TokenAssumption DEF sub_balance
<1>2. \A a \in Address : mid[a] = IF a = from THEN cs_balances[a] - n ELSE cs_balances[a]
  BY DEF sub_balance
<1>3. moved(from, to, n) = [mid EXCEPT ![to] = @ + n]
  BY DEF moved, add_balance
<1> HIDE DEF mid
<1>4. moved(from, to, n) \in [Address -> Int]
  BY <1>1, <1>3
<1>5. \A a \in Address : moved(from, to, n)[a] = IF a = to THEN mid[a] + n ELSE mid[a]
  BY <1>1, <1>3
<1>6. \A a \in Address : cs_balances[a] \in Int
  BY TokenAssumption
<1>7. \A a \in Address : moved(from, to, n)[a] =
        cs_balances[a] - (IF a = from THEN n ELSE 0) + (IF a = to THEN n ELSE 0)
  BY <1>2, <1>5, <1>6
<1> QED  BY <1>4, <1>7

(* If the token moves an amount, the mirror can follow, and does.          *)
LEMMA MirrorMoves ==
  ASSUME NEW lost, FuzzInv(lost), phase = "commands", NEW from \in Address, NEW to \in Address,
         NEW n \in Nat, n <= balances[from].amount,
         balances' \in [Address -> BalanceEntry],
         \A a \in Address : balances'[a].amount =
           balances[a].amount - (IF a = from THEN n ELSE 0)
                              + (IF a = to THEN n ELSE 0)
  PROVE  /\ moved(from, to, n) \in [Address -> 0 .. I128_MAX]
         /\ \A a \in Address : moved(from, to, n)[a] = balances'[a].amount
         /\ moved_in_range(from, to, n)
<1>0. /\ cs_balances \in [Address -> 0 .. I128_MAX]
      /\ \A a \in Address : cs_balances[a] = balances[a].amount
  BY Types, Synced
<1>1. /\ moved(from, to, n) \in [Address -> Int]
      /\ \A a \in Address : moved(from, to, n)[a] =
           cs_balances[a] - (IF a = from THEN n ELSE 0) + (IF a = to THEN n ELSE 0)
  BY <1>0, MovedMirror
<1>2. \A a \in Address : moved(from, to, n)[a] = balances'[a].amount
  BY <1>0, <1>1
<1>3. \A a \in Address : balances'[a].amount \in 0 .. I128_MAX
  BY DEF BalanceEntry
<1>4. moved(from, to, n) \in [Address -> 0 .. I128_MAX]
  BY <1>1, <1>2, <1>3
<1>5. cs_balances[from] - n \in 0 .. I128_MAX
  BY <1>0, TokenAssumption
<1>6. moved(from, to, n)[to] \in 0 .. I128_MAX
  BY <1>4
<1> QED  BY <1>2, <1>4, <1>5, <1>6 DEF moved_in_range, InRange

(* Command::Transfer keeps the invariant, whatever the call returns.       *)
LEMMA ExecTransferInv ==
  ASSUME NEW lost, FuzzInv(lost), phase = "commands", NEW signed \in AuthSets,
         NEW from \in Address, NEW to \in Address,
         NEW n \in Amounts, ExecTransfer(signed, from, to, n), UNCHANGED progress,
         pending' \in SUBSET PendingCommand, commands' \in Nat
  PROVE  FuzzInv(lost)'
<1> DEFINE r == transfer_result(signed, from, to, n)
<1>0. /\ signed \in SUBSET Address /\ n \in Int
      /\ sequence \in Nat /\ instance \in InstanceEntry
      /\ balances \in [Address -> BalanceEntry]
      /\ allowances \in [Pair -> AllowanceEntry]
      /\ cs_balances \in [Address -> 0 .. I128_MAX]
      /\ cs_allowances \in [Pair -> 0 .. I128_MAX]
      /\ sum_of_mints \in Nat /\ sum_of_burns \in Nat
      /\ TokenInv
  BY Types, InputTypes
<1>1. CASE rejected(signed, r) /\ UNCHANGED mirror
  <2>1. phase' \in {"commands", "UnexpectedPanic"}
    BY <1>1, FailureVerdict DEF ExecTransfer, rejected
  <2> QED  BY <1>0, <1>1, <2>1, CallFails
<1>2. CASE /\ transfer(signed, from, to, n)
           /\ cs_balances' = moved(from, to, n)
           /\ UNCHANGED <<cs_allowances, cs_decimals, sum_of_mints, sum_of_burns>>
  <2>1. /\ ~(n < 0) /\ from \in signed
        /\ ~(balances[from].amount < n)
        /\ ~(spend_balance(balances, from, n)[to].amount + n > I128_MAX)
    BY <1>2, TransferChecks, Zenon DEF transfer
  <2>2. n \in Nat /\ n <= balances[from].amount
    BY <1>0, <2>1, TokenAssumption DEF BalanceEntry
  <2>3. /\ balances' \in [Address -> BalanceEntry]
        /\ \A a \in Address : balances'[a].amount =
             balances[a].amount - (IF a = from THEN n ELSE 0)
                                + (IF a = to THEN n ELSE 0)
        /\ Prolonged(balances, balances')
    BY <1>0, <1>2, <2>1, <2>2, MoveBalance DEF transfer
  <2>4. /\ moved(from, to, n) \in [Address -> 0 .. I128_MAX]
        /\ \A a \in Address : moved(from, to, n)[a] = balances'[a].amount
        /\ moved_in_range(from, to, n)
    BY <2>2, <2>3, MirrorMoves
  <2>6. phase' = "commands"
    BY <1>2, <2>1, <2>4, SuccessVerdict DEF ExecTransfer, transfer
  <2>7. SupplyIsConserved'
    BY <1>0, <1>2, <2>2, <2>3, Synced, SumFacts, FuzzerAssumption
    DEF SupplyIsConserved, sum_of_balances, Balance, read_balance, BalanceEntry
  <2>8. sum_of_mints' \in Nat /\ sum_of_burns' \in Nat
    BY <1>0, <1>2
  <2>9. /\ UNCHANGED <<sequence, allowances>>
        /\ auths' \in SUBSET Address
        /\ instance' = bump_instance(sequence)
        /\ UNCHANGED cs_decimals
    BY <1>0, <1>2 DEF transfer
  <2>10. /\ allowances' \in [Pair -> AllowanceEntry]
         /\ AllowanceEntryOutlivesAllowance'
         /\ \A p \in Pair : Accounted(lost, p)'
         /\ cs_allowances' \in [Pair -> 0 .. I128_MAX]
    BY <1>0, <1>2, <2>9, AllowancesKept, Synced DEF Accounted
  <2> QED
    BY <1>2, <2>3, <2>4, <2>6, <2>7, <2>8, <2>9, <2>10, CallSucceeds
<1> QED  BY <1>1, <1>2 DEF ExecTransfer

(* Command::TransferFrom keeps the invariant, whatever the call returns.   *)
LEMMA ExecTransferFromInv ==
  ASSUME NEW lost, FuzzInv(lost), phase = "commands", NEW signed \in AuthSets,
         NEW spender \in Address, NEW from \in Address, NEW to \in Address,
         NEW n \in Amounts, ExecTransferFrom(signed, spender, from, to, n), UNCHANGED progress,
         pending' \in SUBSET PendingCommand, commands' \in Nat
  PROVE  FuzzInv(lost)'
<1> DEFINE r == transfer_from_result(signed, spender, from, to, n)
<1>0. /\ signed \in SUBSET Address /\ n \in Int
      /\ sequence \in Nat /\ instance \in InstanceEntry
      /\ balances \in [Address -> BalanceEntry]
      /\ allowances \in [Pair -> AllowanceEntry]
      /\ cs_balances \in [Address -> 0 .. I128_MAX]
      /\ cs_allowances \in [Pair -> 0 .. I128_MAX]
      /\ sum_of_mints \in Nat /\ sum_of_burns \in Nat
      /\ TokenInv
  BY Types, InputTypes
<1>1. CASE rejected(signed, r) /\ UNCHANGED mirror
  <2>1. phase' \in {"commands", "UnexpectedPanic"}
    BY <1>1, FailureVerdict DEF ExecTransferFrom, rejected
  <2> QED  BY <1>0, <1>1, <2>1, CallFails
<1>2. CASE /\ transfer_from(signed, spender, from, to, n)
           /\ cs_balances' = moved(from, to, n)
           /\ cs_allowances' = sub_allowance(cs_allowances, <<from, spender>>, n)
           /\ UNCHANGED <<cs_decimals, sum_of_mints, sum_of_burns>>
  <2>1. /\ ~(n < 0) /\ spender \in signed
        /\ ~(balances[from].amount < n)
        /\ ~(spend_balance(balances, from, n)[to].amount + n > I128_MAX)
        /\ spend_allowance_result(<<from, spender>>, n) = Ok
    BY <1>2, TransferFromChecks, Zenon DEF transfer_from
  <2>2. n \in Nat /\ n <= balances[from].amount
    BY <1>0, <2>1, TokenAssumption DEF BalanceEntry
  <2>3. /\ balances' \in [Address -> BalanceEntry]
        /\ \A a \in Address : balances'[a].amount =
             balances[a].amount - (IF a = from THEN n ELSE 0)
                                + (IF a = to THEN n ELSE 0)
        /\ Prolonged(balances, balances')
    BY <1>0, <1>2, <2>1, <2>2, MoveBalance DEF transfer_from
  <2>4. /\ moved(from, to, n) \in [Address -> 0 .. I128_MAX]
        /\ \A a \in Address : moved(from, to, n)[a] = balances'[a].amount
        /\ moved_in_range(from, to, n)
    BY <2>2, <2>3, MirrorMoves
  <2> DEFINE pair == <<from, spender>>
  <2>pair. /\ pair \in Pair
         /\ spend_allowance_result(pair, n) = Ok
         /\ allowances' = spend_allowance(pair, n)
         /\ cs_allowances' = sub_allowance(cs_allowances, pair, n)
    BY <1>2, <2>1 DEF transfer_from, Pair
  <2>fits. InRange(cs_allowances[pair] - n)
    <3> HIDE DEF pair
    <3>1. Allowance(pair) - n \in 0 .. I128_MAX
      BY <1>0, <2>pair, <2>2, SpendAllowance
    <3>2. \/ cs_allowances[pair] - n = Allowance(pair) - n
          \/ n = 0
      BY <2>pair, <2>2, <3>1, Synced, TokenAssumption DEF Accounted
    <3> QED  BY <1>0, <2>pair, <3>1, <3>2 DEF InRange
  <2>6. phase' = "commands"
    BY <1>2, <2>1, <2>4, <2>fits, SuccessVerdict DEF ExecTransferFrom, transfer_from
  <2> HIDE DEF pair
  <2>7. SupplyIsConserved'
    BY <1>0, <1>2, <2>2, <2>3, Synced, SumFacts, FuzzerAssumption
    DEF SupplyIsConserved, sum_of_balances, Balance, read_balance, BalanceEntry
  <2>8. sum_of_mints' \in Nat /\ sum_of_burns' \in Nat
    BY <1>0, <1>2
  <2>9. /\ UNCHANGED sequence
        /\ auths' \in SUBSET Address
        /\ instance' = bump_instance(sequence)
        /\ UNCHANGED cs_decimals
    BY <1>0, <1>2 DEF transfer_from
  <2>10. /\ allowances' \in [Pair -> AllowanceEntry]
         /\ AllowanceEntryOutlivesAllowance'
         /\ \A p \in Pair : Accounted(lost, p)'
         /\ cs_allowances' \in [Pair -> 0 .. I128_MAX]
    BY <1>0, <2>pair, <2>2, <2>9, SpentAllowanceFollowed
  <2> QED
    BY <1>2, <2>3, <2>4, <2>6, <2>7, <2>8, <2>9, <2>10, CallSucceeds
<1> QED  BY <1>1, <1>2 DEF ExecTransferFrom

(* Command::Burn keeps the invariant, whatever the call returns.           *)
LEMMA ExecBurnInv ==
  ASSUME NEW lost, FuzzInv(lost), phase = "commands", NEW signed \in AuthSets,
         NEW from \in Address,
         NEW n \in Amounts, ExecBurn(signed, from, n), UNCHANGED progress,
         pending' \in SUBSET PendingCommand, commands' \in Nat
  PROVE  FuzzInv(lost)'
<1> DEFINE r == burn_result(signed, from, n)
<1>0. /\ signed \in SUBSET Address /\ n \in Int
      /\ sequence \in Nat /\ instance \in InstanceEntry
      /\ balances \in [Address -> BalanceEntry]
      /\ allowances \in [Pair -> AllowanceEntry]
      /\ cs_balances \in [Address -> 0 .. I128_MAX]
      /\ cs_allowances \in [Pair -> 0 .. I128_MAX]
      /\ sum_of_mints \in Nat /\ sum_of_burns \in Nat
      /\ TokenInv
  BY Types, InputTypes
<1>1. CASE rejected(signed, r) /\ UNCHANGED mirror
  <2>1. phase' \in {"commands", "UnexpectedPanic"}
    BY <1>1, FailureVerdict DEF ExecBurn, rejected
  <2> QED  BY <1>0, <1>1, <2>1, CallFails
<1>2. CASE /\ burn(signed, from, n)
           /\ cs_balances' = sub_balance(cs_balances, from, n)
           /\ sum_of_burns' = sum_of_burns + n
           /\ UNCHANGED <<cs_allowances, cs_decimals, sum_of_mints>>
  <2>1. /\ ~(n < 0) /\ from \in signed
        /\ ~(balances[from].amount < n)
    BY <1>2, BurnChecks, Zenon DEF burn
  <2>2. n \in Nat /\ n <= balances[from].amount
    BY <1>0, <2>1, TokenAssumption DEF BalanceEntry
  <2>3. /\ balances' \in [Address -> BalanceEntry]
        /\ \A a \in Address : balances'[a].amount =
             IF a = from THEN balances[a].amount - n ELSE balances[a].amount
        /\ Prolonged(balances, balances')
    BY <1>0, <1>2, <2>2, SpendBalance DEF burn
  <2>4. InRange(cs_balances[from] - n)
    BY <1>0, <2>2, Synced, TokenAssumption DEF InRange, BalanceEntry
  <2>5. /\ cs_balances' \in [Address -> 0 .. I128_MAX]
        /\ \A a \in Address : cs_balances'[a] = balances'[a].amount
    BY <1>0, <1>2, <2>3, <2>4, Synced DEF sub_balance, InRange
  <2>6. phase' = "commands"
    BY <1>2, <2>1, <2>4, SuccessVerdict DEF ExecBurn, burn
  <2>7. SupplyIsConserved'
    BY <1>0, <1>2, <2>2, <2>3, Synced, SumFacts, FuzzerAssumption
    DEF SupplyIsConserved, sum_of_balances, Balance, read_balance, BalanceEntry
  <2>8. sum_of_mints' \in Nat /\ sum_of_burns' \in Nat
    BY <1>0, <1>2, <2>2
  <2>9. /\ UNCHANGED <<sequence, allowances>>
        /\ auths' \in SUBSET Address
        /\ instance' = bump_instance(sequence)
        /\ UNCHANGED cs_decimals
    BY <1>0, <1>2 DEF burn
  <2>10. /\ allowances' \in [Pair -> AllowanceEntry]
         /\ AllowanceEntryOutlivesAllowance'
         /\ \A p \in Pair : Accounted(lost, p)'
         /\ cs_allowances' \in [Pair -> 0 .. I128_MAX]
    BY <1>0, <1>2, <2>9, AllowancesKept, Synced DEF Accounted
  <2> QED
    BY <1>2, <2>3, <2>5, <2>6, <2>7, <2>8, <2>9, <2>10, CallSucceeds
<1> QED  BY <1>1, <1>2 DEF ExecBurn

(* Command::BurnFrom keeps the invariant, whatever the call returns.       *)
LEMMA ExecBurnFromInv ==
  ASSUME NEW lost, FuzzInv(lost), phase = "commands", NEW signed \in AuthSets,
         NEW spender \in Address, NEW from \in Address,
         NEW n \in Amounts, ExecBurnFrom(signed, spender, from, n), UNCHANGED progress,
         pending' \in SUBSET PendingCommand, commands' \in Nat
  PROVE  FuzzInv(lost)'
<1> DEFINE r == burn_from_result(signed, spender, from, n)
<1>0. /\ signed \in SUBSET Address /\ n \in Int
      /\ sequence \in Nat /\ instance \in InstanceEntry
      /\ balances \in [Address -> BalanceEntry]
      /\ allowances \in [Pair -> AllowanceEntry]
      /\ cs_balances \in [Address -> 0 .. I128_MAX]
      /\ cs_allowances \in [Pair -> 0 .. I128_MAX]
      /\ sum_of_mints \in Nat /\ sum_of_burns \in Nat
      /\ TokenInv
  BY Types, InputTypes
<1>1. CASE rejected(signed, r) /\ UNCHANGED mirror
  <2>1. phase' \in {"commands", "UnexpectedPanic"}
    BY <1>1, FailureVerdict DEF ExecBurnFrom, rejected
  <2> QED  BY <1>0, <1>1, <2>1, CallFails
<1>2. CASE /\ burn_from(signed, spender, from, n)
           /\ cs_balances' = sub_balance(cs_balances, from, n)
           /\ cs_allowances' = sub_allowance(cs_allowances, <<from, spender>>, n)
           /\ sum_of_burns' = sum_of_burns + n
           /\ UNCHANGED <<cs_decimals, sum_of_mints>>
  <2>1. /\ ~(n < 0) /\ spender \in signed
        /\ ~(balances[from].amount < n)
        /\ spend_allowance_result(<<from, spender>>, n) = Ok
    BY <1>2, BurnFromChecks, Zenon DEF burn_from
  <2>2. n \in Nat /\ n <= balances[from].amount
    BY <1>0, <2>1, TokenAssumption DEF BalanceEntry
  <2>3. /\ balances' \in [Address -> BalanceEntry]
        /\ \A a \in Address : balances'[a].amount =
             IF a = from THEN balances[a].amount - n ELSE balances[a].amount
        /\ Prolonged(balances, balances')
    BY <1>0, <1>2, <2>2, SpendBalance DEF burn_from
  <2>4. InRange(cs_balances[from] - n)
    BY <1>0, <2>2, Synced, TokenAssumption DEF InRange, BalanceEntry
  <2>5. /\ cs_balances' \in [Address -> 0 .. I128_MAX]
        /\ \A a \in Address : cs_balances'[a] = balances'[a].amount
    BY <1>0, <1>2, <2>3, <2>4, Synced DEF sub_balance, InRange
  <2> DEFINE pair == <<from, spender>>
  <2>pair. /\ pair \in Pair
         /\ spend_allowance_result(pair, n) = Ok
         /\ allowances' = spend_allowance(pair, n)
         /\ cs_allowances' = sub_allowance(cs_allowances, pair, n)
    BY <1>2, <2>1 DEF burn_from, Pair
  <2>fits. InRange(cs_allowances[pair] - n)
    <3> HIDE DEF pair
    <3>1. Allowance(pair) - n \in 0 .. I128_MAX
      BY <1>0, <2>pair, <2>2, SpendAllowance
    <3>2. \/ cs_allowances[pair] - n = Allowance(pair) - n
          \/ n = 0
      BY <2>pair, <2>2, <3>1, Synced, TokenAssumption DEF Accounted
    <3> QED  BY <1>0, <2>pair, <3>1, <3>2 DEF InRange
  <2>6. phase' = "commands"
    BY <1>2, <2>1, <2>4, <2>fits, SuccessVerdict DEF ExecBurnFrom, burn_from
  <2> HIDE DEF pair
  <2>7. SupplyIsConserved'
    BY <1>0, <1>2, <2>2, <2>3, Synced, SumFacts, FuzzerAssumption
    DEF SupplyIsConserved, sum_of_balances, Balance, read_balance, BalanceEntry
  <2>8. sum_of_mints' \in Nat /\ sum_of_burns' \in Nat
    BY <1>0, <1>2, <2>2
  <2>9. /\ UNCHANGED sequence
        /\ auths' \in SUBSET Address
        /\ instance' = bump_instance(sequence)
        /\ UNCHANGED cs_decimals
    BY <1>0, <1>2 DEF burn_from
  <2>10. /\ allowances' \in [Pair -> AllowanceEntry]
         /\ AllowanceEntryOutlivesAllowance'
         /\ \A p \in Pair : Accounted(lost, p)'
         /\ cs_allowances' \in [Pair -> 0 .. I128_MAX]
    BY <1>0, <2>pair, <2>2, <2>9, SpentAllowanceFollowed
  <2> QED
    BY <1>2, <2>3, <2>5, <2>6, <2>7, <2>8, <2>9, <2>10, CallSucceeds
<1> QED  BY <1>1, <1>2 DEF ExecBurnFrom

-----------------------------------------------------------------------------
(* Setup.                                                                  *)

(* The run before setup.                                                   *)
LEMMA InitInv ==
  ASSUME NEW lost, Init
  PROVE  FuzzInv(lost)
<1> USE TokenAssumption, StorageAssumption, FuzzerAssumption
<1>1. TypeOK
  BY DEF Init, TypeOK, TokenTypeOK, NoInstance, no_balances, no_allowances,
     NoBalance, NoAllowance, Absent, Running
<1>2. AllowanceEntryOutlivesAllowance
  BY DEF Init, AllowanceEntryOutlivesAllowance, no_allowances, NoAllowance
<1>3. NoFalseAlarm /\ ContractSurvivesHop /\ BalancesSurviveTransaction
  BY DEF Init, NoFalseAlarm, Alarms, ContractSurvivesHop,
     BalancesSurviveTransaction, no_balances, NoBalance
<1>4. MirrorUpTo(lost)
  BY DEF Init, MirrorUpTo, Balance, Allowance, read_balance,
     read_allowance, no_balances, no_allowances, NoBalance, NoAllowance
<1>5. SupplyIsConserved
  BY SumFacts DEF Init, SupplyIsConserved, sum_of_balances, Balance, read_balance,
     no_balances, NoBalance
<1>6. SetUp /\ Heading
  BY DEF Init, SetUp, Heading
<1> QED  BY <1>1, <1>2, <1>3, <1>4, <1>5, <1>6 DEF FuzzInv

(* Steps that only change where the run is, to a state with fewer duties.  *)
LEMMA PhaseOnly ==
  ASSUME NEW lost, FuzzInv(lost), UNCHANGED tokenVars, UNCHANGED mirror,
         pending' \in SUBSET PendingCommand,
         to_ledger' \in Nat, txs' \in Nat, commands' \in Nat,
         phase' = "EndOfTime" \/ (phase = "start" /\ phase' = "Reject")
  PROVE  FuzzInv(lost)'
<1>1. /\ UNCHANGED <<sequence, auths, instance, balances, allowances>>
      /\ UNCHANGED <<cs_balances, cs_allowances, cs_decimals, sum_of_mints, sum_of_burns>>
  BY DEF tokenVars, storage, mirror
<1>2. TypeOK'
  BY <1>1 DEF FuzzInv, TypeOK, TokenTypeOK, PendingCommand, Running, Finished
<1>3. AllowanceEntryOutlivesAllowance'
  BY <1>1 DEF FuzzInv, AllowanceEntryOutlivesAllowance
<1>4. SupplyIsConserved'
  BY <1>1 DEF FuzzInv, SupplyIsConserved, sum_of_balances, Balance, read_balance
<1>5. NoFalseAlarm' /\ ContractSurvivesHop' /\ BalancesSurviveTransaction'
      /\ SetUp' /\ Heading'
  BY DEF NoFalseAlarm, Alarms, ContractSurvivesHop, BalancesSurviveTransaction,
     SetUp, Heading
<1>6. MirrorUpTo(lost)'
  BY <1>1 DEF FuzzInv, MirrorUpTo, Balance, Allowance, read_balance
<1> QED  BY <1>2, <1>3, <1>4, <1>5, <1>6 DEF FuzzInv

(* Registering the contract gives the entry its minimum lifetime.          *)
LEMMA RegisterContractInv ==
  ASSUME NEW lost, FuzzInv(lost), RegisterContract
  PROVE  FuzzInv(lost)'
<1> USE TokenAssumption, StorageAssumption
<1>1. /\ UNCHANGED <<sequence, auths, balances, allowances>>
      /\ UNCHANGED <<cs_balances, cs_allowances, cs_decimals, sum_of_mints, sum_of_burns>>
      /\ UNCHANGED <<pending, to_ledger, txs, commands>>
      /\ phase = "start" /\ phase' = "registered" /\ instance' = registered(0)
  BY DEF RegisterContract, mirror, progress, FuzzInv, SetUp
<1>2. registered(0) \in InstanceEntry
  BY DEF registered, InstanceEntry, SetTTL, Absent
<1>3. TypeOK'
  BY <1>1, <1>2 DEF FuzzInv, TypeOK, TokenTypeOK, Running, InstanceEntry
<1>4. AllowanceEntryOutlivesAllowance' /\ SupplyIsConserved' /\ MirrorUpTo(lost)'
  BY <1>1 DEF FuzzInv, AllowanceEntryOutlivesAllowance, SupplyIsConserved,
     sum_of_balances, MirrorUpTo, Balance, Allowance, read_balance
<1>5. NoFalseAlarm' /\ ContractSurvivesHop' /\ BalancesSurviveTransaction' /\ Heading'
  BY <1>1 DEF NoFalseAlarm, Alarms, ContractSurvivesHop, BalancesSurviveTransaction, Heading
<1>6. SetUp'
  BY <1>1 DEF FuzzInv, SetUp
<1> QED  BY <1>3, <1>4, <1>5, <1>6 DEF FuzzInv

(* initialize succeeds, and the mirror takes over the metadata.            *)
LEMMA InitializeContractInv ==
  ASSUME NEW lost, FuzzInv(lost), InitializeContract
  PROVE  FuzzInv(lost)'
<1> USE TokenAssumption, StorageAssumption, FuzzerAssumption
<1>1. /\ phase = "registered" /\ instance = registered(0) /\ sequence = 0
      /\ balances = no_balances
      /\ UNCHANGED <<cs_balances, cs_allowances, sum_of_mints, sum_of_burns>>
      /\ UNCHANGED <<pending, to_ledger, txs, commands>>
  BY DEF InitializeContract, FuzzInv, SetUp, progress
<1>2. /\ registered(0).live_until = MIN_PERSISTENT_TTL - 1
      /\ registered(0).admin = NoAddress
  BY DEF registered, SetTTL, Absent
<1>3. initialize_result(DECIMAL) = Ok
  BY <1>1, <1>2 DEF initialize_result, contract_found, has_administrator, &&,
     Unless, Ok, Absent, DECIMAL
<1>4. /\ UNCHANGED <<sequence, auths, balances, allowances>>
      /\ instance' = [admin |-> Account0, decimals |-> DECIMAL,
                      live_until |-> MIN_PERSISTENT_TTL - 1]
      /\ phase' = "commands"
      /\ cs_decimals' = DECIMAL
  BY <1>1, <1>2, <1>3 DEF InitializeContract, initialize, read_decimal
<1>5. TypeOK'
  BY <1>1, <1>4, SumFacts DEF FuzzInv, TypeOK, TokenTypeOK, Running, DECIMAL
<1>6. AllowanceEntryOutlivesAllowance' /\ SupplyIsConserved' /\ MirrorUpTo(lost)'
  BY <1>1, <1>4 DEF FuzzInv, AllowanceEntryOutlivesAllowance, SupplyIsConserved,
     sum_of_balances, MirrorUpTo, Balance, Allowance, read_balance
<1>7. NoFalseAlarm' /\ Heading' /\ SetUp'
  BY <1>4 DEF NoFalseAlarm, Alarms, Heading, SetUp
<1>8. ContractSurvivesHop'
  BY <1>1, <1>4 DEF ContractSurvivesHop
<1>9. BalancesSurviveTransaction'
  BY <1>1, <1>4 DEF BalancesSurviveTransaction, no_balances, NoBalance, Absent
<1> QED  BY <1>5, <1>6, <1>7, <1>8, <1>9 DEF FuzzInv

-----------------------------------------------------------------------------
(* The clock.                                                              *)

(* The clock gets a target one day away at most, which balances survive.   *)
LEMMA EndCommandsInv ==
  ASSUME NEW lost, FuzzInv(lost), NEW n \in Advances, EndCommands(n)
  PROVE  FuzzInv(lost)'
<1>0. /\ sequence \in Nat /\ txs \in Nat /\ commands \in Nat
      /\ pending \in SUBSET PendingCommand
      /\ balances \in [Address -> BalanceEntry]
  BY Types
<1>1. n \in 1 .. DAY_IN_LEDGERS /\ n \in Nat
  BY TokenAssumption
<1>2. to_ledger' = sequence + n /\ to_ledger' \in Nat /\ txs' \in Nat
  BY <1>0, <1>1 DEF EndCommands
<1>3. CASE to_ledger' > U32_MAX
  <2>1. phase' = "EndOfTime"
    BY <1>2, <1>3, TokenAssumption DEF EndCommands
  <2>2. /\ UNCHANGED tokenVars /\ UNCHANGED mirror
        /\ pending' \in SUBSET PendingCommand /\ commands' \in Nat
    BY <1>0 DEF EndCommands
  <2> QED  BY <1>2, <2>1, <2>2, PhaseOnly
<1>4. CASE to_ledger' <= U32_MAX
  <2>1. /\ UNCHANGED <<sequence, auths, instance, balances, allowances>>
        /\ UNCHANGED <<cs_balances, cs_allowances, cs_decimals, sum_of_mints, sum_of_burns>>
        /\ UNCHANGED <<pending, commands>>
        /\ phase = "commands" /\ phase' = "advance"
    BY <1>4 DEF EndCommands, tokenVars, storage, mirror
  <2>2. TypeOK'
    BY <1>2, <2>1 DEF FuzzInv, TypeOK, TokenTypeOK, Running
  <2>3. AllowanceEntryOutlivesAllowance' /\ SupplyIsConserved' /\ MirrorUpTo(lost)'
    BY <2>1 DEF FuzzInv, AllowanceEntryOutlivesAllowance, SupplyIsConserved,
       sum_of_balances, MirrorUpTo, Balance, Allowance, read_balance
  <2>4. NoFalseAlarm' /\ SetUp' /\ ContractSurvivesHop'
    BY <2>1 DEF FuzzInv, NoFalseAlarm, Alarms, SetUp, ContractSurvivesHop
  <2>5. Heading'
    BY <1>0, <1>1, <1>2, <1>4, <2>1 DEF Heading
  <2>6. BalancesSurviveTransaction'
    BY <1>0, <1>1, <1>2, <2>1, TokenAssumption
    DEF FuzzInv, BalancesSurviveTransaction, BalanceEntry
  <2> QED  BY <2>2, <2>3, <2>4, <2>5, <2>6 DEF FuzzInv
<1> QED  BY <1>2, <1>3, <1>4, TokenAssumption

(* A hop of the clock loses no balance, and an allowance only if its       *)
(* expiration ledger has passed.                                           *)
LEMMA HopKeepsState ==
  ASSUME NEW lost, FuzzInv(lost), phase = "advance", NEW next \in Nat,
         sequence < next, next <= to_ledger, advance_env(next)
  PROVE  /\ balances' = balances
         /\ allowances' \in [Pair -> AllowanceEntry]
         /\ AllowanceEntryOutlivesAllowance'
         /\ \A p \in Pair :
              \/ Allowance(p)' = Allowance(p)
              \/ Allowance(p)' = 0 /\ allowances[p].expiration_ledger < next
<1>0. /\ sequence \in Nat /\ to_ledger \in Nat
      /\ balances \in [Address -> BalanceEntry]
      /\ allowances \in [Pair -> AllowanceEntry]
      /\ AllowanceEntryOutlivesAllowance
  BY Types DEF FuzzInv
<1>1. \A a \in Address : purge(balances[a], NoBalance, next) = balances[a]
  BY <1>0 DEF FuzzInv, BalancesSurviveTransaction, purge, Expired, BalanceEntry
<1>2. balances' = balances
  BY <1>0, <1>1 DEF advance_env
<1>3. /\ allowances' = [p \in Pair |-> purge(allowances[p], NoAllowance, next)]
      /\ sequence' = next
  BY DEF advance_env, Pair
<1>4. \A p \in Pair : allowances'[p] = allowances[p] \/ allowances'[p] = NoAllowance
  BY <1>3 DEF purge
<1>5. NoAllowance \in AllowanceEntry /\ NoAllowance.amount = 0
  BY TokenAssumption DEF NoAllowance, AllowanceEntry, Absent
<1>6. allowances' \in [Pair -> AllowanceEntry]
  BY <1>0, <1>3, <1>5 DEF purge
<1>7. AllowanceEntryOutlivesAllowance'
  BY <1>0, <1>4, <1>5 DEF AllowanceEntryOutlivesAllowance, Pair
<1>8. ASSUME NEW p \in Pair
      PROVE  \/ Allowance(p)' = Allowance(p)
             \/ Allowance(p)' = 0 /\ allowances[p].expiration_ledger < next
  <2>0. allowances[p] \in AllowanceEntry
    BY <1>0
  <2>1. CASE allowances[p].expiration_ledger < next
    <3>1. Allowance(p)' = 0
      BY <1>3, <1>4, <1>5, <2>1 DEF Allowance, read_allowance
    <3> QED  BY <2>1, <3>1
  <2>2. CASE ~(allowances[p].expiration_ledger < next) /\ allowances[p].amount > 0
    <3>1. allowances[p].live_until >= next
      BY <1>0, <2>0, <2>2 DEF AllowanceEntryOutlivesAllowance, AllowanceEntry, Pair
    <3>2. allowances'[p] = allowances[p]
      BY <1>3, <2>0, <3>1 DEF purge, Expired, AllowanceEntry
    <3> QED  BY <1>0, <1>3, <2>0, <2>2, <3>2 DEF Allowance, read_allowance, AllowanceEntry
  <2>3. CASE ~(allowances[p].amount > 0)
    <3>1. allowances[p].amount = 0
      BY <2>0, <2>3, TokenAssumption DEF AllowanceEntry
    <3> QED  BY <1>4, <1>5, <3>1 DEF Allowance, read_allowance
  <2> QED  BY <2>1, <2>2, <2>3
<1> QED  BY <1>2, <1>6, <1>7, <1>8

(* What both kinds of hop leave alone.                                     *)
LEMMA HopInv ==
  ASSUME NEW lost, FuzzInv(lost), phase = "advance", NEW next \in Nat,
         sequence < next, next <= to_ledger, advance_env(next),
         instance' \in InstanceEntry,
         instance'.admin = instance.admin, instance'.decimals = instance.decimals,
         UNCHANGED <<pending, progress, commands, mirror>>,
         \/ /\ phase' = "advance" /\ next < to_ledger
            /\ instance'.live_until >= next + MAX_LEDGERS_TO_ADVANCE
         \/ phase' = "sync" /\ instance'.live_until >= next
  PROVE  FuzzInv(lost)'
<1>0. /\ sequence \in Nat /\ to_ledger \in Nat /\ to_ledger <= U32_MAX
      /\ balances \in [Address -> BalanceEntry]
  BY Types DEF FuzzInv, Heading
<1>1. /\ balances' = balances
      /\ allowances' \in [Pair -> AllowanceEntry]
      /\ AllowanceEntryOutlivesAllowance'
      /\ \A p \in Pair : Allowance(p)' = Allowance(p) \/ Allowance(p)' = 0
  BY HopKeepsState
<1>2. /\ sequence' = next /\ auths' = {}
      /\ UNCHANGED <<cs_balances, cs_allowances, cs_decimals, sum_of_mints, sum_of_burns>>
      /\ UNCHANGED <<pending, to_ledger, txs, commands>>
  BY DEF advance_env, mirror, progress
<1>3. TypeOK'
  <2>1. sequence' \in 0 .. U32_MAX
    BY <1>0, <1>2, TokenAssumption
  <2> QED
    BY <1>1, <1>2, <2>1 DEF FuzzInv, TypeOK, TokenTypeOK, Running, InstanceEntry,
       AllowanceEntry, Pair
<1>4. MirrorUpTo(lost)'
  BY <1>1, <1>2 DEF FuzzInv, MirrorUpTo, Balance, read_balance, Pair
<1>5. SupplyIsConserved'
  BY <1>1, <1>2 DEF FuzzInv, SupplyIsConserved, sum_of_balances, Balance, read_balance
<1>6. NoFalseAlarm' /\ ContractSurvivesHop'
  BY <1>2, TokenAssumption, FuzzerAssumption DEF NoFalseAlarm, Alarms, ContractSurvivesHop
<1>7. BalancesSurviveTransaction'
  BY <1>1, <1>2 DEF FuzzInv, BalancesSurviveTransaction
<1>8. SetUp' /\ Heading'
  BY <1>0, <1>2 DEF FuzzInv, SetUp, Heading
<1> QED  BY <1>1, <1>3, <1>4, <1>5, <1>6, <1>7, <1>8 DEF FuzzInv

(* The next stop lies ahead, within the instance's lifetime.               *)
LEMMA NextLedger ==
  ASSUME NEW lost, FuzzInv(lost), phase = "advance"
  PROVE  /\ next_ledger \in Nat
         /\ sequence < next_ledger
         /\ next_ledger <= to_ledger
         /\ instance.live_until >= next_ledger
         /\ ~Expired(instance.live_until, next_ledger)
         /\ instance \in InstanceEntry
<1>1. /\ sequence \in Nat /\ to_ledger \in Nat
      /\ instance \in InstanceEntry
      /\ sequence < to_ledger
      /\ instance.live_until >= sequence + MAX_LEDGERS_TO_ADVANCE
  BY Types DEF FuzzInv, Heading, ContractSurvivesHop
<1>2. /\ next_ledger \in Nat
      /\ sequence < next_ledger
      /\ next_ledger <= to_ledger
      /\ instance.live_until >= next_ledger
  BY <1>1, FuzzerAssumption DEF next_ledger, InstanceEntry
<1> QED  BY <1>1, <1>2 DEF Expired, InstanceEntry

(* The hop that reaches the target.                                        *)
LEMMA LastHopInv ==
  ASSUME NEW lost, FuzzInv(lost), LastHop
  PROVE  FuzzInv(lost)'
<1>1. phase = "advance" /\ sequence < to_ledger
  BY DEF LastHop, FuzzInv, Heading
<1>2. instance' = instance
  BY <1>1, NextLedger DEF LastHop, reregister_contract
<1>3. phase' = "sync" /\ advance_env(next_ledger)
  BY <1>1 DEF LastHop
<1> QED  BY <1>1, <1>2, <1>3, NextLedger, HopInv DEF LastHop

(* A hop short of the target, and the ping that prolongs the contract.     *)
LEMMA HopAndPingInv ==
  ASSUME NEW lost, FuzzInv(lost), HopAndPing
  PROVE  FuzzInv(lost)'
<1> DEFINE next == next_ledger
<1>1. /\ phase = "advance" /\ sequence < to_ledger
      /\ next # to_ledger /\ advance_env(next)
  BY DEF HopAndPing, FuzzInv, Heading
<1>2. /\ next \in Nat /\ sequence < next /\ next <= to_ledger
      /\ ~Expired(instance.live_until, next) /\ instance \in InstanceEntry
  BY <1>1, NextLedger
<1>3. /\ instance' = bump_instance(next)
      /\ phase' = IF contract_found' = Ok THEN "advance" ELSE "ContractGone"
  BY <1>1, <1>2 DEF HopAndPing, reregister_contract, bump_instance
<1>4. next < to_ledger
  BY <1>1, <1>2, Types
<1>5. UNCHANGED <<pending, progress, commands, mirror>>
  BY DEF HopAndPing
<1> HIDE DEF next
<1>6. /\ instance' \in InstanceEntry
      /\ instance'.admin = instance.admin /\ instance'.decimals = instance.decimals
      /\ instance'.live_until >= next + MAX_LEDGERS_TO_ADVANCE
  BY <1>2, <1>3, BumpedInstance
<1>7. phase' = "advance"
  BY <1>2, <1>3, <1>6, FuzzerAssumption
  DEF contract_found, Unless, Ok, Absent, InstanceEntry
<1> QED  BY <1>1, <1>2, <1>3, <1>4, <1>5, <1>6, <1>7, HopInv

-----------------------------------------------------------------------------
(* The checks at the start of a transaction.                               *)

(* Forgetting expired allowances makes the mirror exact again.             *)
LEMMA SyncAllowancesInv ==
  ASSUME NEW lost, FuzzInv(lost), SyncAllowances
  PROVE  FuzzInv(lost)'
<1>0. /\ sequence \in Nat /\ sequence \in 0 .. U32_MAX /\ instance \in InstanceEntry
      /\ balances \in [Address -> BalanceEntry]
      /\ allowances \in [Pair -> AllowanceEntry]
      /\ cs_allowances \in [Pair -> 0 .. I128_MAX]
      /\ phase = "sync" /\ instance.live_until >= sequence
  BY Types DEF SyncAllowances, FuzzInv, ContractSurvivesHop
<1>1. contract_found = Ok
  BY <1>0 DEF contract_found, Unless, Absent, InstanceEntry
<1>2. /\ phase' = "assert"
      /\ instance' = bump_instance(sequence)
      /\ cs_allowances' = [p \in Pair |->
           IF Allowance(p) = 0 /\ cs_allowances[p] # 0 THEN Allowance(p)
           ELSE cs_allowances[p]]
      /\ UNCHANGED <<sequence, auths, balances, allowances>>
      /\ UNCHANGED <<pending, to_ledger, txs, commands>>
      /\ UNCHANGED <<cs_balances, cs_decimals, sum_of_mints, sum_of_burns>>
  BY <1>1 DEF SyncAllowances, progress, Pair
<1>3. /\ instance' \in InstanceEntry /\ instance'.admin = instance.admin
      /\ instance'.decimals = instance.decimals
      /\ instance'.live_until >= instance.live_until
  BY <1>0, <1>2, BumpedInstance
<1>4. \A p \in Pair : Allowance(p) = cs_allowances[p] \/ Allowance(p) = 0
  BY DEF FuzzInv, MirrorUpTo, Pair
<1>5. /\ cs_allowances' \in [Pair -> 0 .. I128_MAX]
      /\ \A p \in Pair : cs_allowances'[p] = Allowance(p)
  BY <1>0, <1>2, <1>4, TokenAssumption
<1>6. TypeOK'
  BY <1>2, <1>3, <1>5 DEF FuzzInv, TypeOK, TokenTypeOK, Running, InstanceEntry, Pair
<1>7. MirrorUpTo(lost)'
  BY <1>2, <1>5 DEF FuzzInv, MirrorUpTo, Balance, Allowance, read_balance, Pair
<1>8. AllowanceEntryOutlivesAllowance' /\ SupplyIsConserved'
  BY <1>2 DEF FuzzInv, AllowanceEntryOutlivesAllowance, SupplyIsConserved,
     sum_of_balances, Balance, read_balance
<1>9. ContractSurvivesHop'
  BY <1>0, <1>2, <1>3 DEF ContractSurvivesHop, InstanceEntry
<1>10. NoFalseAlarm' /\ BalancesSurviveTransaction' /\ SetUp' /\ Heading'
  BY <1>0, <1>2, <1>3
  DEF FuzzInv, NoFalseAlarm, Alarms, BalancesSurviveTransaction, SetUp, Heading
<1> QED  BY <1>6, <1>7, <1>8, <1>9, <1>10 DEF FuzzInv

(* Reading a balance keeps its amount and prolongs its entry.              *)
LEMMA BumpedBalance ==
  ASSUME NEW entry \in BalanceEntry, NEW seq \in Nat
  PROVE  /\ bump_balance(entry, seq) \in BalanceEntry
         /\ bump_balance(entry, seq).amount = entry.amount
         /\ bump_balance(entry, seq).live_until # Absent =>
              bump_balance(entry, seq).live_until >= seq + DAY_IN_LEDGERS
<1>1. CASE entry.live_until = Absent
  BY <1>1 DEF bump_balance
<1>2. CASE entry.live_until # Absent
  BY <1>2, TokenAssumption, FuzzerAssumption
  DEF bump_balance, BalanceEntry, ExtendTTL, BALANCE_LIFETIME_THRESHOLD
<1> QED  BY <1>1, <1>2

(* assert_state finds nothing wrong, and prolongs every balance entry.     *)
LEMMA AssertStateInv ==
  ASSUME NEW lost, FuzzInv(lost), AssertState
  PROVE  FuzzInv(lost)'
<1>0. /\ sequence \in Nat /\ instance \in InstanceEntry
      /\ balances \in [Address -> BalanceEntry]
      /\ phase = "assert"
  BY Types DEF AssertState
<1>1. state_matches
  <2>1. \A a \in Address : cs_balances[a] = Balance(a) /\ Balance(a) >= 0
    BY <1>0, TokenAssumption DEF FuzzInv, MirrorUpTo, Balance, read_balance, BalanceEntry
  <2>2. \A p \in Address \X Address : cs_allowances[p] = Allowance(p)
    BY <1>0 DEF FuzzInv, MirrorUpTo
  <2>3. has_administrator /\ cs_decimals = instance.decimals
    BY <1>0, TokenAssumption, FuzzerAssumption DEF FuzzInv, SetUp, has_administrator
  <2> QED  BY <2>1, <2>2, <2>3 DEF FuzzInv, SupplyIsConserved, state_matches, read_decimal
<1>2. /\ phase' \in {"commands", "Keep"}
      /\ instance' = bump_instance(sequence)
      /\ balances' = [a \in Address |-> bump_balance(balances[a], sequence)]
      /\ UNCHANGED <<sequence, auths, allowances>>
      /\ UNCHANGED <<pending, to_ledger, txs, commands>>
      /\ UNCHANGED <<cs_balances, cs_allowances, cs_decimals, sum_of_mints, sum_of_burns>>
  BY <1>1 DEF AssertState, mirror, progress
<1>3. /\ instance' \in InstanceEntry /\ instance'.admin = instance.admin
      /\ instance'.decimals = instance.decimals
      /\ instance'.live_until >= sequence + MAX_LEDGERS_TO_ADVANCE
  BY <1>0, <1>2, BumpedInstance
<1>4. /\ balances' \in [Address -> BalanceEntry]
      /\ \A a \in Address : balances'[a].amount = balances[a].amount
      /\ \A a \in Address : balances'[a].live_until # Absent =>
           balances'[a].live_until >= sequence + DAY_IN_LEDGERS
  BY <1>0, <1>2, BumpedBalance
<1>5. TypeOK'
  BY <1>2, <1>3, <1>4
  DEF FuzzInv, TypeOK, TokenTypeOK, Running, Finished, InstanceEntry, BalanceEntry
<1>6. MirrorUpTo(lost)'
  BY <1>0, <1>2, <1>4 DEF FuzzInv, MirrorUpTo, Balance, Allowance, read_balance
<1>7. AllowanceEntryOutlivesAllowance' /\ SupplyIsConserved'
  BY <1>2, <1>4, SumFacts DEF FuzzInv, AllowanceEntryOutlivesAllowance,
     SupplyIsConserved, sum_of_balances, Balance, read_balance
<1>8. NoFalseAlarm' /\ ContractSurvivesHop' /\ SetUp' /\ Heading'
  BY <1>0, <1>2, <1>3 DEF FuzzInv, NoFalseAlarm, Alarms, ContractSurvivesHop, SetUp, Heading
<1>9. BalancesSurviveTransaction'
  BY <1>2, <1>4 DEF BalancesSurviveTransaction
<1> QED  BY <1>5, <1>6, <1>7, <1>8, <1>9 DEF FuzzInv

-----------------------------------------------------------------------------
(* Each of the eight commands of the input.                                *)
LEMMA CommandsInv ==
  ASSUME NEW lost, FuzzInv(lost),
         \/ Mint \/ Approve \/ TransferFrom \/ Transfer \/ BurnFrom \/ Burn
         \/ ApproveAndTransferFrom \/ ApproveAndBurnFrom
  PROVE  FuzzInv(lost)'
<1>1. phase = "commands" /\ commands' \in Nat /\ UNCHANGED progress
  BY Types DEF Mint, Approve, TransferFrom, Transfer, BurnFrom, Burn,
     ApproveAndTransferFrom, ApproveAndBurnFrom, ApproveAndSpend, TakeCommand
<1>2. CASE Mint
  <2>1. pending' \in SUBSET PendingCommand
    BY <1>2 DEF Mint
  <2> QED  BY <1>1, <1>2, <2>1, ExecMintInv DEF Mint
<1>3. CASE Approve
  <2>1. pending' \in SUBSET PendingCommand
    BY <1>3 DEF Approve
  <2> QED  BY <1>1, <1>3, <2>1, ExecApproveInv DEF Approve
<1>4. CASE TransferFrom
  <2>1. pending' \in SUBSET PendingCommand
    BY <1>4 DEF TransferFrom
  <2> QED  BY <1>1, <1>4, <2>1, ExecTransferFromInv DEF TransferFrom
<1>5. CASE Transfer
  <2>1. pending' \in SUBSET PendingCommand
    BY <1>5 DEF Transfer
  <2> QED  BY <1>1, <1>5, <2>1, ExecTransferInv DEF Transfer
<1>6. CASE BurnFrom
  <2>1. pending' \in SUBSET PendingCommand
    BY <1>6 DEF BurnFrom
  <2> QED  BY <1>1, <1>6, <2>1, ExecBurnFromInv DEF BurnFrom
<1>7. CASE Burn
  <2>1. pending' \in SUBSET PendingCommand
    BY <1>7 DEF Burn
  <2> QED  BY <1>1, <1>7, <2>1, ExecBurnInv DEF Burn
<1>8. ASSUME NEW kind \in {"transfer_from", "burn_from"}, ApproveAndSpend(kind)
      PROVE  FuzzInv(lost)'
  <2>1. PICK signed \in AuthSets, from \in Address, spender \in Address,
             to \in Address, n \in Amounts, e \in Expirations :
          /\ pending' = {[kind |-> kind, signed |-> signed, spender |-> spender,
                          from |-> from, to |-> to, amount |-> n]}
          /\ ExecApprove(signed, from, spender, n, e)
    BY <1>8 DEF ApproveAndSpend
  <2>2. pending' \in SUBSET PendingCommand
    BY <2>1 DEF PendingCommand
  <2> QED  BY <1>1, <2>1, <2>2, ExecApproveInv
<1> QED
  BY <1>2, <1>3, <1>4, <1>5, <1>6, <1>7, <1>8
  DEF ApproveAndTransferFrom, ApproveAndBurnFrom

(* The second half of an ApproveAnd... command.                            *)
LEMMA SecondHalfInv ==
  ASSUME NEW lost, FuzzInv(lost), SecondHalf
  PROVE  FuzzInv(lost)'
<1>1. /\ phase = "commands" /\ commands' \in Nat /\ UNCHANGED progress
      /\ pending' \in SUBSET PendingCommand
  BY Types DEF SecondHalf
<1>2. PICK c \in pending :
        \/ ExecTransferFrom(c.signed, c.spender, c.from, c.to, c.amount)
        \/ ExecBurnFrom(c.signed, c.spender, c.from, c.amount)
  BY DEF SecondHalf
<1>3. /\ c.signed \in AuthSets /\ c.spender \in Address /\ c.from \in Address
      /\ c.to \in Address /\ c.amount \in Amounts
  BY Types DEF PendingCommand
<1> QED  BY <1>1, <1>2, <1>3, ExecTransferFromInv, ExecBurnFromInv

(* Every step of a run keeps the invariant.                                *)
LEMMA NextInv ==
  ASSUME NEW lost, FuzzInv(lost), [Next]_vars
  PROVE  FuzzInv(lost)'
<1>0. /\ to_ledger \in Nat /\ txs \in Nat /\ commands \in Nat
      /\ pending \in SUBSET PendingCommand
  BY Types
<1>1. CASE RejectInput \/ SignatureExpiryOverflows \/ LedgerOverflows
  <2>1. /\ UNCHANGED tokenVars /\ UNCHANGED mirror
        /\ UNCHANGED <<pending, to_ledger, txs, commands>>
        /\ phase' = "EndOfTime" \/ (phase = "start" /\ phase' = "Reject")
    BY <1>1 DEF RejectInput, SignatureExpiryOverflows, LedgerOverflows, progress,
       FuzzInv, Heading
  <2> QED  BY <1>0, <2>1, PhaseOnly
<1>2. CASE UNCHANGED vars
  <2>1. /\ UNCHANGED <<sequence, auths, instance, balances, allowances>>
        /\ UNCHANGED <<phase, pending, to_ledger, txs, commands>>
        /\ UNCHANGED <<cs_balances, cs_allowances, cs_decimals, sum_of_mints, sum_of_burns>>
    BY <1>2 DEF vars, tokenVars, storage, progress, mirror
  <2> QED
    BY <2>1 DEF FuzzInv, TypeOK, TokenTypeOK, AllowanceEntryOutlivesAllowance,
       NoFalseAlarm, MirrorUpTo, SupplyIsConserved, ContractSurvivesHop,
       BalancesSurviveTransaction, SetUp, Heading, sum_of_balances, Balance,
       Allowance, read_balance
<1> QED
  BY <1>1, <1>2, RegisterContractInv, InitializeContractInv, CommandsInv,
     SecondHalfInv, EndCommandsInv, LastHopInv, HopAndPingInv, SyncAllowancesInv,
     AssertStateInv
  DEF Next, Done

(* The sequence number changes only in the hops of advance_time.           *)
LEMMA ClockMoves ==
  ASSUME NEW lost, FuzzInv(lost), [Next]_vars, sequence' # sequence
  PROVE  phase = "advance" /\ advance_env(next_ledger)
<1>1. ~(UNCHANGED vars)
  BY DEF vars, tokenVars
<1>2. ~(\/ RejectInput \/ RegisterContract \/ InitializeContract
        \/ SignatureExpiryOverflows \/ (\E n \in Advances : EndCommands(n))
        \/ LedgerOverflows \/ SyncAllowances \/ AssertState \/ Done)
  BY <1>1 DEF RejectInput, RegisterContract, InitializeContract, initialize,
     rejected, SignatureExpiryOverflows, EndCommands, LedgerOverflows,
     SyncAllowances, AssertState, Done, tokenVars
<1>3. ~(\/ Mint \/ Approve \/ TransferFrom \/ Transfer \/ BurnFrom \/ Burn
        \/ ApproveAndTransferFrom \/ ApproveAndBurnFrom \/ SecondHalf)
  <2>1. ASSUME NEW signed, NEW to, NEW amount
        PROVE  ~ExecMint(signed, to, amount)
    BY DEF ExecMint, mint, rejected
  <2>2. ASSUME NEW signed, NEW from, NEW spender, NEW amount, NEW e
        PROVE  ~ExecApprove(signed, from, spender, amount, e)
    BY DEF ExecApprove, approve, rejected
  <2>3. ASSUME NEW signed, NEW spender, NEW from, NEW to, NEW amount
        PROVE  ~ExecTransferFrom(signed, spender, from, to, amount)
    BY DEF ExecTransferFrom, transfer_from, rejected
  <2>4. ASSUME NEW signed, NEW from, NEW to, NEW amount
        PROVE  ~ExecTransfer(signed, from, to, amount)
    BY DEF ExecTransfer, transfer, rejected
  <2>5. ASSUME NEW signed, NEW spender, NEW from, NEW amount
        PROVE  ~ExecBurnFrom(signed, spender, from, amount)
    BY DEF ExecBurnFrom, burn_from, rejected
  <2>6. ASSUME NEW signed, NEW from, NEW amount
        PROVE  ~ExecBurn(signed, from, amount)
    BY DEF ExecBurn, burn, rejected
  <2> QED
    BY <2>1, <2>2, <2>3, <2>4, <2>5, <2>6
    DEF Mint, Approve, TransferFrom, Transfer, BurnFrom, Burn,
       ApproveAndTransferFrom, ApproveAndBurnFrom, ApproveAndSpend, SecondHalf
<1>4. CASE LastHop
  BY <1>4 DEF LastHop, TargetNotAhead, tokenVars
<1>5. CASE HopAndPing
  BY <1>5 DEF HopAndPing, TargetNotAhead, tokenVars
<1> QED  BY <1>1, <1>2, <1>3, <1>4, <1>5 DEF Next

(* Every state of every run satisfies the inductive invariant.             *)
LEMMA SpecInv == Spec => []FuzzInv({})
<1>1. Init => FuzzInv({})
  BY InitInv
<1>2. FuzzInv({}) /\ [Next]_vars => FuzzInv({})'
  BY NextInv
<1> QED  BY <1>1, <1>2, PTL DEF Spec

-----------------------------------------------------------------------------
(* The results, for every input and every instance of the constants.       *)

(* Every variable of a run keeps its type: the token's counters and the    *)
(* mirror stay within i128, the sequence number within u32.                *)
THEOREM FuzzTypeCorrect == Spec => []TypeOK
<1>1. FuzzInv({}) => TypeOK
  BY DEF FuzzInv
<1> QED  BY <1>1, SpecInv, PTL

(* No assertion of fuzz_token fails on the example token, except the one   *)
(* about bare panics (exec_command, advance_time, assert_state).           *)
THEOREM NoFalseAlarms == Spec => []NoFalseAlarm
<1>1. FuzzInv({}) => NoFalseAlarm
  BY DEF FuzzInv
<1> QED  BY <1>1, SpecInv, PTL

(* ContractState agrees with the contract after every command, not only    *)
(* where assert_state compares the two.                                    *)
THEOREM MirrorIsRight == Spec => []MirrorFollowsToken
<1>1. FuzzInv({}) => MirrorFollowsToken
  BY DEF FuzzInv, MirrorUpTo, MirrorFollowsToken
<1> QED  BY <1>1, SpecInv, PTL

(* The balances sum up to mints minus burns in every state of a run.       *)
THEOREM SupplyConserved == Spec => []SupplyIsConserved
<1>1. FuzzInv({}) => SupplyIsConserved
  BY DEF FuzzInv
<1> QED  BY <1>1, SpecInv, PTL

(* The hops and pings of advance_time never let the instance entry expire. *)
THEOREM ContractStaysAlive == Spec => []ContractSurvivesHop
<1>1. FuzzInv({}) => ContractSurvivesHop
  BY DEF FuzzInv
<1> QED  BY <1>1, SpecInv, PTL

(* purge_expired_entries never drops a balance: assert_state reads them    *)
(* often enough.                                                           *)
THEOREM BalancesStayAlive == Spec => []BalancesSurviveTransaction
<1>1. FuzzInv({}) => BalancesSurviveTransaction
  BY DEF FuzzInv
<1> QED  BY <1>1, SpecInv, PTL

(* purge_expired_entries and the passing of time take away an allowance    *)
(* only after its expiration ledger, so the mirror is right to forget it.  *)
THEOREM AllowancesLastAsPromised == Spec => OnlyExpiredAllowancesVanish
<1>1. ASSUME FuzzInv({}), [Next]_vars, sequence' # sequence,
             NEW p \in Address \X Address, Allowance(p)' # Allowance(p)
      PROVE  allowances[p].expiration_ledger < sequence'
  <2>1. phase = "advance" /\ advance_env(next_ledger)
    BY <1>1, ClockMoves
  <2>2. /\ next_ledger \in Nat
        /\ sequence < next_ledger
        /\ next_ledger <= to_ledger
    BY <1>1, <2>1, NextLedger
  <2>3. sequence' = next_ledger
    BY <2>1 DEF advance_env
  <2>4. p \in Pair
    BY DEF Pair
  <2>5. \/ Allowance(p)' = Allowance(p)
        \/ Allowance(p)' = 0 /\ allowances[p].expiration_ledger < next_ledger
    BY <1>1, <2>1, <2>2, <2>4, HopKeepsState
  <2> QED  BY <1>1, <2>3, <2>5
<1>2. FuzzInv({}) /\ [Next]_vars =>
        [sequence' # sequence =>
           \A p \in Address \X Address : Allowance(p)' # Allowance(p) =>
             allowances[p].expiration_ledger < sequence']_vars
  BY <1>1
<1> QED  BY <1>2, SpecInv, PTL DEF Spec, OnlyExpiredAllowancesVanish

(* The alarm about bare panics goes off only if the token has some.        *)
PanicIsBare == phase = "UnexpectedPanic" => BarePanics # {}

(* A call that is judged an unexpected panic was one.                      *)
LEMMA VerdictIsBare ==
  ASSUME NEW r, NEW signed, NEW signer, NEW amount, NEW fits,
         Verdict(r, signed, signer, amount, fits) = "UnexpectedPanic"
  PROVE  BarePanics # {}
  BY DEF Verdict

(* Only the verdict on a call raises it.                                   *)
LEMMA PanicIsBareNext ==
  ASSUME PanicIsBare, [Next]_vars
  PROVE  PanicIsBare'
<1>1. ASSUME NEW signed, NEW a, NEW b, NEW to, NEW n, NEW e,
             \/ ExecMint(signed, a, n)
             \/ ExecApprove(signed, a, b, n, e)
             \/ ExecTransferFrom(signed, a, b, to, n)
             \/ ExecTransfer(signed, a, b, n)
             \/ ExecBurnFrom(signed, a, b, n)
             \/ ExecBurn(signed, a, n)
      PROVE  PanicIsBare'
  <2> SUFFICES ASSUME phase' = "UnexpectedPanic" PROVE BarePanics # {}
    BY DEF PanicIsBare
  <2>1. \E r, signer, fits :
          Verdict(r, signed, signer, n, fits) = "UnexpectedPanic"
    BY <1>1 DEF ExecMint, ExecApprove, ExecTransferFrom, ExecTransfer,
       ExecBurnFrom, ExecBurn
  <2> QED  BY <2>1, VerdictIsBare
<1>2. CASE \/ Mint \/ Approve \/ TransferFrom \/ Transfer \/ BurnFrom \/ Burn
           \/ ApproveAndTransferFrom \/ ApproveAndBurnFrom \/ SecondHalf
  BY <1>1, <1>2 DEF Mint, Approve, TransferFrom, Transfer, BurnFrom, Burn,
     ApproveAndTransferFrom, ApproveAndBurnFrom, ApproveAndSpend, SecondHalf
<1>3. CASE \/ RejectInput \/ RegisterContract \/ InitializeContract
           \/ SignatureExpiryOverflows \/ LastHop \/ HopAndPing
           \/ LedgerOverflows \/ SyncAllowances \/ AssertState
           \/ \E n \in Advances : EndCommands(n)
  <2>1. phase' # "UnexpectedPanic"
    BY <1>3 DEF RejectInput, RegisterContract, InitializeContract,
       SignatureExpiryOverflows, LastHop, HopAndPing, LedgerOverflows,
       TargetNotAhead, SyncAllowances, AssertState, EndCommands
  <2> QED  BY <2>1 DEF PanicIsBare
<1>4. CASE UNCHANGED vars
  BY <1>4 DEF PanicIsBare, vars
<1> QED  BY <1>2, <1>3, <1>4 DEF Next, Done

(* If the example token signalled all its failures with panic_with_error!, *)
(* as the repository's README asks of a token, every run would pass: no    *)
(* assertion of fuzz_token fails, the one about bare panics included.      *)
THEOREM ErrorsRaiseNoAlarm ==
  ASSUME BarePanics = {}
  PROVE  Spec => [](phase \notin Alarms)
<1>1. Init => PanicIsBare
  BY DEF Init, PanicIsBare
<1>2. Spec => []PanicIsBare
  BY <1>1, PanicIsBareNext, PTL DEF Spec
<1>3. PanicIsBare /\ NoFalseAlarm => phase \notin Alarms
  BY DEF PanicIsBare, NoFalseAlarm
<1> QED  BY <1>2, <1>3, NoFalseAlarms, PTL
=============================================================================
