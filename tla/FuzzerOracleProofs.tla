------------------------- MODULE FuzzerOracleProofs -------------------------
(***************************************************************************)
(* A wrong balance is never accepted, for any input and any moment at      *)
(* which the token goes wrong.  Token and mirror change by the same amount *)
(* in every step of the fuzzer, so the difference that the wrong write     *)
(* makes stays as it is until assert_state looks.  For this no balance     *)
(* may be purged on the way, a wrong one included.                         *)
(***************************************************************************)
EXTENDS FuzzerOracle, TokenFuzzerProofs

(* By how much the mirror is off.                                          *)
Gap(a) == cs_balances[a] - balances[a].amount

(* What is left of the invariant of a run when the token goes wrong.       *)
OracleTypes ==
  /\ TokenInv
  /\ pending \in SUBSET PendingCommand
  /\ to_ledger \in Nat
  /\ cs_balances \in [Address -> Int]

(* The clock is at most a day short of the ledger it is heading for.       *)
WithinADay ==
  phase = "advance" => /\ sequence < to_ledger /\ to_ledger <= U32_MAX
                       /\ to_ledger <= sequence + DAY_IN_LEDGERS

NothingStored == phase \in {"start", "registered"} => balances = no_balances

Difference ==
  /\ fault = "none" => \A a \in Address : Gap(a) = 0
  /\ fault = "balance" => \E a \in Address : Gap(a) # 0

OracleInv ==
  /\ OracleTypes
  /\ BalancesSurviveTransaction
  /\ WithinADay
  /\ NothingStored
  /\ Difference
  /\ fault = "balance" => phase # "Keep"

-----------------------------------------------------------------------------
(* Steps of the fuzzer.                                                    *)

(* The typing facts, spelled out.                                          *)
LEMMA OracleFacts ==
  ASSUME OracleTypes
  PROVE  /\ sequence \in Nat /\ sequence \in 0 .. U32_MAX
         /\ instance \in InstanceEntry
         /\ balances \in [Address -> BalanceEntry]
         /\ \A a \in Address : /\ balances[a].amount \in 0 .. I128_MAX
                               /\ balances[a].live_until \in Int
                               /\ cs_balances[a] \in Int
         /\ allowances \in [Pair -> AllowanceEntry]
  BY TokenAssumption
  DEF OracleTypes, TokenInv, TokenTypeOK, InstanceEntry, BalanceEntry,
     AllowanceEntry, Pair

(* Registering the contract makes an instance entry, prolonging leaves one.*)
LEMMA InstanceEntries ==
  ASSUME NEW seq \in Nat
  PROVE  /\ registered(seq) \in InstanceEntry
         /\ \A entry \in InstanceEntry : extend_instance(entry, seq) \in InstanceEntry
<1>1. registered(seq) \in InstanceEntry
  BY TokenAssumption, StorageAssumption DEF registered, InstanceEntry, SetTTL, Absent
<1>2. ASSUME NEW entry \in InstanceEntry
      PROVE  extend_instance(entry, seq) \in InstanceEntry
  BY TokenAssumption DEF extend_instance, InstanceEntry, ExtendTTL
<1> QED  BY <1>1, <1>2

(* What a command does: token and mirror change by the same amounts, and   *)
(* balances are at most prolonged.                                         *)
InStep ==
  /\ OracleTypes'
  /\ sequence' = sequence
  /\ \A a \in Address : Gap(a)' = Gap(a)
  /\ Prolonged(balances, balances')

(* A call that fails changes nothing.                                      *)
LEMMA FailedInStep ==
  ASSUME OracleTypes, NEW signed \in AuthSets, NEW r, rejected(signed, r),
         UNCHANGED <<mirror, to_ledger>>, pending' \in SUBSET PendingCommand
  PROVE  InStep
<1>1. /\ UNCHANGED <<sequence, instance, balances, allowances, cs_balances, to_ledger>>
      /\ auths' = signed /\ signed \in SUBSET Address
  BY TokenAssumption DEF rejected, storage, mirror
<1>2. TokenInv'
  BY <1>1, OracleFacts, TokenInvParts DEF OracleTypes, InstanceEntry
<1>3. Prolonged(balances, balances') /\ \A a \in Address : Gap(a)' = Gap(a)
  BY <1>1 DEF Prolonged, Gap
<1> QED  BY <1>1, <1>2, <1>3 DEF InStep, OracleTypes

(* The mirror repeats what the token did.                                  *)
LEMMA MintInStep ==
  ASSUME OracleTypes, NEW signed \in AuthSets, NEW to \in Address,
         NEW n \in Amounts, ExecMint(signed, to, n),
         UNCHANGED to_ledger, pending' \in SUBSET PendingCommand
  PROVE  InStep
<1>1. CASE rejected(signed, mint_result(signed, to, n)) /\ UNCHANGED mirror
  BY <1>1, FailedInStep
<1>2. CASE /\ mint(signed, to, n)
           /\ cs_balances' = add_balance(cs_balances, to, n)
  <2>0. n \in Int /\ ~(n < 0) /\ ~(balances[to].amount + n > I128_MAX)
    BY <1>2, MintChecks, InputTypes DEF mint
  <2>1. n \in Nat /\ balances[to].amount + n <= I128_MAX
    BY <2>0, OracleFacts, TokenAssumption
  <2>2. /\ Prolonged(balances, balances')
        /\ \A a \in Address : balances'[a].amount =
             IF a = to THEN balances[a].amount + n ELSE balances[a].amount
    BY <1>2, <2>1, OracleFacts, ReceiveBalance DEF mint
  <2>3. /\ cs_balances' \in [Address -> Int]
        /\ \A a \in Address : cs_balances'[a] =
             IF a = to THEN cs_balances[a] + n ELSE cs_balances[a]
    BY <1>2, <2>1 DEF OracleTypes, add_balance
  <2>4. \A a \in Address : Gap(a)' = Gap(a)
    BY <2>1, <2>2, <2>3, OracleFacts DEF Gap
  <2>5. TokenInv' /\ sequence' = sequence
    BY <1>2, TokenNextInv DEF OracleTypes, TokenNext, mint
  <2> QED  BY <2>2, <2>3, <2>4, <2>5 DEF InStep, OracleTypes
<1> QED  BY <1>1, <1>2 DEF ExecMint

(* approve touches no balance.                                             *)
LEMMA ApproveInStep ==
  ASSUME OracleTypes, NEW signed \in AuthSets, NEW from \in Address,
         NEW spender \in Address, NEW n \in Amounts, NEW e \in Expirations,
         ExecApprove(signed, from, spender, n, e),
         UNCHANGED to_ledger, pending' \in SUBSET PendingCommand
  PROVE  InStep
<1>1. CASE /\ rejected(signed, approve_result(signed, from, n, e))
           /\ UNCHANGED mirror
  BY <1>1, FailedInStep
<1>2. CASE approve(signed, from, spender, n, e) /\ UNCHANGED cs_balances
  <2>1. TokenInv'
    BY <1>2, TokenNextInv DEF OracleTypes, TokenNext
  <2>2. UNCHANGED <<sequence, balances>>
    BY <1>2 DEF approve
  <2> QED  BY <1>2, <2>1, <2>2 DEF InStep, OracleTypes, Prolonged, Gap
<1> QED  BY <1>1, <1>2 DEF ExecApprove

(* The mirror of a transfer, in whatever range.                            *)
LEMMA MirrorMoved ==
  ASSUME cs_balances \in [Address -> Int], NEW from \in Address,
         NEW to \in Address, NEW n \in Nat
  PROVE  /\ moved(from, to, n) \in [Address -> Int]
         /\ \A a \in Address : moved(from, to, n)[a] =
              cs_balances[a] - (IF a = from THEN n ELSE 0)
                             + (IF a = to THEN n ELSE 0)
<1> DEFINE mid == sub_balance(cs_balances, from, n)
<1>1. /\ mid \in [Address -> Int]
      /\ \A a \in Address : mid[a] =
           IF a = from THEN cs_balances[a] - n ELSE cs_balances[a]
  BY DEF sub_balance
<1> HIDE DEF mid
<1>2. /\ add_balance(mid, to, n) \in [Address -> Int]
      /\ \A a \in Address : add_balance(mid, to, n)[a] =
           IF a = to THEN mid[a] + n ELSE mid[a]
  BY <1>1 DEF add_balance
<1>3. moved(from, to, n) = add_balance(mid, to, n)
  BY DEF moved, mid
<1> QED  BY <1>1, <1>2, <1>3

(* A balance moves, and the mirror follows.                                *)
LEMMA MoveInStep ==
  ASSUME OracleTypes, NEW from \in Address, NEW to \in Address, NEW n \in Nat,
         n <= balances[from].amount,
         ~(spend_balance(balances, from, n)[to].amount + n > I128_MAX),
         balances' = receive_balance(spend_balance(balances, from, n), to, n),
         cs_balances' = moved(from, to, n)
  PROVE  /\ cs_balances' \in [Address -> Int]
         /\ \A a \in Address : Gap(a)' = Gap(a)
         /\ Prolonged(balances, balances')
<1>1. /\ Prolonged(balances, balances')
      /\ \A a \in Address : balances'[a].amount =
           balances[a].amount - (IF a = from THEN n ELSE 0)
                              + (IF a = to THEN n ELSE 0)
  BY OracleFacts, MoveBalance
<1>2. /\ cs_balances' \in [Address -> Int]
      /\ \A a \in Address : cs_balances'[a] =
           cs_balances[a] - (IF a = from THEN n ELSE 0)
                          + (IF a = to THEN n ELSE 0)
  BY MirrorMoved DEF OracleTypes
<1>3. \A a \in Address : Gap(a)' = Gap(a)
  BY <1>1, <1>2, OracleFacts DEF Gap
<1> QED  BY <1>1, <1>2, <1>3

(* Tokens are burned, and the mirror follows.                              *)
LEMMA DebitInStep ==
  ASSUME OracleTypes, NEW from \in Address, NEW n \in Nat,
         n <= balances[from].amount,
         balances' = spend_balance(balances, from, n),
         cs_balances' = sub_balance(cs_balances, from, n)
  PROVE  /\ cs_balances' \in [Address -> Int]
         /\ \A a \in Address : Gap(a)' = Gap(a)
         /\ Prolonged(balances, balances')
<1>1. /\ Prolonged(balances, balances')
      /\ \A a \in Address : balances'[a].amount =
           IF a = from THEN balances[a].amount - n ELSE balances[a].amount
  BY OracleFacts, SpendBalance
<1>2. /\ cs_balances' \in [Address -> Int]
      /\ \A a \in Address : cs_balances'[a] =
           IF a = from THEN cs_balances[a] - n ELSE cs_balances[a]
  BY DEF OracleTypes, sub_balance
<1>3. \A a \in Address : Gap(a)' = Gap(a)
  BY <1>1, <1>2, OracleFacts DEF Gap
<1> QED  BY <1>1, <1>2, <1>3

(* transfer, by the owner.                                                 *)
LEMMA TransferInStep ==
  ASSUME OracleTypes, NEW signed \in AuthSets, NEW from \in Address,
         NEW to \in Address, NEW n \in Amounts, ExecTransfer(signed, from, to, n),
         UNCHANGED to_ledger, pending' \in SUBSET PendingCommand
  PROVE  InStep
<1>1. CASE /\ rejected(signed, transfer_result(signed, from, to, n))
           /\ UNCHANGED mirror
  BY <1>1, FailedInStep
<1>2. CASE transfer(signed, from, to, n) /\ cs_balances' = moved(from, to, n)
  <2>1. /\ ~(n < 0) /\ ~(balances[from].amount < n)
        /\ ~(spend_balance(balances, from, n)[to].amount + n > I128_MAX)
    BY <1>2, TransferChecks, Zenon DEF transfer
  <2>2. n \in Nat /\ n <= balances[from].amount
    BY <2>1, InputTypes, OracleFacts
  <2>3. TokenInv' /\ sequence' = sequence
    BY <1>2, TokenNextInv DEF OracleTypes, TokenNext, transfer
  <2>4. balances' = receive_balance(spend_balance(balances, from, n), to, n)
    BY <1>2 DEF transfer
  <2> QED  BY <1>2, <2>1, <2>2, <2>3, <2>4, MoveInStep DEF InStep, OracleTypes
<1> QED  BY <1>1, <1>2 DEF ExecTransfer

(* transfer_from, by a spender.                                            *)
LEMMA TransferFromInStep ==
  ASSUME OracleTypes, NEW signed \in AuthSets, NEW spender \in Address,
         NEW from \in Address, NEW to \in Address, NEW n \in Amounts,
         ExecTransferFrom(signed, spender, from, to, n),
         UNCHANGED to_ledger, pending' \in SUBSET PendingCommand
  PROVE  InStep
<1>1. CASE /\ rejected(signed, transfer_from_result(signed, spender, from, to, n))
           /\ UNCHANGED mirror
  BY <1>1, FailedInStep
<1>2. CASE /\ transfer_from(signed, spender, from, to, n)
           /\ cs_balances' = moved(from, to, n)
  <2>1. /\ ~(n < 0) /\ ~(balances[from].amount < n)
        /\ ~(spend_balance(balances, from, n)[to].amount + n > I128_MAX)
    BY <1>2, TransferFromChecks, Zenon DEF transfer_from
  <2>2. n \in Nat /\ n <= balances[from].amount
    BY <2>1, InputTypes, OracleFacts
  <2>3. TokenInv' /\ sequence' = sequence
    BY <1>2, TokenNextInv DEF OracleTypes, TokenNext, transfer_from
  <2>4. balances' = receive_balance(spend_balance(balances, from, n), to, n)
    BY <1>2 DEF transfer_from
  <2> QED  BY <1>2, <2>1, <2>2, <2>3, <2>4, MoveInStep DEF InStep, OracleTypes
<1> QED  BY <1>1, <1>2 DEF ExecTransferFrom

(* burn, by the owner.                                                     *)
LEMMA BurnInStep ==
  ASSUME OracleTypes, NEW signed \in AuthSets, NEW from \in Address,
         NEW n \in Amounts, ExecBurn(signed, from, n),
         UNCHANGED to_ledger, pending' \in SUBSET PendingCommand
  PROVE  InStep
<1>1. CASE rejected(signed, burn_result(signed, from, n)) /\ UNCHANGED mirror
  BY <1>1, FailedInStep
<1>2. CASE /\ burn(signed, from, n)
           /\ cs_balances' = sub_balance(cs_balances, from, n)
  <2>1. ~(n < 0) /\ ~(balances[from].amount < n)
    BY <1>2, BurnChecks, Zenon DEF burn
  <2>2. n \in Nat /\ n <= balances[from].amount
    BY <2>1, InputTypes, OracleFacts
  <2>3. TokenInv' /\ sequence' = sequence
    BY <1>2, TokenNextInv DEF OracleTypes, TokenNext, burn
  <2>4. balances' = spend_balance(balances, from, n)
    BY <1>2 DEF burn
  <2> QED  BY <1>2, <2>2, <2>3, <2>4, DebitInStep DEF InStep, OracleTypes
<1> QED  BY <1>1, <1>2 DEF ExecBurn

(* burn_from, by a spender.                                                *)
LEMMA BurnFromInStep ==
  ASSUME OracleTypes, NEW signed \in AuthSets, NEW spender \in Address,
         NEW from \in Address, NEW n \in Amounts,
         ExecBurnFrom(signed, spender, from, n),
         UNCHANGED to_ledger, pending' \in SUBSET PendingCommand
  PROVE  InStep
<1>1. CASE /\ rejected(signed, burn_from_result(signed, spender, from, n))
           /\ UNCHANGED mirror
  BY <1>1, FailedInStep
<1>2. CASE /\ burn_from(signed, spender, from, n)
           /\ cs_balances' = sub_balance(cs_balances, from, n)
  <2>1. ~(n < 0) /\ ~(balances[from].amount < n)
    BY <1>2, BurnFromChecks, Zenon DEF burn_from
  <2>2. n \in Nat /\ n <= balances[from].amount
    BY <2>1, InputTypes, OracleFacts
  <2>3. TokenInv' /\ sequence' = sequence
    BY <1>2, TokenNextInv DEF OracleTypes, TokenNext, burn_from
  <2>4. balances' = spend_balance(balances, from, n)
    BY <1>2 DEF burn_from
  <2> QED  BY <1>2, <2>2, <2>3, <2>4, DebitInStep DEF InStep, OracleTypes
<1> QED  BY <1>1, <1>2 DEF ExecBurnFrom

(* After a command the run goes on with commands, or with an alarm.        *)
LEMMA VerdictPhase ==
  ASSUME NEW r, NEW signed, NEW signer, NEW amount, NEW fits
  PROVE  Verdict(r, signed, signer, amount, fits) \in {"commands"} \cup Alarms
  BY DEF Verdict, Alarms

(* All commands, and the second halves of those that have two.             *)
LEMMA CommandsInStep ==
  ASSUME OracleTypes,
         \/ Mint \/ Approve \/ TransferFrom \/ Transfer \/ BurnFrom \/ Burn
         \/ ApproveAndTransferFrom \/ ApproveAndBurnFrom \/ SecondHalf
  PROVE  InStep /\ phase = "commands" /\ phase' \in {"commands"} \cup Alarms
<1>0. UNCHANGED to_ledger /\ phase = "commands"
  BY DEF Mint, Approve, TransferFrom, Transfer, BurnFrom, Burn,
     ApproveAndTransferFrom, ApproveAndBurnFrom, ApproveAndSpend, TakeCommand,
     SecondHalf, progress
<1>1. CASE Mint
  <2>1. PICK signed \in AuthSets, to \in Address, n \in Amounts :
          ExecMint(signed, to, n)
    BY <1>1 DEF Mint
  <2>2. pending' \in SUBSET PendingCommand
    BY <1>1 DEF Mint
  <2>3. phase' \in {"commands"} \cup Alarms
    BY <2>1, VerdictPhase DEF ExecMint
  <2> QED  BY <1>0, <2>1, <2>2, <2>3, MintInStep
<1>2. CASE Approve
  <2>1. PICK signed \in AuthSets, from \in Address, spender \in Address,
             n \in Amounts, e \in Expirations :
          ExecApprove(signed, from, spender, n, e)
    BY <1>2 DEF Approve
  <2>2. pending' \in SUBSET PendingCommand
    BY <1>2 DEF Approve
  <2>3. phase' \in {"commands"} \cup Alarms
    BY <2>1, VerdictPhase DEF ExecApprove
  <2> QED  BY <1>0, <2>1, <2>2, <2>3, ApproveInStep
<1>3. CASE TransferFrom
  <2>1. PICK signed \in AuthSets, spender \in Address, from \in Address,
             to \in Address, n \in Amounts :
          ExecTransferFrom(signed, spender, from, to, n)
    BY <1>3 DEF TransferFrom
  <2>2. pending' \in SUBSET PendingCommand
    BY <1>3 DEF TransferFrom
  <2>3. phase' \in {"commands"} \cup Alarms
    BY <2>1, VerdictPhase DEF ExecTransferFrom
  <2> QED  BY <1>0, <2>1, <2>2, <2>3, TransferFromInStep
<1>4. CASE Transfer
  <2>1. PICK signed \in AuthSets, from \in Address, to \in Address, n \in Amounts :
          ExecTransfer(signed, from, to, n)
    BY <1>4 DEF Transfer
  <2>2. pending' \in SUBSET PendingCommand
    BY <1>4 DEF Transfer
  <2>3. phase' \in {"commands"} \cup Alarms
    BY <2>1, VerdictPhase DEF ExecTransfer
  <2> QED  BY <1>0, <2>1, <2>2, <2>3, TransferInStep
<1>5. CASE BurnFrom
  <2>1. PICK signed \in AuthSets, spender \in Address, from \in Address,
             n \in Amounts : ExecBurnFrom(signed, spender, from, n)
    BY <1>5 DEF BurnFrom
  <2>2. pending' \in SUBSET PendingCommand
    BY <1>5 DEF BurnFrom
  <2>3. phase' \in {"commands"} \cup Alarms
    BY <2>1, VerdictPhase DEF ExecBurnFrom
  <2> QED  BY <1>0, <2>1, <2>2, <2>3, BurnFromInStep
<1>6. CASE Burn
  <2>1. PICK signed \in AuthSets, from \in Address, n \in Amounts :
          ExecBurn(signed, from, n)
    BY <1>6 DEF Burn
  <2>2. pending' \in SUBSET PendingCommand
    BY <1>6 DEF Burn
  <2>3. phase' \in {"commands"} \cup Alarms
    BY <2>1, VerdictPhase DEF ExecBurn
  <2> QED  BY <1>0, <2>1, <2>2, <2>3, BurnInStep
<1>7. CASE ApproveAndTransferFrom \/ ApproveAndBurnFrom
  <2>1. PICK k \in {"transfer_from", "burn_from"} : ApproveAndSpend(k)
    BY <1>7 DEF ApproveAndTransferFrom, ApproveAndBurnFrom
  <2>2. PICK signed \in AuthSets, from \in Address, spender \in Address,
             to \in Address, n \in Amounts, e \in Expirations :
          /\ pending' = {[kind |-> k, signed |-> signed, spender |-> spender,
                          from |-> from, to |-> to, amount |-> n]}
          /\ ExecApprove(signed, from, spender, n, e)
    BY <2>1 DEF ApproveAndSpend
  <2>3. pending' \in SUBSET PendingCommand
    BY <2>2 DEF PendingCommand
  <2>4. phase' \in {"commands"} \cup Alarms
    BY <2>2, VerdictPhase DEF ExecApprove
  <2> QED  BY <1>0, <2>2, <2>3, <2>4, ApproveInStep
<1>8. CASE SecondHalf
  <2>1. PICK c \in pending :
          \/ ExecTransferFrom(c.signed, c.spender, c.from, c.to, c.amount)
          \/ ExecBurnFrom(c.signed, c.spender, c.from, c.amount)
    BY <1>8 DEF SecondHalf
  <2>2. /\ c.signed \in AuthSets /\ c.amount \in Amounts
        /\ c.spender \in Address /\ c.from \in Address /\ c.to \in Address
        /\ pending' \in SUBSET PendingCommand
    BY <1>8 DEF OracleTypes, PendingCommand, SecondHalf
  <2>3. phase' \in {"commands"} \cup Alarms
    BY <2>1, VerdictPhase DEF ExecTransferFrom, ExecBurnFrom
  <2> QED  BY <1>0, <2>1, <2>2, <2>3, TransferFromInStep, BurnFromInStep
<1> QED  BY <1>1, <1>2, <1>3, <1>4, <1>5, <1>6, <1>7, <1>8

-----------------------------------------------------------------------------
(* Every step of the fuzzer keeps the difference.                          *)

(* The gap is an integer, and as long as it stays so does the difference.  *)
LEMMA SameDifference ==
  ASSUME Difference, UNCHANGED fault, \A a \in Address : Gap(a)' = Gap(a)
  PROVE  Difference'
  BY DEF Difference

(* Steps that change no amount and no lifetime of a balance.               *)
LEMMA BalancesUntouched ==
  ASSUME UNCHANGED <<balances, cs_balances>>
  PROVE  \A a \in Address : Gap(a)' = Gap(a)
  BY DEF Gap

(* Setup: no balance is stored yet.                                        *)
LEMMA SetupKeepsInv ==
  ASSUME OracleInv, RegisterContract \/ InitializeContract, UNCHANGED fault
  PROVE  OracleInv'
<1>0. OracleTypes /\ balances = no_balances
  BY DEF OracleInv, NothingStored, RegisterContract, InitializeContract
<1>1. /\ UNCHANGED <<sequence, auths, balances, allowances>>
      /\ UNCHANGED <<cs_balances, pending, to_ledger>>
      /\ phase' \in {"registered", "commands", "InitializeFailed"}
  BY DEF RegisterContract, InitializeContract, initialize, rejected, storage,
     mirror, progress
<1>2. instance' \in InstanceEntry
  <2>1. CASE RegisterContract
    BY <1>0, <2>1, OracleFacts, InstanceEntries DEF RegisterContract
  <2>2. CASE InitializeContract /\ initialize(Account0, DECIMAL)
    BY <1>0, <2>2, OracleFacts, SumFacts, TokenAssumption, FuzzerAssumption
    DEF initialize, InstanceEntry, DECIMAL
  <2>3. CASE InitializeContract /\ UNCHANGED instance
    BY <1>0, <2>3, OracleFacts
  <2> QED  BY <2>1, <2>2, <2>3 DEF InitializeContract, rejected, storage
<1>3. TokenInv'
  BY <1>0, <1>1, <1>2, OracleFacts, TokenInvParts
  DEF OracleTypes, InstanceEntry, TokenInv, TokenTypeOK
<1>4. OracleTypes'
  BY <1>0, <1>1, <1>3 DEF OracleTypes
<1>5. BalancesSurviveTransaction' /\ NothingStored' /\ WithinADay'
  BY <1>0, <1>1
  DEF BalancesSurviveTransaction, NothingStored, WithinADay, no_balances, NoBalance
<1>6. Difference'
  BY <1>1, BalancesUntouched, SameDifference DEF OracleInv
<1> QED  BY <1>1, <1>4, <1>5, <1>6 DEF OracleInv

(* Commands.                                                               *)
LEMMA CommandKeepsInv ==
  ASSUME OracleInv, UNCHANGED fault,
         \/ Mint \/ Approve \/ TransferFrom \/ Transfer \/ BurnFrom \/ Burn
         \/ ApproveAndTransferFrom \/ ApproveAndBurnFrom \/ SecondHalf
  PROVE  OracleInv'
<1>0. OracleTypes
  BY DEF OracleInv
<1>1. InStep /\ phase = "commands" /\ phase' \in {"commands"} \cup Alarms
  BY <1>0, CommandsInStep
<1>2. BalancesSurviveTransaction'
  <2> SUFFICES ASSUME NEW a \in Address, balances'[a].live_until # Absent,
                      phase' = "commands"
               PROVE  balances'[a].live_until >= sequence' + DAY_IN_LEDGERS
    BY <1>1 DEF BalancesSurviveTransaction, Alarms
  <2>1. /\ sequence' = sequence /\ sequence \in Nat
        /\ balances'[a].live_until \in Int
    BY <1>0, <1>1, OracleFacts DEF InStep, OracleTypes, TokenInv, TokenTypeOK
  <2>2. CASE balances'[a].live_until = balances[a].live_until
    BY <1>1, <2>1, <2>2 DEF OracleInv, BalancesSurviveTransaction
  <2>3. CASE balances'[a].live_until >= sequence + BALANCE_LIFETIME_THRESHOLD
    BY <2>1, <2>3, FuzzerAssumption, TokenAssumption
  <2> QED  BY <1>1, <2>2, <2>3 DEF InStep, Prolonged
<1>3. WithinADay' /\ NothingStored' /\ phase' # "Keep"
  BY <1>1 DEF WithinADay, NothingStored, Alarms
<1>4. Difference'
  BY <1>1, SameDifference DEF OracleInv, InStep
<1> QED  BY <1>1, <1>2, <1>3, <1>4 DEF OracleInv, InStep

(* The end of the commands, of time, or of the run.                        *)
LEMMA PhaseKeepsInv ==
  ASSUME OracleInv, UNCHANGED fault,
         \/ RejectInput \/ SignatureExpiryOverflows \/ LedgerOverflows
         \/ UNCHANGED vars
         \/ \E n \in Advances : EndCommands(n)
  PROVE  OracleInv'
<1>0. OracleTypes
  BY DEF OracleInv
<1>1. UNCHANGED <<tokenVars, mirror, pending>>
  BY DEF RejectInput, SignatureExpiryOverflows, LedgerOverflows, EndCommands, vars
<1>2. UNCHANGED <<sequence, auths, instance, balances, allowances, cs_balances, pending>>
  BY <1>1 DEF tokenVars, storage, mirror
<1>3. Difference'
  BY <1>2, BalancesUntouched, SameDifference DEF OracleInv
<1>4. TokenInv'
  BY <1>2 DEF OracleInv, OracleTypes, TokenInv, TokenTypeOK,
     AllowanceEntryOutlivesAllowance
<1>5. CASE \E n \in Advances : EndCommands(n)
  <2>1. PICK n \in Advances : EndCommands(n)
    BY <1>5
  <2>2. /\ n \in 1 .. DAY_IN_LEDGERS /\ sequence \in Nat
        /\ DAY_IN_LEDGERS \in Nat
        /\ to_ledger' = sequence + n
        /\ phase = "commands"
        /\ phase' = IF to_ledger' <= U32_MAX THEN "advance" ELSE "EndOfTime"
    BY <1>0, <2>1, OracleFacts, TokenAssumption DEF EndCommands
  <2>3. OracleTypes'
    BY <1>0, <1>2, <1>4, <2>2 DEF OracleTypes
  <2>4. WithinADay' /\ NothingStored' /\ phase' # "Keep"
    BY <1>2, <2>2 DEF WithinADay, NothingStored
  <2>5. BalancesSurviveTransaction'
    <3> SUFFICES ASSUME NEW a \in Address, balances[a].live_until # Absent
                 PROVE  balances[a].live_until >= to_ledger'
      BY <1>2, <2>2 DEF BalancesSurviveTransaction
    <3>1. /\ balances[a].live_until >= sequence + DAY_IN_LEDGERS
          /\ balances[a].live_until \in Int
      BY <1>0, <2>2, OracleFacts DEF OracleInv, BalancesSurviveTransaction
    <3> QED  BY <2>2, <3>1
  <2> QED  BY <1>3, <2>3, <2>4, <2>5 DEF OracleInv
<1>6. CASE \/ RejectInput \/ SignatureExpiryOverflows \/ LedgerOverflows
           \/ UNCHANGED vars
  <2>1. UNCHANGED to_ledger /\ phase' \in {phase, "Reject", "EndOfTime"}
    BY <1>6 DEF RejectInput, SignatureExpiryOverflows, LedgerOverflows, vars,
       progress, OracleInv, WithinADay
  <2>2. OracleTypes'
    BY <1>0, <1>2, <1>4, <2>1 DEF OracleTypes
  <2>3. /\ WithinADay' /\ NothingStored' /\ BalancesSurviveTransaction'
        /\ fault = "balance" => phase' # "Keep"
    BY <1>2, <2>1
    DEF OracleInv, WithinADay, NothingStored, BalancesSurviveTransaction
  <2> QED  BY <1>3, <2>2, <2>3 DEF OracleInv
<1> QED  BY <1>5, <1>6

(* The hops: no balance is purged, right or wrong.                         *)
LEMMA HopKeepsInv ==
  ASSUME OracleInv, UNCHANGED fault, LastHop \/ HopAndPing
  PROVE  OracleInv'
<1>0. /\ OracleTypes /\ phase = "advance" /\ sequence < to_ledger
      /\ advance_env(next_ledger)
  BY DEF OracleInv, WithinADay, LastHop, HopAndPing
<1>1. /\ sequence \in Nat /\ to_ledger \in Nat /\ to_ledger <= U32_MAX
      /\ to_ledger <= sequence + DAY_IN_LEDGERS
      /\ MAX_LEDGERS_TO_ADVANCE \in Nat /\ DAY_IN_LEDGERS \in Nat /\ U32_MAX \in Nat
  BY <1>0, OracleFacts, FuzzerAssumption, TokenAssumption
  DEF OracleInv, WithinADay, OracleTypes
<1>2. PICK next \in Nat : next = next_ledger /\ next <= to_ledger
  BY <1>1 DEF next_ledger
<1>3. balances' = balances
  <2>1. ASSUME NEW a \in Address PROVE ~Expired(balances[a].live_until, next)
    BY <1>0, <1>1, <1>2, OracleFacts
    DEF Expired, OracleInv, BalancesSurviveTransaction
  <2>2. balances' = [a \in Address |-> balances[a]]
    BY <1>0, <1>2, <2>1 DEF advance_env, purge
  <2> QED  BY <1>0, <2>2, OracleFacts
<1>4. sequence' = next /\ auths' = {} /\ sequence' \in 0 .. U32_MAX
  BY <1>0, <1>1, <1>2 DEF advance_env
<1>5. /\ allowances' \in [Pair -> AllowanceEntry]
      /\ AllowanceEntryOutlivesAllowance'
  <2>1. allowances' = [p \in Pair |-> purge(allowances[p], NoAllowance, next)]
    BY <1>0, <1>2 DEF advance_env, Pair
  <2>2. \A p \in Pair : allowances'[p] = allowances[p] \/ allowances'[p] = NoAllowance
    BY <2>1 DEF purge
  <2>3. NoAllowance \in AllowanceEntry
    BY TokenAssumption DEF NoAllowance, AllowanceEntry, Absent
  <2>4. allowances' \in [Pair -> AllowanceEntry]
    BY <1>0, <2>1, <2>2, <2>3, OracleFacts
  <2>5. AllowanceEntryOutlivesAllowance'
    BY <1>0, <2>2
    DEF OracleTypes, TokenInv, AllowanceEntryOutlivesAllowance, NoAllowance, Pair
  <2> QED  BY <2>4, <2>5
<1>6. instance' \in InstanceEntry
  <2>1. reregister_contract(next) \in InstanceEntry
    BY <1>0, <1>2, OracleFacts, InstanceEntries DEF reregister_contract
  <2>2. \/ instance' = reregister_contract(next)
        \/ instance' = extend_instance(reregister_contract(next), next)
    BY <1>0, <1>2 DEF LastHop, HopAndPing
  <2> QED  BY <1>2, <2>1, <2>2, InstanceEntries
<1>7. TokenInv'
  BY <1>0, <1>3, <1>4, <1>5, <1>6, OracleFacts, TokenInvParts
  DEF OracleTypes, InstanceEntry
<1>8. UNCHANGED <<pending, to_ledger, cs_balances>>
  BY DEF LastHop, HopAndPing, progress, mirror
<1>9. OracleTypes'
  BY <1>0, <1>7, <1>8 DEF OracleTypes
<1>10. /\ phase' \in {"advance", "sync", "ContractGone"}
       /\ phase' = "advance" => next # to_ledger
       /\ next >= sequence
  <2>1. next >= sequence
    BY <1>0, <1>1, <1>2 DEF next_ledger
  <2> QED  BY <1>0, <1>2, <2>1 DEF LastHop, HopAndPing
<1>11. WithinADay' /\ NothingStored' /\ BalancesSurviveTransaction'
  <2>1. WithinADay'
    <3>1. phase' = "advance" => next < to_ledger
      BY <1>1, <1>2, <1>10
    <3>2. to_ledger <= next + DAY_IN_LEDGERS
      BY <1>1, <1>10
    <3> QED  BY <1>1, <1>4, <1>8, <3>1, <3>2 DEF WithinADay
  <2>2. NothingStored' /\ BalancesSurviveTransaction'
    BY <1>0, <1>3, <1>8, <1>10
    DEF NothingStored, BalancesSurviveTransaction, OracleInv
  <2> QED  BY <2>1, <2>2
<1>12. Difference'
  BY <1>3, <1>8, BalancesUntouched, SameDifference DEF OracleInv
<1> QED  BY <1>9, <1>10, <1>11, <1>12 DEF OracleInv

(* The synchronisation reads allowances and leaves balances alone.         *)
LEMMA SyncKeepsInv ==
  ASSUME OracleInv, UNCHANGED fault, SyncAllowances
  PROVE  OracleInv'
<1>0. OracleTypes
  BY DEF OracleInv
<1>1. /\ UNCHANGED <<sequence, auths, balances, allowances>>
      /\ UNCHANGED <<pending, to_ledger, cs_balances>>
      /\ phase' \in {"assert", "ContractGone"}
      /\ instance' = bump_instance(sequence) \/ UNCHANGED instance
  BY DEF SyncAllowances, progress
<1>2. instance' \in InstanceEntry
  BY <1>0, <1>1, OracleFacts, BumpedInstance
<1>3. TokenInv'
  BY <1>0, <1>1, <1>2, OracleFacts, TokenInvParts
  DEF OracleTypes, InstanceEntry, TokenInv, TokenTypeOK
<1>4. OracleTypes'
  BY <1>0, <1>1, <1>3 DEF OracleTypes
<1>5. WithinADay' /\ NothingStored' /\ BalancesSurviveTransaction'
  BY <1>1 DEF WithinADay, NothingStored, BalancesSurviveTransaction
<1>6. Difference'
  BY <1>1, BalancesUntouched, SameDifference DEF OracleInv
<1> QED  BY <1>1, <1>4, <1>5, <1>6 DEF OracleInv

(* assert_state sees the difference: the run ends with an alarm.           *)
LEMMA AssertKeepsInv ==
  ASSUME OracleInv, UNCHANGED fault, AssertState
  PROVE  OracleInv'
<1>0. OracleTypes /\ sequence \in Nat
  BY OracleFacts DEF OracleInv
<1>1. /\ UNCHANGED <<sequence, auths, allowances, pending, to_ledger, cs_balances>>
      /\ instance' = bump_instance(sequence)
      /\ balances' = [a \in Address |-> bump_balance(balances[a], sequence)]
      /\ phase' \in {"commands", "Keep", "StateMismatch"}
      /\ phase' = "Keep" => state_matches
  BY DEF AssertState, progress, mirror
<1>2. /\ balances' \in [Address -> BalanceEntry]
      /\ \A a \in Address :
           /\ balances'[a].amount = balances[a].amount
           /\ balances'[a].live_until # Absent =>
                balances'[a].live_until >= sequence + DAY_IN_LEDGERS
  BY <1>0, <1>1, OracleFacts, BumpedBalance
<1>3. instance' \in InstanceEntry
  BY <1>0, <1>1, OracleFacts, BumpedInstance
<1>4. TokenInv'
  BY <1>0, <1>1, <1>2, <1>3, OracleFacts, TokenInvParts
  DEF OracleTypes, InstanceEntry, TokenInv, TokenTypeOK
<1>5. OracleTypes'
  BY <1>0, <1>1, <1>4 DEF OracleTypes
<1>6. WithinADay' /\ NothingStored' /\ BalancesSurviveTransaction'
  BY <1>1, <1>2 DEF WithinADay, NothingStored, BalancesSurviveTransaction
<1>7. Difference'
  BY <1>1, <1>2, SameDifference DEF OracleInv, Gap
<1>8. state_matches => \A a \in Address : Gap(a) = 0
  BY <1>0, OracleFacts DEF state_matches, Gap, Balance, read_balance
<1>9. fault = "balance" => phase' # "Keep"
  BY <1>1, <1>8 DEF OracleInv, Difference
<1> QED  BY <1>5, <1>6, <1>7, <1>9 DEF OracleInv

-----------------------------------------------------------------------------
(* The token goes wrong.                                                   *)

(* A wrong write makes a difference where there was none, and gives the    *)
(* entry it writes a lifetime like any other.                              *)
LEMMA WrongBalanceKeepsInv ==
  ASSUME OracleInv, GoWrong("balance"), UNCHANGED allowances,
         balances' \in [Address -> BalanceEntry],
         Prolonged(balances, balances'),
         \E a \in Address : balances'[a].amount # balances[a].amount
  PROVE  OracleInv'
<1>0. /\ OracleTypes /\ sequence \in Nat /\ DAY_IN_LEDGERS \in Nat
      /\ phase \in {"commands", "advance"}
      /\ fault = "none" /\ fault' = "balance"
  BY OracleFacts, TokenAssumption DEF OracleInv, GoWrong
<1>1. UNCHANGED <<sequence, auths, instance, allowances, phase, pending, to_ledger, cs_balances>>
  BY DEF GoWrong, progress, mirror
<1>2. TokenInv'
  BY <1>0, <1>1, OracleFacts, TokenInvParts
  DEF OracleTypes, InstanceEntry, TokenInv, TokenTypeOK
<1>3. OracleTypes'
  BY <1>0, <1>1, <1>2 DEF OracleTypes
<1>4. WithinADay' /\ NothingStored'
  BY <1>0, <1>1 DEF OracleInv, WithinADay, NothingStored
<1>5. BalancesSurviveTransaction'
  <2> SUFFICES ASSUME NEW a \in Address, balances'[a].live_until # Absent
               PROVE  /\ phase = "commands" =>
                           balances'[a].live_until >= sequence + DAY_IN_LEDGERS
                      /\ phase = "advance" => balances'[a].live_until >= to_ledger
    BY <1>1 DEF BalancesSurviveTransaction
  <2>1. balances'[a].live_until \in Int /\ to_ledger \in Nat
    BY <1>0 DEF BalanceEntry, OracleTypes
  <2>2. CASE balances'[a].live_until = balances[a].live_until
    BY <2>2 DEF OracleInv, BalancesSurviveTransaction
  <2>3. CASE balances'[a].live_until >= sequence + BALANCE_LIFETIME_THRESHOLD
    <3>1. balances'[a].live_until >= sequence + DAY_IN_LEDGERS
      BY <1>0, <2>1, <2>3, FuzzerAssumption, TokenAssumption
    <3> QED  BY <1>0, <2>1, <3>1 DEF OracleInv, WithinADay
  <2> QED  BY <2>2, <2>3 DEF Prolonged
<1>6. PICK a \in Address : balances'[a].amount # balances[a].amount
  OBVIOUS
<1>7. Gap(a)' # 0
  <2>1. /\ cs_balances[a] \in Int /\ balances[a].amount \in Int
        /\ balances'[a].amount \in Int
        /\ cs_balances'[a] = cs_balances[a]
        /\ cs_balances[a] - balances[a].amount = 0
    BY <1>0, <1>1, <1>6, OracleFacts, TokenAssumption
    DEF OracleInv, Difference, Gap, BalanceEntry
  <2> QED  BY <1>6, <2>1 DEF Gap
<1>8. Difference'
  BY <1>0, <1>6, <1>7 DEF Difference
<1> QED  BY <1>0, <1>1, <1>3, <1>4, <1>5, <1>8 DEF OracleInv

(* Tokens appear or vanish.                                                *)
LEMMA ForgeKeepsInv ==
  ASSUME OracleInv, ForgeBalance
  PROVE  OracleInv'
<1>0. OracleTypes /\ sequence \in Nat /\ balances \in [Address -> BalanceEntry]
  BY OracleFacts DEF OracleInv
<1>1. PICK a \in Address, n \in 0 .. I128_MAX :
        n # Balance(a) /\ balances' = write_balance(balances, a, n)
  BY DEF ForgeBalance
<1>2. PICK u \in Int :
        /\ u >= sequence + BALANCE_LIFETIME_THRESHOLD
        /\ balances' = [balances EXCEPT ![a] = [amount |-> n, live_until |-> u]]
  BY <1>0, <1>1, WriteBalance
<1>3. /\ balances' \in [Address -> BalanceEntry]
      /\ balances'[a].amount # balances[a].amount
      /\ Prolonged(balances, balances')
  BY <1>0, <1>1, <1>2 DEF BalanceEntry, Prolonged, Balance, read_balance
<1> QED  BY <1>1, <1>3, WrongBalanceKeepsInv DEF ForgeBalance

(* Tokens change hands.                                                    *)
LEMMA MisplaceKeepsInv ==
  ASSUME OracleInv, MisplaceBalance
  PROVE  OracleInv'
<1>0. /\ OracleTypes /\ sequence \in Nat /\ balances \in [Address -> BalanceEntry]
      /\ \A a \in Address : balances[a].amount \in 0 .. I128_MAX
  BY OracleFacts DEF OracleInv
<1>1. PICK a \in Address, b \in Address, n \in 1 .. I128_MAX :
        /\ a # b
        /\ balances[a].amount >= n /\ balances[b].amount + n <= I128_MAX
        /\ balances' = receive_balance(spend_balance(balances, a, n), b, n)
  BY DEF MisplaceBalance, Balance, read_balance
<1>2. n \in Nat /\ n <= balances[a].amount
  BY <1>0, <1>1, TokenAssumption
<1>3. spend_balance(balances, a, n)[b].amount = balances[b].amount
  BY <1>0, <1>1, <1>2, SpendBalance
<1>4. ~(spend_balance(balances, a, n)[b].amount + n > I128_MAX)
  BY <1>0, <1>1, <1>2, <1>3, TokenAssumption
<1>5. /\ balances' \in [Address -> BalanceEntry]
      /\ balances'[a].amount = balances[a].amount - n
      /\ Prolonged(balances, balances')
  BY <1>0, <1>1, <1>2, <1>4, MoveBalance
<1>6. balances'[a].amount # balances[a].amount
  BY <1>0, <1>1, <1>5, TokenAssumption
<1> QED  BY <1>1, <1>5, <1>6, WrongBalanceKeepsInv DEF MisplaceBalance

(* Of the allowances one is lost, and the others read as before.           *)
LEMMA AllowanceLost ==
  ASSUME TokenInv, LoseAllowance
  PROVE  /\ allowances' \in [Pair -> AllowanceEntry]
         /\ AllowanceEntryOutlivesAllowance'
         /\ \A p \in Pair : Allowance(p)' = Allowance(p) \/ Allowance(p)' = 0
<1>0. sequence \in Nat /\ allowances \in [Pair -> AllowanceEntry] /\ sequence' = sequence
  BY TokenAssumption
  DEF TokenInv, TokenTypeOK, AllowanceEntry, Pair, LoseAllowance, GoWrong
<1>1. PICK pair \in Pair :
        allowances' = write_allowance(pair, 0, allowances[pair].expiration_ledger)
  BY DEF LoseAllowance, Pair
<1>2. PICK e \in Nat : e = allowances[pair].expiration_ledger
  BY <1>0 DEF AllowanceEntry
<1>3. PICK z \in 0 .. I128_MAX : z = 0 /\ ~(z > 0 /\ e < sequence)
  BY TokenAssumption
<1>4. allowances' = write_allowance(pair, z, e)
  <2>1. z = 0
    BY <1>3
  <2> QED  BY <2>1, <1>1, <1>2, Zenon
<1>5. \E u \in Int :
        /\ z > 0 => u >= e
        /\ write_allowance(pair, z, e) =
             [allowances EXCEPT ![pair] =
                [amount |-> z, expiration_ledger |-> e, live_until |-> u]]
  <2>1. ~(z > 0 /\ e < sequence)
    BY <1>3
  <2> QED  BY <1>0, <2>1, WriteAllowance
<1>6. PICK u \in Int :
        /\ z > 0 => u >= e
        /\ allowances' = [allowances EXCEPT ![pair] =
             [amount |-> z, expiration_ledger |-> e, live_until |-> u]]
  BY <1>4, <1>5
<1>7. allowances' \in [Pair -> AllowanceEntry] /\ AllowanceEntryOutlivesAllowance'
  BY <1>6, AllowanceWritten
<1>8. ASSUME NEW p \in Pair
      PROVE  Allowance(p)' = Allowance(p) \/ Allowance(p)' = 0
  <2>1. CASE p = pair
    <3>1. allowances'[p].amount = 0
      BY <1>0, <1>3, <1>6, <2>1
    <3> QED  BY <3>1 DEF Allowance, read_allowance
  <2>2. CASE p # pair
    <3>1. allowances'[p] = allowances[p]
      BY <1>0, <1>6, <2>2
    <3> QED  BY <1>0, <3>1 DEF Allowance
  <2> QED  BY <2>1, <2>2
<1> QED  BY <1>7, <1>8

(* A lost allowance is another fault, and makes no difference to balances. *)
LEMMA LoseKeepsInv ==
  ASSUME OracleInv, LoseAllowance
  PROVE  OracleInv'
<1>0. OracleTypes /\ TokenInv /\ fault' = "allowance"
  BY DEF OracleInv, OracleTypes, LoseAllowance, GoWrong
<1>1. UNCHANGED <<sequence, auths, instance, balances, phase, pending, to_ledger, cs_balances>>
  BY DEF LoseAllowance, GoWrong, progress, mirror
<1>2. TokenInv'
  BY <1>0, <1>1, AllowanceLost, OracleFacts, TokenInvParts
  DEF OracleTypes, InstanceEntry, TokenInv, TokenTypeOK
<1> QED
  BY <1>0, <1>1, <1>2
  DEF OracleInv, OracleTypes, BalancesSurviveTransaction, WithinADay,
     NothingStored, Difference

-----------------------------------------------------------------------------
(* The result.                                                             *)

(* A run begins without a difference.                                      *)
LEMMA OracleInitInv == OracleInit => OracleInv
<1> SUFFICES ASSUME OracleInit PROVE OracleInv
  OBVIOUS
<1>1. FuzzInv({})
  BY InitInv DEF OracleInit
<1>2. OracleTypes
  BY <1>1, Types, TokenAssumption DEF OracleTypes
<1>3. Difference
  BY DEF OracleInit, Init, Difference, Gap, no_balances, NoBalance
<1> QED
  BY <1>1, <1>2, <1>3
  DEF OracleInv, FuzzInv, OracleInit, Init, WithinADay, NothingStored

(* Steps of the fuzzer and of a token that goes wrong keep the invariant.  *)
LEMMA OracleNextInv ==
  ASSUME OracleInv, [OracleNext]_oracleVars
  PROVE  OracleInv'
<1>1. CASE FuzzerStep
  <2>1. Next /\ UNCHANGED fault
    BY <1>1 DEF FuzzerStep
  <2> QED
    BY <2>1, SetupKeepsInv, CommandKeepsInv, PhaseKeepsInv, HopKeepsInv,
       SyncKeepsInv, AssertKeepsInv
    DEF Next, Done
<1>2. CASE UNCHANGED oracleVars
  BY <1>2, PhaseKeepsInv DEF oracleVars
<1> QED
  BY <1>1, <1>2, ForgeKeepsInv, MisplaceKeepsInv, LoseKeepsInv DEF OracleNext

(* Of every state of a run.                                                *)
LEMMA OracleSpecInv == OracleSpec => []OracleInv
<1>1. OracleInv /\ [OracleNext]_oracleVars => OracleInv'
  BY OracleNextInv
<1> QED  BY <1>1, OracleInitInv, PTL DEF OracleSpec

(* Whatever the input, however many commands and hops follow, and whenever *)
(* in a transaction the token gets a balance wrong: fuzz_token does not    *)
(* return Corpus::Keep.                                                    *)
THEOREM WrongBalancesAreNeverKept == OracleSpec => []WrongBalanceIsNeverKept
<1>1. OracleInv => WrongBalanceIsNeverKept
  <2> SUFFICES ASSUME OracleInv, fault = "balance"
               PROVE  phase # "Keep" /\ \E a \in Address : cs_balances[a] # Balance(a)
    BY DEF WrongBalanceIsNeverKept
  <2>1. PICK a \in Address : Gap(a) # 0
    BY DEF OracleInv, Difference
  <2>2. cs_balances[a] # Balance(a)
    BY <2>1, OracleFacts DEF OracleInv, Gap, Balance, read_balance
  <2> QED  BY <2>2 DEF OracleInv
<1> QED  BY <1>1, OracleSpecInv, PTL

(* A token that is not set up has done nothing wrong yet, and never will   *)
(* if the input is turned down.                                            *)
SetUpFirst == phase \in {"start", "registered", "Reject"} => fault = "none"

(* No step leads back to the setup.                                        *)
LEMMA SetUpFirstNext ==
  ASSUME SetUpFirst, [OracleNext]_oracleVars
  PROVE  SetUpFirst'
<1>1. CASE FuzzerStep
  <2>1. Next /\ UNCHANGED fault
    BY <1>1 DEF FuzzerStep
  <2>2. CASE \/ Mint \/ Approve \/ TransferFrom \/ Transfer \/ BurnFrom \/ Burn
             \/ ApproveAndTransferFrom \/ ApproveAndBurnFrom \/ SecondHalf
    <3>1. ASSUME NEW signed, NEW x, NEW y, NEW to, NEW n, NEW e,
                 \/ ExecMint(signed, x, n)
                 \/ ExecApprove(signed, x, y, n, e)
                 \/ ExecTransferFrom(signed, x, y, to, n)
                 \/ ExecTransfer(signed, x, y, n)
                 \/ ExecBurnFrom(signed, x, y, n)
                 \/ ExecBurn(signed, x, n)
          PROVE  phase' \notin {"start", "registered", "Reject"}
      <4>1. \E r, signer, fits : phase' = Verdict(r, signed, signer, n, fits)
        BY <3>1 DEF ExecMint, ExecApprove, ExecTransferFrom, ExecTransfer,
           ExecBurnFrom, ExecBurn
      <4> QED  BY <4>1 DEF Verdict
    <3>2. phase' \notin {"start", "registered", "Reject"}
      BY <2>2, <3>1 DEF Mint, Approve, TransferFrom, Transfer, BurnFrom, Burn,
         ApproveAndTransferFrom, ApproveAndBurnFrom, ApproveAndSpend, SecondHalf
    <3> QED  BY <3>2 DEF SetUpFirst
  <2>3. CASE \/ RejectInput \/ RegisterContract \/ InitializeContract
             \/ SignatureExpiryOverflows \/ LastHop \/ HopAndPing
             \/ LedgerOverflows \/ SyncAllowances \/ AssertState
             \/ \E n \in Advances : EndCommands(n)
    BY <2>1, <2>3
    DEF SetUpFirst, RejectInput, RegisterContract, InitializeContract,
       SignatureExpiryOverflows, LastHop, HopAndPing, LedgerOverflows,
       TargetNotAhead, SyncAllowances, AssertState, EndCommands
  <2>4. CASE UNCHANGED vars
    BY <2>1, <2>4 DEF SetUpFirst, vars
  <2> QED  BY <2>1, <2>2, <2>3, <2>4 DEF Next, Done
<1>2. CASE ForgeBalance \/ MisplaceBalance \/ LoseAllowance
  BY <1>2 DEF ForgeBalance, MisplaceBalance, LoseAllowance, GoWrong, SetUpFirst
<1>3. CASE UNCHANGED oracleVars
  BY <1>3 DEF oracleVars, vars, SetUpFirst
<1> QED  BY <1>1, <1>2, <1>3 DEF OracleNext

(* A transaction begins after setup, or after an assert_state that found   *)
(* nothing.                                                                *)
LEMMA NewTransaction ==
  ASSUME OracleInv, SetUpFirst, [OracleNext]_oracleVars, fault = "balance",
         phase # "commands"
  PROVE  phase' # "commands"
<1> SUFFICES ASSUME phase' = "commands" PROVE FALSE
  OBVIOUS
<1>1. Next
  BY DEF OracleNext, ForgeBalance, MisplaceBalance, LoseAllowance, GoWrong,
     FuzzerStep, oracleVars, vars
<1>2. phase \notin {"start", "registered"}
  BY DEF SetUpFirst
<1>3. AssertState
  BY <1>1, <1>2
  DEF Next, RejectInput, RegisterContract, InitializeContract, Mint, Approve,
     TransferFrom, Transfer, BurnFrom, Burn, ApproveAndTransferFrom,
     ApproveAndBurnFrom, ApproveAndSpend, TakeCommand, SecondHalf,
     SignatureExpiryOverflows, EndCommands, LastHop, HopAndPing,
     LedgerOverflows, TargetNotAhead, SyncAllowances, Done, vars
<1>4. state_matches
  BY <1>3 DEF AssertState
<1>5. OracleTypes /\ \E a \in Address : Gap(a) # 0
  BY DEF OracleInv, Difference
<1>6. \A a \in Address : Gap(a) = 0
  BY <1>4, <1>5, OracleFacts DEF state_matches, Gap, Balance, read_balance
<1> QED  BY <1>5, <1>6

(* Of every state of a run.                                                *)
LEMMA SetUpFirstSpec == OracleSpec => []SetUpFirst
<1>1. OracleInit => SetUpFirst
  BY DEF OracleInit, SetUpFirst
<1>2. SetUpFirst /\ [OracleNext]_oracleVars => SetUpFirst'
  BY SetUpFirstNext
<1> QED  BY <1>1, <1>2, PTL DEF OracleSpec

(* A wrong balance is found before the next transaction: fuzz_token never  *)
(* goes on to it, whatever the input and whenever the token went wrong.    *)
THEOREM WrongBalancesEndTheRun == OracleSpec => WrongBalanceEndsTheRun
<1>1. OracleInv /\ SetUpFirst /\ [OracleNext]_oracleVars =>
        [fault = "balance" /\ phase # "commands" => phase' # "commands"]_oracleVars
  BY NewTransaction
<1> QED
  BY <1>1, OracleSpecInv, SetUpFirstSpec, PTL DEF OracleSpec, WrongBalanceEndsTheRun

-----------------------------------------------------------------------------
(* Alarms.                                                                 *)

(* A token that got no balance wrong is as good as the example token, but  *)
(* for allowances that the mirror lists and the token may have lost.       *)
AlarmInv ==
  /\ fault \in {"none", "allowance", "balance"}
  /\ fault = "none" => FuzzInv({})
  /\ fault = "allowance" => FuzzInv(Pair)

(* A lost allowance changes nothing but what the mirror may be off by.     *)
LEMMA LostOne ==
  ASSUME FuzzInv({}), LoseAllowance
  PROVE  FuzzInv(Pair)'
<1>0. TokenInv
  BY Types
<1>1. /\ UNCHANGED <<sequence, auths, instance, balances>>
      /\ UNCHANGED <<phase, pending, to_ledger, txs, commands>>
      /\ UNCHANGED <<cs_balances, cs_allowances, cs_decimals, sum_of_mints, sum_of_burns>>
      /\ phase # "assert"
  BY DEF LoseAllowance, GoWrong, progress, mirror
<1>2. TypeOK'
  BY <1>0, <1>1, AllowanceLost
  DEF FuzzInv, TypeOK, TokenTypeOK, AllowanceEntry, Pair
<1>3. MirrorUpTo(Pair)'
  <2>1. \A a \in Address : (cs_balances[a] = Balance(a))'
    BY <1>1 DEF FuzzInv, MirrorUpTo, Balance, read_balance
  <2>2. ASSUME NEW p \in Address \X Address
        PROVE  \/ cs_allowances'[p] = Allowance(p)'
               \/ Allowance(p)' = 0 /\ phase' \in {"advance", "sync", "EndOfTime"}
               \/ Allowance(p)' = 0 /\ phase' # "assert" /\ p \in Pair
    <3>1. p \in Pair
      BY DEF Pair
    <3>2. CASE Allowance(p)' = 0
      BY <1>1, <3>1, <3>2
    <3>3. CASE Allowance(p)' = Allowance(p)
      BY <1>1, <3>3 DEF FuzzInv, MirrorUpTo
    <3> QED  BY <1>0, <3>1, <3>2, <3>3, AllowanceLost
  <2> QED  BY <2>1, <2>2 DEF MirrorUpTo
<1>4. SupplyIsConserved'
  BY <1>1 DEF FuzzInv, SupplyIsConserved, sum_of_balances, Balance, read_balance
<1>5. /\ NoFalseAlarm' /\ ContractSurvivesHop' /\ BalancesSurviveTransaction'
      /\ SetUp' /\ Heading'
  BY <1>1 DEF FuzzInv, NoFalseAlarm, ContractSurvivesHop,
     BalancesSurviveTransaction, SetUp, Heading
<1> QED  BY <1>0, <1>2, <1>3, <1>4, <1>5, AllowanceLost DEF FuzzInv

(* Every step keeps it: the fuzzer behaves as on the example token.        *)
LEMMA AlarmNext ==
  ASSUME AlarmInv, [OracleNext]_oracleVars
  PROVE  AlarmInv'
<1>1. CASE FuzzerStep \/ UNCHANGED oracleVars
  <2>1. [Next]_vars /\ fault' = fault
    BY <1>1 DEF FuzzerStep, oracleVars
  <2>2. CASE fault = "none"
    BY <2>1, <2>2, NextInv DEF AlarmInv
  <2>3. CASE fault = "allowance"
    BY <2>1, <2>3, NextInv DEF AlarmInv
  <2>4. CASE fault = "balance"
    BY <2>1, <2>4 DEF AlarmInv
  <2> QED  BY <2>2, <2>3, <2>4 DEF AlarmInv
<1>2. CASE ForgeBalance \/ MisplaceBalance
  BY <1>2 DEF ForgeBalance, MisplaceBalance, GoWrong, AlarmInv
<1>3. CASE LoseAllowance
  <2>1. fault = "none" /\ fault' = "allowance"
    BY <1>3 DEF LoseAllowance, GoWrong
  <2> QED  BY <1>3, <2>1, LostOne DEF AlarmInv
<1> QED  BY <1>1, <1>2, <1>3 DEF OracleNext

(* Whatever the input and whenever the token goes wrong: a run that is not *)
(* cut short ends with an alarm of fuzz_token exactly if a balance went    *)
(* wrong.  A lost allowance is never found, neither by the commands that   *)
(* try to use it nor by assert_state.                                      *)
THEOREM ExactlyWrongBalancesAreFound == OracleSpec => []VerdictIsExact
<1>1. OracleInit => AlarmInv
  BY InitInv DEF OracleInit, AlarmInv
<1>2. AlarmInv /\ [OracleNext]_oracleVars => AlarmInv'
  BY AlarmNext
<1>3. OracleSpec => []AlarmInv
  BY <1>1, <1>2, PTL DEF OracleSpec
<1>4. AlarmInv /\ OracleInv /\ SetUpFirst => VerdictIsExact
  <2> SUFFICES ASSUME AlarmInv, OracleInv, SetUpFirst,
                      phase \in Finished \ {"EndOfTime", "UnexpectedPanic"}
               PROVE  phase \in Alarms <=> fault = "balance"
    BY DEF VerdictIsExact
  <2>1. ASSUME phase \in Alarms PROVE fault = "balance"
    BY <2>1 DEF AlarmInv, FuzzInv, NoFalseAlarm
  <2>2. ASSUME phase \notin Alarms PROVE fault # "balance"
    BY <2>2 DEF OracleInv, SetUpFirst, Finished
  <2> QED  BY <2>1, <2>2
<1> QED  BY <1>3, <1>4, OracleSpecInv, SetUpFirstSpec, PTL
=============================================================================
