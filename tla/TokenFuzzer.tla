----------------------------- MODULE TokenFuzzer -----------------------------
(***************************************************************************)
(* One run of the fuzzer (src/src/fuzz.rs) on the example token: setup,    *)
(* then transactions of commands, each transaction followed by a jump in   *)
(* time and by the fuzzer's assertions.  The commands are whatever the     *)
(* input generator (src/src/input.rs) can produce.                         *)
(*                                                                         *)
(* The fuzzer keeps its own copy of what it believes the token holds, the  *)
(* mirror.  An assertion that fails ends the run in one of the Alarms.     *)
(***************************************************************************)
EXTENDS ExampleToken

CONSTANTS
  Account0, Account1, Account2,  \* the NUMBER_OF_ADDRESSES = 3 signers
  MAX_LEDGERS_TO_ADVANCE,        \* longest hop of the clock
  BarePanics,        \* the failures the token signals with a bare panic
  MAX_TRANSACTIONS,  \* bound: transactions of the input
  MAX_COMMANDS       \* bound: commands of the input, over all transactions

(* The decimals that register_contract_init of the fuzz target asks for.   *)
DECIMAL == 10

ASSUME FuzzerAssumption ==
  /\ Address = {Account0, Account1, Account2}
  /\ Account0 # Account1 /\ Account0 # Account2 /\ Account1 # Account2
  /\ DECIMAL <= U8_MAX
  /\ BarePanics \subseteq Panics
  /\ MAX_LEDGERS_TO_ADVANCE \in Nat \ {0}
  /\ MAX_LEDGERS_TO_ADVANCE < MIN_PERSISTENT_TTL
  /\ MAX_LEDGERS_TO_ADVANCE <= INSTANCE_LIFETIME_THRESHOLD
  /\ DAY_IN_LEDGERS <= BALANCE_LIFETIME_THRESHOLD
  /\ Expirations \subseteq 0 .. 30 * DAY_IN_LEDGERS
  /\ MAX_TRANSACTIONS \in Nat \ {0}
  /\ MAX_COMMANDS \in Nat

VARIABLES
  phase,      \* where the run is, or how it ended
  pending,    \* second half of an ApproveAnd... command, if one is due
  to_ledger,  \* the ledger advance_time is heading for
  txs,        \* transactions begun with advance_time so far
  commands,   \* commands taken from the input so far
  \* the mirror (ContractState)
  cs_balances, cs_allowances, cs_decimals, sum_of_mints, sum_of_burns

mirror == <<cs_balances, cs_allowances, cs_decimals, sum_of_mints, sum_of_burns>>
progress == <<to_ledger, txs>>
vars == <<tokenVars, phase, pending, progress, commands, mirror>>

Running == {"start", "registered", "commands", "advance", "sync", "assert"}

(* How a run can end: Corpus::Keep, Corpus::Reject, a counter of ledgers   *)
(* that overflows u32, or an assertion that fails.                         *)
Alarms == {"InitializeFailed", "UnexpectedPanic", "NegativeAmountAccepted",
           "UnauthorizedAccepted", "MirrorOutOfRange", "TargetPassed",
           "ContractGone", "StateMismatch"}
Finished == {"Keep", "Reject", "EndOfTime"} \cup Alarms

-----------------------------------------------------------------------------
(* ContractState: the mirror's own arithmetic.  Each operation asserts     *)
(* that what it stores is a non-negative i128.                             *)

InRange(amount) == amount \in 0 .. I128_MAX

add_balance(cs, addr, amount) == [cs EXCEPT ![addr] = @ + amount]
sub_balance(cs, addr, amount) == [cs EXCEPT ![addr] = @ - amount]
set_allowance(cs, pair, amount) == [cs EXCEPT ![pair] = amount]
(* Faulty variant: the mirror forgets that the allowance was used.         *)
sub_allowance_kept(cs, pair, amount) == cs
sub_allowance(cs, pair, amount) == [cs EXCEPT ![pair] = @ - amount]

-----------------------------------------------------------------------------
(* Setup.                                                                  *)

Init ==
  /\ sequence = 0
  /\ auths = {}
  /\ instance = NoInstance
  /\ balances = no_balances
  /\ allowances = no_allowances
  /\ phase = "start"
  /\ pending = {}
  /\ to_ledger = 0
  /\ txs = 0
  /\ commands = 0
  /\ cs_balances = [a \in Address |-> 0]
  /\ cs_allowances = [p \in Address \X Address |-> 0]
  /\ cs_decimals = 0
  /\ sum_of_mints = 0
  /\ sum_of_burns = 0

(* An input in which no transaction has a command is turned down.          *)
RejectInput ==
  /\ phase = "start"
  /\ phase' = "Reject"
  /\ UNCHANGED <<tokenVars, pending, progress, commands, mirror>>

RegisterContract ==
  /\ phase = "start"
  /\ phase' = "registered"
  /\ instance' = registered(sequence)
  /\ UNCHANGED <<sequence, auths, balances, allowances>>
  /\ UNCHANGED <<pending, progress, commands, mirror>>

(* The first signer becomes the administrator; the metadata that must not  *)
(* change any more is saved in the mirror.                                 *)
InitializeContract ==
  /\ phase = "registered"
  /\ IF initialize_result(DECIMAL) = Ok
       THEN /\ initialize(Account0, DECIMAL)
            /\ phase' = "commands"
            /\ cs_decimals' = read_decimal'
       ELSE /\ rejected(auths, initialize_result(DECIMAL))
            /\ phase' = "InitializeFailed"
            /\ UNCHANGED cs_decimals
  /\ UNCHANGED <<pending, progress, commands>>
  /\ UNCHANGED <<cs_balances, cs_allowances, sum_of_mints, sum_of_burns>>

-----------------------------------------------------------------------------
(* exec_command.  Every command signs the call for the accounts in signed, *)
(* makes it, judges the result, and updates the mirror if it is Ok.        *)

(* mock_auths_for_command: the expiration of the signatures is a u32.      *)
SignaturesExpire == sequence + MAX_ENTRY_TTL <= U32_MAX

(* verify_token_contract_result and the assertions about the result;       *)
(* signer is the account without whose signature the call must fail, and   *)
(* fits says whether the mirror can follow.  After an alarm the run is     *)
(* over and what the mirror holds does not matter any more.                *)
Verdict(r, signed, signer, amount, fits) ==
  CASE r \in BarePanics -> "UnexpectedPanic"
    [] r = Ok /\ amount < 0 -> "NegativeAmountAccepted"
    [] r = Ok /\ signer \notin signed -> "UnauthorizedAccepted"
    [] r = Ok /\ ~fits -> "MirrorOutOfRange"
    [] OTHER -> "commands"

ExecMint(signed, to, amount) ==
  LET r == mint_result(signed, to, amount)
  IN  /\ phase' = Verdict(r, signed, Account0, amount,
                          InRange(cs_balances[to] + amount))
      /\ \/ /\ mint(signed, to, amount)
            /\ cs_balances' = add_balance(cs_balances, to, amount)
            /\ sum_of_mints' = sum_of_mints + amount
            /\ UNCHANGED <<cs_allowances, cs_decimals, sum_of_burns>>
         \/ rejected(signed, r) /\ UNCHANGED mirror

ExecApprove(signed, from, spender, amount, expiration_ledger) ==
  LET r == approve_result(signed, from, amount, expiration_ledger)
  IN  /\ phase' = Verdict(r, signed, from, amount, InRange(amount))
      /\ \/ /\ approve(signed, from, spender, amount, expiration_ledger)
            /\ cs_allowances' =
                 set_allowance(cs_allowances, <<from, spender>>, amount)
            /\ UNCHANGED <<cs_balances, cs_decimals, sum_of_mints, sum_of_burns>>
         \/ rejected(signed, r) /\ UNCHANGED mirror

(* The mirror moves amount from one account to another.                    *)
moved(from, to, amount) ==
  add_balance(sub_balance(cs_balances, from, amount), to, amount)

moved_in_range(from, to, amount) ==
  /\ InRange(cs_balances[from] - amount)
  /\ InRange(moved(from, to, amount)[to])

ExecTransferFrom(signed, spender, from, to, amount) ==
  LET r == transfer_from_result(signed, spender, from, to, amount)
      pair == <<from, spender>>
  IN  /\ phase' = Verdict(r, signed, spender, amount,
                          /\ moved_in_range(from, to, amount)
                          /\ InRange(cs_allowances[pair] - amount))
      /\ \/ /\ transfer_from(signed, spender, from, to, amount)
            /\ cs_balances' = moved(from, to, amount)
            /\ cs_allowances' = sub_allowance(cs_allowances, pair, amount)
            /\ UNCHANGED <<cs_decimals, sum_of_mints, sum_of_burns>>
         \/ rejected(signed, r) /\ UNCHANGED mirror

ExecTransfer(signed, from, to, amount) ==
  LET r == transfer_result(signed, from, to, amount)
  IN  /\ phase' = Verdict(r, signed, from, amount,
                          moved_in_range(from, to, amount))
      /\ \/ /\ transfer(signed, from, to, amount)
            /\ cs_balances' = moved(from, to, amount)
            /\ UNCHANGED <<cs_allowances, cs_decimals, sum_of_mints, sum_of_burns>>
         \/ rejected(signed, r) /\ UNCHANGED mirror

ExecBurnFrom(signed, spender, from, amount) ==
  LET r == burn_from_result(signed, spender, from, amount)
      pair == <<from, spender>>
  IN  /\ phase' = Verdict(r, signed, spender, amount,
                          /\ InRange(cs_balances[from] - amount)
                          /\ InRange(cs_allowances[pair] - amount))
      /\ \/ /\ burn_from(signed, spender, from, amount)
            /\ cs_balances' = sub_balance(cs_balances, from, amount)
            /\ cs_allowances' = sub_allowance(cs_allowances, pair, amount)
            /\ sum_of_burns' = sum_of_burns + amount
            /\ UNCHANGED <<cs_decimals, sum_of_mints>>
         \/ rejected(signed, r) /\ UNCHANGED mirror

ExecBurn(signed, from, amount) ==
  LET r == burn_result(signed, from, amount)
  IN  /\ phase' = Verdict(r, signed, from, amount,
                          InRange(cs_balances[from] - amount))
      /\ \/ /\ burn(signed, from, amount)
            /\ cs_balances' = sub_balance(cs_balances, from, amount)
            /\ sum_of_burns' = sum_of_burns + amount
            /\ UNCHANGED <<cs_allowances, cs_decimals, sum_of_mints>>
         \/ rejected(signed, r) /\ UNCHANGED mirror

-----------------------------------------------------------------------------
(* The commands of the input.                                              *)

(* The next command of the transaction is taken from the input.            *)
TakeCommand ==
  /\ phase = "commands"
  /\ pending = {}
  /\ SignaturesExpire
  /\ commands < MAX_COMMANDS
  /\ commands' = commands + 1
  /\ UNCHANGED progress

Mint ==
  /\ TakeCommand
  /\ pending' = {}
  /\ \E signed \in AuthSets, to \in Address, n \in Amounts :
       ExecMint(signed, to, n)

Approve ==
  /\ TakeCommand
  /\ pending' = {}
  /\ \E signed \in AuthSets, from, spender \in Address,
        n \in Amounts, e \in Expirations :
       ExecApprove(signed, from, spender, n, e)

TransferFrom ==
  /\ TakeCommand
  /\ pending' = {}
  /\ \E signed \in AuthSets, spender, from, to \in Address, n \in Amounts :
       ExecTransferFrom(signed, spender, from, to, n)

Transfer ==
  /\ TakeCommand
  /\ pending' = {}
  /\ \E signed \in AuthSets, from, to \in Address, n \in Amounts :
       ExecTransfer(signed, from, to, n)

BurnFrom ==
  /\ TakeCommand
  /\ pending' = {}
  /\ \E signed \in AuthSets, spender, from \in Address, n \in Amounts :
       ExecBurnFrom(signed, spender, from, n)

Burn ==
  /\ TakeCommand
  /\ pending' = {}
  /\ \E signed \in AuthSets, from \in Address, n \in Amounts :
       ExecBurn(signed, from, n)

(* Approve, then spend the same amount with the same signatures whether or *)
(* not the approval succeeded.                                             *)
ApproveAndSpend(kind) ==
  /\ TakeCommand
  /\ \E signed \in AuthSets, from, spender, to \in Address,
        n \in Amounts, e \in Expirations :
       /\ pending' = {[kind |-> kind, signed |-> signed, spender |-> spender,
                       from |-> from, to |-> to, amount |-> n]}
       /\ ExecApprove(signed, from, spender, n, e)

ApproveAndTransferFrom == ApproveAndSpend("transfer_from")
ApproveAndBurnFrom == ApproveAndSpend("burn_from")

SecondHalf ==
  /\ phase = "commands"
  /\ SignaturesExpire
  /\ pending' = {}
  /\ \E c \in pending :
       \/ /\ c.kind = "transfer_from"
          /\ ExecTransferFrom(c.signed, c.spender, c.from, c.to, c.amount)
       \/ /\ c.kind = "burn_from"
          /\ ExecBurnFrom(c.signed, c.spender, c.from, c.amount)
  /\ UNCHANGED <<commands, progress>>

SignatureExpiryOverflows ==
  /\ phase = "commands"
  /\ ~SignaturesExpire
  /\ pending # {} \/ commands < MAX_COMMANDS
  /\ phase' = "EndOfTime"
  /\ UNCHANGED <<tokenVars, pending, progress, commands, mirror>>

-----------------------------------------------------------------------------
(* advance_time: between two transactions the clock moves, in hops, and    *)
(* the contract is called after every hop but the last to keep it alive.   *)

(* The transaction has no more commands.  (The input has at least one.)    *)
EndCommands(ledgers) ==
  /\ phase = "commands"
  /\ pending = {}
  /\ commands > 0 \/ txs + 1 < MAX_TRANSACTIONS
  /\ txs' = txs + 1
  /\ to_ledger' = sequence + ledgers
  /\ phase' = IF to_ledger' <= U32_MAX THEN "advance" ELSE "EndOfTime"
  /\ UNCHANGED <<tokenVars, pending, commands, mirror>>

(* Faulty variant: an entry is purged in its last ledger.                  *)
purge_early(entry, none, seq) ==
  IF entry.live_until # Absent /\ entry.live_until <= seq THEN none ELSE entry

(* The snapshot of an entry, with everything expired in ledger seq gone.   *)
purge(entry, none, seq) == IF Expired(entry.live_until, seq) THEN none ELSE entry

(* advance_env: a new Env, in ledger next, with the entries that survive   *)
(* purge_expired_entries and without any authorization.  What becomes of   *)
(* the instance entry is up to reregister_contract.                        *)
advance_env(next) ==
  /\ sequence' = next
  /\ auths' = {}
  /\ balances' = [a \in Address |-> purge(balances[a], NoBalance, next)]
  /\ allowances' = [p \in Address \X Address |->
                      purge(allowances[p], NoAllowance, next)]

(* Faulty variant: an intermediate hop stays where it is.                  *)
next_ledger_stuck ==
  IF sequence + MAX_LEDGERS_TO_ADVANCE < to_ledger THEN sequence ELSE to_ledger

(* Faulty variant: the last hop is as long as the others.                  *)
next_ledger_far == sequence + MAX_LEDGERS_TO_ADVANCE

next_ledger ==
  IF sequence + MAX_LEDGERS_TO_ADVANCE < to_ledger
    THEN sequence + MAX_LEDGERS_TO_ADVANCE ELSE to_ledger

(* reregister_contract attaches the contract's code to the new Env.  An    *)
(* instance entry that is still there stays as it is; if it was purged,    *)
(* the host makes a new one with nothing in it.                            *)
reregister_contract(next) ==
  IF Expired(instance.live_until, next) THEN registered(next) ELSE instance

(* The loop starts with an assertion that the target is ahead.             *)
TargetNotAhead == phase' = "TargetPassed" /\ UNCHANGED tokenVars

LastHop ==
  /\ phase = "advance"
  /\ sequence + MAX_LEDGERS_TO_ADVANCE <= U32_MAX
  /\ next_ledger = to_ledger
  /\ IF sequence < to_ledger
       THEN /\ advance_env(next_ledger)
            /\ instance' = reregister_contract(next_ledger)
            /\ phase' = "sync"
       ELSE TargetNotAhead
  /\ UNCHANGED <<pending, progress, commands, mirror>>

(* Faulty variant: nobody calls the contract after the hop.                *)
HopAndPing_no_ping ==
  /\ phase = "advance"
  /\ sequence + MAX_LEDGERS_TO_ADVANCE <= U32_MAX
  /\ next_ledger # to_ledger
  /\ advance_env(next_ledger)
  /\ instance' = reregister_contract(next_ledger)
  /\ UNCHANGED <<phase, pending, progress, commands, mirror>>

(* A hop short of the target, and the call of allowance that follows it.   *)
HopAndPing ==
  /\ phase = "advance"
  /\ sequence + MAX_LEDGERS_TO_ADVANCE <= U32_MAX
  /\ next_ledger # to_ledger
  /\ IF sequence < to_ledger
       THEN /\ advance_env(next_ledger)
            /\ instance' = extend_instance(reregister_contract(next_ledger),
                                           next_ledger)
            /\ phase' = IF contract_found' = Ok THEN "advance" ELSE "ContractGone"
       ELSE TargetNotAhead
  /\ UNCHANGED <<pending, progress, commands, mirror>>

LedgerOverflows ==
  /\ phase = "advance"
  /\ sequence + MAX_LEDGERS_TO_ADVANCE > U32_MAX
  /\ phase' = IF sequence < to_ledger THEN "EndOfTime" ELSE "TargetPassed"
  /\ UNCHANGED <<tokenVars, pending, progress, commands, mirror>>

-----------------------------------------------------------------------------
(* The checks at the start of the next transaction.                        *)

(* Faulty variant: the mirror keeps the allowances that expired.           *)
SyncAllowances_kept ==
  /\ phase = "sync"
  /\ phase' = IF contract_found = Ok THEN "assert" ELSE "ContractGone"
  /\ instance' = IF contract_found = Ok THEN bump_instance(sequence) ELSE instance
  /\ UNCHANGED <<sequence, auths, balances, allowances>>
  /\ UNCHANGED <<pending, progress, commands, mirror>>

(* Allowances that the contract no longer reports are assumed to have      *)
(* expired, and the mirror forgets them.                                   *)
SyncAllowances ==
  /\ phase = "sync"
  /\ IF contract_found = Ok
       THEN /\ phase' = "assert"
            /\ instance' = bump_instance(sequence)
            /\ cs_allowances' = [p \in Address \X Address |->
                 IF Allowance(p) = 0 /\ cs_allowances[p] # 0
                   THEN Allowance(p) ELSE cs_allowances[p]]
       ELSE phase' = "ContractGone" /\ UNCHANGED <<instance, cs_allowances>>
  /\ UNCHANGED <<sequence, auths, balances, allowances>>
  /\ UNCHANGED <<pending, progress, commands>>
  /\ UNCHANGED <<cs_balances, cs_decimals, sum_of_mints, sum_of_burns>>

sum_of_balances == Balance(Account0) + Balance(Account1) + Balance(Account2)

(* Faulty variant: the balances are compared as a sum only.                *)
state_matches_sum ==
  /\ has_administrator /\ cs_decimals = read_decimal
  /\ \A p \in Address \X Address : cs_allowances[p] = Allowance(p)
  /\ sum_of_mints - sum_of_burns = sum_of_balances

(* What assert_state compares.  Reading metadata fails in an instance that *)
(* initialize, which writes administrator and metadata, has not written.   *)
state_matches ==
  /\ has_administrator /\ cs_decimals = read_decimal
  /\ \A a \in Address : cs_balances[a] = Balance(a) /\ Balance(a) >= 0
  /\ \A p \in Address \X Address : cs_allowances[p] = Allowance(p)
  /\ sum_of_mints - sum_of_burns = sum_of_balances

(* Faulty variant: reading a balance does not prolong its entry.           *)
AssertState_no_bump ==
  /\ phase = "assert"
  /\ instance' = bump_instance(sequence)
  /\ IF state_matches
       THEN \/ txs < MAX_TRANSACTIONS /\ phase' = "commands"
            \/ commands > 0 /\ phase' = "Keep"
       ELSE phase' = "StateMismatch"
  /\ UNCHANGED <<sequence, auths, balances, allowances>>
  /\ UNCHANGED <<pending, progress, commands, mirror>>

(* assert_state; it reads every balance, which prolongs their entries.     *)
(* Then the input has another transaction, or the run is over.             *)
AssertState ==
  /\ phase = "assert"
  /\ instance' = bump_instance(sequence)
  /\ balances' = [a \in Address |-> bump_balance(balances[a], sequence)]
  /\ IF state_matches
       THEN \/ txs < MAX_TRANSACTIONS /\ phase' = "commands"
            \/ commands > 0 /\ phase' = "Keep"
       ELSE phase' = "StateMismatch"
  /\ UNCHANGED <<sequence, auths, allowances>>
  /\ UNCHANGED <<pending, progress, commands, mirror>>

(* A finished run stays finished.                                          *)
Done == phase \in Finished /\ UNCHANGED vars

Next ==
  \/ RejectInput \/ RegisterContract \/ InitializeContract
  \/ Mint \/ Approve \/ TransferFrom \/ Transfer \/ BurnFrom \/ Burn
  \/ ApproveAndTransferFrom \/ ApproveAndBurnFrom \/ SecondHalf
  \/ SignatureExpiryOverflows
  \/ \E n \in Advances : EndCommands(n)
  \/ LastHop \/ HopAndPing \/ LedgerOverflows
  \/ SyncAllowances \/ AssertState
  \/ Done

Spec == Init /\ [][Next]_vars

(* fuzz_token is one sequential function: it takes its next step as long   *)
(* as it has one.                                                          *)
FairSpec == Spec /\ WF_vars(Next)

-----------------------------------------------------------------------------
(* Properties.                                                             *)

TypeOK ==
  /\ TokenTypeOK
  /\ phase \in Running \cup Finished
  /\ pending \in SUBSET [kind : {"transfer_from", "burn_from"},
                         signed : AuthSets, spender : Address, from : Address,
                         to : Address, amount : Amounts]
  /\ to_ledger \in Nat /\ txs \in Nat /\ commands \in Nat
  /\ cs_balances \in [Address -> 0 .. I128_MAX]
  /\ cs_allowances \in [Address \X Address -> 0 .. I128_MAX]
  /\ cs_decimals \in Nat
  /\ sum_of_mints \in Nat /\ sum_of_burns \in Nat

(* On the example token the only assertion that can fail is the one about  *)
(* bare panics: whatever the commands, however they are spread over        *)
(* transactions and whatever expires in between, the fuzzer's other        *)
(* assertions (results, mirror arithmetic, pings, assert_state) all hold.  *)
NoFalseAlarm == phase \in Alarms => phase = "UnexpectedPanic"

(* The mirror tells the truth about the token even where assert_state does *)
(* not look: after each command of a transaction.  While the clock moves,  *)
(* allowances may already have expired that the mirror still lists, and    *)
(* nothing else differs.                                                   *)
MirrorFollowsToken ==
  /\ \A a \in Address : cs_balances[a] = Balance(a)
  /\ \A p \in Address \X Address :
       \/ cs_allowances[p] = Allowance(p)
       \/ phase \in {"advance", "sync", "EndOfTime"} /\ Allowance(p) = 0

(* No tokens appear or vanish but by mint and burn, in any state of the    *)
(* run: neither through transfers from an account to itself, nor because a *)
(* balance entry is purged when the clock moves.                           *)
SupplyIsConserved == sum_of_mints - sum_of_burns = sum_of_balances

(* And tokens appear only with the signature of the administrator: neither *)
(* a transfer with any aliasing of its accounts, nor a hop, a purge or a   *)
(* read that prolongs an entry, leaves more of them than there were.       *)
SupplyGrowsOnlyByAdmin ==
  [][sum_of_balances' > sum_of_balances => instance.admin \in auths']_vars

(* What keeps the contract alive: whenever the clock is about to move, the *)
(* instance entry survives the longest hop, so the ping that follows finds *)
(* the contract and prolongs it again.  initialize itself does not         *)
(* prolong the entry, so a first transaction without a successful call     *)
(* lives on the minimum lifetime alone: this is where 4095 comes from.     *)
ContractSurvivesHop ==
  /\ phase \in {"commands", "advance"} =>
       instance.live_until >= sequence + MAX_LEDGERS_TO_ADVANCE
  /\ phase \in {"sync", "assert"} => instance.live_until >= sequence

(* What keeps the balances alive: nothing reads them while the clock       *)
(* moves, yet every entry survives to the ledger the clock is heading for, *)
(* because assert_state read all of them one transaction earlier.          *)
BalancesSurviveTransaction ==
  \A a \in Address : balances[a].live_until # Absent =>
    /\ phase = "commands" => balances[a].live_until >= sequence + DAY_IN_LEDGERS
    /\ phase = "advance" => balances[a].live_until >= to_ledger

(* "Assume the allowance expired", says the code where the mirror forgets  *)
(* an allowance the contract no longer reports.  The assumption is right:  *)
(* moving the clock changes an allowance only if its expiration ledger has *)
(* passed, although the entry that holds it is purged by another number.   *)
OnlyExpiredAllowancesVanish ==
  [][sequence' # sequence =>
       \A p \in Address \X Address : Allowance(p)' # Allowance(p) =>
         allowances[p].expiration_ledger < sequence']_vars

(* The ledger counter is a u32, and fuzz_token panics where it or the      *)
(* expiration of a signature overflows ("end of time").  Transactions take *)
(* a day at most, hops and all, so a run has to be past a certain number   *)
(* of transactions, about 248000 in the code, to get there.                *)
ClockKeepsPace ==
  /\ sequence <= txs * DAY_IN_LEDGERS
  /\ phase = "EndOfTime" =>
       txs * DAY_IN_LEDGERS + MAX_ENTRY_TTL > U32_MAX

(* The most steps a run still has before it: per transaction the hops of a *)
(* day, the synchronisation, assert_state and the step to the next, and    *)
(* two halves per command.                                                 *)
StepsLeft ==
  IF phase \in Finished THEN 0
  ELSE (MAX_TRANSACTIONS - txs) * (DAY_IN_LEDGERS + 3)
       + 2 * (MAX_COMMANDS - commands)
       + (IF pending = {} THEN 0 ELSE 1)
       + CASE phase = "start" -> 2
           [] phase = "registered" -> 1
           [] phase = "commands" -> 0
           [] phase = "advance" -> to_ledger - sequence + 2
           [] phase = "sync" -> 2
           [] phase = "assert" -> 1

(* Nothing in fuzz_token goes round in circles, whatever the input and     *)
(* whatever the token answers: every step brings the end of the run nearer *)
(* (exec_command, the loops of fuzz_token and of advance_time).            *)
RunsGetShorter == [][StepsLeft' \in 0 .. StepsLeft - 1]_vars

(* Every run comes to an end: the hops of advance_time reach their target  *)
(* exactly, and the input is finite.                                       *)
Termination == <>(phase \in Finished)

(* Seen through the fuzzer, the token is still the abstract token: the     *)
(* hops, the purges and the pings lose no grant before its expiration      *)
(* ledger and no balance ever.                                             *)
RunImplementsAbstractToken == ImplementsAbstractToken

-----------------------------------------------------------------------------
(* What the repository's README says and the code does not do.             *)

(* "Contract calls do not panic (unless it's with `panic_with_error!`)":   *)
(* the example token panics on ordinary errors (check_nonnegative_amount,  *)
(* spend_balance, write_allowance, spend_allowance), and a run ends there. *)
ContractCallsDoNotPanic == phase # "UnexpectedPanic"

(* "After every step the fuzzer makes general assertions about             *)
(* invariants": assert_state runs at the end of a transaction, so a        *)
(* command may be followed by another one with no such assertion between.  *)
AssertedAfterEveryStep ==
  [][commands' # commands => phase' \in {"assert"} \cup Finished]_vars
=============================================================================
