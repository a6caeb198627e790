--------------------------- MODULE RunLengthProofs ---------------------------
(***************************************************************************)
(* How long runs of the fuzzer can be, in steps and in ledgers, for every  *)
(* input.  None of it depends on what the token does: the results hold for *)
(* a token that goes wrong as well.                                        *)
(***************************************************************************)
EXTENDS FuzzerOracle, TLAPS

(* What the induction needs.  The clock is behind its target by a day at   *)
(* most, and neither of the two is ahead of the transactions so far.       *)
PaceInv ==
  /\ phase \in Running \cup Finished
  /\ sequence \in Nat /\ to_ledger \in Nat
  /\ txs \in 0 .. MAX_TRANSACTIONS /\ commands \in 0 .. MAX_COMMANDS
  /\ phase \in {"start", "registered", "commands"} => txs < MAX_TRANSACTIONS
  /\ phase = "advance" => /\ sequence < to_ledger
                          /\ to_ledger <= sequence + DAY_IN_LEDGERS
                          /\ to_ledger <= txs * DAY_IN_LEDGERS
  /\ ClockKeepsPace

(* The part of StepsLeft that whole transactions account for.              *)
Rest == (MAX_TRANSACTIONS - txs) * (DAY_IN_LEDGERS + 3)

-----------------------------------------------------------------------------
(* Arithmetic.                                                             *)

(* Products of naturals.                                                   *)
LEMMA Products ==
  ASSUME NEW k \in Nat, NEW d \in Nat
  PROVE  /\ k * d \in Nat
         /\ k > 0 => k * d >= d
         /\ (k + 1) * d = k * d + d
         /\ k > 0 => (k - 1) * d = k * d - d
  OBVIOUS

(* A target less than d away is no farther for a clock that moved on.      *)
LEMMA LaterIsNearer ==
  ASSUME NEW s \in Nat, NEW t \in Nat, NEW target \in Nat, NEW d \in Nat,
         s < t, target <= s + d
  PROVE  target <= t + d
  OBVIOUS

(* Time left for whole transactions.                                       *)
LEMMA RestFacts ==
  ASSUME txs \in 0 .. MAX_TRANSACTIONS
  PROVE  /\ Rest \in Nat
         /\ txs < MAX_TRANSACTIONS => Rest >= DAY_IN_LEDGERS + 3
<1> DEFINE k == MAX_TRANSACTIONS - txs
           d == DAY_IN_LEDGERS + 3
<1>1. k \in Nat /\ d \in Nat /\ (txs < MAX_TRANSACTIONS => k > 0)
  BY TokenAssumption, FuzzerAssumption
<1>2. Rest = k * d
  BY DEF Rest
<1> HIDE DEF k, d
<1>3. k * d \in Nat /\ (k > 0 => k * d >= d)
  BY <1>1, Products
<1>4. Rest \in Nat /\ (txs < MAX_TRANSACTIONS => Rest >= d)
  BY <1>1, <1>2, <1>3
<1> QED  BY <1>4 DEF d

(* One transaction more, and that much less time.                          *)
LEMMA RestShrinks ==
  ASSUME txs \in 0 .. MAX_TRANSACTIONS, txs < MAX_TRANSACTIONS, txs' = txs + 1
  PROVE  Rest' = Rest - (DAY_IN_LEDGERS + 3)
<1> DEFINE k == MAX_TRANSACTIONS - txs
           d == DAY_IN_LEDGERS + 3
<1>1. k \in Nat /\ d \in Nat /\ k > 0
  BY TokenAssumption, FuzzerAssumption
<1>2. Rest = k * d
  BY DEF Rest
<1>3. Rest' = (k - 1) * d
  <2>1. MAX_TRANSACTIONS - txs' = k - 1
    BY FuzzerAssumption
  <2> QED  BY <2>1 DEF Rest
<1> HIDE DEF k, d
<1>4. (k - 1) * d = k * d - d
  BY <1>1, Products
<1>5. Rest' = Rest - d
  BY <1>2, <1>3, <1>4
<1> QED  BY <1>5 DEF d

-----------------------------------------------------------------------------
(* Steps of a run, by what they do to its progress.                        *)

(* A call: the clock stands still, and the run goes on or is over.         *)
CallStep ==
  /\ phase' \in {"commands"} \cup Alarms
  /\ sequence' = sequence

(* A command, or half of one.                                              *)
CommandStep ==
  /\ phase = "commands"
  /\ CallStep
  /\ UNCHANGED <<to_ledger, txs>>
  /\ \/ pending = {} /\ commands < MAX_COMMANDS /\ commands' = commands + 1
     \/ pending # {} /\ pending' = {} /\ commands' = commands

(* Every verdict is one of the alarms, or lets the run go on.              *)
LEMMA Verdicts ==
  ASSUME NEW r, NEW signed, NEW signer, NEW amount, NEW fits
  PROVE  Verdict(r, signed, signer, amount, fits) \in {"commands"} \cup Alarms
  BY DEF Verdict, Alarms

(* Whatever the call and its result.                                       *)
LEMMA Calls ==
  /\ \A signed, to, n : ExecMint(signed, to, n) => CallStep
  /\ \A signed, from, spender, n, e :
       ExecApprove(signed, from, spender, n, e) => CallStep
  /\ \A signed, spender, from, to, n :
       ExecTransferFrom(signed, spender, from, to, n) => CallStep
  /\ \A signed, from, to, n : ExecTransfer(signed, from, to, n) => CallStep
  /\ \A signed, spender, from, n :
       ExecBurnFrom(signed, spender, from, n) => CallStep
  /\ \A signed, from, n : ExecBurn(signed, from, n) => CallStep
<1>1. ASSUME NEW signed, NEW to, NEW n, ExecMint(signed, to, n)
      PROVE  CallStep
  BY <1>1, Verdicts DEF ExecMint, mint, rejected, CallStep
<1>2. ASSUME NEW signed, NEW from, NEW spender, NEW n, NEW e,
             ExecApprove(signed, from, spender, n, e)
      PROVE  CallStep
  BY <1>2, Verdicts DEF ExecApprove, approve, rejected, CallStep
<1>3. ASSUME NEW signed, NEW spender, NEW from, NEW to, NEW n,
             ExecTransferFrom(signed, spender, from, to, n)
      PROVE  CallStep
  BY <1>3, Verdicts DEF ExecTransferFrom, transfer_from, rejected, CallStep
<1>4. ASSUME NEW signed, NEW from, NEW to, NEW n, ExecTransfer(signed, from, to, n)
      PROVE  CallStep
  BY <1>4, Verdicts DEF ExecTransfer, transfer, rejected, CallStep
<1>5. ASSUME NEW signed, NEW spender, NEW from, NEW n,
             ExecBurnFrom(signed, spender, from, n)
      PROVE  CallStep
  BY <1>5, Verdicts DEF ExecBurnFrom, burn_from, rejected, CallStep
<1>6. ASSUME NEW signed, NEW from, NEW n, ExecBurn(signed, from, n)
      PROVE  CallStep
  BY <1>6, Verdicts DEF ExecBurn, burn, rejected, CallStep
<1> QED  BY <1>1, <1>2, <1>3, <1>4, <1>5, <1>6

(* All commands of the input, and the second halves.                       *)
LEMMA Commands ==
  ASSUME \/ Mint \/ Approve \/ TransferFrom \/ Transfer \/ BurnFrom \/ Burn
         \/ ApproveAndTransferFrom \/ ApproveAndBurnFrom \/ SecondHalf
  PROVE  CommandStep
<1>1. CASE SecondHalf
  <2>1. PICK c \in pending :
          \/ ExecTransferFrom(c.signed, c.spender, c.from, c.to, c.amount)
          \/ ExecBurnFrom(c.signed, c.spender, c.from, c.amount)
    BY <1>1 DEF SecondHalf
  <2>2. CallStep /\ pending # {}
    BY <2>1, Calls
  <2> QED  BY <1>1, <2>2 DEF SecondHalf, CommandStep, progress
<1>2. CASE ~SecondHalf
  <2>1. TakeCommand /\ CallStep
    BY <1>2, Calls
    DEF Mint, Approve, TransferFrom, Transfer, BurnFrom, Burn,
       ApproveAndTransferFrom, ApproveAndBurnFrom, ApproveAndSpend
  <2> QED  BY <2>1 DEF TakeCommand, CommandStep, progress
<1> QED  BY <1>1, <1>2

(* A step of setup, of the checks, or one that ends the run: the clock and *)
(* the input are left alone.                                               *)
OtherStep ==
  /\ UNCHANGED <<sequence, pending, to_ledger, txs, commands>>
  /\ phase \in Running
  /\ \/ phase = "start" /\ phase' \in {"registered", "Reject"}
     \/ phase = "registered" /\ phase' \in {"commands", "InitializeFailed"}
     \/ phase = "sync" /\ phase' \in {"assert", "ContractGone"}
     \/ /\ phase = "assert"
        /\ \/ phase' = "commands" /\ txs < MAX_TRANSACTIONS
           \/ phase' \in {"Keep", "StateMismatch"}
     \/ /\ phase \in {"commands", "advance"} /\ phase' = "EndOfTime"
        /\ \/ sequence + MAX_ENTRY_TTL > U32_MAX
           \/ sequence + MAX_LEDGERS_TO_ADVANCE > U32_MAX

(* The clock moves towards its target, and not past it.                    *)
HopStep ==
  /\ phase = "advance"
  /\ UNCHANGED <<pending, to_ledger, txs, commands>>
  /\ sequence' \in Nat /\ sequence < sequence' /\ sequence' <= to_ledger
  /\ \/ phase' = "advance" /\ sequence' # to_ledger
     \/ phase' \in {"sync", "ContractGone"}

(* Setup, checks and ends.                                                 *)
LEMMA Others ==
  ASSUME PaceInv,
         \/ RejectInput \/ RegisterContract \/ InitializeContract
         \/ SignatureExpiryOverflows \/ LedgerOverflows
         \/ SyncAllowances \/ AssertState
  PROVE  OtherStep
<1>1. CASE RejectInput \/ RegisterContract \/ LedgerOverflows
  BY <1>1 DEF PaceInv, RejectInput, RegisterContract, LedgerOverflows, OtherStep,
     Running, progress, tokenVars
<1>2. CASE InitializeContract
  BY <1>2 DEF InitializeContract, initialize, rejected, OtherStep, Running, progress
<1>3. CASE SignatureExpiryOverflows
  <2>1. sequence + MAX_ENTRY_TTL > U32_MAX
    BY <1>3, StorageAssumption, TokenAssumption
    DEF PaceInv, SignatureExpiryOverflows, SignaturesExpire
  <2> QED
    BY <1>3, <2>1
    DEF SignatureExpiryOverflows, OtherStep, Running, progress, tokenVars
<1>4. CASE SyncAllowances \/ AssertState
  BY <1>4 DEF SyncAllowances, AssertState, OtherStep, Running, progress
<1> QED  BY <1>1, <1>2, <1>3, <1>4

(* The hops.                                                               *)
LEMMA Hops ==
  ASSUME PaceInv, LastHop \/ HopAndPing
  PROVE  HopStep
<1>1. /\ phase = "advance" /\ sequence' = next_ledger
      /\ UNCHANGED <<pending, to_ledger, txs, commands>>
  BY DEF PaceInv, LastHop, HopAndPing, advance_env, progress
<1>2. sequence \in Nat /\ to_ledger \in Nat /\ sequence < to_ledger
  BY <1>1 DEF PaceInv
<1>3. /\ next_ledger \in Nat /\ sequence < next_ledger
      /\ next_ledger <= to_ledger
  BY <1>2, FuzzerAssumption DEF next_ledger
<1>4. \/ phase' = "advance" /\ next_ledger # to_ledger
      \/ phase' \in {"sync", "ContractGone"}
  BY <1>2 DEF LastHop, HopAndPing
<1> QED  BY <1>1, <1>3, <1>4 DEF HopStep

(* The end of a transaction.                                               *)
EndStep ==
  /\ phase = "commands"
  /\ UNCHANGED <<sequence, pending, commands>>
  /\ txs' = txs + 1
  /\ to_ledger' \in Nat /\ sequence < to_ledger'
  /\ to_ledger' <= sequence + DAY_IN_LEDGERS
  /\ \/ phase' = "advance"
     \/ phase' = "EndOfTime" /\ to_ledger' > U32_MAX

(* EndCommands sets a target a day away at most.                           *)
LEMMA Ends ==
  ASSUME PaceInv, NEW n \in Advances, EndCommands(n)
  PROVE  EndStep
<1>1. /\ n \in Nat /\ n > 0 /\ n <= DAY_IN_LEDGERS
      /\ sequence \in Nat /\ U32_MAX \in Nat /\ DAY_IN_LEDGERS \in Nat
  BY TokenAssumption DEF PaceInv
<1>2. /\ phase = "commands" /\ txs' = txs + 1 /\ to_ledger' = sequence + n
      /\ UNCHANGED <<sequence, pending, commands>>
      /\ phase' = IF to_ledger' <= U32_MAX THEN "advance" ELSE "EndOfTime"
  BY DEF EndCommands, tokenVars
<1> QED  BY <1>1, <1>2 DEF EndStep

(* There are no other steps.                                               *)
LEMMA StepKinds ==
  ASSUME PaceInv, [Next]_vars, vars' # vars
  PROVE  CommandStep \/ OtherStep \/ HopStep \/ EndStep
  BY Commands, Others, Hops, Ends DEF Next, Done, PaceInv

-----------------------------------------------------------------------------
(* The invariant.                                                          *)

(* A run begins in ledger 0.                                               *)
LEMMA PaceInit == Init => PaceInv
<1> SUFFICES ASSUME Init PROVE PaceInv
  OBVIOUS
<1>1. 0 * DAY_IN_LEDGERS = 0
  BY TokenAssumption
<1> QED
  BY <1>1, FuzzerAssumption DEF Init, PaceInv, ClockKeepsPace, Running

(* The longest hop is shorter than the life of a signature.                *)
LEMMA HopsAreShort == MAX_LEDGERS_TO_ADVANCE < MAX_ENTRY_TTL
  BY StorageAssumption, TokenAssumption, FuzzerAssumption
  DEF INSTANCE_LIFETIME_THRESHOLD

(* Every step keeps pace.                                                  *)
LEMMA PaceNext ==
  ASSUME PaceInv, [Next]_vars
  PROVE  PaceInv'
<1> DEFINE day == DAY_IN_LEDGERS
           now == txs * day
<1>0. /\ sequence \in Nat /\ to_ledger \in Nat /\ U32_MAX \in Nat
      /\ MAX_TRANSACTIONS \in Nat /\ MAX_COMMANDS \in Nat /\ MAX_ENTRY_TTL \in Nat
      /\ day \in Nat /\ txs \in Nat /\ txs <= MAX_TRANSACTIONS
      /\ commands \in 0 .. MAX_COMMANDS /\ MAX_LEDGERS_TO_ADVANCE \in Nat
  BY StorageAssumption, TokenAssumption, FuzzerAssumption DEF PaceInv
<1>1. now \in Nat /\ (txs + 1) * day = now + day
  BY <1>0, Products
<1>2. sequence <= now
  BY DEF PaceInv, ClockKeepsPace
<1> DEFINE OnTime == /\ sequence' <= txs' * day
                     /\ phase' = "EndOfTime" => txs' * day + MAX_ENTRY_TTL > U32_MAX
<1>3. OnTime <=> ClockKeepsPace'
  BY DEF ClockKeepsPace
<1>4. CASE vars' = vars
  <2>1. UNCHANGED <<phase, sequence, to_ledger, txs, commands>>
    BY <1>4 DEF vars, tokenVars, progress
  <2> QED  BY <2>1 DEF PaceInv, ClockKeepsPace
<1>5. CASE CommandStep
  <2>1. /\ UNCHANGED <<sequence, to_ledger, txs>> /\ phase = "commands"
        /\ phase' \in {"commands"} \cup Alarms
        /\ commands' \in 0 .. MAX_COMMANDS
    BY <1>0, <1>5 DEF CommandStep, CallStep
  <2>2. OnTime
    BY <1>2, <2>1 DEF Alarms
  <2> QED  BY <1>3, <2>1, <2>2 DEF PaceInv, Running, Finished, Alarms
<1>6. CASE OtherStep
  <2>1. UNCHANGED <<sequence, to_ledger, txs, commands>>
    BY <1>6 DEF OtherStep
  <2>2. phase' = "EndOfTime" => sequence + MAX_ENTRY_TTL > U32_MAX
    BY <1>0, <1>6, HopsAreShort DEF OtherStep
  <2>3. OnTime
    BY <1>0, <1>1, <1>2, <2>1, <2>2
  <2>4. /\ phase' \in Running \cup Finished /\ phase' # "advance"
        /\ phase' \in {"start", "registered", "commands"} => txs < MAX_TRANSACTIONS
    BY <1>6 DEF OtherStep, PaceInv, Running, Finished, Alarms
  <2> QED  BY <1>3, <2>1, <2>3, <2>4 DEF PaceInv
<1>7. CASE HopStep
  <2>1. /\ UNCHANGED <<to_ledger, txs, commands>>
        /\ sequence' \in Nat /\ sequence < sequence' /\ sequence' <= to_ledger
        /\ to_ledger <= now /\ to_ledger <= sequence + day
        /\ phase' = "advance" => sequence' # to_ledger
        /\ phase' \in {"advance", "sync", "ContractGone"}
    BY <1>7 DEF HopStep, PaceInv
  <2>2. OnTime
    BY <1>0, <1>1, <2>1
  <2>3. phase' = "advance" => sequence' < to_ledger /\ to_ledger <= sequence' + day
    <3> HIDE DEF OnTime, now
    <3>1. sequence' <= to_ledger /\ sequence' # to_ledger => sequence' < to_ledger
      BY <1>0, <2>1
    <3>2. to_ledger <= sequence' + day
      BY <1>0, <2>1, LaterIsNearer
    <3> QED  BY <2>1, <3>1, <3>2
  <2> QED  BY <1>3, <2>1, <2>2, <2>3 DEF PaceInv, Running, Finished, Alarms
<1>8. CASE EndStep
  <2>1. /\ UNCHANGED <<sequence, commands>> /\ txs' = txs + 1
        /\ to_ledger' \in Nat /\ sequence < to_ledger'
        /\ to_ledger' <= sequence + day
        /\ txs < MAX_TRANSACTIONS
        /\ phase' \in {"advance", "EndOfTime"}
        /\ phase' = "EndOfTime" => to_ledger' > U32_MAX
    BY <1>8 DEF EndStep, PaceInv
  <2>2. txs' \in 0 .. MAX_TRANSACTIONS /\ txs' * day = now + day
    BY <1>0, <1>1, <2>1
  <2>3. to_ledger' <= now + day
    BY <1>0, <1>1, <1>2, <2>1
  <2>4. OnTime
    BY <1>0, <1>1, <2>1, <2>2, <2>3
  <2> QED
    BY <1>0, <1>3, <2>1, <2>2, <2>3, <2>4 DEF PaceInv, Running, Finished, Alarms
<1> QED  BY <1>4, <1>5, <1>6, <1>7, <1>8, StepKinds

(* The invariant of a run.                                                 *)
LEMMA PaceSpec == Spec => []PaceInv
<1>1. PaceInv /\ [Next]_vars => PaceInv'
  BY PaceNext
<1> QED  BY <1>1, PaceInit, PTL DEF Spec

(* The step in which a token goes wrong leaves the run where it is.        *)
LEMMA FaultSteps ==
  ASSUME OracleNext, ~FuzzerStep
  PROVE  UNCHANGED <<sequence, phase, pending, to_ledger, txs, commands>>
  BY DEF OracleNext, ForgeBalance, MisplaceBalance, LoseAllowance, GoWrong, progress

(* The invariant of a run on a token that may go wrong.                    *)
LEMMA OraclePaceSpec == OracleSpec => []PaceInv
<1>1. OracleInit => PaceInv
  BY PaceInit DEF OracleInit
<1>2. PaceInv /\ [OracleNext]_oracleVars => PaceInv'
  <2> SUFFICES ASSUME PaceInv, [OracleNext]_oracleVars PROVE PaceInv'
    OBVIOUS
  <2>1. CASE FuzzerStep
    BY <2>1, PaceNext DEF FuzzerStep
  <2>2. CASE OracleNext /\ ~FuzzerStep
    BY <2>2, FaultSteps DEF PaceInv, ClockKeepsPace
  <2>3. CASE UNCHANGED oracleVars
    BY <2>3, PaceNext DEF oracleVars
  <2> QED  BY <2>1, <2>2, <2>3
<1> QED  BY <1>1, <1>2, PTL DEF OracleSpec

(* ClockKeepsPace, for every input: the ledger is never ahead of a day per *)
(* transaction, so fuzz_token runs into one of its "end of time" panics    *)
(* only after (U32_MAX - MAX_ENTRY_TTL) / DAY_IN_LEDGERS transactions.     *)
THEOREM ClockKeepsPaceAlways == Spec => []ClockKeepsPace
<1>1. PaceInv => ClockKeepsPace
  BY DEF PaceInv
<1> QED  BY <1>1, PaceSpec, PTL

(* The same of a run on a token that goes wrong: the clock is the fuzzer's *)
(* own, and no token can make it run out of time.                          *)
THEOREM ClockKeepsPaceOnWrongToken == OracleSpec => []ClockKeepsPace
<1>1. PaceInv => ClockKeepsPace
  BY DEF PaceInv
<1> QED  BY <1>1, OraclePaceSpec, PTL

-----------------------------------------------------------------------------
(* The measure.                                                            *)

Half == IF pending = {} THEN 0 ELSE 1

Stage ==
  CASE phase = "start" -> 2
    [] phase = "registered" -> 1
    [] phase = "commands" -> 0
    [] phase = "advance" -> to_ledger - sequence + 2
    [] phase = "sync" -> 2
    [] phase = "assert" -> 1

Left == Rest + 2 * (MAX_COMMANDS - commands) + Half + Stage

(* What the parts are worth, and that StepsLeft is their sum.              *)
Measured ==
  /\ StepsLeft \in Nat
  /\ phase \in Finished => StepsLeft = 0
  /\ phase \in Running => /\ phase \notin Finished
                          /\ StepsLeft > 0 /\ StepsLeft = Left
                          /\ Rest \in Nat /\ Half \in 0 .. 1 /\ Stage \in Nat
                          /\ commands \in Nat

(* A run that goes on has a step before it.                                *)
LEMMA MeasuredAlways == PaceInv => Measured
<1> SUFFICES ASSUME PaceInv PROVE Measured
  OBVIOUS
<1>1. CASE phase \in Finished
  <2>1. StepsLeft = 0
    BY <1>1 DEF StepsLeft
  <2> QED  BY <1>1, <2>1 DEF Measured, Running, Finished, Alarms
<1>2. CASE phase \in Running
  <2>1. /\ MAX_COMMANDS \in Nat /\ commands \in Nat /\ commands <= MAX_COMMANDS
        /\ phase \notin Finished
    BY <1>2, FuzzerAssumption DEF PaceInv, Running, Finished, Alarms
  <2>2. Rest \in Nat /\ (phase = "commands" => Rest > 0)
    BY RestFacts, TokenAssumption DEF PaceInv
  <2>3. Half \in 0 .. 1
    BY DEF Half
  <2>4. phase = "advance" => to_ledger - sequence \in Nat
    BY DEF PaceInv
  <2>5. Stage \in Nat /\ (phase # "commands" => Stage > 0)
    BY <1>2, <2>4 DEF Stage, Running
  <2>6. Left \in Nat /\ Left > 0
    BY <2>1, <2>2, <2>3, <2>5 DEF Left
  <2>7. StepsLeft = Left
    BY <2>1 DEF StepsLeft, Left, Rest, Half, Stage
  <2> QED  BY <2>1, <2>2, <2>3, <2>5, <2>6, <2>7 DEF Measured
<1> QED  BY <1>1, <1>2 DEF PaceInv

(* The same of the next state.                                             *)
LEMMA MeasuredNext == PaceInv' => Measured'
  BY MeasuredAlways, PTL

(* Every step makes the sum smaller.                                       *)
LEMMA StepsLeftShrinks ==
  ASSUME PaceInv, PaceInv', CommandStep \/ OtherStep \/ HopStep \/ EndStep
  PROVE  StepsLeft' \in 0 .. StepsLeft - 1
<1>1. phase \in Running
  BY DEF CommandStep, OtherStep, HopStep, EndStep, Running
<1>2. /\ StepsLeft \in Nat /\ StepsLeft > 0 /\ StepsLeft = Left
      /\ StepsLeft' \in Nat
  BY <1>1, MeasuredAlways, MeasuredNext DEF Measured
<1>3. CASE phase' \in Finished
  <2>1. StepsLeft' = 0
    BY <1>3, MeasuredNext DEF Measured
  <2> QED  BY <1>2, <2>1
<1>4. CASE phase' \in Running
  <2>1. StepsLeft' = Left' /\ phase' \notin Finished
    BY <1>4, MeasuredNext DEF Measured
  <2>2. /\ Rest \in Nat /\ Half \in 0 .. 1 /\ Stage \in Nat
        /\ MAX_COMMANDS \in Nat /\ commands \in Nat /\ DAY_IN_LEDGERS \in Nat
    BY <1>1, MeasuredAlways, TokenAssumption, FuzzerAssumption DEF Measured
  <2>3. /\ Rest' \in Nat /\ Half' \in 0 .. 1 /\ Stage' \in Nat
        /\ commands' \in Nat
    BY <1>4, MeasuredNext DEF Measured
  <2>r. PICK rest \in Nat : rest = Rest'
    BY <2>3
  <2>h. PICK half \in 0 .. 1 : half = Half'
    BY <2>3
  <2>s. PICK stage \in Nat : stage = Stage'
    BY <2>3
  <2>l. Left' = rest + 2 * (MAX_COMMANDS - commands') + half + stage
    BY <2>r, <2>h, <2>s DEF Left
  <2>4. Left' < Left
    <3>1. CASE CommandStep
      <4>1. phase = "commands" /\ phase' = "commands" /\ txs' = txs
        BY <3>1, <2>1 DEF CommandStep, CallStep, Finished
      <4>2. rest = Rest /\ Stage = 0 /\ stage = 0
        BY <2>r, <2>s, <4>1 DEF Rest, Stage
      <4>3. \/ Half = 0 /\ commands' = commands + 1
            \/ Half = 1 /\ half = 0 /\ commands' = commands
        BY <2>h, <3>1 DEF CommandStep, Half
      <4> QED  BY <2>l, <2>2, <4>2, <4>3 DEF Left
    <3>2. CASE OtherStep
      <4>1. rest = Rest /\ half = Half /\ commands' = commands
        BY <2>r, <2>h, <3>2 DEF OtherStep, Rest, Half
      <4>2. \/ phase = "start" /\ phase' = "registered"
            \/ phase = "registered" /\ phase' = "commands"
            \/ phase = "sync" /\ phase' = "assert"
            \/ phase = "assert" /\ phase' = "commands"
        BY <1>4, <3>2 DEF OtherStep, Running
      <4>3. stage < Stage
        BY <2>s, <4>2 DEF Stage
      <4> QED  BY <2>l, <2>2, <4>1, <4>3 DEF Left
    <3>3. CASE HopStep
      <4>1. rest = Rest /\ half = Half /\ commands' = commands
        BY <2>r, <2>h, <3>3 DEF HopStep, Rest, Half
      <4>2. /\ phase = "advance" /\ to_ledger \in Nat /\ to_ledger' = to_ledger
            /\ sequence \in Nat /\ sequence' \in Nat
            /\ sequence < sequence' /\ sequence' <= to_ledger
            /\ phase' \in {"advance", "sync"}
        BY <1>4, <3>3 DEF HopStep, PaceInv, Running
      <4>3. Stage = to_ledger - sequence + 2
        BY <4>2 DEF Stage
      <4>4. PICK now \in Nat : now = sequence'
        BY <4>2
      <4>5. stage = to_ledger - now + 2 \/ stage = 2
        BY <2>s, <4>2, <4>4 DEF Stage
      <4>6. sequence < now /\ now <= to_ledger
        BY <4>2, <4>4
      <4>7. stage < Stage
        BY <4>2, <4>3, <4>5, <4>6
      <4> QED  BY <2>l, <2>2, <4>1, <4>7 DEF Left
    <3>4. CASE EndStep
      <4>1. /\ phase = "commands" /\ phase' = "advance" /\ txs' = txs + 1
            /\ half = Half /\ commands' = commands
            /\ sequence \in Nat /\ sequence' = sequence /\ to_ledger' \in Nat
            /\ to_ledger' <= sequence + DAY_IN_LEDGERS
        BY <1>4, <2>h, <3>4 DEF EndStep, PaceInv, Running, Half
      <4>2. rest = Rest - (DAY_IN_LEDGERS + 3)
        <5>1. txs \in 0 .. MAX_TRANSACTIONS /\ txs < MAX_TRANSACTIONS
          BY <4>1 DEF PaceInv
        <5> QED  BY <2>r, <4>1, <5>1, RestShrinks
      <4>3. PICK target \in Nat : target = to_ledger'
        BY <4>1
      <4>4. Stage = 0 /\ stage = target - sequence + 2
        BY <2>s, <4>1, <4>3 DEF Stage
      <4>5. target <= sequence + DAY_IN_LEDGERS
        BY <4>1, <4>3
      <4>6. stage <= DAY_IN_LEDGERS + 2
        BY <2>2, <4>1, <4>4, <4>5
      <4> QED  BY <2>l, <2>2, <4>1, <4>2, <4>4, <4>6 DEF Left
    <3> QED  BY <3>1, <3>2, <3>3, <3>4
  <2>5. PICK left \in Nat : left = StepsLeft'
    BY <1>2
  <2>6. left < StepsLeft
    BY <1>2, <2>1, <2>4, <2>5
  <2> QED  BY <1>2, <2>5, <2>6
<1> QED  BY <1>3, <1>4 DEF PaceInv

(* What a run has before it when it begins.                                *)
LEMMA StepsLeftInit ==
  Init => StepsLeft = MAX_TRANSACTIONS * (DAY_IN_LEDGERS + 3) + 2 * MAX_COMMANDS + 2
<1> SUFFICES ASSUME Init
             PROVE  StepsLeft = MAX_TRANSACTIONS * (DAY_IN_LEDGERS + 3)
                                + 2 * MAX_COMMANDS + 2
  OBVIOUS
<1>1. phase \in Running /\ phase \notin Finished /\ Half = 0 /\ Stage = 2
  BY DEF Init, Running, Finished, Alarms, Half, Stage
<1>2. StepsLeft = Left
  BY <1>1, PaceInit, MeasuredAlways DEF Measured
<1>3. MAX_TRANSACTIONS - txs = MAX_TRANSACTIONS /\ MAX_COMMANDS - commands = MAX_COMMANDS
  BY FuzzerAssumption DEF Init
<1>4. Rest = MAX_TRANSACTIONS * (DAY_IN_LEDGERS + 3) /\ Rest \in Nat
  BY <1>3, RestFacts, PaceInit DEF Rest, PaceInv
<1> QED  BY <1>1, <1>2, <1>3, <1>4, FuzzerAssumption DEF Left

(* RunsGetShorter, for every input and whatever the token answers: with T  *)
(* transactions and C commands a run of fuzz_token has no more than        *)
(* T * (DAY_IN_LEDGERS + 3) + 2 * C + 2 steps.                             *)
THEOREM RunsAreBounded == Spec => RunsGetShorter
<1>1. PaceInv /\ PaceInv' /\ [Next]_vars => [StepsLeft' \in 0 .. StepsLeft - 1]_vars
  <2> SUFFICES ASSUME PaceInv, PaceInv', [Next]_vars, vars' # vars
               PROVE  StepsLeft' \in 0 .. StepsLeft - 1
    OBVIOUS
  <2> QED  BY StepKinds, StepsLeftShrinks
<1> QED  BY <1>1, PaceSpec, PTL DEF Spec, RunsGetShorter

(* The same on a token that goes wrong: whatever it answers, a step of the *)
(* fuzzer brings the end of the run nearer, and the fault itself, which is *)
(* no step of the fuzzer, does not put it off.                             *)
THEOREM RunsAreBoundedOnWrongToken ==
  OracleSpec => [][ \/ StepsLeft' \in 0 .. StepsLeft - 1
                    \/ fault = "none" /\ fault' # "none" /\ StepsLeft' = StepsLeft
                  ]_oracleVars
<1> DEFINE Shorter == \/ StepsLeft' \in 0 .. StepsLeft - 1
                      \/ /\ fault = "none" /\ fault' # "none"
                         /\ StepsLeft' = StepsLeft
<1>1. PaceInv /\ PaceInv' /\ [OracleNext]_oracleVars => [Shorter]_oracleVars
  <2> SUFFICES ASSUME PaceInv, PaceInv', OracleNext, oracleVars' # oracleVars
               PROVE  Shorter
    OBVIOUS
  <2>1. CASE FuzzerStep
    <3>1. Next /\ fault' = fault
      BY <2>1 DEF FuzzerStep
    <3>2. vars' # vars
      BY <3>1, Zenon DEF oracleVars
    <3> QED  BY <3>1, <3>2, StepKinds, StepsLeftShrinks
  <2>2. CASE ~FuzzerStep
    <3>1. fault = "none" /\ fault' # "none"
      BY <2>2 DEF OracleNext, ForgeBalance, MisplaceBalance, LoseAllowance, GoWrong
    <3>2. StepsLeft' = StepsLeft
      <4>1. UNCHANGED <<sequence, phase, pending, to_ledger, txs, commands>>
        BY <2>2, FaultSteps
      <4>2. Half' = Half /\ Stage' = Stage /\ Rest' = Rest
        BY <4>1 DEF Half, Stage, Rest
      <4>3. Left' = Left
        BY <4>1, <4>2 DEF Left
      <4>4. phase \in Running /\ phase' = phase
        BY <2>2, <4>1 DEF OracleNext, ForgeBalance, MisplaceBalance,
           LoseAllowance, GoWrong, Running
      <4> QED  BY <4>3, <4>4, MeasuredAlways, MeasuredNext DEF Measured
    <3> QED  BY <3>1, <3>2
  <2> QED  BY <2>1, <2>2
<1> QED  BY <1>1, OraclePaceSpec, PTL DEF OracleSpec
=============================================================================
