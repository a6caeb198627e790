---------------------------- MODULE FuzzerOracle ----------------------------
(***************************************************************************)
(* What the fuzzer is for: a token that gets something wrong.  The run of  *)
(* TokenFuzzer, on a token that at some moment writes a wrong amount with  *)
(* its own storage helpers and otherwise works as the example token does.  *)
(* The wrong steps are external: they stand for bugs of a token under      *)
(* test, and the question is whether the assertions of fuzz_token find     *)
(* them at the end of the transaction, after whatever commands follow.     *)
(***************************************************************************)
EXTENDS TokenFuzzer

VARIABLE
  fault   \* what the token got wrong so far: "none", "balance", "allowance"

oracleVars == <<vars, fault>>

OracleInit == Init /\ fault = "none"

(* A token goes wrong while it is called: by a command, or by a ping.      *)
GoWrong(what) ==
  /\ phase \in {"commands", "advance"}
  /\ commands > 0
  /\ fault = "none"
  /\ fault' = what
  /\ UNCHANGED <<sequence, auths, instance>>
  /\ UNCHANGED <<phase, pending, progress, commands, mirror>>

(* Tokens appear or vanish.                                                *)
ForgeBalance ==
  /\ GoWrong("balance")
  /\ \E a \in Address, n \in 0 .. I128_MAX :
       n # Balance(a) /\ balances' = write_balance(balances, a, n)
  /\ UNCHANGED allowances

(* Tokens change hands and their sum stays the same.                       *)
MisplaceBalance ==
  /\ GoWrong("balance")
  /\ \E a, b \in Address, n \in 1 .. I128_MAX :
       /\ a # b
       /\ Balance(a) >= n /\ Balance(b) + n <= I128_MAX
       /\ balances' = receive_balance(spend_balance(balances, a, n), b, n)
  /\ UNCHANGED allowances

(* An allowance that has not expired is forgotten.                         *)
LoseAllowance ==
  /\ GoWrong("allowance")
  /\ \E p \in Address \X Address :
       /\ Allowance(p) > 0
       /\ allowances' = write_allowance(p, 0, allowances[p].expiration_ledger)
  /\ UNCHANGED balances

(* A step of the fuzzer itself.                                            *)
FuzzerStep == Next /\ UNCHANGED fault

OracleNext == ForgeBalance \/ MisplaceBalance \/ LoseAllowance \/ FuzzerStep

OracleSpec == OracleInit /\ [][OracleNext]_oracleVars

(* The fuzzer goes on as long as it can; no token has to go wrong.         *)
FairOracleSpec == OracleSpec /\ WF_oracleVars(FuzzerStep)

-----------------------------------------------------------------------------
(* Properties.                                                             *)

(* A wrong balance is never accepted, although it is only looked for at    *)
(* the end of the transaction: no commands that follow it, no expiry and   *)
(* no synchronisation can bring token and mirror back together.            *)
WrongBalanceIsNeverKept ==
  fault = "balance" =>
    /\ phase # "Keep"
    /\ phase \in Running => \E a \in Address : cs_balances[a] # Balance(a)

(* Nor does it outlive its transaction: whatever else the transaction does *)
(* and however long the clock takes, the next one does not begin.          *)
WrongBalanceEndsTheRun ==
  [][fault = "balance" /\ phase # "commands" => phase' # "commands"]_oracleVars

(* And it is reported: the run ends with an alarm, unless the clock runs   *)
(* out first.                                                              *)
WrongBalanceIsReported ==
  fault = "balance" ~> phase \in Alarms \cup {"EndOfTime"}

(* A run that is not cut short, by the end of time or by a bare panic,     *)
(* ends with the right verdict: an alarm if a balance went wrong, and      *)
(* Keep or Reject if none did.  An allowance that the token loses raises   *)
(* none, whatever commands try to use it before the mirror is synchronised *)
(* (exec_command, assert_state).                                           *)
VerdictIsExact ==
  phase \in Finished \ {"EndOfTime", "UnexpectedPanic"} =>
    (phase \in Alarms <=> fault = "balance")

-----------------------------------------------------------------------------
(* What the repository's README says and the code does not do.             *)

(* "All pairs of addresses have allowance equal to the fuzzer's own        *)
(* accounting of allowances": an allowance that the token loses before its *)
(* expiration ledger is taken for expired when the mirror is synchronised, *)
(* and the comparison that follows finds nothing.                          *)
LostAllowanceIsNeverKept == fault = "allowance" => phase # "Keep"
=============================================================================
