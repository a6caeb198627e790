--------------------------- MODULE MCFuzzerOracle ---------------------------
(***************************************************************************)
(* Instances of the fuzzer on a token that goes wrong, for TLC.            *)
(***************************************************************************)
EXTENDS FuzzerOracle, MCTokenFuzzer

(* Everyone signs, or one account that is not the administrator.           *)
MCOracleAuthSets == {Address, {Account1}}
=============================================================================
