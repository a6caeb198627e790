---------------------------- MODULE MCTokenFuzzer ----------------------------
(***************************************************************************)
(* Instances of the fuzzer for TLC.                                        *)
(***************************************************************************)
EXTENDS TokenFuzzer, TLC

(* Everyone signs, or everyone but the administrator.                      *)
MCAuthSets == {Address, {Account1, Account2}}

(* Negative, the smallest that can be spent in two parts, and the largest. *)
MCAmounts == {-1, 1, 2}

(* Negative, and one that is the smallest and the largest at once.         *)
MCFewAmounts == {-1, 1}

(* The code's bare panics, all of them.                                    *)
AllPanics == Panics

(* Only the first account has a role of its own, the administrator's.      *)
MCSymmetry == Permutations({Account1, Account2})
=============================================================================
