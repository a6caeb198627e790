----------------------------- MODULE MCMockAuths -----------------------------
(***************************************************************************)
(* Instances of the fuzzer's signatures for TLC.                           *)
(***************************************************************************)
EXTENDS MockAuths

(* Two calls that differ in the function or an argument.                   *)
MCInvocations == {"mint", "transfer"}
=============================================================================
