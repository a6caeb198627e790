---------------------------- MODULE Authorization ----------------------------
(***************************************************************************)
(* What the fuzzer takes for granted about the authorization of its calls. *)
(* Signing a call grants it to exactly the signers chosen; a grant is good *)
(* for one call; it ends when something else is signed or the Env is       *)
(* replaced.  No call is refused for want of a grant that was given, and   *)
(* none is accepted without one.                                           *)
(***************************************************************************)
CONSTANTS
  Signers,      \* who can sign
  Invocations   \* what can be signed: a function with its arguments

VARIABLES
  granted,   \* the pairs of a signer and an invocation that would be accepted
  outcome    \* how the last call ended

NoCall == [result |-> "none"]

Outcome(result, signer, invocation) ==
  [result |-> result, signer |-> signer, invocation |-> invocation]

Init ==
  /\ granted = {}
  /\ outcome = NoCall

Sign(signers, invocation) ==
  /\ granted' = signers \X {invocation}
  /\ outcome' = NoCall

(* A call of invocation that needs the signature of signer.                *)
Accepted(signer, invocation) ==
  /\ <<signer, invocation>> \in granted
  /\ granted' = granted \ {<<signer, invocation>>}
  /\ outcome' = Outcome("accepted", signer, invocation)

Unauthorized(signer, invocation) ==
  /\ <<signer, invocation>> \notin granted
  /\ outcome' = Outcome("unauthorized", signer, invocation)
  /\ UNCHANGED granted

(* The call fails for reasons of its own, and is rolled back.              *)
Failed(signer, invocation) ==
  /\ outcome' = Outcome("failed", signer, invocation)
  /\ UNCHANGED granted

NewEnv ==
  /\ granted' = {}
  /\ outcome' = NoCall

Next ==
  \/ \E S \in SUBSET Signers, inv \in Invocations : Sign(S, inv)
  \/ \E s \in Signers, inv \in Invocations :
       Accepted(s, inv) \/ Unauthorized(s, inv) \/ Failed(s, inv)
  \/ NewEnv

Spec == Init /\ [][Next]_<<granted, outcome>>
=============================================================================
