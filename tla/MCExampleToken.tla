--------------------------- MODULE MCExampleToken ---------------------------
(***************************************************************************)
(* Instances of the token contract for TLC.                                *)
(***************************************************************************)
EXTENDS ExampleToken, TLC

CONSTANTS
  alice, bob,
  MAX_STEPS      \* bound: calls and ledger closes in a behaviour

VARIABLE steps

(* Everyone signs, or only one party does.                                 *)
MCAuthSets == {Address, {alice}, {bob}}

(* Negative, the smallest that can be spent in two parts, and the largest. *)
MCAmounts == {-1, 1, 2}

MCSymmetry == Permutations({alice, bob})

MCInit == TokenInit /\ steps = 0

MCNext ==
  /\ steps < MAX_STEPS
  /\ steps' = steps + 1
  /\ TokenNext
  /\ tokenVars' # tokenVars

MCSpec == MCInit /\ [][MCNext]_<<tokenVars, steps>>
=============================================================================
