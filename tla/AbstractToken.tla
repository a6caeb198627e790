--------------------------- MODULE AbstractToken ----------------------------
(***************************************************************************)
(* What a token promises through the token interface, with no storage:     *)
(* balances that only their owners or approved spenders reduce, and grants *)
(* that last through their expiration ledger, no shorter and no longer.    *)
(* Both the example token and the fuzzer's runs of it are shown to         *)
(* implement this specification.                                           *)
(***************************************************************************)
EXTENDS Integers

CONSTANTS
  Address,
  NoAddress,   \* "no administrator yet"
  Amount,      \* the amounts that can be moved or granted, naturals
  MaxAmount,   \* the largest balance an address can hold
  Ledgers      \* the expiration ledgers that can be asked for

VARIABLES
  ledger,   \* the current ledger
  signers,  \* who authorized the current call
  admin,
  bal,      \* the balance of each address
  grants    \* what each <<owner, spender>> pair may still spend, and until when

abstractVars == <<ledger, signers, admin, bal, grants>>

NoGrant == [amount |-> 0, until |-> 0]

Grant(amount, until) ==
  IF amount = 0 THEN NoGrant ELSE [amount |-> amount, until |-> until]

Init ==
  /\ ledger = 0
  /\ signers = {}
  /\ admin = NoAddress
  /\ bal = [a \in Address |-> 0]
  /\ grants = [p \in Address \X Address |-> NoGrant]

(* The four ways balances change.                                          *)
Credit(b, to, n) == [b EXCEPT ![to] = @ + n]
Debit(b, from, n) == [b EXCEPT ![from] = @ - n]

Initialize ==
  /\ admin = NoAddress
  /\ admin' \in Address
  /\ UNCHANGED <<ledger, signers, bal, grants>>

SetAdmin ==
  /\ admin \in signers'
  /\ admin' \in Address
  /\ UNCHANGED <<ledger, bal, grants>>

Mint(to, n) ==
  /\ admin \in signers'
  /\ bal[to] + n <= MaxAmount
  /\ bal' = Credit(bal, to, n)
  /\ UNCHANGED <<ledger, admin, grants>>

Approve(owner, spender, n, until) ==
  /\ owner \in signers'
  /\ n = 0 \/ until >= ledger
  /\ grants' = [grants EXCEPT ![<<owner, spender>>] = Grant(n, until)]
  /\ UNCHANGED <<ledger, admin, bal>>

(* A spender uses part of a grant.                                         *)
UseGrant(owner, spender, n) ==
  /\ spender \in signers'
  /\ n <= grants[<<owner, spender>>].amount
  /\ grants' = [grants EXCEPT ![<<owner, spender>>] =
                  Grant(@.amount - n, @.until)]

(* The owner acts for itself, or a spender with a grant does.              *)
ActsFor(owner, n) ==
  \/ owner \in signers' /\ UNCHANGED grants
  \/ \E spender \in Address : UseGrant(owner, spender, n)

Move(from, to, n) ==
  /\ ActsFor(from, n)
  /\ n <= bal[from]
  /\ Debit(bal, from, n)[to] + n <= MaxAmount
  /\ bal' = Credit(Debit(bal, from, n), to, n)
  /\ UNCHANGED <<ledger, admin>>

Destroy(from, n) ==
  /\ ActsFor(from, n)
  /\ n <= bal[from]
  /\ bal' = Debit(bal, from, n)
  /\ UNCHANGED <<ledger, admin>>

(* A call that is refused.                                                 *)
Refuse == UNCHANGED <<ledger, admin, bal, grants>>

(* Time passes: a grant is lost exactly when its last ledger has passed.   *)
Tick ==
  /\ ledger' > ledger
  /\ grants' = [p \in Address \X Address |->
                  IF grants[p].until < ledger' THEN NoGrant ELSE grants[p]]
  /\ UNCHANGED <<admin, bal>>

Next ==
  \/ Initialize
  \/ SetAdmin
  \/ Refuse
  \/ Tick
  \/ \E a \in Address, n \in Amount : Mint(a, n) \/ Destroy(a, n)
  \/ \E a, b \in Address, n \in Amount :
       \/ Move(a, b, n)
       \/ \E e \in Ledgers : Approve(a, b, n, e)

Spec == Init /\ [][Next]_abstractVars
=============================================================================
