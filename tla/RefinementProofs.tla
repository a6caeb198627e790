-------------------------- MODULE RefinementProofs --------------------------
(***************************************************************************)
(* The example token implements the abstract token, called by anyone and   *)
(* under the fuzzer: every step of the contract, of the ledger and of the  *)
(* fuzzer is a step of AbstractToken on what callers can see, or leaves it *)
(* unchanged.                                                              *)
(***************************************************************************)
EXTENDS TokenFuzzerProofs

(* The part of the invariants that the refinement needs: types, and that   *)
(* entries of allowances outlive them.                                     *)
LEMMA Facts ==
  ASSUME TokenInv
  PROVE  /\ sequence \in Nat
         /\ instance.admin \in Address \cup {NoAddress}
         /\ balances \in [Address -> BalanceEntry]
         /\ \A a \in Address : balances[a].amount \in 0 .. I128_MAX
         /\ allowances \in [Pair -> AllowanceEntry]
         /\ \A p \in Pair : /\ Allowance(p) \in Nat
                            /\ allowances[p].expiration_ledger \in Nat
                            /\ allowances[p].live_until \in Int
  BY AllowanceType, TokenAssumption
  DEF TokenInv, TokenTypeOK, BalanceEntry, AllowanceEntry, Pair

(* Balances that callers see, read off the amounts that are stored.        *)
LEMMA SeenBalance ==
  /\ SeenBalances = [a \in Address |-> balances[a].amount]
  /\ SeenBalances' = [a \in Address |-> balances'[a].amount]
  BY DEF SeenBalances, Balance, read_balance

GrantOf(amount, until) == Abstract!Grant(amount, until)

(* Grants that callers see, read off the allowances.                       *)
LEMMA SeenGrant ==
  /\ SeenGrants = [p \in Pair |->
       GrantOf(Allowance(p), allowances[p].expiration_ledger)]
  /\ SeenGrants' = [p \in Pair |->
       GrantOf(Allowance(p)', allowances'[p].expiration_ledger)]
  BY DEF SeenGrants, GrantOf, Abstract!Grant, Abstract!NoGrant, Pair

(* If no amount changes, callers see the same balances.                    *)
LEMMA SameBalances ==
  ASSUME \A a \in Address : balances'[a].amount = balances[a].amount
  PROVE  SeenBalances' = SeenBalances
  BY SeenBalance

(* Allowances that nobody writes, in the same ledger.                      *)
LEMMA SameGrants ==
  ASSUME UNCHANGED <<sequence, allowances>>
  PROVE  SeenGrants' = SeenGrants
  BY DEF SeenGrants, Allowance

-----------------------------------------------------------------------------
(* The entry points.                                                       *)

(* initialize sets the first administrator.                                *)
LEMMA InitializeRefines ==
  ASSUME NEW a \in Address, NEW decimal, initialize(a, decimal)
  PROVE  Abstract!Next
<1>1. instance.admin = NoAddress
  BY InitializeChecks DEF initialize
<1>2. /\ instance'.admin = a
      /\ UNCHANGED <<sequence, auths, SeenBalances, SeenGrants>>
  BY SameGrants, SameBalances DEF initialize
<1>3. Abstract!Initialize
  BY <1>1, <1>2 DEF Abstract!Initialize
<1> QED  BY <1>3 DEF Abstract!Next

(* set_admin replaces it with its signature.                               *)
LEMMA SetAdminRefines ==
  ASSUME NEW signed, NEW a \in Address, set_admin(signed, a)
  PROVE  Abstract!Next
<1>1. instance.admin \in auths'
  BY SetAdminChecks DEF set_admin
<1>2. /\ instance'.admin = a
      /\ UNCHANGED <<sequence, SeenBalances, SeenGrants>>
  BY SameGrants, SameBalances DEF set_admin
<1>3. Abstract!SetAdmin
  BY <1>1, <1>2 DEF Abstract!SetAdmin
<1> QED  BY <1>3 DEF Abstract!Next

(* mint credits one address.                                               *)
LEMMA MintRefines ==
  ASSUME TokenInv, NEW signed, NEW to \in Address, NEW n \in Int,
         mint(signed, to, n)
  PROVE  Abstract!Next
<1>1. /\ n \in Nat /\ balances[to].amount + n <= I128_MAX
      /\ instance.admin \in auths'
  BY Facts, MintChecks, TokenAssumption DEF mint
<1>2. n \in 0 .. I128_MAX
  BY <1>1, Facts, TokenAssumption
<1>3. \A a \in Address : balances'[a].amount =
        IF a = to THEN balances[a].amount + n ELSE balances[a].amount
  BY <1>1, Facts, ReceiveBalance DEF mint
<1>4. SeenBalances' = Abstract!Credit(SeenBalances, to, n)
  BY <1>3, SeenBalance DEF Abstract!Credit
<1>5. UNCHANGED <<sequence, SeenGrants>> /\ instance'.admin = instance.admin
  BY SameGrants DEF mint, bump_instance, extend_instance
<1>6. SeenBalances[to] + n <= I128_MAX
  BY <1>1, SeenBalance
<1>7. Abstract!Mint(to, n)
  BY <1>1, <1>4, <1>5, <1>6 DEF Abstract!Mint
<1> QED  BY <1>2, <1>7 DEF Abstract!Next

(* What spend_balance followed by receive_balance looks like.              *)
LEMMA MoveSeen ==
  ASSUME TokenInv, NEW from \in Address, NEW to \in Address, NEW n \in Nat,
         n <= balances[from].amount,
         ~(spend_balance(balances, from, n)[to].amount + n > I128_MAX),
         balances' = receive_balance(spend_balance(balances, from, n), to, n)
  PROVE  LET mid == Abstract!Debit(SeenBalances, from, n)
         IN  /\ SeenBalances' = Abstract!Credit(mid, to, n)
             /\ mid[to] + n <= I128_MAX
             /\ n <= SeenBalances[from]
<1> DEFINE mid == Abstract!Debit(SeenBalances, from, n)
           paid == spend_balance(balances, from, n)
<1>1. \A a \in Address : balances'[a].amount =
        balances[a].amount - (IF a = from THEN n ELSE 0)
                           + (IF a = to THEN n ELSE 0)
  BY Facts, MoveBalance
<1>2. \A a \in Address : paid[a].amount =
        IF a = from THEN balances[a].amount - n ELSE balances[a].amount
  BY Facts, SpendBalance
<1>3. mid = [a \in Address |-> IF a = from THEN balances[a].amount - n
                               ELSE balances[a].amount]
  BY SeenBalance DEF Abstract!Debit
<1>4. mid[to] + n <= I128_MAX
  BY <1>2, <1>3, Facts, TokenAssumption
<1>5. Abstract!Credit(mid, to, n) =
        [a \in Address |-> IF a = to THEN mid[a] + n ELSE mid[a]]
  BY <1>3 DEF Abstract!Credit
<1>6. \A a \in Address : balances'[a].amount =
        IF a = to THEN mid[a] + n ELSE mid[a]
  BY <1>1, <1>3, Facts
<1>7. n <= SeenBalances[from]
  BY SeenBalance
<1> HIDE DEF mid
<1>8. SeenBalances' = Abstract!Credit(mid, to, n)
  BY <1>5, <1>6, SeenBalance
<1> QED  BY <1>4, <1>7, <1>8 DEF mid

(* What spend_balance looks like.                                          *)
LEMMA DebitSeen ==
  ASSUME TokenInv, NEW from \in Address, NEW n \in Nat,
         n <= balances[from].amount,
         balances' = spend_balance(balances, from, n)
  PROVE  /\ SeenBalances' = Abstract!Debit(SeenBalances, from, n)
         /\ n <= SeenBalances[from]
<1>1. \A a \in Address : balances'[a].amount =
        IF a = from THEN balances[a].amount - n ELSE balances[a].amount
  BY Facts, SpendBalance
<1>2. SeenBalances' = Abstract!Debit(SeenBalances, from, n)
  BY <1>1, SeenBalance DEF Abstract!Debit
<1> QED  BY <1>2, SeenBalance

(* What one written allowance looks like.                                  *)
LEMMA GrantWritten ==
  ASSUME TokenInv, NEW pair \in Pair, NEW amount \in Nat, NEW e \in Nat,
         Allowance(pair)' = amount,
         allowances'[pair].expiration_ledger = e,
         \A p \in Pair : p = pair \/ allowances'[p] = allowances[p],
         sequence' = sequence
  PROVE  SeenGrants' = [SeenGrants EXCEPT ![pair] = Abstract!Grant(amount, e)]
<1>1. \A p \in Pair : p # pair =>
        /\ Allowance(p)' = Allowance(p)
        /\ allowances'[p].expiration_ledger = allowances[p].expiration_ledger
  BY DEF Allowance
<1>2. \A p \in Pair : GrantOf(Allowance(p)', allowances'[p].expiration_ledger) =
        IF p = pair THEN GrantOf(amount, e)
        ELSE GrantOf(Allowance(p), allowances[p].expiration_ledger)
  BY <1>1
<1>3. SeenGrants' = [p \in Pair |-> IF p = pair THEN GrantOf(amount, e)
        ELSE GrantOf(Allowance(p), allowances[p].expiration_ledger)]
  BY <1>2, SeenGrant
<1> QED  BY <1>3, SeenGrant DEF GrantOf

(* approve writes a grant that its owner signed and that has not expired.  *)
LEMMA ApproveRefines ==
  ASSUME TokenInv, NEW signed, NEW from \in Address, NEW spender \in Address,
         NEW n \in I128, NEW e \in Expirations,
         approve(signed, from, spender, n, e)
  PROVE  Abstract!Next
<1> DEFINE pair == <<from, spender>>
<1>0. pair \in Pair /\ e \in Nat /\ sequence \in Nat
  BY Facts, TokenAssumption DEF Pair
<1>1. /\ from \in auths'
      /\ n \in 0 .. I128_MAX /\ n \in Nat
      /\ ~(n > 0 /\ e < sequence)
  BY ApproveChecks, TokenAssumption DEF approve, I128
<1>2. n = 0 \/ e >= sequence
  BY <1>0, <1>1
<1>3. allowances' = write_allowance(pair, n, e) /\ sequence' = sequence
  BY DEF approve
<1>4. allowances \in [Pair -> AllowanceEntry]
  BY Facts
<1> HIDE DEF pair
<1>5. PICK u \in Int : write_allowance(pair, n, e) =
        [allowances EXCEPT ![pair] =
           [amount |-> n, expiration_ledger |-> e, live_until |-> u]]
  BY <1>0, <1>1, <1>4, WriteAllowance
<1>6. /\ allowances'[pair].amount = n
      /\ allowances'[pair].expiration_ledger = e
      /\ \A p \in Pair : p = pair \/ allowances'[p] = allowances[p]
  BY <1>0, <1>3, <1>4, <1>5
<1>7. Allowance(pair)' = n
  BY <1>0, <1>1, <1>2, <1>3, <1>6 DEF Allowance, read_allowance
<1>8. SeenGrants' = [SeenGrants EXCEPT ![pair] = Abstract!Grant(n, e)]
  BY <1>0, <1>1, <1>3, <1>6, <1>7, GrantWritten
<1>9. UNCHANGED <<sequence, SeenBalances>> /\ instance'.admin = instance.admin
  BY SameBalances DEF approve, bump_instance, extend_instance
<1>10. Abstract!Approve(from, spender, n, e)
  BY <1>1, <1>2, <1>8, <1>9 DEF Abstract!Approve, pair
<1> QED  BY <1>1, <1>10 DEF Abstract!Next

(* spend_allowance uses a grant of the spender who signed.                 *)
LEMMA SpendRefines ==
  ASSUME TokenInv, NEW from \in Address, NEW spender \in Address, NEW n \in Nat,
         spender \in auths',
         spend_allowance_result(<<from, spender>>, n) = Ok,
         allowances' = spend_allowance(<<from, spender>>, n),
         sequence' = sequence
  PROVE  Abstract!ActsFor(from, n)
<1>0. PICK pair \in Pair : pair = <<from, spender>>
  BY DEF Pair
<1>1. /\ spend_allowance_result(pair, n) = Ok
      /\ allowances' = spend_allowance(pair, n)
  BY <1>0, Zenon
<1> DEFINE left == Allowance(pair) - n
           e == allowances[pair].expiration_ledger
<1>2. /\ allowances \in [Pair -> AllowanceEntry] /\ sequence \in Nat
      /\ Allowance(pair) \in Nat /\ e \in Nat
  BY <1>0, Facts
<1>3. PICK u \in Int :
        /\ left \in 0 .. I128_MAX
        /\ spend_allowance(pair, n) =
             [allowances EXCEPT ![pair] =
                [amount |-> left, expiration_ledger |-> e, live_until |-> u]]
  BY <1>1, <1>2, SpendAllowance
<1>4. allowances'[pair].expiration_ledger = e
  BY <1>1, <1>2, <1>3
<1>5. /\ Allowance(pair)' = left
      /\ \A p \in Pair : p = pair \/ allowances'[p] = allowances[p]
  BY <1>1, AllowanceSpent
<1>6. left \in Nat /\ n <= Allowance(pair)
  BY <1>2, <1>3
<1>7. SeenGrants[pair] = GrantOf(Allowance(pair), e)
  BY <1>0, SeenGrant
<1>8. /\ SeenGrants[pair].amount = Allowance(pair)
      /\ Abstract!Grant(left, SeenGrants[pair].until) = Abstract!Grant(left, e)
  BY <1>2, <1>6, <1>7 DEF GrantOf, Abstract!Grant, Abstract!NoGrant
<1> HIDE DEF e, left
<1>9. PICK l \in Nat, f \in Nat : l = left /\ f = e
  BY <1>2, <1>6
<1>10. SeenGrants' = [SeenGrants EXCEPT ![pair] = Abstract!Grant(l, f)]
  BY <1>4, <1>5, <1>9, GrantWritten
<1>11. Abstract!Grant(SeenGrants[pair].amount - n, SeenGrants[pair].until)
         = Abstract!Grant(l, f)
  BY <1>8, <1>9 DEF left
<1>12. SeenGrants' = [SeenGrants EXCEPT ![pair] =
         Abstract!Grant(SeenGrants[pair].amount - n, SeenGrants[pair].until)]
  BY <1>10, <1>11
<1>13. Abstract!UseGrant(from, spender, n)
  BY <1>0, <1>6, <1>8, <1>12 DEF Abstract!UseGrant
<1> QED  BY <1>13 DEF Abstract!ActsFor

(* transfer and transfer_from move a balance, for its owner or with a      *)
(* grant.                                                                  *)
LEMMA TransferRefines ==
  ASSUME TokenInv, NEW signed, NEW from \in Address, NEW to \in Address,
         NEW n \in Int, transfer(signed, from, to, n)
  PROVE  Abstract!Next
<1>1. /\ from \in auths'
      /\ ~(n < 0) /\ ~(balances[from].amount < n)
      /\ ~(spend_balance(balances, from, n)[to].amount + n > I128_MAX)
  BY TransferChecks, Zenon DEF transfer
<1>2. n \in Nat /\ n <= balances[from].amount /\ n \in 0 .. I128_MAX
  BY <1>1, Facts, TokenAssumption
<1>3. UNCHANGED <<sequence, SeenGrants>> /\ instance'.admin = instance.admin
  BY SameGrants DEF transfer, bump_instance, extend_instance
<1>4. balances' = receive_balance(spend_balance(balances, from, n), to, n)
  BY DEF transfer
<1>5. Abstract!Move(from, to, n)
  BY <1>1, <1>2, <1>3, <1>4, MoveSeen DEF Abstract!Move, Abstract!ActsFor
<1> QED  BY <1>2, <1>5 DEF Abstract!Next

(* The spender moves the balance of the owner.                             *)
LEMMA TransferFromRefines ==
  ASSUME TokenInv, NEW signed, NEW spender \in Address, NEW from \in Address,
         NEW to \in Address, NEW n \in Int,
         transfer_from(signed, spender, from, to, n)
  PROVE  Abstract!Next
<1>1. /\ spender \in auths'
      /\ ~(n < 0) /\ ~(balances[from].amount < n)
      /\ spend_allowance_result(<<from, spender>>, n) = Ok
      /\ ~(spend_balance(balances, from, n)[to].amount + n > I128_MAX)
  BY TransferFromChecks, Zenon DEF transfer_from
<1>2. n \in Nat /\ n <= balances[from].amount /\ n \in 0 .. I128_MAX
  BY <1>1, Facts, TokenAssumption
<1>3. /\ allowances' = spend_allowance(<<from, spender>>, n)
      /\ balances' = receive_balance(spend_balance(balances, from, n), to, n)
      /\ sequence' = sequence /\ instance'.admin = instance.admin
  BY DEF transfer_from, bump_instance, extend_instance
<1>4. Abstract!ActsFor(from, n)
  BY <1>1, <1>2, <1>3, SpendRefines
<1>5. Abstract!Move(from, to, n)
  BY <1>1, <1>2, <1>3, <1>4, MoveSeen DEF Abstract!Move
<1> QED  BY <1>2, <1>5 DEF Abstract!Next

(* burn and burn_from destroy tokens, for their owner or with a grant.     *)
LEMMA BurnRefines ==
  ASSUME TokenInv, NEW signed, NEW from \in Address, NEW n \in Int,
         burn(signed, from, n)
  PROVE  Abstract!Next
<1>1. from \in auths' /\ ~(n < 0) /\ ~(balances[from].amount < n)
  BY BurnChecks, Zenon DEF burn
<1>2. n \in Nat /\ n <= balances[from].amount /\ n \in 0 .. I128_MAX
  BY <1>1, Facts, TokenAssumption
<1>3. UNCHANGED <<sequence, SeenGrants>> /\ instance'.admin = instance.admin
  BY SameGrants DEF burn, bump_instance, extend_instance
<1>4. balances' = spend_balance(balances, from, n)
  BY DEF burn
<1>5. Abstract!Destroy(from, n)
  BY <1>1, <1>2, <1>3, <1>4, DebitSeen DEF Abstract!Destroy, Abstract!ActsFor
<1> QED  BY <1>2, <1>5 DEF Abstract!Next

(* The spender destroys tokens of the owner.                               *)
LEMMA BurnFromRefines ==
  ASSUME TokenInv, NEW signed, NEW spender \in Address, NEW from \in Address,
         NEW n \in Int, burn_from(signed, spender, from, n)
  PROVE  Abstract!Next
<1>1. /\ spender \in auths'
      /\ ~(n < 0) /\ ~(balances[from].amount < n)
      /\ spend_allowance_result(<<from, spender>>, n) = Ok
  BY BurnFromChecks, Zenon DEF burn_from
<1>2. n \in Nat /\ n <= balances[from].amount /\ n \in 0 .. I128_MAX
  BY <1>1, Facts, TokenAssumption
<1>3. /\ allowances' = spend_allowance(<<from, spender>>, n)
      /\ balances' = spend_balance(balances, from, n)
      /\ sequence' = sequence /\ instance'.admin = instance.admin
  BY DEF burn_from, bump_instance, extend_instance
<1>4. Abstract!ActsFor(from, n)
  BY <1>1, <1>2, <1>3, SpendRefines
<1>5. Abstract!Destroy(from, n)
  BY <1>1, <1>2, <1>3, <1>4, DebitSeen DEF Abstract!Destroy
<1> QED  BY <1>2, <1>5 DEF Abstract!Next

(* Steps that callers cannot tell from a call that is refused: accessors,  *)
(* prolongations, failed calls, and everything the fuzzer does by itself.  *)
LEMMA NothingSeen ==
  ASSUME UNCHANGED <<sequence, allowances>>, instance'.admin = instance.admin,
         \A a \in Address : balances'[a].amount = balances[a].amount
  PROVE  Abstract!Next
<1>1. Abstract!Refuse
  BY SameGrants, SameBalances DEF Abstract!Refuse
<1> QED  BY <1>1 DEF Abstract!Next

(* Time passes, and expired temporary entries are gone.  This is where the *)
(* lifetime of an entry and the expiration stored in it must agree.        *)
LEMMA TickRefines ==
  ASSUME TokenInv, sequence' \in Nat, sequence' > sequence,
         instance'.admin = instance.admin,
         \A a \in Address : balances'[a].amount = balances[a].amount,
         \A p \in Pair : allowances'[p] =
           IF Expired(allowances[p].live_until, sequence')
             THEN NoAllowance ELSE allowances[p]
  PROVE  Abstract!Next
<1> DEFINE Lapsed(p) == IF SeenGrants[p].until < sequence' THEN Abstract!NoGrant
                        ELSE SeenGrants[p]
<1>1. ASSUME NEW p \in Pair
      PROVE  GrantOf(Allowance(p)', allowances'[p].expiration_ledger) = Lapsed(p)
  <2> DEFINE x == allowances[p]
             e == x.expiration_ledger
  <2>0. /\ sequence \in Nat /\ Allowance(p) \in Nat /\ e \in Nat
        /\ x.live_until \in Int /\ x.amount \in Nat
        /\ x.amount > 0 => x.live_until >= e
    BY <1>1, Facts, TokenAssumption
    DEF TokenInv, AllowanceEntryOutlivesAllowance, AllowanceEntry, Pair
  <2>1. SeenGrants[p] = GrantOf(Allowance(p), e)
    BY <1>1, SeenGrant
  <2>2. Allowance(p) = IF e < sequence THEN 0 ELSE x.amount
    BY DEF Allowance, read_allowance
  <2>3. Allowance(p)' = IF allowances'[p].expiration_ledger < sequence'
                          THEN 0 ELSE allowances'[p].amount
    BY DEF Allowance, read_allowance
  <2>4. CASE Allowance(p) = 0
    <3>1. Allowance(p)' = 0
      <4>1. CASE allowances'[p] = NoAllowance
        BY <2>3, <4>1 DEF NoAllowance
      <4>2. CASE allowances'[p] = x
        BY <2>0, <2>2, <2>3, <2>4, <4>2
      <4> QED  BY <4>1, <4>2
    <3> QED  BY <2>1, <2>4, <3>1 DEF GrantOf, Abstract!Grant, Abstract!NoGrant
  <2>5. CASE Allowance(p) # 0 /\ e < sequence'
    <3>1. Allowance(p)' = 0
      <4>1. CASE allowances'[p] = NoAllowance
        BY <2>3, <4>1 DEF NoAllowance
      <4>2. CASE allowances'[p] = x
        BY <2>3, <2>5, <4>2
      <4> QED  BY <4>1, <4>2
    <3> QED  BY <2>1, <2>5, <3>1 DEF GrantOf, Abstract!Grant
  <2>6. CASE Allowance(p) # 0 /\ ~(e < sequence')
    <3>1. ~Expired(x.live_until, sequence')
      BY <2>0, <2>2, <2>6 DEF Expired
    <3>2. allowances'[p] = x
      BY <1>1, <3>1
    <3>3. Allowance(p)' = Allowance(p)
      BY <2>0, <2>2, <2>3, <2>6, <3>2
    <3> QED  BY <2>1, <2>6, <3>2, <3>3 DEF GrantOf, Abstract!Grant
  <2> QED  BY <2>4, <2>5, <2>6
<1>2. SeenGrants' = [p \in Pair |-> Lapsed(p)]
  BY <1>1, SeenGrant
<1>3. Abstract!Tick
  BY <1>2, SameBalances DEF Abstract!Tick, Pair
<1> QED  BY <1>3 DEF Abstract!Next

-----------------------------------------------------------------------------
(* The contract, called by anyone.                                         *)

(* Balances that are only prolonged.                                       *)
LEMMA BumpSeen ==
  ASSUME NEW entry, NEW seq
  PROVE  bump_balance(entry, seq).amount = entry.amount
  BY DEF bump_balance

(* Every step of the contract or the ledger is one of the abstract token.  *)
LEMMA TokenNextRefines ==
  ASSUME TokenInv, TokenNext
  PROVE  Abstract!Next
<1>0. /\ \A n \in Amounts : n \in Int /\ n \in I128
      /\ sequence \in Nat
      /\ balances \in [Address -> BalanceEntry]
  BY InputTypes, Facts
<1>1. ASSUME NEW n \in Advances, LedgerClose(n) PROVE Abstract!Next
  <2>1. sequence' \in Nat /\ sequence' > sequence
    BY <1>0, <1>1, TokenAssumption DEF LedgerClose
  <2>2. /\ UNCHANGED <<instance, balances>>
        /\ \A p \in Pair : allowances'[p] =
             IF Expired(allowances[p].live_until, sequence')
               THEN NoAllowance ELSE allowances[p]
    BY <1>1 DEF LedgerClose, Pair
  <2> QED  BY <2>1, <2>2, TickRefines
<1>2. ASSUME allowance PROVE Abstract!Next
  BY <1>2, NothingSeen DEF allowance, bump_instance, extend_instance
<1>3. ASSUME NEW b \in Address, balance(b) PROVE Abstract!Next
  <2>1. balances' = [balances EXCEPT ![b] = bump_balance(balances[b], sequence)]
    BY <1>3 DEF balance
  <2>2. \A a \in Address : balances'[a].amount = balances[a].amount
    BY <1>0, <2>1, BumpSeen
  <2>3. UNCHANGED <<sequence, allowances>> /\ instance'.admin = instance.admin
    BY <1>3 DEF balance, bump_instance, extend_instance
  <2> QED  BY <2>2, <2>3, NothingSeen
<1>4. ASSUME NEW signed \in AuthSets, NEW a \in Address, NEW n \in Amounts,
             mint(signed, a, n) \/ burn(signed, a, n)
      PROVE  Abstract!Next
  BY <1>0, <1>4, MintRefines, BurnRefines
<1>5. ASSUME NEW signed \in AuthSets, NEW a \in Address, NEW b \in Address,
             NEW n \in Amounts,
             \/ transfer(signed, a, b, n)
             \/ burn_from(signed, a, b, n)
             \/ \E e \in Expirations : approve(signed, a, b, n, e)
             \/ \E to \in Address : transfer_from(signed, a, b, to, n)
      PROVE  Abstract!Next
  BY <1>0, <1>5, TransferRefines, BurnFromRefines, ApproveRefines,
     TransferFromRefines
<1> QED
  BY <1>1, <1>2, <1>3, <1>4, <1>5, InitializeRefines, SetAdminRefines DEF TokenNext

(* Whatever the lifetimes of its storage entries do, callers see balances  *)
(* and grants that change as the token interface promises: the contract    *)
(* implements the abstract token.                                          *)
THEOREM TokenImplementsAbstract == TokenSpec => ImplementsAbstractToken
<1>1. TokenInit => Abstract!Init
  BY DEF TokenInit, Abstract!Init, Abstract!NoGrant, registered, no_balances,
     no_allowances, NoBalance, NoAllowance, SeenBalances, SeenGrants, Balance,
     Allowance, read_balance, read_allowance
<1>2. TokenInv /\ [TokenNext]_tokenVars => [Abstract!Next]_(Abstract!abstractVars)
  <2>1. ASSUME UNCHANGED tokenVars PROVE UNCHANGED Abstract!abstractVars
    BY <2>1, SameGrants, SameBalances DEF tokenVars, storage, Abstract!abstractVars
  <2> QED  BY <2>1, TokenNextRefines
<1> QED
  BY <1>1, <1>2, TokenInitInv, TokenNextInv, PTL
  DEF TokenSpec, ImplementsAbstractToken, Abstract!Spec

-----------------------------------------------------------------------------
(* The contract under the fuzzer.                                          *)

(* Before the contract is registered nothing is stored in it.              *)
Unregistered == phase = "start" => instance.admin = NoAddress

(* No step leads back to the start.                                        *)
LEMMA UnregisteredNext ==
  ASSUME Unregistered, [Next]_vars
  PROVE  Unregistered'
<1>1. ASSUME NEW signed, NEW a, NEW b, NEW to, NEW n, NEW e,
             \/ ExecMint(signed, a, n)
             \/ ExecApprove(signed, a, b, n, e)
             \/ ExecTransferFrom(signed, a, b, to, n)
             \/ ExecTransfer(signed, a, b, n)
             \/ ExecBurnFrom(signed, a, b, n)
             \/ ExecBurn(signed, a, n)
      PROVE  phase' # "start"
  <2>1. CASE ExecMint(signed, a, n)
    BY <2>1 DEF ExecMint, Verdict
  <2>2. CASE ExecApprove(signed, a, b, n, e)
    BY <2>2 DEF ExecApprove, Verdict
  <2>3. CASE ExecTransferFrom(signed, a, b, to, n)
    BY <2>3 DEF ExecTransferFrom, Verdict
  <2>4. CASE ExecTransfer(signed, a, b, n)
    BY <2>4 DEF ExecTransfer, Verdict
  <2>5. CASE ExecBurnFrom(signed, a, b, n)
    BY <2>5 DEF ExecBurnFrom, Verdict
  <2>6. CASE ExecBurn(signed, a, n)
    BY <2>6 DEF ExecBurn, Verdict
  <2> QED  BY <1>1, <2>1, <2>2, <2>3, <2>4, <2>5, <2>6
<1>2. CASE \/ Mint \/ Approve \/ TransferFrom \/ Transfer \/ BurnFrom \/ Burn
           \/ ApproveAndTransferFrom \/ ApproveAndBurnFrom \/ SecondHalf
  <2>1. phase' # "start"
    BY <1>1, <1>2 DEF Mint, Approve, TransferFrom, Transfer, BurnFrom, Burn,
       ApproveAndTransferFrom, ApproveAndBurnFrom, ApproveAndSpend, SecondHalf
  <2> QED  BY <2>1 DEF Unregistered
<1>3. CASE \/ RejectInput \/ RegisterContract \/ InitializeContract
           \/ SignatureExpiryOverflows \/ LastHop \/ HopAndPing
           \/ LedgerOverflows \/ SyncAllowances \/ AssertState
           \/ \E n \in Advances : EndCommands(n)
  <2>1. phase' # "start"
    BY <1>3 DEF RejectInput, RegisterContract, InitializeContract,
       SignatureExpiryOverflows, LastHop, HopAndPing, LedgerOverflows,
       TargetNotAhead, SyncAllowances, AssertState, EndCommands
  <2> QED  BY <2>1 DEF Unregistered
<1>4. CASE UNCHANGED vars
  BY <1>4 DEF Unregistered, vars, tokenVars, storage
<1> QED  BY <1>2, <1>3, <1>4 DEF Next, Done

(* Of every state of a run.                                                *)
LEMMA UnregisteredSpec == Spec => []Unregistered
<1>1. Init => Unregistered
  BY DEF Init, Unregistered, NoInstance
<1> QED  BY <1>1, UnregisteredNext, PTL DEF Spec

(* A call that fails shows nothing.                                        *)
LEMMA RejectedRefines ==
  ASSUME NEW signed, NEW r, rejected(signed, r)
  PROVE  Abstract!Next
  BY NothingSeen DEF rejected, storage

(* Commands are calls, that succeed or fail.                               *)
LEMMA ExecRefines ==
  ASSUME TokenInv, NEW signed, NEW a \in Address, NEW b \in Address,
         NEW to \in Address, NEW n \in Amounts,
         \/ ExecMint(signed, a, n)
         \/ \E e \in Expirations : ExecApprove(signed, a, b, n, e)
         \/ ExecTransferFrom(signed, a, b, to, n)
         \/ ExecTransfer(signed, a, b, n)
         \/ ExecBurnFrom(signed, a, b, n)
         \/ ExecBurn(signed, a, n)
  PROVE  Abstract!Next
<1>0. n \in Int /\ n \in I128
  BY InputTypes
<1>1. \/ mint(signed, a, n)
      \/ \E e \in Expirations : approve(signed, a, b, n, e)
      \/ transfer_from(signed, a, b, to, n)
      \/ transfer(signed, a, b, n)
      \/ burn_from(signed, a, b, n)
      \/ burn(signed, a, n)
      \/ \E r : rejected(signed, r)
  BY Zenon DEF ExecMint, ExecApprove, ExecTransferFrom, ExecTransfer, ExecBurnFrom, ExecBurn
<1> QED
  BY <1>0, <1>1, MintRefines, ApproveRefines, TransferFromRefines,
     TransferRefines, BurnFromRefines, BurnRefines, RejectedRefines

(* The hops of the clock: balances and contract survive them, and of the   *)
(* allowances exactly the expired ones are gone.                           *)
LEMMA HopRefines ==
  ASSUME FuzzInv({}), LastHop \/ HopAndPing
  PROVE  Abstract!Next
<1>1. phase = "advance" /\ sequence < to_ledger /\ advance_env(next_ledger)
  BY DEF LastHop, HopAndPing, FuzzInv, Heading
<1>2. /\ next_ledger \in Nat /\ sequence < next_ledger
      /\ next_ledger <= to_ledger
      /\ ~Expired(instance.live_until, next_ledger)
  BY <1>1, NextLedger
<1>3. PICK next \in Nat : next = next_ledger
  BY <1>2
<1>4. balances' = balances
  BY <1>1, <1>2, <1>3, HopKeepsState
<1>5. instance'.admin = instance.admin
  BY <1>1, <1>2 DEF LastHop, HopAndPing, reregister_contract, extend_instance
<1>6. /\ sequence' = next
      /\ \A p \in Pair : allowances'[p] =
           IF Expired(allowances[p].live_until, sequence')
             THEN NoAllowance ELSE allowances[p]
  BY <1>1, <1>3 DEF advance_env, purge, Pair
<1> QED  BY <1>2, <1>3, <1>4, <1>5, <1>6, Types, TickRefines

(* Every step of a run is a step of the abstract token.                    *)
LEMMA FuzzNextRefines ==
  ASSUME FuzzInv({}), Unregistered, Next
  PROVE  Abstract!Next
<1>0. TokenInv
  BY Types
<1>1. CASE RegisterContract
  BY <1>1, NothingSeen DEF RegisterContract, Unregistered, registered
<1>2. CASE InitializeContract
  BY <1>2, InitializeRefines, RejectedRefines, SumFacts DEF InitializeContract
<1>3. CASE \/ Mint \/ Approve \/ TransferFrom \/ Transfer \/ BurnFrom \/ Burn
           \/ ApproveAndTransferFrom \/ ApproveAndBurnFrom
  BY <1>0, <1>3, ExecRefines
  DEF Mint, Approve, TransferFrom, Transfer, BurnFrom, Burn,
     ApproveAndTransferFrom, ApproveAndBurnFrom, ApproveAndSpend
<1>4. CASE SecondHalf
  <2>1. PICK c \in pending :
          \/ ExecTransferFrom(c.signed, c.spender, c.from, c.to, c.amount)
          \/ ExecBurnFrom(c.signed, c.spender, c.from, c.amount)
    BY <1>4 DEF SecondHalf
  <2>2. /\ c.spender \in Address /\ c.from \in Address /\ c.to \in Address
        /\ c.amount \in Amounts
    BY Types DEF PendingCommand
  <2> QED  BY <1>0, <2>1, <2>2, ExecRefines
<1>5. CASE LastHop \/ HopAndPing
  BY <1>5, HopRefines
<1>6. CASE SyncAllowances
  BY <1>6, NothingSeen DEF SyncAllowances, bump_instance, extend_instance
<1>7. CASE AssertState
  <2>1. \A a \in Address : balances'[a].amount = balances[a].amount
    BY <1>7, BumpSeen DEF AssertState
  <2> QED  BY <1>7, <2>1, NothingSeen DEF AssertState, bump_instance, extend_instance
<1>8. CASE \/ RejectInput \/ SignatureExpiryOverflows \/ LedgerOverflows \/ Done
           \/ \E n \in Advances : EndCommands(n)
  <2>1. UNCHANGED tokenVars
    BY <1>8 DEF RejectInput, SignatureExpiryOverflows, LedgerOverflows, Done,
       EndCommands, vars
  <2> QED  BY <2>1, NothingSeen DEF tokenVars, storage
<1> QED  BY <1>1, <1>2, <1>3, <1>4, <1>5, <1>6, <1>7, <1>8 DEF Next

(* Seen through a run of the fuzzer the contract is the same abstract      *)
(* token: hops, purges, pings and reads lose no grant before its           *)
(* expiration ledger and no balance, whatever the input.                   *)
THEOREM RunImplementsAbstract == Spec => RunImplementsAbstractToken
<1>1. Init => Abstract!Init
  BY DEF Init, Abstract!Init, Abstract!NoGrant, NoInstance, no_balances,
     no_allowances, NoBalance, NoAllowance, SeenBalances, SeenGrants, Balance,
     Allowance, read_balance, read_allowance
<1>2. FuzzInv({}) /\ Unregistered /\ [Next]_vars =>
        [Abstract!Next]_(Abstract!abstractVars)
  <2>1. ASSUME UNCHANGED vars PROVE UNCHANGED Abstract!abstractVars
    BY <2>1, SameGrants, SameBalances
    DEF vars, tokenVars, storage, Abstract!abstractVars
  <2> QED  BY <2>1, FuzzNextRefines
<1> QED
  BY <1>1, <1>2, UnregisteredSpec, SpecInv, PTL
  DEF Spec, RunImplementsAbstractToken, ImplementsAbstractToken, Abstract!Spec

-----------------------------------------------------------------------------
(* What the abstract token promises, promised by the contract in a run.    *)

(* The values that callers see.                                            *)
LEMMA SeenTypes ==
  ASSUME TokenInv
  PROVE  /\ SeenBalances \in [Address -> 0 .. I128_MAX]
         /\ \A a \in Address : SeenBalances[a] = Balance(a)
         /\ SeenGrants \in [Pair -> [amount : Nat, until : Nat]]
         /\ \A p \in Pair : SeenGrants[p].amount = Allowance(p)
<1>1. /\ SeenBalances \in [Address -> 0 .. I128_MAX]
      /\ \A a \in Address : SeenBalances[a] = Balance(a)
  BY Facts, SeenBalance DEF Balance, read_balance
<1>2. \A p \in Pair : /\ SeenGrants[p].amount = Allowance(p)
                     /\ SeenGrants[p] \in [amount : Nat, until : Nat]
  BY Facts, SeenGrant DEF GrantOf, Abstract!Grant, Abstract!NoGrant
<1>3. SeenGrants \in [Pair -> [amount : Nat, until : Nat]]
  BY <1>2, SeenGrant
<1> QED  BY <1>1, <1>2, <1>3

(* The same of the next state.                                             *)
LEMMA SeenNext ==
  /\ \A a \in Address : SeenBalances'[a] = Balance(a)'
  /\ \A p \in Pair : SeenGrants'[p].amount = Allowance(p)'
<1>1. \A a \in Address : SeenBalances'[a] = Balance(a)'
  BY DEF SeenBalances
<1>2. \A p \in Pair : SeenGrants'[p].amount = Allowance(p)'
  BY SeenGrant DEF GrantOf, Abstract!Grant, Abstract!NoGrant
<1> QED  BY <1>1, <1>2

(* What remains of a grant that is used.                                   *)
LEMMA UsedGrant ==
  ASSUME TokenInv, NEW owner \in Address, NEW spender \in Address, NEW n \in Nat,
         Abstract!UseGrant(owner, spender, n)
  PROVE  /\ spender \in auths'
         /\ Allowance(<<owner, spender>>)' = Allowance(<<owner, spender>>) - n
         /\ Allowance(<<owner, spender>>) \in Nat
         /\ \A p \in Pair : p # <<owner, spender>> => Allowance(p)' = Allowance(p)
<1> DEFINE pair == <<owner, spender>>
           left == SeenGrants[pair].amount - n
<1>1. /\ spender \in auths' /\ n <= SeenGrants[pair].amount
      /\ SeenGrants' = [SeenGrants EXCEPT ![pair] =
                          GrantOf(left, SeenGrants[pair].until)]
      /\ pair \in Pair
  BY DEF Abstract!UseGrant, GrantOf, Pair
<1> HIDE DEF pair
<1>2. SeenGrants \in [Pair -> [amount : Nat, until : Nat]]
  BY SeenTypes
<1>3. SeenGrants'[pair].amount = left
  BY <1>1, <1>2 DEF GrantOf, Abstract!Grant, Abstract!NoGrant
<1>4. \A p \in Pair : p # pair => SeenGrants'[p] = SeenGrants[p]
  BY <1>1, <1>2
<1>5. /\ Allowance(pair)' = Allowance(pair) - n
      /\ Allowance(pair) \in Nat
      /\ \A p \in Pair : p # pair => Allowance(p)' = Allowance(p)
  BY <1>1, <1>2, <1>3, <1>4, SeenTypes, SeenNext
<1> QED  BY <1>1, <1>5 DEF pair

(* Only three kinds of steps of the abstract token change a balance.       *)
LEMMA BalanceSteps ==
  ASSUME TokenInv, Abstract!Next, NEW a \in Address, Balance(a)' < Balance(a)
  PROVE  \E n \in Nat : Abstract!ActsFor(a, n) /\ n >= Balance(a) - Balance(a)'
<1>0. /\ SeenBalances \in [Address -> 0 .. I128_MAX] /\ I128_MAX \in Nat
      /\ SeenBalances[a] = Balance(a) /\ SeenBalances'[a] = Balance(a)'
      /\ Balance(a) \in Nat
  BY SeenTypes, SeenNext, TokenAssumption
<1>1. SeenBalances' # SeenBalances
  BY <1>0
<1>2. ASSUME NEW to \in Address, NEW n \in 0 .. I128_MAX, Abstract!Mint(to, n)
      PROVE  FALSE
  <2>1. SeenBalances' = [SeenBalances EXCEPT ![to] = @ + n]
    BY <1>2 DEF Abstract!Mint, Abstract!Credit
  <2>2. PICK after : after = Balance(a)'
    OBVIOUS
  <2>3. after = Balance(a) \/ after = Balance(a) + n
    BY <1>0, <2>1, <2>2
  <2> QED  BY <1>0, <2>2, <2>3
<1>3. ASSUME NEW from \in Address, NEW n \in 0 .. I128_MAX, Abstract!Destroy(from, n)
      PROVE  Abstract!ActsFor(a, n) /\ n >= Balance(a) - Balance(a)'
  <2>1. /\ SeenBalances' = [SeenBalances EXCEPT ![from] = @ - n]
        /\ Abstract!ActsFor(from, n)
    BY <1>3 DEF Abstract!Destroy, Abstract!Debit
  <2>2. PICK after : after = Balance(a)'
    OBVIOUS
  <2>3. after = IF a = from THEN Balance(a) - n ELSE Balance(a)
    BY <1>0, <2>1, <2>2
  <2> QED  BY <1>0, <2>1, <2>2, <2>3
<1>4. ASSUME NEW from \in Address, NEW to \in Address, NEW n \in 0 .. I128_MAX,
             Abstract!Move(from, to, n)
      PROVE  Abstract!ActsFor(a, n) /\ n >= Balance(a) - Balance(a)'
  <2>1. /\ SeenBalances' =
             [[SeenBalances EXCEPT ![from] = @ - n] EXCEPT ![to] = @ + n]
        /\ Abstract!ActsFor(from, n)
    BY <1>4 DEF Abstract!Move, Abstract!Debit, Abstract!Credit
  <2>2. PICK after : after = Balance(a)'
    OBVIOUS
  <2>3. after = Balance(a) - (IF a = from THEN n ELSE 0) + (IF a = to THEN n ELSE 0)
    BY <1>0, <2>1, <2>2
  <2> QED  BY <1>0, <2>1, <2>2, <2>3
<1>5. ~(\/ Abstract!Initialize \/ Abstract!SetAdmin \/ Abstract!Refuse
        \/ Abstract!Tick
        \/ \E x, y \in Address, n \in 0 .. I128_MAX, e \in Expirations :
             Abstract!Approve(x, y, n, e))
  BY <1>1 DEF Abstract!Initialize, Abstract!SetAdmin, Abstract!Refuse,
     Abstract!Tick, Abstract!Approve
<1> QED  BY <1>2, <1>3, <1>4, <1>5, TokenAssumption DEF Abstract!Next

(* Nobody is debited but with its signature or by a spender's grant.       *)
LEMMA DebitsInStep ==
  ASSUME TokenInv, Abstract!Next, NEW a \in Address, Balance(a)' < Balance(a)
  PROVE  \/ a \in auths'
         \/ \E s \in auths' :
              Allowance(<<a, s>>) - Allowance(<<a, s>>)' >= Balance(a) - Balance(a)'
<1>1. PICK n \in Nat : Abstract!ActsFor(a, n) /\ n >= Balance(a) - Balance(a)'
  BY BalanceSteps
<1>2. ASSUME NEW s \in Address, Abstract!UseGrant(a, s, n)
      PROVE  /\ s \in auths'
             /\ Allowance(<<a, s>>) - Allowance(<<a, s>>)' = n
  BY <1>2, UsedGrant
<1> QED  BY <1>1, <1>2 DEF Abstract!ActsFor

(* An allowance grows by an approval of its owner, and by nothing else.    *)
LEMMA GrantsInStep ==
  ASSUME TokenInv, Abstract!Next, NEW a \in Address, NEW s \in Address,
         Allowance(<<a, s>>)' > Allowance(<<a, s>>)
  PROVE  a \in auths'
<1>0. PICK p \in Pair : p = <<a, s>>
  BY DEF Pair
<1>1. /\ SeenGrants \in [Pair -> [amount : Nat, until : Nat]]
      /\ SeenGrants[p].amount = Allowance(p)
      /\ SeenGrants'[p].amount = Allowance(p)'
      /\ Allowance(p) \in Nat
      /\ Allowance(p)' > Allowance(p)
  BY <1>0, SeenTypes, SeenNext
<1>2. SeenGrants' # SeenGrants
  BY <1>1
<1>3. ASSUME NEW owner \in Address, NEW n \in Nat, Abstract!ActsFor(owner, n)
      PROVE  FALSE
  <2>1. PICK spender \in Address : Abstract!UseGrant(owner, spender, n)
    BY <1>2, <1>3 DEF Abstract!ActsFor
  <2>2. Allowance(p)' = Allowance(p) - n \/ Allowance(p)' = Allowance(p)
    BY <2>1, UsedGrant
  <2> QED  BY <1>1, <2>2
<1>4. ASSUME NEW owner \in Address, NEW spender \in Address,
             NEW n \in 0 .. I128_MAX, NEW e \in Expirations,
             Abstract!Approve(owner, spender, n, e)
      PROVE  a \in auths'
  <2>1. /\ owner \in auths'
        /\ SeenGrants' = [SeenGrants EXCEPT ![<<owner, spender>>] = GrantOf(n, e)]
    BY <1>4 DEF Abstract!Approve, GrantOf
  <2>2. p = <<owner, spender>>
    BY <1>1, <2>1
  <2> QED  BY <1>0, <2>1, <2>2
<1>5. ~Abstract!Tick
  <2> SUFFICES ASSUME Abstract!Tick PROVE FALSE
    OBVIOUS
  <2>1. SeenGrants'[p] = SeenGrants[p] \/ SeenGrants'[p] = Abstract!NoGrant
    BY DEF Abstract!Tick, Pair
  <2>2. Allowance(p)' = Allowance(p) \/ Allowance(p)' = 0
    BY <1>1, <2>1 DEF Abstract!NoGrant
  <2> QED  BY <1>1, <2>2
<1>6. ~(\/ Abstract!Initialize \/ Abstract!SetAdmin \/ Abstract!Refuse
        \/ \E x \in Address, n \in 0 .. I128_MAX : Abstract!Mint(x, n))
  BY <1>2 DEF Abstract!Initialize, Abstract!SetAdmin, Abstract!Refuse, Abstract!Mint
<1>7. \A x \in Address, n \in 0 .. I128_MAX : ~Abstract!Destroy(x, n)
  BY <1>3 DEF Abstract!Destroy
<1>8. \A x, y \in Address, n \in 0 .. I128_MAX : ~Abstract!Move(x, y, n)
  BY <1>3 DEF Abstract!Move
<1> QED  BY <1>4, <1>5, <1>6, <1>7, <1>8 DEF Abstract!Next

(* The administrator is set once, then replaced with its signature.        *)
LEMMA AdminInStep ==
  ASSUME Abstract!Next, instance.admin' # instance.admin
  PROVE  /\ instance.admin' # NoAddress
         /\ instance.admin = NoAddress \/ instance.admin \in auths'
<1>1. Abstract!Initialize \/ Abstract!SetAdmin
  BY DEF Abstract!Next, Abstract!Refuse, Abstract!Tick, Abstract!Mint,
     Abstract!Destroy, Abstract!Move, Abstract!Approve
<1> QED  BY <1>1, TokenAssumption DEF Abstract!Initialize, Abstract!SetAdmin

(* Only Mint makes the sum of the balances grow.                           *)
LEMMA SupplyInStep ==
  ASSUME TokenInv, Abstract!Next, sum_of_balances' > sum_of_balances
  PROVE  instance.admin \in auths'
<1> DEFINE Total(b) == b[Account0] + b[Account1] + b[Account2]
<1>0. /\ SeenBalances \in [Address -> 0 .. I128_MAX] /\ I128_MAX \in Nat
      /\ SeenBalances \in [Address -> Int]
      /\ sum_of_balances = Total(SeenBalances)
      /\ sum_of_balances' = Total(SeenBalances')
  BY SeenTypes, SeenNext, SumFacts, TokenAssumption DEF sum_of_balances
<1>1. SeenBalances' # SeenBalances
  BY <1>0, SumFacts
<1>2. PICK b \in [Address -> Int] : b = SeenBalances
  BY <1>0
<1>3. ASSUME NEW from \in Address, NEW n \in 0 .. I128_MAX
      PROVE  /\ [b EXCEPT ![from] = @ - n] \in [Address -> Int]
             /\ Total([b EXCEPT ![from] = @ - n]) = Total(b) - n
  BY <1>0, FuzzerAssumption
<1>4. ASSUME NEW c \in [Address -> Int], NEW to \in Address, NEW n \in 0 .. I128_MAX
      PROVE  Total([c EXCEPT ![to] = @ + n]) = Total(c) + n
  BY <1>0, FuzzerAssumption
<1>5. Total(b) \in Int
  BY SumFacts
<1> HIDE DEF Total
<1>6. ASSUME NEW from \in Address, NEW n \in 0 .. I128_MAX, Abstract!Destroy(from, n)
      PROVE  FALSE
  <2>1. SeenBalances' = [b EXCEPT ![from] = @ - n]
    BY <1>2, <1>6 DEF Abstract!Destroy, Abstract!Debit
  <2>2. sum_of_balances' = sum_of_balances - n /\ sum_of_balances \in Int
    BY <1>0, <1>2, <1>3, <1>5, <2>1
  <2> QED  BY <1>0, <2>2
<1>7. ASSUME NEW from \in Address, NEW to \in Address, NEW n \in 0 .. I128_MAX,
             Abstract!Move(from, to, n)
      PROVE  FALSE
  <2>1. PICK c \in [Address -> Int] : c = [b EXCEPT ![from] = @ - n]
    BY <1>3
  <2>2. SeenBalances' = [c EXCEPT ![to] = @ + n]
    BY <1>2, <1>7, <2>1 DEF Abstract!Move, Abstract!Debit, Abstract!Credit
  <2>3. Total(SeenBalances') = Total(c) + n /\ Total(c) = Total(b) - n
    BY <1>3, <1>4, <2>1, <2>2
  <2>4. sum_of_balances' = sum_of_balances /\ sum_of_balances \in Int
    BY <1>0, <1>2, <1>5, <2>3
  <2> QED  BY <2>4
<1>8. ~(\/ Abstract!Initialize \/ Abstract!Refuse \/ Abstract!Tick
        \/ \E x, y \in Address, n \in 0 .. I128_MAX, e \in Expirations :
             Abstract!Approve(x, y, n, e))
  BY <1>1 DEF Abstract!Initialize, Abstract!Refuse, Abstract!Tick, Abstract!Approve
<1>9. CASE \/ Abstract!SetAdmin
           \/ \E x \in Address, n \in 0 .. I128_MAX : Abstract!Mint(x, n)
  BY <1>9 DEF Abstract!SetAdmin, Abstract!Mint
<1> QED  BY <1>6, <1>7, <1>8, <1>9 DEF Abstract!Next

(* In every run of the fuzzer, hops and purges included, nobody loses      *)
(* tokens but by its own signature or to a spender who pays with as much   *)
(* of the allowance it was given.                                          *)
THEOREM RunDebitsNeedASignature == Spec => DebitsAreAuthorized
<1>1. FuzzInv({}) /\ Unregistered /\ [Next]_vars =>
        [\A a \in Address : Balance(a)' < Balance(a) =>
           \/ a \in auths'
           \/ \E s \in auths' :
                Allowance(<<a, s>>) - Allowance(<<a, s>>)' >= Balance(a) - Balance(a)'
        ]_tokenVars
  BY FuzzNextRefines, Types, DebitsInStep DEF vars
<1> QED
  BY <1>1, UnregisteredSpec, SpecInv, PTL DEF Spec, DebitsAreAuthorized

(* In every run an allowance grows only by an approval its owner signed:   *)
(* what the clock, the purges or the pings took away nothing brings back.  *)
THEOREM RunGrantsNeedTheOwner == Spec => AllowancesGrowOnlyByOwner
<1>1. FuzzInv({}) /\ Unregistered /\ [Next]_vars =>
        [\A a, s \in Address : Allowance(<<a, s>>)' > Allowance(<<a, s>>) =>
           a \in auths']_tokenVars
  BY FuzzNextRefines, Types, GrantsInStep DEF vars
<1> QED
  BY <1>1, UnregisteredSpec, SpecInv, PTL DEF Spec, AllowancesGrowOnlyByOwner

(* In every run the administrator is set once, by initialize.              *)
THEOREM RunAdminNeedsTheAdmin == Spec => AdminHandsOver
<1>1. FuzzInv({}) /\ Unregistered /\ [Next]_vars =>
        [instance.admin' # instance.admin =>
           /\ instance.admin' # NoAddress
           /\ instance.admin = NoAddress \/ instance.admin \in auths']_tokenVars
  BY FuzzNextRefines, AdminInStep DEF vars
<1> QED  BY <1>1, UnregisteredSpec, SpecInv, PTL DEF Spec, AdminHandsOver

(* In every run the supply grows only with the administrator's signature.  *)
THEOREM RunSupplyNeedsTheAdmin == Spec => SupplyGrowsOnlyByAdmin
<1>1. FuzzInv({}) /\ Unregistered /\ [Next]_vars =>
        [sum_of_balances' > sum_of_balances => instance.admin \in auths']_vars
  BY FuzzNextRefines, Types, SupplyInStep
<1> QED
  BY <1>1, UnregisteredSpec, SpecInv, PTL DEF Spec, SupplyGrowsOnlyByAdmin
=============================================================================
