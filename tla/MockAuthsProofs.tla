--------------------------- MODULE MockAuthsProofs ---------------------------
(***************************************************************************)
(* Theorems about the signers and their signatures, for every seed, every  *)
(* choice of address types, every number of calls and hops.                *)
(***************************************************************************)
EXTENDS MockAuths, FiniteSetTheorems, TLAPS

USE DEF TokenKind

(* Where setup has put accounts and token.                                 *)
Storage ==
  phase # "start" /\ phase \notin Finished =>
    \A i \in Index : address_types[i] = "Account" =>
      /\ create_default_account(Signer(i)) \in ledger_entries
      /\ create_default_trustline(Signer(i)) \in ledger_entries

TokenAddress ==
  /\ phase \in {"start", "storage"} => generated = 0 /\ auths = {} /\ code = {}
  /\ phase \in {"commands", "signed", "advance"} =>
       token = AddressOf(IF kind = "Native" THEN "Asset" ELSE "Contract", 1)

(* The counter is ahead of all nonces that were ever used or handed out.   *)
Nonces ==
  /\ \A l \in ledger_entries : l.what = "Nonce" => l.number < signature_nonce
  /\ \A e \in auth_entries : e.nonce < signature_nonce

(* Between the signing and the call, exactly the signers are authorized.   *)
Signatures ==
  phase = "signed" =>
    /\ invocation \in Invocations
    /\ outcome = [result |-> "none"]
    /\ \A e \in auth_entries : \E i \in auths : e.address = Signer(i)
    /\ \A i \in auths : authorized(Signer(i), invocation)

AuthInv ==
  /\ TypeOK
  /\ address_seed \in Seeds
  /\ SetupAndPingsSucceed
  /\ Storage
  /\ TokenAddress
  /\ Nonces
  /\ NoncesAreFresh
  /\ Signatures

-----------------------------------------------------------------------------
(* Signers.                                                                *)

(* Whatever the seed and the types, two signers never share an address, so *)
(* the fuzzer's three accounts are three (generate_signers_with_bytes).    *)
THEOREM SignersAreDistinct ==
  ASSUME NEW seed \in Nat, NEW types \in [Index -> AddressType],
         NEW i \in Index, NEW j \in Index,
         signer_address(seed, types, i) = signer_address(seed, types, j)
  PROVE  i = j
BY DEF signer_address, signer_bytes, AddressOf, Index, NUMBER_OF_ADDRESSES

(* Addresses of signers are addresses.                                     *)
LEMMA SignerTypes ==
  ASSUME TypeOK, NEW i \in Index
  PROVE  /\ Signer(i) \in Addresses
         /\ Signer(i).type = address_types[i]
         /\ Signer(i).number = address_seed + i
         /\ Signer(i).type \in {"Account", "Contract"}
         /\ Key(i) \in Nat \cup {NoKey}
         /\ address_types[i] = "Account" => Key(i) = Signer(i).number
         /\ Key(i) = NoKey <=> address_types[i] = "Contract"
<1>1. /\ address_seed + i \in Nat /\ address_types[i] \in {"Account", "Contract"}
      /\ address_seed + i # -1
  BY DEF TypeOK, Index, NUMBER_OF_ADDRESSES, AddressType
<1> QED
  BY <1>1 DEF Signer, Key, signer_address, signer_key, signer_bytes, AddressOf,
     Addresses, AddressType, NoKey

(* The nonces of one command are counted from the nonce before it, and end *)
(* below the nonce after it.                                               *)
LEMMA NonceRange ==
  ASSUME NEW chosen \in SUBSET Index, signature_nonce \in Nat
  PROVE  /\ Cardinality(chosen) \in Nat
         /\ \A i \in chosen : /\ nonce_of(chosen, i) \in Nat
                              /\ nonce_of(chosen, i) >= signature_nonce
                              /\ nonce_of(chosen, i)
                                   < signature_nonce + Cardinality(chosen)
<1>1. IsFiniteSet(Index)
  <2>1. Index = 0 .. 2 /\ 0 \in Int /\ 2 \in Int
    BY DEF Index, NUMBER_OF_ADDRESSES
  <2>2. IsFiniteSet(0 .. 2)
    BY <2>1, FS_Interval, Zenon
  <2> QED  BY <2>1, <2>2
<1>2. IsFiniteSet(chosen) /\ Cardinality(chosen) \in Nat
  BY <1>1, FS_Subset, FS_CardinalityType
<1>3. ASSUME NEW i \in chosen
      PROVE  LET before == {j \in chosen : j < i}
             IN  Cardinality(before) \in Nat /\ Cardinality(before) < Cardinality(chosen)
  <2> DEFINE before == {j \in chosen : j < i}
  <2>1. before \in SUBSET chosen /\ before # chosen
    BY DEF Index, NUMBER_OF_ADDRESSES
  <2>2. IsFiniteSet(before) /\ Cardinality(before) \in Nat
    BY <2>1, <1>2, FS_Subset, FS_CardinalityType
  <2>3. Cardinality(before) <= Cardinality(chosen) /\ Cardinality(before) # Cardinality(chosen)
    BY <2>1, <1>2, FS_Subset
  <2> QED  BY <2>2, <2>3, <1>2
<1> QED  BY <1>2, <1>3 DEF nonce_of

-----------------------------------------------------------------------------
(* Setup.                                                                  *)

(* At the start nothing is signed and nothing is stored.                   *)
LEMMA InitInv == Init => AuthInv
<1> SUFFICES ASSUME Init PROVE AuthInv
  OBVIOUS
<1> USE AddressAssumption
<1>1. address_seed \in Nat
  BY DEF Init, Seeds, NUMBER_OF_ADDRESSES
<1>2. TypeOK
  BY <1>1, MockAuthsAssumption DEF Init, TypeOK, NoToken, AddressOf, Addresses,
     AddressType
<1> QED
  BY <1>2 DEF Init, AuthInv, SetupAndPingsSucceed, Storage, TokenAddress, Nonces,
     NoncesAreFresh, Signatures

(* The range of seeds leaves room for the signers, so that setup stores    *)
(* the accounts.                                                           *)
LEMMA SetupAccountStorageInv ==
  ASSUME AuthInv, SetupAccountStorage
  PROVE  AuthInv'
<1> USE AddressAssumption
<1>1. ~signer_overflow(address_seed)
  BY DEF AuthInv, TypeOK, signer_overflow, signer_bytes, Seeds, Index,
     NUMBER_OF_ADDRESSES
<1>2. /\ phase = "start" /\ phase' = "storage"
      /\ ledger_entries' = account_storage(address_seed, address_types)
      /\ UNCHANGED <<address_seed, address_types, kind, sequence, code,
                     auth_entries, generated, token, signature_nonce, auths,
                     invocation, outcome, commands>>
  BY <1>1 DEF SetupAccountStorage, input, env
<1>3. \A i \in Index : Signer(i)' = Signer(i)
  BY <1>2 DEF Signer
<1>4. \A l \in ledger_entries' : l \in LedgerEntries /\ l.what # "Nonce"
  <2> SUFFICES ASSUME NEW i \in Index
               PROVE  /\ create_default_account(Signer(i)) \in LedgerEntries
                      /\ create_default_trustline(Signer(i)) \in LedgerEntries
                      /\ create_default_account(Signer(i)).what # "Nonce"
                      /\ create_default_trustline(Signer(i)).what # "Nonce"
    BY <1>2 DEF account_storage, Signer
  <2>1. Signer(i) \in Addresses
    BY SignerTypes DEF AuthInv
  <2> QED
    BY <2>1 DEF create_default_account, create_default_trustline, LedgerEntry,
       LedgerEntries, issuer_bytes
<1>5. \A i \in Index : address_types[i] = "Account" =>
        /\ create_default_account(Signer(i)) \in ledger_entries'
        /\ create_default_trustline(Signer(i)) \in ledger_entries'
  BY <1>2 DEF account_storage, Signer
<1>6. TypeOK' /\ Storage'
  BY <1>2, <1>3, <1>4, <1>5 DEF AuthInv, TypeOK, Storage
<1>7. TokenAddress' /\ Nonces' /\ SetupAndPingsSucceed' /\ (address_seed \in Seeds)'
  BY <1>2, <1>4 DEF AuthInv, TokenAddress, Nonces, SetupAndPingsSucceed
<1> QED
  BY <1>2, <1>6, <1>7 DEF AuthInv, NoncesAreFresh, Signatures

(* The first address the host generates is number 1.                       *)
LEMMA RegisterContractInitInv ==
  ASSUME AuthInv, RegisterContractInit
  PROVE  AuthInv'
<1>1. /\ phase = "storage" /\ phase' = "commands"
      /\ generated = 0 /\ generated' = 1
      /\ UNCHANGED <<address_seed, address_types, kind, sequence, ledger_entries,
                     auth_entries, signature_nonce, auths, invocation, outcome,
                     commands>>
      /\ code = {}
      /\ token' = AddressOf(IF kind = "Native" THEN "Asset" ELSE "Contract", 1)
      /\ code' \subseteq {Code(token', "Token")}
  BY DEF RegisterContractInit, AuthInv, TypeOK, TokenAddress, input, register_contract
<1>2. token' \in Addresses
  BY <1>1 DEF AddressOf, Addresses, AddressType
<1>3. TypeOK'
  BY <1>1, <1>2 DEF AuthInv, TypeOK, Code
<1>4. \A i \in Index : Signer(i)' = Signer(i)
  BY <1>1 DEF Signer
<1>5. Storage' /\ TokenAddress' /\ Nonces' /\ SetupAndPingsSucceed'
  BY <1>1, <1>4 DEF AuthInv, Storage, TokenAddress, Nonces, SetupAndPingsSucceed,
     Finished
<1> QED
  BY <1>1, <1>3, <1>5 DEF AuthInv, NoncesAreFresh, Signatures

-----------------------------------------------------------------------------
(* Signing.                                                                *)

(* What a signer's authorization holds.                                    *)
LEMMA AuthEntryFields ==
  ASSUME NEW chosen, NEW inv, NEW i
  PROVE  LET e == auth_entry(chosen, inv, i)
         IN  /\ e.address = Signer(i) /\ e.nonce = nonce_of(chosen, i)
             /\ e.expiration = expiration_ledger /\ e.invocation = inv
             /\ e.key = Key(i)
             /\ e.payload = Payload(inv, nonce_of(chosen, i), expiration_ledger)
BY DEF auth_entry

(* A command takes fresh nonces, replaces all earlier authorizations, and  *)
(* leaves exactly the chosen signers authorized: accounts because their    *)
(* account entry is there, contracts because they are given code.          *)
LEMMA MockAuthsInv ==
  ASSUME AuthInv, NEW chosen \in SUBSET Index, NEW inv \in Invocations,
         MockAuths(chosen, inv)
  PROVE  AuthInv'
<1> USE StorageAssumption
<1>0. TypeOK /\ sequence \in Nat /\ signature_nonce \in Nat
  BY DEF AuthInv, TypeOK
<1>1. /\ phase = "commands" /\ phase' = "signed"
      /\ code' = with_mock_auth_contracts(chosen)
      /\ auth_entries' = {auth_entry(chosen, inv, i) : i \in chosen}
      /\ signature_nonce' = signature_nonce + Cardinality(chosen)
      /\ auths' = chosen /\ invocation' = inv
      /\ outcome' = [result |-> "none"]
      /\ commands' = commands + 1
      /\ UNCHANGED <<address_seed, address_types, kind, sequence,
                     ledger_entries, generated, token>>
  BY DEF MockAuths, input
<1>2. \A i \in Index : Signer(i)' = Signer(i)
  BY <1>1 DEF Signer
<1>3. /\ signature_nonce' \in Nat /\ signature_nonce' >= signature_nonce
      /\ \A i \in chosen : /\ nonce_of(chosen, i) \in Nat
                            /\ nonce_of(chosen, i) >= signature_nonce
                            /\ nonce_of(chosen, i) < signature_nonce'
  <2>1. /\ Cardinality(chosen) \in Nat
        /\ \A i \in chosen : /\ nonce_of(chosen, i) \in Nat
                              /\ nonce_of(chosen, i) >= signature_nonce
                              /\ nonce_of(chosen, i)
                                   < signature_nonce + Cardinality(chosen)
    BY <1>0, NonceRange
  <2> QED  BY <1>0, <1>1, <2>1
<1>4. /\ expiration_ledger \in 0 .. U32_MAX
      /\ expiration_ledger \in sequence .. MaxLiveUntil(sequence)
  BY <1>0, MockAuthsAssumption DEF MockAuths, expiration_ledger, MaxLiveUntil
<1>5. TypeOK'
  <2>1. auth_entries' \subseteq AuthEntries
    <3> SUFFICES ASSUME NEW i \in chosen
                 PROVE  auth_entry(chosen, inv, i) \in AuthEntries
      BY <1>1
    <3>1. Signer(i) \in Addresses /\ Key(i) \in Nat \cup {NoKey}
      BY <1>0, SignerTypes
    <3> QED  BY <1>3, <1>4, <3>1 DEF auth_entry, Payload, AuthEntries
  <2>2. code' \subseteq [address : Addresses, contract : {"Token", "MockAuthContract"}]
    <3>1. \A i \in chosen : Signer(i) \in Addresses
      BY <1>0, SignerTypes
    <3> QED  BY <1>0, <1>1, <3>1 DEF with_mock_auth_contracts, Code, TypeOK
  <2> QED  BY <1>0, <1>1, <1>3, <2>1, <2>2 DEF TypeOK
<1>6. Storage' /\ TokenAddress' /\ SetupAndPingsSucceed' /\ (address_seed \in Seeds)'
  BY <1>1, <1>2 DEF AuthInv, Storage, TokenAddress, SetupAndPingsSucceed, Finished
<1>7. \A e \in auth_entries' : \E i \in chosen :
        /\ e.address = Signer(i)
        /\ e.nonce = nonce_of(chosen, i)
  BY <1>1, AuthEntryFields
<1>8. Nonces'
  <2>1. \A l \in ledger_entries' : l.what = "Nonce" => l.number < signature_nonce'
    BY <1>0, <1>1, <1>3 DEF AuthInv, Nonces, TypeOK, LedgerEntries
  <2>2. \A e \in auth_entries' : e.nonce < signature_nonce'
    BY <1>3, <1>7
  <2> QED  BY <2>1, <2>2 DEF Nonces
<1>9. \A i \in chosen, l \in ledger_entries :
        l.what = "Nonce" => l.number # nonce_of(chosen, i)
  BY <1>0, <1>3 DEF AuthInv, Nonces, TypeOK, LedgerEntries
<1>10. NoncesAreFresh'
  BY <1>1, <1>7, <1>9 DEF NoncesAreFresh
<1>11. ASSUME NEW i \in chosen
       PROVE  \E e \in auth_entries' :
                e.address = Signer(i) /\ e.invocation = inv /\ usable(e)'
  <2>1. PICK e \in auth_entries' :
          /\ e.address = Signer(i) /\ e.nonce = nonce_of(chosen, i)
          /\ e.expiration = expiration_ledger /\ e.invocation = inv
          /\ e.key = Key(i)
          /\ e.payload = Payload(inv, nonce_of(chosen, i), expiration_ledger)
    BY <1>1, AuthEntryFields
  <2>2. /\ Signer(i).type = address_types[i]
        /\ Signer(i).type \in {"Account", "Contract"}
        /\ address_types[i] = "Account" => Key(i) = Signer(i).number
        /\ Key(i) = NoKey <=> address_types[i] = "Contract"
    BY <1>0, SignerTypes
  <2>3. CASE address_types[i] = "Account"
    <3>1. create_default_account(Signer(i)) \in ledger_entries'
      BY <1>1, <2>3 DEF AuthInv, Storage, Finished
    <3>2. \E l \in ledger_entries' : l.what = "Account" /\ l.address = Signer(i)
      BY <3>1 DEF create_default_account, LedgerEntry
    <3> QED  BY <1>1, <1>4, <1>9, <2>1, <2>2, <2>3, <3>2 DEF usable, Payload
  <2>4. CASE address_types[i] = "Contract"
    <3>1. Code(Signer(i), "MockAuthContract") \in code'
      BY <1>1, <2>2, <2>4 DEF with_mock_auth_contracts
    <3> QED  BY <1>1, <1>4, <1>9, <2>1, <3>1 DEF usable
  <2> QED  BY <2>2, <2>3, <2>4
<1>12. Signatures'
  <2>1. \A i \in chosen : authorized(Signer(i), invocation)'
    BY <1>1, <1>2, <1>11 DEF authorized, authorizes
  <2> QED  BY <1>1, <1>2, <1>7, <2>1 DEF Signatures
<1> QED
  BY <1>5, <1>6, <1>8, <1>10, <1>12 DEF AuthInv

-----------------------------------------------------------------------------
(* Calls.                                                                  *)

(* A call ends the phase in which signatures matter, and adds at most the  *)
(* nonce of one authorization to the ledger.                               *)
LEMMA CallInv ==
  ASSUME AuthInv, NEW i, NEW result, Call(i, result),
         \/ UNCHANGED ledger_entries
         \/ \E e \in auth_entries :
              ledger_entries' = ledger_entries \cup
                {LedgerEntry("Nonce", e.address, e.nonce, e.expiration)}
  PROVE  AuthInv'
<1>1. /\ phase = "signed" /\ phase' = "commands"
      /\ UNCHANGED <<address_seed, address_types, kind, sequence, code,
                     auth_entries, generated, token, signature_nonce, auths,
                     invocation, commands>>
  BY DEF Call, input, env
<1>2. \A j \in Index : Signer(j)' = Signer(j)
  BY <1>1 DEF Signer
<1>3. /\ ledger_entries \subseteq ledger_entries'
      /\ ledger_entries' \subseteq LedgerEntries
      /\ \A l \in ledger_entries' : l.what = "Nonce" => l.number < signature_nonce
  <2>1. CASE UNCHANGED ledger_entries
    BY <2>1 DEF AuthInv, TypeOK, Nonces
  <2>2. ASSUME NEW e \in auth_entries,
               ledger_entries' = ledger_entries \cup
                 {LedgerEntry("Nonce", e.address, e.nonce, e.expiration)}
        PROVE  <1>3
    <3>1. /\ e.address \in Addresses /\ e.nonce \in Nat /\ e.expiration \in Nat
          /\ e.nonce < signature_nonce
      BY DEF AuthInv, TypeOK, AuthEntries, Nonces
    <3>2. LET l == LedgerEntry("Nonce", e.address, e.nonce, e.expiration)
          IN  l \in LedgerEntries /\ l.number = e.nonce
      BY <3>1 DEF LedgerEntry, LedgerEntries
    <3> QED  BY <2>2, <3>1, <3>2 DEF AuthInv, TypeOK, Nonces
  <2> QED  BY <2>1, <2>2
<1>4. TypeOK'
  BY <1>1, <1>3 DEF AuthInv, TypeOK
<1>5. Storage' /\ TokenAddress' /\ Nonces' /\ SetupAndPingsSucceed'
  BY <1>1, <1>2, <1>3 DEF AuthInv, Storage, TokenAddress, Nonces,
     SetupAndPingsSucceed, Finished
<1> QED
  BY <1>1, <1>4, <1>5 DEF AuthInv, NoncesAreFresh, Signatures

-----------------------------------------------------------------------------
(* Hops.                                                                   *)

(* A new Env has no signatures; the entries without expiration ledger are  *)
(* in it, and every nonce in it was in the one before.                     *)
LEMMA AdvanceEnvInv ==
  ASSUME AuthInv, NEW ledgers \in 0 .. MAX_LEDGERS_TO_ADVANCE, advance_env(ledgers),
         phase' \in {"commands", "advance"}, generated' \in Nat
  PROVE  AuthInv'
<1>1. /\ phase \in {"commands", "advance"}
      /\ sequence' = sequence + ledgers
      /\ ledger_entries' = retained(ledger_entries, sequence')
      /\ code' = reregister_contract
      /\ auth_entries' = {} /\ auths' = {}
      /\ UNCHANGED <<address_seed, address_types, kind, token, signature_nonce,
                     invocation, commands>>
  BY DEF advance_env, input
<1>2. \A i \in Index : Signer(i)' = Signer(i)
  BY <1>1 DEF Signer
<1>3. /\ ledger_entries' \subseteq ledger_entries
      /\ \A l \in ledger_entries : l.expiration = NoExpiration => l \in ledger_entries'
  BY <1>1 DEF retained
<1>4. TypeOK'
  <2>1. code' \subseteq {Code(token, "Token")}
    BY <1>1 DEF reregister_contract, register_contract
  <2>2. sequence' \in 0 .. U32_MAX
    BY <1>1, MockAuthsAssumption DEF AuthInv, TypeOK, advance_env
  <2> QED  BY <1>1, <1>3, <2>1, <2>2 DEF AuthInv, TypeOK, Code
<1>5. Storage'
  BY <1>1, <1>2, <1>3 DEF AuthInv, Storage, Finished, create_default_account,
     create_default_trustline, LedgerEntry
<1>6. TokenAddress' /\ Nonces' /\ SetupAndPingsSucceed'
  BY <1>1, <1>3 DEF AuthInv, TokenAddress, Nonces, SetupAndPingsSucceed
<1> QED
  BY <1>1, <1>4, <1>5, <1>6 DEF AuthInv, NoncesAreFresh, Signatures

(* The ping finds the token, whose code was registered again.              *)
LEMMA HopFindsToken ==
  ASSUME AuthInv, HopAndPing
  PROVE  phase' = "advance"
<1>1. code' = reregister_contract /\ kind' = kind /\ token' = token
  BY DEF HopAndPing, advance_env, input
<1>2. token_runs'
  BY <1>1 DEF token_runs, reregister_contract, register_contract
<1> QED  BY <1>2 DEF HopAndPing

(* A step that only changes the phase to a way of ending.                  *)
LEMMA EndOfTimeInv ==
  ASSUME AuthInv, SignatureExpiryOverflows \/ LedgerOverflows
  PROVE  AuthInv'
<1>1. /\ phase' = "EndOfTime"
      /\ UNCHANGED <<address_seed, address_types, kind, sequence, ledger_entries,
                     code, auth_entries, generated, token, signature_nonce,
                     auths, invocation, outcome, commands>>
  BY DEF SignatureExpiryOverflows, LedgerOverflows, input, env
<1>2. TypeOK'
  BY <1>1 DEF AuthInv, TypeOK, Finished
<1> QED
  BY <1>1, <1>2 DEF AuthInv, SetupAndPingsSucceed, Storage, TokenAddress, Nonces,
     NoncesAreFresh, Signatures, Finished

(* Nothing changes.                                                        *)
LEMMA StutterInv ==
  ASSUME AuthInv, UNCHANGED vars
  PROVE  AuthInv'
BY DEF AuthInv, vars, input, env, TypeOK, SetupAndPingsSucceed, Storage,
   TokenAddress, Nonces, NoncesAreFresh, Signatures, Signer, authorized,
   authorizes, usable, Finished

(* Every step keeps the invariant.                                         *)
LEMMA NextInv == AuthInv /\ [Next]_vars => AuthInv'
<1> SUFFICES ASSUME AuthInv, [Next]_vars PROVE AuthInv'
  OBVIOUS
<1>1. ASSUME NEW chosen \in SUBSET Index, NEW inv \in Invocations,
             MockAuths(chosen, inv)
      PROVE  AuthInv'
  BY <1>1, MockAuthsInv
<1>2. ASSUME NEW i \in Index,
             \/ CallAccepted(i) \/ CallUnauthorized(i)
             \/ CallFailed(i) \/ CallMissing(i)
      PROVE  AuthInv'
  BY <1>2, CallInv DEF CallAccepted, CallUnauthorized, CallFailed, CallMissing
<1>3. ASSUME NEW n \in 1 .. MAX_LEDGERS_TO_ADVANCE, LastHop(n)
      PROVE  AuthInv'
  <2>1. n \in 0 .. MAX_LEDGERS_TO_ADVANCE
    BY MockAuthsAssumption
  <2>2. advance_env(n) /\ phase' = "commands" /\ generated' = generated
    BY <1>3 DEF LastHop
  <2>3. generated' \in Nat
    BY <2>2 DEF AuthInv, TypeOK
  <2> QED  BY <2>1, <2>2, <2>3, AdvanceEnvInv
<1>4. CASE HopAndPing
  <2>1. advance_env(MAX_LEDGERS_TO_ADVANCE) /\ generated' \in Nat
    BY <1>4 DEF HopAndPing, AuthInv, TypeOK
  <2>2. MAX_LEDGERS_TO_ADVANCE \in 0 .. MAX_LEDGERS_TO_ADVANCE
    BY MockAuthsAssumption
  <2> QED  BY <1>4, <2>1, <2>2, HopFindsToken, AdvanceEnvInv
<1>5. CASE Done \/ UNCHANGED vars
  BY <1>5, StutterInv DEF Done
<1> QED
  BY <1>1, <1>2, <1>3, <1>4, <1>5, SetupAccountStorageInv,
     RegisterContractInitInv, EndOfTimeInv DEF Next

(* The invariant holds in every state of every run.                        *)
THEOREM AuthInvariant == Spec => []AuthInv
<1>1. Init => AuthInv
  BY InitInv
<1>2. AuthInv /\ [Next]_vars => AuthInv'
  BY NextInv
<1> QED  BY <1>1, <1>2, PTL DEF Spec

-----------------------------------------------------------------------------
(* What follows from it.                                                   *)

(* The state of the signing machinery is well-formed.                      *)
THEOREM AuthTypeCorrect == Spec => []TypeOK
<1>1. AuthInv => TypeOK
  BY DEF AuthInv
<1> QED  BY <1>1, AuthInvariant, PTL

(* No seed of the input's range overflows, and every ping is answered.     *)
THEOREM NoPanicInSetupOrPing == Spec => []SetupAndPingsSucceed
<1>1. AuthInv => SetupAndPingsSucceed
  BY DEF AuthInv
<1> QED  BY <1>1, AuthInvariant, PTL

(* Accounts and trustlines stay, and the trustlines fit the native token.  *)
THEOREM AccountStorageStays == Spec => []AccountStorageLasts
<1>1. AuthInv => AccountStorageLasts
  <2> SUFFICES ASSUME AuthInv, phase \in {"commands", "signed", "advance"},
                      NEW i \in Index, address_types[i] = "Account"
               PROVE  /\ \E l \in ledger_entries :
                           l.what = "Account" /\ l.address = Signer(i)
                      /\ kind = "Native" =>
                           \E l \in ledger_entries :
                             /\ l.what = "Trustline" /\ l.address = Signer(i)
                             /\ AddressOf("Asset", l.number) = token
    BY DEF AccountStorageLasts
  <2>1. /\ create_default_account(Signer(i)) \in ledger_entries
        /\ create_default_trustline(Signer(i)) \in ledger_entries
    BY DEF AuthInv, Storage, Finished
  <2>2. /\ create_default_account(Signer(i)).what = "Account"
        /\ create_default_account(Signer(i)).address = Signer(i)
        /\ create_default_trustline(Signer(i)).what = "Trustline"
        /\ create_default_trustline(Signer(i)).address = Signer(i)
        /\ create_default_trustline(Signer(i)).number = 1
    BY DEF create_default_account, create_default_trustline, LedgerEntry, issuer_bytes
  <2>3. kind = "Native" => token = AddressOf("Asset", 1)
    BY DEF AuthInv, TokenAddress
  <2> QED  BY <2>1, <2>2, <2>3
<1> QED  BY <1>1, AuthInvariant, PTL

(* No authorization reuses a nonce that the ledger holds.                  *)
THEOREM NoncesStayFresh == Spec => []NoncesAreFresh
<1>1. AuthInv => NoncesAreFresh
  BY DEF AuthInv
<1> QED  BY <1>1, AuthInvariant, PTL

-----------------------------------------------------------------------------
(* Seeds from 2 on: no signer is the token.                                *)

(* The token's code is there whenever the token can be called.             *)
TokenCode == phase \in {"commands", "signed", "advance"} => token_runs

(* The code of the token is overwritten by none of the signers.            *)
LEMMA TokenCodeNext ==
  ASSUME MIN_SEED >= 2, AuthInv, TokenCode, [Next]_vars
  PROVE  TokenCode'
<1> USE DEF TokenCode
<1>1. CASE RegisterContractInit
  BY <1>1 DEF RegisterContractInit, token_runs, register_contract, input, AuthInv, TypeOK
<1>2. ASSUME NEW chosen \in SUBSET Index, NEW inv, MockAuths(chosen, inv)
      PROVE  TokenCode'
  <2>1. /\ phase = "commands" /\ kind' = kind /\ token' = token
        /\ code' = with_mock_auth_contracts(chosen)
    BY <1>2 DEF MockAuths, input
  <2>2. token_runs /\ kind \in {"Native", "Contract"}
    BY <2>1 DEF AuthInv, TypeOK
  <2>3. CASE kind = "Native"
    BY <2>1, <2>3 DEF token_runs
  <2>4. CASE kind = "Contract"
    <3>1. Code(token, "Token") \in code /\ token = AddressOf("Contract", 1)
      BY <2>1, <2>2, <2>4 DEF token_runs, AuthInv, TokenAddress
    <3>2. ASSUME NEW i \in chosen PROVE Signer(i) # token
      <4>1. Signer(i).number = address_seed + i /\ address_seed >= 2 /\ address_seed \in Nat
        BY SignerTypes, AddressAssumption DEF AuthInv, TypeOK, Seeds, NUMBER_OF_ADDRESSES
      <4>2. token.number = 1
        BY <3>1 DEF AddressOf
      <4>3. i \in Nat
        BY DEF Index, NUMBER_OF_ADDRESSES
      <4> QED  BY <4>1, <4>2, <4>3
    <3>3. Code(token, "Token").address = token
      BY DEF Code
    <3>4. Code(token, "Token") \in code'
      BY <2>1, <3>1, <3>2, <3>3 DEF with_mock_auth_contracts
    <3> QED  BY <2>1, <3>4 DEF token_runs
  <2> QED  BY <2>2, <2>3, <2>4
<1>3. ASSUME NEW i, NEW result, Call(i, result) PROVE TokenCode'
  BY <1>3 DEF Call, input, env, token_runs
<1>4. ASSUME NEW n, advance_env(n) PROVE token_runs'
  BY <1>4 DEF advance_env, input, reregister_contract, register_contract, token_runs
<1>5. CASE SetupAccountStorage \/ SignatureExpiryOverflows \/ LedgerOverflows
  BY <1>5 DEF SetupAccountStorage, SignatureExpiryOverflows, LedgerOverflows
<1>6. CASE Done \/ UNCHANGED vars
  BY <1>6 DEF Done, vars, input, env, token_runs
<1> QED
  BY <1>1, <1>2, <1>3, <1>4, <1>5, <1>6 DEF Next, CallAccepted, CallUnauthorized,
     CallFailed, CallMissing, LastHop, HopAndPing

(* With any seed from 2 on, the code at the token's address is the token's *)
(* whenever a command is executed.                                         *)
THEOREM CommandsAlwaysReachTheToken ==
  ASSUME MIN_SEED >= 2
  PROVE  Spec => []CommandsReachTheToken
<1>1. Init => TokenCode
  BY DEF Init, TokenCode
<1>2. AuthInv /\ TokenCode /\ [Next]_vars => TokenCode'
  BY TokenCodeNext
<1>3. TokenCode => CommandsReachTheToken
  BY DEF TokenCode, CommandsReachTheToken
<1> QED  BY <1>1, <1>2, <1>3, AuthInvariant, PTL DEF Spec

-----------------------------------------------------------------------------
(* Refinement.                                                             *)

(* As long as nothing was accepted, all signatures of the call are grants. *)
LEMMA GrantedBefore ==
  ASSUME outcome.result # "accepted"
  PROVE  granted = auths \X {invocation}
BY DEF granted

(* Only who signed is authorized.                                          *)
LEMMA OnlySignersAuthorized ==
  ASSUME AuthInv, phase = "signed", NEW i \in Index, NEW e \in auth_entries,
         e.address = Signer(i)
  PROVE  i \in auths
<1>1. PICK j \in auths : e.address = Signer(j)
  BY DEF AuthInv, Signatures
<1>2. j \in Index
  BY <1>1 DEF AuthInv, TypeOK
<1>3. address_seed \in Nat /\ address_types \in [Index -> AddressType]
  BY DEF AuthInv, TypeOK
<1> QED
  BY <1>1, <1>2, <1>3, SignersAreDistinct DEF Signer

(* Signing a command is Sign.                                              *)
LEMMA MockAuthsSigns ==
  ASSUME NEW chosen \in SUBSET Index, NEW inv \in Invocations,
         MockAuths(chosen, inv)
  PROVE  A!Sign(chosen, inv)
<1>1. auths' = chosen /\ invocation' = inv /\ outcome' = [result |-> "none"]
  BY DEF MockAuths
<1>2. granted' = chosen \X {inv}
  BY <1>1 DEF granted
<1> QED  BY <1>1, <1>2 DEF A!Sign, A!NoCall

(* Each call is answered as Authorization says.                            *)
LEMMA CallAnswers ==
  ASSUME AuthInv, TokenCode, NEW i \in Index,
         \/ CallAccepted(i) \/ CallUnauthorized(i)
         \/ CallFailed(i) \/ CallMissing(i)
  PROVE  A!Next
<1>1. PICK result : /\ Call(i, result)
                    /\ result \in {"accepted", "unauthorized", "failed"}
                    /\ result = "accepted" => CallAccepted(i)
                    /\ result = "unauthorized" => CallUnauthorized(i)
  <2>1. phase = "signed"
    BY DEF CallAccepted, CallUnauthorized, CallFailed, CallMissing, Call
  <2>2. token_runs
    BY <2>1 DEF TokenCode
  <2> QED  BY <2>2 DEF CallAccepted, CallUnauthorized, CallFailed, CallMissing
<1>2. /\ phase = "signed" /\ auths' = auths /\ invocation' = invocation
      /\ outcome' = [result |-> result, signer |-> i, invocation |-> invocation]
  BY <1>1 DEF Call
<1>3. invocation \in Invocations /\ granted = auths \X {invocation}
  BY <1>2, GrantedBefore DEF AuthInv, Signatures
<1>4. CASE result = "accepted"
  <2>1. i \in auths
    BY <1>1, <1>2, <1>4, OnlySignersAuthorized DEF CallAccepted, authorizes
  <2>2. granted' = granted \ {<<i, invocation>>}
    BY <1>2, <1>3, <1>4 DEF granted
  <2>3. A!Accepted(i, invocation)
    BY <1>2, <1>3, <1>4, <2>1, <2>2 DEF A!Accepted, A!Outcome
  <2> QED  BY <1>3, <2>3 DEF A!Next
<1>5. CASE result = "unauthorized"
  <2>1. i \notin auths
    BY <1>1, <1>2, <1>5 DEF CallUnauthorized, AuthInv, Signatures
  <2>2. granted' = granted
    BY <1>2, <1>3, <1>5 DEF granted
  <2>3. A!Unauthorized(i, invocation)
    BY <1>2, <1>3, <1>5, <2>1, <2>2 DEF A!Unauthorized, A!Outcome
  <2> QED  BY <1>3, <2>3 DEF A!Next
<1>6. CASE result = "failed"
  <2>1. granted' = granted
    BY <1>2, <1>3, <1>6 DEF granted
  <2>2. A!Failed(i, invocation)
    BY <1>2, <1>6, <2>1 DEF A!Failed, A!Outcome
  <2> QED  BY <1>3, <2>2 DEF A!Next
<1> QED  BY <1>1, <1>4, <1>5, <1>6

(* A new Env has no grants.                                                *)
LEMMA AdvanceEnvRevokes ==
  ASSUME NEW n, advance_env(n)
  PROVE  A!NewEnv
<1>1. auths' = {} /\ outcome' = [result |-> "none"]
  BY DEF advance_env
<1> QED  BY <1>1 DEF granted, A!NewEnv, A!NoCall

(* Signing, as the fuzzer does it, implements Authorization: with seeds    *)
(* from 2 on a signed call is never refused for its signature, and an      *)
(* unsigned one never accepted, whatever was signed, used, failed or       *)
(* expired before.                                                         *)
THEOREM SigningImplementsAuthorization ==
  ASSUME MIN_SEED >= 2
  PROVE  Spec => ImplementsAuthorization
<1>1. Init => A!Init
  BY DEF Init, A!Init, A!NoCall, granted
<1>2. AuthInv /\ TokenCode /\ [Next]_vars => [A!Next]_<<granted, outcome>>
  <2> SUFFICES ASSUME AuthInv, TokenCode, [Next]_vars
               PROVE  A!Next \/ UNCHANGED <<granted, outcome>>
    OBVIOUS
  <2>1. ASSUME UNCHANGED <<auths, invocation, outcome>>
        PROVE  UNCHANGED <<granted, outcome>>
    BY <2>1 DEF granted
  <2>2. ASSUME NEW chosen \in SUBSET Index, NEW inv \in Invocations,
               MockAuths(chosen, inv)
        PROVE  A!Next
    BY <2>2, MockAuthsSigns DEF A!Next
  <2>3. ASSUME NEW n, advance_env(n) PROVE A!Next
    BY <2>3, AdvanceEnvRevokes DEF A!Next
  <2>4. CASE \/ SetupAccountStorage \/ RegisterContractInit \/ Done
             \/ SignatureExpiryOverflows \/ LedgerOverflows \/ UNCHANGED vars
    BY <2>1, <2>4 DEF SetupAccountStorage, RegisterContractInit, Done, vars,
       SignatureExpiryOverflows, LedgerOverflows
  <2> QED
    BY <2>2, <2>3, <2>4, CallAnswers DEF Next, LastHop, HopAndPing
<1>3. Init => TokenCode
  BY DEF Init, TokenCode
<1>4. AuthInv /\ TokenCode /\ [Next]_vars => TokenCode'
  BY TokenCodeNext
<1> QED
  BY <1>1, <1>2, <1>3, <1>4, AuthInvariant, PTL
     DEF Spec, ImplementsAuthorization, A!Spec
=============================================================================
