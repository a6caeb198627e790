------------------------------ MODULE MockAuths ------------------------------
(***************************************************************************)
(* The signatures of one run of the fuzzer: mock_auths_for_command of      *)
(* src/src/fuzz.rs, what it needs from the setup and from the address      *)
(* generator, and what is left of it when advance_env replaces the Env.    *)
(* The tokens of both fuzz targets are modelled by what the fuzzer sees of *)
(* them here: an address, code that answers or not, and calls that need    *)
(* one signature.                                                          *)
(*                                                                         *)
(* The Env holds the code of the contracts, the authorizations of the next *)
(* call and the counter of generated addresses; the ledger holds the       *)
(* accounts, the trustlines and the nonces already used.  Only the ledger  *)
(* and the counter go through a snapshot.                                  *)
(***************************************************************************)
EXTENDS AddressGenerator, SorobanStorage, FiniteSets

CONSTANTS
  Invocations,             \* calls of the token: a function with its arguments
  U32_MAX,                 \* largest ledger sequence number
  MAX_LEDGERS_TO_ADVANCE,  \* longest hop of the clock
  MAX_COMMANDS             \* bound: calls of the run

ASSUME MockAuthsAssumption ==
  /\ U32_MAX \in Nat
  /\ MAX_LEDGERS_TO_ADVANCE \in Nat \ {0}
  /\ MAX_COMMANDS \in Nat

VARIABLES
  address_seed, address_types,  \* of the input
  kind,             \* of the token (TokenKind)
  phase,            \* where the run is, or how it ended
  sequence,         \* the current ledger
  ledger_entries,   \* accounts, trustlines and used nonces
  code,             \* the code this Env has for contract addresses
  auth_entries,     \* authorizations in force (set_auths)
  generated,        \* addresses the host has generated so far
  token,            \* token_contract_id
  signature_nonce,  \* the next nonce
  auths,            \* who was to sign the current call
  invocation,       \* the call that was signed last
  outcome,          \* how the last call ended
  commands          \* calls so far

input == <<address_seed, address_types, kind>>
env == <<code, auth_entries, generated>>
vars == <<input, phase, sequence, ledger_entries, env, token, signature_nonce,
          auths, invocation, outcome, commands>>

Signer(i) == signer_address(address_seed, address_types, i)
Key(i) == signer_key(address_seed, address_types, i)

TokenKind == {"Native", "Contract"}

(* How a run can end: an assertion or an expect that fails.                *)
Finished == {"SeedOverflow", "ContractGone", "EndOfTime"}

NoToken == AddressOf("Contract", 0)
NoInvocation == "none"

-----------------------------------------------------------------------------
(* The host.  Code registered under an address replaces what was there.    *)

Code(address, contract) == [address |-> address, contract |-> contract]

register_contract(codes, address, contract) ==
  {c \in codes : c.address # address} \cup {Code(address, contract)}

(* The asset contract is built into the host and needs no code.            *)
token_runs == kind = "Native" \/ Code(token, "Token") \in code

Payload(inv, nonce, expiration) ==
  [invocation |-> inv, nonce |-> nonce, expiration |-> expiration]

(* The host checks an authorization when the token asks for it: it is      *)
(* still good and not good for longer than an entry may live, its nonce is *)
(* not in the ledger, and the account has signed just this, or the         *)
(* contract's __check_auth does not object.                                *)
usable(e) ==
  /\ e.expiration \in sequence .. MaxLiveUntil(sequence)
  /\ ~\E l \in ledger_entries : /\ l.what = "Nonce"
                                /\ l.address = e.address /\ l.number = e.nonce
  /\ \/ /\ e.address.type = "Account"
        /\ \E l \in ledger_entries : l.what = "Account" /\ l.address = e.address
        /\ e.key = e.address.number
        /\ e.payload = Payload(e.invocation, e.nonce, e.expiration)
     \/ Code(e.address, "MockAuthContract") \in code

authorizes(e, address, inv) ==
  e.address = address /\ e.invocation = inv /\ usable(e)

authorized(address, inv) ==
  \E e \in auth_entries : authorizes(e, address, inv)

-----------------------------------------------------------------------------
(* Setup: the accounts, then the token.                                    *)

Init ==
  /\ address_seed \in Seeds
  /\ address_types \in [Index -> AddressType]
  /\ kind \in TokenKind
  /\ phase = "start"
  /\ sequence = 0
  /\ ledger_entries = {}
  /\ code = {}
  /\ auth_entries = {}
  /\ generated = 0
  /\ token = NoToken
  /\ signature_nonce = 0
  /\ auths = {}
  /\ invocation = NoInvocation
  /\ outcome = [result |-> "none"]
  /\ commands = 0

(* Faulty variant: an address is generated while the accounts are set up.  *)
SetupAccountStorage_generates ==
  /\ phase = "start"
  /\ phase' = "storage"
  /\ ledger_entries' = account_storage(address_seed, address_types)
  /\ generated' = generated + 1
  /\ UNCHANGED <<input, sequence, code, auth_entries, token>>
  /\ UNCHANGED <<signature_nonce, auths, invocation, outcome, commands>>

SetupAccountStorage ==
  /\ phase = "start"
  /\ IF signer_overflow(address_seed)
       THEN phase' = "SeedOverflow" /\ UNCHANGED ledger_entries
       ELSE /\ phase' = "storage"
            /\ ledger_entries' = account_storage(address_seed, address_types)
  /\ UNCHANGED <<input, sequence, env, token, signature_nonce>>
  /\ UNCHANGED <<auths, invocation, outcome, commands>>

(* Config::register_contract_init.  The host generates an address: the     *)
(* issuer of the asset, or the address of the token itself.                *)
RegisterContractInit ==
  /\ phase = "storage"
  /\ phase' = "commands"
  /\ generated' = generated + 1
  /\ \/ /\ kind = "Native"
        /\ token' = AddressOf("Asset", generated')
        /\ UNCHANGED code
     \/ /\ kind = "Contract"
        /\ token' = AddressOf("Contract", generated')
        /\ code' = register_contract(code, token', "Token")
  /\ UNCHANGED <<input, sequence, ledger_entries, auth_entries>>
  /\ UNCHANGED <<signature_nonce, auths, invocation, outcome, commands>>

-----------------------------------------------------------------------------
(* mock_auths_for_command.                                                 *)

(* Faulty variant: the signature lives one ledger longer than it may.      *)
expiration_ledger_late == sequence + MAX_ENTRY_TTL

expiration_ledger == sequence + MAX_ENTRY_TTL - 1

(* Every signer takes the next nonce, in the order of their indices.       *)
nonce_of(chosen, i) == signature_nonce + Cardinality({j \in chosen : j < i})

(* What signer i signs; contracts sign nothing, and have no key.           *)
auth_entry(chosen, inv, i) ==
  [address |-> Signer(i), nonce |-> nonce_of(chosen, i),
   expiration |-> expiration_ledger, invocation |-> inv, key |-> Key(i),
   payload |-> Payload(inv, nonce_of(chosen, i), expiration_ledger)]

(* Contracts that sign are given code that authorizes everything.          *)
with_mock_auth_contracts(chosen) ==
  LET contracts == {Signer(i) : i \in {j \in chosen : Key(j) = NoKey}}
  IN  {c \in code : c.address \notin contracts} \cup
      {Code(a, "MockAuthContract") : a \in contracts}

(* Faulty variant: the authorizations of earlier calls stay in force.      *)
MockAuths_add(chosen, inv) ==
  /\ phase = "commands"
  /\ commands < MAX_COMMANDS
  /\ sequence + MAX_ENTRY_TTL <= U32_MAX
  /\ phase' = "signed"
  /\ code' = with_mock_auth_contracts(chosen)
  /\ auth_entries' = auth_entries \cup {auth_entry(chosen, inv, i) : i \in chosen}
  /\ signature_nonce' = signature_nonce + Cardinality(chosen)
  /\ auths' = chosen
  /\ invocation' = inv
  /\ outcome' = [result |-> "none"]
  /\ commands' = commands + 1
  /\ UNCHANGED <<input, sequence, ledger_entries, generated, token>>

MockAuths(chosen, inv) ==
  /\ phase = "commands"
  /\ commands < MAX_COMMANDS
  /\ sequence + MAX_ENTRY_TTL <= U32_MAX
  /\ phase' = "signed"
  /\ code' = with_mock_auth_contracts(chosen)
  /\ auth_entries' = {auth_entry(chosen, inv, i) : i \in chosen}
  /\ signature_nonce' = signature_nonce + Cardinality(chosen)
  /\ auths' = chosen
  /\ invocation' = inv
  /\ outcome' = [result |-> "none"]
  /\ commands' = commands + 1
  /\ UNCHANGED <<input, sequence, ledger_entries, generated, token>>

SignatureExpiryOverflows ==
  /\ phase = "commands"
  /\ commands < MAX_COMMANDS
  /\ sequence + MAX_ENTRY_TTL > U32_MAX
  /\ phase' = "EndOfTime"
  /\ UNCHANGED <<input, sequence, ledger_entries, env, token>>
  /\ UNCHANGED <<signature_nonce, auths, invocation, outcome, commands>>

-----------------------------------------------------------------------------
(* The call that was signed.  It needs the signature of one signer: the    *)
(* administrator to mint, else the owner or the spender.                   *)

Call(i, result) ==
  /\ phase = "signed"
  /\ phase' = "commands"
  /\ outcome' = [result |-> result, signer |-> i, invocation |-> invocation]
  /\ UNCHANGED <<input, sequence, env, token, signature_nonce>>
  /\ UNCHANGED <<auths, invocation, commands>>

(* The nonce of the authorization is used up.                              *)
CallAccepted(i) ==
  /\ token_runs
  /\ \E e \in auth_entries :
       /\ authorizes(e, Signer(i), invocation)
       /\ ledger_entries' = ledger_entries \cup
            {LedgerEntry("Nonce", e.address, e.nonce, e.expiration)}
  /\ Call(i, "accepted")

CallUnauthorized(i) ==
  /\ token_runs
  /\ ~authorized(Signer(i), invocation)
  /\ UNCHANGED ledger_entries
  /\ Call(i, "unauthorized")

(* Whatever else the token turns the call down for; it is rolled back.     *)
CallFailed(i) ==
  /\ token_runs
  /\ UNCHANGED ledger_entries
  /\ Call(i, "failed")

(* The code at the token's address does not know the function.             *)
CallMissing(i) ==
  /\ ~token_runs
  /\ UNCHANGED ledger_entries
  /\ Call(i, "missing")

-----------------------------------------------------------------------------
(* advance_time: hops, each of which replaces the Env.                     *)

(* Faulty variant: an entry without expiration ledger counts as expired.   *)
retained_if_dated(entries, seq) == {e \in entries : e.expiration >= seq}

(* purge_expired_entries                                                   *)
retained(entries, seq) ==
  {e \in entries : e.expiration = NoExpiration \/ ~(e.expiration < seq)}

(* Faulty variant: the new Env is used as it comes.                        *)
reregister_contract_not == {}

(* Config::reregister_contract in an Env without code: the asset contract  *)
(* needs none.                                                             *)
reregister_contract ==
  IF kind = "Native" THEN {} ELSE register_contract({}, token, "Token")

(* Faulty variant: the clock is not checked against the end of time.       *)
advance_env_unchecked(ledgers) ==
  /\ phase \in {"commands", "advance"}
  /\ sequence <= U32_MAX
  /\ sequence' = sequence + ledgers
  /\ ledger_entries' = retained(ledger_entries, sequence')
  /\ code' = reregister_contract
  /\ auth_entries' = {}
  /\ auths' = {}
  /\ outcome' = [result |-> "none"]
  /\ UNCHANGED <<input, token, signature_nonce, invocation, commands>>

(* Faulty variant: nonces start again with every Env.                      *)
advance_env_new_nonces(ledgers) ==
  /\ phase \in {"commands", "advance"}
  /\ sequence + MAX_LEDGERS_TO_ADVANCE <= U32_MAX
  /\ sequence' = sequence + ledgers
  /\ ledger_entries' = retained(ledger_entries, sequence')
  /\ code' = reregister_contract
  /\ auth_entries' = {}
  /\ auths' = {}
  /\ outcome' = [result |-> "none"]
  /\ signature_nonce' = 0
  /\ UNCHANGED <<input, token, invocation, commands>>

advance_env(ledgers) ==
  /\ phase \in {"commands", "advance"}
  /\ sequence + MAX_LEDGERS_TO_ADVANCE <= U32_MAX
  /\ sequence' = sequence + ledgers
  /\ ledger_entries' = retained(ledger_entries, sequence')
  /\ code' = reregister_contract
  /\ auth_entries' = {}
  /\ auths' = {}
  /\ outcome' = [result |-> "none"]
  /\ UNCHANGED <<input, token, signature_nonce, invocation, commands>>

(* The last hop reaches the next transaction.                              *)
LastHop(ledgers) ==
  /\ advance_env(ledgers)
  /\ phase' = "commands"
  /\ UNCHANGED generated

(* Any other is followed by a call of allowance for two new addresses.     *)
HopAndPing ==
  /\ advance_env(MAX_LEDGERS_TO_ADVANCE)
  /\ phase' = IF token_runs' THEN "advance" ELSE "ContractGone"
  /\ generated' = generated + 2

LedgerOverflows ==
  /\ phase \in {"commands", "advance"}
  /\ sequence + MAX_LEDGERS_TO_ADVANCE > U32_MAX
  /\ phase' = "EndOfTime"
  /\ UNCHANGED <<input, sequence, ledger_entries, env, token>>
  /\ UNCHANGED <<signature_nonce, auths, invocation, outcome, commands>>

(* A finished run stays finished.                                          *)
Done == phase \in Finished /\ UNCHANGED vars

Next ==
  \/ SetupAccountStorage \/ RegisterContractInit
  \/ \E chosen \in SUBSET Index, inv \in Invocations : MockAuths(chosen, inv)
  \/ SignatureExpiryOverflows
  \/ \E i \in Index : \/ CallAccepted(i) \/ CallUnauthorized(i)
                      \/ CallFailed(i) \/ CallMissing(i)
  \/ \E n \in 1 .. MAX_LEDGERS_TO_ADVANCE : LastHop(n)
  \/ HopAndPing \/ LedgerOverflows
  \/ Done

Spec == Init /\ [][Next]_vars

-----------------------------------------------------------------------------
(* Properties.                                                             *)

AuthEntries == [address : Addresses, nonce : Nat, expiration : 0 .. U32_MAX,
                invocation : Invocations, key : Nat \cup {NoKey},
                payload : [invocation : Invocations, nonce : Nat,
                           expiration : 0 .. U32_MAX]]

TypeOK ==
  /\ address_seed \in Nat
  /\ address_types \in [Index -> AddressType]
  /\ kind \in TokenKind
  /\ phase \in {"start", "storage", "commands", "signed", "advance"}
                 \cup Finished
  /\ sequence \in 0 .. U32_MAX /\ generated \in Nat /\ commands \in Nat
  /\ ledger_entries \subseteq LedgerEntries
  /\ code \subseteq [address : Addresses, contract : {"Token", "MockAuthContract"}]
  /\ auth_entries \subseteq AuthEntries
  /\ token \in Addresses
  /\ signature_nonce \in Nat
  /\ auths \subseteq Index

(* The input's range of seeds leaves room for all signers, and after every *)
(* hop the token answers although the new Env was made without its code:   *)
(* neither the expect("Overflow") of the address generator nor the         *)
(* assertion on the ping of advance_time ever fails.                       *)
SetupAndPingsSucceed == phase \notin {"SeedOverflow", "ContractGone"}

(* Whatever time passes, every signer that is an account has its account   *)
(* and a trustline to the asset of the native token.  The entries have no  *)
(* expiration ledger, which purge_expired_entries wonders about, and the   *)
(* trustline names an issuer that is written down in the code long before  *)
(* the host makes it up.                                                   *)
AccountStorageLasts ==
  phase \in {"commands", "signed", "advance"} =>
    \A i \in Index : address_types[i] = "Account" =>
      /\ \E l \in ledger_entries : l.what = "Account" /\ l.address = Signer(i)
      /\ kind = "Native" =>
           \E l \in ledger_entries : /\ l.what = "Trustline"
                                     /\ l.address = Signer(i)
                                     /\ AddressOf("Asset", l.number) = token

(* No authorization is ever given with a nonce that the ledger already     *)
(* holds, in this or an earlier Env, for the same signer: the counter is   *)
(* kept by fuzz_token, across the Envs, as long as the used nonces live.   *)
NoncesAreFresh ==
  phase = "signed" =>
    \A e \in auth_entries, l \in ledger_entries :
      l.what = "Nonce" /\ l.address = e.address => l.number # e.nonce

(* "It then executes some number of commands against the contract", says   *)
(* the README: whenever a command is executed, the code at the token's     *)
(* address is the token's.                                                 *)
CommandsReachTheToken == phase = "signed" => token_runs

(* The grants the fuzzer believes it has given: the signatures of the      *)
(* current call, less the one that was used.                               *)
granted ==
  {p \in auths \X {invocation} : outcome.result = "accepted" => p[1] # outcome.signer}

A == INSTANCE Authorization WITH Signers <- Index

(* Signed calls are never refused for their signature, in whatever ledger, *)
(* after however many other calls, for accounts and for contracts, and     *)
(* calls that are not signed are never accepted: signing implements        *)
(* Authorization.                                                          *)
ImplementsAuthorization == A!Spec
=============================================================================
