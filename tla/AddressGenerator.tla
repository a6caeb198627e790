-------------------------- MODULE AddressGenerator --------------------------
(***************************************************************************)
(* The signers of a run (src/src/addrgen.rs): NUMBER_OF_ADDRESSES of them, *)
(* each an account or a contract, computed from a seed and from the        *)
(* address types of the input, and the ledger entries of the accounts.     *)
(*                                                                         *)
(* The 32 bytes of a signer are the number they spell.  A contract's       *)
(* address is that number; an account's address is the public key that     *)
(* belongs to the secret key with that number.  Distinct secret keys are   *)
(* taken to have distinct public keys.                                     *)
(***************************************************************************)
EXTENDS Integers

CONSTANTS
  U64_MAX,   \* largest u64
  MIN_SEED   \* smallest seed: 0 in the code, 2 leaves out the bogus seeds

NUMBER_OF_ADDRESSES == 3

ASSUME AddressAssumption ==
  /\ U64_MAX \in Nat
  /\ MIN_SEED \in Nat

Index == 0 .. NUMBER_OF_ADDRESSES - 1

AddressType == {"Account", "Contract"}

(* Faulty variant: the range of seeds leaves no room for the last signers. *)
Seeds_all == MIN_SEED .. U64_MAX

(* The seeds the input may have.                                           *)
Seeds == MIN_SEED .. U64_MAX - NUMBER_OF_ADDRESSES

(* Addresses.  An "Asset" is the contract of a Stellar asset, whose        *)
(* address is a hash of the asset and thus of the number of its issuer.    *)
AddressOf(type, n) == [type |-> type, number |-> n]
Addresses == [type : AddressType \cup {"Asset"}, number : Nat]

(* The key of a signer that has none.                                      *)
NoKey == -1

(* generate_signers_with_bytes: the number of the i-th signer (checked_add *)
(* of the seed), its address and its secret key.                           *)
signer_bytes(seed, i) == seed + i

signer_overflow(seed) == \E i \in Index : signer_bytes(seed, i) > U64_MAX

signer_address(seed, types, i) == AddressOf(types[i], signer_bytes(seed, i))

signer_key(seed, types, i) ==
  IF types[i] = "Account" THEN signer_bytes(seed, i) ELSE NoKey

-----------------------------------------------------------------------------
(* setup_account_storage.  A ledger entry is its key (what it is, whose,   *)
(* and a number that tells entries of one owner apart) and its expiration  *)
(* ledger.  The fuzzer stores its entries without one.                     *)

NoExpiration == -1

LedgerEntry(what, address, number, expiration) ==
  [what |-> what, address |-> address, number |-> number,
   expiration |-> expiration]

LedgerEntries == [what : {"Account", "Trustline", "Nonce"},
                  address : Addresses, number : Nat,
                  expiration : Nat \cup {NoExpiration}]

create_default_account(account_id) ==
  LedgerEntry("Account", account_id, 0, NoExpiration)

(* The number of the asset's issuer is written down in the code: it is the *)
(* first address that the host generates.                                  *)
issuer_bytes == 1

create_default_trustline(account_id) ==
  LedgerEntry("Trustline", account_id, issuer_bytes, NoExpiration)

account_storage(seed, types) ==
  LET account_ids == {signer_address(seed, types, i) :
                        i \in {j \in Index : types[j] = "Account"}}
  IN  {create_default_account(a) : a \in account_ids} \cup
      {create_default_trustline(a) : a \in account_ids}
=============================================================================
