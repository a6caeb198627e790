--------------------------- MODULE SorobanStorage ---------------------------
(***************************************************************************)
(* Ledger storage of the Soroban host, as the contract and the fuzzer use  *)
(* it.  External: the host is not part of the repository, the rules below  *)
(* are the ones its callers rely on.                                       *)
(*                                                                         *)
(* Every contract-data entry carries live_until, the last ledger in which  *)
(* it exists.  A key that has no entry has live_until = Absent.            *)
(***************************************************************************)
EXTENDS Integers

CONSTANTS
  MIN_PERSISTENT_TTL,  \* lifetime of a new persistent or instance entry
  MIN_TEMP_TTL,        \* lifetime of a new temporary entry
  MAX_ENTRY_TTL        \* longest lifetime an entry may be given

ASSUME StorageAssumption ==
  /\ MIN_PERSISTENT_TTL \in Nat \ {0}
  /\ MIN_TEMP_TTL \in Nat \ {0}
  /\ MAX_ENTRY_TTL \in Nat \ {0}

Absent == -1

(* set: a new entry lives for the minimum TTL, counting the current ledger *)
(* seq; overwriting an entry keeps the lifetime it has.                    *)
SetTTL(live_until, min_ttl, seq) ==
  IF live_until = Absent THEN seq + min_ttl - 1 ELSE live_until

(* extend_ttl(threshold, extend_to): prolong the entry to extend_to        *)
(* ledgers from now, only if it has at most threshold ledgers left, and    *)
(* never shorten it.                                                       *)
ExtendTTL(live_until, threshold, extend_to, seq) ==
  IF live_until - seq <= threshold /\ live_until < seq + extend_to
    THEN seq + extend_to
    ELSE live_until

(* The entry is no longer live in ledger seq.                              *)
Expired(live_until, seq) == live_until # Absent /\ live_until < seq

(* A TTL extension of a temporary entry beyond this ledger is an error.    *)
MaxLiveUntil(seq) == seq + MAX_ENTRY_TTL - 1
=============================================================================
