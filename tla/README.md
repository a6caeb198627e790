# Verification of the Soroban token fuzzer

`soroban-token-fuzzer` runs random commands against a token contract on the
Soroban test host, keeps its own account of what the token should hold, and
asserts that the two agree. It comes with an example token. This project models
the example token, the fuzzer, its signatures, and whole runs of the fuzzer on a token,
checks the models with TLC and proves the central results with TLAPS.

Two questions are asked of a run. *Is an alarm of the fuzzer the fault of the token?* On
a token that is right, every assertion must hold whatever the input; the interesting part
is time, because storage entries, signatures and nonces expire while the fuzzer moves its
clock and replaces its `Env`. And *does a fault of the token end in an alarm?* The
assertions look once per transaction, and after the mirror has been adjusted.

## The system

| Component | State | Operations | Source |
|---|---|---|---|
| Example token | administrator, decimals (instance storage), balances (persistent), allowances (temporary), each entry with a lifetime | `initialize mint set_admin allowance approve balance transfer transfer_from burn burn_from` | `tokens/example-token/src/` |
| Host storage | `live_until` of every entry | `set`, `extend_ttl`, expiration, roll-back of failed calls | external, used throughout |
| Fuzz driver | position in the input | setup, eight commands, end of a transaction | `src/fuzz.rs` `fuzz_token`, `exec_command` |
| Mirror | `ContractState`: balances, allowances, totals of mints and burns, metadata | `add_balance sub_balance set_allowance sub_allowance`, synchronisation, `assert_state` | `src/fuzz.rs` |
| Time | sequence number, target ledger | `advance_time`, `advance_env`, `purge_expired_entries` | `src/fuzz.rs` |
| Judging of calls | none | `verify_token_contract_result`, assertions on results | `src/fuzz.rs` |
| Signatures | `signature_nonce`; in the `Env`: authorizations in force, code of mock contracts; in the ledger: used nonces | `mock_auths_for_command`, the authorization check of a call | `src/fuzz.rs`, host |
| Input generator | none | `Arbitrary` instances | `src/input.rs` |
| Address generator | a seed, three address types; in the ledger: accounts and trustlines | `generate_signers`, `setup_account_storage` | `src/addrgen.rs` |
| Configuration, targets | kind of the token | `register_contract_init`, `reregister_contract` | `src/config.rs`, `fuzz/fuzz_targets` |

How they interact: the driver takes a command from the input, signs it for a
random subset of the accounts, calls the token, judges the result and, if the call
succeeded, repeats its effect on the mirror. When the transaction has no more
commands, `advance_time` moves the clock in hops of at most 4095 ledgers. Every
hop makes a new `Env` from a snapshot without the entries that expired, and after
every hop but the last the contract is called once to keep it alive. Then the
mirror forgets the allowances the contract no longer reports, and `assert_state`
compares everything.

What is hard: nothing here runs concurrently, but five lifetimes (instance,
balance, allowance entry, the expiration written in an allowance, signature) and
three clocks' worth of arithmetic (hop, target, u32) interact over a sequence of
steps that no unit test spells out. State is spread over three places that live for
different times: the `Env` (code, authorizations; gone after a hop), the ledger (goes
through a snapshot and a purge) and the variables of `fuzz_token` (nonce, mirror).
Correctness needs, for each part:

* token: nothing is taken without a signature, nothing appears or vanishes, an
  allowance lasts exactly as long as it says;
* mirror: it is right after every command, not only where it is compared;
* time: contract and balances outlive every hop; only what expired is lost; the
  hops end at the target;
* driver: no assertion fails unless the token misbehaves; a token that misbehaves is
  reported; every run ends;
* signatures: a call that is signed is never refused for its signature, one that is not
  signed is never accepted;
* addresses: the signers differ from each other and from the token, and the accounts
  are there whenever they are needed.

`PROJECT.json` lists the hazards line by line.

## Modules

* **`SorobanStorage`**: the host's rules for lifetimes, as the code relies on them
  (external). A new entry lives for the minimum TTL; overwriting keeps the
  lifetime; `extend_ttl(threshold, to)` prolongs only at or below the threshold and
  never shortens; an entry is gone once `live_until < sequence`.
* **`ExampleToken`**: the contract. For each entry point `f` there is `f_result`, the
  checks in the order of the code with the reason of the first that fails, and the
  action `f`, the effect of a call that succeeds: all its writes and all its
  prolongations. A failing call changes nothing (`rejected`), since the host rolls
  back. `TokenSpec` is the contract on a ledger where anyone calls anything and
  ledgers close in between. `auths` holds who signed the current call and is what
  the authorization properties speak about.
* **`AbstractToken`**: the promise of the token interface without storage: balances,
  grants with a last ledger, an administrator.
* **`TokenFuzzer`** extends `ExampleToken` and drives the very same entry points.
  `phase` is the program counter of `fuzz_token`:

  | phase | code | actions that leave it |
  |---|---|---|
  | `start` | before setup | `RejectInput`, `RegisterContract` |
  | `registered` | inside `register_contract_init` | `InitializeContract` |
  | `commands` | loop over commands | `Mint` ... `ApproveAndBurnFrom`, `SecondHalf`, `EndCommands`, `SignatureExpiryOverflows` |
  | `advance` | loop of `advance_time` | `HopAndPing`, `LastHop`, `LedgerOverflows` |
  | `sync` | fuzz.rs 110-132 | `SyncAllowances` |
  | `assert` | `assert_state` | `AssertState` |
  | `Keep`, `Reject` | the returned `Corpus` | |
  | `EndOfTime` | a `checked_add(..).expect("end of time")` or the `+` of line 749 | |
  | the `Alarms` | an assertion that failed | |

  A command of the input and the call it makes are one step; `ApproveAnd...` is two
  calls, so it is two steps with the second one in `pending`. The arrays of account
  indices and booleans of the input become quantifiers over addresses and over
  `AuthSets`.
* **`AddressGenerator`**: the signers that a seed and the address types of an input
  stand for, and the ledger entries that `setup_account_storage` writes for them.
* **`Authorization`**: what the fuzzer takes for granted about signing: a signature is
  good for one call of exactly what was signed, until something else is signed or the
  `Env` is replaced. `TokenFuzzer` relies on it when it lets a call with the right
  signers in `auths` go ahead, and no other.
* **`MockAuths`**: how the code brings that about, for both kinds of token
  (`TokenKind`). The token is reduced to an address, code that answers or not, and calls
  that need one signature.

  | phase | code | actions that leave it |
  |---|---|---|
  | `start` | `setup_account_storage` | `SetupAccountStorage` |
  | `storage` | `Config::register_contract_init` | `RegisterContractInit` |
  | `commands` | before `mock_auths_for_command` | `MockAuths`, `SignatureExpiryOverflows`, the hops |
  | `signed` | the `try_...` call of the command | `CallAccepted CallUnauthorized CallFailed CallMissing` |
  | `advance` | loop of `advance_time` | `HopAndPing`, `LastHop`, `LedgerOverflows` |
  | `SeedOverflow`, `ContractGone`, `EndOfTime` | an `expect` or an assertion that failed | |

  `MockAuths(chosen, inv)` is the whole of `mock_auths_for_command`: nonces in the order
  of the signers, mock contracts for the signers that are contracts, `set_auths`.
  `advance_env` is the snapshot, the purge, the new `Env` without code and
  authorizations, and `reregister_contract`.
* **`FuzzerOracle`** extends `TokenFuzzer` by a token that once goes wrong: a balance
  is forged (`ForgeBalance`) or credited to the wrong account (`MisplaceBalance`), an
  allowance is forgotten (`LoseAllowance`). The wrong write happens between two commands
  or during a ping, through the token's own storage helpers; every other step is the
  unchanged step of the fuzzer.
* **`MCExampleToken`**, **`MCTokenFuzzer`**, **`MCMockAuths`**, **`MCFuzzerOracle`**: the
  instances for TLC.
* **`ExampleTokenProofs`**, **`TokenFuzzerProofs`**, **`RefinementProofs`**,
  **`FuzzerOracleProofs`**, **`RunLengthProofs`**, **`MockAuthsProofs`**: theorems.

Operators whose comment starts with "Faulty variant" are not part of any
specification: they are plausible mistakes, each of which makes one of the properties
fail when it takes the place of the operator that follows it.

### Abstractions and assumptions

* Amounts are integers up to `I128_MAX`, a constant. Where the code adds two `i128`
  the result beyond it is the failure `Overflow`; cargo-fuzz builds with overflow
  checks. Totals are `BigInt` in the code and unbounded here.
* `sequence` is bounded by `U32_MAX`. The timestamp follows it and is left out.
* Of the metadata only `decimals` is kept; `name` and `symbol` are written and read by
  the same calls.
* `BarePanics` is the set of failures that the token under test signals with a bare
  panic, which `verify_token_contract_result` treats as a bug. For the example token as
  it is that is `Panics`; the empty set is the same token written as the repository's
  README advises, with `panic_with_error!`. Both are checked, because with the first the
  runs end at the first error and with the second they go on. After an alarm the run is
  over and the mirror's content has no meaning.
* `TokenFuzzer` has three distinct addresses, the first one the administrator, and a
  signature in the signed set is accepted. `MockAuths` discharges both:
  `SignersAreDistinct` and `SigningImplementsAuthorization` show them for the code in
  `addrgen.rs` and `mock_auths_for_command`, the second for seeds from 2 on. What happens
  with seeds 0 and 1 is the third disagreement below; runs with these seeds and a
  contract signer are outside `TokenFuzzer`.
* In `MockAuths` the 32 bytes of an address are the number they spell. Hashes and the map
  from secret to public keys are injective; a signature is the pair of a key and the
  payload that was signed. Kinds of addresses do not collide.
* The host's generator of addresses counts: its first address is number 1. This is how
  `addrgen.rs` 147-152 writes down the issuer of the native asset before the host makes
  it up, and what the comment on seeds at line 44 noticed. The counter goes through a
  snapshot (`HopAndPing` generates two more addresses).
* `signature_nonce` is an `i64` that grows by at most three per command; it is a natural
  number here, as are the counts of hops and of generated addresses.
* `MIN_SEED` is 0 in the code. The runs and theorems that set it to 2 leave out the two
  seeds that the comment in `addrgen.rs` calls bogus.
* In `MockAuths` the length of a transaction's time is any number of hops, so `LastHop`
  may follow any other; the target of `advance_time` and its overflow are modelled in
  `TokenFuzzer`, here only the hop overflows. It has
  no step for the end of the input: a behaviour may stop anywhere.
* The arithmetic that `advance_env` and `mock_auths_for_command` do on the sequence
  number is checked: `fuzz/Cargo.toml` builds with overflow checks, so the plain `+` of
  line 749 panics too.
* `reregister_contract` attaches code to the new `Env` and leaves an instance entry that
  exists as it is. For an entry that was purged the host would make an empty one; pings
  would still be answered, and `assert_state` would be the first to notice, when the
  metadata is missing. `ContractSurvivesHop` says that it never comes to that.
* The loop of `advance_time` asserts that the target is ahead before every hop
  (`TargetNotAhead`); that it never fails is part of `NoFalseAlarm`.
* A call is atomic: that the host undoes what a failing call wrote is assumed, not
  checked. What is checked is that the mirror follows exactly the calls that succeeded.
* On a real network an expired persistent entry is archived and can be restored. In
  `TokenSpec` time passes only as long as persistent entries live; the fuzzer's own
  purge, which deletes them, is modelled as it is.
* The assumptions on the constants are named in the modules. Those that carry weight:
  `MAX_LEDGERS_TO_ADVANCE < MIN_PERSISTENT_TTL` and
  `MAX_LEDGERS_TO_ADVANCE <= INSTANCE_LIFETIME_THRESHOLD` (this answers the comment
  "Don't know where this number comes from": with the host's minimum of 4096 ledgers,
  4095 is the longest hop that cannot lose a contract that has just been registered),
  `DAY_IN_LEDGERS <= BALANCE_LIFETIME_THRESHOLD`, and `Advances` of at most one day. The
  bump amounts are below `MAX_ENTRY_TTL`, so the host never cuts a prolongation short.

## Runs

| Run | Checks | Bounds |
|---|---|---|
| `token_safety` | storage is well-formed; an allowance's entry outlives it; debits need a signature or an allowance that is used up by as much; allowances grow only by their owner; the administrator is replaced only by itself | 2 parties (every aliasing of owner, spender and receiver occurs), 6 effective steps (initialize, mint, approve, let time pass, spend, approve again), amounts -1, 1, 2 of at most 2, expirations before, at and after the clock |
| `token_refinement` | the contract implements `AbstractToken` | same, 5 steps |
| `fuzz_real_time` | no alarm at all for a token without bare panics; mirror, supply, instance lifetime, allowances lost only when expired | the code's own numbers of ledgers; 3 commands in 2 transactions; advances of 16 (the minimum life of an allowance entry) and of a whole day (five hops) |
| `fuzz_many_transactions` | balance entries survive; the clock is never ahead of a day per transaction, so the end of time is far away; every step brings the end of the run nearer; every run ends | time scaled down so that six transactions outlive a balance entry that nobody reads and reach the end of u32; a day is, as in the code, no multiple of the longest hop; all bare panics on |
| `fuzz_refinement` | under the fuzzer the token still implements `AbstractToken`; the sum of all balances grows only with the administrator's signature | the code's own numbers; a grant that ends on the very ledger a hop arrives at |
| `auth_safety` | setup and pings never fail; accounts and the right trustlines last; nonces are fresh in every `Env` | all seeds and address types, both kinds of token; signatures live for 3 ledgers and hops take up to 2, so that nonces are purged, and survive a hop; 2 commands; the end of u32 after four hops |
| `auth_refinement` | every command reaches the token; signing implements `Authorization` | same, seeds from 2 on |
| `oracle_balances` | a wrong balance is never accepted, is found before the next transaction begins and is always reported; no other fault raises an alarm | scaled-down time; one fault at any moment after the first command; 2 transactions of 2 commands |
| `bogus_seeds` (violated) | README: "executes some number of commands against the contract" | as `auth_safety`, 1 command |
| `oracle_allowances` (violated) | README: allowances equal "the fuzzer's own accounting" | 1 command |
| `panic_on_error` (violated) | README: "Contract calls do not panic" | |
| `assert_every_step` (violated) | README: "After every step the fuzzer makes general assertions" | |

In the passing runs of the contract a behaviour stops at its bound on steps, so
deadlock is not checked there; a run of the fuzzer never deadlocks, `Done` being its
only self-loop, and neither does `MockAuths`, where time can always go on until it ends. Symmetry is used for safety only: the two parties of the contract are
interchangeable, and so are the fuzzer's two accounts that are not the administrator.

**Fairness.** `fuzz_token` is a sequential function without I/O or locks: as long as it
has a next step it takes it. `FairSpec` says that and no more, `WF_vars(Next)`.
`FairOracleSpec` says the same of the fuzzer's own steps; that the token goes wrong is
never forced.

**Disagreements with the documentation.**

1. The README tells authors never to `panic!` on ordinary errors, and lists "Contract
   calls do not panic" among what is asserted; the example token handles every error
   of its own with a bare panic, so the fuzzer reports it with the first negative
   amount. `NoFalseAlarm` shows that this is the only assertion that can fail.
2. The README says invariants are asserted after every step; `assert_state` runs once
   per transaction. `MirrorFollowsToken` and `SupplyIsConserved` show that for the
   example token nothing is hidden by that.

3. `addrgen.rs` line 44 suspects that "seed of 0 or 1 seems to generate bogus contract
   addresses" and lets the input have them. The run shows why they are: the first address
   the host generates, the example token's, is then also the address of a signer; when
   this signer is a contract and signs, `mock_auths_for_command` puts its mock contract in
   the place of the token, and the commands that follow call that. With the next
   `Env` the token is back. `CommandsAlwaysReachTheToken` shows that from seed 2 on it
   cannot happen, although the host keeps generating addresses during the run.
4. The README says that every allowance is compared with the fuzzer's own accounting.
   Before the comparison the code takes over every allowance that the contract reports as
   0 ("Assume the allowance expired", with a fixme to track the expiration instead), so a
   token that forgets allowances is not found out. `WrongBalanceIsNeverKept` shows that
   balances have no such gap: whatever commands follow, token and mirror never come
   together again. `VerdictIsExact` makes the picture complete: a run that is not cut
   short ends in an alarm if a balance went wrong, and only then; no command that trips
   over a lost allowance leads to one. `OnlyExpiredAllowancesVanish` shows that for the example token nothing
   is hidden by it.

Smaller ones, not worth a run: "all current balances are greater than 0" (README line
100) is `>= 0` in the code, and authorization and non-contract addresses, listed as
yet to be tested, are tested by now.

## Proofs

For every set of commands, any number of transactions and any constants that satisfy the
assumptions, TLAPS checks (no induction over data is needed):

* `ExampleTokenProofs`: `TokenTypeCorrect`, `AllowanceEntriesLast`. The invariant
  `TokenInv` is the conjunction of the two; they need each other because a lifetime has
  to be a number before it can be compared, and a spent allowance is non-negative only
  because of the check before it. The `...Checks` lemmas turn `f_result = Ok` into the
  facts it stands for; the lemmas about `spend_balance`, `receive_balance` and
  `write_allowance` say what each writes, and to which entries.
  `DebitsNeedASignature`, `GrantsNeedTheOwner` and `AdminNeedsTheAdmin` are the
  three authorization properties, from `TokenInv` and the lemma `StepKinds`: a step
  leaves balances and allowances to themselves, or mints, or is an owner's call, or a
  spender's call that takes as much from the allowance as from the balance. That time only takes allowances
  away (`AllowancesExpire`) is what keeps them from growing by themselves.
* `TokenFuzzerProofs`: the inductive invariant is `FuzzInv(lost)`, where `lost` holds the
  pairs whose allowance the token may have lost; for the example token it is empty, and
  the mirror's part `MirrorUpTo({})` is `MirrorFollowsToken`. `assert_state` finds nothing
  (part of `NoFalseAlarm`) because the mirror is right (`MirrorFollowsToken`); the mirror
  stays right over a hop only because no balance is purged
  (`BalancesSurviveTransaction`) and because the entry of a live allowance is not purged
  either (`AllowanceEntryOutlivesAllowance`); and administrator and metadata
  last only because the contract's own entry is never purged (`ContractSurvivesHop`). `SetUp` (who is administrator, what the
  metadata is) and `Heading` (the clock is short of its target) close the induction. One
  lemma per action shows that it keeps `FuzzInv(lost)`. Its parts are the theorems
  `FuzzTypeCorrect`, `NoFalseAlarms`, `MirrorIsRight`, `SupplyConserved`,
  `ContractStaysAlive` and `BalancesStayAlive`; `AllowancesLastAsPromised` is the action
  property that only expired allowances vanish. `ErrorsRaiseNoAlarm` draws the conclusion
  for a token without bare panics: no run of it raises an alarm at all, as the only alarm
  `NoFalseAlarm` leaves is `UnexpectedPanic`, and that one needs a bare panic
  (`PanicIsBare`).
* `RefinementProofs`: `TokenImplementsAbstract` and `RunImplementsAbstract`, that the
  contract, alone and inside a run, implements `AbstractToken` under the mapping of
  `ExampleToken` (`SeenBalances`, `SeenGrants`). Every call maps to the operation of its
  name, a failed call or a prolongation to a call that is refused, and the clock to the abstract
  clock (`TickRefines`): there a grant disappears because its entry is purged or because
  its expiration ledger has passed, and the two have to agree, which is
  `AllowanceEntryOutlivesAllowance`. In a run, the steps in which the clock moves need
  `BalancesSurviveTransaction` too, and so rest on `FuzzInv({})`.
  From the refinement follow the authorization properties of a whole run,
  `RunDebitsNeedASignature`, `RunGrantsNeedTheOwner`, `RunAdminNeedsTheAdmin` and
  `RunSupplyNeedsTheAdmin`: a step of `AbstractToken` has them (`DebitsInStep`,
  `GrantsInStep`, `AdminInStep`, `SupplyInStep`), and every step of a run is one. For the
  contract alone `ExampleTokenProofs` shows them where persistent entries never go away;
  here the fuzzer purges and re-registers, and they still hold.
* `FuzzerOracleProofs`: `WrongBalancesAreNeverKept`. `FuzzInv` is of no use once a
  balance has gone wrong, as its mirror is right no more; the invariant is `OracleInv`. Its
  core is `Difference`: until a balance goes wrong the gap between mirror and token is
  zero for every account, and after that it is not for some account. A command moves
  token and mirror by the same amount (`InStep`), so a gap stays what it is, for
  any commands and hops, provided no balance entry is purged on the way
  (`BalancesSurviveTransaction`, with `WithinADay` for the clock); `assert_state` then
  finds it, and `Corpus::Keep` is reached only through `assert_state`. So is the next
  transaction, which is `WrongBalancesEndTheRun` (with `SetUpFirst`: the token goes wrong
  only after setup). `ExactlyWrongBalancesAreFound` adds the other direction, that
  nothing but a wrong balance raises an alarm: `AlarmInv` says that before any fault
  `FuzzInv({})` holds and after the loss of an allowance `FuzzInv` with all pairs in
  `lost`. A command that uses a lost allowance fails in the token and is not repeated on
  the mirror, an approval brings the two together again, and the synchronisation comes
  before the comparison.
* `RunLengthProofs`: how long runs are, in ledgers and in steps. `ClockKeepsPaceAlways`
  rests on `PaceInv`: the clock is behind its target by a day at most and neither is
  ahead of a day per transaction. In the code's numbers (u32, a maximal lifetime of
  6,312,000 ledgers, 17,280 a day) no run panics with "end of time" before its 248,000th
  transaction or so. `RunsAreBounded` says that `StepsLeft` is a natural number that
  every step lowers: with T transactions and C commands a run has at most
  `T * (DAY_IN_LEDGERS + 3) + 2 * C + 2` steps (`StepsLeftInit`). Neither uses anything
  about the token, and `ClockKeepsPaceOnWrongToken` and `RunsAreBoundedOnWrongToken` say
  the same of a token that goes wrong.
* `MockAuthsProofs`: the inductive invariant is `AuthInv`. A nonce is fresh
  (`NoncesAreFresh`) because every nonce that was used or handed out is below the
  counter (`Nonces`); between the signing and the call exactly the chosen signers are
  authorized (`Signatures`), an account because it is still in the ledger (`Storage`, no
  entry of which expires), a contract because its mock contract is in this `Env`. The token's code
  is in place (`TokenCode`) as long as no signer has its address, number 1 (`TokenAddress`), which is
  where the seeds from 2 on come in. From this follow the theorems
  `AuthTypeCorrect`, `NoPanicInSetupOrPing`, `AccountStorageStays`, `NoncesStayFresh`, and
  for `MIN_SEED >= 2` `CommandsAlwaysReachTheToken` and, step by step, the refinement
  `SigningImplementsAuthorization`. `SignersAreDistinct` is about the operators alone.

Checked by TLC only: `Termination` and `WrongBalanceIsReported`, as liveness is out of
the prover's reach. Of the two, the part that could go wrong is proved: a run cannot go
on for ever (`RunsAreBounded`), cannot end well with a wrong balance
(`WrongBalancesAreNeverKept`) and does not get to another transaction with one
(`WrongBalancesEndTheRun`). What is left to TLC is that a run that is not over has a next
step, the absence of deadlock, which is a statement about `ENABLED`.

## Not modelled

* The native (Stellar asset) token keeps its balances inside the host; of it only its
  address, its issuer, the trustlines to it and its need of signatures are modelled.
* Events and diagnostics are output only. `address_to_bytes` and `string_to_bytes` are
  injective conversions used as keys. Timestamps follow the sequence number.
* Budget and footprints: the fuzzer resets the first and the test host does not enforce
  the second.
* The decoding of random bytes into an `Input` and its bias (each signature is
  left out one time in ten); the sets of values it can produce are modelled.
* Hashing and ed25519, beyond being injective.
* The unit tests of the example token, and `README`-style documentation, are read as
  statements of what is intended.

## Plan

1. Done: storage, token, abstract token, driver with mirror and time; signatures,
   addresses, both kinds of token; the fuzzer on a token that goes wrong; theorems about
   all of these, and every safety property of a passing run among them; bounds on the
   length of a run; the authorization properties of whole runs.
2. Possible next: a token that goes wrong in its lifetimes (an entry that is not
   prolonged) in `FuzzerOracle`, and one module in which the commands of `TokenFuzzer`
   are signed by the steps of `MockAuths`. The refinement of `Authorization` is what
   connects the two at present.
