# Verification of the Keystore 2.0 security-level service

This directory holds TLA+ models of `src/keystore2/src/security_level.rs`, with
the parts of `src/keystore2/src/utils.rs` that it uses. It contains TLC
configurations that model-check the models on small instances, and TLAPS proofs
of the main invariants for every instance.

## The system

`KeystoreSecurityLevel` is a binder service. Binder threads call it concurrently
with four requests:

| request | what it does | source |
|---|---|---|
| `generateKey` | alias check; `Domain::APP` namespace rewritten to the calling uid; rebind permission; `addRngEntropy`; `generateKey`; then `store_new_key` | 291–331 |
| `importKey` | as `generateKey`, and the `ALGORITHM` parameter must map to a key format (`RAW` or `PKCS8`) before the engine is called | 333–388 |
| `importWrappedKey` | alias check; the wrapping key may not be `Domain::BLOB`; wrapped data present; rebind permission; loads the wrapping key (use permission, KeyIdGuard); password and fingerprint SIDs required; `importWrappedKey` inside the upgrade-retry protocol; then `store_new_key` without a certificate chain | 390–499 |
| `createOperation` | `Domain::BLOB` uses the caller's blob (use permission); other domains load the entry and take its KeyIdGuard; `PURPOSE` required; `begin` inside the upgrade-retry protocol and an inner loop that prunes the caller's operations on `TOO_MANY_OPERATIONS`; the operation is registered in `OperationDb` and wrapped in an `IKeystoreOperation` binder | 178–289 |

Two shared pieces of machinery sit behind these requests:

* **`store_new_key` (86–176)** persists a new key with six database calls, in
  this order: `create_key_entry`, `insert_blob(KM_BLOB)`, `insert_blob(CERT)`,
  `insert_blob(CERT_CHAIN)`, `insert_keyparameter` and `rebind_alias`. There is
  no transaction, and each `?` ends the request after the calls before it.
* **`upgrade_keyblob_if_required_with` (501–543)** calls `f(blob)`. On
  `KEY_REQUIRES_UPGRADE` it calls `upgradeKey`. If the caller passed a
  KeyIdGuard, it writes the upgraded blob to the database under that guard.
  The guard is passed by value and consumed by that write, so it is dropped
  before `f(upgraded_blob)` is called once more.

The service talks to three collaborators whose code is not under `src/`. They
are modelled from their contracts in `spec.md`:

* the key database (entries, KM blobs, alias bindings, and the per-key
  KeyIdGuard lock);
* `OperationDb`, where operations are registered and pruned by uid;
* the KeyMint device. It rejects an out-of-date blob, upgrades blobs and admits
  a bounded number of concurrent operations.

## Modules

* **`KeystoreSecurityLevel.tla`** is the service and its collaborators.
* **`MC_KeystoreSecurityLevel.tla`** is the TLC instance: two threads of two
  uids, two key ids and one alias, with symmetry over the key ids.
* **`KeystoreSecurityLevelProofs.tla`** holds the TLAPS proofs of type
  correctness and of `AliasBindingsComplete`.
* **`KeystoreGuardProofs.tla`** extends it with the KeyIdGuard invariant, the
  proof of `UpgradeAgainstCurrentBlob`.
* **`KeystoreOperationProofs.tla`** extends it with the proofs of
  `SlotAccounting` and `NeverKeyRequiresUpgrade`.
* **`KeyMetadataConversionProofs.tla`** proves `AuthorizationsProvenance`.
* **`KeyMetadataConversion.tla`** and **`MC_KeyMetadataConversion.tla`** model
  the data path of `store_new_key`: the certificate-chain split (86–111), the
  parameter conversions of `utils.rs` (110–138) and the `KeyMetadata` returned
  (165–176).

### State

| variable | code |
|---|---|
| `pc[t]` | where thread `t`'s request is: `Idle`, `Load` (waiting for the KeyIdGuard in `load_key_entry`), `Attempt` (inside `f`), `Prune` (`operation_db.prune`), `Upgrade` (`upgradeKey` and `insert_blob`), `Register` (`operation_db.create_operation` and the binder) |
| `kind[t]` | which closure `f` is running: `createOperation` or `importWrappedKey` |
| `req[t]` | the new key of `importWrappedKey`, and whether the arguments checked after the load (`PURPOSE`, or both SIDs) are present |
| `gk[t]` | the key id whose KeyIdGuard `t` waits for or holds, and which it works from on its second try after the guard was dropped |
| `loaded[t]`, `upgraded[t]`, `tries[t]` | the blob `f` started from, the blob `upgradeKey` returned, and which try of the protocol is running |
| `op[t]` | the KeyMint operation begun and not yet registered |
| `res[t]` | the result of `t`'s last request |
| `created`, `kmBlob`, `alias` | the key database's entries, their KM blobs and the alias bindings |
| `slot`, `registered` | the owner uid of each KeyMint operation slot, and the slots `OperationDb` holds |

A key blob is abstracted to its format version (`1..CurVer`). KeyMint answers
`KEY_REQUIRES_UPGRADE` for a version below `CurVer`, and `upgradeKey` returns
`CurVer`. Every fallible call appears as a `Fail(t)` disjunct: a permission
check, an engine call, `get_interface` or a database call. The request then
returns `ERROR` with the state effects of the steps it completed.

### Actions

| action | code |
|---|---|
| `generate_key` | `generate_key` from the alias check to the engine call |
| `import_key` | `import_key`; `KeyFormat` is its algorithm match |
| `import_wrapped_key` | `import_wrapped_key` up to the request for the wrapping key's lock |
| `create_operation` | key resolution in `create_operation` (the `BLOB` branch, or the request for the lock) |
| `LoadKeyEntry` | `load_key_entry` once the KeyIdGuard is free, the KM blob and the checks after the load |
| `BeginAttempt` | one `km_dev.begin` of the loop in `create_operation`: error, `KEY_REQUIRES_UPGRADE`, `TOO_MANY_OPERATIONS`, or an operation in a free slot, which drops the KeyIdGuard (moved into the protocol) |
| `Prune` | `operation_db.prune(caller_uid)?` inside that loop |
| `ImportWrappedAttempt` | the `importWrappedKey` closure; on success, `store_new_key` |
| `Upgrade` | `upgradeKey`, then `insert_blob` under the guard, which is then dropped (`KeyIdGuardHeld` counts only first tries) |
| `Register` | `operation_db.create_operation`, then `new_native_binder(...).into_interface()?` |
| `CloseOperation` | a client finishing or aborting a registered operation (allowed, never required) |

`store_new_key(t, d, blob)` is the whole of `store_new_key` and the return of
the request that called it. A failure at call `j` leaves `Performed(j)` done.

## Runs

| run | cfg | expect | checks |
|---|---|---|---|
| `core` | `MC_core.cfg` | pass (2.6M distinct states, about 80 s) | `TypeOK`, `UpgradeAgainstCurrentBlob`, `AliasBindingsComplete`, `SlotAccounting` |
| `retry` | `MC_retry.cfg` | pass (about 290k distinct states) | `NeverKeyRequiresUpgrade`, without `importWrappedKey` |
| `wrapped_retry_stale` | `MC_wrapped_retry_stale.cfg` | violation | `NeverKeyRequiresUpgrade` with `importWrappedKey` |
| `failed_retry` | `MC_failed_retry.cfg` | violation | `FailedRetryKeepsBlob` |
| `liveness` | `MC_liveness.cfg` | pass (180k distinct states, about 30 s) | `WrappedImportReturns` under `LiveSpec` |
| `conversion` | `MC_conversion.cfg` | pass (39k distinct states) | `CertificatesKept`, `AuthorizationsProvenance` |

The properties are the following:

* **`UpgradeAgainstCurrentBlob`.** While a request works from a loaded key
  (under its guard, or on the second try after the guard was dropped), the
  stored blob is the one the request works from. So the blob
  `insert_blob` writes always replaces the blob it was upgraded from. It fails
  as soon as a second request may load a key whose guard is held.
* **`AliasBindingsComplete`.** An alias binding never leads to an entry without
  a KM blob, whichever call of `store_new_key` fails.
* **`SlotAccounting`.** Every busy KeyMint slot is either registered or held by
  exactly one request about to register it. No slot is lost or counted twice
  through `begin`, registration, pruning and closing. The model records a
  slot's owner when `begin` takes it (302); the code passes the same
  `caller_uid` to `operation_db.create_operation` (269), so the two agree. An
  operation whose binder conversion fails (276) stays registered until the
  same uid prunes, which the spec allows; no property claims more.
* **`NeverKeyRequiresUpgrade`** (spec 4.1 and 4.3). A caller never sees
  `KEY_REQUIRES_UPGRADE`.
* **`FailedRetryKeepsBlob`** (spec 8). When both tries fail, the stored blob is
  the one from before the call.

### Bounds

The bounds are `CurVer = 2` and `MaxOps = 1`, with two threads, two uids, two
key ids and one alias. They are enough for these reasons:

* Two versions give a stale blob and an upgrade.
* One slot lets two threads contend for it, which reaches `TOO_MANY_OPERATIONS`,
  pruning and a prune by a uid that owns nothing.
* Two threads on one key reach the guard contention.
* The two uids make `APP` names differ between threads.
* Two key ids let a key be created while another exists, and let the initial
  database hold stale blobs.

### Fairness and liveness

`LiveSpec` adds weak fairness to `Spec` on `ThreadStep(t)` for every thread,
and on nothing else. A binder thread that is serving a request keeps running
it (nothing in the handlers waits on anything but the KeyIdGuard and the
collaborators, which answer). Clients get no fairness: nothing binds a client
to close its operations, and an operation whose binder was never handed out
(the conversion failure at 276) has nobody to close it.
The liveness runs use one key id and only `importWrappedKey` and
`createOperation` (`MC_OneKey`, `MC_UseRequests`), without symmetry, which is
unsound for liveness checking.

* **`WrappedImportReturns`.** An `importWrappedKey` inside the upgrade-retry
  protocol always returns: one upgrade, then one more try.

The `TOO_MANY_OPERATIONS` loop of `createOperation` has no bound, and the spec
(4.3, 5 and 9) says so: a request may wait as long as other callers hold the
slots. No termination property is claimed for it.

### Findings

1. **A code bug at `security_level.rs:481–486`.** The `importWrappedKey`
   closure ignores its `wrapping_blob` argument and passes the captured
   `wrapping_key_blob`. After a successful upgrade, the retry sends the old blob
   again, and the caller gets `KEY_REQUIRES_UPGRADE`. Spec 4.1 promises a
   transparent migration. Shown by run `wrapped_retry_stale`.
2. **A divergence between code and spec at `security_level.rs:516–530`.** The
   upgraded blob is persisted before the second try and is not restored if that
   try fails. Spec 8 says the stored blob is then unchanged. Shown by run
   `failed_retry`.
### Conversions

`KeyMetadataConversion` starts from any certificate chain KeyMint may return
(none, or up to three certificates of up to two bytes over `{0, 1}`) and any
pair of parameter lists (up to two of two wire parameters), and takes one
`StoreNewKey` step; deadlock is not checked because the call is single.

* **`CertificatesKept`** (spec 4.2, step 1). The leaf followed by the chain
  blob is every byte of the chain in order (checked against the reference
  `Concat`, a recursive function); the leaf is the first certificate; the chain blob is
  absent exactly when at most one certificate was returned.
* **`AuthorizationsProvenance`** (spec 3). The authorizations are the
  hardware-enforced parameters with the service's level followed by the
  software-enforced ones with `SOFTWARE`, none lost or added.

Each property of a passing run has a mutant in `PROJECT.json`: a plausible bug
in the code, which TLC shows the property catches.

## Proofs

`KeystoreSecurityLevelProofs.tla` proves two theorems for every value of the
constants. Its only assumption is `ConstantsAssumption`. Besides the types of
the constants, it says that `None` (`Option::None`) is not a key id, uid,
number, request name or result code. The request names and result codes are
listed as the sets `RequestKinds` and `Results` so the provers can tell them
apart from `None`.

### `TypeCorrect: Spec => []TypeOK`

`TypeOK` alone is not inductive. Three facts about thread state are added
(`ThreadShape`):

* a thread in `Load` waits for a real key id;
* a thread in `Upgrade` is on its first try;
* a thread in `Register` holds a slot.

Without them, `LoadKeyEntry`, `Upgrade` and `Register` could produce ill-typed
values. The proof has one lemma per shared helper (`Return`, `Fail`,
`AttemptFailed` and `store_new_key`) and one step per action.

### `AliasesReachCompleteEntries: Spec => []AliasBindingsComplete`

The inductive invariant `AliasInv` adds two conjuncts:

* **`FreshKeysUnused`.** A key id without an entry has no blob and no alias.
  This is needed because `store_new_key` picks a fresh id, and rebinding to it
  must not alter existing bindings.
* **`GuardedKeysCreated`.** A guarded key has an entry. This is needed because
  `Upgrade` writes `kmBlob[gk[t]]` and must not give a blob to a fresh id.

The key step is `store_new_key`. Lemma `PerformedOrder` shows that whenever
`rebind` was performed, `km_blob` was performed before it.

### `UpgradeUnderGuard: Spec => []UpgradeAgainstCurrentBlob`

`KeystoreGuardProofs.tla` proves it from `RInv == AliasInv /\ GuardInv`.
`GuardInv` says, per thread (`ThreadGuard`): an idle or registering thread
holds no guard; an idle or loading thread is on its first try; a thread past
the load works from a real version, and in `Upgrade` from an older one; and a
thread holding a guard finds in the database the blob it works from (the
loaded one on the first try, the upgraded one on the second), and a thread on
its second try works from `CurVer`. The guard is held only on the first try
(`Guarded`), since the code drops it after `insert_blob`. `GuardsExclusive`
says no two threads hold the same guard. Together they make the last conjunct
inductive: no other thread's `store_new_key` writes a loaded key's blob (fresh
ids are excluded by `GuardedKeysCreated` and `FreshKeysUnused`); another
thread's `Upgrade` cannot write the key of a guard holder, and when it writes
the key of a thread on its second try it writes `CurVer` over the `CurVer`
already stored.

### `SlotsAccounted: Spec => []SlotAccounting`

`KeystoreOperationProofs.tla` proves it from `SlotInv == TypeInv /\
SlotAccounting`. `TypeInv` is the type invariant strengthened by
`ThreadShape`, which gives a registering thread a slot in `Slots`. Each action
gets a lemma. `BeginTakesSlot` shows `begin` takes only a free slot.
`RegisterSlots` shows registration moves the slot into `OperationDb`.
`ReleaseSlots` covers both pruning and closing: they free only registered
slots. `Return` and `AttemptFailed` leave the slots alone (`ReturnSlots`,
`AttemptFailedSlots`).

### `UpgradeHidesStaleBlobs: Spec => []NeverKeyRequiresUpgrade`

This theorem holds under the hypothesis that `importWrappedKey` is not among
the `Requests`. That is the configuration of the `retry` run. With
`importWrappedKey` enabled, the property is violated (run
`wrapped_retry_stale`; see findings), so the hypothesis is exactly what the
code supports.

`NeverKeyRequiresUpgrade` is not inductive by itself. The strengthening
`RetryInv` adds `RetryShape` for each thread: a thread on its second try
works from the blob the upgrade just wrote (`upgraded = CurVer`), is not
serving `importWrappedKey`, and has not returned `KEY_REQUIRES_UPGRADE`. The
key case is `BeginAttempt`. KeyMint returns `KEY_REQUIRES_UPGRADE` only for a
blob older than `CurVer`. By `RetryShape` that cannot happen on a second try,
so the error leads to an upgrade, not to the caller.

### `AuthorizationsCarryLevels: Spec => []AuthorizationsProvenance`

`KeyMetadataConversionProofs.tla` first proves lemma `ConversionProvenance`
about the operators: `key_parameters_to_authorizations` of
`key_characteristics_to_internal` has length `|hw| + |sw|`. Its first `|hw|`
elements are the hardware-enforced parameters tagged with the service's level,
and the rest are the software-enforced ones tagged `SOFTWARE`. The proof uses
`ConcatProperties` and `SeqMonotonic` from `SequenceTheorems` and a lemma
`TagList` about tagging a list. The inductive invariant is
`ProvInv == kc \in Characteristics /\ AuthorizationsProvenance`.
`StoreNewKey` leaves `kc` unchanged and stores its conversion, so the lemma
applies. The theorem holds for every `convert_from_wire` (`FromWire`) and
every bound.

### What the proofs do not cover

`CertificatesKept` is only model-checked. It compares the code's
`FlattenSeq` with the reference `Concat`, a recursive function over the
chain. Showing that they agree on every chain needs induction over the
sequence, and the library's induction theorems take an operator parameter the
installed provers cannot instantiate.

Liveness (`WrappedImportReturns`) and
`ENABLED` are out of the prover's reach and stay with TLC.

## Not modelled

* **The `Asp` mutex.** The race it prevents is inside `SpIBinder::clone`, in
  the binder library, outside `src/`; neither the code nor the spec fixes how
  an unsynchronised clone would go wrong. `get_interface` is part of an atomic
  step, which is what the held mutex provides.
* **Certificates in the service model.** `KeystoreSecurityLevel` keeps only
  whether the `CERT` and `CERT_CHAIN` calls run and fail (`Performed`); their
  contents are modelled separately in `KeyMetadataConversion`.
* **Construction.** `KeystoreSecurityLevel::new` is not modelled.
* **The `begin` result without an operation.** The branch where `begin` returns
  no operation is unreachable under KeyMint's contract.
