------------------------- MODULE KeystoreSecurityLevel -------------------------
(***************************************************************************)
(* The Keystore 2.0 security-level service (keystore2/src/security_level.rs)*)
(* serving concurrent binder threads: generateKey, importKey,              *)
(* importWrappedKey and createOperation, the key-blob upgrade-retry        *)
(* protocol (upgrade_keyblob_if_required_with), the persistence of new     *)
(* keys (store_new_key) and the TOO_MANY_OPERATIONS prune-and-retry loop.  *)
(*                                                                         *)
(* Collaborators outside src/ are modelled from their contract in the      *)
(* spec: the key database (entries, alias bindings, KeyIdGuard), the       *)
(* operation registry (OperationDb), the permission checks and KeyMint.    *)
(* A key blob is abstracted to its format version: the engine answers      *)
(* KEY_REQUIRES_UPGRADE for a blob older than CurVer and upgradeKey        *)
(* returns a blob of version CurVer.  A permission check, a binder call or *)
(* a database call may fail at any time; a request that fails returns      *)
(* ERROR with the state effects of the steps it completed.                 *)
(***************************************************************************)
EXTENDS Naturals, FiniteSets

CONSTANTS
  Threads,    \* binder threads serving requests concurrently
  Uids,       \* calling principals
  Uid,        \* the calling uid of each thread
  KeyIds,     \* key ids the database can hand out
  Aliases,    \* aliases callers use
  CurVer,     \* KeyMint's current key-blob format version
  MaxOps,     \* number of concurrent operations KeyMint admits
  Requests,   \* the binder requests callers make in this instance
  None        \* absent value (Option::None)

(* Binder requests of IKeystoreSecurityLevel, and the results a request  *)
(* returns: success, KEY_REQUIRES_UPGRADE, or any other error.            *)
RequestKinds == {"generateKey", "importKey", "importWrappedKey", "createOperation"}

Ok == "OK"
KeyRequiresUpgrade == "KEY_REQUIRES_UPGRADE"
Error == "ERROR"
Results == {Ok, KeyRequiresUpgrade, Error}

ASSUME ConstantsAssumption ==
  /\ Uid \in [Threads -> Uids]
  /\ CurVer \in Nat \ {0}
  /\ MaxOps \in Nat \ {0}
  /\ Requests \subseteq RequestKinds
  /\ None \notin KeyIds \cup Uids \cup Nat \cup RequestKinds \cup Results

Versions == 1..CurVer
Slots == 1..MaxOps

(* A KeyDescriptor; the namespace is only carried for Domain::KEY_ID,     *)
(* the blob is the caller's key blob (BLOB) or wrapped key data.          *)
Names ==
  [domain: {"APP"}, nspace: Uids, alias: Aliases] \cup
  [domain: {"SELINUX"}, nspace: {None}, alias: Aliases]

(* Descriptors of keys to create: generateKey, importKey, and the target  *)
(* of importWrappedKey (whose blob field holds the wrapped key data).     *)
NewKeys(blobs) ==
  {[domain |-> d, nspace |-> None, alias |-> a, blob |-> b] :
     d \in {"APP", "SELINUX", "BLOB"}, a \in Aliases \cup {None}, b \in blobs}

(* Descriptors of existing keys: createOperation and the wrapping key.    *)
UseKeys ==
  {[domain |-> d, nspace |-> None, alias |-> a, blob |-> None] :
     d \in {"APP", "SELINUX"}, a \in Aliases \cup {None}}
  \cup {[domain |-> "BLOB", nspace |-> None, alias |-> None, blob |-> b] :
          b \in Versions \cup {None}}
  \cup {[domain |-> "KEY_ID", nspace |-> k, alias |-> None, blob |-> None] :
          k \in KeyIds}

(* ALGORITHM parameters callers pass: a symmetric and an asymmetric one,   *)
(* an algorithm with no key format, and none at all.                     *)
Algorithms == {"AES", "RSA", "OTHER", "MISSING"}
Authenticators == {"PASSWORD", "FINGERPRINT"}

VARIABLES
  pc,          \* per thread: where its current request is
  kind,        \* per thread: "createOperation" or "importWrappedKey" in flight
  req,         \* per thread: the new key to store (importWrappedKey) and
               \* whether the arguments checked after the load are present
  gk,          \* per thread: key id it waits for or holds the KeyIdGuard of
  loaded,      \* per thread: the key blob the request started from
  tries,       \* per thread: 1 or 2, the attempt of the upgrade-retry protocol
  upgraded,    \* per thread: the upgraded blob, once upgradeKey succeeded
  op,          \* per thread: KeyMint operation begun and not yet registered
  res,         \* per thread: result of its last request
  created,     \* key database: key ids with an entry
  kmBlob,      \* key database: KM_BLOB sub-component of each entry
  alias,       \* key database: alias binding of each name
  slot,        \* KeyMint: owner uid of each operation slot, or None
  registered   \* OperationDb: the operation slots it holds

thread_vars == <<pc, kind, req, gk, loaded, tries, upgraded, op, res>>
db_vars == <<created, kmBlob, alias>>
op_vars == <<slot, registered>>
vars == <<thread_vars, db_vars, op_vars>>

-----------------------------------------------------------------------------
(* Key database (database.rs; modelled from the spec).                    *)

(* The name a new key is bound under: Domain::APP is rewritten to the     *)
(* calling uid (generate_key, import_key, import_wrapped_key).            *)
NameOf(t, d) ==
  [domain |-> d.domain,
   nspace |-> IF d.domain = "APP" THEN Uid[t] ELSE None,
   alias  |-> d.alias]

(* load_key_entry, first part: resolve a descriptor to a key id.          *)
ResolveKeyId(t, d) ==
  IF d.domain = "KEY_ID"
    THEN IF d.nspace \in created THEN d.nspace ELSE None
    ELSE IF d.alias = None THEN None ELSE alias[NameOf(t, d)]

(* Variant in which loading a key does not wait for its KeyIdGuard.      *)
KeyIdGuardIgnored(k) == FALSE

(* KEY_ID_LOCK: the KeyIdGuard of k is held by a thread past its load     *)
(* until the upgraded blob is persisted: upgrade_keyblob_if_required_with *)
(* consumes the guard and drops it after insert_blob, before the second   *)
(* try.                                                                    *)
KeyIdGuardHeld(k) ==
  \E u \in Threads : gk[u] = k /\ pc[u] \notin {"Idle", "Load"} /\ tries[u] = 1

(* Variant that binds the alias before the KM blob is inserted.          *)
StoreOrderRebindFirst ==
  [create |-> 1, rebind |-> 2, km_blob |-> 3, cert |-> 4,
   cert_chain |-> 5, params |-> 6]

(* store_new_key issues these database calls in this order; Performed(j)  *)
(* are the calls done when call j fails (j = 7: none fails).              *)
StoreOrder ==
  [create |-> 1, km_blob |-> 2, cert |-> 3, cert_chain |-> 4,
   params |-> 5, rebind |-> 6]

Performed(j) == {c \in DOMAIN StoreOrder : StoreOrder[c] < j}

-----------------------------------------------------------------------------
(* Thread control.                                                        *)

(* The request of t returns r; the KeyIdGuard it held is dropped.         *)
Return(t, r) ==
  /\ pc' = [pc EXCEPT ![t] = "Idle"]
  /\ res' = [res EXCEPT ![t] = r]
  /\ kind' = [kind EXCEPT ![t] = None]
  /\ req' = [req EXCEPT ![t] = None]
  /\ gk' = [gk EXCEPT ![t] = None]
  /\ loaded' = [loaded EXCEPT ![t] = None]
  /\ tries' = [tries EXCEPT ![t] = 1]
  /\ upgraded' = [upgraded EXCEPT ![t] = None]
  /\ op' = [op EXCEPT ![t] = None]

(* A request fails with no effect on the database or the operations.      *)
Fail(t) == Return(t, Error) /\ UNCHANGED <<db_vars, op_vars>>

(* store_new_key(key, ..., km_cert_chain, blob) and the return of the     *)
(* request that called it.  Domain::BLOB keys are not stored.  Otherwise  *)
(* a fresh entry is created and filled call by call; the first failing    *)
(* call ends the request and leaves the calls before it done.  The split  *)
(* certificate chain is not kept: only whether the calls that insert it   *)
(* fail matters, and Performed covers that whatever the chain's length.   *)
store_new_key(t, d, blob) ==
  /\ UNCHANGED op_vars
  /\ IF d.domain = "BLOB"
       THEN Return(t, Ok) /\ UNCHANGED db_vars
       ELSE \/ Fail(t)
            \/ \E k \in KeyIds \ created, j \in 2..7 :
                 LET P == Performed(j) IN
                 /\ created' = created \cup {k}
                 /\ kmBlob' = [kmBlob EXCEPT ![k] = IF "km_blob" \in P THEN blob ELSE None]
                 /\ alias' = IF "rebind" \in P
                               THEN [alias EXCEPT ![NameOf(t, d)] = k]
                               ELSE alias
                 /\ Return(t, IF j = 7 THEN Ok ELSE Error)

-----------------------------------------------------------------------------
(* generate_key: alias check, APP rewrite, rebind permission,             *)
(* addRngEntropy and generateKey (each may fail), then store_new_key      *)
(* with the engine's blob and certificate chain.                          *)
generate_key(t) ==
  /\ pc[t] = "Idle"
  /\ "generateKey" \in Requests
  /\ \/ Fail(t)
     \/ \E d \in NewKeys({None}) :
          /\ d.domain = "BLOB" \/ d.alias # None
          /\ store_new_key(t, d, CurVer)

(* The key format import_key derives from the ALGORITHM parameter.        *)
KeyFormat ==
  [a \in {"AES", "HMAC", "TRIPLE_DES", "RSA", "EC"} |->
     IF a \in {"AES", "HMAC", "TRIPLE_DES"} THEN "RAW" ELSE "PKCS8"]

(* import_key: as generate_key, and the ALGORITHM parameter must name an  *)
(* algorithm with a key format before the engine is called.               *)
import_key(t) ==
  /\ pc[t] = "Idle"
  /\ "importKey" \in Requests
  /\ \/ Fail(t)
     \/ \E d \in NewKeys({None}), alg \in Algorithms :
          /\ d.domain = "BLOB" \/ d.alias # None
          /\ alg \in DOMAIN KeyFormat
          /\ store_new_key(t, d, CurVer)

(* import_wrapped_key, up to the load of the wrapping key: alias check,   *)
(* wrapping key not Domain::BLOB, wrapped data present, rebind permission *)
(* on the new key, and the wrapping key resolved with use permission.     *)
import_wrapped_key(t) ==
  /\ pc[t] = "Idle"
  /\ "importWrappedKey" \in Requests
  /\ \/ Fail(t)
     \/ \E d \in NewKeys({None, CurVer}), w \in UseKeys, auth \in SUBSET Authenticators :
          /\ d.domain = "BLOB" \/ d.alias # None
          /\ w.domain # "BLOB"
          /\ d.blob # None
          /\ ResolveKeyId(t, w) # None
          /\ pc' = [pc EXCEPT ![t] = "Load"]
          /\ kind' = [kind EXCEPT ![t] = "importWrappedKey"]
          /\ req' = [req EXCEPT ![t] = [key |-> [d EXCEPT !.blob = None],
                                              sids |-> Authenticators \subseteq auth]]
          /\ gk' = [gk EXCEPT ![t] = ResolveKeyId(t, w)]
          /\ UNCHANGED <<loaded, tries, upgraded, op, res, db_vars, op_vars>>

(* create_operation, key resolution: Domain::BLOB needs use permission    *)
(* and a blob, then the PURPOSE parameter and a KeyMint handle; any other *)
(* domain resolves the key with use permission and goes on to the load.   *)
create_operation(t) ==
  /\ pc[t] = "Idle"
  /\ "createOperation" \in Requests
  /\ \/ Fail(t)
     \/ \E d \in UseKeys, purpose \in BOOLEAN :
          \/ /\ d.domain = "BLOB"
             /\ d.blob # None
             /\ purpose
             /\ pc' = [pc EXCEPT ![t] = "Attempt"]
             /\ kind' = [kind EXCEPT ![t] = "createOperation"]
             /\ loaded' = [loaded EXCEPT ![t] = d.blob]
             /\ UNCHANGED <<req, gk, tries, upgraded, op, res, db_vars, op_vars>>
          \/ /\ d.domain # "BLOB"
             /\ ResolveKeyId(t, d) # None
             /\ pc' = [pc EXCEPT ![t] = "Load"]
             /\ kind' = [kind EXCEPT ![t] = "createOperation"]
             /\ req' = [req EXCEPT ![t] = [key |-> None, sids |-> purpose]]
             /\ gk' = [gk EXCEPT ![t] = ResolveKeyId(t, d)]
             /\ UNCHANGED <<loaded, tries, upgraded, op, res, db_vars, op_vars>>

(* The arguments checked after the load: PURPOSE for create_operation,    *)
(* a password and a fingerprint SID for import_wrapped_key (req[t].sids   *)
(* records at the start whether they are among the arguments).            *)
ArgumentsPresent(t) == req[t].sids

(* load_key_entry with KeyEntryLoadBits::KM: waits for the KeyIdGuard,    *)
(* then takes the KM blob (missing: system error); then the arguments     *)
(* checked after the load and get_interface.                              *)
LoadKeyEntry(t) ==
  /\ pc[t] = "Load"
  /\ ~KeyIdGuardHeld(gk[t])
  /\ \/ Fail(t)
     \/ /\ kmBlob[gk[t]] # None
        /\ ArgumentsPresent(t)
        /\ pc' = [pc EXCEPT ![t] = "Attempt"]
        /\ loaded' = [loaded EXCEPT ![t] = kmBlob[gk[t]]]
        /\ UNCHANGED <<kind, req, gk, tries, upgraded, op, res, db_vars, op_vars>>

-----------------------------------------------------------------------------
(* upgrade_keyblob_if_required_with.                                      *)

(* Variant that upgrades and retries on every KEY_REQUIRES_UPGRADE.      *)
AttemptFailedAlwaysRetry(t, e) ==
  /\ UNCHANGED <<db_vars, op_vars>>
  /\ IF e = KeyRequiresUpgrade
       THEN /\ pc' = [pc EXCEPT ![t] = "Upgrade"]
            /\ UNCHANGED <<kind, req, gk, loaded, tries, upgraded, op, res>>
       ELSE Return(t, e)

(* The engine call f failed with e: KEY_REQUIRES_UPGRADE on the first try *)
(* goes to upgradeKey, any other error and any error on the second try is *)
(* returned.                                                              *)
AttemptFailed(t, e) ==
  /\ UNCHANGED <<db_vars, op_vars>>
  /\ IF e = KeyRequiresUpgrade /\ tries[t] = 1
       THEN /\ pc' = [pc EXCEPT ![t] = "Upgrade"]
            /\ UNCHANGED <<kind, req, gk, loaded, tries, upgraded, op, res>>
       ELSE Return(t, e)

(* The blob the begin closure hands to km_dev.begin: its argument, which  *)
(* is the loaded blob on the first try and the upgraded one on the second.*)
(* Variant that hands begin the blob loaded before the upgrade.          *)
BeginBlobStale(t) == loaded[t]

BeginBlob(t) == IF tries[t] = 1 THEN loaded[t] ELSE upgraded[t]

(* create_operation's f: km_dev.begin in a loop.  KeyMint refuses a stale *)
(* blob, answers TOO_MANY_OPERATIONS when no slot is free (the loop then  *)
(* prunes), or begins an operation in a free slot; it may also fail.      *)
BeginAttempt(t) ==
  /\ pc[t] = "Attempt"
  /\ kind[t] = "createOperation"
  /\ \/ AttemptFailed(t, Error)
     \/ BeginBlob(t) < CurVer /\ AttemptFailed(t, KeyRequiresUpgrade)
     \/ /\ \A s \in Slots : slot[s] # None
        /\ pc' = [pc EXCEPT ![t] = "Prune"]
        /\ UNCHANGED <<kind, req, gk, loaded, tries, upgraded, op, res, db_vars, op_vars>>
     \/ /\ BeginBlob(t) = CurVer
        /\ \E s \in Slots :
             /\ slot[s] = None
             /\ slot' = [slot EXCEPT ![s] = Uid[t]]
             /\ op' = [op EXCEPT ![t] = s]
             /\ pc' = [pc EXCEPT ![t] = "Register"]
             /\ gk' = [gk EXCEPT ![t] = None]
             /\ UNCHANGED <<kind, req, loaded, tries, upgraded, res, registered, db_vars>>

(* Variant of Prune that forgets the pruned operations without aborting  *)
(* them in KeyMint.                                                       *)
PruneKeepsSlot(t) ==
  /\ pc[t] = "Prune"
  /\ \/ AttemptFailed(t, Error)
     \/ LET mine == {s \in registered : slot[s] = Uid[t]} IN
        /\ registered' = registered \ mine
        /\ pc' = [pc EXCEPT ![t] = "Attempt"]
        /\ UNCHANGED <<kind, req, gk, loaded, tries, upgraded, op, res, db_vars, slot>>

(* OperationDb::prune(caller_uid) inside the begin loop: it fails, which  *)
(* ends f with that error, or aborts the caller's registered operations   *)
(* and the loop calls begin again.                                        *)
Prune(t) ==
  /\ pc[t] = "Prune"
  /\ \/ AttemptFailed(t, Error)
     \/ LET mine == {s \in registered : slot[s] = Uid[t]} IN
        /\ registered' = registered \ mine
        /\ slot' = [s \in Slots |-> IF s \in mine THEN None ELSE slot[s]]
        /\ pc' = [pc EXCEPT ![t] = "Attempt"]
        /\ UNCHANGED <<kind, req, gk, loaded, tries, upgraded, op, res, db_vars>>

(* import_wrapped_key's f: km_dev.importWrappedKey with the wrapping key  *)
(* blob the closure captured (wrapping_key_blob), whatever blob the       *)
(* protocol passes it; on success the guard is dropped and the new key    *)
(* stored without a certificate chain.                                    *)
ImportWrappedBlob(t) == loaded[t]

ImportWrappedAttempt(t) ==
  /\ pc[t] = "Attempt"
  /\ kind[t] = "importWrappedKey"
  /\ \/ AttemptFailed(t, Error)
     \/ ImportWrappedBlob(t) < CurVer /\ AttemptFailed(t, KeyRequiresUpgrade)
     \/ /\ ImportWrappedBlob(t) = CurVer
        /\ store_new_key(t, req[t].key, CurVer)

(* Variant of Upgrade that does not count the try it starts.            *)
UpgradeKeepsTries(t) ==
  /\ pc[t] = "Upgrade"
  /\ \/ Fail(t)
     \/ /\ pc' = [pc EXCEPT ![t] = "Attempt"]
        /\ upgraded' = [upgraded EXCEPT ![t] = CurVer]
        /\ kmBlob' = IF gk[t] = None THEN kmBlob ELSE [kmBlob EXCEPT ![gk[t]] = CurVer]
        /\ UNCHANGED <<kind, req, gk, loaded, tries, op, res, created, alias, op_vars>>

(* upgradeKey on the blob the request started from; on success the new   *)
(* blob is written to the entry under the KeyIdGuard, if one is held      *)
(* (insert_blob may fail), and f is tried a second time.                  *)
Upgrade(t) ==
  /\ pc[t] = "Upgrade"
  /\ \/ Fail(t)
     \/ /\ pc' = [pc EXCEPT ![t] = "Attempt"]
        /\ tries' = [tries EXCEPT ![t] = @ + 1]
        /\ upgraded' = [upgraded EXCEPT ![t] = CurVer]
        /\ kmBlob' = IF gk[t] = None THEN kmBlob ELSE [kmBlob EXCEPT ![gk[t]] = CurVer]
        /\ UNCHANGED <<kind, req, gk, loaded, op, res, created, alias, op_vars>>

(* create_operation after begin: the operation is registered under the    *)
(* caller's uid, then the IKeystoreOperation binder is made (may fail).   *)
Register(t) ==
  /\ pc[t] = "Register"
  /\ registered' = registered \cup {op[t]}
  /\ \E r \in {Ok, Error} : Return(t, r)
  /\ UNCHANGED <<slot, db_vars>>

(* A client finishes or aborts one of its registered operations           *)
(* (operation.rs; modelled from the spec).                                *)
CloseOperation(s) ==
  /\ s \in registered
  /\ registered' = registered \ {s}
  /\ slot' = [slot EXCEPT ![s] = None]
  /\ UNCHANGED <<thread_vars, db_vars>>

-----------------------------------------------------------------------------
(* Initially no request is in flight and no operation is live; the        *)
(* database holds what earlier boots stored, possibly with blobs of an    *)
(* older KeyMint version, each entry bound to at most one name.           *)
Init ==
  /\ pc = [t \in Threads |-> "Idle"]
  /\ kind = [t \in Threads |-> None]
  /\ req = [t \in Threads |-> None]
  /\ gk = [t \in Threads |-> None]
  /\ loaded = [t \in Threads |-> None]
  /\ tries = [t \in Threads |-> 1]
  /\ upgraded = [t \in Threads |-> None]
  /\ op = [t \in Threads |-> None]
  /\ res = [t \in Threads |-> None]
  /\ created \in SUBSET KeyIds
  /\ kmBlob \in [KeyIds -> Versions \cup {None}]
  /\ \A k \in KeyIds : kmBlob[k] # None <=> k \in created
  /\ alias \in [Names -> created \cup {None}]
  /\ \A m, n \in Names : m # n /\ alias[m] # None => alias[m] # alias[n]
  /\ slot = [s \in Slots |-> None]
  /\ registered = {}

Next ==
  \/ \E t \in Threads :
       \/ generate_key(t)
       \/ import_key(t)
       \/ import_wrapped_key(t)
       \/ create_operation(t)
       \/ LoadKeyEntry(t)
       \/ BeginAttempt(t)
       \/ Prune(t)
       \/ ImportWrappedAttempt(t)
       \/ Upgrade(t)
       \/ Register(t)
  \/ \E s \in Slots : CloseOperation(s)

Spec == Init /\ [][Next]_vars

(* A binder thread runs the request it serves on: every call it makes     *)
(* returns (as a result or an error), and a thread blocked on a KeyIdGuard *)
(* is woken once the guard stays free.  Clients are not bound to do        *)
(* anything: they need not make requests nor close their operations, and  *)
(* an operation whose binder was never handed out has nobody to close it. *)
ThreadStep(t) ==
  \/ LoadKeyEntry(t)
  \/ BeginAttempt(t)
  \/ Prune(t)
  \/ ImportWrappedAttempt(t)
  \/ Upgrade(t)
  \/ Register(t)

Fairness == \A t \in Threads : WF_vars(ThreadStep(t))

LiveSpec == Spec /\ Fairness

-----------------------------------------------------------------------------
(* Properties.                                                            *)

(* Every variable holds a value of its type.                              *)
TypeOK ==
  /\ pc \in [Threads -> {"Idle", "Load", "Attempt", "Prune", "Upgrade", "Register"}]
  /\ kind \in [Threads -> {"createOperation", "importWrappedKey", None}]
  /\ gk \in [Threads -> KeyIds \cup {None}]
  /\ loaded \in [Threads -> Versions \cup {None}]
  /\ tries \in [Threads -> {1, 2}]
  /\ upgraded \in [Threads -> Versions \cup {None}]
  /\ op \in [Threads -> Slots \cup {None}]
  /\ res \in [Threads -> Results \cup {None}]
  /\ created \subseteq KeyIds
  /\ kmBlob \in [KeyIds -> Versions \cup {None}]
  /\ alias \in [Names -> KeyIds \cup {None}]
  /\ slot \in [Slots -> Uids \cup {None}]
  /\ registered \subseteq Slots

(* No lost upgrade: while a request of createOperation or                 *)
(* importWrappedKey holds a key's KeyIdGuard, the key's stored KM blob is *)
(* the blob that request is working from (loaded, then upgraded), so the  *)
(* upgraded blob insert_blob writes replaces the blob it was made from.   *)
UpgradeAgainstCurrentBlob ==
  \A t \in Threads :
    (pc[t] \in {"Attempt", "Prune", "Upgrade"} /\ gk[t] # None) =>
      kmBlob[gk[t]] = IF tries[t] = 1 THEN loaded[t] ELSE upgraded[t]

(* A key reachable by alias has its KM blob: store_new_key binds the      *)
(* alias only after the blob is in, whichever of its calls fails, so a    *)
(* later load by alias never finds an entry without a blob.               *)
AliasBindingsComplete ==
  \A n \in Names : alias[n] # None => kmBlob[alias[n]] # None

(* Every KeyMint operation slot in use is accounted for exactly once:     *)
(* registered in OperationDb, where prune can abort it, or held by the    *)
(* one createOperation request about to register it under its own uid.    *)
SlotAccounting ==
  /\ \A s \in Slots :
       slot[s] # None <=> (s \in registered \/ \E t \in Threads : pc[t] = "Register" /\ op[t] = s)
  /\ \A t \in Threads : pc[t] = "Register" =>
       /\ op[t] \notin registered
       /\ slot[op[t]] = Uid[t]
       /\ \A u \in Threads \ {t} : pc[u] = "Register" => op[u] # op[t]

(* The upgrade-retry protocol hides a stale blob: no request returns      *)
(* KEY_REQUIRES_UPGRADE, since after a successful upgradeKey the engine   *)
(* call is retried with the upgraded blob (spec 4.1, 4.3).                *)
NeverKeyRequiresUpgrade ==
  \A t \in Threads : res[t] # KeyRequiresUpgrade

(* Spec 8: when both attempts of begin fail, the stored blob of the key   *)
(* is the one from before the createOperation call.                       *)
FailedRetryKeepsBlob ==
  [][\A t \in Threads :
       (/\ kind[t] = "createOperation" /\ tries[t] = 2 /\ gk[t] # None
        /\ pc'[t] = "Idle" /\ res'[t] # Ok)
         => kmBlob'[gk[t]] = loaded[t]]_vars

(* The upgrade-retry protocol is bounded: an importWrappedKey request     *)
(* whose wrapping key is loaded returns, after at most one upgradeKey and  *)
(* one second try, whatever KeyMint answers.                               *)
WrappedImportReturns ==
  \A t \in Threads :
    (pc[t] = "Attempt" /\ kind[t] = "importWrappedKey") ~> pc[t] = "Idle"

=============================================================================
