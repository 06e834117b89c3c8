--------------------- MODULE KeystoreSecurityLevelProofs ---------------------
(***************************************************************************)
(* Proofs, for every value of the constants, of the type invariant and of  *)
(* AliasBindingsComplete of KeystoreSecurityLevel.                         *)
(***************************************************************************)
EXTENDS KeystoreSecurityLevel, TLAPS

(* Where a thread is in its request fixes what it holds: a thread waiting *)
(* for a KeyIdGuard has a key id, a thread about to upgrade is on its     *)
(* first try, and a thread about to register holds an operation slot.     *)
ThreadShape ==
  \A t \in Threads :
    /\ pc[t] = "Load" => gk[t] \in KeyIds
    /\ pc[t] = "Upgrade" => tries[t] = 1
    /\ pc[t] = "Register" => op[t] \in Slots

(* TypeOK split into the per-thread variables and the shared ones.        *)
ThreadsTyped ==
  /\ pc \in [Threads -> {"Idle", "Load", "Attempt", "Prune", "Upgrade", "Register"}]
  /\ kind \in [Threads -> {"createOperation", "importWrappedKey", None}]
  /\ gk \in [Threads -> KeyIds \cup {None}]
  /\ loaded \in [Threads -> Versions \cup {None}]
  /\ tries \in [Threads -> {1, 2}]
  /\ upgraded \in [Threads -> Versions \cup {None}]
  /\ op \in [Threads -> Slots \cup {None}]
  /\ res \in [Threads -> Results \cup {None}]
  /\ ThreadShape

SharedTyped ==
  /\ created \subseteq KeyIds
  /\ kmBlob \in [KeyIds -> Versions \cup {None}]
  /\ alias \in [Names -> KeyIds \cup {None}]
  /\ slot \in [Slots -> Uids \cup {None}]
  /\ registered \subseteq Slots

TypeInv == ThreadsTyped /\ SharedTyped

(* Key ids the database has not handed out hold no blob and no alias, and *)
(* every key a request resolved or holds has an entry.                    *)
FreshKeysUnused ==
  \A k \in KeyIds \ created :
    /\ kmBlob[k] = None
    /\ \A n \in Names : alias[n] # k

GuardedKeysCreated ==
  \A t \in Threads : gk[t] # None => gk[t] \in created

DbInv == FreshKeysUnused /\ GuardedKeysCreated /\ AliasBindingsComplete

(* The inductive invariant behind AliasBindingsComplete.                  *)
AliasInv == TypeInv /\ DbInv

-----------------------------------------------------------------------------
(* Lemmas about the helpers.                                              *)

(* A name built from a descriptor with an alias, in Domain::APP or        *)
(* Domain::SELINUX, is one of the names the database binds.               *)
LEMMA NameOfType ==
  ASSUME ConstantsAssumption, NEW t \in Threads,
         NEW d \in [domain: {"APP", "SELINUX"}, nspace: {None}, alias: Aliases, blob: {None} \cup Versions]
  PROVE  NameOf(t, d) \in Names
  BY DEF NameOf, Names

(* Every descriptor createOperation or importWrappedKey can name resolves *)
(* to a key id, or to None; to one with an entry if fresh ids are unused.  *)
LEMMA ResolveKeyIdType ==
  ASSUME ConstantsAssumption, SharedTyped, NEW t \in Threads, NEW d \in UseKeys
  PROVE  /\ ResolveKeyId(t, d) \in KeyIds \cup {None}
         /\ FreshKeysUnused => ResolveKeyId(t, d) \in created \cup {None}
<1>1. CASE d.domain = "KEY_ID"
  BY <1>1 DEF ResolveKeyId, SharedTyped
<1>2. CASE d.domain # "KEY_ID" /\ d.alias = None
  BY <1>2 DEF ResolveKeyId
<1>3. CASE d.domain # "KEY_ID" /\ d.alias # None
  <2>1. d \in [domain: {"APP", "SELINUX"}, nspace: {None}, alias: Aliases, blob: {None} \cup Versions]
    BY <1>3 DEF UseKeys
  <2>2. NameOf(t, d) \in Names
    BY <2>1, NameOfType
  <2>3. alias[NameOf(t, d)] \in KeyIds \cup {None}
    BY <2>2 DEF SharedTyped
  <2>4. FreshKeysUnused => alias[NameOf(t, d)] \in created \cup {None}
    BY <2>2, <2>3 DEF FreshKeysUnused
  <2>. QED
    BY <1>3, <2>3, <2>4 DEF ResolveKeyId
<1>. QED
  BY <1>1, <1>2, <1>3

(* The descriptor blob createOperation starts from is a version or None.  *)
LEMMA UseKeysBlob ==
  ASSUME NEW d \in UseKeys PROVE d.blob \in Versions \cup {None}
  BY DEF UseKeys

(* The store calls done before call j fails include the alias rebinding   *)
(* only if they include the KM blob insertion.                            *)
LEMMA PerformedOrder ==
  ASSUME NEW j \in 2..7
  PROVE  /\ "rebind" \in Performed(j) => "km_blob" \in Performed(j)
         /\ "create" \in Performed(j)
  BY DEF Performed, StoreOrder

-----------------------------------------------------------------------------
(* Type correctness.                                                      *)

LEMMA TypeInvInit == Init => TypeInv
  BY ConstantsAssumption DEF Init, TypeInv, ThreadsTyped, SharedTyped, ThreadShape, Versions

(* A request that returns leaves its thread typed.                        *)
LEMMA ReturnTyped ==
  ASSUME ConstantsAssumption, ThreadsTyped, NEW t \in Threads, NEW r \in Results, Return(t, r)
  PROVE  ThreadsTyped'
  BY DEF ThreadsTyped, ThreadShape, Return

LEMMA FailTyped ==
  ASSUME ConstantsAssumption, TypeInv, NEW t \in Threads, Fail(t)
  PROVE  TypeInv'
<1>1. ThreadsTyped'
  BY ReturnTyped DEF TypeInv, Fail, Results, Error
<1>2. SharedTyped'
  BY DEF TypeInv, SharedTyped, Fail, db_vars, op_vars
<1>. QED
  BY <1>1, <1>2 DEF TypeInv

LEMMA AttemptFailedTyped ==
  ASSUME ConstantsAssumption, TypeInv, NEW t \in Threads, NEW e \in Results, AttemptFailed(t, e)
  PROVE  TypeInv'
<1>1. CASE e = KeyRequiresUpgrade /\ tries[t] = 1
  BY <1>1 DEF AttemptFailed, TypeInv, ThreadsTyped, ThreadShape, SharedTyped, db_vars, op_vars
<1>2. CASE ~(e = KeyRequiresUpgrade /\ tries[t] = 1)
  <2>1. ThreadsTyped'
    BY <1>2, ReturnTyped DEF AttemptFailed, TypeInv
  <2>2. SharedTyped'
    BY DEF TypeInv, SharedTyped, AttemptFailed, db_vars, op_vars
  <2>. QED
    BY <2>1, <2>2 DEF TypeInv
<1>. QED
  BY <1>1, <1>2

(* store_new_key with a blob of the current version leaves the state      *)
(* typed.                                                                 *)
LEMMA StoreNewKeyTyped ==
  ASSUME ConstantsAssumption, TypeInv, NEW t \in Threads, NEW d, store_new_key(t, d, CurVer)
  PROVE  TypeInv'
<1>1. CASE d.domain = "BLOB"
  <2>1. Return(t, Ok) /\ UNCHANGED <<db_vars, op_vars>>
    BY <1>1 DEF store_new_key
  <2>2. ThreadsTyped'
    BY <2>1, ReturnTyped DEF TypeInv, Results, Ok
  <2>. QED
    BY <2>1, <2>2 DEF TypeInv, SharedTyped, db_vars, op_vars
<1>2. CASE d.domain # "BLOB" /\ Fail(t)
  BY <1>2, FailTyped
<1>3. CASE d.domain # "BLOB" /\ ~Fail(t)
  <2>1. PICK k \in KeyIds \ created, j \in 2..7 :
          LET P == Performed(j) IN
          /\ created' = created \cup {k}
          /\ kmBlob' = [kmBlob EXCEPT ![k] = IF "km_blob" \in P THEN CurVer ELSE None]
          /\ alias' = IF "rebind" \in P THEN [alias EXCEPT ![NameOf(t, d)] = k] ELSE alias
          /\ Return(t, IF j = 7 THEN Ok ELSE Error)
    BY <1>3 DEF store_new_key
  <2>2. ThreadsTyped'
    <3>1. (IF j = 7 THEN Ok ELSE Error) \in Results
      BY DEF Results
    <3>. QED
      BY <2>1, <3>1, ReturnTyped DEF TypeInv
  <2>3. UNCHANGED op_vars
    BY DEF store_new_key
  <2>4. CurVer \in Versions
    BY DEF Versions
  <2>5. SharedTyped'
    BY <2>1, <2>3, <2>4 DEF TypeInv, SharedTyped, op_vars
  <2>. QED
    BY <2>2, <2>5 DEF TypeInv
<1>. QED
  BY <1>1, <1>2, <1>3

LEMMA TypeInvStep == TypeInv /\ [Next]_vars => TypeInv'
<1> SUFFICES ASSUME TypeInv, [Next]_vars PROVE TypeInv'
  OBVIOUS
<1> USE ConstantsAssumption
<1>1. ASSUME NEW t \in Threads, generate_key(t) PROVE TypeInv'
  BY <1>1, FailTyped, StoreNewKeyTyped DEF generate_key
<1>2. ASSUME NEW t \in Threads, import_key(t) PROVE TypeInv'
  BY <1>2, FailTyped, StoreNewKeyTyped DEF import_key
<1>3. ASSUME NEW t \in Threads, import_wrapped_key(t) PROVE TypeInv'
  <2>1. CASE Fail(t)
    BY <2>1, FailTyped
  <2>2. CASE ~Fail(t)
    <3>1. PICK w \in UseKeys :
            /\ ResolveKeyId(t, w) # None
            /\ pc' = [pc EXCEPT ![t] = "Load"]
            /\ kind' = [kind EXCEPT ![t] = "importWrappedKey"]
            /\ gk' = [gk EXCEPT ![t] = ResolveKeyId(t, w)]
            /\ UNCHANGED <<loaded, tries, upgraded, op, res, db_vars, op_vars>>
      BY <1>3, <2>2 DEF import_wrapped_key
    <3>2. ResolveKeyId(t, w) \in KeyIds
      BY <3>1, ResolveKeyIdType DEF TypeInv
    <3>. QED
      BY <3>1, <3>2 DEF TypeInv, ThreadsTyped, ThreadShape, SharedTyped, db_vars, op_vars
  <2>. QED
    BY <2>1, <2>2
<1>4. ASSUME NEW t \in Threads, create_operation(t) PROVE TypeInv'
  <2>1. CASE Fail(t)
    BY <2>1, FailTyped
  <2>2. CASE ~Fail(t)
    <3>1. PICK d \in UseKeys, purpose \in BOOLEAN :
            \/ /\ d.domain = "BLOB"
               /\ pc' = [pc EXCEPT ![t] = "Attempt"]
               /\ kind' = [kind EXCEPT ![t] = "createOperation"]
               /\ loaded' = [loaded EXCEPT ![t] = d.blob]
               /\ UNCHANGED <<req, gk, tries, upgraded, op, res, db_vars, op_vars>>
            \/ /\ ResolveKeyId(t, d) # None
               /\ pc' = [pc EXCEPT ![t] = "Load"]
               /\ kind' = [kind EXCEPT ![t] = "createOperation"]
               /\ gk' = [gk EXCEPT ![t] = ResolveKeyId(t, d)]
               /\ UNCHANGED <<loaded, tries, upgraded, op, res, db_vars, op_vars>>
      BY <1>4, <2>2 DEF create_operation
    <3>2. d.blob \in Versions \cup {None}
      BY UseKeysBlob
    <3>3. ResolveKeyId(t, d) \in KeyIds \cup {None}
      BY ResolveKeyIdType DEF TypeInv
    <3>. QED
      BY <3>1, <3>2, <3>3 DEF TypeInv, ThreadsTyped, ThreadShape, SharedTyped, db_vars, op_vars
  <2>. QED
    BY <2>1, <2>2
<1>5. ASSUME NEW t \in Threads, LoadKeyEntry(t) PROVE TypeInv'
  <2>1. CASE Fail(t)
    BY <2>1, FailTyped
  <2>2. CASE ~Fail(t)
    <3>1. /\ pc[t] = "Load"
          /\ pc' = [pc EXCEPT ![t] = "Attempt"]
          /\ loaded' = [loaded EXCEPT ![t] = kmBlob[gk[t]]]
          /\ UNCHANGED <<kind, req, gk, tries, upgraded, op, res, db_vars, op_vars>>
      BY <1>5, <2>2 DEF LoadKeyEntry
    <3>2. kmBlob[gk[t]] \in Versions \cup {None}
      BY <3>1 DEF TypeInv, ThreadsTyped, ThreadShape, SharedTyped
    <3>. QED
      BY <3>1, <3>2 DEF TypeInv, ThreadsTyped, ThreadShape, SharedTyped, db_vars, op_vars
  <2>. QED
    BY <2>1, <2>2
<1>6. ASSUME NEW t \in Threads, BeginAttempt(t) PROVE TypeInv'
  <2>1. CASE AttemptFailed(t, Error)
    BY <2>1, AttemptFailedTyped DEF Results, Error
  <2>2. CASE AttemptFailed(t, KeyRequiresUpgrade)
    BY <2>2, AttemptFailedTyped DEF Results, KeyRequiresUpgrade
  <2>3. CASE /\ pc' = [pc EXCEPT ![t] = "Prune"]
             /\ UNCHANGED <<kind, req, gk, loaded, tries, upgraded, op, res, db_vars, op_vars>>
    BY <2>3 DEF TypeInv, ThreadsTyped, ThreadShape, SharedTyped, db_vars, op_vars
  <2>4. CASE \E s \in Slots :
               /\ slot' = [slot EXCEPT ![s] = Uid[t]]
               /\ op' = [op EXCEPT ![t] = s]
               /\ pc' = [pc EXCEPT ![t] = "Register"]
               /\ gk' = [gk EXCEPT ![t] = None]
               /\ UNCHANGED <<kind, req, loaded, tries, upgraded, res, registered, db_vars>>
    BY <2>4 DEF TypeInv, ThreadsTyped, ThreadShape, SharedTyped, db_vars
  <2>. QED
    BY <1>6, <2>1, <2>2, <2>3, <2>4 DEF BeginAttempt
<1>7. ASSUME NEW t \in Threads, Prune(t) PROVE TypeInv'
  <2>1. CASE AttemptFailed(t, Error)
    BY <2>1, AttemptFailedTyped DEF Results, Error
  <2>2. CASE ~AttemptFailed(t, Error)
    BY <1>7, <2>2 DEF Prune, TypeInv, ThreadsTyped, ThreadShape, SharedTyped, db_vars
  <2>. QED
    BY <2>1, <2>2
<1>8. ASSUME NEW t \in Threads, ImportWrappedAttempt(t) PROVE TypeInv'
  <2>1. CASE AttemptFailed(t, Error)
    BY <2>1, AttemptFailedTyped DEF Results, Error
  <2>2. CASE AttemptFailed(t, KeyRequiresUpgrade)
    BY <2>2, AttemptFailedTyped DEF Results, KeyRequiresUpgrade
  <2>3. CASE store_new_key(t, req[t].key, CurVer)
    BY <2>3, StoreNewKeyTyped
  <2>. QED
    BY <1>8, <2>1, <2>2, <2>3 DEF ImportWrappedAttempt
<1>9. ASSUME NEW t \in Threads, Upgrade(t) PROVE TypeInv'
  <2>1. CASE Fail(t)
    BY <2>1, FailTyped
  <2>2. CASE ~Fail(t)
    <3>1. /\ pc[t] = "Upgrade"
          /\ pc' = [pc EXCEPT ![t] = "Attempt"]
          /\ tries' = [tries EXCEPT ![t] = @ + 1]
          /\ upgraded' = [upgraded EXCEPT ![t] = CurVer]
          /\ kmBlob' = IF gk[t] = None THEN kmBlob ELSE [kmBlob EXCEPT ![gk[t]] = CurVer]
          /\ UNCHANGED <<kind, req, gk, loaded, op, res, created, alias, op_vars>>
      BY <1>9, <2>2 DEF Upgrade
    <3>2. tries[t] = 1
      BY <3>1 DEF TypeInv, ThreadsTyped, ThreadShape
    <3>. QED
      BY <3>1, <3>2 DEF TypeInv, ThreadsTyped, ThreadShape, SharedTyped, Versions, op_vars
  <2>. QED
    BY <2>1, <2>2
<1>10. ASSUME NEW t \in Threads, Register(t) PROVE TypeInv'
  <2>1. PICK r \in {Ok, Error} : Return(t, r)
    BY <1>10 DEF Register
  <2>2. ThreadsTyped'
    BY <2>1, ReturnTyped DEF TypeInv, Results
  <2>3. SharedTyped'
    BY <1>10 DEF Register, TypeInv, ThreadsTyped, ThreadShape, SharedTyped, db_vars
  <2>. QED
    BY <2>2, <2>3 DEF TypeInv
<1>11. ASSUME NEW s \in Slots, CloseOperation(s) PROVE TypeInv'
  BY <1>11 DEF CloseOperation, TypeInv, ThreadsTyped, ThreadShape, SharedTyped, thread_vars, db_vars
<1>12. CASE UNCHANGED vars
  BY <1>12 DEF vars, thread_vars, db_vars, op_vars, TypeInv, ThreadsTyped, ThreadShape, SharedTyped
<1>. QED
  BY <1>1, <1>2, <1>3, <1>4, <1>5, <1>6, <1>7, <1>8, <1>9, <1>10, <1>11, <1>12 DEF Next

(* Type correctness: every reachable state satisfies TypeOK.              *)
THEOREM TypeCorrect == Spec => []TypeOK
<1>1. Spec => []TypeInv
  BY TypeInvInit, TypeInvStep, PTL DEF Spec
<1>2. TypeInv => TypeOK
  BY DEF TypeInv, ThreadsTyped, SharedTyped, TypeOK
<1>. QED
  BY <1>1, <1>2, PTL

-----------------------------------------------------------------------------
(* Alias bindings.                                                        *)

LEMMA DbInvInit == Init => DbInv
  BY ConstantsAssumption DEF Init, DbInv, FreshKeysUnused, GuardedKeysCreated, AliasBindingsComplete

(* A step that leaves the database alone and gives threads only guards of *)
(* keys with entries keeps DbInv.                                         *)
LEMMA DbFrame ==
  ASSUME DbInv, UNCHANGED db_vars,
         \A u \in Threads : gk'[u] # None => gk'[u] \in created
  PROVE  DbInv'
  BY DEF DbInv, FreshKeysUnused, GuardedKeysCreated, AliasBindingsComplete, db_vars

(* A returning request drops its guard.                                   *)
LEMMA ReturnGuards ==
  ASSUME TypeInv, DbInv, NEW t \in Threads, NEW r, Return(t, r)
  PROVE  \A u \in Threads : gk'[u] # None => gk'[u] \in created
  BY DEF Return, TypeInv, ThreadsTyped, DbInv, GuardedKeysCreated

LEMMA FailDb ==
  ASSUME TypeInv, DbInv, NEW t \in Threads, Fail(t)
  PROVE  DbInv'
  BY ReturnGuards, DbFrame DEF Fail

LEMMA AttemptFailedDb ==
  ASSUME TypeInv, DbInv, NEW t \in Threads, NEW e, AttemptFailed(t, e)
  PROVE  DbInv'
<1>1. CASE e = KeyRequiresUpgrade /\ tries[t] = 1
  BY <1>1, DbFrame DEF AttemptFailed, DbInv, GuardedKeysCreated
<1>2. CASE ~(e = KeyRequiresUpgrade /\ tries[t] = 1)
  BY <1>2, ReturnGuards, DbFrame DEF AttemptFailed
<1>. QED
  BY <1>1, <1>2

(* store_new_key fills a fresh entry and binds the alias last.            *)
LEMMA StoreNewKeyDb ==
  ASSUME ConstantsAssumption, TypeInv, DbInv, NEW t \in Threads, NEW d, store_new_key(t, d, CurVer)
  PROVE  DbInv'
<1>1. CASE d.domain = "BLOB"
  <2>1. Return(t, Ok) /\ UNCHANGED db_vars
    BY <1>1 DEF store_new_key
  <2>. QED
    BY <2>1, ReturnGuards, DbFrame
<1>2. CASE d.domain # "BLOB" /\ Fail(t)
  BY <1>2, FailDb
<1>3. CASE d.domain # "BLOB" /\ ~Fail(t)
  <2>1. PICK k \in KeyIds \ created, j \in 2..7 :
          LET P == Performed(j) IN
          /\ created' = created \cup {k}
          /\ kmBlob' = [kmBlob EXCEPT ![k] = IF "km_blob" \in P THEN CurVer ELSE None]
          /\ alias' = IF "rebind" \in P THEN [alias EXCEPT ![NameOf(t, d)] = k] ELSE alias
          /\ Return(t, IF j = 7 THEN Ok ELSE Error)
    BY <1>3 DEF store_new_key
  <2>2. /\ "rebind" \in Performed(j) => "km_blob" \in Performed(j)
    BY PerformedOrder
  <2>3. CurVer # None
    BY DEF Versions
  <2>4. \A n \in Names : alias[n] # k
    BY DEF DbInv, FreshKeysUnused
  <2>5. FreshKeysUnused'
    BY <2>1 DEF TypeInv, SharedTyped, DbInv, FreshKeysUnused
  <2>6. GuardedKeysCreated'
    <3>1. Return(t, IF j = 7 THEN Ok ELSE Error)
      BY <2>1
    <3>2. \A u \in Threads : gk'[u] # None => gk'[u] \in created
      BY <3>1, ReturnGuards
    <3>. QED
      BY <2>1, <3>2 DEF GuardedKeysCreated
  <2>7. AliasBindingsComplete'
    <3>1. SUFFICES ASSUME NEW n \in Names, alias'[n] # None PROVE kmBlob'[alias'[n]] # None
      BY DEF AliasBindingsComplete
    <3>2. CASE alias'[n] = k
      BY <2>1, <2>2, <2>3, <2>4, <3>1, <3>2 DEF TypeInv, SharedTyped
    <3>3. CASE alias'[n] # k
      <4>1. alias'[n] = alias[n]
        BY <2>1, <3>3 DEF TypeInv, SharedTyped
      <4>2. kmBlob[alias[n]] # None
        BY <3>1, <4>1 DEF DbInv, AliasBindingsComplete
      <4>. QED
        BY <2>1, <3>3, <4>1, <4>2 DEF TypeInv, SharedTyped
    <3>. QED
      BY <3>2, <3>3
  <2>. QED
    BY <2>5, <2>6, <2>7 DEF DbInv
<1>. QED
  BY <1>1, <1>2, <1>3

LEMMA DbInvStep == TypeInv /\ DbInv /\ [Next]_vars => DbInv'
<1> SUFFICES ASSUME TypeInv, DbInv, [Next]_vars PROVE DbInv'
  OBVIOUS
<1> USE ConstantsAssumption
<1>1. ASSUME NEW t \in Threads, generate_key(t) PROVE DbInv'
  BY <1>1, FailDb, StoreNewKeyDb DEF generate_key
<1>2. ASSUME NEW t \in Threads, import_key(t) PROVE DbInv'
  BY <1>2, FailDb, StoreNewKeyDb DEF import_key
<1>3. ASSUME NEW t \in Threads, import_wrapped_key(t) PROVE DbInv'
  <2>1. CASE Fail(t)
    BY <2>1, FailDb
  <2>2. CASE ~Fail(t)
    <3>1. PICK w \in UseKeys :
            /\ ResolveKeyId(t, w) # None
            /\ gk' = [gk EXCEPT ![t] = ResolveKeyId(t, w)]
            /\ UNCHANGED db_vars
      BY <1>3, <2>2 DEF import_wrapped_key
    <3>2. ResolveKeyId(t, w) \in created
      BY <3>1, ResolveKeyIdType DEF TypeInv, DbInv
    <3>. QED
      BY <3>1, <3>2, DbFrame DEF TypeInv, ThreadsTyped, DbInv, GuardedKeysCreated
  <2>. QED
    BY <2>1, <2>2
<1>4. ASSUME NEW t \in Threads, create_operation(t) PROVE DbInv'
  <2>1. CASE Fail(t)
    BY <2>1, FailDb
  <2>2. CASE ~Fail(t)
    <3>1. PICK d \in UseKeys, purpose \in BOOLEAN :
            \/ /\ gk' = gk
               /\ UNCHANGED db_vars
            \/ /\ ResolveKeyId(t, d) # None
               /\ gk' = [gk EXCEPT ![t] = ResolveKeyId(t, d)]
               /\ UNCHANGED db_vars
      BY <1>4, <2>2 DEF create_operation
    <3>2. ResolveKeyId(t, d) \in created \cup {None}
      BY ResolveKeyIdType DEF TypeInv, DbInv
    <3>. QED
      BY <3>1, <3>2, DbFrame DEF TypeInv, ThreadsTyped, DbInv, GuardedKeysCreated
  <2>. QED
    BY <2>1, <2>2
<1>5. ASSUME NEW t \in Threads, LoadKeyEntry(t) PROVE DbInv'
  <2>1. CASE Fail(t)
    BY <2>1, FailDb
  <2>2. CASE ~Fail(t)
    BY <1>5, <2>2, DbFrame DEF LoadKeyEntry, DbInv, GuardedKeysCreated
  <2>. QED
    BY <2>1, <2>2
<1>6. ASSUME NEW t \in Threads, BeginAttempt(t) PROVE DbInv'
  <2>1. CASE AttemptFailed(t, Error) \/ AttemptFailed(t, KeyRequiresUpgrade)
    BY <2>1, AttemptFailedDb
  <2>2. CASE /\ gk' = gk
             /\ UNCHANGED db_vars
    BY <2>2, DbFrame DEF DbInv, GuardedKeysCreated
  <2>3. CASE /\ gk' = [gk EXCEPT ![t] = None]
             /\ UNCHANGED db_vars
    BY <2>3, DbFrame DEF TypeInv, ThreadsTyped, DbInv, GuardedKeysCreated
  <2>. QED
    BY <1>6, <2>1, <2>2, <2>3 DEF BeginAttempt
<1>7. ASSUME NEW t \in Threads, Prune(t) PROVE DbInv'
  <2>1. CASE AttemptFailed(t, Error)
    BY <2>1, AttemptFailedDb
  <2>2. CASE ~AttemptFailed(t, Error)
    BY <1>7, <2>2, DbFrame DEF Prune, DbInv, GuardedKeysCreated
  <2>. QED
    BY <2>1, <2>2
<1>8. ASSUME NEW t \in Threads, ImportWrappedAttempt(t) PROVE DbInv'
  BY <1>8, AttemptFailedDb, StoreNewKeyDb DEF ImportWrappedAttempt
<1>9. ASSUME NEW t \in Threads, Upgrade(t) PROVE DbInv'
  <2>1. CASE Fail(t)
    BY <2>1, FailDb
  <2>2. CASE ~Fail(t)
    <3>1. /\ kmBlob' = IF gk[t] = None THEN kmBlob ELSE [kmBlob EXCEPT ![gk[t]] = CurVer]
          /\ UNCHANGED <<gk, created, alias>>
      BY <1>9, <2>2 DEF Upgrade
    <3>2. gk[t] # None => gk[t] \in created
      BY DEF DbInv, GuardedKeysCreated
    <3>3. CurVer # None
      OBVIOUS
    <3>. QED
      BY <3>1, <3>2, <3>3 DEF TypeInv, SharedTyped, DbInv, FreshKeysUnused, GuardedKeysCreated,
                                AliasBindingsComplete
  <2>. QED
    BY <2>1, <2>2
<1>10. ASSUME NEW t \in Threads, Register(t) PROVE DbInv'
  BY <1>10, ReturnGuards, DbFrame DEF Register
<1>11. ASSUME NEW s \in Slots, CloseOperation(s) PROVE DbInv'
  BY <1>11, DbFrame DEF CloseOperation, thread_vars, DbInv, GuardedKeysCreated
<1>12. CASE UNCHANGED vars
  BY <1>12, DbFrame DEF vars, thread_vars, DbInv, GuardedKeysCreated
<1>. QED
  BY <1>1, <1>2, <1>3, <1>4, <1>5, <1>6, <1>7, <1>8, <1>9, <1>10, <1>11, <1>12 DEF Next

(* A key found by alias has its KM blob, in every reachable state: a load *)
(* by alias (createOperation, importWrappedKey) never meets an entry that *)
(* store_new_key left without a blob.                                     *)
THEOREM AliasesReachCompleteEntries == Spec => []AliasBindingsComplete
<1>1. Init => AliasInv
  BY TypeInvInit, DbInvInit DEF AliasInv
<1>2. AliasInv /\ [Next]_vars => AliasInv'
  BY TypeInvStep, DbInvStep DEF AliasInv
<1>3. AliasInv => AliasBindingsComplete
  BY DEF AliasInv, DbInv
<1>. QED
  BY <1>1, <1>2, <1>3, PTL DEF Spec
=============================================================================
