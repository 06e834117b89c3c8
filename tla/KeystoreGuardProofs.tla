------------------------ MODULE KeystoreGuardProofs ------------------------
(***************************************************************************)
(* Proofs, for every value of the constants, that a request upgrading a    *)
(* key's blob always upgrades the blob stored for it (UpgradeAgainst-      *)
(* CurrentBlob).  The proof rests on the KeyIdGuard discipline: the guard  *)
(* is exclusive, taken at the load and dropped once the upgraded blob is   *)
(* stored, and every later write of a loaded key stores the current        *)
(* version, so a request on its second try still finds its own blob.      *)
(***************************************************************************)
EXTENDS KeystoreSecurityLevelProofs

(* t works from the loaded key gk[t]: it loaded the key and has not yet    *)
(* returned or begun its operation.                                        *)
Holds(t) == gk[t] # None /\ pc[t] \in {"Attempt", "Prune", "Upgrade"}

(* t holds the KeyIdGuard of gk[t]: it works from the key on its first     *)
(* try, before the upgraded blob was stored.                               *)
Guarded(t) == Holds(t) /\ tries[t] = 1

(* What the stage of a thread's request says about its guard and blobs:   *)
(* no guard when idle or registering, a first try until the load, a blob  *)
(* of some version once in the protocol, an older one when upgrading, and *)
(* the stored blob of a held key is the one the request works from.        *)
ThreadGuard(t) ==
  /\ pc[t] \in {"Idle", "Register"} => gk[t] = None
  /\ pc[t] \in {"Idle", "Load"} => tries[t] = 1
  /\ pc[t] \in {"Attempt", "Prune", "Upgrade"} => loaded[t] \in Versions
  /\ pc[t] = "Upgrade" => loaded[t] < CurVer
  /\ tries[t] = 2 => upgraded[t] = CurVer
  /\ Holds(t) => kmBlob[gk[t]] = IF tries[t] = 1 THEN loaded[t] ELSE upgraded[t]

(* No two threads hold the guard of the same key.                         *)
GuardsExclusive ==
  \A t, u \in Threads : t # u /\ Guarded(t) /\ Guarded(u) => gk[t] # gk[u]

GuardInv == (\A t \in Threads : ThreadGuard(t)) /\ GuardsExclusive

(* The inductive invariant of this module.                                *)
RInv == AliasInv /\ GuardInv

-----------------------------------------------------------------------------
(* The frame of a step of thread t: GuardInv is kept when the other        *)
(* threads are untouched, the blobs of the keys they hold are untouched,  *)
(* t ends in a stage its guard conjuncts allow, and if t holds a guard    *)
(* after the step no other guard holder has the same key.                  *)
LEMMA GuardFrame ==
  ASSUME TypeInv, GuardInv, NEW t \in Threads,
         \A u \in Threads \ {t} :
           /\ pc'[u] = pc[u] /\ gk'[u] = gk[u] /\ loaded'[u] = loaded[u]
           /\ tries'[u] = tries[u] /\ upgraded'[u] = upgraded[u],
         \A u \in Threads \ {t} : Holds(u) => kmBlob'[gk[u]] = kmBlob[gk[u]],
         ThreadGuard(t)',
         Guarded(t)' => \A u \in Threads \ {t} : Guarded(u) => gk[u] # gk'[t]
  PROVE  GuardInv'
<1>1. ASSUME NEW u \in Threads \ {t} PROVE ThreadGuard(u)'
  BY <1>1 DEF GuardInv, ThreadGuard, Holds
<1>2. GuardsExclusive'
  BY DEF GuardInv, GuardsExclusive, Guarded, Holds
<1>. QED
  BY <1>1, <1>2 DEF GuardInv

(* A request that returns ends in Idle, holds no guard, and leaves the     *)
(* other threads alone.                                                    *)
LEMMA ReturnGuard ==
  ASSUME TypeInv, GuardInv, NEW t \in Threads, NEW r, Return(t, r),
         \A u \in Threads \ {t} : Holds(u) => kmBlob'[gk[u]] = kmBlob[gk[u]]
  PROVE  GuardInv'
<1>1. ThreadGuard(t)' /\ ~Guarded(t)'
  BY DEF Return, ThreadGuard, Guarded, Holds, TypeInv, ThreadsTyped
<1>2. \A u \in Threads \ {t} :
        /\ pc'[u] = pc[u] /\ gk'[u] = gk[u] /\ loaded'[u] = loaded[u]
        /\ tries'[u] = tries[u] /\ upgraded'[u] = upgraded[u]
  BY DEF Return, TypeInv, ThreadsTyped
<1>. QED
  BY <1>1, <1>2, GuardFrame

LEMMA FailGuard ==
  ASSUME TypeInv, GuardInv, NEW t \in Threads, Fail(t)
  PROVE  GuardInv'
  BY ReturnGuard DEF Fail, db_vars

(* store_new_key writes only the entry of a fresh key id, never the blob  *)
(* of a key some request holds, and then returns.                          *)
LEMMA StoreGuard ==
  ASSUME TypeInv, DbInv, GuardInv, NEW t \in Threads, NEW d, store_new_key(t, d, CurVer)
  PROVE  GuardInv'
<1>1. CASE d.domain = "BLOB"
  <2>1. Return(t, Ok) /\ UNCHANGED kmBlob
    BY <1>1 DEF store_new_key, db_vars
  <2>. QED
    BY <2>1, ReturnGuard
<1>2. CASE d.domain # "BLOB" /\ Fail(t)
  BY <1>2, FailGuard
<1>3. CASE d.domain # "BLOB" /\ ~Fail(t)
  <2>1. PICK k \in KeyIds \ created, j \in 2..7 :
          /\ kmBlob' = [kmBlob EXCEPT ![k] = IF "km_blob" \in Performed(j) THEN CurVer ELSE None]
          /\ Return(t, IF j = 7 THEN Ok ELSE Error)
    BY <1>3 DEF store_new_key
  <2>2. \A u \in Threads \ {t} : Holds(u) => gk[u] \in created
    BY DEF DbInv, GuardedKeysCreated, Holds
  <2>3. \A u \in Threads \ {t} : Holds(u) => kmBlob'[gk[u]] = kmBlob[gk[u]]
    BY <2>1, <2>2 DEF TypeInv, SharedTyped
  <2>. QED
    BY <2>1, <2>3, ReturnGuard
<1>. QED
  BY <1>1, <1>2, <1>3

(* A thread moves between the stages of the protocol (Attempt, Prune,     *)
(* Upgrade) with nothing else changed; it enters Upgrade only with an     *)
(* older blob.                                                             *)
LEMMA MoveGuard ==
  ASSUME TypeInv, GuardInv, NEW t \in Threads,
         pc[t] \in {"Attempt", "Prune", "Upgrade"},
         NEW p \in {"Attempt", "Prune", "Upgrade"},
         pc' = [pc EXCEPT ![t] = p],
         UNCHANGED <<gk, loaded, tries, upgraded, kmBlob>>,
         p = "Upgrade" => loaded[t] < CurVer
  PROVE  GuardInv'
<1>1. ThreadGuard(t)'
  BY DEF ThreadGuard, Holds, GuardInv, TypeInv, ThreadsTyped
<1>2. Guarded(t)' => \A u \in Threads \ {t} : Guarded(u) => gk[u] # gk'[t]
  BY DEF Guarded, Holds, GuardInv, GuardsExclusive, TypeInv, ThreadsTyped
<1>3. \A u \in Threads \ {t} :
        /\ pc'[u] = pc[u] /\ gk'[u] = gk[u] /\ loaded'[u] = loaded[u]
        /\ tries'[u] = tries[u] /\ upgraded'[u] = upgraded[u]
  BY DEF TypeInv, ThreadsTyped
<1>. QED
  BY <1>1, <1>2, <1>3, GuardFrame

(* The engine call failed with e: the request returns, or (first try,     *)
(* KEY_REQUIRES_UPGRADE) moves to Upgrade, which needs an older blob.      *)
LEMMA AttemptFailedGuard ==
  ASSUME TypeInv, GuardInv, NEW t \in Threads, NEW e,
         pc[t] \in {"Attempt", "Prune"},
         AttemptFailed(t, e),
         e = KeyRequiresUpgrade /\ tries[t] = 1 => loaded[t] < CurVer
  PROVE  GuardInv'
<1>1. CASE e = KeyRequiresUpgrade /\ tries[t] = 1
  BY <1>1, MoveGuard DEF AttemptFailed, db_vars
<1>2. CASE ~(e = KeyRequiresUpgrade /\ tries[t] = 1)
  BY <1>2, ReturnGuard DEF AttemptFailed, db_vars
<1>. QED
  BY <1>1, <1>2

-----------------------------------------------------------------------------
(* GuardInv is inductive.                                                 *)

LEMMA GuardInvInit == Init => GuardInv
  BY DEF Init, GuardInv, ThreadGuard, GuardsExclusive, Guarded, Holds

(* A request starts: from Idle to Load with a key to wait for, or (a       *)
(* Domain::BLOB createOperation) to Attempt with the caller's blob.        *)
LEMMA StartGuard ==
  ASSUME TypeInv, GuardInv, NEW t \in Threads, pc[t] = "Idle",
         \/ /\ pc' = [pc EXCEPT ![t] = "Load"]
            /\ gk' \in [Threads -> KeyIds \cup {None}]
            /\ \A u \in Threads \ {t} : gk'[u] = gk[u]
            /\ UNCHANGED <<loaded, tries, upgraded, kmBlob>>
         \/ /\ pc' = [pc EXCEPT ![t] = "Attempt"]
            /\ \E b \in Versions : loaded' = [loaded EXCEPT ![t] = b]
            /\ UNCHANGED <<gk, tries, upgraded, kmBlob>>
  PROVE  GuardInv'
<1>1. gk[t] = None /\ tries[t] = 1
  BY DEF GuardInv, ThreadGuard
<1>2. ThreadGuard(t)' /\ ~Guarded(t)'
  BY <1>1 DEF ThreadGuard, Guarded, Holds, TypeInv, ThreadsTyped
<1>3. \A u \in Threads \ {t} :
        /\ pc'[u] = pc[u] /\ gk'[u] = gk[u] /\ loaded'[u] = loaded[u]
        /\ tries'[u] = tries[u] /\ upgraded'[u] = upgraded[u]
  BY DEF TypeInv, ThreadsTyped
<1>. QED
  BY <1>2, <1>3, GuardFrame

LEMMA GuardInvStep == RInv /\ [Next]_vars => GuardInv'
<1> SUFFICES ASSUME TypeInv, DbInv, GuardInv, [Next]_vars PROVE GuardInv'
  BY DEF RInv, AliasInv
<1> USE ConstantsAssumption
<1>1. ASSUME NEW t \in Threads, generate_key(t) PROVE GuardInv'
  BY <1>1, FailGuard, StoreGuard DEF generate_key
<1>2. ASSUME NEW t \in Threads, import_key(t) PROVE GuardInv'
  BY <1>2, FailGuard, StoreGuard DEF import_key
<1>3. ASSUME NEW t \in Threads, import_wrapped_key(t) PROVE GuardInv'
  <2>1. CASE Fail(t)
    BY <2>1, FailGuard
  <2>2. CASE ~Fail(t)
    <3>1. PICK w \in UseKeys :
            /\ ResolveKeyId(t, w) # None
            /\ pc' = [pc EXCEPT ![t] = "Load"]
            /\ gk' = [gk EXCEPT ![t] = ResolveKeyId(t, w)]
            /\ UNCHANGED <<loaded, tries, upgraded, db_vars>>
      BY <1>3, <2>2 DEF import_wrapped_key
    <3>2. ResolveKeyId(t, w) \in KeyIds \cup {None}
      BY ResolveKeyIdType DEF TypeInv
    <3>. QED
      BY <1>3, <3>1, <3>2, StartGuard DEF import_wrapped_key, db_vars, TypeInv, ThreadsTyped
  <2>. QED
    BY <2>1, <2>2
<1>4. ASSUME NEW t \in Threads, create_operation(t) PROVE GuardInv'
  <2>1. CASE Fail(t)
    BY <2>1, FailGuard
  <2>2. CASE ~Fail(t)
    <3>1. PICK d \in UseKeys, purpose \in BOOLEAN :
            \/ /\ d.domain = "BLOB"
               /\ d.blob # None
               /\ pc' = [pc EXCEPT ![t] = "Attempt"]
               /\ loaded' = [loaded EXCEPT ![t] = d.blob]
               /\ UNCHANGED <<gk, tries, upgraded, db_vars>>
            \/ /\ ResolveKeyId(t, d) # None
               /\ pc' = [pc EXCEPT ![t] = "Load"]
               /\ gk' = [gk EXCEPT ![t] = ResolveKeyId(t, d)]
               /\ UNCHANGED <<loaded, tries, upgraded, db_vars>>
      BY <1>4, <2>2 DEF create_operation
    <3>2. d.blob \in Versions \cup {None}
      BY UseKeysBlob
    <3>3. ResolveKeyId(t, d) \in KeyIds \cup {None}
      BY ResolveKeyIdType DEF TypeInv
    <3>. QED
      BY <1>4, <3>1, <3>2, <3>3, StartGuard DEF create_operation, db_vars, TypeInv, ThreadsTyped
  <2>. QED
    BY <2>1, <2>2
<1>5. ASSUME NEW t \in Threads, LoadKeyEntry(t) PROVE GuardInv'
  <2>1. CASE Fail(t)
    BY <2>1, FailGuard
  <2>2. CASE ~Fail(t)
    <3>1. /\ pc[t] = "Load"
          /\ ~KeyIdGuardHeld(gk[t])
          /\ kmBlob[gk[t]] # None
          /\ pc' = [pc EXCEPT ![t] = "Attempt"]
          /\ loaded' = [loaded EXCEPT ![t] = kmBlob[gk[t]]]
          /\ UNCHANGED <<gk, tries, upgraded, db_vars>>
      BY <1>5, <2>2 DEF LoadKeyEntry
    <3>2. gk[t] \in KeyIds /\ tries[t] = 1
      BY <3>1 DEF TypeInv, ThreadsTyped, ThreadShape, GuardInv, ThreadGuard
    <3>3. ThreadGuard(t)'
      BY <3>1, <3>2 DEF ThreadGuard, Holds, TypeInv, ThreadsTyped, SharedTyped, db_vars
    <3>4. \A u \in Threads \ {t} : Guarded(u) => gk[u] # gk'[t]
      BY <3>1 DEF KeyIdGuardHeld, Guarded, Holds
    <3>5. \A u \in Threads \ {t} :
            /\ pc'[u] = pc[u] /\ gk'[u] = gk[u] /\ loaded'[u] = loaded[u]
            /\ tries'[u] = tries[u] /\ upgraded'[u] = upgraded[u]
      BY <3>1 DEF TypeInv, ThreadsTyped
    <3>. QED
      BY <3>1, <3>3, <3>4, <3>5, GuardFrame DEF db_vars
  <2>. QED
    BY <2>1, <2>2
<1>6. ASSUME NEW t \in Threads, BeginAttempt(t) PROVE GuardInv'
  <2>0. pc[t] = "Attempt" /\ loaded[t] \in Versions
    BY <1>6 DEF BeginAttempt, GuardInv, ThreadGuard
  <2>1. CASE AttemptFailed(t, Error)
    BY <2>0, <2>1, AttemptFailedGuard DEF Error, KeyRequiresUpgrade
  <2>2. CASE BeginBlob(t) < CurVer /\ AttemptFailed(t, KeyRequiresUpgrade)
    <3>1. tries[t] = 1 => loaded[t] < CurVer
      BY <2>2 DEF BeginBlob
    <3>. QED
      BY <2>0, <2>2, <3>1, AttemptFailedGuard
  <2>3. CASE /\ pc' = [pc EXCEPT ![t] = "Prune"]
             /\ UNCHANGED <<gk, loaded, tries, upgraded, db_vars>>
    BY <2>0, <2>3, MoveGuard DEF db_vars
  <2>4. CASE \E s \in Slots :
               /\ pc' = [pc EXCEPT ![t] = "Register"]
               /\ gk' = [gk EXCEPT ![t] = None]
               /\ UNCHANGED <<loaded, tries, upgraded, db_vars>>
    <3>1. ThreadGuard(t)' /\ ~Guarded(t)'
      BY <2>4 DEF GuardInv, ThreadGuard, Guarded, Holds, TypeInv, ThreadsTyped
    <3>2. \A u \in Threads \ {t} :
            /\ pc'[u] = pc[u] /\ gk'[u] = gk[u] /\ loaded'[u] = loaded[u]
            /\ tries'[u] = tries[u] /\ upgraded'[u] = upgraded[u]
      BY <2>4 DEF TypeInv, ThreadsTyped
    <3>. QED
      BY <2>4, <3>1, <3>2, GuardFrame DEF db_vars
  <2>. QED
    BY <1>6, <2>1, <2>2, <2>3, <2>4 DEF BeginAttempt
<1>7. ASSUME NEW t \in Threads, Prune(t) PROVE GuardInv'
  <2>1. CASE AttemptFailed(t, Error)
    BY <1>7, <2>1, AttemptFailedGuard DEF Prune, Error, KeyRequiresUpgrade
  <2>2. CASE /\ pc' = [pc EXCEPT ![t] = "Attempt"]
             /\ UNCHANGED <<gk, loaded, tries, upgraded, db_vars>>
    BY <1>7, <2>2, MoveGuard DEF Prune, db_vars
  <2>. QED
    BY <1>7, <2>1, <2>2 DEF Prune
<1>8. ASSUME NEW t \in Threads, ImportWrappedAttempt(t) PROVE GuardInv'
  <2>0. pc[t] = "Attempt"
    BY <1>8 DEF ImportWrappedAttempt
  <2>1. CASE AttemptFailed(t, Error)
    BY <2>0, <2>1, AttemptFailedGuard DEF Error, KeyRequiresUpgrade
  <2>2. CASE ImportWrappedBlob(t) < CurVer /\ AttemptFailed(t, KeyRequiresUpgrade)
    BY <2>0, <2>2, AttemptFailedGuard DEF ImportWrappedBlob
  <2>3. CASE store_new_key(t, req[t].key, CurVer)
    BY <2>3, StoreGuard
  <2>. QED
    BY <1>8, <2>1, <2>2, <2>3 DEF ImportWrappedAttempt
<1>9. ASSUME NEW t \in Threads, Upgrade(t) PROVE GuardInv'
  <2>1. CASE Fail(t)
    BY <2>1, FailGuard
  <2>2. CASE ~Fail(t)
    <3>1. /\ pc[t] = "Upgrade"
          /\ pc' = [pc EXCEPT ![t] = "Attempt"]
          /\ tries' = [tries EXCEPT ![t] = @ + 1]
          /\ upgraded' = [upgraded EXCEPT ![t] = CurVer]
          /\ kmBlob' = IF gk[t] = None THEN kmBlob ELSE [kmBlob EXCEPT ![gk[t]] = CurVer]
          /\ UNCHANGED <<gk, loaded>>
      BY <1>9, <2>2 DEF Upgrade
    <3>2. tries[t] = 1 /\ loaded[t] \in Versions
      BY <3>1 DEF TypeInv, ThreadsTyped, ThreadShape, GuardInv, ThreadGuard
    <3>3. ThreadGuard(t)'
      BY <3>1, <3>2 DEF ThreadGuard, Holds, TypeInv, ThreadsTyped, SharedTyped
    <3>4. ~Guarded(t)'
      BY <3>1, <3>2 DEF Guarded, TypeInv, ThreadsTyped
    <3>5. ASSUME NEW u \in Threads \ {t}, Holds(u)
          PROVE  kmBlob'[gk[u]] = kmBlob[gk[u]]
      <4>1. CASE gk[u] # gk[t]
        BY <3>1, <4>1 DEF TypeInv, SharedTyped, ThreadsTyped
      <4>2. CASE gk[u] = gk[t]
        <5>1. Guarded(t)
          BY <3>1, <3>2, <3>5, <4>2 DEF Guarded, Holds
        <5>2. ~Guarded(u)
          BY <5>1, <4>2 DEF GuardInv, GuardsExclusive
        <5>3. tries[u] = 2
          BY <3>5, <5>2 DEF Guarded, TypeInv, ThreadsTyped, ThreadShape
        <5>4. kmBlob[gk[u]] = CurVer
          BY <3>5, <5>3 DEF GuardInv, ThreadGuard
        <5>. QED
          BY <3>1, <3>5, <4>2, <5>4 DEF TypeInv, SharedTyped, ThreadsTyped, Holds
      <4>. QED
        BY <4>1, <4>2
    <3>6. \A u \in Threads \ {t} :
            /\ pc'[u] = pc[u] /\ gk'[u] = gk[u] /\ loaded'[u] = loaded[u]
            /\ tries'[u] = tries[u] /\ upgraded'[u] = upgraded[u]
      BY <3>1 DEF TypeInv, ThreadsTyped
    <3>. QED
      BY <3>1, <3>3, <3>4, <3>5, <3>6, GuardFrame
  <2>. QED
    BY <2>1, <2>2
<1>10. ASSUME NEW t \in Threads, Register(t) PROVE GuardInv'
  BY <1>10, ReturnGuard DEF Register, db_vars
<1>11. ASSUME NEW s \in Slots, CloseOperation(s) PROVE GuardInv'
  BY <1>11 DEF CloseOperation, thread_vars, db_vars, GuardInv, ThreadGuard, GuardsExclusive, Guarded, Holds
<1>12. CASE UNCHANGED vars
  BY <1>12 DEF vars, thread_vars, db_vars, GuardInv, ThreadGuard, GuardsExclusive, Guarded, Holds
<1>. QED
  BY <1>1, <1>2, <1>3, <1>4, <1>5, <1>6, <1>7, <1>8, <1>9, <1>10, <1>11, <1>12 DEF Next

LEMMA RInvInvariant == Spec => []RInv
<1>1. Init => RInv
  BY TypeInvInit, DbInvInit, GuardInvInit DEF RInv, AliasInv
<1>2. RInv /\ [Next]_vars => RInv'
  BY TypeInvStep, DbInvStep, GuardInvStep DEF RInv, AliasInv
<1>. QED
  BY <1>1, <1>2, PTL DEF Spec

(* No lost upgrade, in every reachable state and for every value of the    *)
(* constants: while createOperation or importWrappedKey holds a key's      *)
(* KeyIdGuard, the stored blob of the key is the blob the request works    *)
(* from, so the upgraded blob upgrade_keyblob_if_required_with writes      *)
(* replaces the very blob it was made from.                                *)
THEOREM UpgradeUnderGuard == Spec => []UpgradeAgainstCurrentBlob
<1>1. RInv => UpgradeAgainstCurrentBlob
  BY DEF RInv, GuardInv, ThreadGuard, Holds, UpgradeAgainstCurrentBlob
<1>. QED
  BY <1>1, RInvInvariant, PTL

=============================================================================
