---------------------- MODULE KeystoreOperationProofs ----------------------
(***************************************************************************)
(* Proofs, for every value of the constants, about the KeyMint operation  *)
(* slots of createOperation (SlotAccounting) and about the results the    *)
(* upgrade-retry protocol lets reach a caller (NeverKeyRequiresUpgrade).  *)
(***************************************************************************)
EXTENDS KeystoreSecurityLevelProofs

(* The inductive invariant behind SlotAccounting: the accounting itself   *)
(* is inductive once the types are known (a thread in Register holds a    *)
(* slot, and no uid is None).                                             *)
SlotInv == TypeInv /\ SlotAccounting

(* The upgrade-retry protocol, per thread: a second try always runs on    *)
(* the blob upgradeKey returned, which is of the current version; without *)
(* importWrappedKey requests no thread runs that closure; and the thread  *)
(* has not returned KEY_REQUIRES_UPGRADE.                                 *)
RetryShape(t) ==
  /\ tries[t] = 2 => upgraded[t] = CurVer
  /\ kind[t] # "importWrappedKey"
  /\ res[t] # KeyRequiresUpgrade

(* The inductive invariant behind NeverKeyRequiresUpgrade.                *)
RetryInv == TypeInv /\ \A t \in Threads : RetryShape(t)
-----------------------------------------------------------------------------
(* Lemmas about the helpers.                                              *)

(* store_new_key ends the request, and leaves the operation slots alone.  *)
LEMMA StoreNewKeyReturns ==
  ASSUME NEW t \in Threads, NEW d, NEW blob, store_new_key(t, d, blob)
  PROVE  /\ UNCHANGED op_vars
         /\ \E r \in {Ok, Error} : Return(t, r)
<1>1. UNCHANGED op_vars
  BY DEF store_new_key
<1>2. \E r \in {Ok, Error} : Return(t, r)
  <2>1. CASE d.domain = "BLOB"
    BY <2>1 DEF store_new_key
  <2>2. CASE d.domain # "BLOB" /\ Fail(t)
    BY <2>2 DEF Fail
  <2>3. CASE d.domain # "BLOB" /\ ~Fail(t)
    <3>1. PICK j \in 2..7 : Return(t, IF j = 7 THEN Ok ELSE Error)
      BY <2>3 DEF store_new_key
    <3>2. (IF j = 7 THEN Ok ELSE Error) \in {Ok, Error}
      OBVIOUS
    <3>. QED
      BY <3>1, <3>2
  <2>. QED
    BY <2>1, <2>2, <2>3
<1>. QED
  BY <1>1, <1>2

(* A step of one thread t that is not about to register before or after   *)
(* the step, and that leaves the slots, OperationDb and every other       *)
(* thread alone, keeps the slot accounting.                               *)
LEMMA SlotFrame ==
  ASSUME SlotAccounting, NEW t \in Threads,
         pc[t] # "Register", pc'[t] # "Register",
         \A u \in Threads \ {t} : pc'[u] = pc[u] /\ op'[u] = op[u],
         UNCHANGED op_vars
  PROVE  SlotAccounting'
  BY DEF SlotAccounting, op_vars

(* A request that returns from anywhere but Register keeps it.            *)
LEMMA ReturnSlots ==
  ASSUME TypeInv, SlotAccounting, NEW t \in Threads, NEW r,
         pc[t] # "Register", Return(t, r), UNCHANGED op_vars
  PROVE  SlotAccounting'
  BY SlotFrame DEF Return, TypeInv, ThreadsTyped

(* So does the failure of a step of the upgrade-retry protocol.           *)
LEMMA AttemptFailedSlots ==
  ASSUME TypeInv, SlotAccounting, NEW t \in Threads, NEW e,
         pc[t] \in {"Attempt", "Prune"}, AttemptFailed(t, e)
  PROVE  SlotAccounting'
<1>1. CASE e = KeyRequiresUpgrade /\ tries[t] = 1
  BY <1>1, SlotFrame DEF AttemptFailed, TypeInv, ThreadsTyped
<1>2. CASE ~(e = KeyRequiresUpgrade /\ tries[t] = 1)
  BY <1>2, ReturnSlots DEF AttemptFailed
<1>. QED
  BY <1>1, <1>2

-----------------------------------------------------------------------------
(* Operation slots.                                                       *)

LEMMA SlotInvInit == Init => SlotAccounting
  BY DEF Init, SlotAccounting

(* begin takes a free slot: the slot was neither registered nor held, so  *)
(* the thread now holds it alone.                                         *)
LEMMA BeginTakesSlot ==
  ASSUME ConstantsAssumption, TypeInv, SlotAccounting, NEW t \in Threads, NEW s \in Slots,
         pc[t] = "Attempt", slot[s] = None,
         slot' = [slot EXCEPT ![s] = Uid[t]],
         op' = [op EXCEPT ![t] = s],
         pc' = [pc EXCEPT ![t] = "Register"],
         UNCHANGED registered
  PROVE  SlotAccounting'
<1>1. s \notin registered /\ \A u \in Threads : pc[u] = "Register" => op[u] # s
  BY DEF SlotAccounting
<1>2. Uid[t] # None
  BY ConstantsAssumption
<1>3. ASSUME NEW x \in Slots
      PROVE  slot'[x] # None <=> (x \in registered' \/ \E u \in Threads : pc'[u] = "Register" /\ op'[u] = x)
  <2>1. CASE x = s
    BY <1>1, <1>2, <2>1 DEF TypeInv, ThreadsTyped, SharedTyped
  <2>2. CASE x # s
    <3>1. \A u \in Threads : (pc'[u] = "Register" /\ op'[u] = x) <=> (pc[u] = "Register" /\ op[u] = x)
      BY <2>2 DEF TypeInv, ThreadsTyped
    <3>. QED
      BY <2>2, <3>1 DEF SlotAccounting, TypeInv, SharedTyped
  <2>. QED
    BY <2>1, <2>2
<1>4. ASSUME NEW u \in Threads, pc'[u] = "Register"
      PROVE  /\ op'[u] \notin registered'
             /\ slot'[op'[u]] = Uid[u]
             /\ \A v \in Threads \ {u} : pc'[v] = "Register" => op'[v] # op'[u]
  <2>1. CASE u = t
    BY <1>1, <2>1 DEF TypeInv, ThreadsTyped, SharedTyped
  <2>2. CASE u # t
    <3>1. pc[u] = "Register" /\ op'[u] = op[u] /\ op[u] \in Slots
      BY <1>4, <2>2 DEF TypeInv, ThreadsTyped, ThreadShape
    <3>2. op[u] # s
      BY <1>1, <3>1
    <3>. QED
      BY <3>1, <3>2, <2>2 DEF SlotAccounting, TypeInv, ThreadsTyped, SharedTyped
  <2>. QED
    BY <2>1, <2>2
<1>. QED
  BY <1>3, <1>4 DEF SlotAccounting

(* Register moves the held slot into OperationDb.                         *)
LEMMA RegisterSlots ==
  ASSUME TypeInv, SlotAccounting, NEW t \in Threads, Register(t)
  PROVE  SlotAccounting'
<1>1. /\ pc[t] = "Register"
      /\ registered' = registered \cup {op[t]}
      /\ pc' = [pc EXCEPT ![t] = "Idle"]
      /\ op' = [op EXCEPT ![t] = None]
      /\ UNCHANGED slot
  BY DEF Register, Return
<1>2. \A u \in Threads \ {t} : pc[u] = "Register" => op[u] # op[t]
  BY <1>1 DEF SlotAccounting
<1>3. ASSUME NEW x \in Slots
      PROVE  slot'[x] # None <=> (x \in registered' \/ \E u \in Threads : pc'[u] = "Register" /\ op'[u] = x)
  BY <1>1 DEF SlotAccounting, TypeInv, ThreadsTyped
<1>4. ASSUME NEW u \in Threads, pc'[u] = "Register"
      PROVE  /\ op'[u] \notin registered'
             /\ slot'[op'[u]] = Uid[u]
             /\ \A v \in Threads \ {u} : pc'[v] = "Register" => op'[v] # op'[u]
  <2>1. u # t /\ pc[u] = "Register" /\ op'[u] = op[u]
    BY <1>1, <1>4 DEF TypeInv, ThreadsTyped
  <2>. QED
    BY <1>1, <1>2, <2>1 DEF SlotAccounting, TypeInv, ThreadsTyped
<1>. QED
  BY <1>3, <1>4 DEF SlotAccounting

(* Removing registered slots from OperationDb and freeing them in KeyMint *)
(* (prune, or a client's close) keeps the accounting: a registered slot   *)
(* is held by no thread about to register.                                *)
LEMMA ReleaseSlots ==
  ASSUME TypeInv, SlotAccounting, NEW R \in SUBSET registered,
         registered' = registered \ R,
         slot' = [x \in Slots |-> IF x \in R THEN None ELSE slot[x]],
         \A u \in Threads : pc'[u] = "Register" <=> pc[u] = "Register",
         \A u \in Threads : pc[u] = "Register" => op'[u] = op[u]
  PROVE  SlotAccounting'
<1>1. \A u \in Threads : pc[u] = "Register" => op[u] \notin R
  BY DEF SlotAccounting
<1>2. ASSUME NEW x \in Slots
      PROVE  slot'[x] # None <=> (x \in registered' \/ \E u \in Threads : pc'[u] = "Register" /\ op'[u] = x)
  <2>1. CASE x \in R
    BY <1>1, <2>1 DEF SlotAccounting
  <2>2. CASE x \notin R
    BY <2>2 DEF SlotAccounting
  <2>. QED
    BY <2>1, <2>2
<1>3. ASSUME NEW u \in Threads, pc'[u] = "Register"
      PROVE  /\ op'[u] \notin registered'
             /\ slot'[op'[u]] = Uid[u]
             /\ \A v \in Threads \ {u} : pc'[v] = "Register" => op'[v] # op'[u]
  <2>1. pc[u] = "Register" /\ op'[u] = op[u] /\ op[u] \in Slots /\ op[u] \notin R
    BY <1>1, <1>3 DEF TypeInv, ThreadsTyped, ThreadShape
  <2>. QED
    BY <2>1, <1>3 DEF SlotAccounting
<1>. QED
  BY <1>2, <1>3 DEF SlotAccounting

LEMMA SlotInvStep == TypeInv /\ SlotAccounting /\ [Next]_vars => SlotAccounting'
<1> SUFFICES ASSUME TypeInv, SlotAccounting, [Next]_vars PROVE SlotAccounting'
  OBVIOUS
<1> USE ConstantsAssumption
<1>1. ASSUME NEW t \in Threads, Fail(t), pc[t] # "Register" PROVE SlotAccounting'
  BY <1>1, ReturnSlots DEF Fail
<1>2. ASSUME NEW t \in Threads, NEW d, NEW b, store_new_key(t, d, b), pc[t] # "Register"
      PROVE SlotAccounting'
  BY <1>2, StoreNewKeyReturns, ReturnSlots
<1>3. ASSUME NEW t \in Threads, generate_key(t) PROVE SlotAccounting'
  BY <1>3, <1>1, <1>2 DEF generate_key
<1>4. ASSUME NEW t \in Threads, import_key(t) PROVE SlotAccounting'
  BY <1>4, <1>1, <1>2 DEF import_key
<1>5. ASSUME NEW t \in Threads, import_wrapped_key(t) PROVE SlotAccounting'
  <2>1. CASE Fail(t)
    BY <1>5, <2>1, <1>1 DEF import_wrapped_key
  <2>2. CASE ~Fail(t)
    BY <1>5, <2>2, SlotFrame DEF import_wrapped_key, TypeInv, ThreadsTyped
  <2>. QED
    BY <2>1, <2>2
<1>6. ASSUME NEW t \in Threads, create_operation(t) PROVE SlotAccounting'
  <2>1. CASE Fail(t)
    BY <1>6, <2>1, <1>1 DEF create_operation
  <2>2. CASE ~Fail(t)
    BY <1>6, <2>2, SlotFrame DEF create_operation, TypeInv, ThreadsTyped
  <2>. QED
    BY <2>1, <2>2
<1>7. ASSUME NEW t \in Threads, LoadKeyEntry(t) PROVE SlotAccounting'
  <2>1. CASE Fail(t)
    BY <1>7, <2>1, <1>1 DEF LoadKeyEntry
  <2>2. CASE ~Fail(t)
    BY <1>7, <2>2, SlotFrame DEF LoadKeyEntry, TypeInv, ThreadsTyped
  <2>. QED
    BY <2>1, <2>2
<1>8. ASSUME NEW t \in Threads, BeginAttempt(t) PROVE SlotAccounting'
  <2>1. pc[t] = "Attempt"
    BY <1>8 DEF BeginAttempt
  <2>2. CASE AttemptFailed(t, Error) \/ AttemptFailed(t, KeyRequiresUpgrade)
    BY <2>1, <2>2, AttemptFailedSlots
  <2>3. CASE /\ pc' = [pc EXCEPT ![t] = "Prune"]
             /\ UNCHANGED <<kind, req, gk, loaded, tries, upgraded, op, res, db_vars, op_vars>>
    BY <2>1, <2>3, SlotFrame DEF TypeInv, ThreadsTyped
  <2>4. CASE \E s \in Slots :
               /\ slot[s] = None
               /\ slot' = [slot EXCEPT ![s] = Uid[t]]
               /\ op' = [op EXCEPT ![t] = s]
               /\ pc' = [pc EXCEPT ![t] = "Register"]
               /\ UNCHANGED registered
    BY <2>1, <2>4, BeginTakesSlot
  <2>. QED
    BY <1>8, <2>2, <2>3, <2>4 DEF BeginAttempt
<1>9. ASSUME NEW t \in Threads, Prune(t) PROVE SlotAccounting'
  <2>1. pc[t] = "Prune"
    BY <1>9 DEF Prune
  <2>2. CASE AttemptFailed(t, Error)
    BY <2>1, <2>2, AttemptFailedSlots
  <2>3. CASE ~AttemptFailed(t, Error)
    <3> DEFINE mine == {s \in registered : slot[s] = Uid[t]}
    <3>1. /\ registered' = registered \ mine
          /\ slot' = [s \in Slots |-> IF s \in mine THEN None ELSE slot[s]]
          /\ pc' = [pc EXCEPT ![t] = "Attempt"]
          /\ UNCHANGED op
      BY <1>9, <2>3 DEF Prune
    <3>2. mine \in SUBSET registered
      OBVIOUS
    <3>. QED
      BY <2>1, <3>1, <3>2, ReleaseSlots DEF TypeInv, ThreadsTyped
  <2>. QED
    BY <2>2, <2>3
<1>10. ASSUME NEW t \in Threads, ImportWrappedAttempt(t) PROVE SlotAccounting'
  <2>1. pc[t] = "Attempt"
    BY <1>10 DEF ImportWrappedAttempt
  <2>2. CASE AttemptFailed(t, Error) \/ AttemptFailed(t, KeyRequiresUpgrade)
    BY <2>1, <2>2, AttemptFailedSlots
  <2>3. CASE store_new_key(t, req[t].key, CurVer)
    BY <2>1, <2>3, <1>2
  <2>. QED
    BY <1>10, <2>2, <2>3 DEF ImportWrappedAttempt
<1>11. ASSUME NEW t \in Threads, Upgrade(t) PROVE SlotAccounting'
  <2>1. CASE Fail(t)
    BY <1>11, <2>1, <1>1 DEF Upgrade
  <2>2. CASE ~Fail(t)
    BY <1>11, <2>2, SlotFrame DEF Upgrade, TypeInv, ThreadsTyped
  <2>. QED
    BY <2>1, <2>2
<1>12. ASSUME NEW t \in Threads, Register(t) PROVE SlotAccounting'
  BY <1>12, RegisterSlots
<1>13. ASSUME NEW s \in Slots, CloseOperation(s) PROVE SlotAccounting'
  <2>1. /\ {s} \in SUBSET registered
        /\ registered' = registered \ {s}
        /\ slot' = [x \in Slots |-> IF x \in {s} THEN None ELSE slot[x]]
        /\ UNCHANGED <<pc, op>>
    BY <1>13 DEF CloseOperation, thread_vars, TypeInv, SharedTyped
  <2>. QED
    BY <2>1, ReleaseSlots
<1>14. CASE UNCHANGED vars
  BY <1>14 DEF vars, thread_vars, op_vars, SlotAccounting
<1>. QED
  BY <1>3, <1>4, <1>5, <1>6, <1>7, <1>8, <1>9, <1>10, <1>11, <1>12, <1>13, <1>14 DEF Next

(* Every KeyMint operation slot in use is accounted for exactly once, by  *)
(* OperationDb or by the one createOperation request about to register    *)
(* it, for any number of threads, uids, keys and slots: begin only takes  *)
(* a free slot, registration moves it into OperationDb, and prune and     *)
(* close only free registered slots.                                      *)
THEOREM SlotsAccounted == Spec => []SlotAccounting
<1>1. Init => SlotInv
  BY TypeInvInit, SlotInvInit DEF SlotInv
<1>2. SlotInv /\ [Next]_vars => SlotInv'
  BY TypeInvStep, SlotInvStep DEF SlotInv
<1>. QED
  BY <1>1, <1>2, PTL DEF Spec, SlotInv

-----------------------------------------------------------------------------
(* Results of the upgrade-retry protocol.                                 *)

LEMMA RetryInit == Init => \A t \in Threads : RetryShape(t)
  BY ConstantsAssumption DEF Init, RetryShape, Results, RequestKinds

(* A step that keeps RetryShape of thread t and leaves the retry state of *)
(* every other thread alone keeps it for all threads.                     *)
LEMMA RetryFrame ==
  ASSUME \A u \in Threads : RetryShape(u), NEW t \in Threads, RetryShape(t)',
         \A u \in Threads \ {t} :
           /\ kind'[u] = kind[u]
           /\ tries'[u] = tries[u] /\ upgraded'[u] = upgraded[u] /\ res'[u] = res[u]
  PROVE  \A u \in Threads : RetryShape(u)'
  BY DEF RetryShape

(* A request that returns anything but KEY_REQUIRES_UPGRADE keeps it.     *)
LEMMA ReturnRetry ==
  ASSUME TypeInv, \A u \in Threads : RetryShape(u), NEW t \in Threads,
         NEW r, r # KeyRequiresUpgrade, Return(t, r)
  PROVE  \A u \in Threads : RetryShape(u)'
<1>1. RetryShape(t)'
  BY ConstantsAssumption DEF Return, RetryShape, TypeInv, ThreadsTyped, Results, RequestKinds
<1>. QED
  BY <1>1, RetryFrame DEF Return, TypeInv, ThreadsTyped

LEMMA FailRetry ==
  ASSUME TypeInv, \A u \in Threads : RetryShape(u), NEW t \in Threads, Fail(t)
  PROVE  \A u \in Threads : RetryShape(u)'
  BY ReturnRetry DEF Fail, Error, KeyRequiresUpgrade

(* A failed try of a running request keeps it, unless the protocol would  *)
(* hand KEY_REQUIRES_UPGRADE back on the second try.                      *)
LEMMA AttemptFailedRetry ==
  ASSUME TypeInv, \A u \in Threads : RetryShape(u), NEW t \in Threads, NEW e,
         pc[t] # "Idle", e # KeyRequiresUpgrade \/ tries[t] = 1, AttemptFailed(t, e)
  PROVE  \A u \in Threads : RetryShape(u)'
<1>1. CASE e = KeyRequiresUpgrade /\ tries[t] = 1
  <2>1. RetryShape(t)'
    BY <1>1 DEF AttemptFailed, RetryShape, TypeInv, ThreadsTyped
  <2>. QED
    BY <1>1, <2>1, RetryFrame DEF AttemptFailed, TypeInv, ThreadsTyped
<1>2. CASE ~(e = KeyRequiresUpgrade /\ tries[t] = 1)
  BY <1>2, ReturnRetry DEF AttemptFailed
<1>. QED
  BY <1>1, <1>2

(* A step that changes no thread's retry state keeps it.                 *)
LEMMA MoveRetry ==
  ASSUME \A u \in Threads : RetryShape(u), UNCHANGED <<kind, tries, upgraded, res>>
  PROVE  \A u \in Threads : RetryShape(u)'
  BY DEF RetryShape

(* Without importWrappedKey requests every step keeps RetryShape.         *)
LEMMA RetryStep ==
  ASSUME "importWrappedKey" \notin Requests, RetryInv, [Next]_vars
  PROVE  \A u \in Threads : RetryShape(u)'
<1> DEFINE Inv == \A u \in Threads : RetryShape(u)
<1> USE ConstantsAssumption
<1>14. TypeInv /\ Inv
  BY DEF RetryInv
<1>1. ASSUME NEW t \in Threads, NEW d, NEW b, store_new_key(t, d, b) PROVE Inv'
  <2>1. PICK r \in {Ok, Error} : Return(t, r)
    BY <1>1, StoreNewKeyReturns
  <2>. QED
    BY <1>14, <2>1, ReturnRetry DEF Ok, Error, KeyRequiresUpgrade
<1>2. ASSUME NEW t \in Threads, generate_key(t) PROVE Inv'
  BY <1>14, <1>2, <1>1, FailRetry DEF generate_key
<1>3. ASSUME NEW t \in Threads, import_key(t) PROVE Inv'
  BY <1>14, <1>3, <1>1, FailRetry DEF import_key
<1>4. ASSUME NEW t \in Threads, import_wrapped_key(t) PROVE Inv'
  BY <1>4 DEF import_wrapped_key
<1>5. ASSUME NEW t \in Threads, create_operation(t) PROVE Inv'
  <2>1. CASE Fail(t)
    BY <1>14, <2>1, FailRetry
  <2>2. CASE ~Fail(t)
    <3>1. /\ kind' = [kind EXCEPT ![t] = "createOperation"]
          /\ UNCHANGED <<tries, upgraded, res>>
      BY <1>5, <2>2 DEF create_operation
    <3>2. RetryShape(t)'
      BY <1>14, <3>1 DEF RetryShape, TypeInv, ThreadsTyped
    <3>. QED
      BY <1>14, <3>1, <3>2, RetryFrame DEF TypeInv, ThreadsTyped
  <2>. QED
    BY <2>1, <2>2
<1>6. ASSUME NEW t \in Threads, LoadKeyEntry(t) PROVE Inv'
  BY <1>14, <1>6, FailRetry, MoveRetry DEF LoadKeyEntry
<1>7. ASSUME NEW t \in Threads, BeginAttempt(t) PROVE Inv'
  <2>1. pc[t] = "Attempt"
    BY <1>7 DEF BeginAttempt
  <2>2. CASE AttemptFailed(t, Error)
    BY <1>14, <2>1, <2>2, AttemptFailedRetry DEF Error, KeyRequiresUpgrade
  <2>3. CASE BeginBlob(t) < CurVer /\ AttemptFailed(t, KeyRequiresUpgrade)
    <3>1. tries[t] = 1
      <4>1. tries[t] = 2 => BeginBlob(t) = CurVer
        BY <1>14 DEF BeginBlob, RetryShape
      <4>. QED
        BY <2>3, <4>1, <1>14 DEF TypeInv, ThreadsTyped
    <3>. QED
      BY <1>14, <2>1, <2>3, <3>1, AttemptFailedRetry
  <2>4. CASE UNCHANGED <<kind, tries, upgraded, res>>
    BY <1>14, <2>4, MoveRetry
  <2>. QED
    BY <1>7, <2>2, <2>3, <2>4 DEF BeginAttempt
<1>8. ASSUME NEW t \in Threads, Prune(t) PROVE Inv'
  <2>1. pc[t] = "Prune"
    BY <1>8 DEF Prune
  <2>2. CASE AttemptFailed(t, Error)
    BY <1>14, <2>1, <2>2, AttemptFailedRetry DEF Error, KeyRequiresUpgrade
  <2>3. CASE ~AttemptFailed(t, Error)
    BY <1>14, <1>8, <2>3, MoveRetry DEF Prune
  <2>. QED
    BY <2>2, <2>3
<1>9. ASSUME NEW t \in Threads, ImportWrappedAttempt(t) PROVE Inv'
  BY <1>14, <1>9 DEF ImportWrappedAttempt, RetryShape
<1>10. ASSUME NEW t \in Threads, Upgrade(t) PROVE Inv'
  <2>1. CASE Fail(t)
    BY <1>14, <2>1, FailRetry
  <2>2. CASE ~Fail(t)
    <3>1. /\ pc[t] = "Upgrade"
          /\ tries' = [tries EXCEPT ![t] = @ + 1]
          /\ upgraded' = [upgraded EXCEPT ![t] = CurVer]
          /\ UNCHANGED <<kind, res>>
      BY <1>10, <2>2 DEF Upgrade
    <3>2. RetryShape(t)'
      BY <1>14, <3>1 DEF RetryShape, TypeInv, ThreadsTyped, ThreadShape
    <3>. QED
      BY <1>14, <3>1, <3>2, RetryFrame DEF TypeInv, ThreadsTyped
  <2>. QED
    BY <2>1, <2>2
<1>11. ASSUME NEW t \in Threads, Register(t) PROVE Inv'
  <2>1. PICK r \in {Ok, Error} : Return(t, r)
    BY <1>11 DEF Register
  <2>. QED
    BY <1>14, <2>1, ReturnRetry DEF Ok, Error, KeyRequiresUpgrade
<1>12. ASSUME NEW s \in Slots, CloseOperation(s) PROVE Inv'
  BY <1>14, <1>12, MoveRetry DEF CloseOperation, thread_vars
<1>13. CASE UNCHANGED vars
  BY <1>14, <1>13, MoveRetry DEF vars, thread_vars
<1>. QED
  BY <1>2, <1>3, <1>4, <1>5, <1>6, <1>7, <1>8, <1>9, <1>10, <1>11, <1>12, <1>13 DEF Next

(* Spec 4.1 and 4.3, for the requests that work from a stored key blob    *)
(* through the upgrade-retry protocol with their argument (createOperation *)
(* and key creation): no request ever returns KEY_REQUIRES_UPGRADE, for    *)
(* any number of threads, keys, versions and slots.  importWrappedKey is   *)
(* left out because its closure ignores the upgraded blob (run            *)
(* wrapped_retry_stale shows it returning KEY_REQUIRES_UPGRADE).          *)
THEOREM UpgradeHidesStaleBlobs ==
  ASSUME "importWrappedKey" \notin Requests
  PROVE  Spec => []NeverKeyRequiresUpgrade
<1>1. Init => RetryInv
  BY TypeInvInit, RetryInit DEF RetryInv
<1>2. RetryInv /\ [Next]_vars => RetryInv'
  BY TypeInvStep, RetryStep DEF RetryInv
<1>3. RetryInv => NeverKeyRequiresUpgrade
  BY DEF RetryInv, RetryShape, NeverKeyRequiresUpgrade
<1>. QED
  BY <1>1, <1>2, <1>3, PTL DEF Spec
=============================================================================
