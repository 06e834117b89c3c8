----------------------- MODULE MC_KeystoreSecurityLevel -----------------------
(* Model-checking instance: two binder threads of two different callers,  *)
(* two key ids, one alias, blob versions 1 (old) and 2 (current), and one *)
(* KeyMint operation slot, so that one caller's live operation makes the  *)
(* other's begin answer TOO_MANY_OPERATIONS.                              *)
EXTENDS KeystoreSecurityLevel, TLC

CONSTANTS t1, t2, u1, u2, k1, k2, a1

MC_Threads == {t1, t2}
MC_Uids == {u1, u2}
MC_Uid == [t \in MC_Threads |-> IF t = t1 THEN u1 ELSE u2]
MC_KeyIds == {k1, k2}
MC_Aliases == {a1}

(* Every request kind, and every kind but importWrappedKey.               *)
MC_AllRequests == {"generateKey", "importKey", "importWrappedKey", "createOperation"}
MC_NoWrappedImport == {"generateKey", "importKey", "createOperation"}

(* For the liveness runs: one key id, and only the requests that use an   *)
(* existing key, which are the ones that loop, retry or wait on a guard.  *)
MC_OneKey == {k1}
MC_UseRequests == {"importWrappedKey", "createOperation"}

MC_Symmetry == Permutations(MC_KeyIds)
=============================================================================
