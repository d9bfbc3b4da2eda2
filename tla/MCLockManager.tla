--------------------------- MODULE MCLockManager ---------------------------
(***************************************************************************)
(* Small instance of LockManager: two sessions on one resource and one on  *)
(* another.                                                                *)
(***************************************************************************)
EXTENDS LockManager, TLC

CONSTANTS s1, s2, s3, r1, r2

MCResourceOf == s1 :> r1 @@ s2 :> r1 @@ s3 :> r2
=============================================================================
