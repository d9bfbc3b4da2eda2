---------------------------- MODULE ResourceLock ----------------------------
(***************************************************************************)
(* What the lock manager promises its sessions, without keys, waiting or   *)
(* threads: each resource carries a reentrant lock that one session holds  *)
(* exclusively or several sessions share, and every session has a nesting  *)
(* depth of its own.  LockManager is shown to implement this.              *)
(***************************************************************************)
EXTENDS Naturals

CONSTANTS Sessions, Resources

VARIABLES
    mode,     \* mode[r][s]  : how s holds r
    depth     \* depth[r][s] : how many levels of it

vars == <<mode, depth>>

Init ==
    /\ mode  = [r \in Resources |-> [s \in Sessions |-> "none"]]
    /\ depth = [r \in Resources |-> [s \in Sessions |-> 0]]

Compatible(s, r, m) ==
    /\ mode[r][s] \in {"none", m}
    /\ \A o \in Sessions \ {s} :
          mode[r][o] = "none" \/ (m = "shared" /\ mode[r][o] = "shared")

Lock(s, r, m) ==
    /\ Compatible(s, r, m)
    /\ mode'  = [mode EXCEPT ![r][s] = m]
    /\ depth' = [depth EXCEPT ![r][s] = @ + 1]

Unlock(s, r) ==
    /\ mode[r][s] # "none"
    /\ depth' = [depth EXCEPT ![r][s] = @ - 1]
    /\ mode'  = [mode EXCEPT ![r][s] = IF depth[r][s] = 1 THEN "none" ELSE @]

UnlockAll(s, r) ==
    /\ mode[r][s] # "none"
    /\ depth' = [depth EXCEPT ![r][s] = 0]
    /\ mode'  = [mode EXCEPT ![r][s] = "none"]

Next ==
    \E s \in Sessions, r \in Resources :
        \/ \E m \in {"exclusive", "shared"} : Lock(s, r, m)
        \/ Unlock(s, r)
        \/ UnlockAll(s, r)

Spec == Init /\ [][Next]_vars
=============================================================================
