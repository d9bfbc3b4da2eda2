-------------------------- MODULE LockStateProofs --------------------------
(***************************************************************************)
(* Facts about the operators of LockState: what a grant, a release and a   *)
(* release of all levels do to the session that asked for it, and that     *)
(* they do nothing to the others.                                          *)
(***************************************************************************)
EXTENDS LockState, TLAPS

\* The default LockState is well formed and owned by nobody.
LEMMA NoLockWellFormed ==
    /\ NoLock \in LockStates
    /\ WellFormed(NoLock)
    /\ NoLock.type = "none"
    /\ \A s \in Sessions : OwnedLockDepth(NoLock, s) = 0 /\ OwnedLockType(NoLock, s) = "none"
BY DEF NoLock, LockStates, LockTypes, WellFormed, NoKey, OwnedLockDepth, OwnedLockType,
       OwnsExclusive, OwnsShared

\* A session's depth is positive exactly when it has a lock type.
LEMMA OwnedTypeAndDepth ==
    ASSUME NEW st \in LockStates, WellFormed(st), NEW s \in Sessions
    PROVE  /\ OwnedLockDepth(st, s) \in Nat
           /\ OwnedLockType(st, s) \in {"none", "exclusive", "shared"}
           /\ OwnedLockType(st, s) = "none" <=> OwnedLockDepth(st, s) = 0
           /\ OwnedLockType(st, s) = "exclusive" <=> OwnsExclusive(st, s)
           /\ OwnedLockType(st, s) = "shared" <=> OwnsShared(st, s)
BY NoSessionAssumption
   DEF NoLock, LockStates, LockTypes, WellFormed, OwnedLockDepth, OwnedLockType,
       OwnsExclusive, OwnsShared

\* Mutual exclusion in one state: beside an exclusive owner nobody owns
\* anything.
LEMMA ExclusiveExcludes ==
    ASSUME NEW st \in LockStates, WellFormed(st), NEW s \in Sessions,
           OwnsExclusive(st, s), NEW o \in Sessions, o # s
    PROVE  OwnedLockType(st, o) = "none" /\ OwnedLockDepth(st, o) = 0
BY DEF LockStates, WellFormed, OwnedLockDepth, OwnedLockType, OwnsExclusive, OwnsShared

\* acquire's tail: the caller gains one level of the type it asked for, the
\* other sessions keep what they have.
LEMMA GrantEffect ==
    ASSUME NEW st \in LockStates, WellFormed(st), NEW s \in Sessions,
           NEW m \in LockTypes, NEW key \in Nat, NEW fresh \in Nat \ {0},
           CanGrant(st, s, m, key), NEW new, new = Grant(st, s, m, fresh)
    PROVE  /\ new \in LockStates
           /\ WellFormed(new)
           /\ OwnedLockDepth(new, s) = OwnedLockDepth(st, s) + 1
           /\ OwnedLockType(new, s) = m
           /\ \A o \in Sessions \ {s} :
                 /\ OwnedLockDepth(new, o) = OwnedLockDepth(st, o)
                 /\ OwnedLockType(new, o) = OwnedLockType(st, o)
<1>1. CASE st.type = "exclusive"
  <2>1. new = [st EXCEPT !.exclusive_depth = @ + 1]
    BY <1>1 DEF Grant
  <2>2. OwnsExclusive(st, s) /\ m = "exclusive"
    BY <1>1 DEF CanGrant
  <2>. QED
    BY <1>1, <2>1, <2>2
       DEF LockStates, LockTypes, WellFormed, NoLock, OwnedLockDepth, OwnedLockType,
           OwnsExclusive, OwnsShared
<1>2. CASE st.type = "shared"
  <2>1. new = [st EXCEPT !.shared_owners[s] = @ + 1]
    BY <1>2 DEF Grant
  <2>2. m = "shared"
    BY <1>2 DEF CanGrant, OwnsExclusive
  <2>3. new \in LockStates /\ new.type = "shared" /\ new.shared_key = st.shared_key
    BY <1>2, <2>1 DEF LockStates
  <2>4. new.shared_owners = [st.shared_owners EXCEPT ![s] = @ + 1]
    BY <2>1 DEF LockStates
  <2>. QED
    BY <1>2, <2>1, <2>2, <2>3, <2>4
       DEF LockStates, LockTypes, WellFormed, NoLock, OwnedLockDepth, OwnedLockType,
           OwnsExclusive, OwnsShared
<1>3. CASE st.type = "none" /\ m = "exclusive"
  <2>2. \A o \in Sessions : st.shared_owners[o] = 0
    BY <1>3 DEF WellFormed, NoLock
  <2>3. /\ new.type = "exclusive" /\ new.exclusive_owner = s /\ new.exclusive_depth = 1
        /\ new.shared_owners = st.shared_owners
        /\ new \in LockStates
    BY <1>3 DEF Grant, LockStates, LockTypes
  <2>. QED
    BY <1>3, <2>2, <2>3
       DEF LockStates, LockTypes, WellFormed, NoLock, OwnedLockDepth, OwnedLockType,
           OwnsExclusive, OwnsShared
<1>4. CASE st.type = "none" /\ m = "shared"
  <2>2. /\ st.exclusive_owner = NoSession
        /\ \A o \in Sessions : st.shared_owners[o] = 0
    BY <1>4 DEF WellFormed, NoLock
  <2>3. /\ new.type = "shared" /\ new.exclusive_owner = st.exclusive_owner
        /\ new.shared_key = fresh
        /\ new.shared_owners = [st.shared_owners EXCEPT ![s] = 1]
        /\ new \in LockStates
    BY <1>4 DEF Grant, LockStates, LockTypes
  <2>. QED
    BY <1>4, <2>2, <2>3
       DEF LockStates, LockTypes, WellFormed, NoLock, OwnedLockDepth, OwnedLockType,
           OwnsExclusive, OwnsShared
<1>. QED
  BY <1>1, <1>2, <1>3, <1>4 DEF LockStates, LockTypes

\* Erasing an unowned entry changes nobody's share of a lock.
LEMMA EraseEffect ==
    ASSUME NEW st \in LockStates, st.type = "shared", st.exclusive_owner = NoSession,
           st.shared_key > 0, NEW new, new = EraseIfUnowned(st)
    PROVE  /\ new \in LockStates
           /\ WellFormed(new)
           /\ new = NoLock \/ new = st
           /\ \A o \in Sessions :
                 /\ OwnedLockDepth(new, o) = st.shared_owners[o]
                 /\ OwnedLockType(new, o) =
                       IF st.shared_owners[o] > 0 THEN "shared" ELSE "none"
<1>1. CASE \E s \in Sessions : st.shared_owners[s] > 0
  <2>1. new = st
    BY <1>1 DEF EraseIfUnowned
  <2>2. WellFormed(st)
    BY <1>1 DEF WellFormed
  <2>3. ASSUME NEW o \in Sessions
        PROVE  /\ OwnedLockDepth(st, o) = st.shared_owners[o]
               /\ OwnedLockType(st, o) = IF st.shared_owners[o] > 0 THEN "shared" ELSE "none"
    <3>1. st.shared_owners[o] \in Nat /\ ~OwnsExclusive(st, o)
      BY DEF LockStates, OwnsExclusive
    <3>. QED
      BY <3>1 DEF OwnedLockDepth, OwnedLockType, OwnsShared
  <2>. QED
    BY <2>1, <2>2, <2>3
<1>2. CASE ~\E s \in Sessions : st.shared_owners[s] > 0
  <2>1. new = NoLock
    BY <1>2 DEF EraseIfUnowned
  <2>2. \A o \in Sessions : st.shared_owners[o] = 0
    BY <1>2 DEF LockStates
  <2>. QED
    BY <2>1, <2>2, NoLockWellFormed
<1>. QED
  BY <1>1, <1>2

\* release(): the owner loses one level and, with the last one, its lock type;
\* the other sessions keep what they have.  The entry is either erased or keeps
\* its type, owner and key.
LEMMA ReleaseEffect ==
    ASSUME NEW st \in LockStates, WellFormed(st), NEW s \in Sessions,
           OwnedLockDepth(st, s) > 0, NEW new, new = Release(st, s)
    PROVE  /\ new \in LockStates
           /\ WellFormed(new)
           /\ OwnedLockDepth(new, s) = OwnedLockDepth(st, s) - 1
           /\ OwnedLockType(new, s) =
                 IF OwnedLockDepth(st, s) = 1 THEN "none" ELSE OwnedLockType(st, s)
           /\ \A o \in Sessions \ {s} :
                 /\ OwnedLockDepth(new, o) = OwnedLockDepth(st, o)
                 /\ OwnedLockType(new, o) = OwnedLockType(st, o)
           /\ \/ new = NoLock
              \/ /\ new.type = st.type
                 /\ new.exclusive_owner = st.exclusive_owner
                 /\ new.shared_key = st.shared_key
<1>1. CASE OwnsExclusive(st, s)
  <2>1. st.type = "exclusive" /\ st.exclusive_owner = s
        /\ st.exclusive_depth \in Nat /\ st.exclusive_depth > 0
        /\ \A o \in Sessions : st.shared_owners[o] = 0
    BY <1>1 DEF OwnsExclusive, WellFormed, NoLock, LockStates
  <2>2. CASE st.exclusive_depth = 1
    <3>1. new = NoLock
      BY <1>1, <2>2 DEF Release, OwnsExclusive, OwnsShared
    <3>. QED
      BY <1>1, <2>1, <2>2, <3>1, NoLockWellFormed
         DEF OwnedLockDepth, OwnedLockType, OwnsExclusive, OwnsShared
  <2>3. CASE st.exclusive_depth # 1
    <3>1. new = [st EXCEPT !.exclusive_depth = @ - 1]
      BY <1>1, <2>3 DEF Release, OwnsExclusive, OwnsShared
    <3>. QED
      BY <1>1, <2>1, <2>3, <3>1
         DEF LockStates, WellFormed, OwnedLockDepth, OwnedLockType, OwnsExclusive, OwnsShared
  <2>. QED
    BY <2>2, <2>3
<1>2. CASE ~OwnsExclusive(st, s) /\ OwnsShared(st, s)
  <2> DEFINE less == [st EXCEPT !.shared_owners[s] = @ - 1]
  <2>1. new = EraseIfUnowned(less)
    BY <1>2 DEF Release
  <2>2. st.type = "shared" /\ st.exclusive_owner = NoSession /\ st.shared_key > 0
        /\ st.shared_owners[s] > 0 /\ st.shared_owners \in [Sessions -> Nat]
    BY <1>2 DEF OwnsShared, WellFormed, NoLock, LockStates
  <2>3. less \in LockStates /\ less.type = "shared" /\ less.exclusive_owner = NoSession
        /\ less.shared_key = st.shared_key
    BY <2>2 DEF LockStates
  <2>4. less.shared_owners = [st.shared_owners EXCEPT ![s] = @ - 1]
    BY DEF LockStates
  <2> HIDE DEF less
  <2>5. \A o \in Sessions :
           /\ OwnedLockDepth(st, o) = st.shared_owners[o]
           /\ OwnedLockType(st, o) = IF st.shared_owners[o] > 0 THEN "shared" ELSE "none"
    BY <2>2 DEF OwnedLockDepth, OwnedLockType, OwnsExclusive, OwnsShared
  <2>6. /\ new \in LockStates
        /\ WellFormed(new)
        /\ new = NoLock \/ new = less
        /\ \A o \in Sessions :
              /\ OwnedLockDepth(new, o) = less.shared_owners[o]
              /\ OwnedLockType(new, o) =
                    IF less.shared_owners[o] > 0 THEN "shared" ELSE "none"
    BY <2>1, <2>2, <2>3, EraseEffect
  <2>. QED
    BY <2>2, <2>3, <2>4, <2>5, <2>6
<1>. QED
  BY <1>1, <1>2 DEF OwnedLockDepth

\* release_all(): the owner loses every level, the other sessions keep what
\* they have.
LEMMA ReleaseAllEffect ==
    ASSUME NEW st \in LockStates, WellFormed(st), NEW s \in Sessions,
           OwnedLockDepth(st, s) > 0, NEW new, new = ReleaseAll(st, s)
    PROVE  /\ new \in LockStates
           /\ WellFormed(new)
           /\ OwnedLockDepth(new, s) = 0
           /\ OwnedLockType(new, s) = "none"
           /\ \A o \in Sessions \ {s} :
                 /\ OwnedLockDepth(new, o) = OwnedLockDepth(st, o)
                 /\ OwnedLockType(new, o) = OwnedLockType(st, o)
           /\ \/ new = NoLock
              \/ /\ new.type = st.type
                 /\ new.exclusive_owner = st.exclusive_owner
                 /\ new.shared_key = st.shared_key
<1>1. CASE OwnsExclusive(st, s)
  <2>1. new = NoLock
    BY <1>1 DEF ReleaseAll, OwnsExclusive, OwnsShared
  <2>2. \A o \in Sessions \ {s} :
           OwnedLockType(st, o) = "none" /\ OwnedLockDepth(st, o) = 0
    BY <1>1, ExclusiveExcludes
  <2>. QED
    BY <2>1, <2>2, NoLockWellFormed
<1>2. CASE ~OwnsExclusive(st, s) /\ OwnsShared(st, s)
  <2> DEFINE less == [st EXCEPT !.shared_owners[s] = 0]
  <2>1. new = EraseIfUnowned(less)
    BY <1>2 DEF ReleaseAll
  <2>2. st.type = "shared" /\ st.exclusive_owner = NoSession /\ st.shared_key > 0
        /\ st.shared_owners \in [Sessions -> Nat]
    BY <1>2 DEF OwnsShared, WellFormed, NoLock, LockStates
  <2>3. less \in LockStates /\ less.type = "shared" /\ less.exclusive_owner = NoSession
        /\ less.shared_key = st.shared_key
    BY <2>2 DEF LockStates
  <2>4. less.shared_owners = [st.shared_owners EXCEPT ![s] = 0]
    BY DEF LockStates
  <2> HIDE DEF less
  <2>5. \A o \in Sessions :
           /\ OwnedLockDepth(st, o) = st.shared_owners[o]
           /\ OwnedLockType(st, o) = IF st.shared_owners[o] > 0 THEN "shared" ELSE "none"
    BY <2>2 DEF OwnedLockDepth, OwnedLockType, OwnsExclusive, OwnsShared
  <2>6. /\ new \in LockStates
        /\ WellFormed(new)
        /\ new = NoLock \/ new = less
        /\ \A o \in Sessions :
              /\ OwnedLockDepth(new, o) = less.shared_owners[o]
              /\ OwnedLockType(new, o) =
                    IF less.shared_owners[o] > 0 THEN "shared" ELSE "none"
    BY <2>1, <2>2, <2>3, EraseEffect
  <2>. QED
    BY <2>2, <2>3, <2>4, <2>5, <2>6
<1>. QED
  BY <1>1, <1>2 DEF OwnedLockDepth
=============================================================================
