---------------------------- MODULE CoreProofs -----------------------------
(***************************************************************************)
(* What holds of src/core: the aliases a resource manager keeps            *)
(* (ResourceAliases), the handle table (HandleTable), the resource         *)
(* managers, sessions and find lists whose handles it issues               *)
(* (ObjectLifecycle), and the locks they take (LockManager).  Each part    *)
(* starts with the argument of its proof.                                  *)
(***************************************************************************)
EXTENDS ObjectLifecycle, ResourceAliases, LockManager, LockStateProofs,
        SequenceTheorems, WellFoundedInduction


-----------------------------------------------------------------------------
(***************************************************************************)
(* The alias maps of a ResourceManager implement AliasDirectory, for any   *)
(* aliases, names and folding of names.                                    *)
(*                                                                         *)
(* AliasInv says that the maps are each other's inverse: every alias is    *)
(* stored under its folded name, its resource points back to it, and what  *)
(* a resource points to is an alias of that resource.                      *)
(***************************************************************************)

\* The values of aliases_.
Entries == [display_name : Aliases, resource : ResourceNames]

\* The inductive invariant.
AliasInv ==
    /\ \A k \in DOMAIN aliases :
          /\ aliases[k] \in Entries
          /\ FoldedName[aliases[k].display_name] = k
          /\ FoldedName[aliases[k].resource] \in DOMAIN aliases_by_resource
          /\ aliases_by_resource[FoldedName[aliases[k].resource]] = k
    /\ \A r \in DOMAIN aliases_by_resource :
          /\ aliases_by_resource[r] \in DOMAIN aliases
          /\ FoldedName[aliases[aliases_by_resource[r]].resource] = r

\* The pairs in force, as AliasDirectory has them.
Assigned == {aliases[k] : k \in DOMAIN aliases}

\* The entries set_resource_alias keeps: those of another alias and another
\* resource.
Kept(alias, resource) ==
    {k \in DOMAIN aliases : k # FoldedName[alias] /\ FoldedName[aliases[k].resource] # FoldedName[resource]}

\* What set_resource_alias leaves in the two maps.
LEMMA SetEffect ==
    ASSUME AliasInv, NEW alias \in Aliases, NEW resource \in ResourceNames, SetResourceAlias(alias, resource)
    PROVE  /\ DOMAIN aliases' = Kept(alias, resource) \cup {FoldedName[alias]}
           /\ aliases'[FoldedName[alias]] = [display_name |-> alias, resource |-> resource]
           /\ \A k \in Kept(alias, resource) : aliases'[k] = aliases[k]
           /\ \A r : r \in DOMAIN aliases_by_resource' <=>
                        \/ r = FoldedName[resource]
                        \/ /\ r \in DOMAIN aliases_by_resource
                           /\ aliases_by_resource[r] # FoldedName[alias]
           /\ aliases_by_resource'[FoldedName[resource]] = FoldedName[alias]
           /\ \A r \in DOMAIN aliases_by_resource :
                 r # FoldedName[resource] /\ aliases_by_resource[r] # FoldedName[alias] =>
                    aliases_by_resource'[r] = aliases_by_resource[r]
<1>. DEFINE ak == FoldedName[alias]
            rk == FoldedName[resource]
            new == [display_name |-> alias, resource |-> resource]
            by_resource == ForgetResource(ak)
            by_alias == IF rk \in DOMAIN by_resource THEN Erase(aliases, by_resource[rk]) ELSE aliases
<1>1. aliases' = Put(by_alias, ak, new) /\ aliases_by_resource' = Put(by_resource, rk, ak)
  BY DEF SetResourceAlias
<1>2. /\ \A r : r \in DOMAIN by_resource <=> r \in DOMAIN aliases_by_resource /\ aliases_by_resource[r] # ak
      /\ \A r \in DOMAIN by_resource : by_resource[r] = aliases_by_resource[r]
  <2>1. CASE ak \in DOMAIN aliases
    <3>1. by_resource = Erase(aliases_by_resource, FoldedName[aliases[ak].resource])
      BY <2>1 DEF ForgetResource
    <3>2. \A r \in DOMAIN aliases_by_resource :
              aliases_by_resource[r] = ak <=> r = FoldedName[aliases[ak].resource]
      BY <2>1 DEF AliasInv
    <3>. QED
      BY <3>1, <3>2 DEF Erase
  <2>2. CASE ak \notin DOMAIN aliases
    <3>1. by_resource = aliases_by_resource
      BY <2>2 DEF ForgetResource
    <3>. QED
      BY <2>2, <3>1 DEF AliasInv
  <2>. QED
    BY <2>1, <2>2
<1>. HIDE DEF by_resource
<1>3. /\ \A k : k \in DOMAIN by_alias => k \in DOMAIN aliases /\ by_alias[k] = aliases[k]
      /\ \A k \in DOMAIN aliases \ {ak} : k \in DOMAIN by_alias <=> FoldedName[aliases[k].resource] # rk
  <2>1. CASE rk \in DOMAIN by_resource
    <3>1. by_alias = Erase(aliases, aliases_by_resource[rk]) /\ rk \in DOMAIN aliases_by_resource
      BY <1>2, <2>1
    <3>2. \A k \in DOMAIN aliases : FoldedName[aliases[k].resource] = rk <=> k = aliases_by_resource[rk]
      BY <3>1 DEF AliasInv
    <3>. QED
      BY <3>1, <3>2 DEF Erase
  <2>2. CASE rk \notin DOMAIN by_resource
    <3>1. by_alias = aliases
      BY <2>2
    <3>2. \A k \in DOMAIN aliases \ {ak} : FoldedName[aliases[k].resource] # rk
      BY <1>2, <2>2 DEF AliasInv
    <3>. QED
      BY <3>1, <3>2
  <2>. QED
    BY <2>1, <2>2
<1>. HIDE DEF by_alias, new, ak, rk
<1>4. \A k \in DOMAIN aliases : k \in Kept(alias, resource) <=> k # ak /\ k \in DOMAIN by_alias
  BY <1>3 DEF Kept, ak, rk
<1>5. /\ DOMAIN aliases' = DOMAIN by_alias \cup {ak} /\ aliases'[ak] = new
      /\ \A k \in DOMAIN by_alias \ {ak} : aliases'[k] = by_alias[k]
  BY <1>1 DEF Put
<1>6. /\ DOMAIN aliases_by_resource' = DOMAIN by_resource \cup {rk} /\ aliases_by_resource'[rk] = ak
      /\ \A r \in DOMAIN by_resource \ {rk} : aliases_by_resource'[r] = by_resource[r]
  BY <1>1 DEF Put
<1>7. DOMAIN aliases' = Kept(alias, resource) \cup {ak}
  BY <1>3, <1>4, <1>5 DEF Kept
<1>8. \A k \in Kept(alias, resource) : aliases'[k] = aliases[k]
  BY <1>3, <1>4, <1>5 DEF Kept
<1>. QED
  BY <1>2, <1>5, <1>6, <1>7, <1>8 DEF ak, rk, new

\* set_resource_alias leaves the maps inverse: what it replaces goes from both.
LEMMA SetInv ==
    ASSUME AliasInv, NEW alias \in Aliases, NEW resource \in ResourceNames, SetResourceAlias(alias, resource)
    PROVE  AliasInv'
<1>. DEFINE ak == FoldedName[alias]
            rk == FoldedName[resource]
            kept == Kept(alias, resource)
            new == [display_name |-> alias, resource |-> resource]
<1>1. /\ DOMAIN aliases' = kept \cup {ak}
      /\ aliases'[ak] = new
      /\ \A k \in kept : aliases'[k] = aliases[k]
      /\ \A r : r \in DOMAIN aliases_by_resource' <=>
                   r = rk \/ (r \in DOMAIN aliases_by_resource /\ aliases_by_resource[r] # ak)
      /\ aliases_by_resource'[rk] = ak
      /\ \A r \in DOMAIN aliases_by_resource :
            r # rk /\ aliases_by_resource[r] # ak => aliases_by_resource'[r] = aliases_by_resource[r]
  BY SetEffect
<1>2. /\ new \in Entries /\ new.display_name = alias /\ new.resource = resource
      /\ \A k \in kept : k \in DOMAIN aliases /\ k # ak /\ FoldedName[aliases[k].resource] # rk
  BY DEF Entries, Kept
<1>3. \A k \in DOMAIN aliases : FoldedName[aliases[k].resource] # rk /\ k # ak => k \in kept
  BY DEF Kept
<1>. HIDE DEF kept, new
<1>4. ASSUME NEW k \in DOMAIN aliases'
      PROVE  /\ aliases'[k] \in Entries
             /\ FoldedName[aliases'[k].display_name] = k
             /\ FoldedName[aliases'[k].resource] \in DOMAIN aliases_by_resource'
             /\ aliases_by_resource'[FoldedName[aliases'[k].resource]] = k
  <2>1. CASE k = ak
    BY <1>1, <1>2, <2>1
  <2>2. CASE k \in kept
    BY <1>1, <1>2, <2>2 DEF AliasInv
  <2>. QED
    BY <1>1, <2>1, <2>2
<1>5. ASSUME NEW r \in DOMAIN aliases_by_resource'
      PROVE  /\ aliases_by_resource'[r] \in DOMAIN aliases'
             /\ FoldedName[aliases'[aliases_by_resource'[r]].resource] = r
  <2>1. CASE r = rk
    BY <1>1, <1>2, <2>1
  <2>2. CASE r # rk
    <3>1. r \in DOMAIN aliases_by_resource /\ aliases_by_resource[r] # ak
          /\ aliases_by_resource'[r] = aliases_by_resource[r]
      BY <1>1, <2>2
    <3>2. aliases_by_resource[r] \in kept
      BY <1>3, <2>2, <3>1 DEF AliasInv
    <3>. QED
      BY <1>1, <3>1, <3>2 DEF AliasInv
  <2>. QED
    BY <2>1, <2>2
<1>. QED
  BY <1>4, <1>5 DEF AliasInv

\* An assignment of the maps is one of the directory.
LEMMA SetAssigns ==
    ASSUME AliasInv, NEW alias \in Aliases, NEW resource \in ResourceNames, SetResourceAlias(alias, resource)
    PROVE  Directory!Assign(alias, resource)
<1>. DEFINE ak == FoldedName[alias]
            rk == FoldedName[resource]
            kept == Kept(alias, resource)
            new == [display_name |-> alias, resource |-> resource]
            others == {p \in Assigned : FoldedName[p.display_name] # ak /\ FoldedName[p.resource] # rk}
<1>1. DOMAIN aliases' = kept \cup {ak} /\ aliases'[ak] = new /\ \A k \in kept : aliases'[k] = aliases[k]
  BY SetEffect
<1>2. \A k \in DOMAIN aliases : k \in kept <=> aliases[k] \in others
  BY DEF Kept, Assigned, AliasInv
<1>3. \A k \in kept : k \in DOMAIN aliases
  BY DEF Kept
<1>. HIDE DEF kept, new
<1>4. \A p : p \in Assigned' <=> p \in others \/ p = new
  <2>1. \A p : p \in Assigned' <=> \E k \in kept \cup {ak} : p = aliases'[k]
    BY <1>1 DEF Assigned
  <2>2. \A p : p \in others => \E k \in kept : p = aliases[k]
    BY <1>2 DEF Assigned
  <2>. QED
    BY <1>1, <1>2, <1>3, <2>1, <2>2
<1>5. Assigned' = others \cup {new}
  BY <1>4
<1>6. ~closed /\ closed' = closed /\ answer' = answer
  BY DEF SetResourceAlias
<1>. QED
  BY <1>5, <1>6 DEF Directory!Assign, Directory!SameAlias, Assigned, new

\* A look-up in the maps is one in the directory.
LEMMA ResolveLooksUp ==
    ASSUME AliasInv, NEW name \in Aliases \cup ResourceNames, ResolveResource(name)
    PROVE  \/ name \in ResourceNames /\ Directory!LookUpName(name)
           \/ name \in Aliases /\ Directory!LookUpAlias(name)
           \/ Directory!LookUpClosed(name)
<1>. DEFINE key == FoldedName[name]
<1>1. Assigned' = Assigned /\ closed' = closed
  BY DEF ResolveResource, Assigned
<1>2. CASE closed
  <2>1. answer' = Nothing(name)
    BY <1>2 DEF ResolveResource
  <2>. QED
    BY <1>1, <1>2, <2>1 DEF Directory!LookUpClosed, Assigned, Directory!Unknown, Nothing
<1>3. CASE ~closed /\ name \in ResourceNames
  <2>1. answer' = [name |-> name, found |-> TRUE, resource |-> name, alias |-> AliasOf(key)]
    BY <1>3 DEF ResolveResource
  <2>2. \A k \in DOMAIN aliases :
            FoldedName[aliases[k].resource] = key <=>
                key \in DOMAIN aliases_by_resource /\ aliases_by_resource[key] = k
    BY DEF AliasInv
  <2>3. AliasOf(key) = {p.display_name : p \in {p \in Assigned : FoldedName[p.resource] = key}}
    <3>1. \A d : d \in AliasOf(key) <=> \E k \in DOMAIN aliases : FoldedName[aliases[k].resource] = key
                                                                 /\ d = aliases[k].display_name
      BY <2>2 DEF AliasOf
    <3>2. \A d : d \in {p.display_name : p \in {p \in Assigned : FoldedName[p.resource] = key}} <=>
                    \E k \in DOMAIN aliases : FoldedName[aliases[k].resource] = key
                                              /\ d = aliases[k].display_name
      BY DEF Assigned
    <3>. QED
      BY <3>1, <3>2
  <2>. QED
    BY <1>1, <1>3, <2>1, <2>3 DEF Directory!LookUpName, Directory!Told, Directory!SameAlias, Assigned
<1>4. CASE ~closed /\ name \notin ResourceNames
  <2>1. name \in Aliases
    BY <1>4
  <2>2. \A k \in DOMAIN aliases : FoldedName[aliases[k].display_name] = k
    BY DEF AliasInv
  <2>3. CASE key \in DOMAIN aliases
    <3>1. answer' = [name |-> name, found |-> TRUE, resource |-> aliases[key].resource,
                     alias |-> {aliases[key].display_name}]
      BY <1>4, <2>3 DEF ResolveResource
    <3>2. aliases[key] \in Assigned /\ FoldedName[aliases[key].display_name] = key
      BY <2>2, <2>3 DEF Assigned
    <3>. QED
      BY <1>1, <1>4, <2>1, <3>1, <3>2 DEF Directory!LookUpAlias, Directory!Told, Directory!SameAlias, Assigned
  <2>4. CASE key \notin DOMAIN aliases
    <3>1. answer' = Nothing(name)
      BY <1>4, <2>4 DEF ResolveResource
    <3>2. \A p \in Assigned : FoldedName[p.display_name] # key
      BY <2>2, <2>4 DEF Assigned
    <3>. QED
      BY <1>1, <1>4, <2>1, <3>1, <3>2
         DEF Directory!LookUpAlias, Directory!SameAlias, Assigned, Directory!Unknown, Nothing
  <2>. QED
    BY <2>3, <2>4
<1>. QED
  BY <1>2, <1>3, <1>4

\* Nothing else changes the maps.
LEMMA AliasInvNext ==
    ASSUME AliasInv, [AliasNext]_aliasVars PROVE AliasInv'
<1>1. ASSUME NEW alias \in Aliases, NEW name \in ResourceNames, SetResourceAlias(alias, name) PROVE AliasInv'
  BY <1>1, SetInv
<1>2. ASSUME aliases' = aliases, aliases_by_resource' = aliases_by_resource PROVE AliasInv'
  BY <1>2 DEF AliasInv
<1>. QED
  BY <1>1, <1>2 DEF AliasNext, ResolveResource, CloseManager, aliasVars

\* They are inverse when they are empty.
LEMMA AliasInvInit ==
    ASSUME AliasInit PROVE AliasInv
BY DEF AliasInit, AliasInv

\* set_resource_alias keeps aliases_ and aliases_by_resource_ each other's
\* inverse, whichever alias or resource an assignment takes from another.
THEOREM MapsStayInverse == AliasSpec => []AliasInv
BY AliasInvInit, AliasInvNext, PTL DEF AliasSpec

\* ResourceManager's aliases implement the directory: resolve_resource answers,
\* in both directions, as the one-to-one relation of the latest assignments, and
\* finds nothing only for an alias that is not assigned or once it is closed.
THEOREM ImplementsDirectory == AliasSpec => ImplementsAliasDirectory
<1>1. AliasInit => Directory!Init
  <2>. SUFFICES ASSUME AliasInit PROVE Assigned = {} /\ closed = FALSE /\ answer = NoAnswer
    BY DEF Directory!Init, Assigned, Directory!NoQuestion, NoAnswer
  <2>. QED
    BY DEF AliasInit, Assigned
<1>2. AliasInv /\ [AliasNext]_aliasVars => [Directory!Next]_(Directory!vars)
  <2>. SUFFICES ASSUME AliasInv, [AliasNext]_aliasVars PROVE [Directory!Next]_(Directory!vars)
    OBVIOUS
  <2>1. ASSUME NEW alias \in Aliases, NEW name \in ResourceNames, SetResourceAlias(alias, name)
        PROVE  Directory!Next
    BY <2>1, SetAssigns DEF Directory!Next
  <2>2. ASSUME NEW name \in Aliases \cup ResourceNames, ResolveResource(name) PROVE Directory!Next
    BY <2>2, ResolveLooksUp DEF Directory!Next
  <2>3. ASSUME CloseManager PROVE Directory!Next
    BY <2>3 DEF CloseManager, Directory!Next, Directory!Close
  <2>4. ASSUME UNCHANGED aliasVars PROVE UNCHANGED Directory!vars
    BY <2>4 DEF Directory!vars, aliasVars
  <2>. QED
    BY <2>1, <2>2, <2>3, <2>4 DEF AliasNext
<1>. QED
  BY <1>1, <1>2, MapsStayInverse, PTL DEF AliasSpec, ImplementsAliasDirectory, Directory!Spec

-----------------------------------------------------------------------------
(***************************************************************************)
(* HandleTable for every number of slots up to 65535 and of generations up *)
(* to 4095, the values of the code included.                               *)
(*                                                                         *)
(* The inductive invariant says where an issued handle can be: it belongs  *)
(* to a slot, and its generation is behind the slot's, or equal to it while*)
(* the slot holds the handle's object or is retired.  That is why a free   *)
(* slot never hands out a value a second time.                             *)
(***************************************************************************)

\* Division with remainder by the constants of the encoding.
LEMMA Split16 ==
    ASSUME NEW h \in Int, NEW q \in Int, NEW r \in Int, 0 <= r, r < 65536, h = q * 65536 + r
    PROVE  h % 65536 = r /\ h \div 65536 = q
OBVIOUS

LEMMA Split12 ==
    ASSUME NEW h \in Int, NEW q \in Int, NEW r \in Int, 0 <= r, r < 4096, h = q * 4096 + r
    PROVE  h % 4096 = r
OBVIOUS

LEMMA Split28 ==
    ASSUME NEW h \in Int, NEW q \in Int, NEW r \in Int, 0 <= r, r < 268435456,
           h = q * 268435456 + r
    PROVE  h \div 268435456 = q
OBVIOUS

\* The arithmetic of decode(encode(...)).
LEMMA Fields ==
    ASSUME NEW type \in Int, NEW g \in Int, NEW i \in Int, NEW h \in Int,
           0 <= type, type < 16, 0 <= g, g < 4096, 0 <= i, i < 65536,
           h = Encode(type, g, i)
    PROVE  /\ TypeField(h) = type
           /\ GenerationField(h) = g
           /\ IndexField(h) = i
<1>0. h = type * 268435456 + g * 65536 + i
  BY DEF Encode
<1>1. PICK q \in Int : q = type * 4096 + g
  OBVIOUS
<1>2. PICK r \in Int : r = g * 65536 + i
  OBVIOUS
<1>3. h = q * 65536 + i
  BY <1>0, <1>1
<1>4. h = type * 268435456 + r /\ 0 <= r /\ r < 268435456
  BY <1>0, <1>2
<1>5. h \div 65536 = q /\ h % 65536 = i
  BY <1>3, Split16
<1>6. q % 4096 = g
  BY <1>1, Split12
<1>7. h \div 268435456 = type
  BY <1>4, Split28
<1>8. type % 16 = type
  OBVIOUS
<1>9. TypeField(h) = type
  BY <1>7, <1>8, SMT DEF TypeField
<1>10. GenerationField(h) = g
  BY <1>5, <1>6, SMT DEF GenerationField
<1>11. IndexField(h) = i
  BY <1>5, SMT DEF IndexField
<1>. QED
  BY <1>9, <1>10, <1>11

\* The three fields of a handle can be read back from it.
LEMMA DecodeEncode ==
    ASSUME NEW type \in ObjectTypes,
           NEW g \in 1 .. MaxGeneration, NEW i \in 1 .. MaxSlots
    PROVE  /\ Encode(type, g, i) \in Nat
           /\ TypeField(Encode(type, g, i)) = type
           /\ GenerationField(Encode(type, g, i)) = g
           /\ IndexField(Encode(type, g, i)) = i
           /\ Decodable(Encode(type, g, i))
<1>1. type \in Int /\ 0 <= type /\ type < 16 /\ type # 0
  BY DEF ObjectTypes, ResourceManagerType, FindListType, SessionType
<1>2. g \in Int /\ 0 <= g /\ g < 4096 /\ g # 0
  BY MaxGenerationAssumption
<1>3. i \in Int /\ 0 <= i /\ i < 65536 /\ i # 0
  BY MaxSlotsAssumption
<1>4. Encode(type, g, i) \in Nat
  BY <1>1, <1>2, <1>3 DEF Encode
<1>5. Encode(type, g, i) \in Int
  BY <1>4
<1>6. /\ TypeField(Encode(type, g, i)) = type
      /\ GenerationField(Encode(type, g, i)) = g
      /\ IndexField(Encode(type, g, i)) = i
  BY <1>1, <1>2, <1>3, <1>5, Fields
<1>. QED
  BY <1>2, <1>3, <1>4, <1>6 DEF Decodable

LEMMA Bounds == MaxSlots \in Nat \ {0} /\ MaxGeneration \in Nat \ {0}
BY MaxSlotsAssumption, MaxGenerationAssumption

USE NoObjectAssumption, Bounds

-----------------------------------------------------------------------------
\* Where an issued handle can be.
Placed(p) ==
    LET i == IndexField(p[1])
        g == GenerationField(p[1])
    IN  /\ i \in DOMAIN slots
        /\ g <= slots[i].generation
        /\ g = slots[i].generation => slots[i].retired \/ slots[i].object = p[2]

\* The object in a slot has the handle that the slot encodes.
LiveIsIssued(i) ==
    slots[i].object # NoObject =>
        <<Encode(slots[i].type, slots[i].generation, i), slots[i].object>> \in issued

\* The inductive invariant of the table.
HandleInv ==
    /\ TableTypeOK
    /\ \A p \in issued : Placed(p)
    /\ \A i \in DOMAIN slots : LiveIsIssued(i)
    /\ \A p, q \in issued : p[1] = q[1] => p = q

\* The fields of a slot.
LEMMA SlotFields ==
    ASSUME TableTypeOK, NEW i \in DOMAIN slots
    PROVE  /\ i \in 1 .. Len(slots)
           /\ i \in 1 .. MaxSlots
           /\ slots[i] \in SlotValues
           /\ slots[i].generation \in 1 .. MaxGeneration
           /\ slots[i].type \in ObjectTypes
           /\ slots[i].retired \in BOOLEAN
<1>1. /\ Len(slots) \in Nat
      /\ DOMAIN slots = 1 .. Len(slots)
      /\ slots[i] \in SlotValues
  BY LenProperties, ElementOfSeq DEF TableTypeOK
<1>2. i \in 1 .. Len(slots) /\ i \in 1 .. MaxSlots
  BY <1>1 DEF TableTypeOK
<1>3. /\ slots[i].generation \in 1 .. MaxGeneration
      /\ slots[i].type \in ObjectTypes
      /\ slots[i].retired \in BOOLEAN
  BY <1>1 DEF SlotValues
<1>. QED
  BY <1>1, <1>2, <1>3

\* Fields are natural numbers.
LEMMA FieldTypes ==
    ASSUME NEW h \in Nat
    PROVE  IndexField(h) \in Nat /\ GenerationField(h) \in Nat
BY DEF IndexField, GenerationField

\* The scan of insert() finds a slot if there is a usable one.
LEMMA FirstFreeIsFree ==
    ASSUME TableTypeOK, FreeSlots # {}
    PROVE  FirstFree \in FreeSlots
<1>1. FreeSlots \subseteq Nat
  BY SlotFields DEF FreeSlots
<1>2. PICK R : R = OpToRel(<, Nat)
  BY Zenon
<1>3. IsWellFoundedOn(R, Nat)
  BY <1>2, NatLessThanWellFounded, Zenon
<1>4. PICK x \in FreeSlots : \A y \in FreeSlots : ~ (<<y, x>> \in R)
  BY <1>1, <1>3, WFMin, Zenon
<1>5. R = {ss \in Nat \X Nat : ss[1] < ss[2]}
  BY <1>2, Zenon DEF OpToRel
<1>6. \A y \in FreeSlots : <<y, x>> \in Nat \X Nat
  BY <1>1
<1>7. \A y \in FreeSlots : ~ (y < x)
  <2>1. SUFFICES ASSUME NEW y \in FreeSlots, y < x PROVE <<y, x>> \in R
    BY <1>4
  <2>2. PICK ss \in Nat \X Nat : ss = <<y, x>>
    BY <1>6
  <2>3. ss[1] < ss[2]
    BY <2>1, <2>2
  <2>. QED
    BY <1>5, <2>2, <2>3, Zenon
<1>8. \A y \in FreeSlots : x <= y
  BY <1>1, <1>7
<1>. QED
  BY <1>8, Zenon DEF FirstFree

\* The step fills slot k, a new or a usable one, in the slot's generation.
Filled(k, type, object) ==
    /\ k \in DOMAIN slots => Usable(k)
    /\ slots' \in Seq(SlotValues)
    /\ Len(slots') <= MaxSlots
    /\ DOMAIN slots' = DOMAIN slots \cup {k}
    /\ \A j \in DOMAIN slots : j # k => slots'[j] = slots[j]
    /\ slots'[k].object = object
    /\ slots'[k].type = type
    /\ ~slots'[k].retired
    /\ slots'[k].generation \in 1 .. MaxGeneration
    /\ k \in DOMAIN slots => slots'[k].generation = slots[k].generation
    /\ InsertedHandle(type) = Encode(type, slots'[k].generation, k)

\* The step empties slot k and ages or retires it.
Vacated(k) ==
    /\ slots' \in Seq(SlotValues)
    /\ Len(slots') <= MaxSlots
    /\ DOMAIN slots' = DOMAIN slots
    /\ \A j \in DOMAIN slots : j # k => slots'[j] = slots[j]
    /\ slots'[k].object = NoObject
    /\ \/ slots'[k].generation = slots[k].generation + 1
       \/ slots'[k].generation = slots[k].generation /\ slots'[k].retired
    /\ issued' = issued

\* insert() fills one slot k, a new or a usable one, in the generation that the
\* slot is in, and returns that slot's handle.
LEMMA InsertEffect ==
    ASSUME TableTypeOK, NEW type \in ObjectTypes, NEW object \in Objects,
           Insert(type, object)
    PROVE  \E k \in 1 .. MaxSlots : Filled(k, type, object)
<1>0. /\ Len(slots) \in Nat
      /\ DOMAIN slots = 1 .. Len(slots)
      /\ slots \in Seq(SlotValues)
      /\ Len(slots) <= MaxSlots
  BY LenProperties DEF TableTypeOK
<1>1. CASE FreeSlots # {}
  <2>1. FirstFree \in DOMAIN slots /\ Usable(FirstFree)
    BY <1>1, FirstFreeIsFree DEF FreeSlots
  <2>2. PICK k \in DOMAIN slots : k = FirstFree
    BY <2>1
  <2>3. /\ k \in 1 .. Len(slots)
        /\ k \in 1 .. MaxSlots
        /\ slots[k].generation \in 1 .. MaxGeneration
    BY SlotFields
  <2>4. PICK e : e = [object     |-> object,
                      generation |-> slots[k].generation,
                      type       |-> type,
                      retired    |-> FALSE]
    OBVIOUS
  <2>5. e \in SlotValues
    BY <2>3, <2>4 DEF SlotValues
  <2>6. slots' = [slots EXCEPT ![k] = e]
    BY <1>1, <2>2, <2>4 DEF Insert
  <2>7. /\ slots' \in Seq(SlotValues)
        /\ Len(slots') = Len(slots)
        /\ \A j \in 1 .. Len(slots) : slots'[j] = IF j = k THEN e ELSE slots[j]
    BY <1>0, <2>3, <2>5, <2>6, ExceptSeq
  <2>8. DOMAIN slots' = DOMAIN slots \cup {k}
    BY <1>0, <2>3, <2>7, LenProperties
  <2>9. slots'[k] = e
    BY <2>3, <2>7
  <2>10. InsertedHandle(type) = Encode(type, slots[k].generation, k)
    BY <1>1, <2>2 DEF InsertedHandle
  <2>11. /\ e.object = object
         /\ e.generation = slots[k].generation
         /\ e.type = type
         /\ e.retired = FALSE
    BY <2>4
  <2>12. Usable(k)
    BY <2>1, <2>2
  <2>13. \A j \in DOMAIN slots : j # k => slots'[j] = slots[j]
    BY <1>0, <2>7
  <2>14. Len(slots') <= MaxSlots
    BY <1>0, <2>7
  <2>. QED
    BY <2>3, <2>7, <2>8, <2>9, <2>10, <2>11, <2>12, <2>13, <2>14 DEF Filled
<1>2. CASE FreeSlots = {}
  <2>1. PICK k \in Nat : k = Len(slots) + 1
    BY <1>0
  <2>2. k \in 1 .. MaxSlots /\ k \notin DOMAIN slots /\ k <= MaxSlots
    BY <1>0, <1>2, <2>1 DEF Insert, Full
  <2>4. PICK e : e = [object     |-> object,
                      generation |-> 1,
                      type       |-> type,
                      retired    |-> FALSE]
    OBVIOUS
  <2>5. e \in SlotValues
    BY <2>4 DEF SlotValues
  <2>6. slots' = Append(slots, e)
    BY <1>2, <2>4 DEF Insert
  <2>7. /\ slots' \in Seq(SlotValues)
        /\ Len(slots') = k
        /\ \A j \in 1 .. Len(slots) : slots'[j] = slots[j]
        /\ slots'[k] = e
    BY <1>0, <2>1, <2>5, <2>6, AppendProperties
  <2>8. DOMAIN slots' = DOMAIN slots \cup {k}
    BY <1>0, <2>1, <2>7, LenProperties
  <2>10. InsertedHandle(type) = Encode(type, 1, k)
    BY <1>2, <2>1 DEF InsertedHandle
  <2>11. /\ e.object = object
         /\ e.generation = 1
         /\ e.type = type
         /\ e.retired = FALSE
    BY <2>4
  <2>13. \A j \in DOMAIN slots : j # k => slots'[j] = slots[j]
    BY <1>0, <2>7
  <2>14. Len(slots') <= MaxSlots /\ 1 \in 1 .. MaxGeneration
    BY <2>2, <2>7
  <2>. QED
    BY <2>2, <2>7, <2>8, <2>10, <2>11, <2>13, <2>14 DEF Filled
<1>. QED
  BY <1>1, <1>2

\* remove() empties one slot k and moves it to its next generation, or retires
\* it in the last one.
LEMMA RemoveEffect ==
    ASSUME TableTypeOK, NEW handle \in Nat, Remove(handle)
    PROVE  \E k \in DOMAIN slots : Vacated(k)
<1>0. /\ Len(slots) \in Nat
      /\ DOMAIN slots = 1 .. Len(slots)
      /\ slots \in Seq(SlotValues)
      /\ Len(slots) <= MaxSlots
  BY LenProperties DEF TableTypeOK
<1>1. PICK k \in DOMAIN slots : k = IndexField(handle)
  BY DEF Remove, GetAny, Names
<1>2. /\ k \in 1 .. Len(slots)
      /\ slots[k].generation \in 1 .. MaxGeneration
      /\ slots[k].type \in ObjectTypes
  BY SlotFields
<1>3. PICK e : e = Vacate(slots[k])
  OBVIOUS
<1>4. /\ e \in SlotValues
      /\ e.object = NoObject
      /\ \/ e.generation = slots[k].generation + 1
         \/ e.generation = slots[k].generation /\ e.retired
  <2>1. CASE slots[k].generation = MaxGeneration
    <3>1. e = [object |-> NoObject, generation |-> slots[k].generation,
               type |-> slots[k].type, retired |-> TRUE]
      BY <1>3, <2>1 DEF Vacate
    <3>. QED
      BY <1>2, <3>1 DEF SlotValues
  <2>2. CASE slots[k].generation # MaxGeneration
    <3>1. e = [object |-> NoObject, generation |-> slots[k].generation + 1,
               type |-> slots[k].type, retired |-> FALSE]
      BY <1>3, <2>2 DEF Vacate
    <3>2. slots[k].generation + 1 \in 1 .. MaxGeneration
      BY <1>2, <2>2
    <3>. QED
      BY <1>2, <3>1, <3>2 DEF SlotValues
  <2>. QED
    BY <2>1, <2>2
<1>5. slots' = [slots EXCEPT ![k] = e] /\ issued' = issued
  BY <1>1, <1>3 DEF Remove
<1>6. /\ slots' \in Seq(SlotValues)
      /\ Len(slots') = Len(slots)
      /\ \A j \in 1 .. Len(slots) : slots'[j] = IF j = k THEN e ELSE slots[j]
  BY <1>0, <1>2, <1>4, <1>5, ExceptSeq
<1>7. DOMAIN slots' = DOMAIN slots
  BY <1>0, <1>6, LenProperties
<1>8. slots'[k] = e
  BY <1>2, <1>6
<1>9. \A j \in DOMAIN slots : j # k => slots'[j] = slots[j]
  BY <1>0, <1>6
<1>10. Len(slots') <= MaxSlots
  BY <1>0, <1>6
<1>. QED
  BY <1>4, <1>5, <1>6, <1>7, <1>8, <1>9, <1>10 DEF Vacated
-----------------------------------------------------------------------------
\* An issued handle that resolves has its slot's generation and object.
LEMMA Resolves ==
    ASSUME HandleInv, NEW p \in issued
    PROVE  /\ p[1] \in Nat
           /\ p[2] \in Objects
           /\ GetAny(p[1]) \in {NoObject, p[2]}
<1>1. p[1] \in Nat /\ p[2] \in Objects
  BY DEF HandleInv, TableTypeOK
<1>2. CASE \E i \in DOMAIN slots : Names(p[1], i)
  <2>1. GetAny(p[1]) = slots[IndexField(p[1])].object
    BY <1>2 DEF GetAny
  <2>2. /\ slots[IndexField(p[1])].generation = GenerationField(p[1])
        /\ ~slots[IndexField(p[1])].retired
    BY <1>2 DEF Names
  <2>. QED
    BY <1>1, <2>1, <2>2 DEF HandleInv, Placed
<1>3. CASE ~ \E i \in DOMAIN slots : Names(p[1], i)
  BY <1>1, <1>3 DEF GetAny
<1>. QED
  BY <1>1, <1>2, <1>3

\* It holds of the empty table,
LEMMA InitInv == TableInit => HandleInv
<1>. SUFFICES ASSUME TableInit PROVE HandleInv
  OBVIOUS
<1>1. slots \in Seq(SlotValues) /\ Len(slots) = 0 /\ DOMAIN slots = {}
  BY EmptySeq, LenProperties DEF TableInit
<1>. QED
  BY <1>1 DEF TableInit, HandleInv, TableTypeOK

\* insert() preserves the invariant: the value it returns is a new one.
LEMMA InsertInv ==
    ASSUME HandleInv, NEW type \in ObjectTypes, NEW object \in Objects,
           Insert(type, object)
    PROVE  HandleInv'
<1>0. TableTypeOK
  BY DEF HandleInv
<1>1. PICK k \in 1 .. MaxSlots : Filled(k, type, object)
  BY <1>0, InsertEffect
<1>. USE DEF Filled
<1>2. PICK h : h = InsertedHandle(type)
  OBVIOUS
<1>3. /\ h \in Nat
      /\ h = Encode(type, slots'[k].generation, k)
      /\ IndexField(h) = k
      /\ GenerationField(h) = slots'[k].generation
  BY <1>1, <1>2, DecodeEncode
<1>4. issued' = issued \cup {<<h, object>>}
  BY <1>2 DEF Insert
<1>5. \A p \in issued : p[1] \in Nat /\ p[2] \in Objects /\ p[1] # h
  <2>. TAKE p \in issued
  <2>1. p[1] \in Nat /\ p[2] \in Objects /\ Placed(p)
    BY DEF HandleInv, TableTypeOK
  <2>2. ASSUME p[1] = h PROVE FALSE
    <3>1. k \in DOMAIN slots /\ slots[k].generation = GenerationField(p[1])
      BY <1>1, <1>3, <2>1, <2>2 DEF Placed
    <3>2. slots[k].retired \/ slots[k].object = p[2]
      BY <1>3, <2>1, <2>2, <3>1 DEF Placed
    <3>. QED
      BY <1>1, <2>1, <3>1, <3>2 DEF Usable
  <2>. QED
    BY <2>1, <2>2
<1>6. TableTypeOK'
  BY <1>1, <1>3, <1>4, <1>0 DEF TableTypeOK
<1>7. ASSUME NEW p \in issued' PROVE Placed(p)'
  <2>1. CASE p = <<h, object>>
    <3>1. p[1] = h /\ p[2] = object
      BY <2>1
    <3>. QED
      BY <1>1, <1>3, <3>1 DEF Placed
  <2>2. CASE p \in issued
    <3>1. Placed(p) /\ p[1] \in Nat /\ p[2] \in Objects
      BY <1>5, <2>2 DEF HandleInv
    <3>2. CASE IndexField(p[1]) = k
      <4>1. GenerationField(p[1]) <= slots[k].generation /\ k \in DOMAIN slots
        BY <3>1, <3>2 DEF Placed
      <4>2. GenerationField(p[1]) # slots[k].generation
        BY <1>1, <3>1, <3>2 DEF Placed, Usable
      <4>. QED
        BY <1>1, <3>2, <4>1, <4>2 DEF Placed
    <3>3. CASE IndexField(p[1]) # k
      BY <1>1, <3>1, <3>3 DEF Placed
    <3>. QED
      BY <3>2, <3>3
  <2>. QED
    BY <1>4, <2>1, <2>2
<1>8. ASSUME NEW i \in DOMAIN slots' PROVE LiveIsIssued(i)'
  <2>1. CASE i = k
    BY <1>1, <1>3, <1>4, <2>1 DEF LiveIsIssued
  <2>2. CASE i # k
    <3>1. i \in DOMAIN slots /\ slots'[i] = slots[i]
      BY <1>1, <2>2
    <3>. QED
      BY <1>4, <3>1 DEF HandleInv, LiveIsIssued
  <2>. QED
    BY <2>1, <2>2
<1>9. ASSUME NEW p \in issued', NEW q \in issued', p[1] = q[1] PROVE p = q
  BY <1>4, <1>5, <1>9 DEF HandleInv
<1>. QED
  BY <1>6, <1>7, <1>8, <1>9 DEF HandleInv

\* remove() preserves the invariant: the handle falls behind its slot.
LEMMA RemoveInv ==
    ASSUME HandleInv, NEW handle \in Nat, Remove(handle)
    PROVE  HandleInv'
<1>0. TableTypeOK
  BY DEF HandleInv
<1>1. PICK k \in DOMAIN slots : Vacated(k)
  BY <1>0, RemoveEffect
<1>. USE DEF Vacated
<1>2. slots[k].generation \in 1 .. MaxGeneration
  BY <1>0, SlotFields
<1>3. TableTypeOK'
  BY <1>0, <1>1 DEF TableTypeOK
<1>4. ASSUME NEW p \in issued' PROVE Placed(p)'
  <2>1. Placed(p) /\ p[1] \in Nat
    BY <1>1 DEF HandleInv, TableTypeOK
  <2>2. GenerationField(p[1]) \in Nat
    BY <2>1, FieldTypes
  <2>3. CASE IndexField(p[1]) = k
    BY <1>1, <1>2, <2>1, <2>2, <2>3 DEF Placed
  <2>4. CASE IndexField(p[1]) # k
    BY <1>1, <2>1, <2>4 DEF Placed
  <2>. QED
    BY <2>3, <2>4
<1>5. ASSUME NEW i \in DOMAIN slots' PROVE LiveIsIssued(i)'
  BY <1>1 DEF HandleInv, LiveIsIssued
<1>6. ASSUME NEW p \in issued', NEW q \in issued', p[1] = q[1] PROVE p = q
  BY <1>1, <1>6 DEF HandleInv
<1>. QED
  BY <1>3, <1>4, <1>5, <1>6 DEF HandleInv

\* and every step preserves it.
LEMMA NextInv == HandleInv /\ [TableNext]_tableVars => HandleInv'
<1>. SUFFICES ASSUME HandleInv, [TableNext]_tableVars PROVE HandleInv'
  OBVIOUS
<1>1. CASE \E type \in ObjectTypes, object \in Objects : Insert(type, object)
  BY <1>1, InsertInv
<1>2. CASE \E handle \in Nat : Remove(handle)
  BY <1>2, RemoveInv
<1>3. CASE UNCHANGED tableVars
  BY <1>3 DEF tableVars, HandleInv, TableTypeOK, Placed, LiveIsIssued
<1>. QED
  BY <1>1, <1>2, <1>3 DEF TableNext

\* A dead handle stays dead over a step.
LEMMA DeadStaysDead ==
    ASSUME HandleInv, [TableNext]_tableVars, NEW p \in issued,
           GetAny(p[1]) = NoObject
    PROVE  GetAny(p[1])' = NoObject
<1>0. TableTypeOK /\ p[1] \in Nat /\ p[2] \in Objects /\ Placed(p)
  BY Resolves DEF HandleInv
<1>1. PICK i \in DOMAIN slots : i = IndexField(p[1])
  BY <1>0 DEF Placed
<1>2. ~Names(p[1], i)
  <2>1. SUFFICES ASSUME Names(p[1], i) PROVE FALSE
    OBVIOUS
  <2>2. GetAny(p[1]) = slots[i].object
    BY <1>1, <2>1 DEF GetAny
  <2>. QED
    BY <2>1, <2>2 DEF Names
<1>3. SUFFICES ~Names(p[1], i)'
  BY <1>1 DEF GetAny, Names
<1>4. CASE \E type \in ObjectTypes, object \in Objects : Insert(type, object)
  <2>1. PICK type \in ObjectTypes, object \in Objects : Insert(type, object)
    BY <1>4
  <2>2. PICK k \in 1 .. MaxSlots : Filled(k, type, object)
    BY <1>0, <2>1, InsertEffect
  <2>. USE DEF Filled
  <2>3. CASE i = k
    <3>1. GenerationField(p[1]) # slots'[i].generation
      BY <1>0, <1>1, <2>2, <2>3 DEF Placed, Usable
    <3>. QED
      BY <3>1 DEF Names
  <2>4. CASE i # k
    <3>1. slots'[i] = slots[i]
      BY <2>2, <2>4
    <3>. QED
      BY <1>2, <3>1 DEF Names
  <2>. QED
    BY <2>3, <2>4
<1>5. CASE \E handle \in Nat : Remove(handle)
  <2>1. PICK handle \in Nat : Remove(handle)
    BY <1>5
  <2>2. PICK k \in DOMAIN slots : Vacated(k)
    BY <1>0, <2>1, RemoveEffect
  <2>. USE DEF Vacated
  <2>. QED
    BY <1>2, <2>2 DEF Names
<1>6. CASE UNCHANGED tableVars
  BY <1>2, <1>6 DEF tableVars, Names
<1>. QED
  BY <1>4, <1>5, <1>6 DEF TableNext

-----------------------------------------------------------------------------
\* The invariant holds in every behaviour of the table.
LEMMA HandleInvAlways == TableSpec => []HandleInv
BY InitInv, NextInv, PTL DEF TableSpec

\* Slots and generations stay within the bounds of the encoding.
THEOREM TableTypeCorrect == TableSpec => []TableTypeOK
<1>1. HandleInv => TableTypeOK
  BY DEF HandleInv
<1>. QED
  BY <1>1, HandleInvAlways, PTL

\* ADR 0003: no handle value is issued twice, and one that resolves, resolves
\* to the object it was issued for.
THEOREM HandleNamesItsObjectAlways == TableSpec => []HandleNamesItsObject
<1>1. HandleInv => HandleNamesItsObject
  BY Resolves DEF HandleInv, HandleNamesItsObject, LiveIsIssued
<1>. QED
  BY <1>1, HandleInvAlways, PTL

\* A closed handle never resolves again: the generations exclude ABA for as
\* long as the process lives.
THEOREM ClosedHandlesStayDead == TableSpec => StaleHandlesStayDead
<1>1. ASSUME HandleInv, [TableNext]_tableVars
      PROVE  [\A p \in issued : GetAny(p[1]) = NoObject => GetAny(p[1])' = NoObject]_tableVars
  BY <1>1, DeadStaysDead
<1>. QED
  BY <1>1, HandleInvAlways, PTL DEF TableSpec, StaleHandlesStayDead

-----------------------------------------------------------------------------
(***************************************************************************)
(* Proofs about ObjectLifecycle.  NoOrphan is not inductive: that a child  *)
(* in the table has a manager that is open, or is on the list of a         *)
(* manager's close(), needs to know who may still hold the child between   *)
(* insert() and set_handle (Opens), that two threads never have the same   *)
(* object in hand (Alone), that every other child in the table is listed   *)
(* by an open manager or by a close() (KeptInv), and that children_ and    *)
(* the list of a close() name only children that were registered           *)
(* (ListedInv, TodoInv).  These rest on what is shown above of the table   *)
(* alone: a handle is issued once and for one object.  Their conjunction,  *)
(* LifeInv, is inductive.                                                  *)
(***************************************************************************)

\* The objects a handle leads to.
Live == {o \in Objects : InTable(o)}

\* What the table alone guarantees about its objects.
TableInv ==
    /\ HandleInv
    /\ \A i \in DOMAIN slots : slots[i].retired => slots[i].object = NoObject
    /\ \A p \in issued : p[2] \in created
    /\ \A p, q \in issued : p[2] = q[2] => p = q

\* A thread on its way from insert() to the return of viOpen, which has the
\* child in hand; one that has taken an object out of the table.
InHand  == {"add", "undo", "set", "lock"}
Closing == {"close", "detach"}

\* The child in hand is the manager's, and nobody else can reach it before
\* add_child; after add_child and before set_handle only the manager can.
Opens(t) ==
    /\ pc[t] \in InHand \cup {"insert"} => work[t].manager \in Objects /\ work[t].todo = {}
    /\ pc[t] \in InHand =>
          /\ work[t].object \in Objects
          /\ <<work[t].handle, work[t].object>> \in issued
          /\ parent[work[t].object] = work[t].manager
    /\ pc[t] \in {"add", "undo", "set"} => work[t].handle \notin known
    /\ pc[t] \in {"add", "undo"} =>
          /\ work[t].object \in Live
          /\ \A m \in Objects : work[t].handle \notin children[m]
          /\ \A u \in Threads : work[t].handle \notin work[u].todo
    /\ pc[t] = "set" => \A m \in Objects : work[t].handle \in children[m] =>
          /\ work[t].object \in Live
          /\ \A u \in Threads : work[t].handle \notin work[u].todo

\* The object being closed is out of the table, and close() was not entered
\* before.  Only a manager's close() has other children to come back to.
Closes(t) ==
    /\ pc[t] = "idle" => work[t].todo = {}
    /\ pc[t] = "children" => work[t].manager \in Objects
    /\ pc[t] \in Closing =>
          /\ work[t].object \in created \ Live
          /\ work[t].todo # {} => work[t].manager \in Objects /\ parent[work[t].object] \in Objects
    /\ pc[t] = "close" => closes[work[t].object] = 0
    /\ pc[t] = "detach" => parent[work[t].object] \in Objects

\* No two threads have the same child in hand, or are about to close the same
\* object.
Alone ==
    \A t, u \in Threads : t # u =>
        /\ pc[t] \in InHand /\ pc[u] \in InHand => work[t].object # work[u].object
        /\ pc[t] = "close" /\ pc[u] = "close" => work[t].object # work[u].object

\* What is known of an object: nothing before it is created; not closed while it
\* is in the table; closed at most once.
ObjectInv(o) ==
    /\ o \notin created => closes[o] = 0 /\ parent[o] = NoObject
    /\ o \in Live => closes[o] = 0
    /\ closes[o] \in {0, 1}
    /\ handleOf[o] # 0 => <<handleOf[o], o>> \in issued

\* A handle the application has, or one on the list of a manager's close().
KnownInv == \A h \in known : \E o \in Objects : <<h, o>> \in issued
\* The lists of a manager's close() name handles of children.
TodoInv ==
    \A t \in Threads : \A h \in work[t].todo :
        \E o \in Objects : <<h, o>> \in issued /\ parent[o] \in Objects

\* The objects that threads have in their hands: children before add_child,
\* children before set_handle, objects being closed; and the handles that a
\* manager's close() has still to go through.
Unlisted == {o \in Objects : \E t \in Threads : pc[t] \in {"add", "undo"} /\ work[t].object = o}
Unset    == {o \in Objects : \E t \in Threads : pc[t] = "set" /\ work[t].object = o}
Dying    == {o \in Objects : \E t \in Threads : pc[t] \in Closing /\ work[t].object = o}
Todo     == {h \in Nat : \E t \in Threads : pc[t] \in Closing \cup {"children"} /\ h \in work[t].todo}

\* A handle in children_: it is in the table or being closed, and close() will
\* find it in handle_ unless viOpen is still before set_handle.
ListedInv ==
    \A m \in Objects : \A h \in children[m] : \E o \in Objects :
        /\ <<h, o>> \in issued
        /\ parent[o] = m
        /\ o \in Live \cup Dying
        /\ handleOf[o] = h \/ o \in Unset

\* A child in the table is in the hands of viOpen, or on its manager's list, or on
\* the list of its manager's close().
KeptInv ==
    \A o \in Live : parent[o] # NoObject /\ o \notin Unlisted =>
        \E h \in Nat :
           /\ <<h, o>> \in issued
           /\ h \in Todo \/ (~rmClosed[parent[o]] /\ h \in children[parent[o]])

\* The inductive invariant of the objects.
LifeInv ==
    /\ TypeOK
    /\ TableInv
    /\ \A t \in Threads : Opens(t) /\ Closes(t)
    /\ Alone
    /\ \A o \in Objects : ObjectInv(o)
    /\ KnownInv
    /\ TodoInv
    /\ ListedInv
    /\ KeptInv

-----------------------------------------------------------------------------
\* An issued handle leads to its object as long as that is in the table.
LEMMA Leads ==
    ASSUME TableInv, NEW h, NEW o, <<h, o>> \in issued
    PROVE  /\ h \in Nat /\ h # 0
           /\ o \in Objects /\ o \in created /\ o # NoObject
           /\ o \in Live => GetAny(h) = o
           /\ o \notin Live => GetAny(h) = NoObject
<1>1. /\ h \in Nat /\ o \in Objects /\ o \in created /\ o # NoObject
      /\ Placed(<<h, o>>)
      /\ TableTypeOK
  BY DEF TableInv, HandleInv, TableTypeOK
<1>2. h # 0
  <2>1. IndexField(h) \in DOMAIN slots
    BY <1>1 DEF Placed
  <2>2. IndexField(h) # 0
    BY <1>1, <2>1, SlotFields
  <2>. QED
    BY <2>2 DEF IndexField
<1>3. GetAny(h) \in {NoObject, o}
  BY Resolves DEF TableInv
<1>4. ASSUME o \in Live PROVE GetAny(h) = o
  <2>1. PICK i \in DOMAIN slots : slots[i].object = o
    BY <1>4 DEF Live, InTable
  <2>2. /\ slots[i].type \in ObjectTypes
        /\ slots[i].generation \in 1 .. MaxGeneration
        /\ i \in 1 .. MaxSlots
    BY <1>1, SlotFields
  <2>3. PICK e : e = Encode(slots[i].type, slots[i].generation, i)
    OBVIOUS
  <2>4. <<e, o>> \in issued
    BY <1>1, <2>1, <2>3 DEF TableInv, HandleInv, LiveIsIssued
  <2>5. e = h
    BY <2>4 DEF TableInv
  <2>6. Names(h, i)
    <3>1. /\ Decodable(h) /\ i = IndexField(h)
          /\ TypeField(h) = slots[i].type
          /\ GenerationField(h) = slots[i].generation
      <4>1. /\ TypeField(Encode(slots[i].type, slots[i].generation, i)) = slots[i].type
            /\ GenerationField(Encode(slots[i].type, slots[i].generation, i)) = slots[i].generation
            /\ IndexField(Encode(slots[i].type, slots[i].generation, i)) = i
            /\ Decodable(Encode(slots[i].type, slots[i].generation, i))
        BY <2>2, DecodeEncode
      <4>. QED
        BY <2>3, <2>5, <4>1
    <3>2. ~slots[i].retired
      BY <1>1, <2>1 DEF TableInv
    <3>. QED
      BY <1>1, <2>1, <3>1, <3>2 DEF Names
  <2>. QED
    BY <2>1, <2>6 DEF GetAny, Names
<1>5. ASSUME o \notin Live PROVE GetAny(h) = NoObject
  <2>1. SUFFICES ASSUME GetAny(h) = o PROVE FALSE
    BY <1>3
  <2>2. PICK i \in DOMAIN slots : Names(h, i)
    BY <1>1, <2>1 DEF GetAny
  <2>3. slots[i].object = o
    BY <2>1, <2>2 DEF GetAny, Names
  <2>. QED
    BY <1>1, <1>5, <2>3 DEF Live, InTable
<1>. QED
  BY <1>1, <1>2, <1>4, <1>5

\* Removing an issued handle takes its object out of the table.
LEMMA RemoveLive ==
    ASSUME TableInv, NEW h, NEW o, <<h, o>> \in issued, Remove(h),
           created' = created
    PROVE  /\ TableInv'
           /\ o \in Live
           /\ GetAny(h) = o
           /\ Live' = Live \ {o}
           /\ issued' = issued
<1>1. h \in Nat /\ o \in Objects /\ o # NoObject /\ o \in Live /\ GetAny(h) = o
  BY Leads DEF Remove
<1>2. HandleInv' /\ HandleInv /\ TableTypeOK
  BY <1>1, RemoveInv DEF TableInv, HandleInv
<1>3. PICK k \in DOMAIN slots : k = IndexField(h) /\ slots[k].object = o
  BY <1>1 DEF GetAny, Names
<1>4. slots' = [slots EXCEPT ![k] = Vacate(@)] /\ issued' = issued
  BY <1>3 DEF Remove
<1>5. DOMAIN slots' = DOMAIN slots
  BY <1>4
<1>6. slots'[k] = Vacate(slots[k]) /\ \A j \in DOMAIN slots : j # k => slots'[j] = slots[j]
  BY <1>3, <1>4
<1>7. slots'[k].object = NoObject
  BY <1>6 DEF Vacate
<1>8. \A i \in DOMAIN slots' : slots'[i].retired => slots'[i].object = NoObject
  BY <1>5, <1>6, <1>7 DEF TableInv
<1>9. TableInv'
  BY <1>2, <1>4, <1>8 DEF TableInv
<1>10. ASSUME NEW j \in DOMAIN slots, slots[j].object = o PROVE j = k
  <2>1. <<Encode(slots[j].type, slots[j].generation, j), o>> \in issued
    BY <1>1, <1>10 DEF TableInv, HandleInv, LiveIsIssued
  <2>2. h = Encode(slots[j].type, slots[j].generation, j)
    BY <2>1 DEF TableInv
  <2>. QED
    BY <1>2, <1>3, <2>2, SlotFields, DecodeEncode
<1>11. ASSUME NEW x \in Objects PROVE (x \in Live)' <=> x \in Live /\ x # o
  <2>1. x # NoObject
    OBVIOUS
  <2>. QED
    BY <1>3, <1>5, <1>6, <1>7, <1>10, <2>1 DEF Live, InTable
<1>12. Live' = Live \ {o}
  BY <1>11 DEF Live
<1>. QED
  BY <1>1, <1>4, <1>9, <1>12

\* insert() puts a new object into the table under a new handle.
LEMMA InsertLive ==
    ASSUME TableInv, created \in SUBSET Objects, NEW type \in ObjectTypes,
           NEW o \in Objects \ created,
           Insert(type, o), created' = created \cup {o}
    PROVE  \E h \in Nat :
              /\ h = InsertedHandle(type)
              /\ TableInv'
              /\ Live' = Live \cup {o}
              /\ issued' = issued \cup {<<h, o>>}
              /\ \A p \in issued : p[1] # h /\ p[2] # o
<1>1. HandleInv /\ HandleInv' /\ TableTypeOK
  BY InsertInv DEF TableInv, HandleInv
<1>2. PICK h : h = InsertedHandle(type)
  OBVIOUS
<1>3. issued' = issued \cup {<<h, o>>}
  BY <1>2 DEF Insert
<1>4. h \in Nat
  BY <1>1, <1>3 DEF HandleInv, TableTypeOK
<1>5. PICK k \in 1 .. MaxSlots : Filled(k, type, o)
  BY <1>1, InsertEffect
<1>6. \A p \in issued : p[2] # o
  BY DEF TableInv
<1>7. \A p \in issued : p[1] # h
  <2>. SUFFICES ASSUME NEW p \in issued, p[1] = h PROVE FALSE
    OBVIOUS
  <2>1. p \in issued' /\ <<h, o>> \in issued' /\ p[1] = <<h, o>>[1]
    BY <1>3
  <2>2. p = <<h, o>>
    BY <1>1, <2>1 DEF HandleInv
  <2>. QED
    BY <1>6, <2>2
<1>8. \A i \in DOMAIN slots' : slots'[i].retired => slots'[i].object = NoObject
  BY <1>5 DEF Filled, TableInv
<1>9. TableInv'
  BY <1>1, <1>3, <1>6, <1>8 DEF TableInv
<1>10. ASSUME NEW x \in Objects PROVE (x \in Live)' <=> x \in Live \/ x = o
  <2>1. x # NoObject
    OBVIOUS
  <2>2. \A j \in DOMAIN slots : slots[j].object = x => j # k
    BY <1>5, <2>1 DEF Filled, Usable
  <2>. QED
    BY <1>5, <2>2 DEF Live, InTable, Filled
<1>11. Live' = Live \cup {o}
  BY <1>10 DEF Live
<1>. QED
  BY <1>2, <1>3, <1>4, <1>6, <1>7, <1>9, <1>11

\* A step that leaves the table alone.
LEMMA TableKept ==
    ASSUME TableInv, UNCHANGED <<slots, issued, created>>
    PROVE  TableInv' /\ Live' = Live
BY DEF TableInv, HandleInv, TableTypeOK, Placed, LiveIsIssued, Live, InTable

\* What Goto does to the threads.
LEMMA GotoEffect ==
    ASSUME TypeOK, NEW t \in Threads, NEW place \in PCs, NEW w, Goto(t, place, w)
    PROVE  /\ pc' \in [Threads -> PCs]
           /\ pc'[t] = place
           /\ work'[t] = w
           /\ \A u \in Threads : u # t => pc'[u] = pc[u] /\ work'[u] = work[u]
BY DEF TypeOK, Goto

\* A handle and its object determine each other.
LEMMA OneToOne ==
    ASSUME TableInv
    PROVE  /\ \A h, o, x : <<h, o>> \in issued /\ <<h, x>> \in issued => o = x
           /\ \A h, k, o : <<h, o>> \in issued /\ <<k, o>> \in issued => h = k
BY DEF TableInv, HandleInv

\* The children in the hands of two threads have different handles.
LEMMA HandsDiffer ==
    ASSUME LifeInv, NEW t \in Threads, NEW u \in Threads, t # u,
           pc[t] \in InHand, pc[u] \in InHand
    PROVE  work[t].handle # work[u].handle
BY OneToOne DEF LifeInv, Opens, Alone

-----------------------------------------------------------------------------
\* add_child: the manager lists the child, or has closed and refuses it.
LEMMA AddChildInv ==
    ASSUME LifeInv, NEW t \in Threads, AddChild(t)
    PROVE  LifeInv'
<1>0. /\ TypeOK /\ TableInv /\ Opens(t) /\ pc[t] = "add"
      /\ UNCHANGED <<slots, issued, created, parent, handleOf, closes, rmClosed, known>>
  BY DEF LifeInv, AddChild
<1>1. TableInv' /\ Live' = Live
  BY <1>0, TableKept
<1>2. PICK m \in Objects : m = work[t].manager
  BY <1>0 DEF Opens, InHand
<1>3. PICK h \in Nat : h = work[t].handle
  BY <1>0 DEF TypeOK
<1>4. PICK place \in {"undo", "set"} :
        /\ Goto(t, place, work[t])
        /\ place = "undo" => children' = children
        /\ place = "set" => ~rmClosed[m] /\ children' = [children EXCEPT ![m] = @ \cup {h}]
  BY <1>2, <1>3 DEF AddChild
<1>5. /\ pc' \in [Threads -> PCs] /\ pc'[t] = place
      /\ \A u \in Threads : u # t => pc'[u] = pc[u]
      /\ \A u \in Threads : work'[u] = work[u]
  BY <1>0, <1>4, GotoEffect DEF PCs
<1>6. /\ place = "set" => children'[m] = children[m] \cup {h}
      /\ \A x \in Objects : x # m \/ place = "undo" => children'[x] = children[x]
  BY <1>0, <1>4 DEF TypeOK
<1>7. /\ Unlisted \ {work[t].object} \subseteq Unlisted'
      /\ place = "undo" => Unlisted \subseteq Unlisted'
      /\ Unset \subseteq Unset'
      /\ place = "set" => work[t].object \in Unset'
      /\ Dying' = Dying /\ Todo' = Todo
  BY <1>0, <1>5 DEF Unlisted, Unset, Dying, Todo, Closing, Opens, InHand
<1>10. TypeOK'
  BY <1>0, <1>1, <1>4, <1>5 DEF TypeOK, Goto, TableInv, HandleInv
<1>11. ASSUME NEW u \in Threads PROVE Opens(u)'
  <2>1. \A x \in Threads : Opens(x)
    BY DEF LifeInv
  <2>2. u # t /\ pc[u] \in InHand => work[u].handle # h
    BY <1>0, <1>3, HandsDiffer DEF InHand
  <2>. QED
    BY <1>0, <1>1, <1>3, <1>5, <1>6, <2>1, <2>2 DEF Opens, InHand
<1>12. ASSUME NEW u \in Threads PROVE Closes(u)'
  BY <1>0, <1>1, <1>5 DEF LifeInv, Closes, Closing
<1>13. Alone'
  BY <1>0, <1>5 DEF LifeInv, Alone, InHand
<1>14. ASSUME NEW o \in Objects PROVE ObjectInv(o)'
  BY <1>0, <1>1 DEF LifeInv, ObjectInv
<1>15. KnownInv' /\ TodoInv'
  BY <1>0, <1>5 DEF LifeInv, KnownInv, TodoInv
<1>16. ListedInv'
  BY <1>0, <1>1, <1>2, <1>3, <1>6, <1>7 DEF LifeInv, ListedInv, Opens, InHand
<1>17. KeptInv'
  <2>1. ASSUME NEW o \in Live, parent[o] # NoObject, o \notin Unlisted'
        PROVE  \E k \in Nat :
                  /\ <<k, o>> \in issued
                  /\ k \in Todo \/ (~rmClosed[parent[o]] /\ k \in children'[parent[o]])
    <3>1. CASE o = work[t].object /\ place = "set"
      BY <1>0, <1>2, <1>3, <1>4, <1>6, <3>1 DEF Opens, InHand
    <3>2. CASE o # work[t].object \/ place = "undo"
      <4>1. PICK k \in Nat :
              /\ <<k, o>> \in issued
              /\ k \in Todo \/ (~rmClosed[parent[o]] /\ k \in children[parent[o]])
        BY <1>4, <1>7, <2>1, <3>2 DEF LifeInv, KeptInv
      <4>2. parent[o] \in Objects
        BY <1>0, <2>1 DEF TypeOK, Live
      <4>. QED
        BY <1>4, <1>6, <4>1, <4>2
    <3>. QED
      BY <1>4, <3>1, <3>2
  <2>. QED
    BY <1>0, <1>1, <1>7, <2>1 DEF KeptInv
<1>. QED
  BY <1>1, <1>10, <1>11, <1>12, <1>13, <1>14, <1>15, <1>16, <1>17 DEF LifeInv

\* A call that ends without touching an object: viOpen before insert() or after
\* set_handle, and a manager's close() with no child left.
LEMMA FinishInv ==
    ASSUME LifeInv, NEW t \in Threads, Finish(t),
           \/ pc[t] \in {"insert", "lock"}
           \/ pc[t] = "children" /\ work[t].todo = {},
           \/ known' = known
           \/ pc[t] = "lock" /\ known' = known \cup {work[t].handle},
           UNCHANGED <<slots, issued, objectVars>>
    PROVE  LifeInv'
<1>0. /\ TypeOK /\ TableInv /\ Opens(t) /\ \A u \in Threads : Opens(u) /\ Closes(u)
      /\ UNCHANGED <<slots, issued, created, parent, handleOf, closes, children, rmClosed>>
  BY DEF LifeInv, objectVars
<1>1. TableInv' /\ Live' = Live
  BY <1>0, TableKept
<1>2. /\ pc' \in [Threads -> PCs] /\ pc'[t] = "idle" /\ work'[t] = NoWork
      /\ \A u \in Threads : u # t => pc'[u] = pc[u] /\ work'[u] = work[u]
  BY <1>0, GotoEffect DEF PCs, Finish
<1>3. NoWork.todo = {} /\ NoWork \in [manager : Objects \cup {NoObject},
                                      object  : Objects \cup {NoObject},
                                      handle  : Nat, todo : SUBSET Nat]
  BY DEF NoWork
<1>7. Unlisted' = Unlisted /\ Unset' = Unset /\ Dying' = Dying /\ Todo' = Todo
  BY <1>2, <1>3 DEF Unlisted, Unset, Dying, Todo, Closing
<1>10. TypeOK'
  <2>1. work[t].handle \in Nat /\ known \in SUBSET Nat
    BY <1>0 DEF TypeOK
  <2>2. known' \in SUBSET Nat
    BY <2>1
  <2>. QED
    BY <1>0, <1>1, <1>2, <1>3, <2>2 DEF TypeOK, Finish, Goto, TableInv, HandleInv
<1>11. ASSUME NEW u \in Threads PROVE Opens(u)'
  <2>1. u # t /\ pc[t] = "lock" /\ pc[u] \in InHand => work[u].handle # work[t].handle
    BY HandsDiffer DEF InHand
  <2>. QED
    BY <1>0, <1>1, <1>2, <1>3, <2>1 DEF Opens, InHand
<1>12. ASSUME NEW u \in Threads PROVE Closes(u)'
  BY <1>0, <1>1, <1>2, <1>3 DEF Closes, Closing
<1>13. Alone'
  BY <1>2 DEF LifeInv, Alone, InHand
<1>14. ASSUME NEW o \in Objects PROVE ObjectInv(o)'
  BY <1>0, <1>1 DEF LifeInv, ObjectInv
<1>15. KnownInv' /\ TodoInv'
  BY <1>0, <1>2, <1>3 DEF LifeInv, KnownInv, TodoInv, Opens, InHand
<1>16. ListedInv'
  BY <1>0, <1>1, <1>7 DEF LifeInv, ListedInv
<1>17. KeptInv'
  BY <1>0, <1>1, <1>7 DEF LifeInv, KeptInv
<1>. QED
  BY <1>1, <1>10, <1>11, <1>12, <1>13, <1>14, <1>15, <1>16, <1>17 DEF LifeInv

\* viOpen and viFindRsrc find the manager.
LEMMA LookupInv ==
    ASSUME LifeInv, NEW t \in Threads, NEW handle \in known, Lookup(t, handle)
    PROVE  LifeInv'
<1>0. /\ TypeOK /\ TableInv /\ pc[t] = "idle" /\ \A u \in Threads : Opens(u) /\ Closes(u)
      /\ UNCHANGED <<slots, issued, created, parent, handleOf, closes, children, rmClosed, known>>
  BY DEF LifeInv, objectVars, Lookup
<1>1. TableInv' /\ Live' = Live
  BY <1>0, TableKept
<1>2. PICK m \in Objects : m = Get(handle, ResourceManagerType)
  <2>1. PICK o \in Objects : <<handle, o>> \in issued
    BY DEF LifeInv, KnownInv
  <2>. QED
    BY <1>0, <2>1, Leads DEF Lookup, Get
<1>3. PICK w : w = [NoWork EXCEPT !.manager = m]
  OBVIOUS
<1>4. /\ w.todo = {} /\ w.manager = m
      /\ w \in [manager : Objects \cup {NoObject}, object : Objects \cup {NoObject},
                handle : Nat, todo : SUBSET Nat]
  BY <1>3 DEF NoWork
<1>5. Goto(t, "insert", w)
  BY <1>2, <1>3 DEF Lookup
<1>6. /\ pc' \in [Threads -> PCs] /\ pc'[t] = "insert" /\ work'[t] = w
      /\ \A u \in Threads : u # t => pc'[u] = pc[u] /\ work'[u] = work[u]
  BY <1>0, <1>5, GotoEffect DEF PCs
<1>7. Unlisted' = Unlisted /\ Unset' = Unset /\ Dying' = Dying /\ Todo' = Todo
  BY <1>0, <1>6 DEF Unlisted, Unset, Dying, Todo, Closing
<1>10. TypeOK'
  BY <1>0, <1>1, <1>4, <1>5, <1>6 DEF TypeOK, Goto, TableInv, HandleInv
<1>11. ASSUME NEW u \in Threads PROVE Opens(u)'
  BY <1>0, <1>1, <1>4, <1>6 DEF Opens, InHand
<1>12. ASSUME NEW u \in Threads PROVE Closes(u)'
  BY <1>0, <1>1, <1>4, <1>6 DEF Closes, Closing
<1>13. Alone'
  BY <1>6 DEF LifeInv, Alone, InHand
<1>14. ASSUME NEW o \in Objects PROVE ObjectInv(o)'
  BY <1>0, <1>1 DEF LifeInv, ObjectInv
<1>15. KnownInv' /\ TodoInv'
  BY <1>0, <1>4, <1>6 DEF LifeInv, KnownInv, TodoInv
<1>16. ListedInv'
  BY <1>0, <1>1, <1>7 DEF LifeInv, ListedInv
<1>17. KeptInv'
  BY <1>0, <1>1, <1>7 DEF LifeInv, KeptInv
<1>. QED
  BY <1>1, <1>10, <1>11, <1>12, <1>13, <1>14, <1>15, <1>16, <1>17 DEF LifeInv

\* set_handle: from here on the child may close itself.
LEMMA SetHandleInv ==
    ASSUME LifeInv, NEW t \in Threads, SetHandle(t)
    PROVE  LifeInv'
<1>0. /\ TypeOK /\ TableInv /\ pc[t] = "set" /\ \A u \in Threads : Opens(u) /\ Closes(u)
      /\ Goto(t, "lock", work[t])
      /\ UNCHANGED <<slots, issued, created, parent, closes, children, rmClosed, known>>
  BY DEF LifeInv, SetHandle
<1>1. TableInv' /\ Live' = Live
  BY <1>0, TableKept
<1>2. PICK x \in Objects : x = work[t].object
  BY <1>0 DEF Opens, InHand
<1>3. PICK h \in Nat : h = work[t].handle /\ <<h, x>> \in issued
  BY <1>0, <1>2 DEF Opens, InHand, TypeOK
<1>4. /\ handleOf' \in [Objects -> Nat]
      /\ handleOf'[x] = h /\ \A o \in Objects : o # x => handleOf'[o] = handleOf[o]
  BY <1>0, <1>2, <1>3 DEF SetHandle, TypeOK
<1>5. /\ pc' \in [Threads -> PCs] /\ pc'[t] = "lock"
      /\ \A u \in Threads : u # t => pc'[u] = pc[u]
      /\ \A u \in Threads : work'[u] = work[u]
  BY <1>0, GotoEffect DEF PCs
<1>7. Unlisted' = Unlisted /\ Unset \ {x} \subseteq Unset' /\ Dying' = Dying /\ Todo' = Todo
  BY <1>0, <1>2, <1>5 DEF Unlisted, Unset, Dying, Todo, Closing
<1>10. TypeOK'
  BY <1>0, <1>1, <1>4, <1>5 DEF TypeOK, Goto, TableInv, HandleInv
<1>11. ASSUME NEW u \in Threads PROVE Opens(u)'
  BY <1>0, <1>1, <1>5 DEF Opens, InHand
<1>12. ASSUME NEW u \in Threads PROVE Closes(u)'
  BY <1>0, <1>1, <1>5 DEF Closes, Closing
<1>13. Alone'
  BY <1>0, <1>5 DEF LifeInv, Alone, InHand
<1>14. ASSUME NEW o \in Objects PROVE ObjectInv(o)'
  BY <1>0, <1>1, <1>3, <1>4 DEF LifeInv, ObjectInv
<1>15. KnownInv' /\ TodoInv'
  BY <1>0, <1>5 DEF LifeInv, KnownInv, TodoInv
<1>16. ListedInv'
  <2>1. ASSUME NEW m \in Objects, NEW k \in children[m]
        PROVE  \E o \in Objects : /\ <<k, o>> \in issued
                                  /\ parent[o] = m
                                  /\ o \in Live \cup Dying
                                  /\ handleOf'[o] = k \/ o \in Unset'
    <3>1. PICK o \in Objects : /\ <<k, o>> \in issued
                               /\ parent[o] = m
                               /\ o \in Live \cup Dying
                               /\ handleOf[o] = k \/ o \in Unset
      BY DEF LifeInv, ListedInv
    <3>2. o = x => k = h
      BY <1>0, <1>3, <3>1, OneToOne
    <3>. QED
      BY <1>4, <1>7, <3>1, <3>2
  <2>. QED
    BY <1>0, <1>1, <1>7, <2>1 DEF ListedInv
<1>17. KeptInv'
  BY <1>0, <1>1, <1>7 DEF LifeInv, KeptInv
<1>. QED
  BY <1>1, <1>10, <1>11, <1>12, <1>13, <1>14, <1>15, <1>16, <1>17 DEF LifeInv

\* close() of an object is entered.
LEMMA CloseObjectInv ==
    ASSUME LifeInv, NEW t \in Threads, CloseObject(t)
    PROVE  LifeInv'
<1>0. /\ TypeOK /\ TableInv /\ pc[t] = "close" /\ \A u \in Threads : Opens(u) /\ Closes(u)
      /\ Goto(t, "detach", work[t])
      /\ UNCHANGED <<slots, issued, created, parent, handleOf, children, rmClosed, known>>
  BY DEF LifeInv, CloseObject
<1>1. TableInv' /\ Live' = Live
  BY <1>0, TableKept
<1>2. PICK x \in Objects : x = work[t].object /\ x \in created \ Live /\ closes[x] = 0 /\ parent[x] \in Objects
  BY <1>0 DEF Closes, Closing, TypeOK, CloseObject
<1>4. /\ closes' \in [Objects -> Nat]
      /\ closes'[x] = 1 /\ \A o \in Objects : o # x => closes'[o] = closes[o]
  BY <1>0, <1>2 DEF CloseObject, TypeOK
<1>5. /\ pc' \in [Threads -> PCs] /\ pc'[t] = "detach"
      /\ \A u \in Threads : u # t => pc'[u] = pc[u]
      /\ \A u \in Threads : work'[u] = work[u]
  BY <1>0, GotoEffect DEF PCs
<1>7. Unlisted' = Unlisted /\ Unset' = Unset /\ Dying' = Dying /\ Todo' = Todo
  BY <1>0, <1>5 DEF Unlisted, Unset, Dying, Todo, Closing
<1>10. TypeOK'
  BY <1>0, <1>1, <1>4, <1>5 DEF TypeOK, Goto, TableInv, HandleInv
<1>11. ASSUME NEW u \in Threads PROVE Opens(u)'
  BY <1>0, <1>1, <1>5 DEF Opens, InHand
<1>12. ASSUME NEW u \in Threads PROVE Closes(u)'
  <2>1. u # t /\ pc[u] = "close" => work[u].object # x
    BY <1>0, <1>2 DEF LifeInv, Alone
  <2>. QED
    BY <1>0, <1>1, <1>2, <1>4, <1>5, <2>1 DEF Closes, Closing, TypeOK
<1>13. Alone'
  BY <1>0, <1>5 DEF LifeInv, Alone, InHand
<1>14. ASSUME NEW o \in Objects PROVE ObjectInv(o)'
  BY <1>0, <1>1, <1>2, <1>4 DEF LifeInv, ObjectInv
<1>15. KnownInv' /\ TodoInv'
  BY <1>0, <1>5 DEF LifeInv, KnownInv, TodoInv
<1>16. ListedInv'
  BY <1>0, <1>1, <1>7 DEF LifeInv, ListedInv
<1>17. KeptInv'
  BY <1>0, <1>1, <1>7 DEF LifeInv, KeptInv
<1>. QED
  BY <1>1, <1>10, <1>11, <1>12, <1>13, <1>14, <1>15, <1>16, <1>17 DEF LifeInv

\* remove_child takes the handle of the closed object off the manager's list and
\* no other.
LEMMA DetachInv ==
    ASSUME LifeInv, NEW t \in Threads, Detach(t)
    PROVE  LifeInv'
<1>0. /\ TypeOK /\ TableInv /\ pc[t] = "detach" /\ \A u \in Threads : Opens(u) /\ Closes(u)
      /\ UNCHANGED <<slots, issued, created, parent, handleOf, closes, rmClosed, known>>
  BY DEF LifeInv, Detach
<1>1. TableInv' /\ Live' = Live
  BY <1>0, TableKept
<1>2. PICK x \in Objects : x = work[t].object /\ x \notin Live /\ parent[x] \in Objects
  BY <1>0 DEF Closes, Closing, TypeOK
<1>3. /\ children' \in [Objects -> SUBSET Nat]
      /\ children'[parent[x]] = children[parent[x]] \ {handleOf[x]}
      /\ \A m \in Objects : m # parent[x] => children'[m] = children[m]
  BY <1>0, <1>2 DEF Detach, TypeOK
<1>4. \E w \in [manager : Objects \cup {NoObject}, object : Objects \cup {NoObject},
                handle : Nat, todo : SUBSET Nat] :
        /\ w.todo = work[t].todo
        /\ \/ Goto(t, "idle", w) /\ w.todo = {}
           \/ Goto(t, "children", w) /\ w.manager \in Objects
  <2>1. CASE work[t].manager = NoObject
    <3>1. work[t].todo = {} /\ Goto(t, "idle", NoWork)
      BY <1>0, <2>1 DEF Closes, Closing, Detach, Resume, Finish
    <3>2. /\ NoWork.todo = {}
          /\ NoWork \in [manager : Objects \cup {NoObject}, object : Objects \cup {NoObject},
                         handle : Nat, todo : SUBSET Nat]
      BY DEF NoWork
    <3>. QED
      BY <3>1, <3>2, Zenon
  <2>2. CASE work[t].manager # NoObject
    <3>1. PICK w : w = [work[t] EXCEPT !.object = NoObject]
      OBVIOUS
    <3>2. Goto(t, "children", w)
      BY <2>2, <3>1 DEF Detach, Resume
    <3>3. /\ w \in [manager : Objects \cup {NoObject}, object : Objects \cup {NoObject},
                    handle : Nat, todo : SUBSET Nat]
          /\ w.todo = work[t].todo /\ w.manager \in Objects
      BY <1>0, <2>2, <3>1 DEF TypeOK
    <3>. QED
      BY <3>2, <3>3, Zenon
  <2>. QED
    BY <2>1, <2>2
<1>4a. PICK w \in [manager : Objects \cup {NoObject}, object : Objects \cup {NoObject},
                   handle : Nat, todo : SUBSET Nat] :
        /\ w.todo = work[t].todo
        /\ \/ Goto(t, "idle", w) /\ w.todo = {}
           \/ Goto(t, "children", w) /\ w.manager \in Objects
  BY <1>4, Zenon
<1>5. /\ pc' \in [Threads -> PCs] /\ work'[t] = w
      /\ \/ pc'[t] = "idle" /\ w.todo = {}
         \/ pc'[t] = "children" /\ w.manager \in Objects
      /\ \A u \in Threads : u # t => pc'[u] = pc[u] /\ work'[u] = work[u]
      /\ work' = [work EXCEPT ![t] = w]
  BY <1>0, <1>4a DEF Goto, TypeOK, PCs
<1>6. \A u \in Threads : work'[u].todo = work[u].todo
  BY <1>4a, <1>5
<1>7. Unlisted' = Unlisted /\ Unset' = Unset /\ Dying \ {x} \subseteq Dying' /\ Todo' = Todo
  BY <1>0, <1>2, <1>4a, <1>5 DEF Unlisted, Unset, Dying, Todo, Closing
<1>8. \A m \in Objects : children'[m] \subseteq children[m]
  BY <1>0, <1>2, <1>3 DEF TypeOK
<1>10. TypeOK'
  BY <1>0, <1>1, <1>3, <1>4a, <1>5 DEF TypeOK, TableInv, HandleInv
<1>11. ASSUME NEW u \in Threads PROVE Opens(u)'
  BY <1>0, <1>1, <1>4a, <1>5, <1>6, <1>8 DEF Opens, InHand
<1>12. ASSUME NEW u \in Threads PROVE Closes(u)'
  BY <1>0, <1>1, <1>4a, <1>5 DEF Closes, Closing
<1>13. Alone'
  BY <1>4a, <1>5 DEF LifeInv, Alone, InHand
<1>14. ASSUME NEW o \in Objects PROVE ObjectInv(o)'
  BY <1>0, <1>1 DEF LifeInv, ObjectInv
<1>15. KnownInv' /\ TodoInv'
  BY <1>0, <1>6 DEF LifeInv, KnownInv, TodoInv
<1>16. ListedInv'
  <2>1. ASSUME NEW m \in Objects, NEW k \in children'[m]
        PROVE  \E o \in Objects : /\ <<k, o>> \in issued
                                  /\ parent[o] = m
                                  /\ o \in Live \cup Dying'
                                  /\ handleOf[o] = k \/ o \in Unset
    <3>0. k \in children[m]
      BY <1>8
    <3>1. PICK o \in Objects : /\ <<k, o>> \in issued
                               /\ parent[o] = m
                               /\ o \in Live \cup Dying
                               /\ handleOf[o] = k \/ o \in Unset
      BY <3>0 DEF LifeInv, ListedInv
    <3>2. ASSUME o = x PROVE FALSE
      <4>1. handleOf[x] # k
        BY <1>3, <2>1, <3>1, <3>2
      <4>2. PICK u \in Threads : pc[u] = "set" /\ work[u].object = x
        BY <3>1, <3>2, <4>1 DEF Unset
      <4>3. work[u].handle = k
        BY <1>0, <3>1, <3>2, <4>2, OneToOne DEF Opens, InHand
      <4>. QED
        BY <1>0, <1>2, <3>0, <4>2, <4>3 DEF Opens
    <3>. QED
      BY <1>7, <3>1, <3>2
  <2>. QED
    BY <1>0, <1>1, <1>7, <2>1 DEF ListedInv
<1>17. KeptInv'
  <2>1. ASSUME NEW o \in Live, parent[o] # NoObject, o \notin Unlisted
        PROVE  \E k \in Nat :
                  /\ <<k, o>> \in issued
                  /\ k \in Todo \/ (~rmClosed[parent[o]] /\ k \in children'[parent[o]])
    <3>1. PICK k \in Nat :
            /\ <<k, o>> \in issued
            /\ k \in Todo \/ (~rmClosed[parent[o]] /\ k \in children[parent[o]])
      BY <2>1 DEF LifeInv, KeptInv
    <3>2. k # 0
      BY <1>0, <3>1, Leads
    <3>3. handleOf[x] # k
      <4>1. handleOf[x] # 0 => <<handleOf[x], x>> \in issued
        BY DEF LifeInv, ObjectInv
      <4>2. x # o
        BY <1>2
      <4>. QED
        BY <1>0, <3>1, <3>2, <4>1, <4>2, OneToOne
    <3>4. parent[o] \in Objects
      BY <1>0, <2>1 DEF TypeOK, Live
    <3>. QED
      BY <1>3, <3>1, <3>3, <3>4
  <2>. QED
    BY <1>0, <1>1, <1>7, <2>1 DEF KeptInv
<1>. QED
  BY <1>1, <1>10, <1>11, <1>12, <1>13, <1>14, <1>15, <1>16, <1>17 DEF LifeInv

\* take_children moves the manager's list to its close().
LEMMA TakeChildrenInv ==
    ASSUME LifeInv, NEW t \in Threads, TakeChildren(t)
    PROVE  LifeInv'
<1>0. /\ TypeOK /\ TableInv /\ pc[t] = "close" /\ \A u \in Threads : Opens(u) /\ Closes(u)
      /\ UNCHANGED <<slots, issued, created, parent, handleOf, known>>
  BY DEF LifeInv, TakeChildren
<1>1. TableInv' /\ Live' = Live
  BY <1>0, TableKept
<1>2. PICK m \in Objects : /\ m = work[t].object /\ m \in created \ Live /\ closes[m] = 0
                           /\ parent[m] = NoObject /\ work[t].todo = {}
  BY <1>0 DEF Closes, Closing, TypeOK, TakeChildren
<1>3. /\ children' \in [Objects -> SUBSET Nat] /\ children[m] \in SUBSET Nat
      /\ children'[m] = {} /\ \A o \in Objects : o # m => children'[o] = children[o]
  BY <1>0, <1>2 DEF TakeChildren, TypeOK
<1>4. /\ closes' \in [Objects -> Nat] /\ rmClosed' \in [Objects -> BOOLEAN]
      /\ closes'[m] = 1 /\ rmClosed'[m]
      /\ \A o \in Objects : o # m => closes'[o] = closes[o] /\ rmClosed'[o] = rmClosed[o]
  BY <1>0, <1>2 DEF TakeChildren, TypeOK
<1>5. PICK w : w = [NoWork EXCEPT !.manager = m, !.todo = children[m]]
  OBVIOUS
<1>6. /\ w \in [manager : Objects \cup {NoObject}, object : Objects \cup {NoObject},
                handle : Nat, todo : SUBSET Nat]
      /\ w.todo = children[m] /\ w.manager = m
  BY <1>3, <1>5 DEF NoWork
<1>7. Goto(t, "children", w)
  BY <1>2, <1>5 DEF TakeChildren
<1>8. /\ pc' \in [Threads -> PCs] /\ pc'[t] = "children" /\ work'[t] = w
      /\ \A u \in Threads : u # t => pc'[u] = pc[u] /\ work'[u] = work[u]
  BY <1>0, <1>7, GotoEffect DEF PCs
<1>9. /\ Unlisted' = Unlisted /\ Unset' = Unset /\ Dying \ {m} \subseteq Dying'
      /\ Todo \cup children[m] \subseteq Todo'
  BY <1>0, <1>2, <1>3, <1>6, <1>8 DEF Unlisted, Unset, Dying, Todo, Closing
<1>10. TypeOK'
  BY <1>0, <1>1, <1>3, <1>4, <1>6, <1>7, <1>8 DEF TypeOK, Goto, TableInv, HandleInv
<1>11. ASSUME NEW u \in Threads PROVE Opens(u)'
  <2>1. CASE u = t
    BY <1>8, <2>1 DEF Opens, InHand
  <2>2. CASE u # t
    <3>1. ASSUME NEW n \in Objects, n # m, work[u].handle \in children[n]
          PROVE  work[u].handle \notin children[m]
      <4>1. PICK o : <<work[u].handle, o>> \in issued /\ parent[o] = n
        BY <3>1 DEF LifeInv, ListedInv
      <4>2. ASSUME work[u].handle \in children[m] PROVE FALSE
        <5>1. PICK x : <<work[u].handle, x>> \in issued /\ parent[x] = m
          BY <4>2 DEF LifeInv, ListedInv
        <5>. QED
          BY <1>0, <3>1, <4>1, <5>1, OneToOne
      <4>. QED
        BY <4>2
    <3>. QED
      BY <1>0, <1>1, <1>2, <1>3, <1>6, <1>8, <2>2, <3>1 DEF Opens, InHand
  <2>. QED
    BY <2>1, <2>2
<1>12. ASSUME NEW u \in Threads PROVE Closes(u)'
  <2>1. u # t /\ pc[u] = "close" => work[u].object # m
    BY <1>0, <1>2 DEF LifeInv, Alone
  <2>. QED
    BY <1>0, <1>1, <1>2, <1>4, <1>6, <1>8, <2>1 DEF Closes, Closing, TypeOK
<1>13. Alone'
  BY <1>8 DEF LifeInv, Alone, InHand
<1>14. ASSUME NEW o \in Objects PROVE ObjectInv(o)'
  BY <1>0, <1>1, <1>2, <1>4 DEF LifeInv, ObjectInv
<1>15. KnownInv' /\ TodoInv'
  <2>1. \A h \in children[m] : \E o \in Objects : <<h, o>> \in issued /\ parent[o] \in Objects
    BY <1>2, ZenonT(60) DEF LifeInv, ListedInv
  <2>. QED
    BY <1>0, <1>6, <1>8, <2>1 DEF LifeInv, KnownInv, TodoInv
<1>16. ListedInv'
  <2>1. ASSUME NEW n \in Objects, NEW k \in children'[n]
        PROVE  \E o \in Objects : /\ <<k, o>> \in issued
                                  /\ parent[o] = n
                                  /\ o \in Live \cup Dying'
                                  /\ handleOf[o] = k \/ o \in Unset
    <3>0. k \in children[n]
      BY <1>3
    <3>1. PICK o \in Objects : /\ <<k, o>> \in issued
                               /\ parent[o] = n
                               /\ o \in Live \cup Dying
                               /\ handleOf[o] = k \/ o \in Unset
      BY <3>0 DEF LifeInv, ListedInv
    <3>. QED
      BY <1>2, <1>9, <3>1
  <2>. QED
    BY <1>0, <1>1, <1>9, <2>1 DEF ListedInv
<1>17. KeptInv'
  <2>1. ASSUME NEW o \in Live, parent[o] # NoObject, o \notin Unlisted
        PROVE  \E k \in Nat :
                  /\ <<k, o>> \in issued
                  /\ k \in Todo' \/ (~rmClosed'[parent[o]] /\ k \in children'[parent[o]])
    <3>1. PICK k \in Nat :
            /\ <<k, o>> \in issued
            /\ k \in Todo \/ (~rmClosed[parent[o]] /\ k \in children[parent[o]])
      BY <2>1 DEF LifeInv, KeptInv
    <3>2. parent[o] \in Objects
      BY <1>0, <2>1 DEF TypeOK, Live
    <3>. QED
      BY <1>3, <1>4, <1>9, <3>1, <3>2
  <2>. QED
    BY <1>0, <1>1, <1>9, <2>1 DEF KeptInv
<1>. QED
  BY <1>1, <1>10, <1>11, <1>12, <1>13, <1>14, <1>15, <1>16, <1>17 DEF LifeInv

\* A thread takes object o out of the table and is going to close it: viClose, a
\* viOpen that has failed, or a manager's close().  The object is not in the hands
\* of another viOpen before set_handle.
LEMMA RemoveStep ==
    ASSUME LifeInv, NEW t \in Threads, NEW h, NEW o, <<h, o>> \in issued, Remove(h),
           NEW w \in [manager : Objects \cup {NoObject}, object : Objects \cup {NoObject},
                      handle : Nat, todo : SUBSET Nat],
           Goto(t, "close", w), w.object = o,
           pc[t] \in {"idle", "undo", "lock", "children"},
           pc[t] = "undo" => work[t].object = o,
           w.todo = work[t].todo \ {h},
           w.todo # {} => w.manager \in Objects /\ parent[o] \in Objects,
           \A u \in Threads : u # t /\ pc[u] \in {"add", "undo"} => work[u].object # o,
           \A u \in Threads, m \in Objects :
              pc[u] = "set" /\ work[u].handle \in children[m] => work[u].object # o,
           UNCHANGED <<objectVars, known>>
    PROVE  LifeInv'
<1>0. /\ TypeOK /\ TableInv /\ \A u \in Threads : Opens(u) /\ Closes(u)
      /\ UNCHANGED <<created, parent, handleOf, closes, children, rmClosed, known>>
  BY DEF LifeInv, objectVars
<1>1. /\ TableInv' /\ o \in Live /\ Live' = Live \ {o} /\ issued' = issued
      /\ o \in Objects /\ o \in created /\ h \in Nat
  BY <1>0, RemoveLive, Leads
<1>2. /\ pc' \in [Threads -> PCs] /\ pc'[t] = "close" /\ work'[t] = w
      /\ \A u \in Threads : u # t => pc'[u] = pc[u] /\ work'[u] = work[u]
  BY <1>0, GotoEffect DEF PCs
<1>3. \A u \in Threads : work'[u].todo \subseteq work[u].todo
  BY <1>2
<1>7. /\ Unlisted \ {o} \subseteq Unlisted' /\ Unset' = Unset /\ Dying \cup {o} \subseteq Dying'
      /\ Todo \ {h} \subseteq Todo'
  <2>1. Unlisted \ {o} \subseteq Unlisted'
    BY <1>2 DEF Unlisted
  <2>2. Unset' = Unset /\ Dying \cup {o} \subseteq Dying'
    BY <1>1, <1>2 DEF Unset, Dying, Closing
  <2>3. Todo \ {h} \subseteq Todo'
    BY <1>2 DEF Todo, Closing
  <2>. QED
    BY <2>1, <2>2, <2>3
<1>10. TypeOK'
  BY <1>0, <1>1, <1>2 DEF TypeOK, Goto, TableInv, HandleInv
<1>11. ASSUME NEW u \in Threads PROVE Opens(u)'
  <2>1. CASE u = t
    BY <1>2, <2>1 DEF Opens, InHand
  <2>2. CASE u # t
    BY <1>0, <1>1, <1>2, <1>3, <2>2 DEF Opens, InHand
  <2>. QED
    BY <2>1, <2>2
<1>12. ASSUME NEW u \in Threads PROVE Closes(u)'
  <2>1. closes[o] = 0
    BY <1>1 DEF LifeInv, ObjectInv
  <2>. QED
    BY <1>0, <1>1, <1>2, <2>1 DEF Closes, Closing
<1>13. Alone'
  <2>1. \A u \in Threads : pc[u] = "close" => work[u].object # o
    BY <1>0, <1>1 DEF Closes, Closing
  <2>. QED
    BY <1>2, <2>1 DEF LifeInv, Alone, InHand
<1>14. ASSUME NEW x \in Objects PROVE ObjectInv(x)'
  BY <1>0, <1>1 DEF LifeInv, ObjectInv
<1>15. KnownInv' /\ TodoInv'
  BY <1>0, <1>1, <1>3 DEF LifeInv, KnownInv, TodoInv
<1>16. ListedInv'
  BY <1>0, <1>1, <1>7 DEF LifeInv, ListedInv
<1>17. KeptInv'
  <2>1. ASSUME NEW x \in Live', parent[x] # NoObject, x \notin Unlisted'
        PROVE  \E k \in Nat :
                  /\ <<k, x>> \in issued
                  /\ k \in Todo' \/ (~rmClosed[parent[x]] /\ k \in children[parent[x]])
    <3>0. x \in Live /\ x # o /\ x \notin Unlisted
      BY <1>1, <1>7, <2>1
    <3>1. PICK k \in Nat :
            /\ <<k, x>> \in issued
            /\ k \in Todo \/ (~rmClosed[parent[x]] /\ k \in children[parent[x]])
      BY <2>1, <3>0 DEF LifeInv, KeptInv
    <3>2. k # h
      BY <1>0, <3>0, <3>1, OneToOne
    <3>. QED
      BY <1>7, <3>1, <3>2
  <2>. QED
    BY <1>0, <1>1, <2>1 DEF KeptInv
<1>. QED
  BY <1>1, <1>10, <1>11, <1>12, <1>13, <1>14, <1>15, <1>16, <1>17 DEF LifeInv

\* A child that somebody else has removed is skipped.
LEMMA SkipChildInv ==
    ASSUME LifeInv, NEW t \in Threads, NEW h \in work[t].todo, pc[t] = "children",
           GetAny(h) = NoObject,
           Goto(t, "children", [work[t] EXCEPT !.todo = @ \ {h}]),
           UNCHANGED <<slots, issued, objectVars, known>>
    PROVE  LifeInv'
<1>0. /\ TypeOK /\ TableInv /\ \A u \in Threads : Opens(u) /\ Closes(u)
      /\ UNCHANGED <<slots, issued, created, parent, handleOf, closes, children, rmClosed, known>>
  BY DEF LifeInv, objectVars
<1>1. TableInv' /\ Live' = Live
  BY <1>0, TableKept
<1>2. PICK o : <<h, o>> \in issued /\ o \notin Live
  <2>1. PICK o \in Objects : <<h, o>> \in issued
    BY DEF LifeInv, TodoInv
  <2>. QED
    BY <1>0, <2>1, Leads
<1>3. PICK w : w = [work[t] EXCEPT !.todo = @ \ {h}]
  OBVIOUS
<1>4. /\ w \in [manager : Objects \cup {NoObject}, object : Objects \cup {NoObject},
                handle : Nat, todo : SUBSET Nat]
      /\ w.todo = work[t].todo \ {h} /\ w.manager = work[t].manager
  BY <1>0, <1>3 DEF TypeOK
<1>5. Goto(t, "children", w)
  BY <1>3
<1>6. /\ pc' \in [Threads -> PCs] /\ pc'[t] = "children" /\ work'[t] = w
      /\ \A u \in Threads : u # t => pc'[u] = pc[u] /\ work'[u] = work[u]
      /\ \A u \in Threads : work'[u].todo \subseteq work[u].todo
  BY <1>0, <1>4, <1>5, GotoEffect DEF PCs
<1>7. Unlisted' = Unlisted /\ Unset' = Unset /\ Dying' = Dying /\ Todo \ {h} \subseteq Todo'
  BY <1>4, <1>6 DEF Unlisted, Unset, Dying, Todo, Closing
<1>10. TypeOK'
  BY <1>0, <1>1, <1>4, <1>5, <1>6 DEF TypeOK, Goto, TableInv, HandleInv
<1>11. ASSUME NEW u \in Threads PROVE Opens(u)'
  BY <1>0, <1>1, <1>6 DEF Opens, InHand
<1>12. ASSUME NEW u \in Threads PROVE Closes(u)'
  BY <1>0, <1>1, <1>4, <1>6 DEF Closes, Closing
<1>13. Alone'
  BY <1>6 DEF LifeInv, Alone, InHand
<1>14. ASSUME NEW x \in Objects PROVE ObjectInv(x)'
  BY <1>0, <1>1 DEF LifeInv, ObjectInv
<1>15. KnownInv' /\ TodoInv'
  BY <1>0, <1>6 DEF LifeInv, KnownInv, TodoInv
<1>16. ListedInv'
  BY <1>0, <1>1, <1>7 DEF LifeInv, ListedInv
<1>17. KeptInv'
  <2>1. ASSUME NEW x \in Live, parent[x] # NoObject, x \notin Unlisted
        PROVE  \E k \in Nat :
                  /\ <<k, x>> \in issued
                  /\ k \in Todo' \/ (~rmClosed[parent[x]] /\ k \in children[parent[x]])
    <3>1. PICK k \in Nat :
            /\ <<k, x>> \in issued
            /\ k \in Todo \/ (~rmClosed[parent[x]] /\ k \in children[parent[x]])
      BY <2>1 DEF LifeInv, KeptInv
    <3>2. k # h
      BY <1>0, <1>2, <3>1, OneToOne
    <3>. QED
      BY <1>7, <3>1, <3>2
  <2>. QED
    BY <1>0, <1>1, <1>7, <2>1 DEF KeptInv
<1>. QED
  BY <1>1, <1>10, <1>11, <1>12, <1>13, <1>14, <1>15, <1>16, <1>17 DEF LifeInv

-----------------------------------------------------------------------------
\* There is a Fresh object.
LEMMA FreshIsNew ==
    ASSUME created \in SUBSET Objects, created # Objects
    PROVE  Fresh \in Objects \ created
<1>1. \E o \in Objects : o \notin created
  OBVIOUS
<1>. QED
  BY <1>1, Zenon DEF Fresh

\* viOpenDefaultRM: a new manager enters the table.
LEMMA OpenDefaultRMInv ==
    ASSUME LifeInv, NEW t \in Threads, OpenDefaultRM(t)
    PROVE  LifeInv'
<1>0. /\ TypeOK /\ TableInv /\ \A u \in Threads : Opens(u) /\ Closes(u)
      /\ created \in SUBSET Objects
      /\ UNCHANGED <<parent, handleOf, closes, children, rmClosed, pc, work>>
  BY DEF LifeInv, OpenDefaultRM, TypeOK
<1>1. PICK o \in Objects \ created : o = Fresh
  BY <1>0, FreshIsNew DEF OpenDefaultRM
<1>2. ResourceManagerType \in ObjectTypes
  BY DEF ObjectTypes
<1>3. /\ Insert(ResourceManagerType, o) /\ created' = created \cup {o}
      /\ known' = known \cup {InsertedHandle(ResourceManagerType)}
  BY <1>1 DEF OpenDefaultRM
<1>4. PICK h \in Nat :
        /\ h = InsertedHandle(ResourceManagerType)
        /\ TableInv'
        /\ Live' = Live \cup {o}
        /\ issued' = issued \cup {<<h, o>>}
        /\ \A p \in issued : p[1] # h /\ p[2] # o
  BY <1>0, <1>2, <1>3, InsertLive
<1>5. /\ known' = known \cup {h}
      /\ \A k, x : <<k, x>> \in issued => k # h /\ x # o /\ x \in created /\ x \in Objects
  BY <1>0, <1>3, <1>4, Leads
<1>6. parent[o] = NoObject /\ closes[o] = 0 /\ handleOf[o] = 0
  BY <1>1, <1>5 DEF LifeInv, ObjectInv
<1>7. Unlisted' = Unlisted /\ Unset' = Unset /\ Dying' = Dying /\ Todo' = Todo
  BY <1>0 DEF Unlisted, Unset, Dying, Todo
<1>8. TableInv'
  BY <1>4
<1>10. TypeOK'
  BY <1>0, <1>1, <1>3, <1>5, <1>8 DEF TypeOK, TableInv, HandleInv
<1>11. ASSUME NEW u \in Threads PROVE Opens(u)'
  BY <1>0, <1>4, <1>5 DEF Opens, InHand
<1>12. ASSUME NEW u \in Threads PROVE Closes(u)'
  BY <1>0, <1>1, <1>3, <1>4 DEF Closes, Closing
<1>13. Alone'
  BY <1>0 DEF LifeInv, Alone, InHand
<1>14. ASSUME NEW x \in Objects PROVE ObjectInv(x)'
  BY <1>0, <1>3, <1>4, <1>6 DEF LifeInv, ObjectInv
<1>15. KnownInv' /\ TodoInv'
  BY <1>0, <1>1, <1>4, <1>5 DEF LifeInv, KnownInv, TodoInv
<1>16. ListedInv'
  BY <1>0, <1>4, <1>7 DEF LifeInv, ListedInv
<1>17. KeptInv'
  BY <1>0, <1>4, <1>6, <1>7 DEF LifeInv, KeptInv
<1>. QED
  BY <1>8, <1>10, <1>11, <1>12, <1>13, <1>14, <1>15, <1>16, <1>17 DEF LifeInv

\* insert() of a session or a find list.
LEMMA InsertChildInv ==
    ASSUME LifeInv, NEW t \in Threads, NEW type \in {SessionType, FindListType},
           InsertChild(t, type)
    PROVE  LifeInv'
<1>0. /\ TypeOK /\ TableInv /\ \A u \in Threads : Opens(u) /\ Closes(u)
      /\ created \in SUBSET Objects /\ pc[t] = "insert"
      /\ UNCHANGED <<handleOf, closes, children, rmClosed, known>>
  BY DEF LifeInv, InsertChild, TypeOK
<1>1. PICK o \in Objects \ created : o = Fresh
  BY <1>0, FreshIsNew DEF InsertChild
<1>2. type \in ObjectTypes
  BY DEF ObjectTypes
<1>3. /\ Insert(type, o) /\ created' = created \cup {o}
      /\ parent' = [parent EXCEPT ![o] = work[t].manager]
  BY <1>1 DEF InsertChild
<1>4. PICK h \in Nat :
        /\ h = InsertedHandle(type)
        /\ TableInv'
        /\ Live' = Live \cup {o}
        /\ issued' = issued \cup {<<h, o>>}
        /\ \A p \in issued : p[1] # h /\ p[2] # o
  BY <1>0, <1>2, <1>3, InsertLive
<1>5. /\ \A k, x : <<k, x>> \in issued => k # h /\ x # o /\ x \in created /\ x \in Objects
      /\ work[t].manager \in Objects /\ work[t].todo = {}
      /\ parent'[o] = work[t].manager
      /\ \A x \in Objects : x # o => parent'[x] = parent[x]
      /\ parent' \in [Objects -> Objects \cup {NoObject}]
  <2>1. \A k, x : <<k, x>> \in issued => k # h /\ x # o /\ x \in created /\ x \in Objects
    BY <1>0, <1>4, Leads
  <2>2. work[t].manager \in Objects /\ work[t].todo = {}
    BY <1>0 DEF Opens, InHand
  <2>. QED
    BY <1>0, <1>3, <2>1, <2>2 DEF TypeOK
<1>6. /\ closes[o] = 0 /\ handleOf[o] = 0
      /\ h \notin known
      /\ \A m \in Objects : h \notin children[m]
      /\ \A u \in Threads : h \notin work[u].todo
  <2>1. closes[o] = 0 /\ handleOf[o] = 0
    BY <1>1, <1>5 DEF LifeInv, ObjectInv
  <2>2. h \notin known
    BY <1>5 DEF LifeInv, KnownInv
  <2>3. \A m \in Objects : h \notin children[m]
    BY <1>5 DEF LifeInv, ListedInv
  <2>4. \A u \in Threads : h \notin work[u].todo
    BY <1>5 DEF LifeInv, TodoInv
  <2>. QED
    BY <2>1, <2>2, <2>3, <2>4
<1>7. PICK w : w = [work[t] EXCEPT !.object = o, !.handle = h]
  OBVIOUS
<1>8. /\ w \in [manager : Objects \cup {NoObject}, object : Objects \cup {NoObject},
                handle : Nat, todo : SUBSET Nat]
      /\ w.todo = {} /\ w.manager = work[t].manager /\ w.object = o /\ w.handle = h
  <2>1. work[t] \in [manager : Objects \cup {NoObject}, object : Objects \cup {NoObject},
                     handle : Nat, todo : SUBSET Nat]
    BY <1>0 DEF TypeOK
  <2>2. w = [manager |-> work[t].manager, object |-> o, handle |-> h, todo |-> work[t].todo]
    BY <1>7, <2>1
  <2>. QED
    BY <1>5, <2>1, <2>2
<1>9. Goto(t, "add", w) /\ TableInv'
  <2>1. Goto(t, "add", [work[t] EXCEPT !.object = Fresh, !.handle = InsertedHandle(type)])
    BY DEF InsertChild
  <2>2. [work[t] EXCEPT !.object = Fresh, !.handle = InsertedHandle(type)] = w
    BY <1>1, <1>4, <1>7
  <2>. QED
    BY <1>4, <2>1, <2>2
<1>9a. /\ pc' \in [Threads -> PCs] /\ pc'[t] = "add" /\ work'[t] = w
       /\ \A u \in Threads : u # t => pc'[u] = pc[u] /\ work'[u] = work[u]
       /\ \A u \in Threads : work'[u].todo = work[u].todo
  <2>1. /\ pc' \in [Threads -> PCs] /\ pc'[t] = "add" /\ work'[t] = w
        /\ \A u \in Threads : u # t => pc'[u] = pc[u] /\ work'[u] = work[u]
    BY <1>0, <1>9, GotoEffect DEF PCs
  <2>. QED
    BY <1>5, <1>8, <2>1
<1>9b. /\ Unlisted \cup {o} \subseteq Unlisted' /\ Unset' = Unset
       /\ Dying' = Dying /\ Todo' = Todo
  BY <1>0, <1>8, <1>9a DEF Unlisted, Unset, Dying, Todo, Closing
<1>10. TypeOK'
  <2>1. created' \in SUBSET Objects /\ TableTypeOK'
    BY <1>0, <1>1, <1>3, <1>9 DEF TableInv, HandleInv
  <2>2. work' \in [Threads -> [manager : Objects \cup {NoObject}, object : Objects \cup {NoObject},
                               handle : Nat, todo : SUBSET Nat]]
    BY <1>0, <1>8, <1>9 DEF TypeOK, Goto
  <2>. QED
    BY <1>0, <1>5, <1>9a, <2>1, <2>2 DEF TypeOK
<1>11. ASSUME NEW u \in Threads PROVE Opens(u)'
  <2>1. CASE u = t
    BY <1>0, <1>4, <1>5, <1>6, <1>8, <1>9a, <2>1 DEF Opens, InHand
  <2>2. CASE u # t
    BY <1>0, <1>4, <1>5, <1>9a, <2>2 DEF Opens, InHand
  <2>. QED
    BY <2>1, <2>2
<1>12. ASSUME NEW u \in Threads PROVE Closes(u)'
  BY <1>0, <1>1, <1>3, <1>4, <1>5, <1>9a DEF Closes, Closing
<1>13. Alone'
  <2>1. \A u \in Threads : pc[u] \in InHand => work[u].object # o
    BY <1>0, <1>5 DEF Opens
  <2>. QED
    BY <1>8, <1>9a, <2>1 DEF LifeInv, Alone, InHand
<1>14. ASSUME NEW x \in Objects PROVE ObjectInv(x)'
  BY <1>0, <1>1, <1>3, <1>4, <1>5, <1>6 DEF LifeInv, ObjectInv
<1>15. KnownInv' /\ TodoInv'
  BY <1>0, <1>1, <1>4, <1>5, <1>9a, ZenonT(60) DEF LifeInv, KnownInv, TodoInv
<1>16. ListedInv'
  <2>1. ASSUME NEW m \in Objects, NEW k \in children[m]
        PROVE  \E x \in Objects : /\ <<k, x>> \in issued'
                                  /\ parent'[x] = m
                                  /\ x \in Live' \cup Dying
                                  /\ handleOf[x] = k \/ x \in Unset
    <3>1. PICK x \in Objects : /\ <<k, x>> \in issued
                               /\ parent[x] = m
                               /\ x \in Live \cup Dying
                               /\ handleOf[x] = k \/ x \in Unset
      BY DEF LifeInv, ListedInv
    <3>. QED
      BY <1>4, <1>5, <3>1
  <2>. QED
    BY <1>0, <1>9b, <2>1 DEF ListedInv
<1>17. KeptInv'
  <2>1. ASSUME NEW x \in Live, x # o, parent[x] # NoObject, x \notin Unlisted
        PROVE  \E k \in Nat :
                  /\ <<k, x>> \in issued'
                  /\ k \in Todo \/ (~rmClosed[parent'[x]] /\ k \in children[parent'[x]])
    <3>1. PICK k \in Nat :
            /\ <<k, x>> \in issued
            /\ k \in Todo \/ (~rmClosed[parent[x]] /\ k \in children[parent[x]])
      BY <2>1 DEF LifeInv, KeptInv
    <3>2. parent'[x] = parent[x]
      BY <1>5, <2>1 DEF Live
    <3>. QED
      BY <1>4, <3>1, <3>2
  <2>2. \A x \in Live : x # o => parent'[x] = parent[x]
    BY <1>5 DEF Live
  <2>. QED
    BY <1>0, <1>4, <1>9b, <2>1, <2>2 DEF KeptInv
<1>. QED
  BY <1>9, <1>10, <1>11, <1>12, <1>13, <1>14, <1>15, <1>16, <1>17 DEF LifeInv

-----------------------------------------------------------------------------
\* register_child after a refusal: the child is still in the table, and only
\* this thread knows it.
LEMMA UndoInv ==
    ASSUME LifeInv, NEW t \in Threads, Undo(t)
    PROVE  LifeInv'
<1>0. /\ TypeOK /\ TableInv /\ \A u \in Threads : Opens(u) /\ Closes(u)
      /\ pc[t] = "undo" /\ UNCHANGED <<objectVars, known>>
      /\ work[t] \in [manager : Objects \cup {NoObject}, object : Objects \cup {NoObject},
                      handle : Nat, todo : SUBSET Nat]
  BY DEF LifeInv, Undo, TypeOK
<1>1. PICK h, o : /\ h = work[t].handle /\ o = work[t].object
                  /\ <<h, o>> \in issued /\ o \in Live /\ work[t].todo = {}
  BY <1>0 DEF Opens, InHand
<1>2. Remove(h)
  BY <1>0, <1>1, Leads DEF Undo
<1>3. PICK w : w = [work[t] EXCEPT !.manager = NoObject]
  OBVIOUS
<1>4. /\ w \in [manager : Objects \cup {NoObject}, object : Objects \cup {NoObject},
                handle : Nat, todo : SUBSET Nat]
      /\ w.object = o /\ w.todo = {}
  BY <1>0, <1>1, <1>3
<1>5. Goto(t, "close", w)
  BY <1>3 DEF Undo
<1>6. \A u \in Threads : u # t /\ pc[u] \in InHand => work[u].object # o
  BY <1>0, <1>1 DEF LifeInv, Alone, InHand
<1>7. w.todo = work[t].todo \ {h}
  BY <1>1, <1>4
<1>. QED
  BY <1>0, <1>1, <1>2, <1>4, <1>5, <1>6, <1>7, RemoveStep DEF InHand

\* viOpen whose lock is refused: the session is removed and closed, unless
\* somebody else was faster.
LEMMA LockFailsInv ==
    ASSUME LifeInv, NEW t \in Threads, LockFails(t)
    PROVE  LifeInv'
<1>0. /\ TypeOK /\ TableInv /\ \A u \in Threads : Opens(u) /\ Closes(u)
      /\ pc[t] = "lock" /\ UNCHANGED <<objectVars, known>>
      /\ work[t] \in [manager : Objects \cup {NoObject}, object : Objects \cup {NoObject},
                      handle : Nat, todo : SUBSET Nat]
  BY DEF LifeInv, LockFails, TypeOK
<1>1. PICK h, o : /\ h = work[t].handle /\ o = work[t].object
                  /\ <<h, o>> \in issued /\ work[t].todo = {}
  BY <1>0 DEF Opens, InHand
<1>2. CASE GetAny(h) # NoObject
  <2>1. Remove(h)
    BY <1>1, <1>2 DEF LockFails
  <2>2. PICK w : w = [work[t] EXCEPT !.manager = NoObject]
    OBVIOUS
  <2>3. /\ w \in [manager : Objects \cup {NoObject}, object : Objects \cup {NoObject},
                  handle : Nat, todo : SUBSET Nat]
        /\ w.object = o /\ w.todo = {}
    BY <1>0, <1>1, <2>2
  <2>4. Goto(t, "close", w)
    BY <1>1, <1>2, <2>2 DEF LockFails
  <2>5. \A u \in Threads : u # t /\ pc[u] \in InHand => work[u].object # o
    BY <1>0, <1>1 DEF LifeInv, Alone, InHand
  <2>6. w.todo = work[t].todo \ {h}
    BY <1>1, <2>3
  <2>. QED
    BY <1>0, <1>1, <2>1, <2>3, <2>4, <2>5, <2>6, RemoveStep DEF InHand
<1>3. CASE GetAny(h) = NoObject
  BY <1>0, <1>1, <1>3, FinishInv DEF LockFails
<1>. QED
  BY <1>2, <1>3

\* viClose of a handle the application knows.
LEMMA CloseInv ==
    ASSUME LifeInv, NEW t \in Threads, NEW h \in known, Close(t, h)
    PROVE  LifeInv'
<1>0. /\ TypeOK /\ TableInv /\ \A u \in Threads : Opens(u) /\ Closes(u)
      /\ pc[t] = "idle" /\ UNCHANGED <<objectVars, known>> /\ Remove(h)
  BY DEF LifeInv, Close
<1>1. PICK o \in Objects : <<h, o>> \in issued
  BY DEF LifeInv, KnownInv
<1>2. GetAny(h) = o
  BY <1>0, <1>1, Leads DEF Remove
<1>3. PICK w : w = [NoWork EXCEPT !.object = o]
  OBVIOUS
<1>4. /\ w \in [manager : Objects \cup {NoObject}, object : Objects \cup {NoObject},
                handle : Nat, todo : SUBSET Nat]
      /\ w.object = o /\ w.todo = {}
  BY <1>3 DEF NoWork
<1>5. Goto(t, "close", w)
  BY <1>2, <1>3 DEF Close
<1>6. \A u \in Threads : pc[u] \in {"add", "undo", "set"} => work[u].object # o
  BY <1>0, <1>1, OneToOne, ZenonT(60) DEF Opens, InHand
<1>7. w.todo = work[t].todo \ {h}
  BY <1>0, <1>4 DEF Closes
<1>. QED
  BY <1>0, <1>1, <1>4, <1>5, <1>6, <1>7, RemoveStep

\* The next child of a manager's close().
LEMMA CloseChildInv ==
    ASSUME LifeInv, NEW t \in Threads, NEW h \in work[t].todo, CloseChild(t, h)
    PROVE  LifeInv'
<1>0. /\ TypeOK /\ TableInv /\ \A u \in Threads : Opens(u) /\ Closes(u)
      /\ pc[t] = "children" /\ UNCHANGED <<objectVars, known>>
      /\ work[t] \in [manager : Objects \cup {NoObject}, object : Objects \cup {NoObject},
                      handle : Nat, todo : SUBSET Nat]
  BY DEF LifeInv, CloseChild, TypeOK
<1>1. PICK o \in Objects : <<h, o>> \in issued /\ parent[o] \in Objects
  BY DEF LifeInv, TodoInv
<1>2. CASE GetAny(h) # NoObject
  <2>1. Remove(h) /\ GetAny(h) = o
    BY <1>0, <1>1, <1>2, Leads DEF CloseChild
  <2>2. PICK w : w = [work[t] EXCEPT !.todo = @ \ {h}, !.object = o]
    OBVIOUS
  <2>3. w = [manager |-> work[t].manager, object |-> o, handle |-> work[t].handle,
             todo |-> work[t].todo \ {h}]
    BY <1>0, <2>2
  <2>4. /\ w \in [manager : Objects \cup {NoObject}, object : Objects \cup {NoObject},
                  handle : Nat, todo : SUBSET Nat]
        /\ w.object = o /\ w.todo = work[t].todo \ {h} /\ w.manager \in Objects
    BY <1>0, <2>3 DEF Closes
  <2>5. Goto(t, "close", w)
    BY <1>2, <2>1, <2>2 DEF CloseChild
  <2>6. \A u \in Threads : pc[u] \in InHand /\ work[u].object = o => work[u].handle = h
    BY <1>0, <1>1, OneToOne DEF Opens
  <2>7. \A u \in Threads : pc[u] \in {"add", "undo"} => work[u].object # o
    <3>. SUFFICES ASSUME NEW u \in Threads, pc[u] \in {"add", "undo"}, work[u].object = o
                  PROVE  FALSE
      OBVIOUS
    <3>1. pc[u] \in InHand
      BY DEF InHand
    <3>2. work[u].handle = h
      BY <2>6, <3>1
    <3>3. work[u].handle \notin work[t].todo
      BY <1>0, <3>1 DEF Opens
    <3>. QED
      BY <3>2, <3>3
  <2>8. \A u \in Threads, m \in Objects :
           pc[u] = "set" /\ work[u].handle \in children[m] => work[u].object # o
    BY <1>0, <2>6, ZenonT(60) DEF Opens, InHand
  <2>. QED
    BY <1>0, <1>1, <2>1, <2>4, <2>5, <2>7, <2>8, RemoveStep
<1>3. CASE GetAny(h) = NoObject
  BY <1>0, <1>3, SkipChildInv DEF CloseChild
<1>. QED
  BY <1>2, <1>3

-----------------------------------------------------------------------------
\* The empty library.
LEMMA LifeInit == Init => LifeInv
<1>. SUFFICES ASSUME Init PROVE LifeInv
  OBVIOUS
<1>1. HandleInv /\ slots = <<>> /\ issued = {}
  BY InitInv DEF Init, TableInit
<1>2. DOMAIN slots = {}
  BY <1>1
<1>3. TableInv /\ TableTypeOK
  BY <1>1, <1>2 DEF TableInv, HandleInv
<1>4. Live = {}
  BY <1>2 DEF Live, InTable
<1>5. NoWork.todo = {} /\ NoWork \in [manager : Objects \cup {NoObject},
                                      object  : Objects \cup {NoObject},
                                      handle  : Nat, todo : SUBSET Nat]
  BY DEF NoWork
<1>6. TypeOK
  BY <1>3, <1>5 DEF Init, TypeOK, PCs
<1>7. ASSUME NEW t \in Threads PROVE Opens(t) /\ Closes(t)
  BY <1>5 DEF Init, Opens, Closes, InHand, Closing
<1>8. Alone /\ KnownInv /\ TodoInv /\ ListedInv /\ KeptInv
  BY <1>4, <1>5 DEF Init, Alone, InHand, KnownInv, TodoInv, ListedInv, KeptInv
<1>9. ASSUME NEW o \in Objects PROVE ObjectInv(o)
  BY <1>4 DEF Init, ObjectInv
<1>. QED
  BY <1>3, <1>6, <1>7, <1>8, <1>9 DEF LifeInv

\* Every step of every call preserves the invariant.
LEMMA LifeNext == LifeInv /\ [Next]_vars => LifeInv'
<1>. SUFFICES ASSUME LifeInv, [Next]_vars PROVE LifeInv'
  OBVIOUS
<1>1. ASSUME NEW t \in Threads, Step(t) PROVE LifeInv'
  <2>1. CASE OpenFails(t)
    BY <2>1, FinishInv DEF OpenFails
  <2>2. CASE \E type \in {SessionType, FindListType} : InsertChild(t, type)
    BY <2>2, InsertChildInv
  <2>3. CASE AddChild(t)
    BY <2>3, AddChildInv
  <2>4. CASE Undo(t)
    BY <2>4, UndoInv
  <2>5. CASE SetHandle(t)
    BY <2>5, SetHandleInv
  <2>6. CASE ReturnHandle(t)
    BY <2>6, FinishInv DEF ReturnHandle
  <2>7. CASE LockFails(t)
    BY <2>7, LockFailsInv
  <2>8. CASE CloseObject(t)
    BY <2>8, CloseObjectInv
  <2>9. CASE Detach(t)
    BY <2>9, DetachInv
  <2>10. CASE TakeChildren(t)
    BY <2>10, TakeChildrenInv
  <2>11. CASE \E handle \in work[t].todo : CloseChild(t, handle)
    BY <2>11, CloseChildInv
  <2>12. CASE ChildrenDone(t)
    BY <2>12, FinishInv DEF ChildrenDone
  <2>. QED
    BY <1>1, <2>1, <2>2, <2>3, <2>4, <2>5, <2>6, <2>7, <2>8, <2>9, <2>10, <2>11, <2>12 DEF Step
<1>2. ASSUME NEW t \in Threads, Call(t) PROVE LifeInv'
  BY <1>2, OpenDefaultRMInv, LookupInv, CloseInv DEF Call
<1>3. CASE UNCHANGED vars
  <2>1. UNCHANGED <<slots, issued, created, parent, handleOf, closes, children, rmClosed,
                    known, pc, work>>
    BY <1>3 DEF vars, objectVars, threadVars
  <2>2. TableInv' /\ Live' = Live
    BY <2>1, TableKept DEF LifeInv
  <2>3. Unlisted' = Unlisted /\ Unset' = Unset /\ Dying' = Dying /\ Todo' = Todo
    BY <2>1 DEF Unlisted, Unset, Dying, Todo
  <2>4. TypeOK'
    BY <2>1, <2>2 DEF LifeInv, TypeOK, TableInv, HandleInv
  <2>5. ASSUME NEW t \in Threads PROVE Opens(t)' /\ Closes(t)'
    BY <2>1, <2>2 DEF LifeInv, Opens, Closes
  <2>6. Alone' /\ KnownInv' /\ TodoInv'
    BY <2>1 DEF LifeInv, Alone, KnownInv, TodoInv
  <2>7. ListedInv' /\ KeptInv'
    BY <2>1, <2>2, <2>3 DEF LifeInv, ListedInv, KeptInv
  <2>8. ASSUME NEW o \in Objects PROVE ObjectInv(o)'
    BY <2>1, <2>2 DEF LifeInv, ObjectInv
  <2>. QED
    BY <2>2, <2>4, <2>5, <2>6, <2>7, <2>8 DEF LifeInv
<1>. QED
  BY <1>1, <1>2, <1>3 DEF Next

\* The inductive invariant holds throughout.
LEMMA LifeInvAlways == Spec => []LifeInv
BY LifeInit, LifeNext, PTL DEF Spec

-----------------------------------------------------------------------------
\* Managers, sessions and find lists keep to the types of their fields.
THEOREM LifecycleTypeCorrect == Spec => []TypeOK
<1>1. LifeInv => TypeOK
  BY DEF LifeInv
<1>. QED
  BY <1>1, LifeInvAlways, PTL

\* viClose, the manager's close() and a viOpen that fails enter close() of an
\* object once between them, and only when no handle leads to it any more.
THEOREM ClosedOnceAlways == Spec => []ClosedOnceAndUnreachable
<1>1. LifeInv => ClosedOnceAndUnreachable
  <2>. SUFFICES ASSUME LifeInv, NEW o \in Objects, closes[o] > 0
                PROVE  closes[o] = 1 /\ ~InTable(o)
    BY DEF ClosedOnceAndUnreachable
  <2>1. closes[o] \in {0, 1} /\ (o \in Live => closes[o] = 0)
    BY DEF LifeInv, ObjectInv
  <2>. QED
    BY <2>1 DEF Live
<1>. QED
  BY <1>1, LifeInvAlways, PTL

\* No child outlives its manager: whatever is in the table when the manager is
\* closed is on the list of its close() or about to be refused.
THEOREM NoOrphanAlways == Spec => []NoOrphan
<1>1. LifeInv => NoOrphan
  <2>. SUFFICES ASSUME LifeInv, NEW i \in DOMAIN slots, NEW o, NEW h,
                       o = slots[i].object,
                       h = Encode(slots[i].type, slots[i].generation, i),
                       o # NoObject, parent[o] # NoObject, rmClosed[parent[o]]
                PROVE  \E t \in Threads : \/ pc[t] \in {"add", "undo"} /\ work[t].object = o
                                          \/ pc[t] = "children" /\ h \in work[t].todo
                                          \/ pc[t] \in {"close", "detach"} /\ h \in work[t].todo
    BY DEF NoOrphan
  <2>1. <<h, o>> \in issued /\ TableInv
    BY DEF LifeInv, TableInv, HandleInv, LiveIsIssued
  <2>2. o \in Live
    BY <2>1, Leads DEF Live, InTable
  <2>3. CASE o \in Unlisted
    BY <2>3 DEF Unlisted
  <2>4. CASE o \notin Unlisted
    <3>1. PICK k \in Nat : <<k, o>> \in issued /\ k \in Todo
      BY <2>2, <2>4 DEF LifeInv, KeptInv
    <3>2. k = h
      BY <2>1, <3>1, OneToOne
    <3>. QED
      BY <3>1, <3>2 DEF Todo, Closing
  <2>. QED
    BY <2>3, <2>4
<1>. QED
  BY <1>1, LifeInvAlways, PTL

\* children_ of a manager lists its own children that are alive or just being
\* closed, and nothing else.
THEOREM ChildrenAreAliveAlways == Spec => []ChildrenAreAlive
<1>1. LifeInv => ChildrenAreAlive
  <2>. SUFFICES ASSUME LifeInv, NEW m \in Objects, NEW h \in children[m]
                PROVE  \E p \in issued :
                          /\ p[1] = h
                          /\ parent[p[2]] = m
                          /\ \/ GetAny(h) = p[2]
                             \/ \E t \in Threads : /\ pc[t] \in {"close", "detach"}
                                                   /\ work[t].object = p[2]
    BY DEF ChildrenAreAlive
  <2>1. PICK o \in Objects : <<h, o>> \in issued /\ parent[o] = m /\ o \in Live \cup Dying
    BY DEF LifeInv, ListedInv
  <2>2. o \in Live => GetAny(h) = o
    BY <2>1, Leads DEF LifeInv
  <2>3. PICK p \in issued : p = <<h, o>>
    BY <2>1
  <2>4. p[1] = h /\ p[2] = o
    BY <2>3
  <2>5. GetAny(h) = o \/ \E t \in Threads : pc[t] \in {"close", "detach"} /\ work[t].object = o
    BY <2>1, <2>2 DEF Dying, Closing
  <2>. QED
    BY <2>1, <2>4, <2>5
<1>. QED
  BY <1>1, LifeInvAlways, PTL

\* The API uses the table only through insert() and remove(), so what is proved
\* of the table alone holds of the program.
THEOREM ImplementsTable == Spec => TableSpec
<1>1. Init => TableInit
  BY DEF Init
<1>2. LifeInv /\ [Next]_vars => [TableNext]_tableVars
  <2>. SUFFICES ASSUME LifeInv, [Next]_vars PROVE TableNext \/ UNCHANGED <<slots, issued>>
    BY DEF tableVars
  <2>1. created \in SUBSET Objects /\ known \in SUBSET Nat
    BY DEF LifeInv, TypeOK
  <2>2. ASSUME NEW t \in Threads, Step(t) PROVE TableNext \/ UNCHANGED <<slots, issued>>
    <3>1. work[t].handle \in Nat /\ work[t].todo \in SUBSET Nat
      BY DEF LifeInv, TypeOK
    <3>2. CASE \E type \in {SessionType, FindListType} : InsertChild(t, type)
      BY <2>1, <3>2, FreshIsNew DEF InsertChild, TableNext, ObjectTypes
    <3>3. CASE Undo(t) \/ LockFails(t) \/ \E handle \in work[t].todo : CloseChild(t, handle)
      BY <3>1, <3>3 DEF Undo, LockFails, CloseChild, TableNext
    <3>. QED
      BY <2>2, <3>2, <3>3 DEF Step, OpenFails, AddChild, SetHandle, ReturnHandle, CloseObject,
                              Detach, TakeChildren, ChildrenDone
  <2>3. ASSUME NEW t \in Threads, Call(t) PROVE TableNext \/ UNCHANGED <<slots, issued>>
    <3>1. CASE OpenDefaultRM(t)
      BY <2>1, <3>1, FreshIsNew DEF OpenDefaultRM, TableNext, ObjectTypes
    <3>2. CASE \E handle \in known : Lookup(t, handle) \/ Close(t, handle)
      BY <2>1, <3>2 DEF Lookup, Close, TableNext
    <3>. QED
      BY <2>3, <3>1, <3>2 DEF Call
  <2>. QED
    BY <2>2, <2>3 DEF Next, vars
<1>. QED
  BY <1>1, <1>2, LifeInvAlways, PTL DEF Spec, TableSpec

\* ADR 0003 in the program with all its calls: no handle value is issued twice,
\* and one that resolves, resolves to the object it was issued for.
THEOREM LifecycleHandlesName == Spec => []HandleNamesItsObject
BY ImplementsTable, HandleNamesItsObjectAlways, PTL

\* A handle that viClose, a manager's close() or a failed viOpen has taken out of
\* the table never resolves again, whatever calls follow.
THEOREM LifecycleHandlesStayDead == Spec => StaleHandlesStayDead
BY ImplementsTable, ClosedHandlesStayDead, PTL

-----------------------------------------------------------------------------
(***************************************************************************)
(* LockManager for every set of sessions, threads and resources and every  *)
(* number of calls: its invariants, and that it implements ResourceLock.   *)
(*                                                                         *)
(* The base of every proof is LockInv: the types, well-formed lock states, *)
(* and the agreement of at with mutex_ and with the arguments of the call. *)
(* The other invariants are proved one by one from it.                     *)
(***************************************************************************)

\* A thread keeps mutex_ across a step exactly while it is about to sleep.
MutexInv == \A t \in Callers : mutex = t <=> at[t] = "checked"

\* A thread has arguments exactly while it is inside acquire.
CallInv ==
    \A t \in Callers :
        IF at[t] \in Acquiring
          THEN call[t] \in [session : Sessions, type : LockTypes, key : Keys, timed : BOOLEAN]
          ELSE call[t] = NoCall

\* The lock of every resource is well formed.
LocksInv == \A r \in Resources : WellFormed(locks[r])

\* A session's depth is what its callers hold; this is what keeps held, which
\* release decrements, a natural number.
HeldInv == \A s \in Sessions : OwnedLockDepth(locks[ResourceOf[s]], s) = held[s]

\* The inductive invariant of the lock manager.
LockInv == LockTypeOK /\ MutexInv /\ CallInv /\ LocksInv /\ HeldInv

USE NoThreadAssumption, NoSessionAssumption, ResourceOfAssumption, MaxCallsAssumption

\* It holds initially,
LEMMA InitLockInv == LockInit => LockInv
<1> SUFFICES ASSUME LockInit PROVE LockInv
  OBVIOUS
<1>1. LockTypeOK
  BY NoLockWellFormed DEF LockInit, LockTypeOK, Calls, LockPCs
<1>2. MutexInv /\ CallInv
  BY DEF LockInit, MutexInv, CallInv, Acquiring
<1>3. LocksInv /\ HeldInv
  BY NoLockWellFormed DEF LockInit, LocksInv, HeldInv
<1>. QED
  BY <1>1, <1>2, <1>3 DEF LockInv

\* The arguments of a call in progress.
LEMMA CallArguments ==
    ASSUME LockInv, NEW t \in Callers, at[t] \in Acquiring
    PROVE  /\ call[t].session \in Sessions
           /\ call[t].type \in LockTypes
           /\ call[t].key \in Nat
           /\ ResourceOfCall(t) \in Resources
BY DEF LockInv, CallInv, ResourceOfCall, Keys

\* What ReturnGranted does to the lock it grants.
LEMMA GrantStep ==
    ASSUME LockInv, NEW t \in Callers, ReturnGranted(t)
    PROVE  LET r == ResourceOfCall(t)
               s == call[t].session
           IN /\ locks' = [locks EXCEPT ![r] = Grant(locks[r], s, call[t].type, nextKey)]
              /\ locks'[r] \in LockStates
              /\ WellFormed(locks'[r])
              /\ OwnedLockDepth(locks'[r], s) = OwnedLockDepth(locks[r], s) + 1
              /\ OwnedLockType(locks'[r], s) = call[t].type
              /\ \A o \in Sessions \ {s} :
                    /\ OwnedLockDepth(locks'[r], o) = OwnedLockDepth(locks[r], o)
                    /\ OwnedLockType(locks'[r], o) = OwnedLockType(locks[r], o)
<1> DEFINE r == ResourceOfCall(t)
           s == call[t].session
<1>1. at[t] \in Acquiring
  BY DEF ReturnGranted, AtPredicate, Acquiring
<1>2. /\ s \in Sessions /\ call[t].type \in LockTypes
      /\ call[t].key \in Nat /\ r \in Resources
  BY <1>1, CallArguments
<1>3. locks[r] \in LockStates /\ WellFormed(locks[r]) /\ nextKey \in Nat \ {0}
      /\ locks \in [Resources -> LockStates]
  BY <1>2 DEF LockInv, LockTypeOK, LocksInv
<1>4. CanGrant(locks[r], s, call[t].type, call[t].key)
  BY DEF ReturnGranted, Grantable
<1>5. locks' = [locks EXCEPT ![r] = Grant(locks[r], s, call[t].type, nextKey)]
  BY DEF ReturnGranted
<1>6. locks'[r] = Grant(locks[r], s, call[t].type, nextKey)
  BY <1>2, <1>3, <1>5
<1> HIDE DEF r, s
<1>7. /\ locks'[r] \in LockStates
      /\ WellFormed(locks'[r])
      /\ OwnedLockDepth(locks'[r], s) = OwnedLockDepth(locks[r], s) + 1
      /\ OwnedLockType(locks'[r], s) = call[t].type
      /\ \A o \in Sessions \ {s} :
            /\ OwnedLockDepth(locks'[r], o) = OwnedLockDepth(locks[r], o)
            /\ OwnedLockType(locks'[r], o) = OwnedLockType(locks[r], o)
  BY <1>2, <1>3, <1>4, <1>6, GrantEffect
<1>. QED
  BY <1>5, <1>7 DEF r, s

\* Every step keeps the base invariant.
LEMMA NextLockInv == LockInv /\ [LockNext]_lockVars => LockInv'
<1> SUFFICES ASSUME LockInv, [LockNext]_lockVars PROVE LockInv'
  OBVIOUS
<1> USE DEF LockInv, LockTypeOK, MutexInv, CallInv, LocksInv, HeldInv
<1>0. CASE UNCHANGED lockVars
  BY <1>0 DEF lockVars
<1>1. ASSUME NEW t \in Callers, NEW s \in Sessions, NEW lockType \in LockTypes,
             NEW key \in Keys, NEW timed \in BOOLEAN,
             CallAcquire(t, s, lockType, key, timed)
      PROVE  LockInv'
  BY <1>1 DEF CallAcquire, Calls, LockPCs, Acquiring
<1>2. ASSUME NEW t \in Callers, CheckFails(t)
      PROVE  LockInv'
  BY <1>2 DEF CheckFails, AtPredicate, LockPCs, Acquiring
<1>3. ASSUME NEW t \in Callers, Sleep(t)
      PROVE  LockInv'
  BY <1>3 DEF Sleep, LockPCs, Acquiring
<1>4. ASSUME NEW t \in Callers, Expire(t)
      PROVE  LockInv'
  BY <1>4 DEF Expire, LockPCs, Acquiring
<1>5. ASSUME NEW t \in Callers, ReturnTimeout(t) \/ ReturnCancelled(t)
      PROVE  LockInv'
  <2>1. Return(t) /\ AtPredicate(t) /\ UNCHANGED <<locks, nextKey, mutex, held, calls>>
    BY <1>5 DEF ReturnTimeout, ReturnCancelled
  <2>2. LockTypeOK' /\ LocksInv' /\ HeldInv'
    BY <2>1 DEF Return, Calls, LockPCs
  <2>3. MutexInv' /\ CallInv'
    BY <2>1 DEF Return, AtPredicate, Acquiring
  <2>. QED
    BY <2>2, <2>3
<1>6. ASSUME NEW t \in Callers, ReturnGranted(t)
      PROVE  LockInv'
  <2> DEFINE r == ResourceOfCall(t)
  <2>1. at[t] \in Acquiring
    BY <1>6 DEF ReturnGranted, AtPredicate, Acquiring
  <2>2. call[t].session \in Sessions /\ r \in Resources
    BY <2>1, CallArguments
  <2>3. /\ locks' = [locks EXCEPT ![r] = Grant(locks[r], call[t].session, call[t].type, nextKey)]
        /\ locks'[r] \in LockStates
        /\ WellFormed(locks'[r])
        /\ OwnedLockDepth(locks'[r], call[t].session)
              = OwnedLockDepth(locks[r], call[t].session) + 1
        /\ \A o \in Sessions \ {call[t].session} :
              OwnedLockDepth(locks'[r], o) = OwnedLockDepth(locks[r], o)
    BY <1>6, GrantStep
  <2>9. r = ResourceOf[call[t].session]
    BY DEF ResourceOfCall
  <2> HIDE DEF r
  <2>4. locks' \in [Resources -> LockStates] /\ LocksInv'
    BY <2>2, <2>3
  <2>5. nextKey' \in Nat \ {0}
    BY <1>6 DEF ReturnGranted, NextKey
  <2>6. held' = [held EXCEPT ![call[t].session] = @ + 1] /\ held' \in [Sessions -> Nat]
    BY <1>6, <2>2 DEF ReturnGranted
  <2>10. HeldInv'
    BY <2>2, <2>3, <2>6, <2>9
  <2>7. /\ mutex' \in Callers \cup {NoThread}
        /\ at' \in [Callers -> LockPCs]
        /\ call' \in [Callers -> Calls]
        /\ completed' \in [Callers -> BOOLEAN]
        /\ toCancel' \in [Callers -> SUBSET Callers]
        /\ calls' \in Nat
    BY <1>6 DEF ReturnGranted, Return, Calls, LockPCs
  <2>8. MutexInv' /\ CallInv'
    BY <1>6 DEF ReturnGranted, Return, AtPredicate, Acquiring
  <2>. QED
    BY <2>4, <2>5, <2>6, <2>7, <2>8, <2>10
<1>7. ASSUME NEW t \in Callers, NEW s \in Sessions, CallRelease(t, s)
      PROVE  LockInv'
  <2> DEFINE r == ResourceOf[s]
  <2>1. r \in Resources
    OBVIOUS
  <2>2. /\ locks' = [locks EXCEPT ![r] = locks'[r]]
        /\ locks'[r] = Release(locks[r], s)
        /\ OwnedLockDepth(locks[r], s) > 0
    BY <1>7, <2>1 DEF CallRelease
  <2>3. /\ locks'[r] \in LockStates
        /\ WellFormed(locks'[r])
        /\ OwnedLockDepth(locks'[r], s) = OwnedLockDepth(locks[r], s) - 1
        /\ \A o \in Sessions \ {s} :
              OwnedLockDepth(locks'[r], o) = OwnedLockDepth(locks[r], o)
    BY <2>1, <2>2, ReleaseEffect
  <2>4. locks' \in [Resources -> LockStates] /\ LocksInv'
    BY <2>1, <2>2, <2>3
  <2>5. held' = [held EXCEPT ![s] = @ - 1] /\ held[s] = OwnedLockDepth(locks[r], s)
    BY <1>7 DEF CallRelease
  <2>6. held' \in [Sessions -> Nat]
    BY <2>2, <2>5
  <2>7. HeldInv'
    BY <2>1, <2>2, <2>3, <2>5
  <2>8. at' = WakeAll(at) \/ at' = at
    BY <1>7 DEF CallRelease
  <2>9. /\ nextKey' \in Nat \ {0}
        /\ mutex' \in Callers \cup {NoThread}
        /\ at' \in [Callers -> LockPCs]
        /\ call' \in [Callers -> Calls]
        /\ completed' \in [Callers -> BOOLEAN]
        /\ toCancel' \in [Callers -> SUBSET Callers]
        /\ calls' \in Nat
    BY <1>7, <2>8 DEF CallRelease, WakeAll, LockPCs, Acquiring
  <2>10. MutexInv' /\ CallInv'
    BY <1>7, <2>8 DEF CallRelease, WakeAll, Acquiring
  <2>. QED
    BY <2>4, <2>6, <2>7, <2>9, <2>10
<1>8. ASSUME NEW t \in Callers, NEW s \in Sessions, CallReleaseAll(t, s)
      PROVE  LockInv'
  <2> DEFINE r == ResourceOf[s]
  <2>1. r \in Resources
    OBVIOUS
  <2>2. /\ locks' = [locks EXCEPT ![r] = locks'[r]]
        /\ locks'[r] = ReleaseAll(locks[r], s)
        /\ OwnedLockDepth(locks[r], s) > 0
    BY <1>8, <2>1 DEF CallReleaseAll
  <2>3. /\ locks'[r] \in LockStates
        /\ WellFormed(locks'[r])
        /\ OwnedLockDepth(locks'[r], s) = 0
        /\ \A o \in Sessions \ {s} :
              OwnedLockDepth(locks'[r], o) = OwnedLockDepth(locks[r], o)
    BY <2>1, <2>2, ReleaseAllEffect
  <2>4. locks' \in [Resources -> LockStates] /\ LocksInv'
    BY <2>1, <2>2, <2>3
  <2>5. held' = [held EXCEPT ![s] = 0] /\ held[s] = OwnedLockDepth(locks[r], s)
    BY <1>8 DEF CallReleaseAll
  <2>6. held' \in [Sessions -> Nat]
    BY <2>2, <2>5
  <2>7. HeldInv'
    BY <2>1, <2>2, <2>3, <2>5
  <2>8. at' = WakeAll(at) \/ at' = at
    BY <1>8 DEF CallReleaseAll
  <2>9. /\ nextKey' \in Nat \ {0}
        /\ mutex' \in Callers \cup {NoThread}
        /\ at' \in [Callers -> LockPCs]
        /\ call' \in [Callers -> Calls]
        /\ completed' \in [Callers -> BOOLEAN]
        /\ toCancel' \in [Callers -> SUBSET Callers]
        /\ calls' \in Nat
    BY <1>8, <2>8 DEF CallReleaseAll, WakeAll, LockPCs, Acquiring
  <2>10. MutexInv' /\ CallInv'
    BY <1>8, <2>8 DEF CallReleaseAll, WakeAll, Acquiring
  <2>. QED
    BY <2>4, <2>6, <2>7, <2>9, <2>10
<1>9. ASSUME NEW t \in Callers, NEW s \in Sessions, Terminate(t, s)
      PROVE  LockInv'
  BY <1>9 DEF Terminate, LockPCs, Acquiring
<1>10. ASSUME NEW t \in Callers, NEW u \in Callers, RequestCancel(t, u)
       PROVE  LockInv'
  BY <1>10 DEF RequestCancel
<1>11. ASSUME NEW t \in Callers, CancelDone(t)
       PROVE  LockInv'
  BY <1>11 DEF CancelDone, LockPCs, Acquiring
<1>12. ASSUME NEW t \in Callers, NotifyWaiters(t)
       PROVE  LockInv'
  BY <1>12 DEF NotifyWaiters, WakeAll, LockPCs, Acquiring
<1>. QED
  BY <1>0, <1>1, <1>2, <1>3, <1>4, <1>5, <1>6, <1>7, <1>8, <1>9, <1>10, <1>11, <1>12
     DEF LockNext, LockStep, LockCall

\* and always.
LEMMA LockInvariant == LockSpec => []LockInv
BY InitLockInv, NextLockInv, PTL DEF LockSpec

\* The variables of LockManager keep their types, whatever its callers do: in
\* particular no depth is ever decremented below zero.
THEOREM LockTypeCorrect == LockSpec => []LockTypeOK
<1>1. LockInv => LockTypeOK
  BY DEF LockInv
<1>. QED
  BY <1>1, LockInvariant, PTL

\* acquire, release and release_all never leave a lock nobody can give back.
THEOREM NoOrphanLockAlways == LockSpec => []NoOrphanLock
<1>1. LockInv => NoOrphanLock
  <2> SUFFICES ASSUME LockInv, NEW r \in Resources
               PROVE  /\ locks[r].type # "none" =>
                            \E s \in Sessions : OwnedLockDepth(locks[r], s) > 0
                      /\ locks[r].type = "exclusive" =>
                            \A s \in Sessions : locks[r].shared_owners[s] = 0
    BY DEF NoOrphanLock
  <2>1. locks[r] \in LockStates /\ WellFormed(locks[r])
    BY DEF LockInv, LockTypeOK, LocksInv
  <2>. QED
    BY <2>1 DEF LockStates, WellFormed, NoLock, OwnedLockDepth, OwnsExclusive, OwnsShared
<1>. QED
  BY <1>1, LockInvariant, PTL

\* Mutual exclusion as the callers see it: depths are what was granted and not
\* given back, and an exclusive level excludes every other session's level.
THEOREM LevelsMatchCallersAlways == LockSpec => []LevelsMatchCallers
<1>1. LockInv => LevelsMatchCallers
  <2> SUFFICES ASSUME LockInv, NEW s \in Sessions
               PROVE  /\ OwnedLockDepth(locks[ResourceOf[s]], s) = held[s]
                      /\ held[s] > 0 /\ locks[ResourceOf[s]].type = "exclusive" =>
                            \A o \in Sessions \ {s} :
                                ResourceOf[o] = ResourceOf[s] => held[o] = 0
    BY DEF LevelsMatchCallers
  <2> DEFINE st == locks[ResourceOf[s]]
  <2>1. st \in LockStates /\ WellFormed(st)
    BY DEF LockInv, LockTypeOK, LocksInv
  <2>2. OwnedLockDepth(st, s) = held[s]
    BY DEF LockInv, HeldInv
  <2>3. ASSUME held[s] > 0, st.type = "exclusive",
               NEW o \in Sessions \ {s}, ResourceOf[o] = ResourceOf[s]
        PROVE  held[o] = 0
    <3>1. OwnsExclusive(st, s)
      BY <2>2, <2>3 DEF OwnedLockDepth, OwnsShared
    <3>2. OwnedLockDepth(st, o) = 0
      BY <2>1, <3>1, ExclusiveExcludes
    <3>. QED
      BY <2>3, <3>2 DEF LockInv, HeldInv
  <2>. QED
    BY <2>2, <2>3
<1>. QED
  BY <1>1, LockInvariant, PTL

-----------------------------------------------------------------------------
\* Only ReturnGranted puts a key into locks_, and it takes it from nextKey.
LEMMA NextKeys == LockInv /\ KeysOpenOneLock /\ [LockNext]_lockVars => KeysOpenOneLock'
<1> SUFFICES ASSUME LockInv, KeysOpenOneLock, [LockNext]_lockVars PROVE KeysOpenOneLock'
  OBVIOUS
<1>1. ASSUME NEW t \in Callers, ReturnGranted(t)
      PROVE  KeysOpenOneLock'
  <2> DEFINE r == ResourceOfCall(t)
             new == Grant(locks[r], call[t].session, call[t].type, nextKey)
  <2>1. at[t] \in Acquiring
    BY <1>1 DEF ReturnGranted, AtPredicate, Acquiring
  <2>2. r \in Resources /\ call[t].type \in LockTypes /\ locks \in [Resources -> LockStates]
        /\ nextKey \in Nat \ {0}
    BY <2>1, CallArguments DEF LockInv, LockTypeOK
  <2>3. locks' = [locks EXCEPT ![r] = new]
    BY <1>1 DEF ReturnGranted
  <2>4. nextKey' = IF locks[r].type = "none" /\ call[t].type = "shared"
                     THEN nextKey + 1 ELSE nextKey
    BY <1>1 DEF ReturnGranted, NextKey, UsesFreshKey
  <2>5. new.type = "shared" =>
           IF locks[r].type = "shared"
             THEN new.shared_key = locks[r].shared_key
             ELSE /\ locks[r].type = "none" /\ call[t].type = "shared"
                  /\ new.shared_key = nextKey
    BY <2>2 DEF Grant, LockStates, LockTypes
  <2> HIDE DEF new, r
  <2>. QED
    BY <2>2, <2>3, <2>4, <2>5 DEF KeysOpenOneLock
<1>2. ASSUME NEW t \in Callers, NEW s \in Sessions, CallRelease(t, s) \/ CallReleaseAll(t, s)
      PROVE  KeysOpenOneLock'
  <2> DEFINE r == ResourceOf[s]
  <2>1. r \in Resources /\ locks \in [Resources -> LockStates] /\ WellFormed(locks[r])
        /\ nextKey' = nextKey
    BY <1>2 DEF LockInv, LockTypeOK, LocksInv, CallRelease, CallReleaseAll
  <2>2. /\ locks' = [locks EXCEPT ![r] = locks'[r]]
        /\ locks'[r] = Release(locks[r], s) \/ locks'[r] = ReleaseAll(locks[r], s)
        /\ OwnedLockDepth(locks[r], s) > 0
    BY <1>2, <2>1 DEF CallRelease, CallReleaseAll
  <2>3. \/ locks'[r] = NoLock
        \/ locks'[r].type = locks[r].type /\ locks'[r].shared_key = locks[r].shared_key
    BY <2>1, <2>2, ReleaseEffect, ReleaseAllEffect
  <2>4. locks'[r].type = "shared" =>
           locks[r].type = "shared" /\ locks'[r].shared_key = locks[r].shared_key
    BY <2>3, NoLockWellFormed
  <2> HIDE DEF r
  <2>. QED
    BY <2>1, <2>2, <2>4 DEF KeysOpenOneLock
<1>3. ASSUME UNCHANGED <<locks, nextKey>>
      PROVE  KeysOpenOneLock'
  BY <1>3 DEF KeysOpenOneLock
<1>. QED
  BY <1>1, <1>2, <1>3
     DEF LockNext, LockStep, LockCall, lockVars, CallAcquire, CheckFails, Sleep, Expire, ReturnTimeout,
         ReturnCancelled, Terminate, RequestCancel, CancelDone, NotifyWaiters

\* Every access key WRVISA-<n> opens at most one lock.
THEOREM KeysOpenOneLockAlways == LockSpec => []KeysOpenOneLock
<1>1. LockInit => KeysOpenOneLock
  BY NoLockWellFormed DEF LockInit, KeysOpenOneLock
<1>. QED
  BY <1>1, LockInvariant, NextKeys, PTL DEF LockSpec

-----------------------------------------------------------------------------
\* The argument in the comment of notify_waiters, step by step: a thread that
\* notifies finds nobody between the predicate and the sleep, because it needs
\* mutex_ for it.
LEMMA NextNoLostCancel == LockInv /\ NoLostCancel /\ [LockNext]_lockVars => NoLostCancel'
<1> SUFFICES ASSUME LockInv, NoLostCancel, [LockNext]_lockVars,
                    NEW t \in Callers, at'[t] \in {"checked", "asleep"}, completed'[t]
             PROVE  \E u \in Callers : at'[u] \in {"cancelling", "notify"}
  BY DEF NoLostCancel
<1> USE DEF LockInv, LockTypeOK, MutexInv
<1>0. CASE UNCHANGED lockVars
  BY <1>0 DEF lockVars, NoLostCancel
<1>1. ASSUME NEW u \in Callers, NotifyWaiters(u)
      PROVE  FALSE
  BY <1>1 DEF NotifyWaiters, WakeAll
<1>2. ASSUME NEW u \in Callers, NEW v \in Callers, RequestCancel(u, v)
      PROVE  \E w \in Callers : at'[w] \in {"cancelling", "notify"}
  BY <1>2 DEF RequestCancel
<1>3. ASSUME NEW u \in Callers, CancelDone(u)
      PROVE  \E w \in Callers : at'[w] \in {"cancelling", "notify"}
  BY <1>3 DEF CancelDone
<1>4. ASSUME NEW u \in Callers, NEW s \in Sessions, Terminate(u, s)
      PROVE  \E w \in Callers : at'[w] \in {"cancelling", "notify"}
  BY <1>4 DEF Terminate
<1>5. ASSUME NEW u \in Callers, CheckFails(u) \/ Sleep(u) \/ Expire(u)
      PROVE  \E w \in Callers : at'[w] \in {"cancelling", "notify"}
  <2>1. at[t] \in {"checked", "asleep"} /\ completed[t]
    BY <1>5 DEF CheckFails, Sleep, Expire, Predicate
  <2>2. PICK w \in Callers : at[w] \in {"cancelling", "notify"}
    BY <2>1 DEF NoLostCancel
  <2>. QED
    BY <1>5, <2>2 DEF CheckFails, AtPredicate, Sleep, Expire
<1>6. ASSUME NEW u \in Callers, ReturnTimeout(u) \/ ReturnCancelled(u) \/ ReturnGranted(u)
      PROVE  \E w \in Callers : at'[w] \in {"cancelling", "notify"}
  <2>1. Return(u) /\ AtPredicate(u)
    BY <1>6 DEF ReturnTimeout, ReturnCancelled, ReturnGranted
  <2>2. at[t] \in {"checked", "asleep"} /\ completed[t]
    BY <2>1 DEF Return
  <2>3. PICK w \in Callers : at[w] \in {"cancelling", "notify"}
    BY <2>2 DEF NoLostCancel
  <2>. QED
    BY <2>1, <2>3 DEF Return, AtPredicate
<1>7. ASSUME NEW u \in Callers, NEW s \in Sessions, CallRelease(u, s) \/ CallReleaseAll(u, s)
      PROVE  \E w \in Callers : at'[w] \in {"cancelling", "notify"}
  <2>1. (at' = WakeAll(at) \/ at' = at) /\ completed' = completed
    BY <1>7 DEF CallRelease, CallReleaseAll
  <2>2. at[t] \in {"checked", "asleep"} /\ completed[t]
    BY <2>1 DEF WakeAll
  <2>3. PICK w \in Callers : at[w] \in {"cancelling", "notify"}
    BY <2>2 DEF NoLostCancel
  <2>. QED
    BY <2>1, <2>3 DEF WakeAll
<1>8. ASSUME NEW u \in Callers, NEW s \in Sessions, NEW lockType \in LockTypes,
             NEW key \in Keys, NEW timed \in BOOLEAN, CallAcquire(u, s, lockType, key, timed)
      PROVE  \E w \in Callers : at'[w] \in {"cancelling", "notify"}
  <2>1. at[t] \in {"checked", "asleep"} /\ completed[t]
    BY <1>8 DEF CallAcquire
  <2>2. PICK w \in Callers : at[w] \in {"cancelling", "notify"}
    BY <2>1 DEF NoLostCancel
  <2>. QED
    BY <1>8, <2>2 DEF CallAcquire
<1>. QED
  BY <1>0, <1>1, <1>2, <1>3, <1>4, <1>5, <1>6, <1>7, <1>8 DEF LockNext, LockStep, LockCall

\* A cancelled waiter is never left asleep with nobody about to wake it.
THEOREM NoLostCancelAlways == LockSpec => []NoLostCancel
<1>1. LockInit => NoLostCancel
  BY DEF LockInit, NoLostCancel
<1>. QED
  BY <1>1, LockInvariant, NextNoLostCancel, PTL DEF LockSpec

-----------------------------------------------------------------------------
\* Why nobody sleeps through a release.  NoLostRelease is not inductive: when a
\* session that joined a shared lock leaves it again, a waiter of the same
\* session must not become grantable by its key instead.  Its strengthening
\* says that a lock a waiter sleeps on cannot admit it by state or by key.
NoMissedWake ==
    \A t \in Callers : at[t] \in {"checked", "asleep"} =>
        LET st == locks[ResourceOfCall(t)] IN
        /\ st.type # "none"
        /\ call[t].type = "exclusive" => ~OwnsExclusive(st, call[t].session)
        /\ call[t].type = "shared" /\ st.type = "shared" /\ call[t].key # NoKey =>
              call[t].key # st.shared_key

\* Every step preserves NoMissedWake.
LEMMA NextNoMissedWake == LockInv /\ NoMissedWake /\ [LockNext]_lockVars => NoMissedWake'
<1> SUFFICES ASSUME LockInv, LockInv', NoMissedWake, [LockNext]_lockVars,
                    NEW t \in Callers, at'[t] \in {"checked", "asleep"}
             PROVE  LET st == locks'[ResourceOfCall(t)'] IN
                    /\ st.type # "none"
                    /\ call'[t].type = "exclusive" => ~OwnsExclusive(st, call'[t].session)
                    /\ call'[t].type = "shared" /\ st.type = "shared"
                          /\ call'[t].key # NoKey => call'[t].key # st.shared_key
  BY NextLockInv DEF NoMissedWake
<1> DEFINE r == ResourceOfCall(t)
           s == call[t].session
           Sleepable(st) == /\ st.type # "none"
                            /\ call[t].type = "exclusive" => ~OwnsExclusive(st, s)
                            /\ call[t].type = "shared" /\ st.type = "shared"
                                  /\ call[t].key # NoKey => call[t].key # st.shared_key
<1>1. at[t] \in Acquiring /\ call'[t] = call[t] /\ call[t] # NoCall
  <2>1. ASSUME NEW u \in Callers,
               CheckFails(u) \/ Sleep(u) \/ Expire(u) \/ CancelDone(u) \/ NotifyWaiters(u)
        PROVE  at[t] \in Acquiring /\ call'[t] = call[t]
    BY <2>1 DEF CheckFails, AtPredicate, Sleep, Expire, CancelDone, NotifyWaiters, WakeAll,
                Acquiring, LockInv, LockTypeOK
  <2>2. ASSUME NEW u \in Callers, ReturnTimeout(u) \/ ReturnCancelled(u) \/ ReturnGranted(u)
        PROVE  at[t] \in Acquiring /\ call'[t] = call[t]
    BY <2>2 DEF ReturnTimeout, ReturnCancelled, ReturnGranted, Return, Acquiring, LockInv, LockTypeOK
  <2>3. ASSUME NEW u \in Callers, NEW o \in Sessions,
               CallRelease(u, o) \/ CallReleaseAll(u, o) \/ Terminate(u, o)
        PROVE  at[t] \in Acquiring /\ call'[t] = call[t]
    BY <2>3 DEF CallRelease, CallReleaseAll, Terminate, WakeAll, Acquiring, LockInv, LockTypeOK
  <2>4. ASSUME NEW u \in Callers, NEW v \in Callers, RequestCancel(u, v)
        PROVE  at[t] \in Acquiring /\ call'[t] = call[t]
    BY <2>4 DEF RequestCancel, Acquiring
  <2>5. ASSUME NEW u \in Callers, NEW o \in Sessions, NEW lockType \in LockTypes,
               NEW key \in Keys, NEW timed \in BOOLEAN, CallAcquire(u, o, lockType, key, timed)
        PROVE  at[t] \in Acquiring /\ call'[t] = call[t]
    BY <2>5 DEF CallAcquire, Acquiring, LockInv, LockTypeOK
  <2>6. ASSUME UNCHANGED lockVars
        PROVE  at[t] \in Acquiring /\ call'[t] = call[t]
    BY <2>6 DEF lockVars, Acquiring
  <2>7. at[t] \in Acquiring /\ call'[t] = call[t]
    BY <2>1, <2>2, <2>3, <2>4, <2>5, <2>6 DEF LockNext, LockStep, LockCall
  <2>8. ASSUME at[t] \in Acquiring PROVE call[t] # NoCall
    BY <2>8, CallArguments DEF NoCall
  <2>. QED
    BY <2>7, <2>8
<1>2. s \in Sessions /\ call[t].type \in LockTypes /\ r \in Resources
      /\ ResourceOfCall(t)' = r /\ locks \in [Resources -> LockStates] /\ WellFormed(locks[r])
  <2>1. ResourceOfCall(t)' = r
    BY <1>1 DEF ResourceOfCall
  <2>. QED
    BY <1>1, <2>1, CallArguments DEF LockInv, LockTypeOK, LocksInv
<1> SUFFICES Sleepable(locks'[r])
  BY <1>1, <1>2
<1>3. at[t] \in {"checked", "asleep"} => Sleepable(locks[r])
  BY DEF NoMissedWake
<1> HIDE DEF Sleepable
<1>4. ASSUME UNCHANGED locks, at[t] \in {"checked", "asleep"}
      PROVE  Sleepable(locks'[r])
  BY <1>3, <1>4
<1>5. ASSUME NEW u \in Callers, CheckFails(u)
      PROVE  Sleepable(locks'[r])
  <2>1. CASE u # t
    BY <1>4, <1>5, <2>1 DEF CheckFails, LockInv, LockTypeOK
  <2>2. CASE u = t
    <3>1. ~CanGrant(locks[r], s, call[t].type, call[t].key) /\ locks' = locks
      BY <1>5, <2>2 DEF CheckFails, Predicate, Grantable
    <3>. QED
      BY <1>2, <3>1 DEF CanGrant, Sleepable
  <2>. QED
    BY <2>1, <2>2
<1>6. ASSUME NEW u \in Callers, ReturnGranted(u)
      PROVE  Sleepable(locks'[r])
  <2> DEFINE q == ResourceOfCall(u)
             new == Grant(locks[q], call[u].session, call[u].type, nextKey)
  <2>1. at[t] \in {"checked", "asleep"} /\ Sleepable(locks[r])
    BY <1>3, <1>6 DEF ReturnGranted, Return, LockInv, LockTypeOK
  <2>2. at[u] \in Acquiring
    BY <1>6 DEF ReturnGranted, AtPredicate, Acquiring
  <2>3. q \in Resources /\ call[u].session \in Sessions /\ call[u].type \in LockTypes
    BY <2>2, CallArguments
  <2>4. locks' = [locks EXCEPT ![q] = new]
    BY <1>6 DEF ReturnGranted
  <2>5. CASE q # r
    BY <1>2, <2>1, <2>3, <2>4, <2>5
  <2>6. CASE q = r
    <3>1. locks'[r] = new /\ locks[r].type # "none" /\ locks[r] \in LockStates
      BY <1>2, <2>1, <2>4, <2>6 DEF Sleepable
    <3>2. /\ new.type = locks[r].type
          /\ new.exclusive_owner = locks[r].exclusive_owner
          /\ new.shared_key = locks[r].shared_key
      BY <2>3, <2>6, <3>1 DEF Grant, LockStates, LockTypes
    <3>. QED
      BY <2>1, <3>1, <3>2 DEF Sleepable, OwnsExclusive
  <2>. QED
    BY <2>5, <2>6
<1>7. ASSUME NEW u \in Callers, NEW o \in Sessions, CallRelease(u, o) \/ CallReleaseAll(u, o)
      PROVE  Sleepable(locks'[r])
  <2> DEFINE q == ResourceOf[o]
  <2>1. /\ q \in Resources /\ WellFormed(locks[q]) /\ OwnedLockDepth(locks[q], o) > 0
        /\ locks' = [locks EXCEPT ![q] = locks'[q]]
        /\ locks'[q] = Release(locks[q], o) \/ locks'[q] = ReleaseAll(locks[q], o)
    BY <1>7 DEF CallRelease, CallReleaseAll, LockInv, LocksInv, LockTypeOK
  <2>2. at' = WakeAll(at) \/ (at' = at /\ locks'[q] # NoLock)
    BY <1>7 DEF CallRelease, CallReleaseAll
  <2>3. at[t] # "checked"
    BY <1>7 DEF CallRelease, CallReleaseAll, LockInv, MutexInv
  <2>4. at' = at /\ locks'[q] # NoLock /\ at[t] = "asleep"
    BY <2>2, <2>3 DEF WakeAll
  <2>5. Sleepable(locks[r])
    BY <1>3, <2>4
  <2> HIDE DEF q, r
  <2>6. /\ locks'[q].type = locks[q].type
        /\ locks'[q].exclusive_owner = locks[q].exclusive_owner
        /\ locks'[q].shared_key = locks[q].shared_key
    <3>1. locks[q] \in LockStates
      BY <1>2, <2>1
    <3>2. CASE locks'[q] = Release(locks[q], o)
      BY <2>1, <2>4, <3>1, <3>2, ReleaseEffect
    <3>3. CASE locks'[q] = ReleaseAll(locks[q], o)
      BY <2>1, <2>4, <3>1, <3>3, ReleaseAllEffect
    <3>. QED
      BY <2>1, <3>2, <3>3
  <2>7. CASE q # r
    <3>1. locks'[r] = locks[r]
      BY <1>2, <2>1, <2>7
    <3>. QED
      BY <2>5, <3>1
  <2>8. CASE q = r
    BY <2>5, <2>6, <2>8 DEF Sleepable, OwnsExclusive
  <2>. QED
    BY <2>7, <2>8
<1>8. ASSUME NEW u \in Callers,
             Sleep(u) \/ Expire(u) \/ CancelDone(u) \/ NotifyWaiters(u)
               \/ ReturnTimeout(u) \/ ReturnCancelled(u)
      PROVE  Sleepable(locks'[r])
  BY <1>4, <1>8 DEF Sleep, Expire, CancelDone, NotifyWaiters, WakeAll, ReturnTimeout,
                    ReturnCancelled, Return, LockInv, LockTypeOK
<1>9. ASSUME NEW u \in Callers, NEW o \in Sessions, Terminate(u, o)
      PROVE  Sleepable(locks'[r])
  BY <1>4, <1>9 DEF Terminate, LockInv, LockTypeOK
<1>10. ASSUME NEW u \in Callers, NEW v \in Callers, RequestCancel(u, v)
       PROVE  Sleepable(locks'[r])
  BY <1>4, <1>10 DEF RequestCancel
<1>11. ASSUME NEW u \in Callers, NEW o \in Sessions, NEW lockType \in LockTypes,
              NEW key \in Keys, NEW timed \in BOOLEAN, CallAcquire(u, o, lockType, key, timed)
       PROVE  Sleepable(locks'[r])
  BY <1>4, <1>11 DEF CallAcquire, LockInv, LockTypeOK
<1>12. CASE UNCHANGED lockVars
  BY <1>4, <1>12 DEF lockVars
<1>. QED
  BY <1>5, <1>6, <1>7, <1>8, <1>9, <1>10, <1>11, <1>12 DEF LockNext, LockStep, LockCall

\* A waiter sleeps through nobody's release: while it sleeps its request is not
\* grantable, unless its own session joined the lock through another thread.
THEOREM NoLostReleaseAlways == LockSpec => []NoLostRelease
<1>1. LockInit => NoMissedWake
  BY DEF LockInit, NoMissedWake
<1>2. LockInv /\ NoMissedWake => NoLostRelease
  <2> SUFFICES ASSUME LockInv, NoMissedWake, NEW t \in Callers,
                      at[t] \in {"checked", "asleep"}, Grantable(t)
               PROVE  /\ call[t].type = "shared"
                      /\ OwnsShared(locks[ResourceOfCall(t)], call[t].session)
    BY DEF NoLostRelease
  <2>. QED
    BY DEF NoMissedWake, Grantable, CanGrant
<1>. QED
  BY <1>1, <1>2, LockInvariant, NextNoMissedWake, PTL DEF LockSpec

-----------------------------------------------------------------------------
\* A function of functions that differs from another one at one place only.
LEMMA PointUpdate ==
    ASSUME NEW R, NEW S, NEW r \in R, NEW s \in S, NEW v, NEW F, NEW G,
           F = [x \in R |-> F[x]], G = [x \in R |-> G[x]],
           \A x \in R : F[x] = [y \in S |-> F[x][y]],
           \A x \in R : G[x] = [y \in S |-> G[x][y]],
           \A x \in R \ {r} : G[x] = F[x],
           \A y \in S \ {s} : G[r][y] = F[r][y],
           G[r][s] = v
    PROVE  G = [F EXCEPT ![r][s] = v]
<1>1. G[r] = [F[r] EXCEPT ![s] = v]
  OBVIOUS
<1>. QED
  BY <1>1

\* The step simulation: what a step of LockManager does to owned_lock_type and
\* owned_lock_depth is a step of ResourceLock.
LEMMA NextRefines == LockInv /\ [LockNext]_lockVars => [Abstract!Next]_(Abstract!vars)
<1> SUFFICES ASSUME LockInv, [LockNext]_lockVars PROVE [Abstract!Next]_(Abstract!vars)
  OBVIOUS
<1> DEFINE mode  == [r \in Resources |-> [s \in Sessions |-> OwnedLockType(locks[r], s)]]
           depth == [r \in Resources |-> [s \in Sessions |-> OwnedLockDepth(locks[r], s)]]
<1>0. /\ mode = [x \in Resources |-> mode[x]] /\ mode' = [x \in Resources |-> mode'[x]]
      /\ depth = [x \in Resources |-> depth[x]] /\ depth' = [x \in Resources |-> depth'[x]]
      /\ \A x \in Resources :
            /\ mode[x] = [y \in Sessions |-> mode[x][y]]
            /\ mode'[x] = [y \in Sessions |-> mode'[x][y]]
            /\ depth[x] = [y \in Sessions |-> depth[x][y]]
            /\ depth'[x] = [y \in Sessions |-> depth'[x][y]]
            /\ locks'[x] = locks[x] => mode'[x] = mode[x] /\ depth'[x] = depth[x]
            /\ \A y \in Sessions :
                  /\ mode[x][y] = OwnedLockType(locks[x], y)
                  /\ mode'[x][y] = OwnedLockType(locks'[x], y)
                  /\ depth[x][y] = OwnedLockDepth(locks[x], y)
                  /\ depth'[x][y] = OwnedLockDepth(locks'[x], y)
  OBVIOUS
<1> HIDE DEF mode, depth
<1>1. ASSUME NEW t \in Callers, ReturnGranted(t)
      PROVE  Abstract!Lock(call[t].session, ResourceOfCall(t), call[t].type)
  <2> DEFINE r == ResourceOfCall(t)
             s == call[t].session
             m == call[t].type
  <2>1. at[t] \in Acquiring
    BY <1>1 DEF ReturnGranted, AtPredicate, Acquiring
  <2>2. s \in Sessions /\ m \in LockTypes /\ r \in Resources
    BY <2>1, CallArguments
  <2>3. locks[r] \in LockStates /\ WellFormed(locks[r]) /\ locks \in [Resources -> LockStates]
    BY <2>2 DEF LockInv, LockTypeOK, LocksInv
  <2>4. /\ locks' = [locks EXCEPT ![r] = locks'[r]]
        /\ OwnedLockDepth(locks'[r], s) = OwnedLockDepth(locks[r], s) + 1
        /\ OwnedLockType(locks'[r], s) = m
        /\ \A o \in Sessions \ {s} :
              /\ OwnedLockDepth(locks'[r], o) = OwnedLockDepth(locks[r], o)
              /\ OwnedLockType(locks'[r], o) = OwnedLockType(locks[r], o)
    BY <1>1, <2>2, <2>3, GrantStep
  <2>5. CanGrant(locks[r], s, m, call[t].key)
    BY <1>1 DEF ReturnGranted, Grantable
  <2>6. /\ OwnedLockType(locks[r], s) \in {"none", m}
        /\ \A o \in Sessions \ {s} :
              \/ OwnedLockType(locks[r], o) = "none"
              \/ m = "shared" /\ OwnedLockType(locks[r], o) = "shared"
    BY <2>2, <2>3, <2>5
       DEF CanGrant, WellFormed, NoLock, LockStates, LockTypes, OwnedLockType, OwnsExclusive,
           OwnsShared
  <2> HIDE DEF r, s, m
  <2>7. \A x \in Resources \ {r} : locks'[x] = locks[x]
    BY <2>2, <2>3, <2>4
  <2>8. mode' = [mode EXCEPT ![r][s] = m]
    BY <1>0, <2>2, <2>4, <2>7, PointUpdate
  <2>9. depth' = [depth EXCEPT ![r][s] = depth[r][s] + 1]
    BY <1>0, <2>2, <2>4, <2>7, PointUpdate
  <2>10. Abstract!Compatible(s, r, m)
    BY <2>2, <2>6 DEF Abstract!Compatible
  <2>. QED
    BY <2>8, <2>9, <2>10 DEF Abstract!Lock, r, s, m, mode, depth
<1>2. ASSUME NEW t \in Callers, NEW s \in Sessions, CallRelease(t, s)
      PROVE  Abstract!Unlock(s, ResourceOf[s])
  <2> DEFINE r == ResourceOf[s]
  <2>1. r \in Resources /\ locks \in [Resources -> LockStates] /\ WellFormed(locks[r])
    BY DEF LockInv, LockTypeOK, LocksInv
  <2>2. /\ locks' = [locks EXCEPT ![r] = locks'[r]]
        /\ locks'[r] = Release(locks[r], s)
        /\ OwnedLockDepth(locks[r], s) > 0
    BY <1>2, <2>1 DEF CallRelease
  <2>3. /\ OwnedLockDepth(locks'[r], s) = OwnedLockDepth(locks[r], s) - 1
        /\ OwnedLockType(locks'[r], s) =
              IF OwnedLockDepth(locks[r], s) = 1 THEN "none" ELSE OwnedLockType(locks[r], s)
        /\ \A o \in Sessions \ {s} :
              /\ OwnedLockDepth(locks'[r], o) = OwnedLockDepth(locks[r], o)
              /\ OwnedLockType(locks'[r], o) = OwnedLockType(locks[r], o)
    BY <2>1, <2>2, ReleaseEffect
  <2>4. OwnedLockType(locks[r], s) # "none"
    BY <2>1, <2>2, OwnedTypeAndDepth
  <2> HIDE DEF r
  <2>5. \A x \in Resources \ {r} : locks'[x] = locks[x]
    BY <2>1, <2>2
  <2>6. mode' = [mode EXCEPT ![r][s] = IF depth[r][s] = 1 THEN "none" ELSE mode[r][s]]
    BY <1>0, <2>1, <2>3, <2>5, PointUpdate
  <2>7. depth' = [depth EXCEPT ![r][s] = depth[r][s] - 1]
    BY <1>0, <2>1, <2>3, <2>5, PointUpdate
  <2>8. mode[r][s] # "none"
    BY <1>0, <2>1, <2>4
  <2>. QED
    BY <2>6, <2>7, <2>8 DEF Abstract!Unlock, r, mode, depth
<1>3. ASSUME NEW t \in Callers, NEW s \in Sessions, CallReleaseAll(t, s)
      PROVE  Abstract!UnlockAll(s, ResourceOf[s])
  <2> DEFINE r == ResourceOf[s]
  <2>1. r \in Resources /\ locks \in [Resources -> LockStates] /\ WellFormed(locks[r])
    BY DEF LockInv, LockTypeOK, LocksInv
  <2>2. /\ locks' = [locks EXCEPT ![r] = locks'[r]]
        /\ locks'[r] = ReleaseAll(locks[r], s)
        /\ OwnedLockDepth(locks[r], s) > 0
    BY <1>3, <2>1 DEF CallReleaseAll
  <2>3. /\ OwnedLockDepth(locks'[r], s) = 0
        /\ OwnedLockType(locks'[r], s) = "none"
        /\ \A o \in Sessions \ {s} :
              /\ OwnedLockDepth(locks'[r], o) = OwnedLockDepth(locks[r], o)
              /\ OwnedLockType(locks'[r], o) = OwnedLockType(locks[r], o)
    BY <2>1, <2>2, ReleaseAllEffect
  <2>4. OwnedLockType(locks[r], s) # "none"
    BY <2>1, <2>2, OwnedTypeAndDepth
  <2> HIDE DEF r
  <2>5. \A x \in Resources \ {r} : locks'[x] = locks[x]
    BY <2>1, <2>2
  <2>6. mode' = [mode EXCEPT ![r][s] = "none"]
    BY <1>0, <2>1, <2>3, <2>5, PointUpdate
  <2>7. depth' = [depth EXCEPT ![r][s] = 0]
    BY <1>0, <2>1, <2>3, <2>5, PointUpdate
  <2>8. mode[r][s] # "none"
    BY <1>0, <2>1, <2>4
  <2>. QED
    BY <2>6, <2>7, <2>8 DEF Abstract!UnlockAll, r, mode, depth
<1>4. ASSUME UNCHANGED locks
      PROVE  UNCHANGED Abstract!vars
  BY <1>4 DEF Abstract!vars
<1>5. ASSUME NEW t \in Callers, ReturnGranted(t)
      PROVE  /\ call[t].session \in Sessions
             /\ ResourceOfCall(t) \in Resources
             /\ call[t].type \in {"exclusive", "shared"}
  <2>1. at[t] \in Acquiring
    BY <1>5 DEF ReturnGranted, AtPredicate, Acquiring
  <2>. QED
    BY <2>1, CallArguments DEF LockTypes
<1>6. CASE \E t \in Callers : ReturnGranted(t)
  BY <1>1, <1>5, <1>6 DEF Abstract!Next
<1>7. CASE \E t \in Callers, s \in Sessions : CallRelease(t, s) \/ CallReleaseAll(t, s)
  BY <1>2, <1>3, <1>7 DEF Abstract!Next
<1>8. \/ \E t \in Callers : ReturnGranted(t)
      \/ \E t \in Callers, s \in Sessions : CallRelease(t, s) \/ CallReleaseAll(t, s)
      \/ UNCHANGED locks
  BY DEF LockNext, LockStep, LockCall, lockVars, CallAcquire, CheckFails, Sleep, Expire, ReturnTimeout,
         ReturnCancelled, Terminate, RequestCancel, CancelDone, NotifyWaiters
<1>. QED
  BY <1>4, <1>6, <1>7, <1>8

\* LockManager implements the abstract reentrant lock.
THEOREM RefinesResourceLock == LockSpec => ImplementsResourceLock
<1>1. LockInit => Abstract!Init
  BY NoLockWellFormed DEF LockInit, Abstract!Init
<1>. QED
  BY <1>1, LockInvariant, NextRefines, PTL DEF LockSpec, ImplementsResourceLock, Abstract!Spec
=============================================================================
