---------------------------- MODULE HandleTable ----------------------------
(***************************************************************************)
(* HandleTable (src/core/handle_table.cpp): the table that turns the       *)
(* 32-bit handles of the C API into objects.  A handle packs a type, a     *)
(* 12-bit generation and a 16-bit slot number; removing an object raises   *)
(* the generation of its slot, and a slot whose generation is used up is   *)
(* retired.  Every operation runs under mutex_ and is one step.            *)
(*                                                                         *)
(* The history variable issued remembers which object every handle was     *)
(* issued for; nothing in the table depends on it.                         *)
(***************************************************************************)
EXTENDS Naturals, Sequences

CONSTANTS
    Objects,         \* objects of the program
    NoObject,        \* an empty shared_ptr
    MaxSlots,        \* kMaxSlots, 0xFFFF in the code
    MaxGeneration    \* kGenerationMask, 0x0FFF in the code

ASSUME NoObjectAssumption == NoObject \notin Objects
ASSUME MaxSlotsAssumption == MaxSlots \in Nat /\ 1 <= MaxSlots /\ MaxSlots <= 65535
ASSUME MaxGenerationAssumption == MaxGeneration \in Nat /\ 1 <= MaxGeneration /\ MaxGeneration <= 4095

VARIABLES
    slots,     \* slots_
    issued     \* history: pairs <<handle, object>>

tableVars == <<slots, issued>>

\* enum class ObjectType.
ResourceManagerType == 1
FindListType        == 2
SessionType         == 3
ObjectTypes == {ResourceManagerType, FindListType, SessionType}

SlotValues ==
    [object     : Objects \cup {NoObject},
     generation : 1 .. MaxGeneration,
     type       : ObjectTypes,
     retired    : BOOLEAN]

-----------------------------------------------------------------------------
Encode(type, generation, indexPlusOne) ==
    type * 268435456 + generation * 65536 + indexPlusOne

TypeField(handle)       == (handle \div 268435456) % 16
GenerationField(handle) == (handle \div 65536) % 4096
IndexField(handle)      == handle % 65536

Decodable(handle) ==
    /\ IndexField(handle) # 0
    /\ GenerationField(handle) # 0
    /\ TypeField(handle) \in ObjectTypes

\* Faulty variant of Names: the generation is not compared.
NamesAnyGeneration(handle, i) ==
    /\ Decodable(handle)
    /\ i = IndexField(handle)
    /\ slots[i].object # NoObject
    /\ slots[i].type = TypeField(handle)

\* The handle names the object in slot i.
Names(handle, i) ==
    /\ Decodable(handle)
    /\ i = IndexField(handle)
    /\ slots[i].object # NoObject
    /\ ~slots[i].retired
    /\ slots[i].type = TypeField(handle)
    /\ slots[i].generation = GenerationField(handle)

\* get_any(); get() also compares the type the caller expects.
GetAny(handle) ==
    IF \E i \in DOMAIN slots : Names(handle, i)
      THEN slots[IndexField(handle)].object
      ELSE NoObject

Get(handle, type) ==
    IF TypeField(handle) = type THEN GetAny(handle) ELSE NoObject

-----------------------------------------------------------------------------
Usable(i) == slots[i].object = NoObject /\ ~slots[i].retired

FreeSlots == {i \in DOMAIN slots : Usable(i)}

FirstFree == CHOOSE i \in FreeSlots : \A j \in FreeSlots : i <= j

Full == FreeSlots = {} /\ Len(slots) >= MaxSlots

\* insert(): the handle it returns.
InsertedHandle(type) ==
    IF FreeSlots # {}
      THEN Encode(type, slots[FirstFree].generation, FirstFree)
      ELSE Encode(type, 1, Len(slots) + 1)

\* insert(): throws std::bad_alloc when the table is full.
Insert(type, object) ==
    /\ ~Full
    /\ slots' = IF FreeSlots # {}
                  THEN [slots EXCEPT ![FirstFree] =
                           [object     |-> object,
                            generation |-> @.generation,
                            type       |-> type,
                            retired    |-> FALSE]]
                  ELSE Append(slots, [object     |-> object,
                                      generation |-> 1,
                                      type       |-> type,
                                      retired    |-> FALSE])
    /\ issued' = issued \cup {<<InsertedHandle(type), object>>}

\* Faulty variant of Vacate: the generation wraps around instead of retiring
\* the slot.
VacateWrapping(slot) ==
    [object     |-> NoObject,
     generation |-> IF slot.generation = MaxGeneration THEN 1 ELSE slot.generation + 1,
     type       |-> slot.type,
     retired    |-> FALSE]

\* Faulty variant of Vacate: the slot is never retired, and its generation runs
\* out of its 12 bits.
VacateUnbounded(slot) ==
    [object     |-> NoObject,
     generation |-> slot.generation + 1,
     type       |-> slot.type,
     retired    |-> FALSE]

\* What remove() leaves in the slot: the next generation, or none.
Vacate(slot) ==
    [object     |-> NoObject,
     generation |-> IF slot.generation = MaxGeneration
                      THEN slot.generation
                      ELSE slot.generation + 1,
     type       |-> slot.type,
     retired    |-> slot.generation = MaxGeneration]

\* remove() of a handle that names an object.
Remove(handle) ==
    /\ GetAny(handle) # NoObject
    /\ slots' = [slots EXCEPT ![IndexField(handle)] = Vacate(@)]
    /\ UNCHANGED issued

-----------------------------------------------------------------------------
TableInit ==
    /\ slots = <<>>
    /\ issued = {}

\* Any insertion, and removal of any number taken for a handle.
TableNext ==
    \/ \E type \in ObjectTypes, object \in Objects : Insert(type, object)
    \/ \E handle \in Nat : Remove(handle)

TableSpec == TableInit /\ [][TableNext]_tableVars

\* Every slot has the fields of struct Slot, within their ranges.
TableTypeOK ==
    /\ slots \in Seq(SlotValues)
    /\ Len(slots) <= MaxSlots
    /\ issued \in SUBSET (Nat \X Objects)

\* ADR 0003: a handle stands for the one object it was issued for.  No value is
\* issued twice, and a value that resolves, resolves to that object.
HandleNamesItsObject ==
    /\ \A p, q \in issued : p[1] = q[1] => p = q
    /\ \A p \in issued : GetAny(p[1]) \in {NoObject, p[2]}
    /\ \A i \in DOMAIN slots : slots[i].object # NoObject =>
          <<Encode(slots[i].type, slots[i].generation, i), slots[i].object>> \in issued

\* A handle that was closed never comes back to life, however often its slot is
\* used again (no ABA).
StaleHandlesStayDead ==
    [][\A p \in issued : GetAny(p[1]) = NoObject => GetAny(p[1])' = NoObject]_tableVars
=============================================================================
