-------------------------- MODULE ObjectLifecycle --------------------------
(***************************************************************************)
(* How resource managers, sessions and find lists come to life and are     *)
(* closed: viOpenDefaultRM, viOpen, viFindRsrc, viClose and                *)
(* register_child in src/api/visa_api.cpp, with ResourceManager and the    *)
(* close() of the three objects in src/core/objects.cpp, over HandleTable. *)
(*                                                                         *)
(* Every step is one critical section (of the table, or of the manager) or *)
(* one access to a member shared without a lock (handle_).  The work of    *)
(* close() that concerns operations and locks is the Session module's; here*)
(* it is the single step CloseObject.                                      *)
(***************************************************************************)
EXTENDS HandleTable, FiniteSets

CONSTANT Threads

VARIABLES
    created,     \* objects that exist or have existed
    parent,      \* parent_ : the manager a child was opened from
    handleOf,    \* handle_ : VI_NULL (0) until set_handle
    closes,      \* history: how often close() of an object was entered
    children,    \* children_ of each manager
    rmClosed,    \* closed_ of each manager
    known,       \* handles the application has been given, dead ones included
    pc,          \* where each thread is
    work         \* its local variables

objectVars == <<created, parent, handleOf, closes, children, rmClosed>>
threadVars == <<known, pc, work>>
vars == <<slots, issued, objectVars, threadVars>>

\* manager: the manager a child is opened from, or the one being closed
\* object, handle: the child in hand;  todo: what take_children returned
NoWork == [manager |-> NoObject, object |-> NoObject, handle |-> 0, todo |-> {}]

PCs == {"idle", "insert", "add", "undo", "set", "lock", "close", "detach", "children"}

\* One type invariant for the table, the objects and the threads.
TypeOK ==
    /\ TableTypeOK
    /\ created \in SUBSET Objects
    /\ parent \in [Objects -> Objects \cup {NoObject}]
    /\ handleOf \in [Objects -> Nat]
    /\ closes \in [Objects -> Nat]
    /\ children \in [Objects -> SUBSET Nat]
    /\ rmClosed \in [Objects -> BOOLEAN]
    /\ known \in SUBSET Nat
    /\ pc \in [Threads -> PCs]
    /\ work \in [Threads -> [manager : Objects \cup {NoObject},
                             object  : Objects \cup {NoObject},
                             handle  : Nat,
                             todo    : SUBSET Nat]]

Init ==
    /\ TableInit
    /\ created = {}
    /\ parent = [o \in Objects |-> NoObject]
    /\ handleOf = [o \in Objects |-> 0]
    /\ closes = [o \in Objects |-> 0]
    /\ children = [o \in Objects |-> {}]
    /\ rmClosed = [o \in Objects |-> FALSE]
    /\ known = {}
    /\ pc = [t \in Threads |-> "idle"]
    /\ work = [t \in Threads |-> NoWork]

Fresh == CHOOSE o \in Objects : o \notin created

Goto(t, place, w) ==
    /\ pc' = [pc EXCEPT ![t] = place]
    /\ work' = [work EXCEPT ![t] = w]

Finish(t) == Goto(t, "idle", NoWork)

-----------------------------------------------------------------------------
\* viOpenDefaultRM: the object and its handle in one step.
OpenDefaultRM(t) ==
    /\ pc[t] = "idle"
    /\ created # Objects
    /\ Insert(ResourceManagerType, Fresh)
    /\ created' = created \cup {Fresh}
    /\ known' = known \cup {InsertedHandle(ResourceManagerType)}
    /\ UNCHANGED <<parent, handleOf, closes, children, rmClosed, pc, work>>

\* viOpen and viFindRsrc: the lookup of the manager.  A dead handle ends the
\* call at once with VI_ERROR_INV_OBJECT.
Lookup(t, handle) ==
    /\ pc[t] = "idle"
    /\ created # Objects
    /\ Get(handle, ResourceManagerType) # NoObject
    /\ Goto(t, "insert", [NoWork EXCEPT !.manager = Get(handle, ResourceManagerType)])
    /\ UNCHANGED <<slots, issued, objectVars, known>>

\* The backend cannot be opened, nothing matches, or insert throws because the
\* table is full: no object is registered.
OpenFails(t) ==
    /\ pc[t] = "insert"
    /\ Finish(t)
    /\ UNCHANGED <<slots, issued, objectVars, known>>

\* register_child: the first of its steps.
InsertChild(t, type) ==
    /\ pc[t] = "insert"
    /\ created # Objects
    /\ Insert(type, Fresh)
    /\ created' = created \cup {Fresh}
    /\ parent' = [parent EXCEPT ![Fresh] = work[t].manager]
    /\ Goto(t, "add", [work[t] EXCEPT !.object = Fresh, !.handle = InsertedHandle(type)])
    /\ UNCHANGED <<handleOf, closes, children, rmClosed, known>>

\* Faulty variant of AddChild: closed_ is not looked at.
AddChildAlways(t) ==
    /\ pc[t] = "add"
    /\ children' = [children EXCEPT ![work[t].manager] = @ \cup {work[t].handle}]
    /\ Goto(t, "set", work[t])
    /\ UNCHANGED <<slots, issued, created, parent, handleOf, closes, rmClosed, known>>

\* add_child: refused by a manager that has been closed in the meantime.
AddChild(t) ==
    /\ pc[t] = "add"
    /\ IF rmClosed[work[t].manager]
         THEN /\ Goto(t, "undo", work[t])
              /\ UNCHANGED children
         ELSE /\ children' = [children EXCEPT ![work[t].manager] = @ \cup {work[t].handle}]
              /\ Goto(t, "set", work[t])
    /\ UNCHANGED <<slots, issued, created, parent, handleOf, closes, rmClosed, known>>

\* Faulty variant of Undo: the handle is taken out but the child is not closed.
UndoWithoutClose(t) ==
    /\ pc[t] = "undo"
    /\ Remove(work[t].handle)
    /\ Finish(t)
    /\ UNCHANGED <<objectVars, known>>

\* register_child: add_child was refused; whatever remove() says, the child is
\* closed.
Undo(t) ==
    /\ pc[t] = "undo"
    /\ IF GetAny(work[t].handle) # NoObject
         THEN Remove(work[t].handle)
         ELSE UNCHANGED <<slots, issued>>
    /\ Goto(t, "close", [work[t] EXCEPT !.manager = NoObject])
    /\ UNCHANGED <<objectVars, known>>

\* set_handle, after the child can already be reached through children_.
SetHandle(t) ==
    /\ pc[t] = "set"
    /\ handleOf' = [handleOf EXCEPT ![work[t].object] = work[t].handle]
    /\ Goto(t, "lock", work[t])
    /\ UNCHANGED <<slots, issued, created, parent, closes, children, rmClosed, known>>

\* The handle goes to the application.
ReturnHandle(t) ==
    /\ pc[t] = "lock"
    /\ known' = known \cup {work[t].handle}
    /\ Finish(t)
    /\ UNCHANGED <<slots, issued, objectVars>>

\* viOpen with a lock mode, when session->lock() fails: the session is taken
\* out and closed, unless the manager's close() was faster.
LockFails(t) ==
    /\ pc[t] = "lock"
    /\ TypeField(work[t].handle) = SessionType
    /\ IF GetAny(work[t].handle) # NoObject
         THEN /\ Remove(work[t].handle)
              /\ Goto(t, "close", [work[t] EXCEPT !.manager = NoObject])
         ELSE /\ Finish(t)
              /\ UNCHANGED <<slots, issued>>
    /\ UNCHANGED <<objectVars, known>>

-----------------------------------------------------------------------------
\* viClose: the handle is dead before close() begins.  A handle that names
\* nothing ends the call with VI_ERROR_INV_OBJECT.
Close(t, handle) ==
    /\ pc[t] = "idle"
    /\ Remove(handle)
    /\ Goto(t, "close", [NoWork EXCEPT !.object = GetAny(handle)])
    /\ UNCHANGED <<objectVars, known>>

\* After close() of a child: go on with the manager's other children.
Resume(t) ==
    IF work[t].manager = NoObject
      THEN Finish(t)
      ELSE Goto(t, "children", [work[t] EXCEPT !.object = NoObject])

\* SessionObject::close and FindListObject::close up to remove_child.
CloseObject(t) ==
    /\ pc[t] = "close"
    /\ parent[work[t].object] # NoObject
    /\ closes' = [closes EXCEPT ![work[t].object] = @ + 1]
    /\ Goto(t, "detach", work[t])
    /\ UNCHANGED <<slots, issued, created, parent, handleOf, children, rmClosed, known>>

\* Faulty variant of Detach: remove_child is forgotten.
DetachNothing(t) ==
    /\ pc[t] = "detach"
    /\ Resume(t)
    /\ UNCHANGED <<slots, issued, objectVars, known>>

\* parent->remove_child(handle_); handle_ is still VI_NULL if viOpen has not
\* come to set_handle.
Detach(t) ==
    LET m == parent[work[t].object] IN
    /\ pc[t] = "detach"
    /\ children' = [children EXCEPT ![m] = @ \ {handleOf[work[t].object]}]
    /\ Resume(t)
    /\ UNCHANGED <<slots, issued, created, parent, handleOf, closes, rmClosed, known>>

\* ResourceManager::close: take_children.
TakeChildren(t) ==
    LET m == work[t].object IN
    /\ pc[t] = "close"
    /\ parent[m] = NoObject
    /\ closes' = [closes EXCEPT ![m] = @ + 1]
    /\ rmClosed' = [rmClosed EXCEPT ![m] = TRUE]
    /\ children' = [children EXCEPT ![m] = {}]
    /\ Goto(t, "children", [NoWork EXCEPT !.manager = m, !.todo = children[m]])
    /\ UNCHANGED <<slots, issued, created, parent, handleOf, known>>

\* Faulty variant of CloseChild: the object is looked up and closed without
\* being taken out of the table.
CloseChildByGet(t, handle) ==
    /\ pc[t] = "children"
    /\ handle \in work[t].todo
    /\ IF GetAny(handle) # NoObject
         THEN Goto(t, "close", [work[t] EXCEPT !.todo = @ \ {handle},
                                               !.object = GetAny(handle)])
         ELSE Goto(t, "children", [work[t] EXCEPT !.todo = @ \ {handle}])
    /\ UNCHANGED <<slots, issued, objectVars, known>>

\* One child of the loop: skipped if somebody else has removed it.
CloseChild(t, handle) ==
    /\ pc[t] = "children"
    /\ handle \in work[t].todo
    /\ IF GetAny(handle) # NoObject
         THEN /\ Remove(handle)
              /\ Goto(t, "close", [work[t] EXCEPT !.todo = @ \ {handle},
                                                  !.object = GetAny(handle)])
         ELSE /\ Goto(t, "children", [work[t] EXCEPT !.todo = @ \ {handle}])
              /\ UNCHANGED <<slots, issued>>
    /\ UNCHANGED <<objectVars, known>>

ChildrenDone(t) ==
    /\ pc[t] = "children"
    /\ work[t].todo = {}
    /\ Finish(t)
    /\ UNCHANGED <<slots, issued, objectVars, known>>

-----------------------------------------------------------------------------
Step(t) ==
    \/ OpenFails(t)
    \/ \E type \in {SessionType, FindListType} : InsertChild(t, type)
    \/ AddChild(t)
    \/ Undo(t)
    \/ SetHandle(t)
    \/ ReturnHandle(t)
    \/ LockFails(t)
    \/ CloseObject(t)
    \/ Detach(t)
    \/ TakeChildren(t)
    \/ \E handle \in work[t].todo : CloseChild(t, handle)
    \/ ChildrenDone(t)

Call(t) ==
    \/ OpenDefaultRM(t)
    \/ \E handle \in known : Lookup(t, handle) \/ Close(t, handle)

Next == \E t \in Threads : Step(t) \/ Call(t)

Spec == Init /\ [][Next]_vars

\* A thread inside a call of the API goes on; no application thread has to make
\* a call.
FairSpec == Spec /\ \A t \in Threads : WF_vars(Step(t))

-----------------------------------------------------------------------------
InTable(o) == \E i \in DOMAIN slots : slots[i].object = o

\* The requirement on viClose: an object cannot be reached by a handle any more
\* when its close() begins, and close() is entered once, whether viClose, the
\* manager's close() or a failed viOpen comes first.
ClosedOnceAndUnreachable ==
    \A o \in Objects : closes[o] > 0 => closes[o] = 1 /\ ~InTable(o)

\* No session or find list outlives its manager: a child that is in the table
\* while its manager is closed is on the list of the manager's close(), or in
\* the hands of the viOpen that is about to be refused.
NoOrphan ==
    \A i \in DOMAIN slots :
        LET o == slots[i].object
            h == Encode(slots[i].type, slots[i].generation, i) IN
        o # NoObject /\ parent[o] # NoObject /\ rmClosed[parent[o]] =>
            \E t \in Threads : \/ pc[t] \in {"add", "undo"} /\ work[t].object = o
                               \/ pc[t] = "children" /\ h \in work[t].todo
                               \/ pc[t] \in {"close", "detach"} /\ h \in work[t].todo

\* children_ holds handles of the manager's own children, each of them alive or
\* just being closed: it does not grow with sessions that are gone.
ChildrenAreAlive ==
    \A m \in Objects : \A h \in children[m] :
        \E p \in issued :
            /\ p[1] = h
            /\ parent[p[2]] = m
            /\ \/ GetAny(h) = p[2]
               \/ \E t \in Threads : pc[t] \in {"close", "detach"} /\ work[t].object = p[2]

\* Whoever takes an object out of the table closes it in the end.
RemovedIsClosed ==
    \A o \in Objects : o \in created /\ ~InTable(o) ~> closes[o] = 1
=============================================================================
