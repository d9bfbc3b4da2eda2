--------------------------- MODULE AliasDirectory ---------------------------
(***************************************************************************)
(* What a resource manager promises about aliases: a one-to-one relation   *)
(* between aliases and resources, neither of them sensitive to case, in    *)
(* which a new assignment replaces those of its alias and its resource.    *)
(***************************************************************************)
CONSTANTS Aliases, ResourceNames, FoldedName

VARIABLES
    assigned,   \* the pairs in force
    closed,     \* the manager is closed
    answer      \* the name last looked up and what the caller was told

vars == <<assigned, closed, answer>>

NoQuestion == [found |-> FALSE]
Told(name, resource, alias) == [name |-> name, found |-> TRUE, resource |-> resource, alias |-> alias]
Unknown(name) == [name |-> name, found |-> FALSE]

Init == assigned = {} /\ closed = FALSE /\ answer = NoQuestion

SameAlias(a, b) == FoldedName[a] = FoldedName[b]

Assign(alias, name) ==
    /\ ~closed
    /\ assigned' = {p \in assigned : ~SameAlias(p.display_name, alias) /\ ~SameAlias(p.resource, name)}
                      \cup {[display_name |-> alias, resource |-> name]}
    /\ UNCHANGED <<closed, answer>>

\* A resource name stands for itself, and is told its alias.
LookUpName(name) ==
    /\ ~closed
    /\ answer' = Told(name, name, {p.display_name : p \in {p \in assigned : SameAlias(p.resource, name)}})
    /\ UNCHANGED <<assigned, closed>>

\* An alias stands for the resource it is assigned to, and for nothing only if
\* there is none.
LookUpAlias(alias) ==
    /\ ~closed
    /\ \/ \E p \in assigned :
             SameAlias(p.display_name, alias) /\ answer' = Told(alias, p.resource, {p.display_name})
       \/ /\ \A p \in assigned : ~SameAlias(p.display_name, alias)
          /\ answer' = Unknown(alias)
    /\ UNCHANGED <<assigned, closed>>

\* A closed manager knows nothing.
Close == ~closed /\ closed' = TRUE /\ UNCHANGED <<assigned, answer>>
LookUpClosed(name) == closed /\ answer' = Unknown(name) /\ UNCHANGED <<assigned, closed>>

Next ==
    \/ \E alias \in Aliases, name \in ResourceNames : Assign(alias, name)
    \/ \E name \in ResourceNames : LookUpName(name)
    \/ \E alias \in Aliases : LookUpAlias(alias)
    \/ \E name \in Aliases \cup ResourceNames : LookUpClosed(name)
    \/ Close

Spec == Init /\ [][Next]_vars
=============================================================================
