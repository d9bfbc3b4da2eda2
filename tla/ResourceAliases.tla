--------------------------- MODULE ResourceAliases --------------------------
(***************************************************************************)
(* The aliases of a ResourceManager (src/core/objects.cpp): two maps, one  *)
(* by alias and one by resource, that must stay each other's inverse.      *)
(*                                                                         *)
(* Aliases are the names valid_alias accepts, ResourceNames the canonical  *)
(* names of resources as parse_resource returns them; FoldedName is        *)
(* folded_name.                                                            *)
(***************************************************************************)
EXTENDS FiniteSets

CONSTANTS Aliases, ResourceNames, FoldedName

\* valid_alias refuses what parses as a resource name.
ASSUME AliasAssumption == Aliases \cap ResourceNames = {} /\ DOMAIN FoldedName = Aliases \cup ResourceNames

VARIABLES
    aliases,               \* aliases_: folded alias -> display_name, resource
    aliases_by_resource,   \* aliases_by_resource_: folded resource -> folded alias
    closed,                \* closed_
    answer                 \* the name of the last resolve_resource and what it returned

aliasVars == <<aliases, aliases_by_resource, closed, answer>>

\* No call yet, and std::nullopt for a name.
NoAnswer == [found |-> FALSE]
Nothing(name) == [name |-> name, found |-> FALSE]

AliasInit ==
    /\ aliases = <<>>
    /\ aliases_by_resource = <<>>
    /\ closed = FALSE
    /\ answer = NoAnswer

Erase(map, key) == [k \in DOMAIN map \ {key} |-> map[k]]
Put(map, key, value) == [k \in DOMAIN map \cup {key} |-> IF k = key THEN value ELSE map[k]]

\* Faulty variant of ForgetResource: the resource keeps pointing to the alias.
ForgetResourceNot(alias_key) == aliases_by_resource

\* aliases_by_resource_ without the resource the alias stood for.
ForgetResource(alias_key) ==
    IF alias_key \in DOMAIN aliases
    THEN Erase(aliases_by_resource, FoldedName[aliases[alias_key].resource])
    ELSE aliases_by_resource

\* set_resource_alias.
SetResourceAlias(alias, resource) ==
    LET alias_key == FoldedName[alias]
        resource_key == FoldedName[resource]
        by_resource == ForgetResource(alias_key)
        by_alias == IF resource_key \in DOMAIN by_resource THEN Erase(aliases, by_resource[resource_key]) ELSE aliases
    IN  /\ ~closed
        /\ aliases' = Put(by_alias, alias_key, [display_name |-> alias, resource |-> resource])
        /\ aliases_by_resource' = Put(by_resource, resource_key, alias_key)
        /\ UNCHANGED <<closed, answer>>

\* The alias resolve_resource reports for a resource name.
AliasOf(resource_key) ==
    {aliases[k].display_name : k \in {k \in DOMAIN aliases :
        resource_key \in DOMAIN aliases_by_resource /\ aliases_by_resource[resource_key] = k}}

\* resolve_resource: a resource name is used directly, anything else is an
\* alias.
ResolveResource(name) ==
    /\ answer' = IF closed THEN Nothing(name)
                 ELSE IF name \in ResourceNames
                 THEN [name |-> name, found |-> TRUE, resource |-> name, alias |-> AliasOf(FoldedName[name])]
                 ELSE IF FoldedName[name] \in DOMAIN aliases
                 THEN LET entry == aliases[FoldedName[name]]
                      IN  [name |-> name, found |-> TRUE, resource |-> entry.resource, alias |-> {entry.display_name}]
                 ELSE Nothing(name)
    /\ UNCHANGED <<aliases, aliases_by_resource, closed>>

\* take_children, from close().
CloseManager ==
    /\ ~closed
    /\ closed' = TRUE
    /\ UNCHANGED <<aliases, aliases_by_resource, answer>>

AliasNext ==
    \/ \E alias \in Aliases, name \in ResourceNames : SetResourceAlias(alias, name)
    \/ \E name \in Aliases \cup ResourceNames : ResolveResource(name)
    \/ CloseManager

\* The aliases on their own; every step of Discovery is one of these or leaves
\* aliasVars alone.
AliasSpec == AliasInit /\ [][AliasNext]_aliasVars

\* The pairs the two maps hold.
Directory == INSTANCE AliasDirectory WITH assigned <- {aliases[k] : k \in DOMAIN aliases}

\* Whatever the order of assignments that take each other's alias or
\* resource, look-ups in both directions answer as the one-to-one relation
\* of the latest assignments does: an assigned name is found in every
\* spelling, and nothing is the answer only for an alias that is not assigned
\* or from a closed manager (set_resource_alias, resolve_resource).
ImplementsAliasDirectory == Directory!Spec
=============================================================================
