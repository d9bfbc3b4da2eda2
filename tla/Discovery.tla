------------------------------ MODULE Discovery -----------------------------
(***************************************************************************)
(* What a ResourceManager finds and how callers name it: viFindRsrc and    *)
(* viFindNext (src/api/visa_api.cpp) over the resources the manager knows, *)
(* with the find list as a snapshot, beside the calls that add a serial    *)
(* port or an alias.                                                       *)
(*                                                                         *)
(* The caller composes an expression one piece at a time, so that every    *)
(* expression within the bounds is searched for.                           *)
(***************************************************************************)
EXTENDS FindGrammar, ResourceAliases

CONSTANTS
    Descriptor,        \* parse_resource of the known names: rsrc_name, intf_num, ...
    NameOrder,         \* those names, in the order of std::sort, the mock last
    SerialPorts,       \* serial_paths_ when the manager is created
    MoreSerialPorts,   \* ports wrvisaSetSerialPath may add
    Providers,         \* gpib_resources_ and usb_resources_: a set of sets
    MockResource,      \* WRVISA_MOCK_RESOURCE
    MockExpression,    \* WRVISA_MOCK_FIND_EXPRESSION
    Pieces,            \* what is typed in the regular expression
    FilterPieces,      \* and in the filter
    FilterPrefixes,    \* the regular expressions a filter is typed after
    MaxPieces,         \* the longest of each
    MaxFilter

VARIABLES
    expr,            \* the expression, as composed so far
    pieces,          \* how many pieces it has
    serial_paths,    \* serial_paths_
    list,            \* the FindListObject: matches_, index_, closed_
    result,          \* the status of the last viFindRsrc or viFindNext
    received,        \* the names the caller got from one search
    wanted           \* what the grammar says it should get, when viFindRsrc was called

findVars == <<list, result, received, wanted>>
vars == <<expr, pieces, serial_paths, findVars, aliasVars>>

NoList == [matches |-> <<>>, index |-> 1, closed |-> TRUE]

Init ==
    /\ AliasInit
    /\ expr = <<>> /\ pieces = 0
    /\ serial_paths = SerialPorts
    /\ list = NoList
    /\ result = "none"
    /\ received = <<>>
    /\ wanted = {}

\* discoverable_resources: sorted, without duplicates, nothing once closed.
DiscoverableResources ==
    SelectSeq(NameOrder, LAMBDA n : ~closed /\ n \in serial_paths \cup UNION Providers)

\* mock_discovery_opted_in: the part before the filter is the mock's own
\* expression, in any case.
MockDiscoveryOptedIn ==
    LET opening == SelectInSeq(expr, LAMBDA c : c = "{")
        regular == IF opening = 0 THEN expr ELSE SubSeq(expr, 1, opening - 1)
    IN  Folded(regular) = Folded(MockExpression)

-----------------------------------------------------------------------------
Filtering == "{" \in ToSet(expr)

\* One more piece of the expression.
Type(piece) ==
    /\ result = "none"
    /\ aliases = <<>> /\ ~closed
    /\ IF Filtering THEN piece \in FilterPieces /\ pieces < MaxFilter /\ Last(expr) # "}"
       ELSE piece \in Pieces /\ pieces < MaxPieces
    /\ piece = <<"{">> => expr \in FilterPrefixes
    /\ expr' = expr \o piece
    /\ pieces' = IF piece = <<"{">> THEN 0 ELSE pieces + 1
    /\ UNCHANGED <<serial_paths, findVars, aliasVars>>

\* What a search should return, once for each meaning of the expression.
Denoted ==
    LET known == ToSet(DiscoverableResources) \cup (IF MockDiscoveryOptedIn THEN {MockResource} ELSE {})
    IN  {SelectSeq(NameOrder, LAMBDA n : n \in known /\ Descriptor[n] \in meaning)
            : meaning \in Meanings(expr, {Descriptor[n] : n \in known})}

\* viFindRsrc with a find list.  A manager being closed refuses the list.
FindRsrc ==
    LET compiled == Compile(expr)
        Found(n) == Matches(compiled, Descriptor[n])
        mock == IF MockDiscoveryOptedIn /\ Found(MockResource) THEN <<MockResource>> ELSE <<>>
        matches == SelectSeq(DiscoverableResources, Found) \o mock
    IN  /\ result = "none" /\ aliases = <<>>
        /\ wanted' = Denoted
        /\ IF ~compiled.ok THEN result' = "inv_expr" /\ UNCHANGED <<list, received>>
           ELSE IF matches = <<>> THEN result' = "nfound" /\ UNCHANGED <<list, received>>
           ELSE IF closed THEN result' = "inv_object" /\ UNCHANGED <<list, received>>
           ELSE /\ list' = [matches |-> matches, index |-> 1, closed |-> FALSE]
                /\ received' = <<matches[1]>>
                /\ result' = "found"
        /\ UNCHANGED <<expr, pieces, serial_paths, aliasVars>>

\* viFindNext: FindListObject::next.
FindNext ==
    /\ result = "found"
    /\ IF list.closed \/ list.index >= Len(list.matches)
       THEN result' = "exhausted" /\ UNCHANGED <<list, received>>
       ELSE /\ received' = Append(received, list.matches[list.index + 1])
            /\ list' = [list EXCEPT !.index = @ + 1]
            /\ UNCHANGED result
    /\ UNCHANGED <<expr, pieces, serial_paths, wanted, aliasVars>>

\* wrvisaSetSerialPath: set_serial_path, while a list is walked.
SetSerialPath(n) ==
    /\ ~closed /\ result = "found"
    /\ serial_paths' = serial_paths \cup {n}
    /\ UNCHANGED <<expr, pieces, findVars, aliasVars>>

\* viClose of the manager closes the list: close().
Close ==
    /\ CloseManager
    /\ list' = NoList
    /\ UNCHANGED <<expr, pieces, serial_paths, result, received, wanted>>

\* Aliases and searches share nothing but closed_; callers that set aliases
\* here do not search.
UseAliases ==
    /\ expr = <<>> /\ result = "none"
    /\ \/ \E alias \in Aliases, name \in ResourceNames : SetResourceAlias(alias, name)
       \/ \E name \in Aliases \cup ResourceNames : ResolveResource(name)
    /\ UNCHANGED <<expr, pieces, serial_paths, findVars>>

Next ==
    \/ \E piece \in Pieces \cup FilterPieces : Type(piece)
    \/ FindRsrc
    \/ FindNext
    \/ \E n \in MoreSerialPorts : SetSerialPath(n)
    \/ Close
    \/ UseAliases

Spec == Init /\ [][Next]_vars

-----------------------------------------------------------------------------
\* A search answers with exactly what the grammar says the expression means:
\* an expression without a meaning is refused and no other one, viFindRsrc and
\* the viFindNext calls after it return each resource it selects once and in
\* order, whatever is added to the manager meanwhile, and the mock only to
\* those who ask for it.
WalkFindsDenoted ==
    /\ result = "inv_expr" => wanted = {}
    /\ result = "nfound" => wanted = {<<>>}
    /\ result \in {"found", "exhausted"} =>
          \E names \in wanted :
             /\ wanted = {names}
             /\ IsPrefix(received, names)
             /\ result = "exhausted" /\ ~closed => received = names
=============================================================================
