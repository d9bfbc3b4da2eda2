---------------------------- MODULE MCDiscovery -----------------------------
(* Discovery with seven resources and the mock, over a two-letter alphabet. *)
EXTENDS Discovery

Kind(name, class, number, serial) ==
    [rsrc_name |-> name, rsrc_class |-> class, intf_num |-> number, serial |-> serial]

MCMockResource == <<"B", "B", "B">>
MCMockExpression == <<"B", "?", "*">>
MCNameOrder == <<<<"*", "b">>, <<"A">>, <<"A", "A">>, <<"A", "A", "A">>, <<"A", "b">>, <<"B", "A", "b">>, <<"b">>, MCMockResource>>
MCSerialPorts == {<<"A">>, <<"A", "A">>}
MCMoreSerialPorts == {<<"A", "A", "A">>}
MCProviders == {{<<"A", "b">>, <<"b">>}, {<<"*", "b">>, <<"B", "A", "b">>, <<"b">>}}
MCDescriptor ==
    [n \in ToSet(MCNameOrder) |->
        Kind(n, IF Len(n) = 3 THEN "RAW" ELSE "INSTR", IF n[Len(n)] = "b" THEN 1 ELSE 0,
             n \in MCSerialPorts \cup MCMoreSerialPorts)]

MCRelation ==
    [one  |-> [attribute |-> "intf_num", compare |-> ">=", value |-> 1],
     raw  |-> [attribute |-> "rsrc_class", compare |-> "!=", value |-> "INSTR"],
     baud |-> [attribute |-> "asrl_baud", compare |-> "<", value |-> 9601],
     less |-> [attribute |-> "rsrc_class", compare |-> "<", value |-> "RAW"]]

MCPieces ==
    {<<"a">>, <<"B">>, <<"?">>, <<"*">>, <<"+">>, <<"|">>, <<"(">>, <<")">>, <<"\\">>, <<"]">>, <<"{">>, <<"}">>,
     <<"(", "a", "|">>, <<")", ")">>, <<"[", "*", "-", "a", "]">>, <<"[", "^", "B">>}
MCFilterPieces ==
    {<<"one">>, <<"baud">>, <<"less">>, <<"!">>, <<"(">>, <<")">>, <<"}">>, <<")", "}">>,
     <<"&&">>, <<"&&", "raw">>, <<"||", "one">>}
MCFilterPrefixes == {<<"?", "*">>, <<"B", "?", "*">>}

MCLetters == {"*", "A", "B"}

\* Two spellings of each of two aliases and of a resource name.
MCFoldedName ==
    [n \in {"x", "X", "y", "r1", "R1", "R2"} |->
        CASE n = "x" -> "X" [] n = "y" -> "Y" [] n = "r1" -> "R1" [] OTHER -> n]
=============================================================================
