\* Every regular expression of up to MaxPieces pieces and, after two of them,
\* every filter of up to MaxFilter pieces, searched for among seven resources
\* and the mock.  MaxDepth and MaxExpression are small so that both limits are
\* met.  A closed manager has nothing left to do.
CONSTANTS
    MaxExpression = 9
    MaxDepth = 1
    Relation <- MCRelation
    Letters <- MCLetters
    MaxName = 3
    Aliases = {"x", "X", "y"}
    ResourceNames = {"r1", "R1", "R2"}
    FoldedName <- MCFoldedName
    Descriptor <- MCDescriptor
    NameOrder <- MCNameOrder
    SerialPorts <- MCSerialPorts
    MoreSerialPorts <- MCMoreSerialPorts
    Providers <- MCProviders
    MockResource <- MCMockResource
    MockExpression <- MCMockExpression
    Pieces <- MCPieces
    FilterPieces <- MCFilterPieces
    FilterPrefixes <- MCFilterPrefixes
    MaxPieces = 4
    MaxFilter = 4
SPECIFICATION Spec
INVARIANTS
    WalkFindsDenoted
PROPERTIES
    ImplementsAliasDirectory
CHECK_DEADLOCK FALSE
