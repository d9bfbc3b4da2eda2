--------------------------- MODULE FindExpression ---------------------------
(***************************************************************************)
(* The search expressions of viFindRsrc                                    *)
(* (src/resource/find_expression.cpp): a recursive-descent parser for the  *)
(* regular expression of the name and for the filter in braces, a matcher  *)
(* that computes sets of positions, and the evaluation of the filter.      *)
(*                                                                         *)
(* An expression is a sequence of characters; in the filter the elements   *)
(* are tokens, and a relation (identifier, operator and literal, without   *)
(* spaces) is one of them.  A name is a sequence of characters.            *)
(*                                                                         *)
(* The limits on nodes (512 and 256, make()) are left out: an expression   *)
(* of fewer than 256 characters never reaches them.                        *)
(***************************************************************************)
EXTENDS Naturals, Sequences, SequencesExt

CONSTANTS
    MaxExpression,   \* VI_FIND_BUFLEN: expressions are shorter
    MaxDepth,        \* 32: nesting
    Relation         \* what a relation token says: [attribute, compare, value]

ASSUME LimitAssumption == {MaxExpression, MaxDepth} \subseteq Nat

\* The order of the characters, for ranges, and fold().
Order == <<"(", ")", "*", "+", "-", "?", "A", "B", "[", "\\", "]", "^", "|">>
Code(c) == CHOOSE i \in 1..Len(Order) : Order[i] = c
Fold(c) == IF c = "a" THEN "A" ELSE IF c = "b" THEN "B" ELSE c

Fail == [ok |-> FALSE]
Node(n, i) == [ok |-> TRUE, node |-> n, next |-> i]

\* Whatever fails makes the rest fail.
Then(result, Next(_, _)) == IF result.ok THEN Next(result.node, result.next) ELSE Fail

\* input_[position_] == c.
At(s, i, c) == i <= Len(s) /\ s[i] = c

-----------------------------------------------------------------------------
(* The parser.  Each operator takes the input and a position, and returns the *)
(* node and the position after it.                                            *)

\* class_character.
ClassCharacter(s, i) ==
    IF i > Len(s) THEN Fail
    ELSE IF s[i] # "\\" THEN Node(Fold(s[i]), i + 1)
    ELSE IF i = Len(s) THEN Fail ELSE Node(Fold(s[i + 1]), i + 2)

\* Whether the entry that ended before i goes on as a range.
IsRange(s, i) == At(s, i, "-") /\ i + 1 <= Len(s) /\ s[i + 1] # "]"

RECURSIVE ClassEntries(_, _)
\* The loop of parse_class: the set of characters, up to the bracket.
ClassEntries(s, i) ==
    IF i > Len(s) THEN Fail
    ELSE IF s[i] = "]" THEN Node({}, i + 1)
    ELSE Then(ClassCharacter(s, i), LAMBDA first, j :
         Then(IF IsRange(s, j) THEN ClassCharacter(s, j + 1) ELSE Node(first, j), LAMBDA last, k :
         Then(IF Code(first) > Code(last) THEN Fail ELSE ClassEntries(s, k), LAMBDA others, next :
         Node(others \cup {Order[c] : c \in Code(first)..Code(last)}, next))))

\* parse_class, after '['.
ParseClass(s, i) ==
    Then(ClassEntries(s, IF At(s, i, "^") THEN i + 1 ELSE i), LAMBDA entries, next :
         IF entries = {} THEN Fail
         ELSE Node([type |-> "class", negated |-> At(s, i, "^"), ranges |-> entries], next))

\* One child stands for itself.
Group(type, children) ==
    IF Len(children) = 1 THEN Head(children) ELSE [type |-> type, children |-> children]

RECURSIVE Branches(_, _, _), Atoms(_, _, _)

\* parse_alternate.
ParseAlternate(s, i, depth) ==
    IF depth > MaxDepth THEN Fail
    ELSE Then(Branches(s, i, depth), LAMBDA branches, next : Node(Group("alternate", branches), next))

\* parse_concatenation; a branch has at least one atom.
ParseConcatenation(s, i, depth) ==
    Then(Atoms(s, i, depth), LAMBDA atoms, next :
         IF atoms = <<>> THEN Fail ELSE Node(Group("concatenation", atoms), next))

\* The loop of parse_alternate.
Branches(s, i, depth) ==
    Then(ParseConcatenation(s, i, depth), LAMBDA branch, j :
         IF ~At(s, j, "|") THEN Node(<<branch>>, j)
         ELSE Then(Branches(s, j + 1, depth), LAMBDA others, next : Node(<<branch>> \o others, next)))

\* parse_atom.
ParseAtom(s, i, depth) ==
    CASE s[i] = "(" ->
            Then(ParseAlternate(s, i + 1, depth + 1), LAMBDA group, next :
                 IF At(s, next, ")") THEN Node(group, next + 1) ELSE Fail)
      [] s[i] = "[" -> ParseClass(s, i + 1)
      [] s[i] = "?" -> Node([type |-> "any"], i + 1)
      [] s[i] \in {"*", "+", ")"} -> Fail
      [] s[i] = "\\" -> IF i = Len(s) THEN Fail
                        ELSE Node([type |-> "literal", literal |-> Fold(s[i + 1])], i + 2)
      [] OTHER -> Node([type |-> "literal", literal |-> Fold(s[i])], i + 1)

IsQuantifier(s, i) == At(s, i, "*") \/ At(s, i, "+")

\* An atom with at most one quantifier.
Quantified(s, i, atom) ==
    IF ~IsQuantifier(s, i) THEN Node(atom, i)
    ELSE IF IsQuantifier(s, i + 1) THEN Fail
    ELSE Node([type |-> "repeat", one_or_more |-> s[i] = "+", child |-> atom], i + 1)

\* The loop of parse_concatenation.
Atoms(s, i, depth) ==
    IF i > Len(s) \/ At(s, i, ")") \/ At(s, i, "|") THEN Node(<<>>, i)
    ELSE Then(ParseAtom(s, i, depth), LAMBDA atom, j :
         Then(Quantified(s, j, atom), LAMBDA quantified, k :
         Then(Atoms(s, k, depth), LAMBDA others, next : Node(<<quantified>> \o others, next))))

\* The whole input is used up.
Complete(s, result) == Then(result, LAMBDA root, next : IF next = Len(s) + 1 THEN Node(root, next) ELSE Fail)

\* Parser::parse.
Parse(s) == IF s = <<>> THEN Fail ELSE Complete(s, ParseAlternate(s, 1, 0))

-----------------------------------------------------------------------------
(* The filter. *)

Strings == {"rsrc_class", "rsrc_name"}
Attributes == {"intf_type", "intf_num", "asrl_baud"} \cup Strings

\* parse_relation: known attributes; strings are compared for equality only.
ValidRelation(c) ==
    /\ Relation[c].attribute \in Attributes
    /\ Relation[c].attribute \in Strings => Relation[c].compare \in {"==", "!="}

RECURSIVE ParseOr(_, _, _), ParseAnd(_, _, _), ParseFactor(_, _, _), MoreOr(_, _, _, _), MoreAnd(_, _, _, _)

Binary(op, left, right) == [type |-> op, children |-> <<left, right>>]

\* parse_or and its loop, left-associative.
ParseOr(s, i, depth) == Then(ParseAnd(s, i, depth), LAMBDA left, next : MoreOr(s, next, depth, left))

MoreOr(s, i, depth, left) ==
    IF ~At(s, i, "||") THEN Node(left, i)
    ELSE Then(ParseAnd(s, i + 1, depth), LAMBDA right, next : MoreOr(s, next, depth, Binary("or", left, right)))

\* parse_and and its loop.
ParseAnd(s, i, depth) == Then(ParseFactor(s, i, depth), LAMBDA left, next : MoreAnd(s, next, depth, left))

MoreAnd(s, i, depth, left) ==
    IF ~At(s, i, "&&") THEN Node(left, i)
    ELSE Then(ParseFactor(s, i + 1, depth), LAMBDA right, next : MoreAnd(s, next, depth, Binary("and", left, right)))

\* parse_factor.
ParseFactor(s, i, depth) ==
    IF depth > MaxDepth \/ i > Len(s) THEN Fail
    ELSE CASE s[i] = "!" ->
                Then(ParseFactor(s, i + 1, depth + 1), LAMBDA child, next :
                     Node([type |-> "not", children |-> <<child>>], next))
           [] s[i] = "(" ->
                Then(ParseOr(s, i + 1, depth + 1), LAMBDA child, next :
                     IF At(s, next, ")") THEN Node(child, next + 1) ELSE Fail)
           [] s[i] \in DOMAIN Relation /\ ValidRelation(s[i]) ->
                Node([type |-> "relation", relation |-> Relation[s[i]]], i + 1)
           [] OTHER -> Fail

\* AttributeParser::parse.
ParseFilter(s) == Complete(s, ParseOr(s, 1, 0))

\* FindExpression::compile: the filter is in one pair of braces, at the end.  A root
\* without a filter has no attributes.
Compile(expr) ==
    LET opening == SelectInSeq(expr, LAMBDA c : c = "{")
        closing == SelectInSeq(expr, LAMBDA c : c = "}")
        filter == SubSeq(expr, opening + 1, Len(expr) - 1)
    IN  IF \/ expr = <<>> \/ Len(expr) >= MaxExpression
           \/ opening = 0 /\ closing # 0
           \/ opening # 0 /\ (opening = 1 \/ closing # Len(expr) \/ filter = <<>> \/ "{" \in ToSet(filter))
        THEN Fail
        ELSE Then(Parse(IF opening = 0 THEN expr ELSE SubSeq(expr, 1, opening - 1)), LAMBDA root, next :
             Then(IF opening = 0 THEN Node(<<>>, 0) ELSE ParseFilter(filter), LAMBDA attributes, last :
             [ok |-> TRUE, root |-> root, attributes |-> IF opening = 0 THEN <<>> ELSE <<attributes>>]))

-----------------------------------------------------------------------------
(* The matcher. *)

RECURSIVE MatchNode(_, _, _), RepeatClosure(_, _, _, _)

\* fold(value[position]) == node.literal.
Consumes(node, value, i) == node.literal = Fold(value[i])

\* Faulty variant of RepeatClosure: the frontier is not moved on.
RepeatOnce(child, value, reached, frontier) ==
    reached \cup UNION {MatchNode(child, value, p) : p \in frontier}

\* repeat_closure: the positions reached by repeating the child, breadth first.
RepeatClosure(child, value, reached, frontier) ==
    LET next == (UNION {MatchNode(child, value, p) : p \in frontier}) \ reached
    IN  IF frontier = {} THEN reached ELSE RepeatClosure(child, value, reached \cup next, next)

\* match_node: the positions after a match that starts at position (from 0).
MatchNode(node, value, position) ==
    LET here == position < Len(value)
        step(b) == IF here /\ b THEN {position + 1} ELSE {}
    IN  CASE node.type = "literal" -> step(here /\ Consumes(node, value, position + 1))
          [] node.type = "any" -> step(TRUE)
          [] node.type = "class" -> step(here /\ (Fold(value[position + 1]) \in node.ranges) # node.negated)
          [] node.type = "concatenation" ->
                FoldLeft(LAMBDA from, child : UNION {MatchNode(child, value, p) : p \in from},
                         {position}, node.children)
          [] node.type = "alternate" -> UNION {MatchNode(child, value, position) : child \in ToSet(node.children)}
          [] node.type = "repeat" ->
                LET first == IF node.one_or_more THEN MatchNode(node.child, value, position) ELSE {position}
                IN  RepeatClosure(node.child, value, first, first)

\* compare_number and compare_string.
Compare(left, op, right) ==
    CASE op = "==" -> left = right
      [] op = "!=" -> left # right
      [] op = "<" -> left < right
      [] op = "<=" -> left <= right
      [] op = ">" -> left > right
      [] op = ">=" -> left >= right

\* A relation of match_attributes.  VI_ATTR_ASRL_BAUD is 9600 for serial ports.
Holds(r, resource) ==
    CASE r.attribute = "asrl_baud" -> resource.serial /\ Compare(9600, r.compare, r.value)
      [] OTHER -> Compare(resource[r.attribute], r.compare, r.value)

RECURSIVE MatchAttributes(_, _)
MatchAttributes(node, resource) ==
    CASE node.type = "and" -> \A child \in ToSet(node.children) : MatchAttributes(child, resource)
      [] node.type = "or" -> \E child \in ToSet(node.children) : MatchAttributes(child, resource)
      [] node.type = "not" -> ~MatchAttributes(node.children[1], resource)
      [] node.type = "relation" -> Holds(node.relation, resource)

\* FindExpression::matches.
Matches(compiled, resource) ==
    /\ Len(resource.rsrc_name) \in MatchNode(compiled.root, resource.rsrc_name, 0)
    /\ \A filter \in ToSet(compiled.attributes) : MatchAttributes(filter, resource)
=============================================================================
