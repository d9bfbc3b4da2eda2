----------------------------- MODULE FindGrammar ----------------------------
(***************************************************************************)
(* What a search expression means, read off its grammar and independent of *)
(* the parser and the matcher: an expression is taken apart in every way   *)
(* the grammar allows, and each way gives a language, or a set of          *)
(* resources.  Every operator returns the set of the meanings of a         *)
(* sequence: none if it is not well formed, more than one if the grammar   *)
(* were ambiguous.  Only a character class, which has no structure, is the *)
(* parser's own (ParseClass).                                              *)
(***************************************************************************)
EXTENDS FindExpression

CONSTANTS
    Letters,      \* the characters of names, upper case
    MaxName       \* the longest name

\* All names; a language is a set of them.
Words == UNION {[1..n -> Letters] : n \in 0..MaxName}

Before(s, k) == SubSeq(s, 1, k - 1)
After(s, k) == SubSeq(s, k + 1, Len(s))
Positions(s, c) == {k \in 1..Len(s) : s[k] = c}

Concat(x, y) == {w \in Words : \E k \in 0..Len(w) : SubSeq(w, 1, k) \in x /\ After(w, k) \in y}

RECURSIVE Power(_, _)
Power(x, n) == IF n = 0 THEN {<<>>} ELSE Concat(x, Power(x, n - 1))

\* No name is longer than MaxName, so no more repetitions than that count.
Star(x) == UNION {Power(x, n) : n \in 0..MaxName}

RECURSIVE Alternation(_, _), Concatenation(_, _)

Atom(s, d) ==
    LET n == Len(s)
    IN  CASE n = 1 /\ s[1] = "?" -> {[1..1 -> Letters]}
          [] n = 1 /\ s[1] \notin {"?", "(", ")", "[", "*", "+", "|", "\\"} -> {{<<Fold(s[1])>>}}
          [] n = 2 /\ s[1] = "\\" -> {{<<Fold(s[2])>>}}
          [] n > 2 /\ s[1] = "(" /\ s[n] = ")" -> Alternation(SubSeq(s, 2, n - 1), d + 1)
          [] n > 2 /\ s[1] = "[" ->
                {{<<c>> : c \in {c \in Letters : (c \in class.node.ranges) # class.node.negated}}
                    : class \in {class \in {ParseClass(s, 2)} : class.ok /\ class.next = n + 1}}
          [] OTHER -> {}

Repetition(s, d) ==
    LET n == Len(s)
        inner == IF n < 2 THEN {} ELSE Atom(Before(s, n), d)
    IN  Atom(s, d) \cup CASE n > 1 /\ s[n] = "*" -> {Star(x) : x \in inner}
                          [] n > 1 /\ s[n] = "+" -> {Concat(x, Star(x)) : x \in inner}
                          [] OTHER -> {}

Concatenation(s, d) ==
    Repetition(s, d) \cup
    UNION {{Concat(x, y) : x \in Concatenation(Before(s, k), d), y \in Repetition(SubSeq(s, k, Len(s)), d)}
              : k \in 2..Len(s)}

Alternation(s, d) ==
    IF d > MaxDepth THEN {}
    ELSE Concatenation(s, d) \cup
         UNION {{x \cup y : x \in Alternation(Before(s, k), d), y \in Concatenation(After(s, k), d)}
                   : k \in Positions(s, "|")}

-----------------------------------------------------------------------------
(* The filter, over a set of resource descriptors. *)

RECURSIVE Disjunction(_, _, _), Conjunction(_, _, _), Factor(_, _, _)

Factor(s, d, all) ==
    LET n == Len(s)
    IN  CASE d > MaxDepth \/ n = 0 -> {}
          [] n = 1 -> {{r \in all : Holds(Relation[c], r)} : c \in {c \in DOMAIN Relation : c = s[1] /\ ValidRelation(c)}}
          [] s[1] = "!" -> {all \ x : x \in Factor(Tail(s), d + 1, all)}
          [] s[1] = "(" /\ s[n] = ")" -> Disjunction(SubSeq(s, 2, n - 1), d + 1, all)
          [] OTHER -> {}

Conjunction(s, d, all) ==
    Factor(s, d, all) \cup
    UNION {{x \cap y : x \in Conjunction(Before(s, k), d, all), y \in Factor(After(s, k), d, all)}
              : k \in Positions(s, "&&")}

Disjunction(s, d, all) ==
    Conjunction(s, d, all) \cup
    UNION {{x \cup y : x \in Disjunction(Before(s, k), d, all), y \in Conjunction(After(s, k), d, all)}
              : k \in Positions(s, "||")}

-----------------------------------------------------------------------------
Folded(name) == [k \in 1..Len(name) |-> Fold(name[k])]

\* The sets of resources an expression selects among all.
Meanings(expr, all) ==
    LET regular(s) == IF {"{", "}"} \cap ToSet(s) # {} THEN {}
                      ELSE {{r \in all : Folded(r.rsrc_name) \in x} : x \in Alternation(s, 0)}
    IN  CASE Len(expr) >= MaxExpression -> {}
          [] expr # <<>> /\ Last(expr) = "}" ->
                UNION {{x \cap y : x \in regular(Before(expr, k)),
                                   y \in Disjunction(SubSeq(expr, k + 1, Len(expr) - 1), 0, all)}
                          : k \in Positions(expr, "{")}
          [] OTHER -> regular(expr)
=============================================================================
