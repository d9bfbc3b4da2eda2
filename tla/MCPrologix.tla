----------------------------- MODULE MCPrologix -----------------------------
(* Instances of Prologix for TLC. *)
EXTENDS Prologix

CONSTANTS o1, o2

\* Two instruments behind one adapter.
MCAddress == [o \in Owners |-> IF o = o1 THEN 5 ELSE 7]

\* The calls: what, and the EOI a write asks for.
Do(kinds, end) == [kind : kinds, end : {end}]

MCPlan == [o \in Owners |->
    IF o = o1 THEN <<Do({"read"}, TRUE), Do({"read", "write", "discard"}, TRUE)>>
             ELSE <<Do({"open", "write", "clr", "trg", "spoll"}, FALSE)>>]
====
