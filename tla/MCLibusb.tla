------------------------------ MODULE MCLibusb ------------------------------
(* Instances of Libusb for TLC. *)
EXTENDS Libusb

CONSTANTS s1, s2, d1, d2

\* The sessions ask for one alternate setting, or each for its own.
MCSettings == {[s \in Sessions |-> 0], [s \in Sessions |-> IF s = s1 THEN 0 ELSE 1]}
====
