--------------------------- MODULE MCTerminology ---------------------------
EXTENDS Terminology

CONSTANTS t1, t2

MCFlags == 1..2

(* Two flags of one term; the other is in the glossary only. *)
MCTermOf == [f \in MCFlags |-> t1]
=============================================================================
