--------------------------- MODULE MCStaticFiles ----------------------------
(* Two threads; an inline tag, a block tag, one that is both; for TLC. *)
EXTENDS StaticFiles, TLC

CONSTANTS t1, t2

MCThreads == {t1, t2}
Symmetry == Permutations(MCThreads)

MCElsewhere == {[below |-> FALSE, name |-> "b.png"]}

\* "ins" is in both lists.
MCOther == <<[name |-> "em", closes |-> TRUE], [name |-> "ins", closes |-> TRUE]>>
MCBlock == <<[name |-> "hr", closes |-> FALSE], [name |-> "ins", closes |-> TRUE]>>
=============================================================================
