----------------------------- MODULE MCZram -----------------------------
(* A small instance of Zram: pages of four bytes and two size classes.      *)
EXTENDS Zram

\* A page that does not compress, two that do (into different classes), and one that
\* is too large.
MCInputs        == {"random", "zeros", "text", "large"}
MCPageLen       == [p \in MCInputs |-> IF p = "large" THEN 5 ELSE 4]
MCCompressedLen == [p \in MCInputs |-> CASE p = "random" -> 5 [] p = "zeros" -> 1
                                         [] p = "text" -> 3 [] p = "large" -> 1]
MCSizes         == [k \in Class |-> 2 * (k + 1)]
=============================================================================
