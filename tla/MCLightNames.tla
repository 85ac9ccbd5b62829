--------------------------- MODULE MCLightNames ----------------------------
(* Instances of LightNames for TLC: a name, the same one with a space to trim, *)
(* one that is refused, and the empty name, which resets.                      *)
EXTENDS LightNames

Typed == {"", "A", " A", "<"}
Trimmed == [n \in Typed |-> CASE n = " A" -> "A" [] n = "<" -> "refused" [] OTHER -> n]
=============================================================================
