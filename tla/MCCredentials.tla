--------------------------- MODULE MCCredentials ---------------------------
(* Instances of Credentials for TLC. *)
EXTENDS Credentials, TLC

Symmetry == Permutations(Token) \cup Permutations(Session) \cup Permutations(Request)
=============================================================================
