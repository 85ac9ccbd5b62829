--------------------------- MODULE MCCloudActions ---------------------------
(* Instances of CloudActions for TLC. *)
EXTENDS CloudActions, TLC

CONSTANTS m1, m2, p1, p2, p3

\* Two pollers on m1 (its gateway and its cabinet), one on m2.
TwoMachines == p1 :> m1 @@ p2 :> m1 @@ p3 :> m2
OneMachine  == p1 :> m1 @@ p2 :> m1

\* In OneMachine the two pollers play the same role.
Symmetry == Permutations(Guid) \cup Permutations(Poller)
=============================================================================
