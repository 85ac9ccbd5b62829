---------------------------- MODULE MCMergeLoop ----------------------------
(* The merge loop on every list of at most four parameters of one lamp      *)
(* (605 off, 606 on) and of the trigger.                                    *)
EXTENDS MergeLoop, SequencesExt

ShortLists ==
  LET ps == {KV(k, v) : k \in {605, 606}, v \in Value} \cup {KV(590, Num({0}))}
  IN  BoundedSeq(ps, 4)

\* Every bit of the lamp is off or on; the shutter is at rest.
LampStarts ==
  {[k \in BlockIndex |-> CASE k = 605 -> off [] k = 606 -> Bit \ off [] OTHER -> {}] :
     off \in SUBSET Bit}
=============================================================================
