---------------------------- MODULE MCBlockMerge ----------------------------
(* Instances of BlockMerge for TLC: one light and one shutter mask per     *)
(* direction (605 off, 606 on, 607 open, 608 close; 609 plays 623), two    *)
(* bits, and at most 7 parameters per action (a full block has 6).         *)
EXTENDS BlockMerge

\* A batch that fits, with a repeated index and a lamp asked both ways; one that
\* asks to cut the outlets along with another command (as long as one action may be);
\* one that closes a shutter along with another command.
FittingBatches ==
  { <<KV(606, Num({0})), KV(605, Num({0})), KV(606, Num({1}))>>,
    <<KV(100, Num({0})), KV(609, Num({0}))>>,
    <<KV(100, Num({0})), KV(608, Num({0}))>> }

\* Two indices below 590 and a lamp: 8 parameters, stored as two actions.
LongBatch == <<KV(100, Num({0})), KV(101, Num({0})), KV(606, Num({0}))>>

\* Three indices below 590: the cut falls inside the block, and the second action
\* (the shutter and the outlets, without the trigger) is merged with its neighbours.
CutBlockBatch == <<KV(100, Num({0})), KV(101, Num({0})), KV(102, Num({0})), KV(608, Num({0}))>>

\* A lamp and a scenario trigger in one request.
TriggerBatch == <<KV(590, Num({0, 1})), KV(606, Num({0}))>>

AllBatches == FittingBatches \cup {LongBatch, CutBlockBatch, TriggerBatch}
OnlyLong == {LongBatch}
=============================================================================
