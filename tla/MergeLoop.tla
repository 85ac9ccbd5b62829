------------------------------ MODULE MergeLoop ------------------------------
(***************************************************************************)
(* The loop of MergeBlockActions (internal/domain/merge_params.go) over the *)
(* parameters of the actions it merges, one parameter per step, and the    *)
(* block it returns, one index per step.  Two cabinets in the same state   *)
(* follow it, both told to run what they are given (590 = "1"): one is     *)
(* given the parameters of the actions, the other the block.               *)
(* The specification is named LoopSpec: the proofs extend BlockMerge too.   *)
(***************************************************************************)
EXTENDS BlockParams

CONSTANTS
  Inputs,   \* parameter lists the loop is run on
  Starts    \* states of the lamps and shutters of the cabinet

ASSUME InputsAssumption ==
  /\ Inputs \subseteq Seq(Param)
  /\ Starts \subseteq [BlockIndex -> SUBSET Bit]

VARIABLES
  events,   \* the parameters of the actions, in the order of the queue
  n,        \* how many of them the loop has merged
  m,        \* the maps masks and raw
  at,       \* the next index of the returned block
  lamps,    \* the cabinet that is given the n parameters
  merged    \* the cabinet that is given the block below index at

loopVars == <<events, n, m, at, lamps, merged>>

LoopStart ==
  /\ events \in Inputs /\ n = 0 /\ m = EmptyMerge
  /\ at = IndexLightStart
  /\ lamps \in Starts /\ merged = lamps

\* One parameter is merged; the cabinet without the merge obeys it.
Step ==
  /\ n < Len(events)
  /\ m' = MergeParam(m, events[n + 1])
  /\ lamps' = ObeyIndex(lamps, events[n + 1])
  /\ n' = n + 1
  /\ UNCHANGED <<events, at, merged>>

\* The loop has ended: the next index of the block, and the cabinet with the merge
\* obeys it.
Deliver ==
  /\ n = Len(events) /\ at <= IndexLightEnd
  /\ merged' = ObeyIndex(merged, KV(at, MergedValue(m, at)))
  /\ at' = at + 1
  /\ UNCHANGED <<events, n, m, lamps>>

LoopNext == Step \/ Deliver

LoopSpec == LoopStart /\ [][LoopNext]_loopVars

Masks == [masks : [BlockIndex -> SUBSET Bit], raw : [BlockIndex -> {Raw(t) : t \in Text \cup {""}}]]

\* The maps of the loop and the cabinets keep their types.
LoopTypeOK ==
  /\ events \in Inputs /\ n \in 0 .. Len(events) /\ m \in Masks
  /\ at \in IndexLightStart .. IndexLightEnd + 1
  /\ lamps \in [BlockIndex -> SUBSET Bit] /\ merged \in [BlockIndex -> SUBSET Bit]

\* MergeBlockActions computes the last intent: after every parameter, each mask holds
\* the bits asked for and not undone since, and an index holds a text exactly when
\* the last parameter with an intent for it wrote that text.
MergeIsLastIntent == IsLastIntent(m, events, n)

\* MergeBlockActions never asks a lamp or a shutter to go both ways.
OppositesDisjoint == \A k \in BlockIndex : m.masks[k] \cap m.masks[blockOpposite[k]] = {}

\* The list gives no index of the block a text.
Numeric == \A i \in DOMAIN events : events[i].k \in BlockIndex => events[i].v.type = "num"

\* "returns one complete block with the same effect": once the block has run, index
\* by index, every lamp and shutter is where the commands one by one would have put it,
\* wherever it was before. A text is no command to a lamp and replaces the ones before
\* it, so a list with a text is left out.
SameLamps == Numeric /\ at > IndexLightEnd => merged = lamps
=============================================================================
