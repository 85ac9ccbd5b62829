---------------------------- MODULE BlockParams -----------------------------
(***************************************************************************)
(* The light/shutter block of a portal command and the merge of one        *)
(* parameter into it (internal/domain/order_expansion.go, merge_params.go). *)
(*                                                                         *)
(* A parameter is an (index, value) pair of the cabinet's exchange table.  *)
(* A numeric value is modelled by the set of its bits, so that | is union  *)
(* and &^ is difference: "0" is Num({}), "1" is Num({0}), "2" is Num({1}). *)
(* A value that is not a number is Raw(text).                              *)
(***************************************************************************)
EXTENDS Integers, Sequences

CONSTANTS
  NLights,      \* light masks per direction (6 in the code)
  NShutters,    \* shutter masks per direction (3 in the code)
  Bit,          \* bits of a mask
  Text          \* values that are not numbers

ASSUME ParamsAssumption ==
  /\ NLights \in Nat \ {0} /\ NShutters \in Nat \ {0}
  /\ {0, 1} \subseteq Bit /\ Bit \subseteq Nat
  /\ "" \notin Text

IndexScenario        == 590
IndexLightStart      == 605
IndexLightEnd        == IndexLightStart + 2 * NLights + 2 * NShutters - 1
IndexSecurityOutlets == IndexLightEnd + 1

BlockIndex == IndexLightStart .. IndexLightEnd

Num(bits) == [type |-> "num", bits |-> bits, text |-> ""]
Raw(text) == [type |-> "raw", bits |-> {}, text |-> text]
Value == {Num(b) : b \in SUBSET Bit} \cup {Raw(t) : t \in Text}

KV(k, v) == [k |-> k, v |-> v]
Param == [k : Nat, v : Value]

\* lights: off 605+i <-> on 605+NLights+i; shutters: open <-> close, after the lights.
blockOpposite ==
  [k \in BlockIndex |->
     LET i == k - IndexLightStart IN
     CASE i < NLights                                      -> k + NLights
       [] NLights <= i /\ i < 2 * NLights                   -> k - NLights
       [] 2 * NLights <= i /\ i < 2 * NLights + NShutters   -> k + NShutters
       [] OTHER                                             -> k - NShutters]

-----------------------------------------------------------------------------
(* The maps of MergeBlockActions: masks per index, and texts per index.    *)

NoRaw == Raw("")
EmptyMerge == [masks |-> [k \in BlockIndex |-> {}], raw |-> [k \in BlockIndex |-> NoRaw]]

\* Mutant: setting a bit leaves it set on the opposite index.
MergeOrOnly(m, p) ==
  CASE p.k \notin BlockIndex  -> m
    [] p.k \in BlockIndex /\ p.v.type = "raw" ->
         [masks |-> [m.masks EXCEPT ![p.k] = {}], raw |-> [m.raw EXCEPT ![p.k] = p.v]]
    [] p.k \in BlockIndex /\ p.v = Num({}) -> m
    [] OTHER -> [masks |-> [m.masks EXCEPT ![p.k] = @ \cup p.v.bits],
                 raw   |-> [m.raw EXCEPT ![p.k] = NoRaw]]

\* Mutant: a number does not displace an earlier text of its index.
MergeKeepsRaw(m, p) ==
  CASE p.k \notin BlockIndex  -> m
    [] p.k \in BlockIndex /\ p.v.type = "raw" ->
         [masks |-> [m.masks EXCEPT ![p.k] = {}], raw |-> [m.raw EXCEPT ![p.k] = p.v]]
    [] p.k \in BlockIndex /\ p.v = Num({}) -> m
    [] OTHER ->
         LET o == blockOpposite[p.k]
             set == [m.masks EXCEPT ![p.k] = @ \cup p.v.bits]
         IN  [masks |-> IF m.raw[o] = NoRaw THEN [set EXCEPT ![o] = @ \ p.v.bits] ELSE set,
              raw   |-> m.raw]

\* The body of the loop of MergeBlockActions: one parameter is merged.
MergeParam(m, p) ==
  CASE p.k \notin BlockIndex  -> m
    [] p.k \in BlockIndex /\ p.v.type = "raw" ->
         [masks |-> [m.masks EXCEPT ![p.k] = {}], raw |-> [m.raw EXCEPT ![p.k] = p.v]]
    [] p.k \in BlockIndex /\ p.v = Num({}) -> m
    [] OTHER ->
         LET o == blockOpposite[p.k]
             set == [m.masks EXCEPT ![p.k] = @ \cup p.v.bits]
         IN  [masks |-> IF m.raw[o] = NoRaw THEN [set EXCEPT ![o] = @ \ p.v.bits] ELSE set,
              raw   |-> [m.raw EXCEPT ![p.k] = NoRaw]]

\* The value MergeBlockActions writes at index k of the merged block.
MergedValue(m, k) == IF m.raw[k] # NoRaw THEN m.raw[k] ELSE Num(m.masks[k])

-----------------------------------------------------------------------------
(* The cabinet's side of the block: the comments of order_expansion.go and  *)
(* merge_params.go describe 605..623 as fields of scenario 1 (592..632) in  *)
(* the exchange table, run by the trigger 590 = "1".                        *)

\* The scenario comes to an index of its block: a bit set there undoes the same bit of
\* the opposite index.
ObeyIndex(lamps, p) ==
  IF p.k \notin BlockIndex THEN lamps
  ELSE [lamps EXCEPT ![p.k] = @ \cup p.v.bits, ![blockOpposite[p.k]] = @ \ p.v.bits]

\* The scenario runs the masks of a table, index after index: of two opposite orders the
\* one at the higher index stands.
RunBlock(lamps, table) ==
  [k \in BlockIndex |->
     LET o == blockOpposite[k] IN
       IF k < o THEN (lamps[k] \cup table[k].bits) \ table[o].bits
       ELSE (lamps[k] \ table[o].bits) \cup table[k].bits]

-----------------------------------------------------------------------------
(* The reference: what the first n parameters of a list ask of an index,   *)
(* told without a loop.                                                    *)

\* Parameter i sets bits of index k; a "0" carries no intent.
Sets(events, i, k) == events[i].k = k /\ events[i].v.type = "num" /\ events[i].v.bits # {}

\* Parameter i writes a text at index k.
Writes(events, i, k) == events[i].k = k /\ events[i].v.type = "raw"

\* Bit b of index k is asked for: some parameter sets it, and since then nothing
\* replaced the index by a text nor set the bit on the opposite index.
Asked(events, n, k, b) ==
  \E i \in 1 .. n :
    /\ Sets(events, i, k) /\ b \in events[i].v.bits
    /\ \A j \in (i + 1) .. n :
         /\ ~ Writes(events, j, k)
         /\ ~ (Sets(events, j, blockOpposite[k]) /\ b \in events[j].v.bits)

\* Index k holds the text v: the last parameter with an intent for k wrote it.
Holds(events, n, k, v) ==
  \E i \in 1 .. n :
    /\ Writes(events, i, k) /\ events[i].v = v
    /\ \A j \in (i + 1) .. n : ~ Sets(events, j, k) /\ ~ Writes(events, j, k)

\* The maps say what the first n parameters ask for.
IsLastIntent(m, events, n) ==
  \A k \in BlockIndex :
    /\ m.masks[k] = {b \in Bit : Asked(events, n, k, b)}
    /\ \A t \in Text : m.raw[k] = Raw(t) <=> Holds(events, n, k, Raw(t))
=============================================================================
