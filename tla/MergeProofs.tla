---------------------------- MODULE MergeProofs ----------------------------
(***************************************************************************)
(* The merge of light and shutter commands, for any number of lights and   *)
(* shutters and any set of bits and texts.  First the loop of              *)
(* MergeBlockActions (MergeLoop): it computes the last intent of any list  *)
(* of parameters, and its block has the effect of the list.  Then the way  *)
(* from a request to the cabinet (BlockMerge): the sizes of actions, what  *)
(* the loops of the model compute, where a delivery is cut, and that it    *)
(* has the effect of the waiting commands, for a queue of any length.      *)
(***************************************************************************)
EXTENDS MergeLoop, BlockMerge, FiniteSetTheorems, WellFoundedInduction, TLAPS

\* The table blockOpposite pairs the indices of the block: every index has another
\* one as its opposite, whose opposite it is.
THEOREM OppositeIsPairing ==
  \A k \in BlockIndex :
    /\ blockOpposite[k] \in BlockIndex
    /\ blockOpposite[k] # k
    /\ blockOpposite[blockOpposite[k]] = k
<1> SUFFICES ASSUME NEW k \in BlockIndex
             PROVE  /\ blockOpposite[k] \in BlockIndex
                    /\ blockOpposite[k] # k
                    /\ blockOpposite[blockOpposite[k]] = k
  OBVIOUS
<1> USE DEF BlockIndex, IndexLightStart, IndexLightEnd
<1>0. NLights \in Nat \ {0} /\ NShutters \in Nat \ {0}
  BY ParamsAssumption
<1> DEFINE i == k - 605
<1>1. CASE i < NLights
  BY <1>0, <1>1 DEF blockOpposite
<1>2. CASE NLights <= i /\ i < 2 * NLights
  BY <1>0, <1>2 DEF blockOpposite
<1>3. CASE 2 * NLights <= i /\ i < 2 * NLights + NShutters
  BY <1>0, <1>3 DEF blockOpposite
<1>4. CASE 2 * NLights + NShutters <= i
  BY <1>0, <1>4 DEF blockOpposite
<1> QED
  BY <1>0, <1>1, <1>2, <1>3, <1>4

\* The bounds of the block are numbers.
LEMMA BlockBounds == IndexLightStart = 605 /\ IndexLightEnd \in Nat /\ IndexLightStart < IndexLightEnd
<1>1. NLights \in Nat \ {0} /\ NShutters \in Nat \ {0}
  BY ParamsAssumption
<1> QED
  BY <1>1 DEF IndexLightStart, IndexLightEnd

\* Looking one step further back: an i in 1 .. c+1 with a property, and without any
\* later j that spoils it.
LEMMA LastEvent ==
  ASSUME NEW c \in Nat, NEW A, NEW D
  PROVE  (\E i \in 1 .. (c + 1) : i \in A /\ \A j \in (i + 1) .. (c + 1) : j \notin D) <=>
           \/ c + 1 \in A
           \/ (\E i \in 1 .. c : i \in A /\ \A j \in (i + 1) .. c : j \notin D) /\ c + 1 \notin D
<1> DEFINE P(d) == \E i \in 1 .. d : i \in A /\ \A j \in (i + 1) .. d : j \notin D
<1>1. ASSUME P(c + 1), c + 1 \notin A PROVE P(c) /\ c + 1 \notin D
  <2>1. PICK i \in 1 .. (c + 1) : i \in A /\ \A j \in (i + 1) .. (c + 1) : j \notin D
    BY <1>1
  <2>2. i \in 1 .. c
    BY <2>1, <1>1
  <2>3. c + 1 \in (i + 1) .. (c + 1) /\ \A j \in (i + 1) .. c : j \in (i + 1) .. (c + 1)
    BY <2>2
  <2> QED
    BY <2>1, <2>2, <2>3
<1>2. ASSUME c + 1 \in A PROVE P(c + 1)
  <2>1. c + 1 \in 1 .. (c + 1) /\ \A j \in (c + 1 + 1) .. (c + 1) : FALSE
    OBVIOUS
  <2> QED
    BY <2>1, <1>2
<1>3. ASSUME P(c), c + 1 \notin D PROVE P(c + 1)
  <2>1. PICK i \in 1 .. c : i \in A /\ \A j \in (i + 1) .. c : j \notin D
    BY <1>3
  <2>2. i \in 1 .. (c + 1) /\ \A j \in (i + 1) .. (c + 1) : j \in (i + 1) .. c \/ j = c + 1
    BY <2>1
  <2> QED
    BY <2>1, <2>2, <1>3
<1> QED
  BY <1>1, <1>2, <1>3

\* How one more parameter changes what is asked of a bit.
LEMMA AskedStep ==
  ASSUME NEW e, NEW c \in Nat, NEW k, NEW b
  PROVE  Asked(e, c + 1, k, b) <=>
           \/ Sets(e, c + 1, k) /\ b \in e[c + 1].v.bits
           \/ /\ Asked(e, c, k, b)
              /\ ~ Writes(e, c + 1, k)
              /\ ~ (Sets(e, c + 1, blockOpposite[k]) /\ b \in e[c + 1].v.bits)
<1> DEFINE A == {i \in Nat : Sets(e, i, k) /\ b \in e[i].v.bits}
           D == {j \in Nat : Writes(e, j, k) \/ (Sets(e, j, blockOpposite[k]) /\ b \in e[j].v.bits)}
           P(d) == \E i \in 1 .. d : i \in A /\ \A j \in (i + 1) .. d : j \notin D
<1>1. \A d \in Nat : \A i \in 1 .. d : i \in Nat /\ \A j \in (i + 1) .. d : j \in Nat
  OBVIOUS
<1>2. ASSUME NEW d \in Nat PROVE Asked(e, d, k, b) <=> P(d)
  <2>1. \A i \in 1 .. d : i \in A <=> Sets(e, i, k) /\ b \in e[i].v.bits
    BY <1>1
  <2>2. \A i \in 1 .. d : \A j \in (i + 1) .. d :
          j \notin D <=> /\ ~ Writes(e, j, k)
                         /\ ~ (Sets(e, j, blockOpposite[k]) /\ b \in e[j].v.bits)
    BY <1>1
  <2> HIDE DEF A, D
  <2> QED
    BY <2>1, <2>2, Zenon DEF Asked
<1>3. Asked(e, c + 1, k, b) <=> P(c + 1)
  BY <1>2
<1>4. Asked(e, c, k, b) <=> P(c)
  BY <1>2
<1>5. P(c + 1) <=> c + 1 \in A \/ (P(c) /\ c + 1 \notin D)
  <2> HIDE DEF A, D
  <2> QED
    BY LastEvent
<1> HIDE DEF P
<1> QED
  BY <1>3, <1>4, <1>5

\* How one more parameter changes the text an index holds.
LEMMA HoldsStep ==
  ASSUME NEW e, NEW c \in Nat, NEW k, NEW v
  PROVE  Holds(e, c + 1, k, v) <=>
           \/ Writes(e, c + 1, k) /\ e[c + 1].v = v
           \/ Holds(e, c, k, v) /\ ~ Sets(e, c + 1, k) /\ ~ Writes(e, c + 1, k)
<1> DEFINE A == {i \in Nat : Writes(e, i, k) /\ e[i].v = v}
           D == {j \in Nat : Sets(e, j, k) \/ Writes(e, j, k)}
           P(d) == \E i \in 1 .. d : i \in A /\ \A j \in (i + 1) .. d : j \notin D
<1>1. \A d \in Nat : \A i \in 1 .. d : i \in Nat /\ \A j \in (i + 1) .. d : j \in Nat
  OBVIOUS
<1>2. ASSUME NEW d \in Nat PROVE Holds(e, d, k, v) <=> P(d)
  <2>1. \A i \in 1 .. d : i \in A <=> Writes(e, i, k) /\ e[i].v = v
    BY <1>1
  <2>2. \A i \in 1 .. d : \A j \in (i + 1) .. d :
          j \notin D <=> ~ Sets(e, j, k) /\ ~ Writes(e, j, k)
    BY <1>1
  <2> HIDE DEF A, D
  <2> QED
    BY <2>1, <2>2, Zenon DEF Holds
<1>3. Holds(e, c + 1, k, v) <=> P(c + 1)
  BY <1>2
<1>4. Holds(e, c, k, v) <=> P(c)
  BY <1>2
<1>5. P(c + 1) <=> c + 1 \in A \/ (P(c) /\ c + 1 \notin D)
  <2> HIDE DEF A, D
  <2> QED
    BY LastEvent
<1> HIDE DEF P
<1> QED
  BY <1>3, <1>4, <1>5

-----------------------------------------------------------------------------
\* What the cabinet with the merge has still to be told about index k.
Left(k) == IF k >= at THEN m.masks[k] ELSE {}

\* Without texts, the two cabinets differ by what is left to tell: the bits of Left(k)
\* are to be set, those of the opposite index to be undone.
SameButLeft ==
  Numeric =>
    \A k \in BlockIndex :
      m.raw[k] = NoRaw /\ lamps[k] = (merged[k] \ Left(blockOpposite[k])) \cup Left(k)

\* The loop invariant: a text empties the mask of its index, and nothing of the block
\* is written before the loop has ended.
LoopInv ==
  /\ LoopTypeOK
  /\ MergeIsLastIntent
  /\ OppositesDisjoint
  /\ \A k \in BlockIndex : m.raw[k] # NoRaw => m.masks[k] = {}
  /\ at # IndexLightStart => n = Len(events)
  /\ SameButLeft

\* Nothing is asked by no parameter.
LEMMA NothingAsked ==
  \A e, k, x : ~ Asked(e, 0, k, x) /\ ~ Holds(e, 0, k, x)
<1>1. \A i \in 1 .. 0 : FALSE
  OBVIOUS
<1> QED
  BY <1>1, Zenon DEF Asked, Holds

\* The loop starts with empty maps.
LEMMA LoopInit == LoopStart => LoopInv
<1> SUFFICES ASSUME LoopStart PROVE LoopInv
  OBVIOUS
<1>1. /\ m.masks = [k \in BlockIndex |-> {}] /\ m.raw = [k \in BlockIndex |-> NoRaw]
      /\ m = [masks |-> m.masks, raw |-> m.raw]
      /\ n = 0 /\ events \in Inputs
      /\ at = IndexLightStart /\ merged = lamps /\ lamps \in [BlockIndex -> SUBSET Bit]
  BY InputsAssumption DEF LoopStart, EmptyMerge
<1>0. Len(events) \in Nat
  BY <1>1, InputsAssumption
<1>2. LoopTypeOK
  <2>1. m.masks \in [BlockIndex -> SUBSET Bit]
    BY <1>1
  <2>2. m.raw \in [BlockIndex -> {Raw(t) : t \in Text \cup {""}}]
    BY <1>1 DEF NoRaw
  <2>3. m \in Masks
    BY <1>1, <2>1, <2>2 DEF Masks
  <2>4. at \in IndexLightStart .. IndexLightEnd + 1
    BY <1>1, BlockBounds
  <2> QED
    BY <1>1, <1>0, <2>3, <2>4 DEF LoopTypeOK
<1>5. \A t \in Text : NoRaw # Raw(t)
  BY ParamsAssumption DEF NoRaw, Raw
<1>6. MergeIsLastIntent
  <2> SUFFICES ASSUME NEW k \in BlockIndex
               PROVE  /\ m.masks[k] = {b \in Bit : Asked(events, n, k, b)}
                      /\ \A t \in Text : m.raw[k] = Raw(t) <=> Holds(events, n, k, Raw(t))
    BY DEF MergeIsLastIntent, IsLastIntent
  <2>1. m.masks[k] = {} /\ m.raw[k] = NoRaw
    BY <1>1
  <2> QED
    BY <1>1, <1>5, <2>1, NothingAsked
<1>7. OppositesDisjoint
  BY <1>1, OppositeIsPairing DEF OppositesDisjoint
<1>8. SameButLeft
  <2> SUFFICES ASSUME NEW k \in BlockIndex
               PROVE  m.raw[k] = NoRaw /\ lamps[k] = (merged[k] \ Left(blockOpposite[k])) \cup Left(k)
    BY DEF SameButLeft
  <2>1. Left(k) = {} /\ Left(blockOpposite[k]) = {}
    BY <1>1, OppositeIsPairing DEF Left
  <2> QED
    BY <1>1, <2>1
<1> QED
  BY <1>1, <1>2, <1>6, <1>7, <1>8 DEF LoopInv

\* The fields of a value.
LEMMA ValueFields ==
  /\ \A b : Num(b).type = "num" /\ Num(b).bits = b
  /\ \A t : Raw(t).type = "raw" /\ Raw(t).bits = {}
BY DEF Num, Raw

\* A parameter carries bits or a text.
LEMMA ParamFields ==
  ASSUME NEW p \in Param
  PROVE  \/ p.v.type = "num" /\ p.v.bits \subseteq Bit /\ p.v = Num(p.v.bits)
         \/ p.v.type = "raw" /\ p.v.bits = {} /\ \E t \in Text : p.v = Raw(t)
<1>1. p.v \in Value
  BY DEF Param
<1>2. CASE \E b \in SUBSET Bit : p.v = Num(b)
  BY <1>2, ValueFields
<1>3. CASE \E t \in Text : p.v = Raw(t)
  BY <1>3, ValueFields
<1> QED
  BY <1>1, <1>2, <1>3 DEF Value

\* What merging one parameter does, case by case.
LEMMA MergeCases ==
  ASSUME NEW mm, NEW p
  PROVE  LET o == blockOpposite[p.k] IN
         /\ p.k \notin BlockIndex => MergeParam(mm, p) = mm
         /\ p.k \in BlockIndex /\ p.v.type = "raw" =>
              MergeParam(mm, p) = [masks |-> [mm.masks EXCEPT ![p.k] = {}],
                                   raw   |-> [mm.raw EXCEPT ![p.k] = p.v]]
         /\ p.k \in BlockIndex /\ p.v = Num({}) => MergeParam(mm, p) = mm
         /\ p.k \in BlockIndex /\ p.v.type = "num" /\ p.v # Num({}) =>
              MergeParam(mm, p) =
                LET set == [mm.masks EXCEPT ![p.k] = @ \cup p.v.bits]
                IN  [masks |-> IF mm.raw[o] = NoRaw THEN [set EXCEPT ![o] = @ \ p.v.bits] ELSE set,
                     raw   |-> [mm.raw EXCEPT ![p.k] = NoRaw]]
<1>1. Num({}).type = "num"
  BY ValueFields
<1>2. CASE p.k \notin BlockIndex
  BY <1>2 DEF MergeParam
<1>3. CASE p.k \in BlockIndex /\ p.v.type = "raw"
  <2>1. p.v # Num({})
    BY <1>1, <1>3
  <2> QED
    BY <1>3, <2>1 DEF MergeParam
<1>4. CASE p.k \in BlockIndex /\ p.v = Num({})
  <2>1. p.v.type # "raw"
    BY <1>1, <1>4
  <2> QED
    BY <1>4, <2>1 DEF MergeParam
<1>5. CASE p.k \in BlockIndex /\ p.v.type # "raw" /\ p.v # Num({})
  BY <1>5 DEF MergeParam
<1> QED
  BY <1>2, <1>3, <1>4, <1>5

\* The next parameter is a parameter.
LEMMA NextParam ==
  ASSUME LoopTypeOK, Step
  PROVE  /\ n \in Nat /\ events' = events /\ n' = n + 1
         /\ events[n + 1] \in Param
         /\ m' = MergeParam(m, events[n + 1])
         /\ n + 1 \in 0 .. Len(events)
<1>1. events \in Seq(Param) /\ Len(events) \in Nat /\ n \in 0 .. Len(events) /\ n < Len(events)
  BY InputsAssumption DEF LoopTypeOK, Step
<1>2. n \in Nat /\ n + 1 \in 1 .. Len(events) /\ n + 1 \in 0 .. Len(events)
  BY <1>1
<1>3. events[n + 1] \in Param
  BY <1>1, <1>2
<1> QED
  BY <1>2, <1>3 DEF Step

\* Parameter p sets bits of index k, or writes a text there.
SetsAt(p, k) == p.k = k /\ p.v.type = "num" /\ p.v.bits # {}
WritesAt(p, k) == p.k = k /\ p.v.type = "raw"

\* Maps as the loop keeps them: a text empties the mask of its index, and no lamp or
\* shutter is asked to go both ways.
GoodMasks ==
  {mm \in Masks : \A k \in BlockIndex :
     /\ mm.raw[k] # NoRaw => mm.masks[k] = {}
     /\ mm.masks[k] \cap mm.masks[blockOpposite[k]] = {}}

\* nm is mm with the parameter p merged into it, index by index.
ByIndex(nm, mm, p) ==
  /\ nm.masks \in [BlockIndex -> SUBSET Bit]
  /\ nm.raw \in [BlockIndex -> {Raw(t) : t \in Text \cup {""}}]
  /\ nm = [masks |-> nm.masks, raw |-> nm.raw]
  /\ \A k \in BlockIndex :
       /\ nm.masks[k] = IF SetsAt(p, k) THEN mm.masks[k] \cup p.v.bits
                        ELSE IF WritesAt(p, k) THEN {}
                        ELSE IF SetsAt(p, blockOpposite[k]) THEN mm.masks[k] \ p.v.bits
                        ELSE mm.masks[k]
       /\ nm.raw[k] = IF SetsAt(p, k) THEN NoRaw
                      ELSE IF WritesAt(p, k) THEN p.v
                      ELSE mm.raw[k]

\* The merge of one parameter.
LEMMA MergeByIndex ==
  ASSUME NEW mm \in GoodMasks, NEW p \in Param
  PROVE  ByIndex(MergeParam(mm, p), mm, p)
<1> USE DEF ByIndex
<1> DEFINE nm == MergeParam(mm, p)
           o == blockOpposite[p.k]
           sets(k) == SetsAt(p, k)
           writes(k) == WritesAt(p, k)
<1>1. \A k \in BlockIndex : mm.raw[k] # NoRaw => mm.masks[k] = {}
  BY DEF GoodMasks
<1>3. /\ mm.masks \in [BlockIndex -> SUBSET Bit]
      /\ mm.raw \in [BlockIndex -> {Raw(t) : t \in Text \cup {""}}]
      /\ mm = [masks |-> mm.masks, raw |-> mm.raw]
  BY DEF GoodMasks, Masks
<1>4. \/ p.v.type = "num" /\ p.v.bits \subseteq Bit /\ p.v = Num(p.v.bits)
      \/ p.v.type = "raw" /\ p.v.bits = {} /\ \E t \in Text : p.v = Raw(t)
  BY ParamFields
<1>5. \A k \in BlockIndex :
        blockOpposite[k] \in BlockIndex /\ blockOpposite[k] # k /\ blockOpposite[blockOpposite[k]] = k
  BY OppositeIsPairing
<1> USE DEF SetsAt, WritesAt
<1>6. CASE p.k \notin BlockIndex
  <2>1. nm = mm
    BY <1>6, MergeCases
  <2> QED
    BY <2>1, <1>6, <1>3, <1>5
<1>7. CASE p.k \in BlockIndex /\ p.v = Num({})
  <2>1. nm = mm
    BY <1>7, MergeCases
  <2>2. p.v.bits = {} /\ p.v.type = "num"
    BY <1>7, ValueFields
  <2> QED
    BY <2>1, <2>2, <1>3
<1>8. CASE p.k \in BlockIndex /\ p.v.type = "raw"
  <2>1. nm = [masks |-> [mm.masks EXCEPT ![p.k] = {}], raw |-> [mm.raw EXCEPT ![p.k] = p.v]]
    BY <1>8, MergeCases
  <2>2. p.v \in {Raw(t) : t \in Text \cup {""}}
    BY <1>8, <1>4
  <2>3. \A k : ~ sets(k)
    BY <1>8
  <2>4. /\ nm.masks = [mm.masks EXCEPT ![p.k] = {}] /\ nm.raw = [mm.raw EXCEPT ![p.k] = p.v]
        /\ nm = [masks |-> nm.masks, raw |-> nm.raw]
    BY <2>1
  <2>5. \A k : writes(k) <=> k = p.k
    BY <1>8
  <2> HIDE DEF SetsAt, WritesAt, nm
  <2> QED
    BY <2>2, <2>3, <2>4, <2>5, <1>8, <1>3 DEF nm
<1>9. CASE p.k \in BlockIndex /\ p.v.type = "num" /\ p.v # Num({})
  <2>1. p.v.bits # {} /\ p.v.bits \subseteq Bit
    BY <1>9, <1>4
  <2>2. o \in BlockIndex /\ o # p.k /\ blockOpposite[o] = p.k
    BY <1>9, <1>5
  <2>3. mm.raw[o] # NoRaw => mm.masks[o] = {}
    BY <2>2, <1>1
  <2> DEFINE set == [mm.masks EXCEPT ![p.k] = @ \cup p.v.bits]
  <2>4. nm = [masks |-> IF mm.raw[o] = NoRaw THEN [set EXCEPT ![o] = @ \ p.v.bits] ELSE set,
              raw |-> [mm.raw EXCEPT ![p.k] = NoRaw]]
    BY <1>9, MergeCases
  <2>5. /\ nm.masks = IF mm.raw[o] = NoRaw THEN [set EXCEPT ![o] = @ \ p.v.bits] ELSE set
        /\ nm.raw = [mm.raw EXCEPT ![p.k] = NoRaw]
        /\ nm = [masks |-> nm.masks, raw |-> nm.raw]
    BY <2>4
  <2>6. \A k \in BlockIndex : sets(blockOpposite[k]) <=> k = o
    BY <2>1, <2>2, <1>9, <1>5
  <2>7. \A k \in BlockIndex : sets(k) <=> k = p.k
    BY <2>1, <1>9
  <2>8. \A k : ~ writes(k)
    BY <1>9
  <2>9. /\ nm.masks \in [BlockIndex -> SUBSET Bit]
        /\ \A k \in BlockIndex :
             nm.masks[k] = IF k = p.k THEN mm.masks[k] \cup p.v.bits
                           ELSE IF k = o THEN mm.masks[k] \ p.v.bits ELSE mm.masks[k]
    <3>1. /\ set \in [BlockIndex -> SUBSET Bit]
          /\ \A k \in BlockIndex : set[k] = IF k = p.k THEN mm.masks[k] \cup p.v.bits ELSE mm.masks[k]
      BY <2>1, <1>9, <1>3
    <3> HIDE DEF set, nm, o
    <3>2. CASE mm.raw[o] = NoRaw
      <4>1. nm.masks = [set EXCEPT ![o] = @ \ p.v.bits]
        BY <3>2, <2>5
      <4> QED
        BY <4>1, <3>1, <2>2
    <3>3. CASE mm.raw[o] # NoRaw
      <4>1. nm.masks = set /\ mm.masks[o] = {}
        BY <3>3, <2>5, <2>3
      <4> QED
        BY <4>1, <3>1, <2>2
    <3> QED
      BY <3>2, <3>3
  <2>10. /\ nm.raw \in [BlockIndex -> {Raw(t) : t \in Text \cup {""}}]
         /\ \A k \in BlockIndex : nm.raw[k] = IF k = p.k THEN NoRaw ELSE mm.raw[k]
    <3>1. NoRaw \in {Raw(t) : t \in Text \cup {""}}
      BY DEF NoRaw
    <3> HIDE DEF nm
    <3> QED
      BY <3>1, <2>5, <1>9, <1>3
  <2> HIDE DEF SetsAt, WritesAt, nm, o
  <2> QED
    BY <2>5, <2>6, <2>7, <2>8, <2>9, <2>10 DEF nm
<1> QED
  BY <1>6, <1>7, <1>8, <1>9, <1>4

\* What a cabinet makes of one parameter, index by index.
LEMMA LampsByIndex ==
  ASSUME NEW f \in [BlockIndex -> SUBSET Bit], NEW p \in Param
  PROVE  /\ ObeyIndex(f, p) \in [BlockIndex -> SUBSET Bit]
         /\ \A k \in BlockIndex :
              ObeyIndex(f, p)[k] = IF p.k = k THEN f[k] \cup p.v.bits
                                    ELSE IF p.k = blockOpposite[k] THEN f[k] \ p.v.bits
                                    ELSE f[k]
<1>1. \A k \in BlockIndex :
        blockOpposite[k] \in BlockIndex /\ blockOpposite[k] # k /\ blockOpposite[blockOpposite[k]] = k
  BY OppositeIsPairing
<1>2. p.v.bits \subseteq Bit
  BY ParamFields
<1>3. CASE p.k \notin BlockIndex
  BY <1>1, <1>3 DEF ObeyIndex
<1>4. CASE p.k \in BlockIndex
  <2> DEFINE o == blockOpposite[p.k]
  <2>1. o \in BlockIndex /\ o # p.k
    BY <1>1, <1>4
  <2>2. \A k \in BlockIndex : p.k = blockOpposite[k] <=> k = o
    BY <1>1, <1>4
  <2>3. ObeyIndex(f, p) = [f EXCEPT ![p.k] = @ \cup p.v.bits, ![o] = @ \ p.v.bits]
    BY <1>4 DEF ObeyIndex
  <2> HIDE DEF o
  <2> QED
    BY <1>2, <1>4, <2>1, <2>2, <2>3
<1> QED
  BY <1>3, <1>4

\* The same for one index, with a name for what it says.
ObeyedAt(bits, f, p, k) ==
  bits = IF p.k = k THEN f[k] \cup p.v.bits
         ELSE IF p.k = blockOpposite[k] THEN f[k] \ p.v.bits
         ELSE f[k]

LEMMA LampsAt ==
  ASSUME NEW f \in [BlockIndex -> SUBSET Bit], NEW p \in Param, NEW k \in BlockIndex
  PROVE  ObeyedAt(ObeyIndex(f, p)[k], f, p, k)
<1>1. /\ blockOpposite[k] \in BlockIndex /\ blockOpposite[k] # k /\ blockOpposite[blockOpposite[k]] = k
      /\ p.k \in BlockIndex => blockOpposite[p.k] \in BlockIndex /\ blockOpposite[blockOpposite[p.k]] = p.k
  BY OppositeIsPairing
<1>2. CASE p.k \notin BlockIndex
  <2>1. ObeyIndex(f, p) = f /\ p.k # k /\ p.k # blockOpposite[k]
    BY <1>1, <1>2 DEF ObeyIndex
  <2> QED
    BY <2>1 DEF ObeyedAt
<1>3. CASE p.k \in BlockIndex
  <2>1. ObeyIndex(f, p) = [f EXCEPT ![p.k] = @ \cup p.v.bits, ![blockOpposite[p.k]] = @ \ p.v.bits]
    BY <1>3 DEF ObeyIndex
  <2>2. p.k = blockOpposite[k] <=> k = blockOpposite[p.k]
    BY <1>1, <1>3
  <2>3. CASE p.k = k
    BY <1>1, <2>1, <2>3 DEF ObeyedAt
  <2>4. CASE p.k = blockOpposite[k]
    BY <1>1, <1>3, <2>1, <2>2, <2>4 DEF ObeyedAt
  <2>5. CASE p.k # k /\ p.k # blockOpposite[k]
    BY <2>1, <2>2, <2>5 DEF ObeyedAt
  <2> QED
    BY <2>3, <2>4, <2>5
<1> QED
  BY <1>2, <1>3

\* The empty maps are such maps, and merging a parameter keeps them so.
LEMMA GoodStart == EmptyMerge \in GoodMasks
<1>1. /\ EmptyMerge.masks = [k \in BlockIndex |-> {}] /\ EmptyMerge.raw = [k \in BlockIndex |-> NoRaw]
      /\ EmptyMerge = [masks |-> EmptyMerge.masks, raw |-> EmptyMerge.raw]
  BY DEF EmptyMerge
<1>2. NoRaw \in {Raw(t) : t \in Text \cup {""}}
  BY DEF NoRaw
<1>3. EmptyMerge \in Masks
  <2>1. EmptyMerge.masks \in [BlockIndex -> SUBSET Bit]
    BY <1>1
  <2>2. EmptyMerge.raw \in [BlockIndex -> {Raw(t) : t \in Text \cup {""}}]
    BY <1>1, <1>2
  <2> QED
    BY <1>1, <2>1, <2>2 DEF Masks
<1> QED
  BY <1>1, <1>3, OppositeIsPairing DEF GoodMasks

LEMMA GoodStep ==
  ASSUME NEW mm \in GoodMasks, NEW p \in Param
  PROVE  MergeParam(mm, p) \in GoodMasks
<1> DEFINE nm == MergeParam(mm, p)
<1>1. /\ nm.masks \in [BlockIndex -> SUBSET Bit]
      /\ nm.raw \in [BlockIndex -> {Raw(t) : t \in Text \cup {""}}]
      /\ nm = [masks |-> nm.masks, raw |-> nm.raw]
      /\ \A k \in BlockIndex :
           /\ nm.masks[k] = IF SetsAt(p, k) THEN mm.masks[k] \cup p.v.bits
                            ELSE IF WritesAt(p, k) THEN {}
                            ELSE IF SetsAt(p, blockOpposite[k]) THEN mm.masks[k] \ p.v.bits
                            ELSE mm.masks[k]
           /\ nm.raw[k] = IF SetsAt(p, k) THEN NoRaw
                          ELSE IF WritesAt(p, k) THEN p.v
                          ELSE mm.raw[k]
  BY MergeByIndex DEF ByIndex
<1> HIDE DEF nm
<1>2. nm \in Masks
  BY <1>1 DEF Masks
<1>3. ASSUME NEW k \in BlockIndex
      PROVE  /\ nm.raw[k] # NoRaw => nm.masks[k] = {}
             /\ nm.masks[k] \cap nm.masks[blockOpposite[k]] = {}
  <2> DEFINE ok == blockOpposite[k]
  <2>1. ok \in BlockIndex /\ blockOpposite[ok] = k /\ ok # k
    BY OppositeIsPairing
  <2>2. mm.masks[k] \cap mm.masks[ok] = {} /\ (mm.raw[k] # NoRaw => mm.masks[k] = {})
    BY DEF GoodMasks
  <2>3. /\ ~ (SetsAt(p, k) /\ SetsAt(p, ok)) /\ ~ (SetsAt(p, k) /\ WritesAt(p, ok))
        /\ ~ (WritesAt(p, k) /\ SetsAt(p, ok))
    BY <2>1 DEF SetsAt, WritesAt
  <2>4. SetsAt(p, ok) => p.v.bits # {}
    BY DEF SetsAt
  <2>5. nm.masks[k] = IF SetsAt(p, k) THEN mm.masks[k] \cup p.v.bits
                      ELSE IF WritesAt(p, k) THEN {}
                      ELSE IF SetsAt(p, ok) THEN mm.masks[k] \ p.v.bits ELSE mm.masks[k]
    BY <1>1
  <2>6. nm.masks[ok] = IF SetsAt(p, ok) THEN mm.masks[ok] \cup p.v.bits
                       ELSE IF WritesAt(p, ok) THEN {}
                       ELSE IF SetsAt(p, k) THEN mm.masks[ok] \ p.v.bits ELSE mm.masks[ok]
    BY <1>1, <2>1
  <2>7. nm.raw[k] = IF SetsAt(p, k) THEN NoRaw ELSE IF WritesAt(p, k) THEN p.v ELSE mm.raw[k]
    BY <1>1
  <2> HIDE DEF ok
  <2>8. nm.masks[k] \cap nm.masks[ok] = {}
    BY <2>2, <2>3, <2>5, <2>6
  <2>9. nm.raw[k] # NoRaw => nm.masks[k] = {}
    BY <2>2, <2>5, <2>7
  <2> QED
    BY <2>8, <2>9 DEF ok
<1> QED
  BY <1>2, <1>3 DEF GoodMasks, nm

\* Without texts, the cabinet with lamps g is where the maps mm would bring the one with
\* lamps f: the bits of a mask are set, those of the opposite mask undone.
Reached(f, mm, g) ==
  \A k \in BlockIndex :
    mm.raw[k] = NoRaw /\ g[k] = (f[k] \ mm.masks[blockOpposite[k]]) \cup mm.masks[k]

\* One more number keeps that.
LEMMA ReachedStep ==
  ASSUME NEW mm \in GoodMasks, NEW p \in Param, p.k \in BlockIndex => p.v.type = "num",
         NEW f, NEW g \in [BlockIndex -> SUBSET Bit], Reached(f, mm, g)
  PROVE  Reached(f, MergeParam(mm, p), ObeyIndex(g, p))
<1> DEFINE nm == MergeParam(mm, p)
           h == ObeyIndex(g, p)
<1>1. \A k \in BlockIndex :
        /\ nm.masks[k] = IF SetsAt(p, k) THEN mm.masks[k] \cup p.v.bits
                         ELSE IF WritesAt(p, k) THEN {}
                         ELSE IF SetsAt(p, blockOpposite[k]) THEN mm.masks[k] \ p.v.bits
                         ELSE mm.masks[k]
        /\ nm.raw[k] = IF SetsAt(p, k) THEN NoRaw
                       ELSE IF WritesAt(p, k) THEN p.v
                       ELSE mm.raw[k]
  BY MergeByIndex DEF ByIndex
<1>2. \A k \in BlockIndex : h[k] = IF p.k = k THEN g[k] \cup p.v.bits
                                  ELSE IF p.k = blockOpposite[k] THEN g[k] \ p.v.bits
                                  ELSE g[k]
  BY LampsByIndex
<1> HIDE DEF nm, h
<1> SUFFICES ASSUME NEW k \in BlockIndex
             PROVE  nm.raw[k] = NoRaw /\ h[k] = (f[k] \ nm.masks[blockOpposite[k]]) \cup nm.masks[k]
  BY DEF Reached, nm, h
<1> DEFINE ok == blockOpposite[k]
<1>3. ok \in BlockIndex /\ ok # k /\ blockOpposite[ok] = k
  BY OppositeIsPairing
<1>4. mm.raw[k] = NoRaw /\ g[k] = (f[k] \ mm.masks[ok]) \cup mm.masks[k]
  BY DEF Reached
<1>5. ~ WritesAt(p, k) /\ ~ WritesAt(p, ok)
  BY <1>3 DEF WritesAt
<1>6. /\ nm.raw[k] = NoRaw
      /\ nm.masks[k] = IF SetsAt(p, k) THEN mm.masks[k] \cup p.v.bits
                       ELSE IF SetsAt(p, ok) THEN mm.masks[k] \ p.v.bits ELSE mm.masks[k]
      /\ nm.masks[ok] = IF SetsAt(p, ok) THEN mm.masks[ok] \cup p.v.bits
                        ELSE IF SetsAt(p, k) THEN mm.masks[ok] \ p.v.bits ELSE mm.masks[ok]
  BY <1>1, <1>3, <1>4, <1>5
<1>7. ~ (SetsAt(p, k) /\ SetsAt(p, ok))
  BY <1>3 DEF SetsAt
<1>8. h[k] = IF SetsAt(p, k) THEN g[k] \cup p.v.bits
             ELSE IF SetsAt(p, ok) THEN g[k] \ p.v.bits ELSE g[k]
  <2>1. p.k = k \/ p.k = ok => p.v.type = "num"
    BY <1>3
  <2> QED
    BY <1>2, <1>3, <2>1 DEF SetsAt
<1>9. h[k] = (f[k] \ nm.masks[ok]) \cup nm.masks[k]
  <2> HIDE DEF ok
  <2> QED
    BY <1>4, <1>6, <1>7, <1>8
<1> QED
  BY <1>6, <1>9

\* A parameter, or an index of the returned block, preserves the loop invariant.
LEMMA LoopStep == LoopInv /\ [LoopNext]_loopVars => LoopInv'
<1> SUFFICES ASSUME LoopInv, [LoopNext]_loopVars PROVE LoopInv'
  OBVIOUS
<1>1. CASE UNCHANGED loopVars
  BY <1>1 DEF loopVars, LoopInv, LoopTypeOK, MergeIsLastIntent, OppositesDisjoint, SameButLeft, Numeric, Left
<1>2. CASE Step
  <2> DEFINE p == events[n + 1]
  <2>1. /\ LoopTypeOK /\ MergeIsLastIntent /\ OppositesDisjoint
        /\ \A k \in BlockIndex : m.raw[k] # NoRaw => m.masks[k] = {}
    BY DEF LoopInv
  <2>2. /\ n \in Nat /\ events' = events /\ n' = n + 1
        /\ p \in Param /\ m' = MergeParam(m, p) /\ n + 1 \in 0 .. Len(events)
    BY <1>2, <2>1, NextParam
  <2>3. lamps' = ObeyIndex(lamps, p) /\ at' = at /\ merged' = merged /\ at = IndexLightStart
    <3>1. Len(events) \in Nat /\ n # Len(events)
      BY <1>2, <2>1, <2>2, InputsAssumption DEF Step, LoopTypeOK
    <3> QED
      BY <1>2, <3>1 DEF Step, LoopInv
  <2>4. /\ ObeyIndex(lamps, p) \in [BlockIndex -> SUBSET Bit]
        /\ \A k \in BlockIndex :
             ObeyIndex(lamps, p)[k] = IF p.k = k THEN lamps[k] \cup p.v.bits
                                       ELSE IF p.k = blockOpposite[k] THEN lamps[k] \ p.v.bits
                                       ELSE lamps[k]
    <3>1. lamps \in [BlockIndex -> SUBSET Bit]
      BY <2>1 DEF LoopTypeOK
    <3> QED
      BY <2>2, <3>1, LampsByIndex
  <2>5. \A k \in BlockIndex :
          blockOpposite[k] \in BlockIndex /\ blockOpposite[k] # k /\ blockOpposite[blockOpposite[k]] = k
    BY OppositeIsPairing
  <2>6. \A k \in BlockIndex, b \in Bit : b \in m.masks[k] <=> Asked(events, n, k, b)
    BY <2>1 DEF MergeIsLastIntent, IsLastIntent
  <2>7. \A k \in BlockIndex, t \in Text : m.raw[k] = Raw(t) <=> Holds(events, n, k, Raw(t))
    BY <2>1 DEF MergeIsLastIntent, IsLastIntent
  <2> DEFINE sets(k) == SetsAt(p, k)
             writes(k) == WritesAt(p, k)
  <2>0. m \in GoodMasks
    BY <2>1 DEF GoodMasks, LoopTypeOK, OppositesDisjoint
  <2>8. /\ m'.masks \in [BlockIndex -> SUBSET Bit]
        /\ m'.raw \in [BlockIndex -> {Raw(t) : t \in Text \cup {""}}]
        /\ m' = [masks |-> m'.masks, raw |-> m'.raw]
        /\ \A k \in BlockIndex :
             /\ m'.masks[k] = IF sets(k) THEN m.masks[k] \cup p.v.bits
                              ELSE IF writes(k) THEN {}
                              ELSE IF sets(blockOpposite[k]) THEN m.masks[k] \ p.v.bits
                              ELSE m.masks[k]
             /\ m'.raw[k] = IF sets(k) THEN NoRaw
                            ELSE IF writes(k) THEN p.v
                            ELSE m.raw[k]
    <3> HIDE DEF p
    <3>1. m' = MergeParam(m, p)
      BY <2>2
    <3>2. ByIndex(m', m, p)
      BY <2>0, <2>2, <3>1, MergeByIndex
    <3> QED
      BY <3>2 DEF ByIndex
  <2> USE DEF SetsAt, WritesAt
  <2>9. \A k : (Sets(events, n + 1, k) <=> sets(k)) /\ (Writes(events, n + 1, k) <=> writes(k))
    BY DEF Sets, Writes, SetsAt, WritesAt
  <2>10. LoopTypeOK'
    <3>1. m' \in Masks
      BY <2>8 DEF Masks
    <3>2. lamps' \in [BlockIndex -> SUBSET Bit]
      BY <2>3, <2>4
    <3> QED
      BY <3>1, <3>2, <2>1, <2>2, <2>3 DEF LoopTypeOK
  <2>11. MergeIsLastIntent'
    <3> SUFFICES ASSUME NEW k \in BlockIndex
                 PROVE  /\ m'.masks[k] = {b \in Bit : Asked(events, n + 1, k, b)}
                        /\ \A t \in Text : m'.raw[k] = Raw(t) <=> Holds(events, n + 1, k, Raw(t))
      BY <2>2 DEF MergeIsLastIntent, IsLastIntent
    <3>0. ~ (sets(k) /\ writes(k)) /\ ~ (sets(k) /\ sets(blockOpposite[k]))
      BY <2>5
    <3>1. ASSUME NEW b \in Bit PROVE b \in m'.masks[k] <=> Asked(events, n + 1, k, b)
      <4>1. Asked(events, n + 1, k, b) <=>
              \/ sets(k) /\ b \in p.v.bits
              \/ b \in m.masks[k] /\ ~ writes(k) /\ ~ (sets(blockOpposite[k]) /\ b \in p.v.bits)
        BY <2>2, <2>6, <2>9, AskedStep
      <4> HIDE DEF sets, writes
      <4> QED
        BY <4>1, <2>8, <3>0
    <3>2. ASSUME NEW t \in Text PROVE m'.raw[k] = Raw(t) <=> Holds(events, n + 1, k, Raw(t))
      <4>1. Holds(events, n + 1, k, Raw(t)) <=>
              \/ writes(k) /\ p.v = Raw(t)
              \/ m.raw[k] = Raw(t) /\ ~ sets(k) /\ ~ writes(k)
        BY <2>2, <2>7, <2>9, HoldsStep
      <4>2. NoRaw # Raw(t)
        BY ParamsAssumption DEF NoRaw, Raw
      <4> HIDE DEF sets, writes
      <4> QED
        BY <4>1, <4>2, <2>8, <3>0
    <3>3. m'.masks[k] \subseteq Bit
      BY <2>8
    <3> QED
      BY <3>1, <3>2, <3>3
  <2>12. m' \in GoodMasks
    BY <2>0, <2>2, GoodStep
  <2>13. OppositesDisjoint' /\ \A k \in BlockIndex : m'.raw[k] # NoRaw => m'.masks[k] = {}
    BY <2>12 DEF GoodMasks, OppositesDisjoint
  <2>14. at' # IndexLightStart => n' = Len(events')
    BY <2>3
  <2>15. SameButLeft'
    <3> SUFFICES ASSUME Numeric
                 PROVE  \A k \in BlockIndex :
                          /\ m'.raw[k] = NoRaw
                          /\ lamps'[k] = (merged'[k] \ Left(blockOpposite[k])') \cup Left(k)'
      BY <2>2 DEF SameButLeft, Numeric
    <3>1. \A j \in BlockIndex : j >= at
      BY <2>3 DEF BlockIndex, IndexLightStart, IndexLightEnd
    <3>2. Reached(merged, m, lamps)
      BY <2>5, <3>1 DEF LoopInv, SameButLeft, Left, Reached
    <3>3. p.k \in BlockIndex => p.v.type = "num"
      <4>1. n + 1 \in DOMAIN events
        BY <1>2, <2>1, <2>2, InputsAssumption DEF Step, LoopTypeOK
      <4> QED
        BY <4>1 DEF Numeric
    <3>4. lamps \in [BlockIndex -> SUBSET Bit]
      BY <2>1 DEF LoopTypeOK
    <3>5. Reached(merged, MergeParam(m, p), ObeyIndex(lamps, p))
      <4> HIDE DEF p
      <4> QED
        BY <2>0, <2>2, <3>2, <3>3, <3>4, ReachedStep
    <3>6. Reached(merged, m', lamps')
      BY <2>2, <2>3, <3>5
    <3>7. \A j \in BlockIndex : Left(j)' = m'.masks[j]
      BY <2>3, <3>1 DEF Left
    <3> QED
      BY <2>3, <2>5, <3>6, <3>7 DEF Reached
  <2> QED
    BY <2>10, <2>11, <2>12, <2>13, <2>14, <2>15 DEF LoopInv
<1>3. CASE Deliver
  <2>1. /\ LoopTypeOK /\ MergeIsLastIntent /\ OppositesDisjoint /\ SameButLeft
        /\ \A k \in BlockIndex : m.raw[k] # NoRaw => m.masks[k] = {}
    BY DEF LoopInv
  <2>2. /\ events' = events /\ n' = n /\ m' = m /\ lamps' = lamps /\ n = Len(events)
        /\ at' = at + 1 /\ at <= IndexLightEnd
    BY <1>3 DEF Deliver
  <2>3. at \in BlockIndex /\ at' \in IndexLightStart .. IndexLightEnd + 1 /\ at \in Nat
    <3>1. at \in IndexLightStart .. IndexLightEnd + 1
      BY <2>1 DEF LoopTypeOK
    <3> QED
      BY <2>2, <3>1, BlockBounds DEF BlockIndex
  <2>4. /\ m.masks \in [BlockIndex -> SUBSET Bit]
        /\ m.raw \in [BlockIndex -> {Raw(t) : t \in Text \cup {""}}]
        /\ merged \in [BlockIndex -> SUBSET Bit] /\ lamps \in [BlockIndex -> SUBSET Bit]
    BY <2>1 DEF LoopTypeOK, Masks
  <2> DEFINE v == MergedValue(m, at)
             o == blockOpposite[at]
  <2>5. o \in BlockIndex /\ o # at /\ blockOpposite[o] = at
    BY <2>3, OppositeIsPairing
  <2>6. v.bits \subseteq Bit
    <3>1. \E t : m.raw[at] = Raw(t)
      BY <2>3, <2>4
    <3> QED
      BY <3>1, <2>3, <2>4, ValueFields DEF MergedValue
  <2>7. merged' = [merged EXCEPT ![at] = @ \cup v.bits, ![o] = @ \ v.bits]
    <3>1. KV(at, v).k = at /\ KV(at, v).v = v
      BY DEF KV
    <3>2. merged' = ObeyIndex(merged, KV(at, v))
      BY <1>3 DEF Deliver
    <3> HIDE DEF v
    <3> QED
      BY <3>1, <3>2, <2>3 DEF ObeyIndex
  <2>8. LoopTypeOK'
    <3>1. merged' \in [BlockIndex -> SUBSET Bit]
      <4> HIDE DEF v, o
      <4> QED
        BY <2>3, <2>4, <2>5, <2>6, <2>7
    <3> QED
      BY <2>1, <2>2, <2>3, <3>1 DEF LoopTypeOK
  <2>9. MergeIsLastIntent' /\ OppositesDisjoint'
    BY <2>1, <2>2 DEF MergeIsLastIntent, OppositesDisjoint
  <2>10. SameButLeft'
    <3> SUFFICES ASSUME Numeric, NEW k \in BlockIndex
                 PROVE  /\ m.raw[k] = NoRaw
                        /\ lamps[k] = (merged'[k] \ Left(blockOpposite[k])') \cup Left(k)'
      BY <2>2 DEF SameButLeft, Numeric
    <3> DEFINE ok == blockOpposite[k]
    <3>1. ok \in BlockIndex /\ ok # k /\ blockOpposite[ok] = k
      BY OppositeIsPairing
    <3>2. m.raw[k] = NoRaw /\ lamps[k] = (merged[k] \ Left(ok)) \cup Left(k)
      BY <2>1 DEF SameButLeft
    <3>3. v.bits = m.masks[at]
      <4>1. m.raw[at] = NoRaw
        BY <2>1, <2>3 DEF SameButLeft
      <4> QED
        BY <4>1, ValueFields DEF MergedValue
    \* Only index at has nothing left after the step.
    <3>4. \A j \in BlockIndex : Left(j)' = IF j = at THEN {} ELSE Left(j)
      BY <2>2, <2>3 DEF Left, BlockIndex, IndexLightStart, IndexLightEnd
    <3>5. Left(at) = m.masks[at]
      BY <2>3 DEF Left
    <3>6. m.masks[at] \cap Left(o) = {}
      BY <2>1, <2>3 DEF OppositesDisjoint, Left
    <3>7. merged'[k] = IF k = at THEN merged[k] \cup m.masks[at]
                       ELSE IF k = o THEN merged[k] \ m.masks[at] ELSE merged[k]
      <4> HIDE DEF v, o
      <4> QED
        BY <2>3, <2>4, <2>5, <2>7, <3>3
    <3>8. (k = at <=> ok = o) /\ (k = o <=> ok = at)
      BY <2>3, <2>5, <3>1, OppositeIsPairing
    <3>9. /\ Left(k)' = IF k = at THEN {} ELSE Left(k)
          /\ Left(blockOpposite[k])' = IF ok = at THEN {} ELSE Left(ok)
      BY <3>1, <3>4
    <3>10. lamps[k] = (merged'[k] \ Left(blockOpposite[k])') \cup Left(k)'
      <4> HIDE DEF o, v
      <4>1. CASE k = at
        BY <4>1, <3>1, <3>2, <3>5, <3>6, <3>7, <3>8, <3>9
      <4>2. CASE k = o
        BY <4>2, <2>5, <3>1, <3>2, <3>5, <3>7, <3>8, <3>9
      <4>3. CASE k # at /\ k # o
        BY <4>3, <3>2, <3>7, <3>8, <3>9
      <4> QED
        BY <4>1, <4>2, <4>3
    <3> QED
      BY <3>2, <3>10
  <2> QED
    BY <2>1, <2>2, <2>8, <2>9, <2>10 DEF LoopInv
<1> QED
  BY <1>1, <1>2, <1>3 DEF LoopNext


\* The loop invariant holds throughout.
LEMMA LoopInvariance == LoopSpec => []LoopInv
BY LoopInit, LoopStep, PTL DEF LoopSpec

\* The masks and texts of MergeBlockActions keep their types.
THEOREM MergeTypes == LoopSpec => []LoopTypeOK
<1>1. LoopInv => LoopTypeOK
  BY DEF LoopInv
<1> QED
  BY <1>1, LoopInvariance, PTL

\* For every list of parameters, of any length, on any number of lights and shutters,
\* the loop of MergeBlockActions computes the last intent of every bit and every text.
THEOREM MergeCorrect == LoopSpec => []MergeIsLastIntent
<1>1. LoopInv => MergeIsLastIntent
  BY DEF LoopInv
<1> QED
  BY <1>1, LoopInvariance, PTL

\* The merged masks never ask a lamp or a shutter to go both ways.
THEOREM OppositesDisjointThm == LoopSpec => []OppositesDisjoint
<1>1. LoopInv => OppositesDisjoint
  BY DEF LoopInv
<1> QED
  BY <1>1, LoopInvariance, PTL

\* For every list of numeric commands, of any length, and wherever the lamps and shutters
\* were before, the block MergeBlockActions returns leaves each of them where the
\* commands one by one would have put it.
THEOREM MergeSameLamps == LoopSpec => []SameLamps
<1>1. LoopInv => SameLamps
  <2> SUFFICES ASSUME LoopInv, Numeric, at > IndexLightEnd PROVE merged = lamps
    BY DEF SameLamps
  <2>1. lamps \in [BlockIndex -> SUBSET Bit] /\ merged \in [BlockIndex -> SUBSET Bit]
    BY DEF LoopInv, LoopTypeOK
  <2>2. \A k \in BlockIndex : Left(k) = {}
    <3>1. at \in IndexLightStart .. IndexLightEnd + 1
      BY DEF LoopInv, LoopTypeOK
    <3> QED
      BY <3>1, BlockBounds DEF Left, BlockIndex
  <2>3. ASSUME NEW k \in BlockIndex PROVE lamps[k] = merged[k]
    <3>1. Left(k) = {} /\ Left(blockOpposite[k]) = {}
      BY <2>2, OppositeIsPairing
    <3>2. lamps[k] = (merged[k] \ Left(blockOpposite[k])) \cup Left(k)
      BY DEF LoopInv, SameButLeft
    <3> QED
      BY <3>1, <3>2
  <2> QED
    BY <2>1, <2>3
<1> QED
  BY <1>1, LoopInvariance, PTL

-----------------------------------------------------------------------------
(* BlockMerge: sorting the indices of an action.                            *)

\* The rank of an index among a finite set of them grows with the index.
LEMMA RankGrows ==
  ASSUME NEW S \in SUBSET Nat, IsFiniteSet(S)
  PROVE  /\ Cardinality(S) \in Nat
         /\ \A k \in S : Cardinality({j \in S : j < k}) \in 0 .. Cardinality(S) - 1
         /\ \A k, l \in S : k < l => Cardinality({j \in S : j < k}) < Cardinality({j \in S : j < l})
<1> DEFINE below(k) == {j \in S : j < k}
           T == 0 .. Cardinality(S) - 1
<1>0. Cardinality(S) \in Nat
  BY FS_CardinalityType
<1>1. ASSUME NEW k \in S
      PROVE  IsFiniteSet(below(k)) /\ Cardinality(below(k)) \in T
  <2>1. below(k) \in SUBSET (S \ {k})
    OBVIOUS
  <2>2. IsFiniteSet(S \ {k}) /\ Cardinality(S \ {k}) = Cardinality(S) - 1
    BY FS_RemoveElement
  <2>3. IsFiniteSet(below(k)) /\ Cardinality(below(k)) <= Cardinality(S) - 1
    BY <2>1, <2>2, FS_Subset
  <2>4. Cardinality(below(k)) \in Nat
    BY <2>3, FS_CardinalityType
  <2> QED
    BY <1>0, <2>3, <2>4
<1>2. ASSUME NEW k \in S, NEW l \in S, k < l PROVE Cardinality(below(k)) < Cardinality(below(l))
  <2>0. \A j \in S : j \in Nat
    OBVIOUS
  <2>1. ASSUME NEW j \in below(k) PROVE j \in below(l)
    BY <1>2, <2>0
  <2>2. k \in below(l) /\ k \notin below(k)
    BY <1>2
  <2>3. Cardinality(below(k)) \in T /\ Cardinality(below(l)) \in T
    BY <1>1
  <2>4. below(k) \in SUBSET below(l) /\ below(k) # below(l) /\ IsFiniteSet(below(l))
    BY <1>1, <2>1, <2>2
  <2> HIDE DEF below
  <2>5. /\ Cardinality(below(k)) <= Cardinality(below(l))
        /\ Cardinality(below(k)) # Cardinality(below(l))
    BY <2>4, FS_Subset
  <2> QED
    BY <1>0, <2>3, <2>5
<1> QED
  BY <1>0, <1>1, <1>2

\* A finite set of indices has an element of every rank.
LEMMA RankExists ==
  ASSUME NEW S \in SUBSET Nat, IsFiniteSet(S), NEW i \in 1 .. Cardinality(S)
  PROVE  \E k \in S : Cardinality({j \in S : j < k}) = i - 1
<1> DEFINE below(k) == {j \in S : j < k}
           T == 0 .. Cardinality(S) - 1
           f == [k \in S |-> Cardinality(below(k))]
<1>0. Cardinality(S) \in Nat
  BY FS_CardinalityType
<1>1. \A k \in S : Cardinality(below(k)) \in T
  BY RankGrows
<1>2. \A k, l \in S : k < l => Cardinality(below(k)) # Cardinality(below(l))
  <2>1. \A k, l \in S : k < l => Cardinality(below(k)) < Cardinality(below(l))
    BY RankGrows
  <2> HIDE DEF below
  <2> QED
    BY <1>0, <1>1, <2>1
<1>3. \A k, l \in S : k < l \/ l < k \/ k = l
  OBVIOUS
<1>4. f \in [S -> T] /\ \A k, l \in S : f[k] = f[l] => k = l
  <2> HIDE DEF below, T
  <2> QED
    BY <1>1, <1>2, <1>3
<1>5. f \in Injection(S, T)
  BY <1>4 DEF Injection, IsInjective
<1>6. IsFiniteSet(T) /\ Cardinality(T) = Cardinality(S)
  <2>1. 0 \in Int /\ Cardinality(S) - 1 \in Int
    BY <1>0
  <2>2. IsFiniteSet(T) /\ Cardinality(T) = IF 0 > Cardinality(S) - 1 THEN 0 ELSE Cardinality(S) - 1 - 0 + 1
    BY <2>1, FS_Interval
  <2> HIDE DEF T
  <2> QED
    BY <1>0, <2>2
<1>7. f \in Surjection(S, T)
  <2> HIDE DEF f, T
  <2> QED
    BY <1>5, <1>6, FS_Injection
<1>8. i - 1 \in T
  BY <1>0
<1>9. \E k \in S : f[k] = i - 1
  BY <1>7, <1>8 DEF Surjection
<1> QED
  BY <1>9

\* Sorting a finite set of indices lists its elements.
LEMMA SortedLists ==
  ASSUME NEW S \in SUBSET Nat, IsFiniteSet(S)
  PROVE  /\ Cardinality(S) \in Nat
         /\ DOMAIN Sorted(S) = 1 .. Cardinality(S)
         /\ \A i \in 1 .. Cardinality(S) : Sorted(S)[i] \in S
<1>1. Cardinality(S) \in Nat
  BY FS_CardinalityType
<1>2. ASSUME NEW i \in 1 .. Cardinality(S) PROVE Sorted(S)[i] \in S
  <2>1. \E k \in S : Cardinality({j \in S : j < k}) = i - 1
    BY RankExists
  <2>2. Sorted(S)[i] = CHOOSE k \in S : Cardinality({j \in S : j < k}) = i - 1
    BY DEF Sorted
  <2> QED
    BY <2>1, <2>2
<1> QED
  BY <1>1, <1>2 DEF Sorted

\* The list is sorted, and leaves out nothing.
LEMMA SortedOrder ==
  ASSUME NEW S \in SUBSET Nat, IsFiniteSet(S)
  PROVE  /\ \A i, j \in 1 .. Cardinality(S) : i < j => Sorted(S)[i] < Sorted(S)[j]
         /\ \A k \in S : \E i \in 1 .. Cardinality(S) : Sorted(S)[i] = k
<1> DEFINE rank(k) == Cardinality({j \in S : j < k})
           N == Cardinality(S)
<1>1. /\ N \in Nat /\ \A k \in S : rank(k) \in 0 .. N - 1
      /\ \A k, l \in S : k < l => rank(k) < rank(l)
  BY RankGrows
<1>2. ASSUME NEW i \in 1 .. N PROVE Sorted(S)[i] \in S /\ rank(Sorted(S)[i]) = i - 1
  <2>1. \E k \in S : rank(k) = i - 1
    BY RankExists
  <2>2. Sorted(S)[i] = CHOOSE k \in S : rank(k) = i - 1
    BY DEF Sorted
  <2> HIDE DEF rank
  <2> QED
    BY <2>1, <2>2
<1>3. \A k \in S : k \in Nat
  OBVIOUS
<1> HIDE DEF rank, N
<1>4. ASSUME NEW i \in 1 .. N, NEW j \in 1 .. N, i < j PROVE Sorted(S)[i] < Sorted(S)[j]
  <2> DEFINE k == Sorted(S)[i]
             l == Sorted(S)[j]
  <2>1. k \in S /\ l \in S /\ rank(k) = i - 1 /\ rank(l) = j - 1
    BY <1>2
  <2> HIDE DEF k, l
  <2>2. k \in Nat /\ l \in Nat /\ (k < l \/ k = l \/ l < k)
    BY <1>3, <2>1
  <2>3. k < l
    BY <1>1, <1>4, <2>1, <2>2
  <2> QED
    BY <2>3 DEF k, l
<1>5. ASSUME NEW k \in S PROVE \E i \in 1 .. N : Sorted(S)[i] = k
  <2> DEFINE i == rank(k) + 1
             l == Sorted(S)[i]
  <2>1. i \in 1 .. N /\ rank(k) \in Nat
    BY <1>1
  <2>2. l \in S /\ rank(l) = i - 1
    BY <1>2, <2>1
  <2>3. rank(l) = rank(k)
    BY <2>1, <2>2
  <2> HIDE DEF l
  <2>4. l \in Nat /\ k \in Nat /\ (k < l \/ k = l \/ l < k)
    BY <1>3, <2>2
  <2>5. l = k
    BY <1>1, <2>1, <2>2, <2>3, <2>4
  <2> QED
    BY <2>1, <2>5 DEF l
<1> QED
  BY <1>4, <1>5 DEF N

\* The pairs of a finite map, one per index.
LEMMA SortedPairsList ==
  ASSUME NEW f, DOMAIN f \in SUBSET Nat, IsFiniteSet(DOMAIN f)
  PROVE  /\ SortedPairs(f) \in Seq({KV(k, f[k]) : k \in DOMAIN f})
         /\ Len(SortedPairs(f)) = Cardinality(DOMAIN f)
         /\ \A i \in 1 .. Len(SortedPairs(f)) :
              SortedPairs(f)[i].k \in DOMAIN f /\ SortedPairs(f)[i] = KV(SortedPairs(f)[i].k, f[SortedPairs(f)[i].k])
         /\ \A i, j \in 1 .. Len(SortedPairs(f)) : i < j => SortedPairs(f)[i].k < SortedPairs(f)[j].k
         /\ \A k \in DOMAIN f : \E i \in 1 .. Len(SortedPairs(f)) : SortedPairs(f)[i] = KV(k, f[k])
<1> DEFINE ks == Sorted(DOMAIN f)
           c == Cardinality(DOMAIN f)
           R == {KV(k, f[k]) : k \in DOMAIN f}
<1>1. c \in Nat /\ DOMAIN ks = 1 .. c /\ \A i \in 1 .. c : ks[i] \in DOMAIN f
  BY SortedLists
<1>2. SortedPairs(f) = [i \in 1 .. c |-> KV(ks[i], f[ks[i]])]
  BY <1>1 DEF SortedPairs
<1> HIDE DEF ks, c
<1>3. \A i \in 1 .. c : KV(ks[i], f[ks[i]]) \in R
  BY <1>1
<1> HIDE DEF R
<1>4. SortedPairs(f) \in [1 .. c -> R]
  BY <1>2, <1>3
<1>5. SortedPairs(f) \in Seq(R) /\ Len(SortedPairs(f)) = c
  BY <1>1, <1>4
<1>6. \A i \in 1 .. c : SortedPairs(f)[i].k = ks[i] /\ SortedPairs(f)[i] = KV(ks[i], f[ks[i]])
  BY <1>2 DEF KV
<1>7. /\ \A i, j \in 1 .. c : i < j => ks[i] < ks[j]
      /\ \A k \in DOMAIN f : \E i \in 1 .. c : ks[i] = k
  BY SortedOrder DEF c, ks
<1>8. \A i \in 1 .. c : SortedPairs(f)[i].k \in DOMAIN f
                        /\ SortedPairs(f)[i] = KV(SortedPairs(f)[i].k, f[SortedPairs(f)[i].k])
  BY <1>1, <1>6
<1>9. \A i, j \in 1 .. c : i < j => SortedPairs(f)[i].k < SortedPairs(f)[j].k
  BY <1>6, <1>7
<1>10. \A k \in DOMAIN f : \E i \in 1 .. c : SortedPairs(f)[i] = KV(k, f[k])
  BY <1>6, <1>7
<1> QED
  BY <1>5, <1>8, <1>9, <1>10 DEF c, R

\* The last value a list gives to one of its indices is one of its values.
LEMMA LastValueType ==
  ASSUME NEW params \in Seq(Param), NEW k \in Keys(params)
  PROVE  LastValue(params, k) \in Value
<1> DEFINE S == {i \in DOMAIN params : params[i].k = k}
           c == Cardinality(S)
<1>1. Len(params) \in Nat /\ DOMAIN params = 1 .. Len(params)
  OBVIOUS
<1>2. S \in SUBSET Nat /\ S \in SUBSET (1 .. Len(params))
  BY <1>1
<1>3. IsFiniteSet(S)
  <2>1. IsFiniteSet(1 .. Len(params))
    BY <1>1, FS_Interval
  <2> HIDE DEF S
  <2> QED
    BY <1>2, <2>1, FS_Subset
<1>4. S # {}
  BY DEF Keys
<1>5. c \in Nat \ {0}
  BY <1>3, <1>4, FS_CardinalityType, FS_EmptySet
<1>6. PICK x \in S : Cardinality({j \in S : j < x}) = c - 1
  <2>1. c \in 1 .. c
    BY <1>5
  <2> HIDE DEF S
  <2> QED
    BY <1>2, <1>3, <2>1, RankExists
<1>7. {j \in S : j < x} = S \ {x}
  <2>1. IsFiniteSet(S \ {x}) /\ Cardinality(S \ {x}) = c - 1
    BY <1>3, FS_RemoveElement
  <2>2. {j \in S : j < x} \in SUBSET (S \ {x})
    BY <1>2
  <2> HIDE DEF S, c
  <2> QED
    BY <1>6, <2>1, <2>2, FS_Subset
<1>8. \A j \in S : j <= x
  BY <1>2, <1>7
<1>9. x \in DOMAIN params /\ params[x].k = k /\ \A j \in DOMAIN params : params[j].k = k => j <= x
  BY <1>8
<1>10. \E i \in DOMAIN params : LastValue(params, k) = params[i].v
  <2> DEFINE P(i) == params[i].k = k /\ \A j \in DOMAIN params : params[j].k = k => j <= i
  <2>1. \E i \in DOMAIN params : P(i)
    BY <1>9
  <2>2. (CHOOSE i \in DOMAIN params : P(i)) \in DOMAIN params
    <3> HIDE DEF P
    <3> QED
      BY <2>1
  <2> QED
    BY <2>2 DEF LastValue
<1>11. \A i \in DOMAIN params : params[i] \in Param
  OBVIOUS
<1> QED
  BY <1>10, <1>11 DEF Param

-----------------------------------------------------------------------------
(* The sizes of completed, cut and merged actions.                          *)

WholeBlock == {IndexScenario, IndexSecurityOutlets} \cup BlockIndex
Action == {a \in Seq(Param) : Len(a) \in 1 .. MaxFirmwareParamsPerAction}

\* The completed block fits.
LEMMA BlockFits ==
  /\ WholeBlock = {IndexScenario} \cup IndexLightStart .. IndexSecurityOutlets
  /\ WholeBlock \in SUBSET Nat /\ IsFiniteSet(WholeBlock)
  /\ Cardinality(WholeBlock) \in 1 .. MaxFirmwareParamsPerAction
  /\ MaxFirmwareParamsPerAction \in Nat \ {0}
<1>1. NLights \in Nat \ {0} /\ NShutters \in Nat \ {0}
  BY ParamsAssumption
<1>2. IndexLightEnd \in Nat /\ IndexLightStart \in Nat /\ 605 < IndexLightEnd /\ IndexScenario \in Nat
      /\ IndexSecurityOutlets = IndexLightEnd + 1 /\ IndexLightStart = 605 /\ IndexScenario = 590
  BY <1>1 DEF IndexLightStart, IndexLightEnd, IndexScenario, IndexSecurityOutlets
<1>3. WholeBlock = {IndexScenario} \cup IndexLightStart .. IndexSecurityOutlets /\ WholeBlock \in SUBSET Nat
  BY <1>2 DEF WholeBlock, BlockIndex
<1>4. IsFiniteSet(BlockIndex) /\ Cardinality(BlockIndex) \in Nat
  BY <1>2, FS_Interval, FS_CardinalityType DEF BlockIndex
<1>5. IndexSecurityOutlets \notin BlockIndex /\ IndexScenario \notin BlockIndex \cup {IndexSecurityOutlets}
  BY <1>2 DEF BlockIndex
<1>6. /\ IsFiniteSet(BlockIndex \cup {IndexSecurityOutlets})
      /\ Cardinality(BlockIndex \cup {IndexSecurityOutlets}) = Cardinality(BlockIndex) + 1
  BY <1>4, <1>5, FS_AddElement
<1>7. WholeBlock = (BlockIndex \cup {IndexSecurityOutlets}) \cup {IndexScenario}
  BY DEF WholeBlock
<1>8. IsFiniteSet(WholeBlock) /\ Cardinality(WholeBlock) = Cardinality(BlockIndex) + 1 + 1
  BY <1>5, <1>6, <1>7, FS_AddElement
<1>9. MaxFirmwareParamsPerAction \in Nat /\ MaxFirmwareParamsPerAction >= Cardinality(BlockIndex) + 2
  BY BlockAssumption
<1> QED
  BY <1>3, <1>4, <1>8, <1>9

\* A merged action is a whole block.
LEMMA MergeSize ==
  ASSUME NEW chunks
  PROVE  Len(MergeBlockActions(chunks)) \in 1 .. MaxFirmwareParamsPerAction
<1> DEFINE g(mm) == [k \in WholeBlock |->
               CASE k = IndexScenario        -> Num({0})
                 [] k = IndexSecurityOutlets -> Num({})
                 [] OTHER -> MergedValue(mm, k)]
<1>1. MergeBlockActions(chunks) = SortedPairs(g(MergeChunks(chunks)))
  BY DEF MergeBlockActions, WholeBlock
<1>2. ASSUME NEW mm PROVE Len(SortedPairs(g(mm))) = Cardinality(WholeBlock)
  <2>1. DOMAIN g(mm) = WholeBlock
    OBVIOUS
  <2> HIDE DEF g
  <2> QED
    BY <2>1, BlockFits, SortedPairsList
<1> HIDE DEF g
<1> QED
  BY <1>1, <1>2, BlockFits

\* A completed list: sorted by index, without duplicates, and with the whole block.
IsCompleted(b) ==
  /\ \A i, j \in DOMAIN b : i < j => b[i].k < b[j].k
  /\ WholeBlock \subseteq Keys(b)

\* Completing a request.
LEMMA ExpandType ==
  ASSUME NEW params \in Seq(Param)
  PROVE  /\ ExpandLegacyScenarioBlock(params) \in Seq(Param)
         /\ Keys(params) \subseteq WholeBlock /\ Keys(params) \cap IndexLightStart .. IndexSecurityOutlets # {} =>
              Len(ExpandLegacyScenarioBlock(params)) = Cardinality(WholeBlock)
         /\ Keys(params) \cap IndexLightStart .. IndexSecurityOutlets # {} =>
              IsCompleted(ExpandLegacyScenarioBlock(params))
<1> DEFINE D == Keys(params) \cup {IndexScenario} \cup IndexLightStart .. IndexSecurityOutlets
           f == [k \in D |-> IF k \in Keys(params) THEN LastValue(params, k)
                             ELSE IF k = IndexScenario THEN Num({0}) ELSE Num({})]
<1>1. CASE Keys(params) \cap IndexLightStart .. IndexSecurityOutlets = {}
  BY <1>1 DEF ExpandLegacyScenarioBlock
<1>2. CASE Keys(params) \cap IndexLightStart .. IndexSecurityOutlets # {}
  <2>1. ExpandLegacyScenarioBlock(params) = SortedPairs(f)
    BY <1>2 DEF ExpandLegacyScenarioBlock
  <2>2. D = Keys(params) \cup WholeBlock
    BY BlockFits
  <2>3. Keys(params) \in SUBSET Nat /\ IsFiniteSet(Keys(params))
    <3>1. Len(params) \in Nat /\ DOMAIN params = 1 .. Len(params) /\ IsFiniteSet(1 .. Len(params))
      BY FS_Interval
    <3>2. \A i \in DOMAIN params : params[i] \in Param
      OBVIOUS
    <3>3. Keys(params) \in SUBSET Nat
      BY <3>2 DEF Keys, Param
    <3>4. [i \in 1 .. Len(params) |-> params[i].k] \in Surjection(1 .. Len(params), Keys(params))
      BY <3>1 DEF Surjection, Keys
    <3>5. IsFiniteSet(Keys(params))
      BY <3>1, <3>4, FS_Surjection
    <3> QED
      BY <3>3, <3>5
  <2>4. D \in SUBSET Nat /\ IsFiniteSet(D)
    BY <2>2, <2>3, BlockFits, FS_Union
  <2>5. Num({0}) \in Value /\ Num({}) \in Value
    BY ParamsAssumption DEF Value
  <2>6. DOMAIN f = D /\ \A k \in D : f[k] \in Value
    BY <2>5, LastValueType
  <2>7. Keys(params) \subseteq WholeBlock => D = WholeBlock
    BY <2>2
  <2> HIDE DEF f, D
  <2>8. /\ SortedPairs(f) \in Seq({KV(k, f[k]) : k \in D}) /\ Len(SortedPairs(f)) = Cardinality(D)
        /\ \A i, j \in 1 .. Len(SortedPairs(f)) : i < j => SortedPairs(f)[i].k < SortedPairs(f)[j].k
        /\ \A k \in D : \E i \in 1 .. Len(SortedPairs(f)) : SortedPairs(f)[i] = KV(k, f[k])
    BY <2>4, <2>6, SortedPairsList
  <2>9. {KV(k, f[k]) : k \in D} \subseteq Param
    BY <2>4, <2>6 DEF KV, Param
  <2>10. SortedPairs(f) \in Seq(Param)
    BY <2>8, <2>9
  <2>11. IsCompleted(SortedPairs(f))
    <3>1. DOMAIN SortedPairs(f) = 1 .. Len(SortedPairs(f))
      BY <2>10
    <3>2. \A k \in WholeBlock : \E i \in DOMAIN SortedPairs(f) : SortedPairs(f)[i].k = k
      <4>1. \A k : KV(k, f[k]).k = k
        BY DEF KV
      <4> QED
        BY <2>2, <2>8, <3>1, <4>1
    <3>3. WholeBlock \subseteq Keys(SortedPairs(f))
      BY <3>2 DEF Keys
    <3> QED
      BY <2>8, <3>1, <3>3 DEF IsCompleted
  <2> QED
    BY <2>1, <2>7, <2>8, <2>10, <2>11
<1> QED
  BY <1>1, <1>2

\* A single command, completed, is an action.
LEMMA SingleFits ==
  ASSUME NEW k \in Nat, NEW v \in Value
  PROVE  ExpandLegacyScenarioBlock(<<KV(k, v)>>) \in Action
<1> DEFINE p == <<KV(k, v)>>
<1>1. p \in Seq(Param) /\ Len(p) = 1 /\ Keys(p) = {k}
  BY DEF KV, Param, Keys
<1>2. ExpandLegacyScenarioBlock(p) \in Seq(Param)
  BY <1>1, ExpandType
<1>3. CASE k \in IndexLightStart .. IndexSecurityOutlets
  <2>1. Keys(p) \subseteq WholeBlock /\ Keys(p) \cap IndexLightStart .. IndexSecurityOutlets # {}
    BY <1>1, <1>3, BlockFits
  <2>2. Len(ExpandLegacyScenarioBlock(p)) = Cardinality(WholeBlock)
    BY <1>1, <2>1, ExpandType
  <2> QED
    BY <1>2, <2>2, BlockFits DEF Action
<1>4. CASE k \notin IndexLightStart .. IndexSecurityOutlets
  <2>1. ExpandLegacyScenarioBlock(p) = p
    BY <1>1, <1>4 DEF ExpandLegacyScenarioBlock
  <2>2. 1 \in 1 .. MaxFirmwareParamsPerAction
    BY BlockFits
  <2>3. p \in Action
    <3> HIDE DEF p
    <3> QED
      BY <1>1, <2>2 DEF Action
  <2> QED
    BY <2>1, <2>3
<1> QED
  BY <1>3, <1>4

\* A part of a list: its indices from a to b, cut as ChunkExchangeParams cuts.
IsChunk(c, params) ==
  \E a, b \in 1 .. Len(params) :
    /\ c = SubSeq(params, a, b)
    /\ b - a + 1 \in 1 .. MaxFirmwareParamsPerAction
    /\ b = Len(params) \/ b - a + 1 = MaxFirmwareParamsPerAction

\* Cutting a list: no chunk is empty or too long, only the last one may be shorter than
\* the firmware accepts, and a single chunk is the whole list.
LEMMA ChunkSizes ==
  ASSUME NEW params \in Seq(Param)
  PROVE  LET chunks == ChunkExchangeParams(params, MaxFirmwareParamsPerAction) IN
         /\ Len(chunks) \in Nat /\ chunks = [c \in 1 .. Len(chunks) |-> chunks[c]]
         /\ \A c \in 1 .. Len(chunks) : IsChunk(chunks[c], params)
         /\ Len(chunks) <= 1 => \A c \in 1 .. Len(chunks) : chunks[c] = SubSeq(params, 1, Len(params))
<1> DEFINE L == Len(params)
           max == MaxFirmwareParamsPerAction
           q == (L + max - 1) \div max
           from(c) == (c - 1) * max + 1
           to(c) == IF c = q THEN L ELSE c * max
           chunks == ChunkExchangeParams(params, max)
<1>1. L \in Nat /\ max \in Nat \ {0}
  BY BlockFits
<1>2. q \in Nat /\ q * max <= L + max - 1 /\ L + max - 1 < q * max + max
  <2> HIDE DEF L, max
  <2> QED
    BY <1>1
<1>3. ASSUME NEW c \in 1 .. q
      PROVE  /\ from(c) \in 1 .. L /\ to(c) \in 1 .. L
             /\ to(c) - from(c) + 1 \in 1 .. max
             /\ to(c) = L \/ to(c) - from(c) + 1 = max
  <2> HIDE DEF q, L, max
  <2>1. CASE c = q
    BY <1>1, <1>2, <2>1
  <2>2. CASE c # q
    <3>1. c \in Nat /\ q - c \in Nat /\ q - c >= 1 /\ c >= 1
      BY <1>2, <2>2
    <3>2. (q - c) * max >= max /\ (c - 1) * max \in Nat
      BY <1>1, <3>1
    <3>3. q * max = c * max + (q - c) * max /\ c * max = (c - 1) * max + max
      BY <1>1, <1>2, <3>1
    <3>4. c * max <= L /\ c * max \in Nat
      BY <1>1, <1>2, <3>1, <3>2, <3>3
    <3> QED
      BY <1>1, <2>2, <3>2, <3>3, <3>4
  <2> QED
    BY <2>1, <2>2
<1>4. chunks = [c \in 1 .. q |-> SubSeq(params, from(c), to(c))]
  BY DEF ChunkExchangeParams
<1> HIDE DEF q, chunks
<1>5. Len(chunks) = q /\ \A c \in 1 .. q : chunks[c] = SubSeq(params, from(c), to(c))
  <2> DEFINE part(c) == SubSeq(params, from(c), to(c))
  <2>1. chunks = [c \in 1 .. q |-> part(c)] /\ q \in Nat
    BY <1>2, <1>4
  <2> HIDE DEF part
  <2>2. Len(chunks) = q
    BY <2>1
  <2>3. \A c \in 1 .. q : chunks[c] = part(c)
    BY <2>1
  <2> QED
    BY <2>2, <2>3 DEF part
<1>6. ASSUME NEW c \in 1 .. q PROVE IsChunk(chunks[c], params)
  <2> DEFINE a == from(c)
             b == to(c)
  <2>1. /\ a \in 1 .. L /\ b \in 1 .. L /\ b - a + 1 \in 1 .. max
        /\ b = L \/ b - a + 1 = max
        /\ chunks[c] = SubSeq(params, a, b)
    BY <1>3, <1>5
  <2> HIDE DEF a, b
  <2> QED
    BY <2>1 DEF IsChunk
<1>7. ASSUME q <= 1, NEW c \in 1 .. q PROVE chunks[c] = SubSeq(params, 1, L)
  <2>1. c = 1 /\ q = 1
    BY <1>2, <1>7
  <2>2. from(c) = 1 /\ to(c) = L
    BY <1>1, <2>1
  <2> QED
    BY <1>5, <2>2
<1>8. chunks = [c \in 1 .. q |-> chunks[c]]
  <2> HIDE DEF from, to
  <2> QED
    BY <1>4
<1> QED
  BY <1>2, <1>5, <1>6, <1>7, <1>8 DEF chunks

\* What is delivered is a stored action, or a merged one.
LEMMA DeliveryFits ==
  ASSUME NEW pending \in Seq(Action), NEW c \in DOMAIN coalescePendingActions(pending)
  PROVE  Len(coalescePendingActions(pending)[c]) \in 1 .. MaxFirmwareParamsPerAction
<1> DEFINE pure(i) == i \in DOMAIN pending /\ IsPureBlockAction(pending[i])
           E == {i \in DOMAIN pending : ~ (pure(i) /\ pure(i + 1))}
           first(j) == CHOOSE i \in 1 .. j : (\A x \in i .. j : pure(x)) /\ ~ pure(i - 1)
           action(j) == IF ~ pure(j) \/ first(j) = j THEN pending[j]
                        ELSE MergeBlockActions(SubSeq(pending, first(j), j))
<1>1. coalescePendingActions(pending) = [x \in DOMAIN Sorted(E) |-> action(Sorted(E)[x])]
  BY DEF coalescePendingActions
<1>2. E \in SUBSET Nat /\ IsFiniteSet(E) /\ E \in SUBSET DOMAIN pending
  <2>1. Len(pending) \in Nat /\ DOMAIN pending = 1 .. Len(pending) /\ IsFiniteSet(1 .. Len(pending))
    BY FS_Interval
  <2>2. E \in SUBSET (1 .. Len(pending))
    BY <2>1
  <2> HIDE DEF E
  <2>3. IsFiniteSet(E)
    BY <2>1, <2>2, FS_Subset
  <2>4. 1 .. Len(pending) \in SUBSET Nat
    BY <2>1
  <2> QED
    BY <2>1, <2>2, <2>3, <2>4
<1>3. c \in DOMAIN Sorted(E) /\ coalescePendingActions(pending)[c] = action(Sorted(E)[c])
  <2> HIDE DEF action, E
  <2> QED
    BY <1>1
<1>4. Sorted(E)[c] \in DOMAIN pending
  <2> HIDE DEF E
  <2> QED
    BY <1>2, <1>3, SortedLists
<1>5. ASSUME NEW j \in DOMAIN pending PROVE Len(action(j)) \in 1 .. MaxFirmwareParamsPerAction
  <2>1. pending[j] \in Action
    OBVIOUS
  <2>2. Len(pending[j]) \in 1 .. MaxFirmwareParamsPerAction
    BY <2>1 DEF Action
  <2>3. \A s : Len(MergeBlockActions(s)) \in 1 .. MaxFirmwareParamsPerAction
    BY MergeSize
  <2> HIDE DEF pure, first
  <2> QED
    BY <2>2, <2>3
<1> HIDE DEF action, E
<1> QED
  BY <1>3, <1>4, <1>5

-----------------------------------------------------------------------------
(* Induction over a list, from the least counterexample.                    *)

\* A set of numbers that is not empty has a least element.
LEMMA NatMin ==
  ASSUME NEW S \in SUBSET Nat, S # {}
  PROVE  \E x \in S : \A y \in S : x <= y
<1> DEFINE R == OpToRel(<, Nat)
<1>1. IsWellFoundedOn(R, Nat)
  BY NatLessThanWellFounded
<1>2. \A T : T \subseteq Nat /\ T # {} => \E x \in T : \A y \in T : ~(<<y, x>> \in R)
  BY <1>1, WFMin
<1>3. \A x, y \in Nat : <<y, x>> \in R <=> y < x
  BY DEF OpToRel
<1> HIDE DEF R
<1>4. PICK x \in S : \A y \in S : ~(<<y, x>> \in R)
  BY <1>2
<1>5. \A y \in S : ~ (y < x)
  BY <1>3, <1>4
<1> QED
  BY <1>5

\* Induction over the steps of a loop.
LEMMA LoopInd ==
  ASSUME NEW L \in Nat, NEW S, 0 \in S,
         \A i \in 1 .. L : i - 1 \in S => i \in S
  PROVE  \A i \in 0 .. L : i \in S
<1> DEFINE T == 0 .. L \ S
<1> SUFFICES ASSUME T # {} PROVE FALSE
  OBVIOUS
<1>1. PICK x \in T : \A y \in T : x <= y
  <2>1. T \in SUBSET Nat
    OBVIOUS
  <2> HIDE DEF T
  <2> QED
    BY <2>1, NatMin
<1>2. x \in 1 .. L
  OBVIOUS
<1>3. x - 1 \in 0 .. L /\ x - 1 \notin T
  BY <1>1, <1>2
<1> QED
  BY <1>2, <1>3

\* A loop over a list, with a state of set X and steps F: g[i] is its state after i items.
IsLoop(g, F, c, s, L) == g[0] = c /\ \A i \in 1 .. L : g[i] = F[g[i - 1]][s[i]]

\* Every loop has an execution.
LEMMA LoopExists ==
  ASSUME NEW X, NEW P, NEW F \in [X -> [P -> X]], NEW c \in X,
         NEW L \in Nat, NEW s, \A i \in 1 .. L : s[i] \in P
  PROVE  \E g \in [0 .. L -> X] : IsLoop(g, F, c, s, L)
<1> DEFINE S == {l \in 0 .. L : \E g \in [0 .. l -> X] : IsLoop(g, F, c, s, l)}
<1>1. 0 \in S
  <2> DEFINE g == [i \in 0 .. 0 |-> c]
  <2>1. g \in [0 .. 0 -> X] /\ g[0] = c /\ \A i \in 1 .. 0 : FALSE
    OBVIOUS
  <2> HIDE DEF g
  <2>2. IsLoop(g, F, c, s, 0)
    BY <2>1 DEF IsLoop
  <2>3. 0 \in 0 .. L
    OBVIOUS
  <2> QED
    BY <2>1, <2>2, <2>3
<1>2. ASSUME NEW l \in 1 .. L, l - 1 \in S PROVE l \in S
  <2>1. PICK g \in [0 .. l - 1 -> X] : IsLoop(g, F, c, s, l - 1)
    BY <1>2
  <2> DEFINE h == [i \in 0 .. l |-> IF i = l THEN F[g[l - 1]][s[l]] ELSE g[i]]
  <2>2. h \in [0 .. l -> X]
    BY <2>1
  <2>3. h[0] = c
    BY <2>1 DEF IsLoop
  <2>4. ASSUME NEW i \in 1 .. l PROVE h[i] = F[h[i - 1]][s[i]]
    <3>1. CASE i = l
      BY <3>1
    <3>2. CASE i # l
      <4>1. i \in 1 .. l - 1
        BY <3>2
      <4>2. h[i] = g[i] /\ h[i - 1] = g[i - 1]
        BY <3>2, <4>1
      <4> QED
        BY <2>1, <4>1, <4>2 DEF IsLoop
    <3> QED
      BY <3>1, <3>2
  <2> HIDE DEF h
  <2>5. IsLoop(h, F, c, s, l)
    BY <2>3, <2>4 DEF IsLoop
  <2> QED
    BY <2>2, <2>5
<1> HIDE DEF S
<1>3. \A l \in 0 .. L : l \in S
  BY <1>1, <1>2, LoopInd
<1>4. L \in S
  BY <1>3
<1> QED
  BY <1>4 DEF S

\* Two executions begin alike, and go on alike.
SameSteps(g, h, L) == g[0] = h[0] /\ \A i \in 1 .. L : g[i - 1] = h[i - 1] => g[i] = h[i]
SameStates(g, h, L) == \A i \in 0 .. L : g[i] = h[i]

\* Two executions of a loop agree.
LEMMA LoopUnique ==
  ASSUME NEW L \in Nat, NEW g, NEW h, SameSteps(g, h, L)
  PROVE  SameStates(g, h, L)
<1> DEFINE S == {i \in 0 .. L : g[i] = h[i]}
<1>0. g[0] = h[0] /\ \A i \in 1 .. L : g[i - 1] = h[i - 1] => g[i] = h[i]
  BY DEF SameSteps
<1>1. 0 \in S
  BY <1>0
<1>2. ASSUME NEW i \in 1 .. L, i - 1 \in S PROVE i \in S
  BY <1>0, <1>2
<1>3. \A i \in 0 .. L : i \in S
  <2> HIDE DEF S
  <2> QED
    BY <1>1, <1>2, LoopInd
<1> QED
  BY <1>3 DEF SameStates

-----------------------------------------------------------------------------
(* The loops of the model: g[i] is the state after i steps.                 *)

Lamps == [BlockIndex -> SUBSET Bit]
Table == [IndexLightStart .. IndexSecurityOutlets -> Value]
Entry == [cmd : SUBSET Param, lamps : Lamps]
Cabinet ==
  [lamps : Lamps, table : Table, cuts : Nat, outlets : {"untouched", "cut", "restored"}, log : Seq(Entry)]

IsMerge(g, mm, a) == g[0] = mm /\ \A i \in 1 .. Len(a) : g[i] = MergeParam(g[i - 1], a[i])
IsMergeOfActions(g, s) ==
  g[0] = EmptyMerge /\ \A i \in 1 .. Len(s) : g[i] = MergeParams(g[i - 1], s[i])
IsExecution(g, c, s) == g[0] = c /\ \A i \in 1 .. Len(s) : g[i] = ExecuteAction(g[i - 1], s[i])

\* The inner loop of MergeBlockActions.
LEMMA MergeParamsRun ==
  ASSUME NEW mm \in GoodMasks, NEW a \in Seq(Param)
  PROVE  \E g \in [0 .. Len(a) -> GoodMasks] :
           IsMerge(g, mm, a) /\ MergeParams(mm, a) = g[Len(a)]
<1> DEFINE L == Len(a)
           F == [x \in GoodMasks |-> [p \in Param |-> MergeParam(x, p)]]
           P(g) == g = [i \in 0 .. L |-> IF i = 0 THEN mm ELSE MergeParam(g[i - 1], a[i])]
           c == CHOOSE g : P(g)
<1>1. F \in [GoodMasks -> [Param -> GoodMasks]]
  BY GoodStep
<1>2. L \in Nat /\ mm \in GoodMasks /\ \A i \in 1 .. L : a[i] \in Param
  OBVIOUS
<1>3. PICK h \in [0 .. L -> GoodMasks] : IsLoop(h, F, mm, a, L)
  <2> HIDE DEF F, L
  <2> QED
    BY <1>1, <1>2, LoopExists
<1>4. h[0] = mm /\ \A i \in 1 .. L : h[i] = MergeParam(h[i - 1], a[i])
  <2>1. \A i \in 1 .. L : h[i - 1] \in GoodMasks
    <3>1. \A i \in 1 .. L : i - 1 \in 0 .. L
      BY <1>2
    <3> QED
      BY <3>1
  <2> HIDE DEF L
  <2> QED
    BY <1>2, <1>3, <2>1 DEF IsLoop
<1>5. P(h)
  <2>1. h = [i \in 0 .. L |-> h[i]]
    OBVIOUS
  <2>2. \A i \in 0 .. L : h[i] = IF i = 0 THEN mm ELSE MergeParam(h[i - 1], a[i])
    BY <1>2, <1>4
  <2> HIDE DEF L
  <2> QED
    BY <2>1, <2>2
<1>6. P(c)
  <2> HIDE DEF P
  <2> QED
    BY <1>5
<1>7. MergeParams(mm, a) = c[L]
  BY DEF MergeParams
<1> HIDE DEF c, L
<1>8. c[0] = mm /\ \A i \in 1 .. L : c[i] = MergeParam(c[i - 1], a[i])
  BY <1>2, <1>6
<1>9. SameSteps(c, h, L)
  BY <1>4, <1>8 DEF SameSteps
<1>10. SameStates(c, h, L)
  BY <1>2, <1>9, LoopUnique
<1>11. c[L] = h[L]
  BY <1>2, <1>10 DEF SameStates
<1>12. MergeParams(mm, a) = h[L]
  BY <1>7, <1>11
<1> QED
  BY <1>4, <1>12 DEF L, IsMerge

LEMMA MergeParamsGood ==
  ASSUME NEW mm \in GoodMasks, NEW a \in Seq(Param)
  PROVE  MergeParams(mm, a) \in GoodMasks
<1>1. PICK g \in [0 .. Len(a) -> GoodMasks] : IsMerge(g, mm, a) /\ MergeParams(mm, a) = g[Len(a)]
  BY MergeParamsRun
<1>2. Len(a) \in 0 .. Len(a)
  OBVIOUS
<1> QED
  BY <1>1, <1>2

\* The outer loop of MergeBlockActions.
LEMMA MergeChunksRun ==
  ASSUME NEW s \in Seq(Seq(Param))
  PROVE  \E g \in [0 .. Len(s) -> GoodMasks] :
           IsMergeOfActions(g, s) /\ MergeChunks(s) = g[Len(s)]
<1> DEFINE L == Len(s)
           F == [x \in GoodMasks |-> [p \in Seq(Param) |-> MergeParams(x, p)]]
           P(g) == g = [i \in 0 .. L |-> IF i = 0 THEN EmptyMerge ELSE MergeParams(g[i - 1], s[i])]
           c == CHOOSE g : P(g)
<1>1. F \in [GoodMasks -> [Seq(Param) -> GoodMasks]]
  BY MergeParamsGood
<1>2. L \in Nat /\ EmptyMerge \in GoodMasks /\ \A i \in 1 .. L : s[i] \in Seq(Param)
  BY GoodStart
<1>3. PICK h \in [0 .. L -> GoodMasks] : IsLoop(h, F, EmptyMerge, s, L)
  <2> HIDE DEF F, L
  <2> QED
    BY <1>1, <1>2, LoopExists
<1>4. h[0] = EmptyMerge /\ \A i \in 1 .. L : h[i] = MergeParams(h[i - 1], s[i])
  <2>1. \A i \in 1 .. L : h[i - 1] \in GoodMasks
    <3>1. \A i \in 1 .. L : i - 1 \in 0 .. L
      BY <1>2
    <3> QED
      BY <3>1
  <2> HIDE DEF L
  <2> QED
    BY <1>2, <1>3, <2>1 DEF IsLoop
<1>5. P(h)
  <2>1. h = [i \in 0 .. L |-> h[i]]
    OBVIOUS
  <2>2. \A i \in 0 .. L : h[i] = IF i = 0 THEN EmptyMerge ELSE MergeParams(h[i - 1], s[i])
    BY <1>2, <1>4
  <2> HIDE DEF L
  <2> QED
    BY <2>1, <2>2
<1>6. P(c)
  <2> HIDE DEF P
  <2> QED
    BY <1>5
<1>7. MergeChunks(s) = c[L]
  BY DEF MergeChunks
<1> HIDE DEF c, L
<1>8. c[0] = EmptyMerge /\ \A i \in 1 .. L : c[i] = MergeParams(c[i - 1], s[i])
  BY <1>2, <1>6
<1>9. SameSteps(c, h, L)
  BY <1>4, <1>8 DEF SameSteps
<1>10. SameStates(c, h, L)
  BY <1>2, <1>9, LoopUnique
<1>11. c[L] = h[L]
  BY <1>2, <1>10 DEF SameStates
<1>12. MergeChunks(s) = h[L]
  BY <1>7, <1>11
<1> QED
  BY <1>4, <1>12 DEF L, IsMergeOfActions

-----------------------------------------------------------------------------
(* The cabinet.                                                             *)

\* The parameters of an action, as a set.
LEMMA InAction ==
  ASSUME NEW a, NEW x
  PROVE  x \in ToSet(a) <=> \E i \in DOMAIN a : a[i] = x
BY DEF ToSet

OutletsAlone == KV(IndexSecurityOutlets, Num({}))

\* The index of the outlets is no lamp, and their values differ.
LEMMA OutletsApart ==
  /\ IndexSecurityOutlets \notin BlockIndex \cup {IndexScenario}
  /\ IndexSecurityOutlets \in Nat
  /\ Num({}) # Num({0}) /\ Num({}) # Num({1}) /\ Num({0}) # Num({1})
  /\ Num({}) \in Value /\ Num({0}) \in Value
  /\ OutletsAlone.k = IndexSecurityOutlets /\ OutletsAlone.v = Num({})
  /\ Cut.k = IndexSecurityOutlets /\ Cut.v = Num({0})
  /\ Trigger.k = IndexScenario
<1>1. IndexLightEnd \in Nat /\ IndexLightStart = 605 /\ IndexLightStart < IndexLightEnd
  BY BlockBounds
<1>2. /\ IndexSecurityOutlets \notin BlockIndex \cup {IndexScenario}
      /\ IndexSecurityOutlets \in Nat
  BY <1>1 DEF IndexSecurityOutlets, BlockIndex, IndexScenario
<1>3. Num({}) # Num({0}) /\ Num({}) # Num({1}) /\ Num({0}) # Num({1})
  <2>1. Num({}).bits = {} /\ Num({0}).bits = {0} /\ Num({1}).bits = {1}
    BY ValueFields
  <2>2. 0 \in {0} /\ 0 \notin {1} /\ 1 \in {1} /\ 0 \notin {} /\ 1 \notin {}
    OBVIOUS
  <2> QED
    BY <2>1, <2>2
<1>4. Num({}) \in Value /\ Num({0}) \in Value
  BY ParamsAssumption DEF Value
<1>5. /\ OutletsAlone.k = IndexSecurityOutlets /\ OutletsAlone.v = Num({})
      /\ Cut.k = IndexSecurityOutlets /\ Cut.v = Num({0})
      /\ Trigger.k = IndexScenario
  BY DEF OutletsAlone, Cut, Trigger, KV
<1> QED
  BY <1>2, <1>3, <1>4, <1>5

\* Indices of the block come before the outlets.
LEMMA BlockOrder ==
  /\ \A k \in BlockIndex : k \in Nat /\ k < IndexSecurityOutlets
  /\ BlockIndex \subseteq IndexLightStart .. IndexSecurityOutlets
  /\ IndexSecurityOutlets \in IndexLightStart .. IndexSecurityOutlets
  /\ IndexSecurityOutlets \in WholeBlock /\ IndexSecurityOutlets \in Nat
  /\ IndexScenario \notin IndexLightStart .. IndexSecurityOutlets
BY BlockBounds DEF BlockIndex, IndexSecurityOutlets, WholeBlock, IndexScenario

\* Running the block of a table, index by index.
LEMMA RunBlockType ==
  ASSUME NEW f \in Lamps, NEW T \in Table
  PROVE  /\ RunBlock(f, T) \in Lamps
         /\ \A k \in BlockIndex :
              RunBlock(f, T)[k] = IF k < blockOpposite[k]
                                  THEN (f[k] \cup T[k].bits) \ T[blockOpposite[k]].bits
                                  ELSE (f[k] \ T[blockOpposite[k]].bits) \cup T[k].bits
<1>1. \A k \in BlockIndex : T[k].bits \subseteq Bit /\ f[k] \subseteq Bit /\ blockOpposite[k] \in BlockIndex
  <2> SUFFICES ASSUME NEW k \in BlockIndex
               PROVE  T[k].bits \subseteq Bit /\ f[k] \subseteq Bit /\ blockOpposite[k] \in BlockIndex
    OBVIOUS
  <2>1. T[k] \in Value
    BY BlockOrder DEF Table
  <2>2. T[k].bits \subseteq Bit
    BY <2>1, ValueFields DEF Value
  <2> QED
    BY <2>2, OppositeIsPairing DEF Lamps
<1> QED
  BY <1>1 DEF RunBlock, Lamps

\* Running it once more changes nothing.
LEMMA RunTwice ==
  ASSUME NEW f \in Lamps, NEW T \in Table
  PROVE  RunBlock(RunBlock(f, T), T) = RunBlock(f, T)
<1> DEFINE g == RunBlock(f, T)
           h == RunBlock(g, T)
<1>1. /\ g \in Lamps
      /\ \A k \in BlockIndex :
           g[k] = IF k < blockOpposite[k] THEN (f[k] \cup T[k].bits) \ T[blockOpposite[k]].bits
                  ELSE (f[k] \ T[blockOpposite[k]].bits) \cup T[k].bits
  BY RunBlockType
<1> HIDE DEF g
<1>2. /\ h \in Lamps
      /\ \A k \in BlockIndex :
           h[k] = IF k < blockOpposite[k] THEN (g[k] \cup T[k].bits) \ T[blockOpposite[k]].bits
                  ELSE (g[k] \ T[blockOpposite[k]].bits) \cup T[k].bits
  BY <1>1, RunBlockType
<1> HIDE DEF h
<1>3. ASSUME NEW k \in BlockIndex PROVE h[k] = g[k]
  BY <1>1, <1>2
<1> QED
  BY <1>1, <1>2, <1>3 DEF Lamps, g, h

\* The table keeps its type.
LEMMA WrittenType ==
  ASSUME NEW T \in Table, NEW a \in Seq(Param)
  PROVE  Written(T, a) \in Table
<1>1. \A k \in Keys(a) : LastValue(a, k) \in Value
  BY LastValueType
<1> QED
  BY <1>1 DEF Written, Table

\* An action that does not concern the block leaves it as it is.
LEMMA WrittenNone ==
  ASSUME NEW T \in Table, NEW a, Keys(a) \cap IndexLightStart .. IndexSecurityOutlets = {}
  PROVE  Written(T, a) = T
<1>1. \A k \in IndexLightStart .. IndexSecurityOutlets : k \notin Keys(a)
  OBVIOUS
<1> QED
  BY <1>1 DEF Written, Table

\* The indices of a completed list are different.
LEMMA KeysApart ==
  ASSUME NEW a \in Seq(Param), IsCompleted(a)
  PROVE  \A i, j \in DOMAIN a : a[i].k = a[j].k => i = j
<1> SUFFICES ASSUME NEW i \in DOMAIN a, NEW j \in DOMAIN a, a[i].k = a[j].k, i # j PROVE FALSE
  OBVIOUS
<1>1. i < j \/ j < i
  OBVIOUS
<1>2. a[i] \in Param /\ a[j] \in Param
  OBVIOUS
<1>3. a[i].k \in Nat /\ a[j].k \in Nat
  BY <1>2 DEF Param
<1>4. (i < j => a[i].k < a[j].k) /\ (j < i => a[j].k < a[i].k)
  BY DEF IsCompleted
<1> QED
  BY <1>1, <1>3, <1>4

\* The last value such a list gives to an index is the only one.
LEMMA OnlyValue ==
  ASSUME NEW a \in Seq(Param), IsCompleted(a), NEW i \in DOMAIN a
  PROVE  LastValue(a, a[i].k) = a[i].v
<1> DEFINE k == a[i].k
           P(j) == a[j].k = k /\ \A l \in DOMAIN a : a[l].k = k => l <= j
<1>1. \A j \in DOMAIN a : a[j].k = k => j = i
  BY KeysApart
<1>2. i \in Nat
  OBVIOUS
<1>3. P(i) /\ \A j \in DOMAIN a : P(j) => j = i
  BY <1>1, <1>2
<1>4. (CHOOSE j \in DOMAIN a : P(j)) = i
  <2> HIDE DEF P
  <2> QED
    BY <1>3
<1>5. LastValue(a, k) = a[CHOOSE j \in DOMAIN a : P(j)].v
  BY DEF LastValue
<1> QED
  BY <1>4, <1>5

\* A completed list replaces the whole block of the table.
LEMMA WrittenAll ==
  ASSUME NEW a \in Seq(Param), IsCompleted(a), NEW T
  PROVE  /\ \A i \in DOMAIN a : a[i].k \in IndexLightStart .. IndexSecurityOutlets => Written(T, a)[a[i].k] = a[i].v
         /\ \A U : Written(T, a) = Written(U, a)
<1>1. \A k \in IndexLightStart .. IndexSecurityOutlets : k \in Keys(a)
  BY BlockFits DEF IsCompleted
<1>2. \A U : Written(U, a) = [k \in IndexLightStart .. IndexSecurityOutlets |-> LastValue(a, k)]
  BY <1>1 DEF Written
<1>3. ASSUME NEW i \in DOMAIN a, a[i].k \in IndexLightStart .. IndexSecurityOutlets
      PROVE  Written(T, a)[a[i].k] = a[i].v
  <2>1. Written(T, a)[a[i].k] = LastValue(a, a[i].k)
    BY <1>2, <1>3
  <2> QED
    BY <2>1, OnlyValue
<1> QED
  BY <1>2, <1>3

\* What executing an action does.
LEMMA ExecuteEffect ==
  ASSUME NEW c \in Cabinet, NEW a \in Seq(Param)
  PROVE  LET t == Written(c.table, a)
             x == ExecuteAction(c, a)
         IN  /\ x \in Cabinet /\ x.table = t
             /\ x.lamps = IF Trigger \in ToSet(a) THEN RunBlock(c.lamps, t) ELSE c.lamps
             /\ x.cuts = c.cuts + IF Trigger \in ToSet(a) /\ t[IndexSecurityOutlets] = Num({0}) THEN 1 ELSE 0
             /\ x.outlets = IF Trigger \in ToSet(a) /\ t[IndexSecurityOutlets] = Num({0}) THEN "cut"
                            ELSE IF Trigger \in ToSet(a) /\ t[IndexSecurityOutlets] = Num({1}) THEN "restored"
                            ELSE c.outlets
             /\ x.log = IF Besides(a) = {} THEN c.log
                        ELSE Append(c.log, [cmd |-> Besides(a), lamps |-> c.lamps])
<1> DEFINE t == Written(c.table, a)
           f == IF Trigger \in ToSet(a) THEN RunBlock(c.lamps, t) ELSE c.lamps
           entry == [cmd |-> Besides(a), lamps |-> c.lamps]
           l == IF Besides(a) = {} THEN c.log ELSE Append(c.log, entry)
           u == c.cuts + IF Trigger \in ToSet(a) /\ t[IndexSecurityOutlets] = Num({0}) THEN 1 ELSE 0
           o == IF Trigger \in ToSet(a) /\ t[IndexSecurityOutlets] = Num({0}) THEN "cut"
                ELSE IF Trigger \in ToSet(a) /\ t[IndexSecurityOutlets] = Num({1}) THEN "restored"
                ELSE c.outlets
<1>1. /\ c.cuts \in Nat /\ c.outlets \in {"untouched", "cut", "restored"} /\ c.lamps \in Lamps
      /\ c.table \in Table /\ c.log \in Seq(Entry)
  BY DEF Cabinet
<1>2. ExecuteAction(c, a) = [lamps |-> f, table |-> t, cuts |-> u, outlets |-> o, log |-> l]
  BY DEF ExecuteAction
<1>3. t \in Table
  BY <1>1, WrittenType
<1>4. f \in Lamps
  BY <1>1, <1>3, RunBlockType
<1>5. u \in Nat /\ o \in {"untouched", "cut", "restored"}
  BY <1>1
<1>6. Besides(a) \in SUBSET Param
  <2>1. \A x \in ToSet(a) : x \in Param
    BY InAction
  <2> QED
    BY <2>1 DEF Besides
<1>7. entry \in Entry
  BY <1>1, <1>6 DEF Entry
<1>8. l \in Seq(Entry)
  <2> DEFINE e == c.log
  <2>1. e \in Seq(Entry)
    BY <1>1
  <2> HIDE DEF entry, e
  <2>2. Append(e, entry) \in Seq(Entry)
    BY <1>7, <2>1
  <2> QED
    BY <2>1, <2>2 DEF e
<1> HIDE DEF t, f, l, u, o
<1>9. /\ ExecuteAction(c, a) \in Cabinet
      /\ ExecuteAction(c, a).lamps = f /\ ExecuteAction(c, a).table = t
      /\ ExecuteAction(c, a).cuts = u /\ ExecuteAction(c, a).outlets = o /\ ExecuteAction(c, a).log = l
  BY <1>2, <1>3, <1>4, <1>5, <1>8 DEF Cabinet
<1> QED
  BY <1>9 DEF t, f, l, u, o

-----------------------------------------------------------------------------
(* Light and shutter actions: one by one, and merged.                       *)

\* Lamps and shutters stay where they are when the block of the table is run again.
Settled(c) == RunBlock(c.lamps, c.table) = c.lamps

\* A completed action that only concerns lamps and shutters leaves the outlets alone; with
\* the trigger, it runs its masks and does nothing else.
LEMMA PureEffect ==
  ASSUME NEW c \in Cabinet, NEW a \in Seq(Param), IsCompleted(a), IsPureBlockAction(a)
  PROVE  LET x == ExecuteAction(c, a)
         IN  /\ x \in Cabinet /\ x.table[IndexSecurityOutlets] = Num({})
             /\ x.cuts = c.cuts /\ x.outlets = c.outlets
             /\ Trigger \in ToSet(a) =>
                  x.lamps = RunBlock(c.lamps, Written(c.table, a)) /\ x.log = c.log /\ Settled(x)
<1> DEFINE t == Written(c.table, a)
           x == ExecuteAction(c, a)
<1>1. /\ x \in Cabinet /\ x.table = t
      /\ x.lamps = IF Trigger \in ToSet(a) THEN RunBlock(c.lamps, t) ELSE c.lamps
      /\ x.cuts = c.cuts + IF Trigger \in ToSet(a) /\ t[IndexSecurityOutlets] = Num({0}) THEN 1 ELSE 0
      /\ x.outlets = IF Trigger \in ToSet(a) /\ t[IndexSecurityOutlets] = Num({0}) THEN "cut"
                     ELSE IF Trigger \in ToSet(a) /\ t[IndexSecurityOutlets] = Num({1}) THEN "restored"
                     ELSE c.outlets
      /\ x.log = IF Besides(a) = {} THEN c.log
                 ELSE Append(c.log, [cmd |-> Besides(a), lamps |-> c.lamps])
  BY ExecuteEffect
<1>2. PICK u \in DOMAIN a : a[u].k = IndexSecurityOutlets
  BY BlockOrder DEF IsCompleted, Keys
<1>3. a[u].v = Num({})
  BY <1>2, OutletsApart DEF IsPureBlockAction, OutletsAlone
<1>4. t[IndexSecurityOutlets] = Num({})
  <2>1. t[a[u].k] = a[u].v
    BY <1>2, BlockOrder, WrittenAll
  <2> QED
    BY <1>2, <1>3, <2>1
<1>5. c.cuts \in Nat /\ c.lamps \in Lamps /\ c.table \in Table
  BY DEF Cabinet
<1>6. ASSUME Trigger \in ToSet(a) PROVE Besides(a) = {}
  <2>1. PICK j \in DOMAIN a : a[j] = Trigger
    BY <1>6, InAction
  <2>2. \A i \in DOMAIN a : a[i].k = IndexScenario => a[i] = Trigger
    BY <2>1, KeysApart, OutletsApart
  <2>3. \A i \in DOMAIN a : a[i].k \in BlockIndex \/ a[i] = Trigger \/ a[i] = OutletsAlone
    BY <2>2 DEF IsPureBlockAction, OutletsAlone
  <2> QED
    BY <2>3, InAction DEF Besides, OutletsAlone
<1>7. ASSUME Trigger \in ToSet(a) PROVE Settled(x)
  <2>1. t \in Table
    BY <1>5, WrittenType
  <2> HIDE DEF t, x
  <2>2. RunBlock(RunBlock(c.lamps, t), t) = RunBlock(c.lamps, t)
    BY <1>5, <2>1, RunTwice
  <2> QED
    BY <1>1, <1>7, <2>2 DEF Settled
<1> HIDE DEF t, x
<1>8. x.cuts = c.cuts /\ x.outlets = c.outlets
  BY <1>1, <1>4, <1>5, OutletsApart
<1> QED
  BY <1>1, <1>4, <1>6, <1>7, <1>8 DEF t, x

\* A list of parameters that gives no lamp or shutter a text.
NumericAction(a) == \A i \in DOMAIN a : a[i].k \in BlockIndex => a[i].v.type = "num"

\* Running a completed numeric action and merging it go together: the block of the table
\* is obeyed in the order of the parameters.
LEMMA ReachedRun ==
  ASSUME NEW mm \in GoodMasks, NEW l \in Lamps, NEW T \in Table,
         NEW a \in Seq(Param), IsCompleted(a), NumericAction(a),
         NEW f, Reached(f, mm, l)
  PROVE  Reached(f, MergeParams(mm, a), RunBlock(l, Written(T, a)))
<1> DEFINE W == Written(T, a)
           told(i, k) == IF \E j \in 1 .. i : a[j].k = k THEN W[k].bits ELSE {}
           part(i) == [k \in BlockIndex |->
                         IF k < blockOpposite[k]
                         THEN (l[k] \cup told(i, k)) \ told(i, blockOpposite[k])
                         ELSE (l[k] \ told(i, blockOpposite[k])) \cup told(i, k)]
<1>1. PICK g \in [0 .. Len(a) -> GoodMasks] : IsMerge(g, mm, a) /\ MergeParams(mm, a) = g[Len(a)]
  BY MergeParamsRun
<1>2. Len(a) \in Nat /\ Len(a) \in 0 .. Len(a) /\ DOMAIN a = 1 .. Len(a)
  OBVIOUS
<1>3. \A k \in BlockIndex : k \in Nat /\ blockOpposite[k] \in BlockIndex /\ blockOpposite[k] # k
                            /\ blockOpposite[blockOpposite[k]] = k
  BY OppositeIsPairing, BlockOrder
<1>4. W \in Table
  BY WrittenType
<1>5. \A i \in DOMAIN a : a[i].k \in BlockIndex => W[a[i].k] = a[i].v
  BY BlockOrder, WrittenAll
<1> HIDE DEF W
<1>6. ASSUME NEW i \in 0 .. Len(a) PROVE part(i) \in Lamps
  <2>1. \A k \in BlockIndex : told(i, k) \subseteq Bit /\ l[k] \subseteq Bit
    <3> SUFFICES ASSUME NEW k \in BlockIndex PROVE told(i, k) \subseteq Bit /\ l[k] \subseteq Bit
      OBVIOUS
    <3>1. W[k] \in Value
      BY <1>4, BlockOrder DEF Table
    <3>2. W[k].bits \subseteq Bit
      BY <3>1, ValueFields DEF Value
    <3> QED
      BY <3>2 DEF Lamps
  <2> HIDE DEF told
  <2> QED
    BY <1>3, <2>1 DEF Lamps
<1> DEFINE S == {i \in 0 .. Len(a) : Reached(f, g[i], part(i))}
<1>7. 0 \in S
  <2>1. \A k : told(0, k) = {}
    OBVIOUS
  <2>2. part(0) = l
    <3> HIDE DEF told
    <3>1. \A k \in BlockIndex : part(0)[k] = l[k]
      BY <1>3, <2>1
    <3> QED
      BY <3>1 DEF Lamps
  <2> HIDE DEF part
  <2> QED
    BY <1>1, <1>2, <2>2 DEF IsMerge
<1>8. ASSUME NEW i \in 1 .. Len(a), i - 1 \in S PROVE i \in S
  <2> DEFINE x == g[i - 1]
             p == a[i]
  <2>1. x \in GoodMasks /\ p \in Param /\ i - 1 \in 0 .. Len(a) /\ i \in 0 .. Len(a)
    BY <1>2
  <2>2. p.k \in BlockIndex => p.v.type = "num" /\ W[p.k].bits = p.v.bits
    BY <1>2, <1>5 DEF NumericAction
  <2>3. g[i] = MergeParam(x, p) /\ Reached(f, x, part(i - 1))
    BY <1>1, <1>8 DEF IsMerge
  <2>4. p.k \in Nat
    BY <2>1 DEF Param
  <2>5. \A k : told(i, k) = IF p.k = k THEN W[k].bits ELSE told(i - 1, k)
    <3>1. 1 .. i = (1 .. i - 1) \cup {i}
      OBVIOUS
    <3> QED
      BY <3>1
  <2>6. ASSUME NEW k \in Nat, p.k <= k PROVE told(i - 1, k) = {}
    <3>1. ASSUME NEW j \in 1 .. i - 1 PROVE a[j].k # k
      <4>1. j \in DOMAIN a /\ i \in DOMAIN a /\ j < i
        BY <1>2
      <4>2. a[j].k < p.k
        BY <4>1 DEF IsCompleted
      <4>3. a[j] \in Param
        BY <4>1
      <4> QED
        BY <2>4, <2>6, <4>2, <4>3 DEF Param
    <3> QED
      BY <3>1
  <2> HIDE DEF told, x, p
  <2>7. ASSUME NEW k \in BlockIndex
        PROVE  part(i)[k] = IF p.k = k THEN part(i - 1)[k] \cup p.v.bits
                            ELSE IF p.k = blockOpposite[k] THEN part(i - 1)[k] \ p.v.bits
                            ELSE part(i - 1)[k]
    <3> DEFINE o == blockOpposite[k]
               y == part(i - 1)[k]
               z == part(i)[k]
    <3>1. /\ k \in Nat /\ o \in Nat /\ o # k /\ o \in BlockIndex
          /\ y = IF k < o THEN (l[k] \cup told(i - 1, k)) \ told(i - 1, o) ELSE (l[k] \ told(i - 1, o)) \cup told(i - 1, k)
          /\ z = IF k < o THEN (l[k] \cup told(i, k)) \ told(i, o) ELSE (l[k] \ told(i, o)) \cup told(i, k)
      BY <1>3
    <3> HIDE DEF o, y, z, part
    <3>2. CASE p.k = k
      <4>1. told(i, k) = p.v.bits /\ told(i, o) = told(i - 1, o) /\ told(i - 1, k) = {}
        BY <2>2, <2>5, <2>6, <3>1, <3>2
      <4>2. k < o => told(i - 1, o) = {}
        BY <2>6, <3>1, <3>2
      <4>3. z = y \cup p.v.bits
        BY <3>1, <4>1, <4>2
      <4> QED
        BY <3>2, <4>3 DEF y, z
    <3>3. CASE p.k = o
      <4>1. told(i, o) = p.v.bits /\ told(i, k) = told(i - 1, k) /\ told(i - 1, o) = {}
        BY <2>2, <2>5, <2>6, <3>1, <3>3
      <4>2. ~ (k < o) => told(i - 1, k) = {}
        <5>1. ~ (k < o) => o <= k
          BY <3>1
        <5> QED
          BY <2>6, <3>1, <3>3, <5>1
      <4>3. z = y \ p.v.bits
        BY <3>1, <4>1, <4>2
      <4> QED
        BY <3>1, <3>3, <4>3 DEF o, y, z
    <3>4. CASE p.k # k /\ p.k # o
      <4>1. told(i, k) = told(i - 1, k) /\ told(i, o) = told(i - 1, o)
        BY <2>5, <3>4
      <4>2. z = y
        BY <3>1, <4>1
      <4> QED
        BY <3>4, <4>2 DEF o, y, z
    <3> QED
      BY <3>2, <3>3, <3>4
  <2>8. part(i) = ObeyIndex(part(i - 1), p)
    <3> DEFINE q == part(i - 1)
               r == part(i)
    <3>1. q \in Lamps /\ r \in Lamps
      BY <1>6, <2>1
    <3>2. \A k \in BlockIndex : r[k] = IF p.k = k THEN q[k] \cup p.v.bits
                                       ELSE IF p.k = blockOpposite[k] THEN q[k] \ p.v.bits
                                       ELSE q[k]
      BY <2>7
    <3>3. p \in Param
      BY <2>1
    <3> HIDE DEF q, r, part, p
    <3>4. q \in [BlockIndex -> SUBSET Bit]
      BY <3>1 DEF Lamps
    <3>5. ObeyIndex(q, p) \in [BlockIndex -> SUBSET Bit]
      BY <3>3, <3>4, LampsByIndex
    <3>6. \A k \in BlockIndex : r[k] = ObeyIndex(q, p)[k]
      <4> TAKE k \in BlockIndex
      <4>1. ObeyedAt(ObeyIndex(q, p)[k], q, p, k)
        BY <3>3, <3>4, LampsAt
      <4> QED
        BY <3>2, <4>1 DEF ObeyedAt
    <3>7. r = ObeyIndex(q, p)
      BY <3>1, <3>5, <3>6 DEF Lamps
    <3> QED
      BY <3>7 DEF q, r
  <2>9. part(i - 1) \in [BlockIndex -> SUBSET Bit]
    BY <1>6, <2>1 DEF Lamps
  <2> HIDE DEF part
  <2>10. Reached(f, MergeParam(x, p), ObeyIndex(part(i - 1), p))
    BY <2>1, <2>2, <2>3, <2>9, ReachedStep
  <2> QED
    BY <2>1, <2>3, <2>8, <2>10
<1>9. \A i \in 0 .. Len(a) : i \in S
  <2> HIDE DEF S
  <2> QED
    BY <1>2, <1>7, <1>8, LoopInd
<1>10. part(Len(a)) = RunBlock(l, W)
  <2>1. \A k \in BlockIndex : \E j \in 1 .. Len(a) : a[j].k = k
    BY <1>2 DEF IsCompleted, WholeBlock, Keys
  <2>2. \A k \in BlockIndex : told(Len(a), k) = W[k].bits
    BY <2>1
  <2> HIDE DEF told
  <2> QED
    BY <1>3, <2>2 DEF RunBlock
<1> HIDE DEF part
<1> QED
  BY <1>1, <1>2, <1>9, <1>10 DEF W

\* The block MergeBlockActions returns for maps mm.
Block(mm) ==
  SortedPairs([k \in {IndexScenario, IndexSecurityOutlets} \cup BlockIndex |->
        CASE k = IndexScenario        -> Num({0})
          [] k = IndexSecurityOutlets -> Num({})
          [] OTHER -> MergedValue(mm, k)])

\* It is a completed action on lamps and shutters, with the trigger.
LEMMA BlockIsPure ==
  ASSUME NEW mm \in GoodMasks
  PROVE  /\ Block(mm) \in Seq(Param) /\ Trigger \in ToSet(Block(mm))
         /\ IsCompleted(Block(mm)) /\ IsPureBlockAction(Block(mm))
         /\ \A i \in DOMAIN Block(mm) :
              Block(mm)[i].k \in BlockIndex => Block(mm)[i].v = MergedValue(mm, Block(mm)[i].k)
<1> DEFINE f == [k \in WholeBlock |->
                   CASE k = IndexScenario        -> Num({0})
                     [] k = IndexSecurityOutlets -> Num({})
                     [] OTHER -> MergedValue(mm, k)]
           b == SortedPairs(f)
<1>1. Block(mm) = b
  BY DEF Block, WholeBlock
<1>2. DOMAIN f = WholeBlock /\ WholeBlock \in SUBSET Nat /\ IsFiniteSet(WholeBlock)
  BY BlockFits
<1>3. /\ IndexScenario \notin BlockIndex /\ BlockIndex # {}
      /\ IndexScenario # IndexSecurityOutlets /\ IndexSecurityOutlets \notin BlockIndex
  BY BlockBounds, OutletsApart DEF BlockIndex, IndexScenario
<1>4. /\ f[IndexScenario] = Num({0}) /\ f[IndexSecurityOutlets] = Num({})
      /\ \A k \in BlockIndex : f[k] = MergedValue(mm, k)
  BY <1>3 DEF WholeBlock
<1>5. \A k \in BlockIndex : MergedValue(mm, k) \in Value
  <2> SUFFICES ASSUME NEW k \in BlockIndex PROVE MergedValue(mm, k) \in Value
    OBVIOUS
  <2>1. mm.masks[k] \in SUBSET Bit /\ \E t \in Text \cup {""} : mm.raw[k] = Raw(t)
    BY DEF GoodMasks, Masks
  <2>2. CASE mm.raw[k] = NoRaw
    BY <2>1, <2>2 DEF MergedValue, Value
  <2>3. CASE mm.raw[k] # NoRaw
    BY <2>1, <2>3 DEF MergedValue, Value, NoRaw
  <2> QED
    BY <2>2, <2>3
<1>6. \A k \in WholeBlock : f[k] \in Value
  BY <1>4, <1>5, OutletsApart DEF WholeBlock
<1> HIDE DEF f
<1>7. /\ b \in Seq({KV(k, f[k]) : k \in DOMAIN f})
      /\ \A i \in 1 .. Len(b) : b[i].k \in DOMAIN f /\ b[i] = KV(b[i].k, f[b[i].k])
      /\ \A i, j \in 1 .. Len(b) : i < j => b[i].k < b[j].k
      /\ \A k \in DOMAIN f : \E i \in 1 .. Len(b) : b[i] = KV(k, f[k])
  BY <1>2, SortedPairsList
<1> HIDE DEF b
<1>8. b \in Seq(Param) /\ DOMAIN b = 1 .. Len(b)
  <2>1. \A k \in WholeBlock : KV(k, f[k]) \in Param
    BY <1>2, <1>6 DEF KV, Param
  <2>2. {KV(k, f[k]) : k \in DOMAIN f} \subseteq Param
    BY <1>2, <2>1
  <2> QED
    BY <1>7, <2>2
<1>9. \A i \in DOMAIN b : b[i].k \in WholeBlock /\ b[i].v = f[b[i].k] /\ b[i] = KV(b[i].k, f[b[i].k])
  BY <1>2, <1>7, <1>8 DEF KV
<1>10. \A k \in WholeBlock : \E i \in DOMAIN b : b[i] = KV(k, f[k]) /\ b[i].k = k
  BY <1>2, <1>7, <1>8 DEF KV
<1>11. Trigger \in ToSet(b)
  <2>1. IndexScenario \in WholeBlock
    BY DEF WholeBlock
  <2> QED
    BY <1>4, <1>10, <2>1, InAction DEF Trigger
<1>12. \A i \in DOMAIN b : b[i].k \in BlockIndex => b[i].v = MergedValue(mm, b[i].k)
  BY <1>4, <1>9
<1>13. \A k \in BlockIndex : \E i \in DOMAIN b : b[i].k = k
  BY <1>10 DEF WholeBlock
<1>14. IsPureBlockAction(b)
  <2>1. Keys(b) \cap BlockIndex # {}
    BY <1>3, <1>13 DEF Keys
  <2>2. ASSUME NEW i \in DOMAIN b PROVE b[i].k \in BlockIndex \cup {IndexScenario} \/ b[i] = OutletsAlone
    BY <1>4, <1>9 DEF WholeBlock, OutletsAlone
  <2> QED
    BY <2>1, <2>2 DEF IsPureBlockAction, OutletsAlone
<1>15. IsCompleted(b)
  <2>1. WholeBlock \subseteq Keys(b)
    BY <1>10 DEF Keys
  <2> QED
    BY <1>7, <1>8, <2>1 DEF IsCompleted
<1> QED
  BY <1>1, <1>8, <1>11, <1>12, <1>14, <1>15

\* The block, run, brings the cabinet where its maps say.
LEMMA ReachedBlock ==
  ASSUME NEW mm \in GoodMasks, \A k \in BlockIndex : mm.raw[k] = NoRaw,
         NEW l \in Lamps, NEW T \in Table
  PROVE  Reached(l, mm, RunBlock(l, Written(T, Block(mm))))
<1> DEFINE b == Block(mm)
           W == Written(T, b)
<1>1. /\ b \in Seq(Param) /\ IsCompleted(b)
      /\ \A i \in DOMAIN b : b[i].k \in BlockIndex => b[i].v = MergedValue(mm, b[i].k)
  BY BlockIsPure
<1> HIDE DEF b
<1>2. W \in Table
  BY <1>1, WrittenType
<1>3. ASSUME NEW k \in BlockIndex PROVE W[k].bits = mm.masks[k]
  <2>1. PICK i \in DOMAIN b : b[i].k = k
    BY <1>1 DEF IsCompleted, WholeBlock, Keys
  <2>2. b[i].v = Num(mm.masks[k])
    BY <1>1, <2>1 DEF MergedValue
  <2>3. W[b[i].k] = b[i].v
    BY <1>1, <2>1, BlockOrder, WrittenAll
  <2> QED
    BY <2>1, <2>2, <2>3, ValueFields
<1> HIDE DEF W
<1>4. \A k \in BlockIndex : blockOpposite[k] \in BlockIndex /\ mm.masks[k] \cap mm.masks[blockOpposite[k]] = {}
  BY OppositeIsPairing DEF GoodMasks
<1> DEFINE r == RunBlock(l, W)
<1>5. \A k \in BlockIndex :
        r[k] = IF k < blockOpposite[k] THEN (l[k] \cup W[k].bits) \ W[blockOpposite[k]].bits
               ELSE (l[k] \ W[blockOpposite[k]].bits) \cup W[k].bits
  BY <1>2, RunBlockType
<1> HIDE DEF r
<1>6. ASSUME NEW k \in BlockIndex
      PROVE  r[k] = (l[k] \ mm.masks[blockOpposite[k]]) \cup mm.masks[k]
  <2> DEFINE o == blockOpposite[k]
  <2>1. /\ W[k].bits = mm.masks[k] /\ W[o].bits = mm.masks[o] /\ mm.masks[k] \cap mm.masks[o] = {}
        /\ r[k] = IF k < o THEN (l[k] \cup W[k].bits) \ W[o].bits ELSE (l[k] \ W[o].bits) \cup W[k].bits
    BY <1>3, <1>4, <1>5
  <2> HIDE DEF o
  <2>2. r[k] = (l[k] \ mm.masks[o]) \cup mm.masks[k]
    BY <2>1
  <2> QED
    BY <2>2 DEF o
<1> QED
  BY <1>6 DEF Reached, r, W, b

\* Two cabinets agree on the outlets and, if num, in all that shows; the tables may differ
\* by masks that make no difference.
Agree(num, c, d) ==
  /\ c.table[IndexSecurityOutlets] = d.table[IndexSecurityOutlets]
  /\ c.cuts = d.cuts /\ c.outlets = d.outlets
  /\ num => /\ c.lamps = d.lamps /\ c.log = d.log
            /\ c.table = d.table \/ (Settled(c) /\ Settled(d))

\* A completed list, or one that leaves the block alone.
WholeOrNone(b) == IsCompleted(b) \/ Keys(b) \cap IndexLightStart .. IndexSecurityOutlets = {}

\* The same action keeps the agreement.
LEMMA AgreeStep ==
  ASSUME NEW c \in Cabinet, NEW d \in Cabinet, NEW a \in Seq(Param), WholeOrNone(a),
         NEW num, Agree(num, c, d)
  PROVE  Agree(num, ExecuteAction(c, a), ExecuteAction(d, a))
<1> DEFINE s == Written(c.table, a)
           t == Written(d.table, a)
           x == ExecuteAction(c, a)
           y == ExecuteAction(d, a)
<1>1. /\ x.table = s
      /\ x.lamps = IF Trigger \in ToSet(a) THEN RunBlock(c.lamps, s) ELSE c.lamps
      /\ x.cuts = c.cuts + IF Trigger \in ToSet(a) /\ s[IndexSecurityOutlets] = Num({0}) THEN 1 ELSE 0
      /\ x.outlets = IF Trigger \in ToSet(a) /\ s[IndexSecurityOutlets] = Num({0}) THEN "cut"
                     ELSE IF Trigger \in ToSet(a) /\ s[IndexSecurityOutlets] = Num({1}) THEN "restored"
                     ELSE c.outlets
      /\ x.log = IF Besides(a) = {} THEN c.log ELSE Append(c.log, [cmd |-> Besides(a), lamps |-> c.lamps])
  BY ExecuteEffect
<1>2. /\ y.table = t
      /\ y.lamps = IF Trigger \in ToSet(a) THEN RunBlock(d.lamps, t) ELSE d.lamps
      /\ y.cuts = d.cuts + IF Trigger \in ToSet(a) /\ t[IndexSecurityOutlets] = Num({0}) THEN 1 ELSE 0
      /\ y.outlets = IF Trigger \in ToSet(a) /\ t[IndexSecurityOutlets] = Num({0}) THEN "cut"
                     ELSE IF Trigger \in ToSet(a) /\ t[IndexSecurityOutlets] = Num({1}) THEN "restored"
                     ELSE d.outlets
      /\ y.log = IF Besides(a) = {} THEN d.log ELSE Append(d.log, [cmd |-> Besides(a), lamps |-> d.lamps])
  BY ExecuteEffect
<1>3. c.table \in Table /\ d.table \in Table
  BY DEF Cabinet
<1>4. s = t \/ (s = c.table /\ t = d.table)
  <2>1. CASE IsCompleted(a)
    BY <2>1, WrittenAll
  <2>2. CASE Keys(a) \cap IndexLightStart .. IndexSecurityOutlets = {}
    BY <1>3, <2>2, WrittenNone
  <2> QED
    BY <2>1, <2>2 DEF WholeOrNone
<1> HIDE DEF s, t, x, y
<1>5. s[IndexSecurityOutlets] = t[IndexSecurityOutlets]
  BY <1>4 DEF Agree
<1>6. /\ x.table[IndexSecurityOutlets] = y.table[IndexSecurityOutlets]
      /\ x.cuts = y.cuts /\ x.outlets = y.outlets
  BY <1>1, <1>2, <1>5 DEF Agree
<1>7. ASSUME num
      PROVE  /\ x.lamps = y.lamps /\ x.log = y.log
             /\ x.table = y.table \/ (Settled(x) /\ Settled(y))
  <2>1. c.lamps = d.lamps /\ c.log = d.log /\ (c.table = d.table \/ (Settled(c) /\ Settled(d)))
    BY <1>7 DEF Agree
  <2>2. x.log = y.log
    BY <1>1, <1>2, <2>1
  <2>3. CASE s = t
    BY <1>1, <1>2, <2>1, <2>2, <2>3
  <2>4. CASE s = c.table /\ t = d.table /\ s # t
    <3>1. Settled(c) /\ Settled(d)
      BY <2>1, <2>4
    <3>2. x.lamps = c.lamps /\ y.lamps = d.lamps
      BY <1>1, <1>2, <2>4, <3>1 DEF Settled
    <3>3. Settled(x) /\ Settled(y)
      BY <1>1, <1>2, <2>4, <3>1, <3>2 DEF Settled
    <3> QED
      BY <2>1, <2>2, <3>2, <3>3
  <2> QED
    BY <1>4, <2>3, <2>4
<1> QED
  BY <1>6, <1>7 DEF Agree, x, y

\* A run of actions on lamps and shutters, and their merge.
LEMMA MergedRun ==
  ASSUME NEW s \in Seq(Seq(Param)), s # <<>>,
         \A i \in DOMAIN s : IsPureBlockAction(s[i]) /\ IsCompleted(s[i]),
         NEW num, num => \A i \in DOMAIN s : NumericAction(s[i]) /\ Trigger \in ToSet(s[i]),
         NEW c \in Cabinet, NEW g \in [0 .. Len(s) -> Cabinet], IsExecution(g, c, s),
         NEW d \in Cabinet, Agree(num, c, d)
  PROVE  Agree(num, g[Len(s)], ExecuteAction(d, MergeBlockActions(s)))
<1>1. PICK h \in [0 .. Len(s) -> GoodMasks] : IsMergeOfActions(h, s) /\ MergeChunks(s) = h[Len(s)]
  BY MergeChunksRun
<1>2. Len(s) \in Nat \ {0} /\ Len(s) \in 0 .. Len(s) /\ DOMAIN s = 1 .. Len(s)
  OBVIOUS
<1> DEFINE Q(i) == /\ g[i].cuts = c.cuts /\ g[i].outlets = c.outlets
                   /\ i # 0 => g[i].table[IndexSecurityOutlets] = Num({})
                   /\ num => /\ Reached(c.lamps, h[i], g[i].lamps) /\ g[i].log = c.log
                             /\ i # 0 => Settled(g[i])
           S == {i \in 0 .. Len(s) : Q(i)}
<1>3. 0 \in S
  <2>1. g[0] = c /\ h[0] = EmptyMerge
    BY <1>1 DEF IsExecution, IsMergeOfActions
  <2>2. Reached(c.lamps, EmptyMerge, c.lamps)
    BY OppositeIsPairing DEF Reached, EmptyMerge
  <2>3. Q(0)
    BY <2>1, <2>2
  <2> HIDE DEF Q
  <2> QED
    BY <1>2, <2>3
<1>4. ASSUME NEW i \in 1 .. Len(s), i - 1 \in S PROVE i \in S
  <2> DEFINE x == g[i - 1]
             mm == h[i - 1]
             a == s[i]
  <2>1. /\ x \in Cabinet /\ mm \in GoodMasks /\ a \in Seq(Param)
        /\ IsPureBlockAction(a) /\ IsCompleted(a)
        /\ num => NumericAction(a) /\ Trigger \in ToSet(a)
    <3>1. i - 1 \in 0 .. Len(s) /\ i \in DOMAIN s
      BY <1>2
    <3>2. a \in Seq(Param)
      BY <3>1
    <3>3. x \in Cabinet /\ mm \in GoodMasks
      BY <3>1
    <3> QED
      BY <3>1, <3>2, <3>3
  <2>2. g[i] = ExecuteAction(x, a) /\ h[i] = MergeParams(mm, a)
    BY <1>1 DEF IsExecution, IsMergeOfActions
  <2>3. /\ x.cuts = c.cuts /\ x.outlets = c.outlets
        /\ num => Reached(c.lamps, mm, x.lamps) /\ x.log = c.log
    BY <1>4
  <2> HIDE DEF x, mm, a
  <2>4. /\ g[i].table[IndexSecurityOutlets] = Num({})
        /\ g[i].cuts = x.cuts /\ g[i].outlets = x.outlets
        /\ Trigger \in ToSet(a) => /\ g[i].lamps = RunBlock(x.lamps, Written(x.table, a))
                                   /\ g[i].log = x.log /\ Settled(g[i])
    BY <2>1, <2>2, PureEffect
  <2>5. ASSUME num PROVE Reached(c.lamps, h[i], g[i].lamps)
    <3>1. x.lamps \in Lamps /\ x.table \in Table
      BY <2>1 DEF Cabinet
    <3>2. Reached(c.lamps, MergeParams(mm, a), RunBlock(x.lamps, Written(x.table, a)))
      BY <2>1, <2>3, <2>5, <3>1, ReachedRun
    <3> QED
      BY <2>1, <2>2, <2>4, <2>5, <3>2
  <2>6. Q(i)
    BY <2>1, <2>3, <2>4, <2>5
  <2>7. i \in 0 .. Len(s)
    OBVIOUS
  <2> HIDE DEF Q
  <2> QED
    BY <2>6, <2>7
<1>5. Q(Len(s))
  <2>1. \A i \in 0 .. Len(s) : i \in S
    <3>1. Len(s) \in Nat
      OBVIOUS
    <3> HIDE DEF S
    <3> QED
      BY <1>3, <1>4, <3>1, LoopInd
  <2> HIDE DEF Q
  <2> QED
    BY <1>2, <2>1
<1> DEFINE mm == h[Len(s)]
           x == g[Len(s)]
           y == ExecuteAction(d, Block(mm))
<1>6. mm \in GoodMasks /\ x \in Cabinet
  BY <1>2
<1>7. MergeBlockActions(s) = Block(mm)
  BY <1>1 DEF MergeBlockActions, Block
<1>8. /\ x.cuts = c.cuts /\ x.outlets = c.outlets /\ x.table[IndexSecurityOutlets] = Num({})
      /\ num => Reached(c.lamps, mm, x.lamps) /\ x.log = c.log /\ Settled(x)
  BY <1>2, <1>5
<1> HIDE DEF mm, x
<1>9. /\ y \in Cabinet /\ y.table[IndexSecurityOutlets] = Num({})
      /\ y.cuts = d.cuts /\ y.outlets = d.outlets
      /\ y.lamps = RunBlock(d.lamps, Written(d.table, Block(mm))) /\ y.log = d.log /\ Settled(y)
  <2>1. /\ Block(mm) \in Seq(Param) /\ IsPureBlockAction(Block(mm)) /\ IsCompleted(Block(mm))
        /\ Trigger \in ToSet(Block(mm))
    BY <1>6, BlockIsPure
  <2> QED
    BY <2>1, PureEffect
<1>10. ASSUME num PROVE x.lamps = y.lamps /\ x.log = y.log /\ Settled(x) /\ Settled(y)
  <2>1. c.lamps = d.lamps /\ c.log = d.log
    BY <1>10 DEF Agree
  <2>2. \A k \in BlockIndex : mm.raw[k] = NoRaw
    BY <1>8, <1>10 DEF Reached
  <2>3. d.lamps \in Lamps /\ d.table \in Table
    BY DEF Cabinet
  <2>4. Reached(d.lamps, mm, y.lamps)
    BY <1>6, <1>9, <2>2, <2>3, ReachedBlock
  <2> HIDE DEF y
  <2>5. \A k \in BlockIndex : x.lamps[k] = y.lamps[k]
    BY <1>8, <1>10, <2>1, <2>4 DEF Reached
  <2>6. x.lamps = y.lamps
    <3>1. x.lamps \in [BlockIndex -> SUBSET Bit] /\ y.lamps \in [BlockIndex -> SUBSET Bit]
      BY <1>6, <1>9 DEF Cabinet, Lamps
    <3> QED
      BY <2>5, <3>1
  <2> QED
    BY <1>8, <1>9, <1>10, <2>1, <2>6
<1>11. x.table[IndexSecurityOutlets] = y.table[IndexSecurityOutlets] /\ x.cuts = y.cuts /\ x.outlets = y.outlets
  <2> HIDE DEF y
  <2> QED
    BY <1>8, <1>9 DEF Agree
<1> QED
  BY <1>7, <1>10, <1>11 DEF Agree, x

\* Before any command.
LEMMA IdleType == IdleCabinet \in Cabinet
<1>1. /\ [k \in BlockIndex |-> {}] \in Lamps
      /\ [k \in IndexLightStart .. IndexSecurityOutlets |-> Num({})] \in Table
  BY OutletsApart DEF Lamps, Table
<1>2. <<>> \in Seq(Entry)
  OBVIOUS
<1> QED
  BY <1>1, <1>2 DEF IdleCabinet, Cabinet

LEMMA ExecuteActionType ==
  ASSUME NEW c \in Cabinet, NEW a \in Seq(Param)
  PROVE  ExecuteAction(c, a) \in Cabinet
BY ExecuteEffect

\* The actions of a list are executed one by one.
LEMMA ExecuteRun ==
  ASSUME NEW s \in Seq(Seq(Param))
  PROVE  \E g \in [0 .. Len(s) -> Cabinet] :
           IsExecution(g, IdleCabinet, s) /\ Execute(s) = g[Len(s)]
<1> DEFINE L == Len(s)
           F == [x \in Cabinet |-> [p \in Seq(Param) |-> ExecuteAction(x, p)]]
           P(g) == g = [i \in 0 .. L |-> IF i = 0 THEN IdleCabinet ELSE ExecuteAction(g[i - 1], s[i])]
           c == CHOOSE g : P(g)
<1>1. F \in [Cabinet -> [Seq(Param) -> Cabinet]]
  BY ExecuteActionType
<1>2. L \in Nat /\ IdleCabinet \in Cabinet /\ \A i \in 1 .. L : s[i] \in Seq(Param)
  BY IdleType
<1>3. PICK h \in [0 .. L -> Cabinet] : IsLoop(h, F, IdleCabinet, s, L)
  <2> HIDE DEF F, L
  <2> QED
    BY <1>1, <1>2, LoopExists
<1>4. h[0] = IdleCabinet /\ \A i \in 1 .. L : h[i] = ExecuteAction(h[i - 1], s[i])
  <2>1. \A i \in 1 .. L : h[i - 1] \in Cabinet
    <3>1. \A i \in 1 .. L : i - 1 \in 0 .. L
      BY <1>2
    <3> QED
      BY <3>1
  <2> HIDE DEF L
  <2> QED
    BY <1>2, <1>3, <2>1 DEF IsLoop
<1>5. P(h)
  <2>1. h = [i \in 0 .. L |-> h[i]]
    OBVIOUS
  <2>2. \A i \in 0 .. L : h[i] = IF i = 0 THEN IdleCabinet ELSE ExecuteAction(h[i - 1], s[i])
    BY <1>2, <1>4
  <2> HIDE DEF L
  <2> QED
    BY <2>1, <2>2
<1>6. P(c)
  <2> HIDE DEF P
  <2> QED
    BY <1>5
<1>7. Execute(s) = c[L]
  BY DEF Execute
<1> HIDE DEF c, L
<1>8. c[0] = IdleCabinet /\ \A i \in 1 .. L : c[i] = ExecuteAction(c[i - 1], s[i])
  BY <1>2, <1>6
<1>9. SameSteps(c, h, L)
  BY <1>4, <1>8 DEF SameSteps
<1>10. SameStates(c, h, L)
  BY <1>2, <1>9, LoopUnique
<1>11. c[L] = h[L]
  BY <1>2, <1>10 DEF SameStates
<1>12. Execute(s) = h[L]
  BY <1>7, <1>11
<1> QED
  BY <1>4, <1>12 DEF L, IsExecution

-----------------------------------------------------------------------------
(* coalescePendingActions.                                                   *)

\* Where the actions of a delivery end: e[x] of the waiting actions are in the first x.
IsDelivery(e, D, pending) ==
  /\ e[0] = 0 /\ e[Len(D)] = Len(pending)
  /\ \A x \in 1 .. Len(D) :
       /\ e[x - 1] < e[x]
       /\ \/ e[x] = e[x - 1] + 1 /\ D[x] = pending[e[x]]
          \/ /\ D[x] = MergeBlockActions(SubSeq(pending, e[x - 1] + 1, e[x]))
             /\ \A i \in e[x - 1] + 1 .. e[x] : IsPureBlockAction(pending[i])

\* A delivery is a list of waiting actions, and of runs of lamp and shutter actions merged
\* in their places: nothing is lost, repeated or moved.
THEOREM DeliveryShape ==
  ASSUME NEW pending \in Seq(Seq(Param))
  PROVE  LET D == coalescePendingActions(pending) IN
         /\ Len(D) \in Nat /\ D = [x \in 1 .. Len(D) |-> D[x]]
         /\ \E e \in [0 .. Len(D) -> 0 .. Len(pending)] : IsDelivery(e, D, pending)
<1> DEFINE L == Len(pending)
           pure(i) == i \in DOMAIN pending /\ IsPureBlockAction(pending[i])
           E == {i \in DOMAIN pending : ~ (pure(i) /\ pure(i + 1))}
           first(j) == CHOOSE i \in 1 .. j : (\A x \in i .. j : pure(x)) /\ ~ pure(i - 1)
           action(j) == IF ~ pure(j) \/ first(j) = j THEN pending[j]
                        ELSE MergeBlockActions(SubSeq(pending, first(j), j))
           N == Cardinality(E)
           ends == Sorted(E)
           D == coalescePendingActions(pending)
           e == [x \in 0 .. N |-> IF x = 0 THEN 0 ELSE ends[x]]
<1>1. L \in Nat /\ DOMAIN pending = 1 .. L
  OBVIOUS
<1>2. E \in SUBSET Nat /\ IsFiniteSet(E) /\ E \in SUBSET (1 .. L)
  <2>1. IsFiniteSet(1 .. L) /\ 1 .. L \in SUBSET Nat
    BY <1>1, FS_Interval
  <2>2. E \in SUBSET (1 .. L)
    BY <1>1
  <2> HIDE DEF E
  <2>3. IsFiniteSet(E)
    BY <2>1, <2>2, FS_Subset
  <2> QED
    BY <2>1, <2>2, <2>3
<1>3. /\ N \in Nat /\ DOMAIN ends = 1 .. N /\ \A x \in 1 .. N : ends[x] \in E
      /\ \A x, y \in 1 .. N : x < y => ends[x] < ends[y]
      /\ \A k \in E : \E x \in 1 .. N : ends[x] = k
  <2> HIDE DEF E
  <2> QED
    BY <1>2, SortedLists, SortedOrder
<1>4. D = [x \in 1 .. N |-> action(ends[x])]
  <2>1. D = [x \in DOMAIN ends |-> action(ends[x])]
    BY DEF coalescePendingActions
  <2> HIDE DEF ends, N, action, D
  <2> QED
    BY <1>3, <2>1
<1>5. \A i \in 1 .. L : i \in E <=> ~ (pure(i) /\ pure(i + 1))
  BY <1>1
<1>6. \A i : pure(i) => i \in 1 .. L /\ IsPureBlockAction(pending[i])
  BY <1>1
<1> HIDE DEF E, N, ends, D, pure
<1>7. /\ Len(D) = N /\ \A x \in 1 .. N : D[x] = action(ends[x])
      /\ D = [x \in 1 .. N |-> D[x]]
  <2> HIDE DEF action
  <2> QED
    BY <1>3, <1>4
<1>8. \A x \in 1 .. N : ends[x] \in 1 .. L /\ ends[x] \in Nat
  BY <1>1, <1>2, <1>3
<1>9. \A x, y \in 1 .. N : x <= y => ends[x] <= ends[y]
  <2> SUFFICES ASSUME NEW x \in 1 .. N, NEW y \in 1 .. N, x <= y PROVE ends[x] <= ends[y]
    OBVIOUS
  <2>1. x < y \/ x = y
    BY <1>3
  <2>2. ends[x] \in Nat /\ ends[y] \in Nat
    BY <1>8
  <2> QED
    BY <1>3, <2>1, <2>2
<1>10. e \in [0 .. N -> 0 .. L] /\ e[0] = 0 /\ \A x \in 1 .. N : e[x] = ends[x] /\ e[x] \in E /\ e[x] \in 1 .. L
  <2>1. 0 \in 0 .. N /\ 0 \in 0 .. L /\ \A x \in 1 .. N : x # 0 /\ x \in 0 .. N
    BY <1>1, <1>3
  <2>2. \A x \in 0 .. N : x = 0 \/ x \in 1 .. N
    BY <1>3
  <2>3. \A x \in 1 .. N : ends[x] \in 0 .. L
    BY <1>8
  <2>4. e[0] = 0 /\ \A x \in 1 .. N : e[x] = ends[x]
    BY <2>1
  <2>5. \A x \in 0 .. N : e[x] \in 0 .. L
    BY <2>1, <2>2, <2>3, <2>4
  <2> QED
    BY <1>3, <1>8, <2>4, <2>5
<1> HIDE DEF e
\* Between two ends there is no end.
<1>11. ASSUME NEW x \in 1 .. N
      PROVE  /\ e[x - 1] < e[x] /\ e[x - 1] \in 0 .. L
             /\ \A i \in e[x - 1] + 1 .. e[x] - 1 : i \notin E
  <2>1. x - 1 \in 0 .. N /\ e[x - 1] \in 0 .. L /\ e[x] \in 1 .. L /\ x \in Nat
    BY <1>3, <1>10
  <2>2. e[x - 1] < e[x]
    <3>1. CASE x = 1
      BY <1>10, <2>1, <3>1
    <3>2. CASE x # 1
      <4>1. x - 1 \in 1 .. N /\ x - 1 < x
        BY <1>3, <3>2
      <4> QED
        BY <1>3, <1>10, <4>1
    <3> QED
      BY <3>1, <3>2
  <2>3. ASSUME NEW i \in e[x - 1] + 1 .. e[x] - 1, i \in E PROVE FALSE
    <3>1. PICK y \in 1 .. N : ends[y] = i
      BY <1>3, <2>3
    <3>2. e[y] = i /\ e[x - 1] < e[y] /\ e[y] < e[x]
      BY <1>1, <1>10, <2>1, <3>1
    <3>3. CASE y >= x
      <4>1. ends[x] <= ends[y]
        BY <1>9, <3>3
      <4> QED
        BY <1>10, <2>1, <3>2, <4>1
    <3>4. CASE y < x
      <4>1. x - 1 \in 1 .. N /\ y <= x - 1
        BY <1>3, <3>4
      <4>2. ends[y] <= ends[x - 1]
        BY <1>9, <4>1
      <4> QED
        BY <1>10, <2>1, <3>2, <4>1, <4>2
    <3> QED
      BY <1>3, <3>3, <3>4
  <2> QED
    BY <2>1, <2>2, <2>3
\* The last waiting action is an end.
<1>12. e[N] = L
  <2>1. CASE L = 0
    <3>1. N = 0
      <4> SUFFICES ASSUME N # 0 PROVE FALSE
        OBVIOUS
      <4>1. 1 \in 1 .. N
        BY <1>3
      <4> QED
        BY <1>8, <2>1, <4>1
    <3> QED
      BY <1>10, <2>1, <3>1
  <2>2. CASE L # 0
    <3>1. L \in 1 .. L /\ L + 1 \notin 1 .. L
      BY <1>1, <2>2
    <3>2. L \in E
      BY <1>5, <1>6, <3>1
    <3>3. PICK x \in 1 .. N : ends[x] = L
      BY <1>3, <3>2
    <3>4. N \in 1 .. N /\ x <= N
      BY <1>3
    <3>5. ends[x] <= ends[N]
      BY <1>9, <3>4
    <3>6. e[N] \in 1 .. L /\ e[N] = ends[N]
      BY <1>10, <3>4
    <3> QED
      BY <1>1, <3>3, <3>5, <3>6
  <2> QED
    BY <2>1, <2>2
<1>13. ASSUME NEW x \in 1 .. N
       PROVE  \/ e[x] = e[x - 1] + 1 /\ D[x] = pending[e[x]]
              \/ /\ D[x] = MergeBlockActions(SubSeq(pending, e[x - 1] + 1, e[x]))
                 /\ \A i \in e[x - 1] + 1 .. e[x] : IsPureBlockAction(pending[i])
  <2> DEFINE j == e[x]
             a == e[x - 1]
  <2>1. a \in 0 .. L /\ j \in 1 .. L /\ a < j /\ D[x] = action(j)
        /\ \A i \in a + 1 .. j - 1 : i \notin E
    BY <1>7, <1>10, <1>11
  <2>2. a = 0 \/ a \in E
    <3>1. x = 1 \/ x - 1 \in 1 .. N
      BY <1>3
    <3> QED
      BY <1>10, <3>1
  <2> HIDE DEF j, a
  <2>3. \A i \in a + 1 .. j - 1 : pure(i) /\ pure(i + 1)
    <3>1. \A i \in a + 1 .. j - 1 : i \in 1 .. L
      BY <1>1, <2>1
    <3> QED
      BY <1>5, <2>1, <3>1
  <2>4. CASE ~ pure(j)
    <3>1. D[x] = pending[j]
      <4> HIDE DEF first
      <4> QED
        BY <2>1, <2>4
    <3>2. j = a + 1
      <4>1. SUFFICES ASSUME j # a + 1 PROVE FALSE
        OBVIOUS
      <4>2. j - 1 \in a + 1 .. j - 1 /\ (j - 1) + 1 = j
        BY <1>1, <2>1, <4>1
      <4> QED
        BY <2>3, <2>4, <4>2
    <3> QED
      BY <3>1, <3>2 DEF j, a
  <2>5. CASE pure(j)
    <3>1. \A i \in a + 1 .. j : pure(i)
      <4>1. \A i \in a + 1 .. j : i = j \/ i \in a + 1 .. j - 1
        BY <1>1, <2>1
      <4> QED
        BY <2>3, <2>5, <4>1
    <3>2. a + 1 \in 1 .. j /\ a + 1 - 1 = a
      BY <1>1, <2>1
    <3>3. ~ pure(a)
      <4>1. CASE a = 0
        BY <1>6, <4>1
      <4>2. CASE a \in E
        <5>1. a \in 1 .. L /\ a + 1 \in a + 1 .. j
          BY <1>1, <1>2, <2>1, <4>2
        <5> QED
          BY <1>5, <3>1, <4>2, <5>1
      <4> QED
        BY <2>2, <4>1, <4>2
    <3> DEFINE P(i) == (\A y \in i .. j : pure(y)) /\ ~ pure(i - 1)
    <3>4. P(a + 1)
      <4> DEFINE b == a + 1
      <4>1. b - 1 = a
        BY <1>1, <2>1
      <4>2. \A y \in b .. j : pure(y)
        BY <3>1
      <4> HIDE DEF b
      <4>3. P(b)
        BY <3>3, <4>1, <4>2
      <4> QED
        BY <4>3 DEF b
    <3>5. \A i \in 1 .. j : P(i) => i = a + 1
      <4> SUFFICES ASSUME NEW i \in 1 .. j, P(i), i # a + 1 PROVE FALSE
        OBVIOUS
      <4>1. CASE i < a + 1
        <5>1. a \in i .. j
          BY <1>1, <2>1, <4>1
        <5> QED
          BY <3>3, <5>1
      <4>2. CASE i > a + 1
        <5>1. i - 1 \in a + 1 .. j
          BY <1>1, <2>1, <4>2
        <5> QED
          BY <3>1, <5>1
      <4> QED
        BY <1>1, <2>1, <4>1, <4>2
    <3>6. first(j) = a + 1
      <4>1. first(j) = CHOOSE i \in 1 .. j : P(i)
        OBVIOUS
      <4> HIDE DEF P, first
      <4> QED
        BY <3>2, <3>4, <3>5, <4>1
    <3> HIDE DEF first
    <3>7. D[x] = IF a + 1 = j THEN pending[j] ELSE MergeBlockActions(SubSeq(pending, a + 1, j))
      BY <2>1, <2>5, <3>6
    <3>8. \A i \in a + 1 .. j : IsPureBlockAction(pending[i])
      BY <1>6, <3>1
    <3> QED
      BY <3>7, <3>8 DEF j, a
  <2> QED
    BY <2>4, <2>5
<1>14. IsDelivery(e, D, pending)
  BY <1>7, <1>10, <1>11, <1>12, <1>13 DEF IsDelivery
<1>15. Len(D) \in Nat /\ D = [x \in 1 .. Len(D) |-> D[x]] /\ e \in [0 .. Len(D) -> 0 .. L]
  BY <1>3, <1>7, <1>10
<1> QED
  BY <1>14, <1>15 DEF D

\* A merged action is an action.
LEMMA MergedType ==
  ASSUME NEW s \in Seq(Seq(Param))
  PROVE  MergeBlockActions(s) \in Seq(Param)
<1>1. PICK h \in [0 .. Len(s) -> GoodMasks] : MergeChunks(s) = h[Len(s)]
  BY MergeChunksRun
<1>2. Len(s) \in 0 .. Len(s)
  OBVIOUS
<1>3. h[Len(s)] \in GoodMasks
  BY <1>2
<1>4. MergeBlockActions(s) = Block(h[Len(s)])
  BY <1>1 DEF MergeBlockActions, Block
<1> QED
  BY <1>3, <1>4, BlockIsPure

\* A part of a list of actions.
LEMMA PartOf ==
  ASSUME NEW q \in Seq(Seq(Param)), NEW a \in 0 .. Len(q), NEW b \in 0 .. Len(q), a < b
  PROVE  LET s == SubSeq(q, a + 1, b) IN
         /\ s \in Seq(Seq(Param)) /\ s # <<>> /\ Len(s) = b - a /\ DOMAIN s = 1 .. b - a
         /\ \A i \in 1 .. b - a : s[i] = q[a + i] /\ a + i \in a + 1 .. b /\ a + i \in DOMAIN q
<1> DEFINE X == Seq(Param)
           s == SubSeq(q, a + 1, b)
<1>1. q \in Seq(X) /\ Len(q) \in Nat
  OBVIOUS
<1> HIDE DEF X
<1>2. a \in Nat /\ b \in Nat /\ a + 1 \in 1 .. Len(q) /\ b \in 1 .. Len(q) /\ b - a \in Nat \ {0}
  BY <1>1
<1>3. s \in Seq(X) /\ Len(s) = b - a
  BY <1>1, <1>2
<1>4. DOMAIN s = 1 .. b - a /\ s # <<>>
  <2> HIDE DEF s
  <2> QED
    BY <1>2, <1>3
<1>5. ASSUME NEW i \in 1 .. b - a
      PROVE  s[i] = q[a + i] /\ a + i \in a + 1 .. b /\ a + i \in DOMAIN q
  <2>1. a + i \in a + 1 .. b /\ a + i \in 1 .. Len(q)
    BY <1>1, <1>2
  <2>2. s[i] = q[(a + 1) + i - 1]
    BY <1>1, <1>2
  <2>3. (a + 1) + i - 1 = a + i
    BY <1>2
  <2> QED
    BY <1>1, <2>1, <2>2, <2>3
<1> QED
  BY <1>3, <1>4, <1>5 DEF X

\* A light or shutter action that is whole or leaves the block alone is whole.
LEMMA PureIsWhole ==
  ASSUME NEW a, IsPureBlockAction(a), WholeOrNone(a)
  PROVE  IsCompleted(a)
BY BlockOrder DEF IsPureBlockAction, WholeOrNone

\* Delivering the merged actions and delivering the waiting ones lead to cabinets that agree.
LEMMA DeliveryAgrees ==
  ASSUME NEW q \in Seq(Seq(Param)),
         \A i \in DOMAIN q : WholeOrNone(q[i]),
         NEW num, num => \A i \in DOMAIN q :
                           NumericAction(q[i]) /\ (IsPureBlockAction(q[i]) => Trigger \in ToSet(q[i]))
  PROVE  Agree(num, Execute(q), Execute(coalescePendingActions(q)))
<1> DEFINE D == coalescePendingActions(q)
<1>3. Len(D) \in Nat /\ D = [x \in 1 .. Len(D) |-> D[x]]
  BY DeliveryShape
<1>2. PICK e \in [0 .. Len(D) -> 0 .. Len(q)] : IsDelivery(e, D, q)
  BY DeliveryShape
<1> HIDE DEF D
<1>1. Len(D) \in Nat /\ DOMAIN D = 1 .. Len(D) /\ Len(q) \in Nat /\ DOMAIN q = 1 .. Len(q)
  BY <1>3
<1>4. ASSUME NEW x \in 1 .. Len(D)
      PROVE  /\ e[x - 1] \in 0 .. Len(q) /\ e[x] \in 0 .. Len(q) /\ e[x - 1] < e[x]
             /\ \/ e[x] = e[x - 1] + 1 /\ D[x] = q[e[x]]
                \/ /\ D[x] = MergeBlockActions(SubSeq(q, e[x - 1] + 1, e[x]))
                   /\ \A i \in e[x - 1] + 1 .. e[x] : IsPureBlockAction(q[i])
  <2>1. x - 1 \in 0 .. Len(D) /\ x \in 0 .. Len(D)
    BY <1>1
  <2>2. e[x - 1] \in 0 .. Len(q) /\ e[x] \in 0 .. Len(q)
    BY <2>1
  <2> QED
    BY <1>2, <2>2 DEF IsDelivery
<1>5. D \in Seq(Seq(Param))
  <2>1. ASSUME NEW x \in 1 .. Len(D) PROVE D[x] \in Seq(Param)
    <3>1. CASE D[x] = q[e[x]]
      <4>1. e[x] \in DOMAIN q
        BY <1>1, <1>4
      <4> QED
        BY <3>1, <4>1
    <3>2. CASE D[x] = MergeBlockActions(SubSeq(q, e[x - 1] + 1, e[x]))
      <4>1. SubSeq(q, e[x - 1] + 1, e[x]) \in Seq(Seq(Param))
        BY <1>4, PartOf
      <4> QED
        BY <3>2, <4>1, MergedType
    <3> QED
      BY <1>4, <3>1, <3>2
  <2> DEFINE X == Seq(Param)
  <2>2. \A x \in 1 .. Len(D) : D[x] \in X
    BY <2>1
  <2> HIDE DEF X
  <2>3. D \in Seq(X)
    <3> DEFINE N == Len(D)
    <3>1. N \in Nat /\ D = [x \in 1 .. N |-> D[x]] /\ \A x \in 1 .. N : D[x] \in X
      BY <1>1, <1>3, <2>2
    <3> HIDE DEF N
    <3>2. D \in [1 .. N -> X]
      BY <3>1
    <3> QED
      BY <3>1, <3>2
  <2> QED
    BY <2>3 DEF X
<1>6. PICK g \in [0 .. Len(q) -> Cabinet] : IsExecution(g, IdleCabinet, q) /\ Execute(q) = g[Len(q)]
  BY ExecuteRun
<1>7. PICK h \in [0 .. Len(D) -> Cabinet] : IsExecution(h, IdleCabinet, D) /\ Execute(D) = h[Len(D)]
  BY <1>5, ExecuteRun
<1> DEFINE S == {x \in 0 .. Len(D) : Agree(num, g[e[x]], h[x])}
<1>8. 0 \in S
  <2>1. g[0] = IdleCabinet /\ h[0] = IdleCabinet /\ e[0] = 0
    BY <1>2, <1>6, <1>7 DEF IsExecution, IsDelivery
  <2> QED
    BY <1>1, <2>1 DEF Agree
<1>9. ASSUME NEW x \in 1 .. Len(D), x - 1 \in S PROVE x \in S
  <2> DEFINE a == e[x - 1]
             b == e[x]
             d == h[x - 1]
  <2>1. /\ a \in 0 .. Len(q) /\ b \in 0 .. Len(q) /\ a < b
        /\ \/ b = a + 1 /\ D[x] = q[b]
           \/ D[x] = MergeBlockActions(SubSeq(q, a + 1, b)) /\ \A i \in a + 1 .. b : IsPureBlockAction(q[i])
    BY <1>4
  <2>2. x \in 0 .. Len(D) /\ x - 1 \in 0 .. Len(D)
    BY <1>1
  <2>3. d \in Cabinet /\ h[x] = ExecuteAction(d, D[x]) /\ Agree(num, g[a], d)
    BY <1>7, <1>9, <2>2 DEF IsExecution
  <2> SUFFICES Agree(num, g[b], h[x])
    BY <2>2
  <2> HIDE DEF a, b, d
  <2>4. g[a] \in Cabinet
    BY <2>1
  <2>5. CASE b = a + 1 /\ D[x] = q[b]
    <3>1. b \in 1 .. Len(q) /\ b - 1 = a /\ b \in DOMAIN q
      BY <1>1, <2>1, <2>5
    <3>2. g[b] = ExecuteAction(g[a], q[b])
      BY <1>6, <3>1 DEF IsExecution
    <3>3. q[b] \in Seq(Param) /\ WholeOrNone(q[b])
      BY <3>1
    <3> QED
      BY <2>3, <2>4, <2>5, <3>2, <3>3, AgreeStep
  <2>6. CASE D[x] = MergeBlockActions(SubSeq(q, a + 1, b)) /\ \A i \in a + 1 .. b : IsPureBlockAction(q[i])
    <3> DEFINE s == SubSeq(q, a + 1, b)
               r == [i \in 0 .. b - a |-> g[a + i]]
    <3>1. /\ s \in Seq(Seq(Param)) /\ s # <<>> /\ Len(s) = b - a /\ DOMAIN s = 1 .. b - a
          /\ \A i \in 1 .. b - a : s[i] = q[a + i] /\ a + i \in a + 1 .. b /\ a + i \in DOMAIN q
      BY <2>1, PartOf
    <3> HIDE DEF s
    <3>2. \A i \in DOMAIN s : IsPureBlockAction(s[i]) /\ IsCompleted(s[i])
      BY <2>6, <3>1, PureIsWhole
    <3>3. num => \A i \in DOMAIN s : NumericAction(s[i]) /\ Trigger \in ToSet(s[i])
      BY <3>1, <3>2
    <3>4. r \in [0 .. Len(s) -> Cabinet]
      <4>1. \A i \in 0 .. b - a : a + i \in 0 .. Len(q)
        BY <1>1, <2>1
      <4> QED
        BY <3>1, <4>1
    <3>5. IsExecution(r, g[a], s)
      <4>0. a \in Nat /\ b \in Nat /\ a < b /\ Len(q) \in Nat /\ b <= Len(q)
        BY <1>1, <2>1
      <4>1. r[0] = g[a]
        <5>1. 0 \in 0 .. b - a /\ a + 0 = a
          BY <2>1
        <5> QED
          BY <5>1
      <4>2. ASSUME NEW i \in 1 .. b - a PROVE r[i] = ExecuteAction(r[i - 1], s[i])
        <5>0. /\ i \in 0 .. b - a /\ i - 1 \in 0 .. b - a /\ a + (i - 1) = (a + i) - 1
              /\ a + i \in 1 .. Len(q)
          BY <4>0
        <5>1. r[i] = g[a + i] /\ r[i - 1] = g[(a + i) - 1] /\ a + i \in 1 .. Len(q)
          BY <5>0
        <5>2. g[a + i] = ExecuteAction(g[(a + i) - 1], q[a + i])
          BY <1>6, <5>1 DEF IsExecution
        <5>3. s[i] = q[a + i]
          BY <3>1
        <5> QED
          BY <5>1, <5>2, <5>3
      <4> HIDE DEF r
      <4> QED
        BY <3>1, <4>1, <4>2 DEF IsExecution
    <3>6. r[Len(s)] = g[b]
      <4>1. b - a \in 0 .. b - a /\ a + (b - a) = b
        BY <2>1
      <4> QED
        BY <3>1, <4>1
    <3> HIDE DEF r
    <3>7. Agree(num, r[Len(s)], ExecuteAction(d, MergeBlockActions(s)))
      BY <2>3, <2>4, <3>1, <3>2, <3>3, <3>4, <3>5, MergedRun
    <3> QED
      BY <2>3, <2>6, <3>6, <3>7 DEF s
  <2> QED
    BY <2>1, <2>5, <2>6
<1>10. \A x \in 0 .. Len(D) : x \in S
  <2> HIDE DEF S
  <2> QED
    BY <1>1, <1>8, <1>9, LoopInd
<1>11. Agree(num, g[e[Len(D)]], h[Len(D)]) /\ e[Len(D)] = Len(q)
  <2>1. Len(D) \in 0 .. Len(D)
    BY <1>1
  <2> QED
    BY <1>2, <1>10, <2>1 DEF IsDelivery
<1> QED
  BY <1>6, <1>7, <1>11 DEF D

-----------------------------------------------------------------------------
(* What the handlers store.                                                 *)

\* An action the firmware accepts, with the whole block or nothing of it.
Kept == {a \in Action : WholeOrNone(a)}

\* An action that triggers scenario "1" says what the outlets are to do.
Own(a) == Trigger \in ToSet(a) => IndexSecurityOutlets \in Keys(a)

\* What completing a request gives: a completed list, or one that leaves the block alone.
LEMMA ExpandStored ==
  ASSUME NEW params \in Seq(Param)
  PROVE  LET b == ExpandLegacyScenarioBlock(params) IN
         /\ b \in Seq(Param)
         /\ WholeOrNone(b)
         /\ ~ BareTrigger(params) => Own(b)
<1> DEFINE b == ExpandLegacyScenarioBlock(params)
<1>1. b \in Seq(Param)
  BY ExpandType
<1>2. CASE Keys(params) \cap IndexLightStart .. IndexSecurityOutlets = {}
  <2>1. b = params
    BY <1>2 DEF ExpandLegacyScenarioBlock
  <2>2. ~ BareTrigger(params) => Own(b)
    BY <1>2, <2>1 DEF BareTrigger, Own
  <2> QED
    BY <1>1, <1>2, <2>1, <2>2 DEF WholeOrNone
<1>3. CASE Keys(params) \cap IndexLightStart .. IndexSecurityOutlets # {}
  <2>1. IsCompleted(b)
    BY <1>3, ExpandType
  <2> HIDE DEF b
  <2>2. Own(b)
    BY <2>1, BlockOrder DEF IsCompleted, Own
  <2> QED
    BY <1>1, <2>1, <2>2 DEF b, WholeOrNone
<1> QED
  BY <1>2, <1>3

\* A completed single command.
LEMMA SingleKept ==
  ASSUME NEW k \in Nat, NEW v \in Value
  PROVE  ExpandLegacyScenarioBlock(<<KV(k, v)>>) \in Kept
<1>1. <<KV(k, v)>> \in Seq(Param)
  BY DEF KV, Param
<1> QED
  BY <1>1, SingleFits, ExpandStored DEF Kept

\* The chunks of a completed request: a single one is the request.
LEMMA BatchStored ==
  ASSUME NEW params \in Seq(Param)
  PROVE  LET b == ExpandLegacyScenarioBlock(params)
             chunks == ChunkExchangeParams(b, MaxFirmwareParamsPerAction)
         IN  /\ chunks \in Seq(Action)
             /\ Len(chunks) <= 1 =>
                  /\ chunks \in Seq(Kept)
                  /\ ~ BareTrigger(params) => \A i \in DOMAIN chunks : Own(chunks[i])
<1> DEFINE b == ExpandLegacyScenarioBlock(params)
           chunks == ChunkExchangeParams(b, MaxFirmwareParamsPerAction)
           N == Len(chunks)
<1>1. /\ b \in Seq(Param)
      /\ WholeOrNone(b)
      /\ ~ BareTrigger(params) => Own(b)
  BY ExpandStored
<1> HIDE DEF b
<1>2. /\ N \in Nat /\ chunks = [c \in 1 .. N |-> chunks[c]]
      /\ \A c \in 1 .. N : IsChunk(chunks[c], b)
      /\ N <= 1 => \A c \in 1 .. N : chunks[c] = SubSeq(b, 1, Len(b))
  BY <1>1, ChunkSizes
<1> HIDE DEF chunks, N
<1>3. ASSUME NEW j \in 1 .. N PROVE chunks[j] \in Action
  <2> DEFINE c == chunks[j]
  <2>1. PICK x, y \in 1 .. Len(b) :
          /\ c = SubSeq(b, x, y)
          /\ y - x + 1 \in 1 .. MaxFirmwareParamsPerAction
    BY <1>2 DEF IsChunk
  <2> HIDE DEF c
  <2>2. c \in Seq(Param) /\ Len(c) = y - x + 1
    BY <1>1, <2>1, BlockFits
  <2>3. c \in Action
    BY <2>1, <2>2 DEF Action
  <2> QED
    BY <2>3 DEF c
<1>4. chunks \in Seq(Action) /\ DOMAIN chunks = 1 .. N
  <2>1. chunks \in [1 .. N -> Action]
    BY <1>2, <1>3
  <2> QED
    BY <1>2, <2>1
<1>5. ASSUME N <= 1
      PROVE  /\ chunks \in Seq(Kept)
             /\ ~ BareTrigger(params) => \A i \in DOMAIN chunks : Own(chunks[i])
  <2>1. SubSeq(b, 1, Len(b)) = b
    BY <1>1
  <2>2. \A j \in 1 .. N : chunks[j] = b /\ chunks[j] \in Kept
    BY <1>1, <1>2, <1>3, <1>5, <2>1 DEF Kept
  <2>3. chunks \in [1 .. N -> Kept]
    BY <1>2, <2>2
  <2>4. chunks \in Seq(Kept)
    BY <1>2, <2>3
  <2> QED
    BY <1>1, <1>4, <2>2, <2>4
<1> QED
  BY <1>4, <1>5 DEF b, chunks, N

\* Executing one more action.
LEMMA ExecuteAppend ==
  ASSUME NEW q \in Seq(Seq(Param)), NEW a \in Seq(Param)
  PROVE  Execute(q) \in Cabinet /\ Execute(Append(q, a)) = ExecuteAction(Execute(q), a)
<1> DEFINE r == Append(q, a)
           L == Len(q)
<1>1. L \in Nat /\ L + 1 \in 1 .. L + 1 /\ L \in 0 .. L /\ L + 1 - 1 = L
  OBVIOUS
<1>2. r \in Seq(Seq(Param)) /\ Len(r) = L + 1 /\ r[L + 1] = a /\ \A i \in 1 .. L : r[i] = q[i]
  <2> DEFINE X == Seq(Param)
  <2>1. q \in Seq(X) /\ a \in X
    OBVIOUS
  <2> HIDE DEF X
  <2> QED
    BY <2>1 DEF X
<1> HIDE DEF r
<1>3. PICK g \in [0 .. L -> Cabinet] : IsExecution(g, IdleCabinet, q) /\ Execute(q) = g[L]
  BY ExecuteRun
<1>4. PICK h \in [0 .. L + 1 -> Cabinet] : IsExecution(h, IdleCabinet, r) /\ Execute(r) = h[L + 1]
  BY <1>2, ExecuteRun
<1> DEFINE S == {i \in 0 .. L : g[i] = h[i]}
<1>5. 0 \in S
  BY <1>1, <1>3, <1>4 DEF IsExecution
<1>6. ASSUME NEW i \in 1 .. L, i - 1 \in S PROVE i \in S
  <2>1. i \in 1 .. L + 1 /\ r[i] = q[i] /\ i \in 0 .. L
    BY <1>1, <1>2
  <2>2. g[i] = ExecuteAction(g[i - 1], q[i]) /\ h[i] = ExecuteAction(h[i - 1], r[i])
    BY <1>2, <1>3, <1>4, <2>1 DEF IsExecution
  <2> QED
    BY <1>6, <2>1, <2>2
<1>7. \A i \in 0 .. L : i \in S
  <2>1. L \in Nat
    BY <1>1
  <2> HIDE DEF S, L
  <2> QED
    BY <1>5, <1>6, <2>1, LoopInd
<1>8. h[L + 1] = ExecuteAction(h[L], a)
  <2>1. \A i \in 1 .. Len(r) : h[i] = ExecuteAction(h[i - 1], r[i])
    BY <1>4 DEF IsExecution
  <2>2. L + 1 \in 1 .. Len(r)
    BY <1>1, <1>2
  <2> DEFINE l == L + 1
  <2>3. l \in 1 .. Len(r) /\ l - 1 = L /\ r[l] = a
    BY <1>1, <1>2, <2>2
  <2> HIDE DEF l, L
  <2>4. h[l] = ExecuteAction(h[L], a)
    BY <2>1, <2>3
  <2> QED
    BY <2>4 DEF l
<1>9. g[L] = h[L] /\ g[L] \in Cabinet
  BY <1>1, <1>7
<1> QED
  BY <1>3, <1>4, <1>8, <1>9 DEF r

\* An action that is kept whole cuts the outlets exactly when it asks to.
LEMMA CutsAsked ==
  ASSUME NEW c \in Cabinet, NEW a \in Kept, Own(a)
  PROVE  ExecuteAction(c, a).cuts = c.cuts + IF {Trigger, Cut} \subseteq ToSet(a) THEN 1 ELSE 0
<1> DEFINE t == Written(c.table, a)
<1>1. a \in Seq(Param) /\ WholeOrNone(a) /\ c.cuts \in Nat
  BY DEF Kept, Action, Cabinet
<1>2. ExecuteAction(c, a).cuts =
        c.cuts + IF Trigger \in ToSet(a) /\ t[IndexSecurityOutlets] = Num({0}) THEN 1 ELSE 0
  BY <1>1, ExecuteEffect
<1>3. ASSUME Trigger \in ToSet(a) PROVE t[IndexSecurityOutlets] = Num({0}) <=> Cut \in ToSet(a)
  <2>1. PICK i \in DOMAIN a : a[i].k = IndexSecurityOutlets
    BY <1>3 DEF Own, Keys
  <2>2. IsCompleted(a)
    BY <1>1, <2>1, BlockOrder DEF WholeOrNone, Keys
  <2>3. t[IndexSecurityOutlets] = a[i].v
    <3>1. t[a[i].k] = a[i].v
      BY <1>1, <2>1, <2>2, BlockOrder, WrittenAll
    <3> QED
      BY <2>1, <3>1
  <2>4. a[i] = KV(IndexSecurityOutlets, a[i].v)
    <3>1. a[i] \in Param
      BY <1>1
    <3> QED
      BY <2>1, <3>1 DEF Param, KV
  <2>5. Cut \in ToSet(a) => a[i] = Cut
    <3> SUFFICES ASSUME Cut \in ToSet(a) PROVE a[i] = Cut
      OBVIOUS
    <3>1. PICK j \in DOMAIN a : a[j] = Cut
      BY InAction
    <3>2. a[j].k = IndexSecurityOutlets
      BY <3>1, OutletsApart
    <3> QED
      BY <1>1, <2>1, <2>2, <3>1, <3>2, KeysApart
  <2>6. a[i] = Cut => Cut \in ToSet(a)
    BY InAction
  <2>7. a[i] = Cut <=> a[i].v = Num({0})
    BY <2>4, OutletsApart DEF Cut
  <2> QED
    BY <2>3, <2>5, <2>6, <2>7
<1> HIDE DEF t
<1>4. {Trigger, Cut} \subseteq ToSet(a) <=> Trigger \in ToSet(a) /\ Cut \in ToSet(a)
  OBVIOUS
<1> QED
  BY <1>1, <1>2, <1>3, <1>4

-----------------------------------------------------------------------------
\* The invariant: what is stored, and what a batch has still to store, are actions; as
\* long as no request was split they have the whole block or nothing of it; and as long as
\* none was a bare trigger either, what is to be stored says what the outlets are to do,
\* and the waiting actions, executed one by one, cut the outlets as often as asked.
QueueInv ==
  /\ queue \in Seq(Action) /\ rest \in Seq(Action)
  /\ split \in BOOLEAN /\ bare \in BOOLEAN /\ cutsAsked \in Nat
  /\ ~ split => queue \in Seq(Kept) /\ rest \in Seq(Kept)
  /\ ~ split /\ ~ bare => /\ \A i \in DOMAIN rest : Own(rest[i])
                          /\ Execute(queue).cuts = cutsAsked

\* Actions are lists of parameters.
LEMMA ActionType ==
  /\ Kept \subseteq Action /\ Action \subseteq Seq(Param)
  /\ \A q \in Seq(Action) : q \in Seq(Seq(Param))
<1>1. Kept \subseteq Action /\ Action \subseteq Seq(Param)
  BY DEF Kept, Action
<1> QED
  BY <1>1

\* Storing an action.
LEMMA StoreKeeps ==
  ASSUME QueueInv, NEW a \in Action, Store(a)
  PROVE  /\ queue' \in Seq(Action) /\ cutsAsked' \in Nat
         /\ ~ split /\ a \in Kept => queue' \in Seq(Kept)
         /\ ~ split /\ ~ bare /\ a \in Kept /\ Own(a) => Execute(queue').cuts = cutsAsked'
<1> DEFINE one == IF {Trigger, Cut} \subseteq ToSet(a) THEN 1 ELSE 0
<1>0. cutsAsked' = cutsAsked + one /\ one \in Nat
  BY DEF Store
<1>1. queue' = Append(queue, a) /\ queue \in Seq(Action) /\ cutsAsked \in Nat
      /\ (~ split => queue \in Seq(Kept))
  BY DEF Store, QueueInv
<1>2. queue \in Seq(Seq(Param)) /\ a \in Seq(Param)
  BY <1>1, ActionType
<1>3. Execute(queue) \in Cabinet /\ Execute(queue') = ExecuteAction(Execute(queue), a)
  BY <1>1, <1>2, ExecuteAppend
<1>4. ASSUME ~ split, ~ bare, a \in Kept, Own(a) PROVE Execute(queue').cuts = cutsAsked'
  <2>1. Execute(queue).cuts = cutsAsked
    BY <1>4 DEF QueueInv
  <2>2. ExecuteAction(Execute(queue), a).cuts = Execute(queue).cuts + one
    BY <1>3, <1>4, CutsAsked
  <2> HIDE DEF one
  <2> QED
    BY <1>0, <1>3, <2>1, <2>2
<1> HIDE DEF one
<1>5. cutsAsked' \in Nat
  BY <1>0, <1>1
<1>6. queue' \in Seq(Action) /\ (~ split /\ a \in Kept => queue' \in Seq(Kept))
  BY <1>1
<1> QED
  BY <1>4, <1>5, <1>6

\* A single command, seen from the queue.
LEMMA InjectKeeps ==
  ASSUME QueueInv, NEW k \in Nat, NEW v \in Value, Inject(k, v)
  PROVE  QueueInv'
<1> DEFINE p == <<KV(k, v)>>
           a == ExpandLegacyScenarioBlock(p)
<1>1. a \in Kept /\ a \in Action
  BY SingleKept, ActionType
<1>2. /\ Store(a) /\ rest' = rest /\ split' = split
      /\ bare' = (bare \/ BareTrigger(p))
  BY DEF Inject
<1>3. p \in Seq(Param)
  BY DEF KV, Param
<1>4. ~ BareTrigger(p) => Own(a)
  BY <1>3, ExpandStored
<1> HIDE DEF a, p
<1>5. /\ queue' \in Seq(Action) /\ cutsAsked' \in Nat
      /\ ~ split => queue' \in Seq(Kept)
      /\ ~ split /\ ~ bare /\ Own(a) => Execute(queue').cuts = cutsAsked'
  BY <1>1, <1>2, StoreKeeps
<1>6. /\ rest \in Seq(Action) /\ split \in BOOLEAN /\ bare' \in BOOLEAN
      /\ ~ split => rest \in Seq(Kept)
      /\ ~ split /\ ~ bare => \A i \in DOMAIN rest : Own(rest[i])
  BY <1>2 DEF QueueInv
<1> QED
  BY <1>2, <1>4, <1>5, <1>6 DEF QueueInv

\* Every step keeps the invariant.
LEMMA QueueStep == QueueInv /\ [Next]_vars => QueueInv'
<1> SUFFICES ASSUME QueueInv, [Next]_vars PROVE QueueInv'
  OBVIOUS
<1>0. WholeBlock \in SUBSET Nat
  BY BlockFits
<1>1. ASSUME NEW k \in BlockIndex, NEW v \in Value, Inject(k, v) PROVE QueueInv'
  <2>1. k \in Nat
    BY <1>0 DEF WholeBlock
  <2> QED
    BY <1>1, <2>1, InjectKeeps
<1>2. ASSUME NEW b \in Bit, Inject(IndexSecurityOutlets, Num({b})) PROVE QueueInv'
  <2>1. IndexSecurityOutlets \in Nat
    BY <1>0 DEF WholeBlock
  <2>2. Num({b}) \in Value
    BY DEF Value
  <2> QED
    BY <1>2, <2>1, <2>2, InjectKeeps
<1>3. ASSUME NEW k \in OtherIndex \cup {IndexScenario}, Inject(k, Num({0})) PROVE QueueInv'
  <2>1. k \in Nat
    BY <1>0, BlockAssumption DEF WholeBlock
  <2>2. Num({0}) \in Value
    BY ParamsAssumption DEF Value
  <2> QED
    BY <1>3, <2>1, <2>2, InjectKeeps
<1>4. ASSUME NEW slot \in {Num({1}), Num({0, 1})}, LaunchScenario(slot) PROVE QueueInv'
  <2> DEFINE p == KV(IndexScenario, slot)
             a == <<p>>
  <2>1. slot \in Value /\ slot # Num({0})
    <3>1. slot \in Value
      BY ParamsAssumption DEF Value
    <3>2. slot.bits # Num({0}).bits
      <4>1. Num({1}).bits = {1} /\ Num({0, 1}).bits = {0, 1} /\ Num({0}).bits = {0}
        BY ValueFields
      <4>2. 1 \in {1} /\ 1 \in {0, 1} /\ 1 \notin {0}
        OBVIOUS
      <4> QED
        BY <4>1, <4>2
    <3> QED
      BY <3>1, <3>2
  <2>2. p \in Param /\ p.k = IndexScenario /\ p # Trigger
    <3>1. p.v = slot /\ Trigger.v = Num({0})
      BY DEF KV, Trigger
    <3> QED
      BY <2>1, <3>1 DEF KV, Param, IndexScenario
  <2> HIDE DEF p
  <2>3. a \in Seq(Param) /\ Len(a) = 1 /\ DOMAIN a = {1} /\ a[1] = p
    BY <2>2
  <2> HIDE DEF a
  <2>5. a \in Kept /\ a \in Action
    <3>1. a \in Action
      <4>1. 1 \in 1 .. MaxFirmwareParamsPerAction
        BY BlockFits
      <4> QED
        BY <2>3, <4>1 DEF Action
    <3>2. Keys(a) = {IndexScenario}
      BY <2>2, <2>3 DEF Keys
    <3>3. WholeOrNone(a)
      BY <3>2, BlockOrder DEF WholeOrNone
    <3> QED
      BY <3>1, <3>3 DEF Kept
  <2>6. Own(a)
    <3>1. Trigger \notin ToSet(a)
      BY <2>2, <2>3, InAction
    <3> QED
      BY <3>1 DEF Own
  <2>7. Store(a) /\ rest' = rest /\ split' = split /\ bare' = bare
    BY <1>4 DEF LaunchScenario, a, p
  <2>8. /\ queue' \in Seq(Action) /\ cutsAsked' \in Nat
        /\ ~ split => queue' \in Seq(Kept)
        /\ ~ split /\ ~ bare /\ Own(a) => Execute(queue').cuts = cutsAsked'
    BY <2>5, <2>7, StoreKeeps
  <2> QED
    BY <2>6, <2>7, <2>8 DEF QueueInv
<1>5. ASSUME NEW params \in Batches, InjectBatch(params) PROVE QueueInv'
  <2> DEFINE chunks == ChunkExchangeParams(ExpandLegacyScenarioBlock(params), MaxFirmwareParamsPerAction)
  <2>1. params \in Seq(Param)
    BY BlockAssumption
  <2>2. /\ chunks \in Seq(Action)
        /\ Len(chunks) <= 1 =>
             /\ chunks \in Seq(Kept)
             /\ ~ BareTrigger(params) => \A i \in DOMAIN chunks : Own(chunks[i])
    BY <2>1, BatchStored
  <2>3. /\ rest' = chunks /\ split' = (split \/ Len(chunks) > 1) /\ UNCHANGED <<queue, cutsAsked>>
        /\ bare' = (bare \/ BareTrigger(params))
    BY <1>5 DEF InjectBatch
  <2> HIDE DEF chunks
  <2>4. Len(chunks) \in Nat /\ (Len(chunks) <= 1 \/ Len(chunks) > 1)
    BY <2>2
  <2>5. /\ split' \in BOOLEAN /\ bare' \in BOOLEAN
        /\ ~ split' => ~ split /\ Len(chunks) <= 1
        /\ ~ bare' => ~ bare /\ ~ BareTrigger(params)
    BY <2>3, <2>4 DEF QueueInv
  <2> QED
    BY <2>2, <2>3, <2>5 DEF QueueInv
<1>6. CASE StoreChunk
  <2>1. rest \in Seq(Action) /\ rest # <<>> /\ Store(Head(rest)) /\ rest' = Tail(rest)
        /\ split' = split /\ bare' = bare
    BY <1>6 DEF StoreChunk, QueueInv
  <2>2. Head(rest) \in Action /\ rest' \in Seq(Action) /\ Head(rest) = rest[1] /\ 1 \in DOMAIN rest
    BY <2>1
  <2>3. \A i \in DOMAIN rest' : i + 1 \in DOMAIN rest /\ rest'[i] = rest[i + 1]
    BY <2>1
  <2>4. ~ split => Head(rest) \in Kept /\ rest' \in Seq(Kept)
    <3>1. ~ split => rest \in Seq(Kept)
      BY DEF QueueInv
    <3> QED
      BY <2>1, <3>1
  <2>5. /\ queue' \in Seq(Action) /\ cutsAsked' \in Nat
        /\ ~ split => queue' \in Seq(Kept)
        /\ ~ split /\ ~ bare /\ Own(Head(rest)) => Execute(queue').cuts = cutsAsked'
    BY <2>1, <2>2, <2>4, StoreKeeps
  <2>6. ASSUME ~ split, ~ bare PROVE Own(Head(rest)) /\ \A i \in DOMAIN rest' : Own(rest'[i])
    <3>1. \A i \in DOMAIN rest : Own(rest[i])
      BY <2>6 DEF QueueInv
    <3> QED
      BY <2>2, <2>3, <3>1
  <2> QED
    BY <2>1, <2>2, <2>4, <2>5, <2>6 DEF QueueInv
<1>7. CASE StoreFails
  <2>1. rest' = <<>> /\ UNCHANGED <<queue, split, bare, cutsAsked>>
    BY <1>7 DEF StoreFails
  <2>2. <<>> \in Seq(Action) /\ <<>> \in Seq(Kept) /\ \A i \in DOMAIN <<>> : FALSE
    OBVIOUS
  <2> QED
    BY <2>1, <2>2 DEF QueueInv
<1>8. CASE UNCHANGED vars
  BY <1>8 DEF vars, QueueInv
<1> QED
  BY <1>1, <1>2, <1>3, <1>4, <1>5, <1>6, <1>7, <1>8 DEF Next

\* It holds throughout.
LEMMA QueueInvariance == Spec => []QueueInv
<1>1. Init => QueueInv
  <2> SUFFICES ASSUME Init PROVE QueueInv
    OBVIOUS
  <2>1. <<>> \in Seq(Action) /\ <<>> \in Seq(Kept) /\ <<>> \in Seq(Seq(Param)) /\ Len(<<>>) = 0 /\ \A i \in DOMAIN <<>> : FALSE
    OBVIOUS
  <2>2. queue = <<>> /\ rest = <<>> /\ split = FALSE /\ bare = FALSE /\ cutsAsked = 0
    BY DEF Init
  <2> DEFINE none == <<>>
  <2>3. none \in Seq(Seq(Param)) /\ Len(none) = 0
    BY <2>1
  <2> HIDE DEF none
  <2>4. PICK g \in [0 .. Len(none) -> Cabinet] : IsExecution(g, IdleCabinet, none) /\ Execute(none) = g[Len(none)]
    BY <2>3, ExecuteRun
  <2>5. Execute(none) = IdleCabinet
    BY <2>3, <2>4 DEF IsExecution
  <2>6. Execute(queue).cuts = 0
    BY <2>2, <2>5 DEF IdleCabinet, none
  <2> QED
    BY <2>1, <2>2, <2>6 DEF QueueInv
<1> QED
  BY <1>1, QueueStep, PTL DEF Spec

\* The queue of the cabinet and the chunks of a batch hold actions.
THEOREM QueueTypes == Spec => []TypeOK
<1>1. QueueInv => TypeOK
  <2> SUFFICES ASSUME QueueInv PROVE TypeOK
    OBVIOUS
  <2>1. queue \in Seq(Seq(Param)) /\ rest \in Seq(Seq(Param))
    BY ActionType DEF QueueInv
  <2> QED
    BY <2>1 DEF QueueInv, TypeOK
<1> QED
  BY <1>1, QueueInvariance, PTL

\* For every request of any length and any limit that takes a whole block: no stored and
\* no delivered action is empty or longer than the firmware accepts.
THEOREM FitsFirmwareThm == Spec => []FitsFirmware
<1>1. QueueInv => FitsFirmware
  <2> SUFFICES ASSUME QueueInv PROVE FitsFirmware
    OBVIOUS
  <2>1. queue \in Seq(Action)
    BY DEF QueueInv
  <2>2. \A i \in DOMAIN queue : Len(queue[i]) \in 1 .. MaxFirmwareParamsPerAction
    <3>1. \A i \in DOMAIN queue : queue[i] \in Action
      BY <2>1
    <3> QED
      BY <3>1 DEF Action
  <2>3. \A x \in DOMAIN Delivery : Len(Delivery[x]) \in 1 .. MaxFirmwareParamsPerAction
    BY <2>1, DeliveryFits DEF Delivery
  <2> QED
    BY <2>2, <2>3 DEF FitsFirmware
<1> QED
  BY <1>1, QueueInvariance, PTL

\* The waiting actions and their merged delivery lead to cabinets that agree.
LEMMA QueueAgrees ==
  ASSUME QueueInv, ~ split
  PROVE  Agree(NumericQueue /\ OwnTriggers, Execute(queue), Execute(Delivery))
<1>1. queue \in Seq(Kept) /\ queue \in Seq(Seq(Param))
  BY ActionType DEF QueueInv
<1>2. \A i \in DOMAIN queue : queue[i] \in Kept
  BY <1>1
<1>3. \A i \in DOMAIN queue : WholeOrNone(queue[i])
  BY <1>2 DEF Kept
<1>4. NumericQueue /\ OwnTriggers =>
        \A i \in DOMAIN queue :
          NumericAction(queue[i]) /\ (IsPureBlockAction(queue[i]) => Trigger \in ToSet(queue[i]))
  BY DEF NumericQueue, NumericAction, OwnTriggers
<1> QED
  BY <1>1, <1>3, <1>4, DeliveryAgrees DEF Delivery

\* For every queue of requests that each fit an action, of any length, on any number of
\* lights and shutters, whose light commands trigger scenario "1" and give lamps numbers:
\* delivering it merged leaves lamps, shutters and outlets where its commands one by one
\* would have put them, runs the same scenarios and other commands, and each of these
\* finds the same lamps and shutters.
THEOREM SameEffectThm == Spec => []SameEffect
<1>1. QueueInv => SameEffect
  BY QueueAgrees DEF SameEffect, Agree, Effect
<1> QED
  BY <1>1, QueueInvariance, PTL

\* As long as every request fits one action, and none is a bare trigger of scenario "1",
\* the merged delivery cuts the security outlets exactly as often as it was asked to.
THEOREM CutsThm == Spec => []CutsOnlyOnRequestUnlessSplit
<1>1. QueueInv => CutsOnlyOnRequestUnlessSplit
  <2> SUFFICES ASSUME QueueInv, ~ split, ~ bare PROVE Execute(Delivery).cuts = cutsAsked
    BY DEF CutsOnlyOnRequestUnlessSplit, CutsOnlyOnRequest
  <2>1. Execute(queue).cuts = cutsAsked
    BY DEF QueueInv
  <2> QED
    BY <2>1, QueueAgrees DEF Agree
<1> QED
  BY <1>1, QueueInvariance, PTL
=============================================================================
