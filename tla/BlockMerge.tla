----------------------------- MODULE BlockMerge -----------------------------
(***************************************************************************)
(* How portal commands are completed, cut into actions, and merged when    *)
(* they wait for one cabinet (internal/domain/order_expansion.go,          *)
(* action_chunk.go, merge_params.go, coalescePendingActions of             *)
(* internal/data/store.go).  An action is a sequence of parameters.        *)
(***************************************************************************)
EXTENDS BlockParams, SequencesExt, FiniteSets

CONSTANTS
  OtherIndex,   \* indices outside 590 and 605..623
  MaxFirmwareParamsPerAction,  \* 30 in the code
  Batches,      \* the parameter lists sent to InjectBatch
  MaxQueue      \* bound on the number of waiting actions

ASSUME BlockAssumption ==
  /\ OtherIndex \subseteq Nat
  /\ OtherIndex \cap ({IndexScenario} \cup IndexLightStart .. IndexSecurityOutlets) = {}
  /\ MaxFirmwareParamsPerAction \in Nat /\ MaxFirmwareParamsPerAction >= Cardinality(BlockIndex) + 2
  /\ Batches \subseteq Seq(Param)
  /\ MaxQueue \in Nat

Keys(params) == {params[i].k : i \in DOMAIN params}

-----------------------------------------------------------------------------
(* order_expansion.go, action_chunk.go                                     *)

\* sort.Slice on distinct indices.
Sorted(S) ==
  [i \in 1 .. Cardinality(S) |-> CHOOSE k \in S : Cardinality({j \in S : j < k}) = i - 1]

\* The pairs of a map from indices to values, sorted by index.
SortedPairs(f) ==
  LET ks == Sorted(DOMAIN f) IN [i \in DOMAIN ks |-> KV(ks[i], f[ks[i]])]

\* The last value a list gives to an index.
LastValue(params, k) ==
  params[CHOOSE i \in DOMAIN params :
           params[i].k = k /\ \A j \in DOMAIN params : params[j].k = k => j <= i].v

\* A request that touches 605..623 becomes 590 (default "1"), the whole block
\* 605..623 (default "0") and its other indices, without duplicates (the last value
\* of an index wins) and sorted.  Other requests are stored as they are.
ExpandLegacyScenarioBlock(params) ==
  IF Keys(params) \cap IndexLightStart .. IndexSecurityOutlets = {} THEN params
  ELSE SortedPairs([k \in Keys(params) \cup {IndexScenario} \cup IndexLightStart .. IndexSecurityOutlets |->
             IF k \in Keys(params) THEN LastValue(params, k)
             ELSE IF k = IndexScenario THEN Num({0}) ELSE Num({})])

\* Mutant: the last chunk keeps one parameter too many.
ChunkOffByOne(params, max) ==
  LET n == (Len(params) + max - 2) \div max
  IN  [c \in 1 .. n |-> SubSeq(params, (c - 1) * max + 1, IF c = n THEN Len(params) ELSE c * max)]

ChunkExchangeParams(params, max) ==
  LET n == (Len(params) + max - 1) \div max
  IN  [c \in 1 .. n |-> SubSeq(params, (c - 1) * max + 1, IF c = n THEN Len(params) ELSE c * max)]

-----------------------------------------------------------------------------
(* merge_params.go                                                         *)

\* Mutant: a security outlets command is merged like the others.
PureIgnoringOutlets(params) ==
  /\ Keys(params) \cap BlockIndex # {}
  /\ Keys(params) \subseteq BlockIndex \cup {IndexScenario, IndexSecurityOutlets}

IsPureBlockAction(params) ==
  /\ Keys(params) \cap BlockIndex # {}
  /\ \A i \in DOMAIN params :
       \/ params[i].k \in BlockIndex \cup {IndexScenario}
       \/ params[i] = KV(IndexSecurityOutlets, Num({}))

\* The inner loop of MergeBlockActions: the parameters of one action.
MergeParams(m, params) ==
  LET after[i \in 0 .. Len(params)] == IF i = 0 THEN m ELSE MergeParam(after[i - 1], params[i])
  IN  after[Len(params)]

\* The outer loop of MergeBlockActions: the actions in their order.
MergeChunks(chunks) ==
  LET after[i \in 0 .. Len(chunks)] == IF i = 0 THEN EmptyMerge ELSE MergeParams(after[i - 1], chunks[i])
  IN  after[Len(chunks)]

\* Mutant: the youngest action is merged first.
MergeReversed(chunks) ==
  LET m == MergeChunks(Reverse(chunks))
  IN  SortedPairs([k \in {IndexScenario, IndexSecurityOutlets} \cup BlockIndex |->
        CASE k = IndexScenario        -> Num({0})
          [] k = IndexSecurityOutlets -> Num({})
          [] OTHER -> MergedValue(m, k)])

\* 590 = "1", the 605..622 block, 623 = "0".
MergeBlockActions(chunks) ==
  LET m == MergeChunks(chunks)
  IN  SortedPairs([k \in {IndexScenario, IndexSecurityOutlets} \cup BlockIndex |->
        CASE k = IndexScenario        -> Num({0})
          [] k = IndexSecurityOutlets -> Num({})
          [] OTHER -> MergedValue(m, k)])

-----------------------------------------------------------------------------
(* coalescePendingActions (store.go): each maximal run of pure block        *)
(* actions is delivered as one action, at the place of its last one.        *)

coalescePendingActions(pending) ==
  LET pure(i) == i \in DOMAIN pending /\ IsPureBlockAction(pending[i])
      ends    == Sorted({i \in DOMAIN pending : ~ (pure(i) /\ pure(i + 1))})
      first(j) == CHOOSE i \in 1 .. j : (\A x \in i .. j : pure(x)) /\ ~ pure(i - 1)
      action(j) == IF ~ pure(j) \/ first(j) = j THEN pending[j]
                   ELSE MergeBlockActions(SubSeq(pending, first(j), j))
  IN  [n \in DOMAIN ends |-> action(ends[n])]

-----------------------------------------------------------------------------
(* The portal handlers that put commands in the queue of the cabinet.       *)

VARIABLES
  queue,      \* the waiting actions, oldest first: their parameters
  rest,       \* the chunks an InjectBatch in progress has not stored yet
  split,      \* TRUE once a request had to be stored as several actions
  bare,       \* TRUE once a request triggered scenario "1" and nothing of its block
  cutsAsked   \* number of stored actions that ask to cut the outlets (590 = 623 = "1")

vars == <<queue, rest, split, bare, cutsAsked>>

Trigger == KV(IndexScenario, Num({0}))
Cut == KV(IndexSecurityOutlets, Num({0}))

\* A request that runs scenario "1" as the cabinet's table has it.
BareTrigger(params) ==
  Trigger \in ToSet(params) /\ Keys(params) \cap IndexLightStart .. IndexSecurityOutlets = {}

Init == queue = <<>> /\ rest = <<>> /\ split = FALSE /\ bare = FALSE /\ cutsAsked = 0

\* EnqueueCloudAction, seen from the cabinet's queue.
Store(params) ==
  /\ queue' = Append(queue, params)
  /\ cutsAsked' = cutsAsked + IF {Trigger, Cut} \subseteq ToSet(params) THEN 1 ELSE 0

Room == Len(queue) + Len(rest) < MaxQueue

\* POST /api/portal/inject: one index, completed, stored as one action.
Inject(k, v) ==
  /\ Room
  /\ Store(ExpandLegacyScenarioBlock(<<KV(k, v)>>))
  /\ bare' = (bare \/ BareTrigger(<<KV(k, v)>>))
  /\ UNCHANGED <<rest, split>>

\* POST /api/portal/inject/batch: completed first, then cut in chunks.
InjectBatch(params) ==
  LET chunks == ChunkExchangeParams(ExpandLegacyScenarioBlock(params), MaxFirmwareParamsPerAction) IN
  /\ rest = <<>> /\ Len(queue) + Len(chunks) <= MaxQueue
  /\ rest' = chunks
  /\ split' = (split \/ Len(chunks) > 1)
  /\ bare' = (bare \/ BareTrigger(params))
  /\ UNCHANGED <<queue, cutsAsked>>

\* The loop of InjectBatch: each chunk is a statement of its own, and commands of other
\* requests may come between two chunks.
StoreChunk ==
  /\ rest # <<>>
  /\ Store(Head(rest))
  /\ rest' = Tail(rest)
  /\ UNCHANGED <<split, bare>>

\* A chunk cannot be stored: the handler answers an error, the chunks stored before it
\* stay, the others are dropped.
StoreFails ==
  /\ rest # <<>>
  /\ rest' = <<>>
  /\ UNCHANGED <<queue, split, bare, cutsAsked>>

\* POST /api/portal/scenarios/{slot}/launch, slots 2 and above: 590 = slot.
LaunchScenario(slot) ==
  /\ Room
  /\ Store(<<KV(IndexScenario, slot)>>)
  /\ UNCHANGED <<rest, split, bare>>

Next ==
  \/ \E k \in BlockIndex, v \in Value : Inject(k, v)
  \/ \E b \in Bit : Inject(IndexSecurityOutlets, Num({b}))
  \/ Inject(IndexScenario, Num({0}))
  \/ \E k \in OtherIndex : Inject(k, Num({0}))
  \/ \E slot \in {Num({1}), Num({0, 1})} : LaunchScenario(slot)
  \/ \E params \in Batches : InjectBatch(params)
  \/ StoreChunk
  \/ StoreFails

Spec == Init /\ [][Next]_vars

-----------------------------------------------------------------------------
(* The cabinet, as the comments of order_expansion.go and merge_params.go   *)
(* and the design notes of the security outlets describe it: an action is   *)
(* written in the exchange table, which keeps its values, and only 590      *)
(* makes the cabinet act: "1" runs the block 605..623 as the table has it   *)
(* by then, another value runs another scenario.                            *)

IdleCabinet == [lamps |-> [k \in BlockIndex |-> {}],
                table |-> [k \in IndexLightStart .. IndexSecurityOutlets |-> Num({})],
                cuts |-> 0, outlets |-> "untouched", log |-> <<>>]

\* The table, with the parameters of an action written in it.
Written(table, a) ==
  [k \in IndexLightStart .. IndexSecurityOutlets |-> IF k \in Keys(a) THEN LastValue(a, k) ELSE table[k]]

\* What an action asks for besides lights and shutters: other indices, other scenarios,
\* the outlets.
Besides(a) ==
  {p \in ToSet(a) : p.k \notin BlockIndex /\ p # Trigger /\ p # KV(IndexSecurityOutlets, Num({}))}

ExecuteAction(c, a) ==
  LET table == Written(c.table, a)
      trigger == Trigger \in ToSet(a)
      cut == trigger /\ table[IndexSecurityOutlets] = Num({0})
      restore == trigger /\ table[IndexSecurityOutlets] = Num({1})
  IN  [lamps   |-> IF trigger THEN RunBlock(c.lamps, table) ELSE c.lamps,
       table   |-> table,
       cuts    |-> c.cuts + IF cut THEN 1 ELSE 0,
       outlets |-> IF cut THEN "cut" ELSE IF restore THEN "restored" ELSE c.outlets,
       log     |-> IF Besides(a) = {} THEN c.log
                   ELSE Append(c.log, [cmd |-> Besides(a), lamps |-> c.lamps])]

Execute(actions) ==
  LET after[i \in 0 .. Len(actions)] == IF i = 0 THEN IdleCabinet ELSE ExecuteAction(after[i - 1], actions[i])
  IN  after[Len(actions)]

-----------------------------------------------------------------------------
(* Properties of the queue and of its merged delivery.                      *)

\* The queue and the chunks of a batch are actions.
TypeOK ==
  /\ queue \in Seq(Seq(Param)) /\ rest \in Seq(Seq(Param))
  /\ split \in BOOLEAN /\ bare \in BOOLEAN /\ cutsAsked \in Nat

Delivery == coalescePendingActions(queue)

\* No waiting action gives a lamp or a shutter a text.
NumericQueue ==
  \A i \in DOMAIN queue : \A j \in DOMAIN queue[i] :
    queue[i][j].k \in BlockIndex => queue[i][j].v.type = "num"

\* Every waiting light or shutter action triggers scenario "1", and no other one.
OwnTriggers ==
  \A i \in DOMAIN queue : IsPureBlockAction(queue[i]) => Trigger \in ToSet(queue[i])

\* All that shows of a cabinet: lamps and shutters, outlets, and what ran besides and when.
Effect(c) == [lamps |-> c.lamps, cuts |-> c.cuts, outlets |-> c.outlets, log |-> c.log]

\* portal-action-merge.md, "le même effet que les commandes appliquées une à une":
\* delivering the merged actions has the same effect as the commands one by one, on lamps
\* and shutters, on the outlets, on every scenario and other command and what it finds
\* when it runs, whatever masks are left in the table.  Left out are the queues for which
\* the code does not promise it: one with a text for a lamp, which replaces the commands
\* to its index; one with a light command that triggers another scenario, which
\* MergeBlockActions replaces by "1"; and one with a request that was split, whose first
\* part runs a block half of which is older, and whose second part has no trigger but is
\* given one by a merge.
SameEffect ==
  NumericQueue /\ OwnTriggers /\ ~ split => Effect(Execute(Delivery)) = Effect(Execute(queue))

\* No stored and no delivered action is empty or exceeds what the firmware accepts.
FitsFirmware ==
  /\ \A i \in DOMAIN queue : Len(queue[i]) \in 1 .. MaxFirmwareParamsPerAction
  /\ \A n \in DOMAIN Delivery : Len(Delivery[n]) \in 1 .. MaxFirmwareParamsPerAction

\* The cabinet cuts the security outlets exactly as often as it was asked to: no
\* light or shutter command replays an earlier cut. A request that triggers scenario
\* "1" by itself runs whatever the table has, a cut included, and is left out.
CutsOnlyOnRequest == ~ bare => Execute(Delivery).cuts = cutsAsked

\* It does unless a request was too long for one action.
CutsOnlyOnRequestUnlessSplit == ~ split => CutsOnlyOnRequest
=============================================================================
