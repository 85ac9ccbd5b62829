---------------------------- MODULE ExchangeCache ----------------------------
(***************************************************************************)
(* What the cloud knows of the exchange table of one cabinet               *)
(* (internal/data/exchange.go, handlers/gateway.go PushExchange,           *)
(* handlers/portal.go, scenarios.go, light_timers.go, legacyiot/).  The    *)
(* gateway pushes groups of keys into a cached copy; the portal queues     *)
(* commands chunk by chunk and, for scenarios, batches and light timers,   *)
(* writes what it has asked for into the same copy.  Every writer reads    *)
(* the copy, merges its keys over it, and writes it whole.  Beside it, the *)
(* cabinet answers polls with one of two groups of keys, in turn; each     *)
(* answer takes the place of the last (machine_telemetry).                 *)
(*                                                                         *)
(* External: the cabinet, which applies the queued chunks in order (module *)
(* CloudActions) and whose keys also change at home; the gateway, which    *)
(* pushes what the cabinet holds, one push at a time.                      *)
(***************************************************************************)
EXTENDS Integers, Sequences

CONSTANTS
  Key, Value,    \* indices of the exchange table and what they may hold
  Unknown,       \* no value is known of the key
  Factory,       \* what the cabinet holds at first
  SlotCount, ParamCount, Scenario1Base, OffsetEfface,   \* layout of the scenarios (indices.go)
  Trigger, Alarm, Timers,       \* the index 590, the alarm's, those of the light timers
  MaxFirmwareParamsPerAction,
  Definitions,   \* the bodies of PutScenario: some keys of a slot
  Batches,       \* the bodies of InjectBatch
  Minutes,       \* the delays of PutLightTimer
  AtHome,        \* the values that keys may take at home
  Pushed,        \* the groups of keys the gateway pushes
  Groups,        \* the groups of keys of the polls, in turn (pull_groups.go)
  Request,       \* handlers of the portal that may be in progress at once
  Gateway,       \* the handler of the gateway's push
  MaxOrders,     \* bound on the orders of the portal
  MaxChanges,    \* bound on the changes at home
  MaxFaults      \* bound on the handlers, reads and writes that fail

KV == [k : Key, v : Value]
Slot == 1 .. SlotCount

ASSUME ExchangeAssumption ==
  /\ Key \subseteq Int /\ {0, 1} \cup Slot \subseteq Value /\ Value \subseteq 0 .. 255
  /\ Unknown \notin Value /\ Factory \in [Key -> Value]
  /\ {SlotCount, ParamCount, MaxFirmwareParamsPerAction} \subseteq Nat \ {0}
  /\ Scenario1Base \in Int /\ OffsetEfface \in 0 .. ParamCount - 1
  /\ Scenario1Base .. Scenario1Base + SlotCount * ParamCount - 1 \subseteq Key
  /\ {Trigger, Alarm} \cup Timers \subseteq Key
  /\ Definitions \subseteq UNION {[K -> Value] : K \in SUBSET Key}
  /\ Batches \subseteq Seq(KV) /\ AtHome \subseteq KV /\ Minutes \subseteq Value
  /\ Pushed \subseteq SUBSET Key
  /\ Groups \in Seq(SUBSET Key) /\ Groups # <<>>
  /\ Gateway \notin Request
  /\ {MaxOrders, MaxChanges, MaxFaults} \subseteq Nat

VARIABLES
  table,      \* what the cabinet holds
  cache,      \* gateway_exchange_cache
  telemetry,  \* machine_telemetry
  slot,       \* the slot of InfoRotator, which all cabinets share
  asked,      \* the group of keys the cabinet was told to report and has not
  queue,      \* the chunks queued for the cabinet and not applied yet
  req,        \* the handlers in progress
  whole,      \* the orders to keep that were queued whole
  held,       \* what the cabinet has held, by key
  used        \* how much of each bound is spent

vars == <<table, cache, telemetry, slot, asked, queue, req, whole, held, used>>

Handler == Request \cup {Gateway}
Idle == [op |-> "idle"]
Nothing == [k \in Key |-> Unknown]
Goto(p, next) == req' = [req EXCEPT ![p] = next]
Spend(what, bound) == used[what] < bound /\ used' = [used EXCEPT ![what] = @ + 1]

Init ==
  /\ table = Factory
  /\ cache = Nothing /\ telemetry = Nothing
  /\ slot = 1 /\ asked = {} /\ queue = <<>>
  /\ req = [p \in Handler |-> Idle]
  /\ whole = {} /\ held = [k \in Key |-> {Factory[k]}]
  /\ used = [orders |-> 0, changes |-> 0, faults |-> 0]

\* A list of keys and values, as a map: the last value of a key counts.
Keys(kvs) == {kvs[i].k : i \in DOMAIN kvs}
Map(kvs) ==
  LET at(k) == CHOOSE i \in DOMAIN kvs : kvs[i].k = k /\ \A j \in DOMAIN kvs : kvs[j].k = k => j <= i
  IN  [k \in Keys(kvs) |-> kvs[at(k)].v]

-----------------------------------------------------------------------------
(* exchange.go                                                             *)

\* Mutant: what is there already wins.
MergeKeepsOld(primary, secondary) ==
  [k \in Key |-> IF secondary[k] # Unknown THEN secondary[k]
                 ELSE IF k \in DOMAIN primary THEN primary[k] ELSE Unknown]

\* MergeExchangeKeys, for the keys of both: the primary values win.
MergeExchangeKeys(primary, secondary) ==
  [k \in Key |-> IF k \in DOMAIN primary /\ primary[k] # Unknown THEN primary[k] ELSE secondary[k]]

\* UpsertGatewayExchange reads the copy; a read that fails is taken for an empty copy ...
GetGatewayExchange(p, keys, ok) ==
  /\ Goto(p, [op |-> "upsert", keys |-> keys, read |-> IF ok THEN cache ELSE Nothing, ok |-> ok])
  /\ IF ok THEN UNCHANGED used ELSE Spend("faults", MaxFaults)

\* Mutant: the new keys take the place of all the others.
UpsertReplaces(p) ==
  /\ req[p].op = "upsert" /\ Goto(p, Idle)
  /\ cache' = MergeExchangeKeys(req[p].keys, Nothing)
  /\ UNCHANGED <<table, telemetry, slot, asked, queue, whole, held, used>>

\* ... and writes it whole.
UpsertGatewayExchange(p) ==
  /\ req[p].op = "upsert" /\ Goto(p, Idle)
  /\ cache' = MergeExchangeKeys(req[p].keys, req[p].read)
  /\ UNCHANGED <<table, telemetry, slot, asked, queue, whole, held, used>>

-----------------------------------------------------------------------------
(* The gateway and the cabinet.                                            *)

PushExchange(K, ok) ==
  /\ req[Gateway] = Idle
  /\ GetGatewayExchange(Gateway, [k \in K |-> table[k]], ok)
  /\ UNCHANGED <<table, cache, telemetry, slot, asked, queue, whole, held>>

\* Mutant: the groups do not take turns.
NextStays == slot

\* InfoRotator.Next
NextSlot == (slot % Len(Groups)) + 1

\* The cabinet is told which keys to report: the next group ...
ServerInfos ==
  /\ asked = {} /\ asked' = Groups[slot]
  /\ slot' = NextSlot
  /\ UNCHANGED <<table, cache, telemetry, queue, req, whole, held, used>>

\* ... or another cabinet is, which moves the rotator on.
OtherServerInfos ==
  /\ slot' = NextSlot
  /\ UNCHANGED <<table, cache, telemetry, asked, queue, req, whole, held, used>>

\* SaveClientData: the report takes the place of the last one.
SaveClientData == telemetry' = [k \in Key |-> IF k \in asked THEN table[k] ELSE Unknown]

\* MyStatus: the cabinet reports; an error of the statement is only logged.
MyStatus(ok) ==
  /\ asked # {} /\ asked' = {}
  /\ \/ ok /\ SaveClientData /\ UNCHANGED used
     \/ ~ ok /\ Spend("faults", MaxFaults) /\ UNCHANGED telemetry
  /\ UNCHANGED <<table, cache, slot, queue, req, whole, held>>

Holds(new) ==
  /\ table' = new
  /\ held' = [k \in Key |-> held[k] \cup {new[k]}]

\* The cabinet applies the next chunk.
Apply ==
  /\ queue # <<>> /\ queue' = Tail(queue)
  /\ Holds([k \in Key |-> IF k \in Keys(Head(queue)) THEN Map(Head(queue))[k] ELSE table[k]])
  /\ UNCHANGED <<cache, telemetry, slot, asked, req, whole, used>>

\* Somebody acts at home.
ChangeAtHome(k, v) ==
  /\ table[k] # v /\ Spend("changes", MaxChanges)
  /\ Holds([table EXCEPT ![k] = v])
  /\ UNCHANGED <<cache, telemetry, slot, asked, queue, req, whole>>

-----------------------------------------------------------------------------
(* The portal.  Its access checks are module Accounts'; an index of the    *)
(* light block, which is completed first, is module BlockMerge's.          *)

\* The order is cut in chunks to queue; its keys are to be written into the copy, or not.
Start(p, chunks, keep) ==
  /\ req[p] = Idle /\ Spend("orders", MaxOrders)
  /\ Goto(p, [op |-> "enqueue", chunks |-> chunks, todo |-> chunks, keep |-> keep])
  /\ UNCHANGED <<table, cache, telemetry, slot, asked, queue, whole, held>>

ChunkExchangeParams(kvs) ==
  LET max == MaxFirmwareParamsPerAction  n == (Len(kvs) + max - 1) \div max
  IN  [c \in 1 .. n |-> SubSeq(kvs, (c - 1) * max + 1, IF c = n THEN Len(kvs) ELSE c * max)]

SlotBaseIndex(s) == Scenario1Base + (s - 1) * ParamCount

ValidateDefinition(s, params) == DOMAIN params \subseteq SlotBaseIndex(s) .. SlotBaseIndex(s) + ParamCount - 1

\* All the keys of the slot, 0 for the ones that are not given.
WriteDefinitionChunks(s, params) ==
  ChunkExchangeParams([i \in 1 .. ParamCount |->
    LET k == SlotBaseIndex(s) + i - 1 IN
    [k |-> k, v |-> IF k \in DOMAIN params THEN params[k] ELSE 0]])

\* The first slot belongs to the server.
PutScenario(p, s, params) ==
  /\ params # <<>> /\ ValidateDefinition(s, params) /\ s # 1
  /\ Start(p, WriteDefinitionChunks(s, params), TRUE)

LaunchScenario(p, s) ==
  /\ s >= 2
  /\ Start(p, << << [k |-> Trigger, v |-> s] >> >>, FALSE)

\* RestorePresetParams: the slots 2 to 6 have a preset, PresetEffaceValue of s is s.
RestoreScenario(p, s) ==
  /\ s \in 2 .. 6
  /\ Start(p, << << [k |-> SlotBaseIndex(s) + OffsetEfface, v |-> s] >> >>, FALSE)

PutLightTimer(p, k, minutes) ==
  Start(p, << << [k |-> k, v |-> minutes] >> >>, TRUE)

Inject(p, kv) == Start(p, << <<kv>> >>, FALSE)

InjectBatch(p, kvs) ==
  /\ kvs # <<>> /\ Len(kvs) <= 96
  /\ Start(p, ChunkExchangeParams(kvs), TRUE)

\* The alarm is set or not; the code that goes with it is left out.
PostWebActions(p, on) == Start(p, << << [k |-> Alarm, v |-> on] >> >>, FALSE)

\* flattenChunks: all the keys of the order.
flattenChunks(chunks) ==
  LET at(k) == CHOOSE i \in DOMAIN chunks :
                 k \in Keys(chunks[i]) /\ \A j \in DOMAIN chunks : k \in Keys(chunks[j]) => j <= i
  IN  [k \in UNION {Keys(chunks[i]) : i \in DOMAIN chunks} |-> Map(chunks[at(k)])[k]]

\* One turn of the loop over the chunks.
EnqueueCloudAction(p) ==
  /\ req[p].op = "enqueue"
  /\ LET rest == Tail(req[p].todo)  end == rest = <<>> /\ req[p].keep IN
       /\ queue' = Append(queue, Head(req[p].todo))
       /\ Goto(p, CASE rest # <<>> -> [req[p] EXCEPT !.todo = rest]
                    [] end -> [op |-> "queued", chunks |-> req[p].chunks]
                    [] OTHER -> Idle)
       /\ whole' = IF end THEN whole \cup {flattenChunks(req[p].chunks)} ELSE whole
  /\ UNCHANGED <<table, cache, telemetry, slot, asked, held, used>>

\* Mutant: the copy is written before the chunks are queued.
KeepEarly(p, ok) ==
  /\ req[p].op = "queued" \/ (req[p].op = "enqueue" /\ req[p].keep)
  /\ GetGatewayExchange(p, flattenChunks(req[p].chunks), ok)
  /\ UNCHANGED <<table, cache, telemetry, slot, asked, queue, whole, held>>

\* The order is queued whole; its keys are written into the copy.
Keep(p, ok) ==
  /\ req[p].op = "queued"
  /\ GetGatewayExchange(p, flattenChunks(req[p].chunks), ok)
  /\ UNCHANGED <<table, cache, telemetry, slot, asked, queue, whole, held>>

\* A statement fails or the process stops: what is queued stays queued.
Fail(p) ==
  /\ req[p] # Idle /\ Spend("faults", MaxFaults)
  /\ Goto(p, Idle)
  /\ UNCHANGED <<table, cache, telemetry, slot, asked, queue, whole, held>>

-----------------------------------------------------------------------------
Continue(p) ==
  \/ EnqueueCloudAction(p)
  \/ \E ok \in BOOLEAN : Keep(p, ok)
  \/ UpsertGatewayExchange(p)

Ask(p) ==
  \/ \E s \in Slot :
       \/ \E params \in Definitions : PutScenario(p, s, params)
       \/ LaunchScenario(p, s)
       \/ RestoreScenario(p, s)
  \/ \E k \in Timers, minutes \in Minutes : PutLightTimer(p, k, minutes)
  \/ \E kv \in AtHome : Inject(p, kv)
  \/ \E kvs \in Batches : InjectBatch(p, kvs)
  \/ \E on \in {0, 1} : PostWebActions(p, on)

Push(K) == \E ok \in BOOLEAN : PushExchange(K, ok)

Next ==
  \/ \E K \in Pushed : Push(K)
  \/ ServerInfos \/ OtherServerInfos
  \/ \E ok \in BOOLEAN : MyStatus(ok)
  \/ Apply
  \/ \E kv \in AtHome : ChangeAtHome(kv.k, kv.v)
  \/ \E p \in Request : Ask(p)
  \/ \E p \in Handler : Continue(p) \/ Fail(p)

Spec == Init /\ [][Next]_vars

\* The gateway pushes every group again and again, whatever else is in progress; the
\* cabinet polls and applies what is queued; a handler that was started runs to its end.
Fairness ==
  /\ \A K \in Pushed : SF_vars(Push(K))
  /\ WF_vars(ServerInfos) /\ WF_vars(MyStatus(TRUE)) /\ WF_vars(Apply)
  /\ \A p \in Handler : WF_vars(Continue(p))

FairSpec == Spec /\ Fairness

-----------------------------------------------------------------------------
(* Properties.                                                             *)

Copy == [Key -> Value \cup {Unknown}]
Chunks == Seq(Seq(KV)) \ {<<>>}
Partial == UNION {[K -> Value] : K \in SUBSET Key}
Message ==
  {Idle}
  \cup [op : {"enqueue"}, chunks : Chunks, todo : Chunks, keep : BOOLEAN]
  \cup [op : {"queued"}, chunks : Chunks]
  \cup [op : {"upsert"}, keys : Partial, read : Copy, ok : BOOLEAN]

\* The copies of the table and the handlers' local state have their types.
TypeOK ==
  /\ table \in [Key -> Value] /\ held \in [Key -> SUBSET Value]
  /\ cache \in Copy /\ telemetry \in Copy
  /\ slot \in DOMAIN Groups /\ asked \subseteq Key
  /\ queue \in Seq(Seq(KV)) /\ req \in [Handler -> Message]
  /\ whole \subseteq Partial
  /\ used \in [orders : 0 .. MaxOrders, changes : 0 .. MaxChanges, faults : 0 .. MaxFaults]

\* What a writer has read is not what it writes over, or could not be read.
Blind(p) == req[p].op = "upsert" /\ (~ req[p].ok \/ req[p].read # cache)

\* security-outlet-state/spec.md: a key that was pushed is answered from then on.  The merge
\* of UpsertGatewayExchange keeps the keys it does not write: a key leaves the copy only by
\* a writer that read it before another wrote, or whose read failed.
KeysNeverLost ==
  [][\A k \in Key : cache[k] # Unknown =>
       \/ cache'[k] # Unknown
       \/ \E p \in Handler : Blind(p) /\ req'[p] = Idle]_vars

\* The portal is never ahead of the queue: a value in the copy is one the cabinet has held,
\* or one of an order that was queued whole, although a request may fail between any two of
\* its chunks.
CacheBacked ==
  \A k \in Key : cache[k] # Unknown =>
    \/ cache[k] \in held[k]
    \/ \E o \in whole : k \in DOMAIN o /\ o[k] = cache[k]

\* GetExchange: the copy, and the last poll for the keys it does not hold.
Answer == MergeExchangeKeys(cache, telemetry)

\* Once the orders and the changes at home end, GetExchange answers for good what the
\* cabinet holds for a key the gateway pushes, whatever overlapping writers and failed
\* reads did to the copy.
PushesPrevail == \A k \in UNION Pushed : <>[](Answer[k] = table[k])

\* A key that only the polls read is answered again and again with what the cabinet holds,
\* unless other cabinets keep moving the rotator that all of them share.
PollsRecur ==
  \A k \in UNION {Groups[i] : i \in DOMAIN Groups} :
    \/ []<>(Answer[k] = table[k])
    \/ []<><<OtherServerInfos>>_vars
    \/ <>(cache[k] # Unknown)
=============================================================================
