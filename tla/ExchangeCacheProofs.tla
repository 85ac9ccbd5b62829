------------------------- MODULE ExchangeCacheProofs -------------------------
(***************************************************************************)
(* Proofs about module ExchangeCache, for any table, any layout of the     *)
(* scenarios and any number of handlers.                                   *)
(***************************************************************************)
EXTENDS ExchangeCache, WellFoundedInduction, TLAPS

-----------------------------------------------------------------------------
(* Facts about lists of keys and values.                                   *)

\* A non-empty set of positions of a list has a last element.
LEMMA LastIndex ==
  ASSUME NEW n \in Nat, NEW T \in SUBSET (1 .. n), T # {}
  PROVE  \E i \in T : \A j \in T : j <= i
<1> DEFINE R == OpToRel(<, Nat)
           D == {n - i : i \in T}
<1>1. IsWellFoundedOn(R, Nat)
  BY NatLessThanWellFounded
<1>2. \A U : U \subseteq Nat /\ U # {} => \E x \in U : \A y \in U : ~(<<y, x>> \in R)
  BY <1>1, WFMin
<1>3. \A x, y \in Nat : <<y, x>> \in R <=> y < x
  BY DEF OpToRel
<1> HIDE DEF R
<1>4. D \subseteq Nat /\ D # {}
  <2>1. PICK i \in T : TRUE
    OBVIOUS
  <2>2. n - i \in D
    BY Zenon
  <2>3. \A j \in T : n - j \in Nat
    OBVIOUS
  <2> QED
    BY <2>2, <2>3
<1>5. PICK x \in D : \A y \in D : ~(<<y, x>> \in R)
  BY <1>2, <1>4
<1>6. PICK i \in T : x = n - i
  OBVIOUS
<1>7. ASSUME NEW j \in T
      PROVE  n - j \in D /\ n - j \in Nat
  <2>1. j \in 1 .. n
    OBVIOUS
  <2>2. n - j \in Nat
    BY <2>1, SMT
  <2>3. n - j \in D
    BY Zenon
  <2> QED
    BY <2>2, <2>3
<1>8. \A j \in T : ~(n - j < n - i)
  BY <1>3, <1>4, <1>5, <1>6, <1>7
<1>9. \A j \in T : j <= i
  BY <1>8
<1> QED
  BY <1>9

\* Map gives every key of a list a value of the list.
LEMMA MapType ==
  ASSUME NEW kvs \in Seq(KV)
  PROVE  Keys(kvs) \subseteq Key /\ Map(kvs) \in [Keys(kvs) -> Value]
<1> DEFINE at(k) == CHOOSE i \in DOMAIN kvs : kvs[i].k = k /\ \A j \in DOMAIN kvs : kvs[j].k = k => j <= i
<1>1. \A i \in DOMAIN kvs : kvs[i] \in KV
  OBVIOUS
<1>2. Keys(kvs) \subseteq Key
  BY <1>1 DEF Keys, KV
<1>3. ASSUME NEW k \in Keys(kvs) PROVE at(k) \in DOMAIN kvs
  <2> DEFINE T == {i \in 1 .. Len(kvs) : kvs[i].k = k}
  <2>1. T \in SUBSET (1 .. Len(kvs)) /\ T # {} /\ Len(kvs) \in Nat
    BY DEF Keys
  <2>2. \E i \in T : \A j \in T : j <= i
    BY <2>1, LastIndex
  <2>3. \E i \in DOMAIN kvs : kvs[i].k = k /\ \A j \in DOMAIN kvs : kvs[j].k = k => j <= i
    BY <2>2
  <2> QED
    BY <2>3
<1> HIDE DEF at
<1>4. \A k \in Keys(kvs) : kvs[at(k)].v \in Value
  BY <1>1, <1>3 DEF KV
<1>5. Map(kvs) = [k \in Keys(kvs) |-> kvs[at(k)].v]
  BY DEF Map, at
<1> QED
  BY <1>2, <1>4, <1>5

\* All the keys of an order have values.
LEMMA FlatType ==
  ASSUME NEW chunks \in Seq(Seq(KV))
  PROVE  flattenChunks(chunks) \in Partial
<1> DEFINE at(k) == CHOOSE i \in DOMAIN chunks :
             k \in Keys(chunks[i]) /\ \A j \in DOMAIN chunks : k \in Keys(chunks[j]) => j <= i
           K == UNION {Keys(chunks[i]) : i \in DOMAIN chunks}
<1>1. \A i \in DOMAIN chunks : chunks[i] \in Seq(KV)
  OBVIOUS
<1>2. K \subseteq Key
  BY <1>1, MapType
<1>3. ASSUME NEW k \in K PROVE at(k) \in DOMAIN chunks /\ k \in Keys(chunks[at(k)])
  <2> DEFINE T == {i \in 1 .. Len(chunks) : k \in Keys(chunks[i])}
  <2>0. PICK i \in DOMAIN chunks : k \in Keys(chunks[i])
    OBVIOUS
  <2>1. DOMAIN chunks = 1 .. Len(chunks) /\ Len(chunks) \in Nat
    OBVIOUS
  <2>2. i \in T
    BY <2>0, <2>1
  <2>3. T \in SUBSET (1 .. Len(chunks)) /\ T # {}
    BY <2>2
  <2>4. \E x \in T : \A j \in T : j <= x
    BY <2>1, <2>3, LastIndex
  <2>5. \E x \in DOMAIN chunks :
          k \in Keys(chunks[x]) /\ \A j \in DOMAIN chunks : k \in Keys(chunks[j]) => j <= x
    BY <2>1, <2>4
  <2> QED
    BY <2>5
<1> HIDE DEF at
<1>4. \A k \in K : Map(chunks[at(k)])[k] \in Value
  BY <1>1, <1>3, MapType
<1>5. flattenChunks(chunks) = [k \in K |-> Map(chunks[at(k)])[k]]
  BY DEF flattenChunks, at
<1> HIDE DEF K
<1>6. flattenChunks(chunks) \in [K -> Value]
  BY <1>4, <1>5
<1> QED
  BY <1>2, <1>6 DEF Partial

-----------------------------------------------------------------------------
(* Facts about the orders of the portal.                                   *)

LEMMA DivFacts ==
  ASSUME NEW x \in Nat, NEW d \in Nat \ {0}
  PROVE  x \div d \in Nat /\ d * (x \div d) <= x /\ x < d * (x \div d) + d
OBVIOUS

LEMMA Mono ==
  ASSUME NEW a \in Nat, NEW b \in Nat, NEW c \in Nat, a <= b
  PROVE  a * c <= b * c
OBVIOUS

\* ChunkExchangeParams cuts a list in lists, and an order is at least one chunk.
LEMMA ChunkType ==
  ASSUME NEW kvs \in Seq(KV), kvs # <<>>
  PROVE  ChunkExchangeParams(kvs) \in Chunks
<1> DEFINE max == MaxFirmwareParamsPerAction
           L == Len(kvs)
           n == (L + max - 1) \div max
           piece(c) == SubSeq(kvs, (c - 1) * max + 1, IF c = n THEN L ELSE c * max)
<1>1. max \in Nat \ {0} /\ L \in Nat \ {0} /\ L + max - 1 \in Nat
  BY ExchangeAssumption
<1>2. n \in Nat /\ max * n <= L + max - 1 /\ L + max - 1 < max * n + max
  BY <1>1, DivFacts
<1>3. n >= 1
  BY <1>1, <1>2
<1>4. ASSUME NEW c \in 1 .. n PROVE piece(c) \in Seq(KV)
  <2> DEFINE lo == (c - 1) * max + 1
             hi == IF c = n THEN L ELSE c * max
  <2>1. c - 1 \in Nat /\ (c - 1) * max \in Nat
    BY <1>1, <1>2
  <2>2. c # n => c * max <= (n - 1) * max
    BY <1>1, <1>2, <1>3, Mono
  <2>3. (n - 1) * max <= L - 1
    BY <1>1, <1>2, <1>3
  <2>4. lo \in 1 .. L + 1 /\ hi \in lo - 1 .. L
    BY <1>1, <1>2, <1>3, <2>1, <2>2, <2>3, Mono
  <2> HIDE DEF lo, hi
  <2>5. SubSeq(kvs, lo, hi) \in Seq(KV)
    BY <2>4
  <2> QED
    BY <2>5 DEF lo, hi
<1> HIDE DEF piece
<1>5. ChunkExchangeParams(kvs) = [c \in 1 .. n |-> piece(c)]
  BY DEF ChunkExchangeParams, piece
<1> HIDE DEF n
<1>6. \A c \in 1 .. n : piece(c) \in Seq(KV)
  BY <1>4
<1> DEFINE cut == [c \in 1 .. n |-> piece(c)]
<1>7. cut \in [1 .. n -> Seq(KV)] /\ n \in Nat
  BY <1>2, <1>6
<1>8. DOMAIN cut = 1 .. n /\ 1 \in 1 .. n
  BY <1>2, <1>3
<1> HIDE DEF cut
<1>9. cut \in Seq(Seq(KV)) /\ cut # <<>>
  BY <1>7, <1>8
<1> QED
  BY <1>5, <1>9 DEF Chunks, cut

\* A definition of a scenario covers the whole slot, within the table.
LEMMA DefinitionType ==
  ASSUME NEW s \in Slot, NEW params \in Definitions
  PROVE  WriteDefinitionChunks(s, params) \in Chunks
<1> DEFINE k(i) == SlotBaseIndex(s) + i - 1
           kv(i) == [k |-> k(i), v |-> IF k(i) \in DOMAIN params THEN params[k(i)] ELSE 0]
           kvs == [i \in 1 .. ParamCount |-> kv(i)]
<1>1. ParamCount \in Nat \ {0} /\ SlotCount \in Nat \ {0} /\ Scenario1Base \in Int /\ s \in 1 .. SlotCount
  BY ExchangeAssumption DEF Slot
<1>2. ASSUME NEW i \in 1 .. ParamCount PROVE kv(i) \in KV
  <2>1. (s - 1) * ParamCount \in Nat /\ s - 1 \in Nat
    BY <1>1
  <2>2. (s - 1) * ParamCount <= (SlotCount - 1) * ParamCount
    BY <1>1, <2>1, Mono
  <2>3. (SlotCount - 1) * ParamCount = SlotCount * ParamCount - ParamCount
    BY <1>1
  <2>4. k(i) \in Scenario1Base .. Scenario1Base + SlotCount * ParamCount - 1
    BY <1>1, <2>1, <2>2, <2>3 DEF SlotBaseIndex
  <2>5. k(i) \in Key
    BY <2>4, ExchangeAssumption
  <2>6. PICK K \in SUBSET Key : params \in [K -> Value]
    BY ExchangeAssumption
  <2>7. 0 \in Value
    BY ExchangeAssumption
  <2> HIDE DEF k
  <2> QED
    BY <2>5, <2>6, <2>7 DEF KV
<1> HIDE DEF kv
<1>3. kvs \in [1 .. ParamCount -> KV] /\ DOMAIN kvs = 1 .. ParamCount /\ 1 \in 1 .. ParamCount
  BY <1>1, <1>2
<1>4. WriteDefinitionChunks(s, params) = ChunkExchangeParams(kvs)
  BY DEF WriteDefinitionChunks, kv, k
<1> HIDE DEF kvs
<1>5. kvs \in Seq(KV) /\ kvs # <<>>
  BY <1>1, <1>3
<1> QED
  BY <1>4, <1>5, ChunkType

\* Whatever the portal is asked for is started as an order of at least one chunk.
LEMMA AskStarts ==
  ASSUME NEW p \in Request, Ask(p)
  PROVE  \E chunks \in Chunks, keep \in BOOLEAN : Start(p, chunks, keep)
<1>0. \A kv \in KV : << <<kv>> >> \in Chunks
  BY DEF Chunks
<1>1. ASSUME NEW s \in Slot, NEW params \in Definitions, PutScenario(p, s, params)
      PROVE  \E chunks \in Chunks, keep \in BOOLEAN : Start(p, chunks, keep)
  BY <1>1, DefinitionType DEF PutScenario
<1>2. ASSUME NEW s \in Slot, LaunchScenario(p, s)
      PROVE  \E chunks \in Chunks, keep \in BOOLEAN : Start(p, chunks, keep)
  <2>1. [k |-> Trigger, v |-> s] \in KV
    BY ExchangeAssumption DEF KV
  <2> QED
    BY <1>0, <1>2, <2>1 DEF LaunchScenario
<1>3. ASSUME NEW s \in Slot, RestoreScenario(p, s)
      PROVE  \E chunks \in Chunks, keep \in BOOLEAN : Start(p, chunks, keep)
  <2>1. ParamCount \in Nat \ {0} /\ SlotCount \in Nat \ {0} /\ Scenario1Base \in Int /\ s \in 1 .. SlotCount
        /\ OffsetEfface \in 0 .. ParamCount - 1
    BY ExchangeAssumption DEF Slot
  <2>2. (s - 1) * ParamCount \in Nat /\ s - 1 \in Nat
    BY <2>1
  <2>3. (s - 1) * ParamCount <= (SlotCount - 1) * ParamCount
    BY <2>1, <2>2, Mono
  <2>4. (SlotCount - 1) * ParamCount = SlotCount * ParamCount - ParamCount
    BY <2>1
  <2>5. SlotBaseIndex(s) + OffsetEfface \in Scenario1Base .. Scenario1Base + SlotCount * ParamCount - 1
    BY <2>1, <2>2, <2>3, <2>4 DEF SlotBaseIndex
  <2>6. [k |-> SlotBaseIndex(s) + OffsetEfface, v |-> s] \in KV
    BY <2>5, ExchangeAssumption DEF KV
  <2> QED
    BY <1>0, <1>3, <2>6 DEF RestoreScenario
<1>4. ASSUME NEW k \in Timers, NEW minutes \in Minutes, PutLightTimer(p, k, minutes)
      PROVE  \E chunks \in Chunks, keep \in BOOLEAN : Start(p, chunks, keep)
  <2>1. [k |-> k, v |-> minutes] \in KV
    BY ExchangeAssumption DEF KV
  <2> QED
    BY <1>0, <1>4, <2>1 DEF PutLightTimer
<1>5. ASSUME NEW kv \in AtHome, Inject(p, kv)
      PROVE  \E chunks \in Chunks, keep \in BOOLEAN : Start(p, chunks, keep)
  BY <1>0, <1>5, ExchangeAssumption DEF Inject
<1>6. ASSUME NEW kvs \in Batches, InjectBatch(p, kvs)
      PROVE  \E chunks \in Chunks, keep \in BOOLEAN : Start(p, chunks, keep)
  BY <1>6, ChunkType, ExchangeAssumption DEF InjectBatch
<1>7. ASSUME NEW on \in {0, 1}, PostWebActions(p, on)
      PROVE  \E chunks \in Chunks, keep \in BOOLEAN : Start(p, chunks, keep)
  <2>1. [k |-> Alarm, v |-> on] \in KV
    BY ExchangeAssumption DEF KV
  <2> QED
    BY <1>0, <1>7, <2>1 DEF PostWebActions
<1> QED
  BY <1>1, <1>2, <1>3, <1>4, <1>5, <1>6, <1>7 DEF Ask

-----------------------------------------------------------------------------
(* Types.                                                                  *)

Used == [orders : 0 .. MaxOrders, changes : 0 .. MaxChanges, faults : 0 .. MaxFaults]

LEMMA SpendType ==
  ASSUME used \in Used,
         Spend("orders", MaxOrders) \/ Spend("changes", MaxChanges) \/ Spend("faults", MaxFaults)
  PROVE  used' \in Used
<1>0. MaxOrders \in Nat /\ MaxChanges \in Nat /\ MaxFaults \in Nat
  BY ExchangeAssumption
<1>1. CASE Spend("orders", MaxOrders)
  <2>1. used.orders + 1 \in 0 .. MaxOrders
    BY <1>0, <1>1 DEF Spend, Used
  <2> QED
    BY <1>1, <2>1 DEF Spend, Used
<1>2. CASE Spend("changes", MaxChanges)
  <2>1. used.changes + 1 \in 0 .. MaxChanges
    BY <1>0, <1>2 DEF Spend, Used
  <2> QED
    BY <1>2, <2>1 DEF Spend, Used
<1>3. CASE Spend("faults", MaxFaults)
  <2>1. used.faults + 1 \in 0 .. MaxFaults
    BY <1>0, <1>3 DEF Spend, Used
  <2> QED
    BY <1>3, <2>1 DEF Spend, Used
<1> QED
  BY <1>1, <1>2, <1>3

LEMMA NothingType == Nothing \in Copy
BY DEF Nothing, Copy

LEMMA MergeType ==
  ASSUME NEW f \in Partial, NEW c \in Copy
  PROVE  MergeExchangeKeys(f, c) \in Copy
<1>1. PICK K \in SUBSET Key : f \in [K -> Value]
  BY DEF Partial
<1>2. \A k \in Key : (IF k \in DOMAIN f /\ f[k] # Unknown THEN f[k] ELSE c[k]) \in Value \cup {Unknown}
  BY <1>1 DEF Copy
<1> QED
  BY <1>2 DEF MergeExchangeKeys, Copy

\* Reading the copy leaves a handler between the read and the write.
LEMMA ReadType ==
  ASSUME TypeOK, NEW p \in Handler, NEW keys \in Partial, NEW ok \in BOOLEAN,
         GetGatewayExchange(p, keys, ok)
  PROVE  req' \in [Handler -> Message] /\ used' \in Used
<1> DEFINE m == [op |-> "upsert", keys |-> keys, read |-> IF ok THEN cache ELSE Nothing, ok |-> ok]
<1>1. (IF ok THEN cache ELSE Nothing) \in Copy
  BY NothingType DEF TypeOK
<1>2. m \in Message
  BY <1>1 DEF Message
<1>3. req' = [req EXCEPT ![p] = m]
  BY DEF GetGatewayExchange, Goto
<1> HIDE DEF m
<1>4. req' \in [Handler -> Message]
  BY <1>2, <1>3 DEF TypeOK
<1>5. used' \in Used
  BY SpendType DEF TypeOK, Used, GetGatewayExchange
<1> QED
  BY <1>4, <1>5

\* Every step keeps the types.
LEMMA TypeStep ==
  ASSUME TypeOK, [Next]_vars
  PROVE  TypeOK'
<1> USE DEF Used
<1>0. Idle \in Message
  BY DEF Message
<1>1. ASSUME NEW K \in Pushed, NEW ok \in BOOLEAN, PushExchange(K, ok) PROVE TypeOK'
  <2>1. K \subseteq Key /\ Gateway \in Handler
    BY ExchangeAssumption DEF Handler
  <2>2. [k \in K |-> table[k]] \in [K -> Value]
    BY <2>1 DEF TypeOK
  <2>3. [k \in K |-> table[k]] \in Partial
    BY <2>1, <2>2 DEF Partial
  <2>4. req' \in [Handler -> Message] /\ used' \in Used
    BY <1>1, <2>1, <2>3, ReadType DEF PushExchange
  <2> QED
    BY <1>1, <2>4 DEF PushExchange, TypeOK
<1>2. NextSlot \in DOMAIN Groups /\ Groups[slot] \subseteq Key
  <2>1. Len(Groups) \in Nat \ {0} /\ DOMAIN Groups = 1 .. Len(Groups)
    BY ExchangeAssumption
  <2>2. slot \in Nat
    BY <2>1 DEF TypeOK
  <2>3. slot % Len(Groups) \in 0 .. Len(Groups) - 1
    BY <2>1, <2>2
  <2>4. Groups[slot] \in SUBSET Key
    BY ExchangeAssumption DEF TypeOK
  <2> QED
    BY <2>1, <2>3, <2>4 DEF NextSlot
<1>3. ASSUME ServerInfos PROVE TypeOK'
  BY <1>2, <1>3 DEF ServerInfos, TypeOK
<1>4. ASSUME OtherServerInfos PROVE TypeOK'
  BY <1>2, <1>4 DEF OtherServerInfos, TypeOK
<1>5. ASSUME NEW ok \in BOOLEAN, MyStatus(ok) PROVE TypeOK'
  <2>1. [k \in Key |-> IF k \in asked THEN table[k] ELSE Unknown] \in Copy
    BY DEF TypeOK, Copy
  <2>2. telemetry' \in Copy
    BY <1>5, <2>1 DEF MyStatus, SaveClientData, TypeOK
  <2>3. used' \in Used
    BY <1>5, SpendType DEF MyStatus, TypeOK
  <2> QED
    BY <1>5, <2>2, <2>3 DEF MyStatus, TypeOK
<1>6. ASSUME Apply PROVE TypeOK'
  <2> DEFINE new == [k \in Key |-> IF k \in Keys(Head(queue)) THEN Map(Head(queue))[k] ELSE table[k]]
  <2>1. Head(queue) \in Seq(KV) /\ Tail(queue) \in Seq(Seq(KV))
    BY <1>6 DEF Apply, TypeOK
  <2>2. new \in [Key -> Value]
    BY <2>1, MapType DEF TypeOK
  <2> HIDE DEF new
  <2>3. table' = new /\ held' = [k \in Key |-> held[k] \cup {new[k]}]
    BY <1>6 DEF Apply, Holds, new
  <2>4. held' \in [Key -> SUBSET Value]
    BY <2>2, <2>3 DEF TypeOK
  <2> QED
    BY <1>6, <2>1, <2>2, <2>3, <2>4 DEF Apply, TypeOK
<1>7. ASSUME NEW kv \in AtHome, ChangeAtHome(kv.k, kv.v) PROVE TypeOK'
  <2>1. kv.k \in Key /\ kv.v \in Value
    BY ExchangeAssumption DEF KV
  <2>2. [table EXCEPT ![kv.k] = kv.v] \in [Key -> Value]
    BY <2>1 DEF TypeOK
  <2>3. table' \in [Key -> Value] /\ held' = [k \in Key |-> held[k] \cup {table'[k]}]
    BY <1>7, <2>2 DEF ChangeAtHome, Holds
  <2>4. held' \in [Key -> SUBSET Value]
    BY <2>3 DEF TypeOK
  <2>5. used' \in Used
    BY <1>7, SpendType DEF ChangeAtHome, TypeOK
  <2> QED
    BY <1>7, <2>3, <2>4, <2>5 DEF ChangeAtHome, TypeOK
<1>8. ASSUME NEW p \in Request, Ask(p) PROVE TypeOK'
  <2>1. PICK chunks \in Chunks, keep \in BOOLEAN : Start(p, chunks, keep)
    BY <1>8, AskStarts
  <2> DEFINE m == [op |-> "enqueue", chunks |-> chunks, todo |-> chunks, keep |-> keep]
  <2>2. m \in Message
    BY DEF Message
  <2>3. req' = [req EXCEPT ![p] = m] /\ Spend("orders", MaxOrders)
    BY <2>1 DEF Start, Goto
  <2> HIDE DEF m
  <2>4. req' \in [Handler -> Message]
    BY <2>2, <2>3 DEF TypeOK
  <2>5. used' \in Used
    BY <2>3, SpendType DEF TypeOK
  <2> QED
    BY <2>1, <2>4, <2>5 DEF Start, TypeOK
<1>9. ASSUME NEW p \in Handler, EnqueueCloudAction(p) PROVE TypeOK'
  <2>1. req[p] \in [op : {"enqueue"}, chunks : Chunks, todo : Chunks, keep : BOOLEAN]
    <3>1. req[p] \in Message /\ req[p].op = "enqueue"
      BY <1>9 DEF EnqueueCloudAction, TypeOK
    <3> QED
      BY <3>1 DEF Message, Idle
  <2> DEFINE rest == Tail(req[p].todo)
             end == rest = <<>> /\ req[p].keep
  <2>2. req[p].todo \in Seq(Seq(KV)) /\ req[p].todo # <<>> /\ req[p].chunks \in Seq(Seq(KV))
    BY <2>1 DEF Chunks
  <2>3. Head(req[p].todo) \in Seq(KV) /\ rest \in Seq(Seq(KV))
    BY <2>2
  <2>4. queue' \in Seq(Seq(KV))
    BY <1>9, <2>3 DEF EnqueueCloudAction, TypeOK
  <2>5. rest # <<>> => [req[p] EXCEPT !.todo = rest] \in Message
    BY <2>1, <2>3 DEF Message, Chunks
  <2>6. [op |-> "queued", chunks |-> req[p].chunks] \in Message
    BY <2>1 DEF Message
  <2>7. req' \in [Handler -> Message]
    <3> DEFINE m == CASE rest # <<>> -> [req[p] EXCEPT !.todo = rest]
                      [] end -> [op |-> "queued", chunks |-> req[p].chunks]
                      [] OTHER -> Idle
    <3>1. m \in Message
      BY <1>0, <2>5, <2>6
    <3>2. req' = [req EXCEPT ![p] = m]
      BY <1>9 DEF EnqueueCloudAction, Goto
    <3> HIDE DEF m
    <3> QED
      BY <3>1, <3>2 DEF TypeOK
  <2>8. whole' \subseteq Partial
    BY <1>9, <2>2, FlatType DEF EnqueueCloudAction, TypeOK
  <2> QED
    BY <1>9, <2>4, <2>7, <2>8 DEF EnqueueCloudAction, TypeOK
<1>10. ASSUME NEW p \in Handler, NEW ok \in BOOLEAN, Keep(p, ok) PROVE TypeOK'
  <2>1. req[p] \in [op : {"queued"}, chunks : Chunks]
    BY <1>10 DEF Keep, TypeOK, Message, Idle
  <2>2. flattenChunks(req[p].chunks) \in Partial
    BY <2>1, FlatType DEF Chunks
  <2>3. req' \in [Handler -> Message] /\ used' \in Used
    BY <1>10, <2>2, ReadType DEF Keep
  <2> QED
    BY <1>10, <2>3 DEF Keep, TypeOK
<1>11. ASSUME NEW p \in Handler, UpsertGatewayExchange(p) PROVE TypeOK'
  <2>1. req[p] \in [op : {"upsert"}, keys : Partial, read : Copy, ok : BOOLEAN]
    BY <1>11 DEF UpsertGatewayExchange, TypeOK, Message, Idle
  <2>2. cache' \in Copy
    BY <1>11, <2>1, MergeType DEF UpsertGatewayExchange
  <2>3. req' \in [Handler -> Message]
    BY <1>0, <1>11 DEF UpsertGatewayExchange, Goto, TypeOK
  <2> QED
    BY <1>11, <2>2, <2>3 DEF UpsertGatewayExchange, TypeOK
<1>12. ASSUME NEW p \in Handler, Fail(p) PROVE TypeOK'
  <2>1. req' \in [Handler -> Message]
    BY <1>0, <1>12 DEF Fail, Goto, TypeOK
  <2>2. used' \in Used
    BY <1>12, SpendType DEF Fail, TypeOK
  <2> QED
    BY <1>12, <2>1, <2>2 DEF Fail, TypeOK
<1>13. ASSUME UNCHANGED vars PROVE TypeOK'
  BY <1>13 DEF vars, TypeOK
<1> QED
  BY <1>1, <1>3, <1>4, <1>5, <1>6, <1>7, <1>8, <1>9, <1>10, <1>11, <1>12, <1>13
  DEF Next, Push, Continue

LEMMA InitTypes ==
  ASSUME Init
  PROVE  TypeOK
<1>1. req \in [Handler -> Message]
  BY DEF Init, Message
<1>2. slot \in DOMAIN Groups
  BY ExchangeAssumption DEF Init
<1>3. used \in Used
  BY ExchangeAssumption DEF Init, Used
<1>4. held \in [Key -> SUBSET Value]
  BY ExchangeAssumption DEF Init
<1> QED
  BY <1>1, <1>2, <1>3, <1>4, NothingType, ExchangeAssumption DEF Init, TypeOK, Used

\* The copies of the exchange table, the queue and the handlers keep their types, whatever
\* the layout of the scenarios: no chunk is empty, and no key outside the table is written.
THEOREM TypeCorrect == Spec => []TypeOK
<1>1. Init => TypeOK
  BY InitTypes
<1>2. TypeOK /\ [Next]_vars => TypeOK'
  BY TypeStep
<1> QED
  BY <1>1, <1>2, PTL DEF Spec

-----------------------------------------------------------------------------
(* KeysNeverLost.                                                          *)

\* A write whose read is the copy that it writes over keeps every key.
LEMMA SightedWrite ==
  ASSUME TypeOK, NEW p \in Handler, UpsertGatewayExchange(p), ~ Blind(p),
         NEW k \in Key, cache[k] # Unknown
  PROVE  cache'[k] # Unknown
<1>1. req[p].read = cache
  BY DEF Blind, UpsertGatewayExchange
<1>2. cache' = MergeExchangeKeys(req[p].keys, cache)
  BY <1>1 DEF UpsertGatewayExchange
<1> QED
  BY <1>2 DEF MergeExchangeKeys

LEMMA KeysStep ==
  ASSUME TypeOK, [Next]_vars, NEW k \in Key, cache[k] # Unknown
  PROVE  cache'[k] # Unknown \/ \E p \in Handler : Blind(p) /\ req'[p] = Idle
<1>1. ASSUME NEW p \in Handler, UpsertGatewayExchange(p)
      PROVE  cache'[k] # Unknown \/ (Blind(p) /\ req'[p] = Idle)
  <2>1. req'[p] = Idle
    BY <1>1 DEF UpsertGatewayExchange, Goto, TypeOK
  <2> QED
    BY <1>1, <2>1, SightedWrite
<1>2. ASSUME NEW p \in Request, Ask(p) PROVE cache' = cache
  BY <1>2, AskStarts DEF Start
<1>3. ASSUME ~ \E p \in Handler : UpsertGatewayExchange(p)
      PROVE  cache' = cache
  BY <1>2, <1>3 DEF Next, Push, PushExchange, ServerInfos, OtherServerInfos, MyStatus, Apply,
                    ChangeAtHome, Continue, EnqueueCloudAction, Keep, Fail, vars
<1> QED
  BY <1>1, <1>3

\* A key leaves the copy only by a writer that read it before another wrote, or whose read
\* failed, for any keys, any number of writers and any number of failures.
THEOREM KeysNeverLostThm == Spec => KeysNeverLost
<1>1. TypeOK /\ [Next]_vars =>
        [\A k \in Key : cache[k] # Unknown =>
           \/ cache'[k] # Unknown
           \/ \E p \in Handler : Blind(p) /\ req'[p] = Idle]_vars
  BY KeysStep
<1> QED
  BY <1>1, TypeCorrect, PTL DEF Spec, KeysNeverLost

-----------------------------------------------------------------------------
(* CacheBacked.  It is not inductive: what a handler has read, and the     *)
(* keys it is about to write, must be backed as well.                      *)

BackedBy(k, v) == v \in held[k] \/ \E o \in whole : k \in DOMAIN o /\ o[k] = v

\* What a handler carries is backed.
Carries(m) ==
  /\ m.op = "queued" => flattenChunks(m.chunks) \in whole
  /\ m.op = "upsert" =>
       /\ \A k \in DOMAIN m.keys : BackedBy(k, m.keys[k])
       /\ \A k \in Key : m.read[k] # Unknown => BackedBy(k, m.read[k])

Inv ==
  /\ TypeOK
  /\ \A k \in Key : table[k] \in held[k]
  /\ CacheBacked
  /\ \A p \in Handler : Carries(req[p])

\* The past of the cabinet and the orders that were queued are never forgotten.
LEMMA Remembers ==
  ASSUME TypeOK, [Next]_vars
  PROVE  whole \subseteq whole' /\ \A k \in Key : held[k] \subseteq held'[k]
<1>1. ASSUME NEW p \in Request, Ask(p) PROVE whole' = whole /\ held' = held
  BY <1>1, AskStarts DEF Start
<1>2. ASSUME NEW p \in Handler, EnqueueCloudAction(p) PROVE whole \subseteq whole' /\ held' = held
  BY <1>2 DEF EnqueueCloudAction
<1>3. ASSUME NEW new, Holds(new) PROVE \A k \in Key : held[k] \subseteq held'[k]
  BY <1>3 DEF Holds
<1>4. ASSUME Apply PROVE whole' = whole /\ \A k \in Key : held[k] \subseteq held'[k]
  BY <1>3, <1>4 DEF Apply
<1>5. ASSUME NEW kv \in AtHome, ChangeAtHome(kv.k, kv.v)
      PROVE  whole' = whole /\ \A k \in Key : held[k] \subseteq held'[k]
  BY <1>3, <1>5 DEF ChangeAtHome
<1> QED
  BY <1>1, <1>2, <1>4, <1>5 DEF Next, Push, PushExchange, ServerInfos, OtherServerInfos, MyStatus,
       Continue, Keep, UpsertGatewayExchange, Fail, vars

\* What is backed stays backed.
LEMMA BackedStays ==
  ASSUME TypeOK, [Next]_vars, NEW k \in Key, NEW v, BackedBy(k, v)
  PROVE  BackedBy(k, v)'
BY Remembers DEF BackedBy

LEMMA CarriesStays ==
  ASSUME TypeOK, [Next]_vars, NEW m \in Message, Carries(m)
  PROVE  Carries(m)'
<1>1. CASE m.op = "queued"
  BY <1>1, Remembers DEF Carries
<1>2. CASE m.op = "upsert"
  <2>1. m \in [op : {"upsert"}, keys : Partial, read : Copy, ok : BOOLEAN]
    BY <1>2 DEF Message, Idle
  <2>2. PICK K \in SUBSET Key : m.keys \in [K -> Value]
    BY <2>1 DEF Partial
  <2>3. \A k \in DOMAIN m.keys : BackedBy(k, m.keys[k])'
    BY <1>2, <2>2, BackedStays DEF Carries
  <2>4. \A k \in Key : m.read[k] # Unknown => BackedBy(k, m.read[k])'
    BY <1>2, BackedStays DEF Carries
  <2> QED
    BY <1>2, <2>3, <2>4 DEF Carries
<1>3. CASE m.op # "queued" /\ m.op # "upsert"
  BY <1>3 DEF Carries
<1> QED
  BY <1>1, <1>2, <1>3

\* It is enough to look at what the handler that moves carries next.
LEMMA MoverCarries ==
  ASSUME Inv, [Next]_vars, NEW p \in Handler, NEW m, Goto(p, m), Carries(m)'
  PROVE  \A q \in Handler : Carries(req[q])'
<1> SUFFICES ASSUME NEW q \in Handler PROVE Carries(req[q])'
  OBVIOUS
<1>1. req'[p] = m /\ (q # p => req'[q] = req[q])
  BY DEF Goto, Inv, TypeOK
<1>2. q # p => Carries(req[q])'
  <2>1. req[q] \in Message /\ Carries(req[q])
    BY DEF Inv, TypeOK
  <2>2. \A n \in Message : Carries(n) => Carries(n)'
    BY CarriesStays DEF Inv
  <2> QED
    BY <1>1, <2>1, <2>2 DEF Carries
<1> QED
  BY <1>1, <1>2 DEF Carries

\* When nothing is written into the copy, it stays backed.
LEMMA CopyStaysBacked ==
  ASSUME Inv, [Next]_vars, cache' = cache
  PROVE  CacheBacked'
<1>1. \A k \in Key : cache[k] # Unknown => BackedBy(k, cache[k])
  BY DEF Inv, CacheBacked, BackedBy
<1>2. \A k \in Key : cache[k] # Unknown => BackedBy(k, cache[k])'
  <2>1. \A k \in Key : \A v : BackedBy(k, v) => BackedBy(k, v)'
    BY BackedStays DEF Inv
  <2> QED
    BY <1>1, <2>1 DEF BackedBy
<1> QED
  BY <1>2 DEF CacheBacked, BackedBy

\* A handler that is about to write carries the keys it was given and the copy it read.
LEMMA ReadCarries ==
  ASSUME Inv, [Next]_vars, NEW p \in Handler, NEW keys \in Partial, NEW ok \in BOOLEAN,
         GetGatewayExchange(p, keys, ok), cache' = cache,
         \A k \in DOMAIN keys : BackedBy(k, keys[k])
  PROVE  \A q \in Handler : Carries(req[q])'
<1> DEFINE m == [op |-> "upsert", keys |-> keys, read |-> IF ok THEN cache ELSE Nothing, ok |-> ok]
<1>1. Goto(p, m)
  BY DEF GetGatewayExchange
<1>2. PICK K \in SUBSET Key : keys \in [K -> Value]
  BY DEF Partial
<1>3. \A k \in DOMAIN keys : BackedBy(k, keys[k])'
  BY <1>2, BackedStays DEF Inv
<1>4. \A k \in Key : m.read[k] # Unknown => BackedBy(k, m.read[k])
  BY DEF Inv, CacheBacked, BackedBy, Nothing
<1>5. \A k \in Key : \A v : BackedBy(k, v) => BackedBy(k, v)'
  BY BackedStays DEF Inv
<1>6. req' = [req EXCEPT ![p] = m] /\ m.op = "upsert" /\ m.keys = keys
  BY <1>1 DEF Goto
<1>7. \A k \in Key : m.read[k] # Unknown => m.read[k] \in held'[k] \/ \E o \in whole' : k \in DOMAIN o /\ o[k] = m.read[k]
  BY <1>4, <1>5 DEF BackedBy
<1> SUFFICES ASSUME NEW q \in Handler PROVE Carries(req[q])'
  OBVIOUS
<1> HIDE DEF m
<1>8. CASE q = p
  <2>1. req'[q] = m
    BY <1>6, <1>8 DEF Inv, TypeOK
  <2> QED
    BY <2>1, <1>3, <1>6, <1>7 DEF Carries, BackedBy
<1>9. CASE q # p
  <2>1. req'[q] = req[q] /\ req[q] \in Message /\ Carries(req[q])
    BY <1>6, <1>9 DEF Inv, TypeOK
  <2>2. \A n \in Message : Carries(n) => Carries(n)'
    BY CarriesStays DEF Inv
  <2> QED
    BY <2>1, <2>2 DEF Carries
<1> QED
  BY <1>8, <1>9

LEMMA SameCarries ==
  ASSUME Inv, [Next]_vars, req' = req
  PROVE  \A q \in Handler : Carries(req[q])'
<1>1. \A n \in Message : Carries(n) => Carries(n)'
  BY CarriesStays DEF Inv
<1>2. \A q \in Handler : req[q] \in Message /\ Carries(req[q])
  BY DEF Inv, TypeOK
<1> QED
  BY <1>1, <1>2 DEF Carries

LEMMA IdleCarries == Carries(Idle) /\ Carries(Idle)'
BY DEF Carries, Idle

LEMMA InvStep ==
  ASSUME Inv, [Next]_vars
  PROVE  Inv'
<1> USE TypeStep DEF Inv
<1>0. TypeOK' /\ Gateway \in Handler /\ Request \subseteq Handler
  BY DEF Handler
<1>T. table' = table => \A k \in Key : table'[k] \in held'[k]
  BY Remembers
<1>1. ASSUME NEW K \in Pushed, NEW ok \in BOOLEAN, PushExchange(K, ok) PROVE Inv'
  <2>1. K \subseteq Key /\ [k \in K |-> table[k]] \in [K -> Value]
    BY ExchangeAssumption DEF TypeOK
  <2>2. [k \in K |-> table[k]] \in Partial
    BY <2>1 DEF Partial
  <2>3. \A k \in K : BackedBy(k, table[k])
    BY <2>1 DEF BackedBy
  <2>4. \A q \in Handler : Carries(req[q])'
    BY <1>0, <1>1, <2>2, <2>3, ReadCarries DEF PushExchange
  <2> QED
    BY <1>0, <1>T, <1>1, <2>4, CopyStaysBacked DEF PushExchange
<1>2. ASSUME ServerInfos \/ OtherServerInfos \/ (\E ok \in BOOLEAN : MyStatus(ok)) \/ UNCHANGED vars
      PROVE  Inv'
  <2>1. table' = table /\ cache' = cache /\ req' = req
    BY <1>2 DEF ServerInfos, OtherServerInfos, MyStatus, vars
  <2> QED
    BY <1>0, <1>T, <2>1, CopyStaysBacked, SameCarries
<1>3. ASSUME Apply \/ \E kv \in AtHome : ChangeAtHome(kv.k, kv.v) PROVE Inv'
  <2>1. cache' = cache /\ req' = req /\ \E new : Holds(new)
    BY <1>3 DEF Apply, ChangeAtHome
  <2>2. \A k \in Key : table'[k] \in held'[k]
    BY <2>1 DEF Holds
  <2> QED
    BY <1>0, <2>1, <2>2, CopyStaysBacked, SameCarries
<1>4. ASSUME NEW p \in Request, Ask(p) PROVE Inv'
  <2>1. PICK chunks \in Chunks, keep \in BOOLEAN : Start(p, chunks, keep)
    BY <1>4, AskStarts
  <2> DEFINE m == [op |-> "enqueue", chunks |-> chunks, todo |-> chunks, keep |-> keep]
  <2>2. Carries(m)'
    BY DEF Carries
  <2>3. Goto(p, m) /\ table' = table /\ cache' = cache
    BY <2>1 DEF Start
  <2> HIDE DEF m
  <2>4. \A q \in Handler : Carries(req[q])'
    BY <1>0, <2>2, <2>3, MoverCarries
  <2> QED
    BY <1>0, <1>T, <2>3, <2>4, CopyStaysBacked
<1>5. ASSUME NEW p \in Handler, EnqueueCloudAction(p) PROVE Inv'
  <2> DEFINE rest == Tail(req[p].todo)
             end == rest = <<>> /\ req[p].keep
             m == CASE rest # <<>> -> [req[p] EXCEPT !.todo = rest]
                    [] end -> [op |-> "queued", chunks |-> req[p].chunks]
                    [] OTHER -> Idle
  <2>1. req[p].op = "enqueue" /\ req' = [req EXCEPT ![p] = m] /\ table' = table /\ cache' = cache
    BY <1>5 DEF EnqueueCloudAction, Goto
  <2>2. req[p] \in [op : {"enqueue"}, chunks : Chunks, todo : Chunks, keep : BOOLEAN]
    <3>1. req[p] \in Message /\ req[p].op = "enqueue"
      BY <2>1 DEF TypeOK
    <3> QED
      BY <3>1 DEF Message, Idle
  <2>3. m.op = "queued" => flattenChunks(m.chunks) \in whole'
    BY <1>5, <2>2 DEF EnqueueCloudAction, Idle
  <2>4. m.op # "upsert"
    BY <2>2 DEF Idle
  <2> HIDE DEF m
  <2>5. req'[p] = m /\ \A q \in Handler : q # p => req'[q] = req[q]
    BY <2>1 DEF TypeOK
  <2>6. Carries(req[p])'
    BY <2>3, <2>4, <2>5 DEF Carries
  <2>7. \A n \in Message : Carries(n) => Carries(n)'
    BY CarriesStays
  <2>8. \A q \in Handler : q # p => req[q] \in Message /\ Carries(req[q])
    BY DEF TypeOK
  <2>9. \A q \in Handler : q # p => Carries(req[q])'
    BY <2>5, <2>7, <2>8 DEF Carries
  <2> QED
    BY <1>0, <1>T, <2>1, <2>6, <2>9, CopyStaysBacked
<1>6. ASSUME NEW p \in Handler, NEW ok \in BOOLEAN, Keep(p, ok) PROVE Inv'
  <2>1. req[p] \in [op : {"queued"}, chunks : Chunks] /\ Carries(req[p])
    BY <1>6 DEF Keep, TypeOK, Message, Idle
  <2> DEFINE o == flattenChunks(req[p].chunks)
  <2>2. o \in whole /\ o \in Partial
    BY <2>1, FlatType DEF Carries, Chunks
  <2>3. GetGatewayExchange(p, o, ok) /\ cache' = cache /\ table' = table
    BY <1>6 DEF Keep
  <2> HIDE DEF o
  <2>4. \A k \in DOMAIN o : BackedBy(k, o[k])
    BY <2>2 DEF BackedBy
  <2>5. \A q \in Handler : Carries(req[q])'
    BY <2>2, <2>3, <2>4, ReadCarries
  <2> QED
    BY <1>0, <1>T, <2>3, <2>5, CopyStaysBacked
<1>7. ASSUME NEW p \in Handler, UpsertGatewayExchange(p) PROVE Inv'
  <2>1. req[p] \in [op : {"upsert"}, keys : Partial, read : Copy, ok : BOOLEAN] /\ Carries(req[p])
    BY <1>7 DEF UpsertGatewayExchange, TypeOK, Message, Idle
  <2>2. cache' = MergeExchangeKeys(req[p].keys, req[p].read) /\ Goto(p, Idle) /\ table' = table
        /\ held' = held /\ whole' = whole
    BY <1>7 DEF UpsertGatewayExchange
  <2>3. \A k \in Key : cache'[k] # Unknown => BackedBy(k, cache'[k])
    BY <2>1, <2>2 DEF Carries, MergeExchangeKeys
  <2>4. CacheBacked'
    BY <2>2, <2>3 DEF CacheBacked, BackedBy
  <2>5. \A q \in Handler : Carries(req[q])'
    BY <2>2, IdleCarries, MoverCarries
  <2> QED
    BY <1>0, <1>T, <2>2, <2>4, <2>5
<1>8. ASSUME NEW p \in Handler, Fail(p) PROVE Inv'
  <2>1. Goto(p, Idle) /\ table' = table /\ cache' = cache
    BY <1>8 DEF Fail
  <2>2. \A q \in Handler : Carries(req[q])'
    BY <2>1, IdleCarries, MoverCarries
  <2> QED
    BY <1>0, <1>T, <2>1, <2>2, CopyStaysBacked
<1> QED
  BY <1>1, <1>2, <1>3, <1>4, <1>5, <1>6, <1>7, <1>8 DEF Next, Push, Continue

\* The portal is never ahead of the queue: for any keys, orders, failures and number of
\* handlers in progress, what the copy holds was held by the cabinet or queued whole.
THEOREM CacheBackedThm == Spec => []CacheBacked
<1>1. Init => Inv
  <2> SUFFICES ASSUME Init PROVE Inv
    OBVIOUS
  <2>1. \A p \in Handler : Carries(req[p])
    BY DEF Init, Carries, Idle
  <2>2. CacheBacked /\ \A k \in Key : table[k] \in held[k]
    BY DEF Init, CacheBacked, Nothing
  <2>3. TypeOK
    BY InitTypes
  <2> QED
    BY <2>1, <2>2, <2>3 DEF Inv
<1>2. Inv /\ [Next]_vars => Inv'
  BY InvStep
<1>3. Inv => CacheBacked
  BY DEF Inv
<1> QED
  BY <1>1, <1>2, <1>3, PTL DEF Spec
=============================================================================
