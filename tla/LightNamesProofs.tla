-------------------------- MODULE LightNamesProofs --------------------------
(***************************************************************************)
(* The merge of light names: types, the bound on times of the future, and  *)
(* that the later name wins, for any catalogue, any number of requests and *)
(* any clock of the gateway.                                               *)
(***************************************************************************)
EXTENDS LightNames, TLAPS

\* LightNameNewer never holds both ways, and a perfect tie is not newer.
THEOREM NewerIsStrict ==
  \A a, b \in Row : LightNameNewer(a, b) => ~ LightNameNewer(b, a)
BY DEF LightNameNewer, Row

\* LightNameNewer is transitive: merging in any order keeps the same name.
THEOREM NewerIsTransitive ==
  \A a, b, c \in Row : LightNameNewer(a, b) /\ LightNameNewer(b, c) => LightNameNewer(a, c)
BY DEF LightNameNewer, Row

\* A clamped time is one of the two it is chosen from, and not too far ahead.
LEMMA ClampOK ==
  ASSUME NEW t \in Nat \cup {-1}, NEW time \in Nat
  PROVE  /\ ClampLightNameTime(t, time) \in Nat \cup {-1}
         /\ ClampLightNameTime(t, time) <= time + LightNameMaxFuture
BY NamesAssumption DEF ClampLightNameTime

\* What the merge stores is a row.
LEMMA MergedOK ==
  ASSUME NEW in \in Row, Readable(in), NEW time \in Nat
  PROVE  /\ Merged(in, time) \in Row
         /\ Merged(in, time).at <= time + LightNameMaxFuture
<1>1. Normalize[in.name] \in Raw
  BY NamesAssumption DEF Readable, Row
<1>2. in.at \in Nat \cup {-1} /\ in.version \in Nat
  BY DEF Row
<1>3. /\ ClampLightNameTime(in.at, time) \in Nat \cup {-1}
      /\ ClampLightNameTime(in.at, time) <= time + LightNameMaxFuture
  BY <1>2, ClampOK
<1> QED
  BY <1>1, <1>2, <1>3 DEF Merged, Row

-----------------------------------------------------------------------------
LEMMA InitIInv == Init => IInv
BY NamesAssumption DEF Init, IInv, TypeOK, SinceOK, FutureBounded, NoName, Idle, Row

\* The shapes of the handlers' local state.
PutState == [op : {"put"}, light : Light, name : Raw, rows : [Light -> Row], since : Nat]
SyncState == [op : {"sync"}, sent : [Light -> Row], rows : [Light -> Row], since : Nat,
              todo : SUBSET Light]
ReqState == [op : {"idle"}] \cup PutState \cup SyncState

LEMMA ReqType == TypeOK <=>
  /\ cloud \in [Light -> Row] /\ gateway \in [Light -> Row]
  /\ now \in 0 .. MaxTime
  /\ req \in [Request -> ReqState]
  /\ renames \in Nat /\ faults \in Nat
BY DEF TypeOK, ReqState, PutState, SyncState

LEMMA PutReq ==
  ASSUME NEW x \in ReqState, x.op = "put"
  PROVE  x \in PutState /\ x # Idle
BY DEF ReqState, PutState, SyncState, Idle

LEMMA SyncReq ==
  ASSUME NEW x \in ReqState, x.op = "sync"
  PROVE  x \in SyncState /\ x # Idle
BY DEF ReqState, PutState, SyncState, Idle

\* A step that leaves the clock and the rows alone and gives one handler a state that is
\* not of the future preserves the invariant.
LEMMA HandlerStep ==
  ASSUME IInv, NEW p \in Request, NEW next \in ReqState, Goto(p, next),
         next # Idle => next.since <= now,
         cloud' \in [Light -> Row], gateway' \in [Light -> Row],
         now' = now, renames' \in Nat, faults' \in Nat,
         FutureBounded'
  PROVE  IInv'
<1>1. req \in [Request -> ReqState] /\ now \in 0 .. MaxTime
  BY ReqType DEF IInv
<1>2. req' \in [Request -> ReqState]
  BY <1>1 DEF Goto
<1>3. TypeOK'
  BY <1>1, <1>2 DEF TypeOK, ReqState, PutState, SyncState
<1>4. SinceOK'
  BY <1>1 DEF Goto, SinceOK, IInv
<1> QED
  BY <1>3, <1>4 DEF IInv
-----------------------------------------------------------------------------
LEMMA PutLightNameIInv ==
  ASSUME IInv, NEW p \in Request, NEW l \in Light, NEW n \in Raw, PutLightName(p, l, n)
  PROVE  IInv'
<1> DEFINE next == [op |-> "put", light |-> l, name |-> Normalize[n], rows |-> cloud,
                    since |-> now]
<1>1. Normalize[n] \in Raw
  BY NamesAssumption DEF PutLightName
<1>2. cloud \in [Light -> Row] /\ gateway \in [Light -> Row] /\ now \in Nat
      /\ renames \in Nat /\ faults \in Nat
  BY NamesAssumption DEF IInv, TypeOK
<1>3. next \in ReqState
  BY <1>1, <1>2 DEF ReqState, PutState
<1>4. FutureBounded'
  BY <1>2 DEF PutLightName, FutureBounded, IInv
<1>5. Goto(p, next) /\ next.since <= now
  BY <1>2 DEF PutLightName
<1> HIDE DEF next
<1> QED
  BY <1>2, <1>3, <1>4, <1>5, HandlerStep DEF PutLightName

LEMMA SetLightNameIInv ==
  ASSUME IInv, NEW p \in Request, NEW at \in 0 .. MaxTime, SetLightName(p, at)
  PROVE  IInv'
<1>1. /\ cloud \in [Light -> Row] /\ gateway \in [Light -> Row] /\ now \in Nat
      /\ renames \in Nat /\ faults \in Nat /\ req \in [Request -> ReqState]
  BY NamesAssumption, ReqType DEF IInv
<1>2. req[p] \in PutState
  BY <1>1, PutReq DEF SetLightName
<1> DEFINE l == req[p].light
           row == [name |-> req[p].name, version |-> cloud[l].version + 1, at |-> at]
<1>3. l \in Light /\ req[p].name \in Raw
  BY <1>2 DEF PutState
<1>4. row \in Row
  BY <1>1, <1>3, NamesAssumption DEF Row
<1>5. cloud' = [cloud EXCEPT ![l] = row]
  BY DEF SetLightName
<1>6. row.at <= now
  BY DEF SetLightName
<1> HIDE DEF l, row
<1>7. cloud' \in [Light -> Row]
  BY <1>1, <1>3, <1>4, <1>5
<1>8. row.at \in Int
  BY <1>4 DEF Row
<1>9. FutureBounded'
  BY <1>1, <1>3, <1>5, <1>6, <1>8, NamesAssumption DEF FutureBounded, IInv, SetLightName
<1>10. Idle \in ReqState /\ Goto(p, Idle)
  BY DEF Idle, ReqState, SetLightName
<1> QED
  BY <1>1, <1>7, <1>9, <1>10, HandlerStep DEF SetLightName

LEMMA SyncLightNamesIInv ==
  ASSUME IInv, NEW p \in Request, SyncLightNames(p)
  PROVE  IInv'
<1> DEFINE next == [op |-> "sync", sent |-> gateway, rows |-> cloud, since |-> now,
                    todo |-> Light]
<1>1. cloud \in [Light -> Row] /\ gateway \in [Light -> Row] /\ now \in Nat
      /\ renames \in Nat /\ faults \in Nat
  BY NamesAssumption DEF IInv, TypeOK
<1>2. next \in ReqState
  BY <1>1 DEF ReqState, SyncState
<1>3. FutureBounded'
  BY DEF SyncLightNames, FutureBounded, IInv
<1>4. Goto(p, next) /\ next.since <= now
  BY <1>1 DEF SyncLightNames
<1> HIDE DEF next
<1> QED
  BY <1>1, <1>2, <1>3, <1>4, HandlerStep DEF SyncLightNames

LEMMA KeepEntryIInv ==
  ASSUME IInv, NEW p \in Request, NEW l \in Light, KeepEntry(p, l)
  PROVE  IInv'
<1> DEFINE next == [req[p] EXCEPT !.todo = @ \ {l}]
<1>1. /\ cloud \in [Light -> Row] /\ gateway \in [Light -> Row] /\ now \in Nat
      /\ renames \in Nat /\ faults \in Nat /\ req \in [Request -> ReqState]
  BY NamesAssumption, ReqType DEF IInv
<1>2. req[p] \in SyncState /\ req[p] # Idle
  BY <1>1, SyncReq DEF KeepEntry
<1>3. next \in SyncState /\ next.since = req[p].since
  BY <1>2 DEF SyncState
<1>4. next \in ReqState /\ next.since <= now
  BY <1>2, <1>3 DEF ReqState, IInv, SinceOK
<1>5. FutureBounded'
  BY DEF KeepEntry, FutureBounded, IInv
<1>6. Goto(p, next)
  BY DEF KeepEntry
<1> HIDE DEF next
<1> QED
  BY <1>1, <1>4, <1>5, <1>6, HandlerStep DEF KeepEntry

LEMMA PutLightNameExactIInv ==
  ASSUME IInv, NEW p \in Request, NEW l \in Light, PutLightNameExact(p, l)
  PROVE  IInv'
<1> DEFINE merged == Merged(req[p].sent[l], req[p].since)
           next == [req[p] EXCEPT !.todo = @ \ {l}, !.rows[l] = merged]
<1>1. /\ cloud \in [Light -> Row] /\ gateway \in [Light -> Row] /\ now \in Nat
      /\ renames \in Nat /\ faults \in Nat /\ req \in [Request -> ReqState]
  BY NamesAssumption, ReqType DEF IInv
<1>2. req[p] \in SyncState /\ req[p] # Idle
  BY <1>1, SyncReq DEF PutLightNameExact
<1>3. req[p].sent[l] \in Row /\ req[p].since \in Nat /\ req[p].since <= now
  BY <1>2 DEF SyncState, IInv, SinceOK
<1>4. Readable(req[p].sent[l])
  BY DEF PutLightNameExact, Wins
<1>5. merged \in Row /\ merged.at <= req[p].since + LightNameMaxFuture
  BY <1>3, <1>4, MergedOK
<1>6. cloud' = [cloud EXCEPT ![l] = merged] /\ Goto(p, next)
  BY DEF PutLightNameExact
<1> HIDE DEF merged
<1>7. next \in SyncState /\ next.since = req[p].since
  BY <1>2, <1>5 DEF SyncState
<1>8. next \in ReqState /\ next.since <= now
  BY <1>3, <1>7 DEF ReqState
<1> HIDE DEF next
<1>9. cloud' \in [Light -> Row]
  BY <1>1, <1>5, <1>6
<1>10. merged.at \in Int
  BY <1>5 DEF Row
<1>11. merged.at <= now + LightNameMaxFuture
  BY <1>1, <1>3, <1>5, <1>10, NamesAssumption
<1>12. FutureBounded'
  BY <1>1, <1>6, <1>11 DEF FutureBounded, IInv, PutLightNameExact
<1> QED
  BY <1>1, <1>6, <1>8, <1>9, <1>12, HandlerStep DEF PutLightNameExact

LEMMA AnswerIInv ==
  ASSUME IInv, NEW p \in Request, Answer(p)
  PROVE  IInv'
<1>1. /\ cloud \in [Light -> Row] /\ gateway \in [Light -> Row] /\ now \in Nat
      /\ renames \in Nat /\ faults \in Nat /\ req \in [Request -> ReqState]
  BY NamesAssumption, ReqType DEF IInv
<1>2. req[p] \in SyncState
  BY <1>1, SyncReq DEF Answer
<1>3. req[p].rows \in [Light -> Row]
  BY <1>2 DEF SyncState
<1>4. gateway' \in [Light -> Row]
  BY <1>1, <1>3 DEF Answer
<1>5. FutureBounded' /\ Idle \in ReqState /\ Goto(p, Idle)
  BY DEF Answer, FutureBounded, IInv, Idle, ReqState
<1> QED
  BY <1>1, <1>4, <1>5, HandlerStep DEF Answer

LEMMA FailIInv ==
  ASSUME IInv, NEW p \in Request, Fail(p)
  PROVE  IInv'
<1>1. cloud \in [Light -> Row] /\ gateway \in [Light -> Row] /\ now \in Nat
      /\ renames \in Nat /\ faults \in Nat
  BY NamesAssumption DEF IInv, TypeOK
<1>2. FutureBounded' /\ Idle \in ReqState /\ Goto(p, Idle)
  BY DEF Fail, FutureBounded, IInv, Idle, ReqState
<1> QED
  BY <1>1, <1>2, HandlerStep DEF Fail

LEMMA GatewayRenameIInv ==
  ASSUME IInv, NEW l \in Light, NEW n \in Raw, NEW t \in GatewayTime, GatewayRename(l, n, t)
  PROVE  IInv'
<1>1. gateway \in [Light -> Row] /\ t \in Nat
  BY NamesAssumption DEF IInv, TypeOK
<1>2. [name |-> n, version |-> gateway[l].version + 1, at |-> t] \in Row
  BY <1>1 DEF Row
<1>3. gateway' \in [Light -> Row]
  BY <1>1, <1>2 DEF GatewayRename
<1>4. TypeOK'
  BY <1>3 DEF GatewayRename, IInv, TypeOK
<1> QED
  BY <1>4 DEF GatewayRename, IInv, SinceOK, FutureBounded

LEMMA TickIInv ==
  ASSUME IInv, Tick
  PROVE  IInv'
<1>1. TypeOK'
  BY NamesAssumption DEF IInv, TypeOK, Tick
<1>2. /\ now \in Nat /\ now' = now + 1 /\ cloud' = cloud /\ req' = req
      /\ cloud \in [Light -> Row] /\ req \in [Request -> ReqState]
  BY NamesAssumption, ReqType DEF IInv, Tick
<1>3. \A l \in Light : cloud[l].at \in Int
  BY <1>2 DEF Row
<1>4. FutureBounded'
  BY <1>2, <1>3, NamesAssumption DEF FutureBounded, IInv
<1>5. \A p \in Request : req[p] # Idle => req[p].since \in Nat
  <2> TAKE p \in Request
  <2>1. req[p] \in ReqState
    BY <1>2
  <2> QED
    BY <2>1 DEF ReqState, PutState, SyncState, Idle
<1>6. SinceOK'
  BY <1>2, <1>5 DEF SinceOK, IInv
<1> QED
  BY <1>1, <1>4, <1>6 DEF IInv

LEMMA NextIInv == IInv /\ [Next]_vars => IInv'
<1> SUFFICES ASSUME IInv, [Next]_vars PROVE IInv'
  OBVIOUS
<1>1. CASE \E p \in Request, l \in Light, n \in Raw : PutLightName(p, l, n)
  BY <1>1, PutLightNameIInv
<1>2. CASE \E p \in Request : SyncLightNames(p)
  BY <1>2, SyncLightNamesIInv
<1>3. CASE \E p \in Request : Continue(p)
  BY <1>3, SetLightNameIInv, KeepEntryIInv, PutLightNameExactIInv, AnswerIInv DEF Continue
<1>4. CASE \E p \in Request : Fail(p)
  BY <1>4, FailIInv
<1>5. CASE \E l \in Light, n \in Raw, t \in GatewayTime : GatewayRename(l, n, t)
  BY <1>5, GatewayRenameIInv
<1>6. CASE Tick
  BY <1>6, TickIInv
<1>7. CASE UNCHANGED vars
  BY <1>7 DEF vars, IInv, TypeOK, SinceOK, FutureBounded
<1> QED
  BY <1>1, <1>2, <1>3, <1>4, <1>5, <1>6, <1>7 DEF Next

LEMMA Invariance == Spec => []IInv
BY InitIInv, NextIInv, PTL DEF Spec

-----------------------------------------------------------------------------
\* The rows and the handlers keep their types: no refused name is ever stored.
THEOREM TypeCorrect == Spec => []TypeOK
<1>1. IInv => TypeOK
  BY DEF IInv
<1> QED
  BY <1>1, Invariance, PTL

\* No stored name is further ahead of the clock than LightNameMaxFuture, however wrong the
\* clock of the gateway is.
THEOREM FutureBoundedThm == Spec => []FutureBounded
<1>1. IInv => FutureBounded
  BY DEF IInv
<1> QED
  BY <1>1, Invariance, PTL

\* The steps that store a name do not go back in time, unless they are blind to the row.
LEMMA SetLightNameLater ==
  ASSUME IInv, NEW p \in Request, NEW at \in 0 .. MaxTime, SetLightName(p, at), NEW l \in Light
  PROVE  \/ NotBefore(cloud'[l], cloud[l])
         \/ req[p] # Idle /\ req'[p] # req[p] /\ Blind(p, l)
<1>1. /\ cloud \in [Light -> Row] /\ req \in [Request -> ReqState]
  BY ReqType DEF IInv
<1>2. req[p] \in PutState /\ req[p] # Idle
  BY <1>1, PutReq DEF SetLightName
<1>3. req[p].since \in Nat /\ req[p].op = "put"
  BY <1>2 DEF PutState
<1>4. cloud[l].at \in Int /\ cloud[l].version \in Nat
  BY <1>1 DEF Row
<1>5. req'[p] # req[p]
  BY <1>1, <1>2 DEF SetLightName, Goto
<1>6. CASE l # req[p].light
  BY <1>1, <1>4, <1>6 DEF SetLightName, NotBefore
<1>7. CASE l = req[p].light
  <2>1. cloud'[l].at = at /\ cloud'[l].version = cloud[l].version + 1
    BY <1>1, <1>7 DEF SetLightName
  <2>2. CASE req[p].since < cloud[l].at
    BY <2>2, <1>2, <1>3, <1>5 DEF Blind
  <2>3. CASE cloud[l].at <= req[p].since
    BY <2>1, <2>3, <1>3, <1>4 DEF SetLightName, NotBefore
  <2> QED
    BY <2>2, <2>3, <1>3, <1>4
<1> QED
  BY <1>6, <1>7

LEMMA PutLightNameExactLater ==
  ASSUME IInv, NEW p \in Request, NEW x \in Light, PutLightNameExact(p, x), NEW l \in Light
  PROVE  \/ NotBefore(cloud'[l], cloud[l])
         \/ req[p] # Idle /\ req'[p] # req[p] /\ Blind(p, l)
<1> DEFINE merged == Merged(req[p].sent[x], req[p].since)
<1>1. /\ cloud \in [Light -> Row] /\ req \in [Request -> ReqState]
  BY ReqType DEF IInv
<1>2. req[p] \in SyncState /\ req[p] # Idle
  BY <1>1, SyncReq DEF PutLightNameExact
<1>3. req[p].sent[x] \in Row /\ req[p].since \in Nat /\ Readable(req[p].sent[x])
  BY <1>2 DEF SyncState, PutLightNameExact, Wins
<1>4. merged \in Row
  BY <1>3, MergedOK
<1>5. cloud' = [cloud EXCEPT ![x] = merged]
  BY DEF PutLightNameExact
<1>6. req[p].rows[x] = NoName \/ LightNameNewer(merged, req[p].rows[x])
  BY DEF PutLightNameExact, Wins
<1>7. req'[p] # req[p]
  <2>1. req'[p].todo = req[p].todo \ {x}
    BY <1>1, <1>2 DEF PutLightNameExact, Goto, SyncState
  <2> QED
    BY <2>1 DEF PutLightNameExact
<1> HIDE DEF merged
<1>8. cloud[l].at \in Int /\ cloud[l].version \in Int
  BY <1>1 DEF Row
<1>9. CASE l # x
  BY <1>1, <1>5, <1>8, <1>9 DEF NotBefore
<1>10. CASE l = x /\ req[p].rows[l] # cloud[l]
  BY <1>2, <1>7, <1>10 DEF Blind
<1>11. CASE l = x /\ req[p].rows[l] = cloud[l]
  <2>1. cloud'[l] = merged
    BY <1>1, <1>5, <1>11
  <2>2. merged.at \in Nat \cup {-1} /\ merged.version \in Nat
    BY <1>4 DEF Row
  <2>3. CASE cloud[l] = NoName
    BY <2>1, <2>2, <2>3 DEF NotBefore, NoName
  <2>4. CASE LightNameNewer(merged, cloud[l])
    BY <2>1, <2>2, <2>4, <1>8 DEF NotBefore, LightNameNewer
  <2> QED
    BY <2>3, <2>4, <1>6, <1>11
<1> QED
  BY <1>9, <1>10, <1>11

\* The later name wins, unless the handler stores over a row it has not seen, or over one
\* whose time is ahead of the clock of the cloud.
THEOREM LaterNameWinsThm == Spec => LaterNameWins
<1> DEFINE Later ==
      \A l \in Light :
        \/ NotBefore(cloud'[l], cloud[l])
        \/ \E p \in Request : req[p] # Idle /\ req'[p] # req[p] /\ Blind(p, l)
<1>1. IInv /\ [Next]_vars => [Later]_vars
  <2> SUFFICES ASSUME IInv, Next, NEW l \in Light
               PROVE  \/ NotBefore(cloud'[l], cloud[l])
                      \/ \E p \in Request : req[p] # Idle /\ req'[p] # req[p] /\ Blind(p, l)
    OBVIOUS
  <2>1. CASE \E p \in Request, at \in 0 .. MaxTime : SetLightName(p, at)
    BY <2>1, SetLightNameLater
  <2>2. CASE \E p \in Request, x \in Light : PutLightNameExact(p, x)
    BY <2>2, PutLightNameExactLater
  <2>3. CASE cloud' = cloud
    <3>1. cloud[l] \in Row
      BY DEF IInv, TypeOK
    <3> QED
      BY <3>1, <2>3 DEF NotBefore, Row
  <2>4. \/ \E p \in Request, at \in 0 .. MaxTime : SetLightName(p, at)
        \/ \E p \in Request, x \in Light : PutLightNameExact(p, x)
        \/ cloud' = cloud
    BY DEF Next, Continue, PutLightName, SyncLightNames, KeepEntry, Answer, Fail,
           GatewayRename, Tick
  <2> QED
    BY <2>1, <2>2, <2>3, <2>4
<1> QED
  BY <1>1, Invariance, PTL DEF Spec, LaterNameWins
=============================================================================
