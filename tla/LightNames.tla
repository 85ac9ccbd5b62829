----------------------------- MODULE LightNames -----------------------------
(***************************************************************************)
(* The names an owner gives to the lights of one cabinet                   *)
(* (internal/handlers/light_names.go, domain/lights_names.go,              *)
(* data/light_names_store.go).  The portal renames in the cloud; the       *)
(* gateway has a copy of its own, renames in it by its own clock, and      *)
(* sends it all to SyncLightNames, which keeps the later of two names and  *)
(* answers what it has kept.  The rows are read once, at the start; each   *)
(* name is stored by a statement of its own, without a condition.          *)
(*                                                                         *)
(* The gateway is external: it adopts the answer to what it sent, except   *)
(* for the lights it has renamed meanwhile.  The request names no author,  *)
(* so the third key of LightNameNewer (updated_by) never decides.          *)
(***************************************************************************)
EXTENDS Integers

CONSTANTS
  Light,         \* the catalogue
  Raw,           \* names as they are typed
  Reset,         \* the name that stands for the original one (null)
  Invalid,       \* what NormalizeLightName refuses
  Normalize,     \* NormalizeLightName: trims, and refuses what is too long or not printable
  Request,       \* handlers that may be in progress at once
  LightNameMaxFuture,  \* 5 minutes in the code
  MaxTime,       \* bound on the clock of the cloud
  GatewayTime,   \* what the clock of the gateway may say
  MaxRenames,    \* bound on the renames, in the cloud and in the gateway
  MaxFaults      \* bound on the requests that fail or whose answer is lost

ASSUME NamesAssumption ==
  /\ Reset \in Raw /\ Invalid \notin Raw
  /\ Normalize \in [Raw -> Raw \cup {Invalid}]
  /\ \A n \in Raw : Normalize[n] # Invalid => Normalize[Normalize[n]] = Normalize[n]
  /\ LightNameMaxFuture \in Nat /\ MaxTime \in Nat
  /\ GatewayTime \subseteq Nat
  /\ MaxRenames \in Nat /\ MaxFaults \in Nat

VARIABLES
  cloud,    \* the table light_names
  gateway,  \* the copy of the gateway
  now,      \* the clock of the cloud
  req,      \* the handlers in progress
  renames,  \* how many renames have been asked for
  faults    \* how many requests have failed

vars == <<cloud, gateway, now, req, renames, faults>>

NoName == [name |-> Reset, version |-> 0, at |-> -1]
Idle == [op |-> "idle"]

Init ==
  /\ cloud = [l \in Light |-> NoName]
  /\ gateway = [l \in Light |-> NoName]
  /\ now = 0
  /\ req = [p \in Request |-> Idle]
  /\ renames = 0 /\ faults = 0

Goto(p, next) == req' = [req EXCEPT ![p] = next]

-----------------------------------------------------------------------------
(* lights_names.go                                                         *)

\* Mutant: the version is compared first.
NewerByVersion(a, b) ==
  IF a.version # b.version THEN a.version > b.version ELSE a.at > b.at

\* The later time, then the higher version.
LightNameNewer(a, b) ==
  IF a.at # b.at THEN a.at > b.at ELSE a.version > b.version

\* A time too far ahead is brought back to the present.
ClampLightNameTime(t, time) == IF t > time + LightNameMaxFuture THEN time ELSE t

-----------------------------------------------------------------------------
(* PutLightName of the cabinet's administrator.                            *)

\* The body is parsed and the old names are read, for the audit record ...
PutLightName(p, l, n) ==
  /\ req[p] = Idle /\ renames < MaxRenames /\ Normalize[n] # Invalid
  /\ Goto(p, [op |-> "put", light |-> l, name |-> Normalize[n], rows |-> cloud, since |-> now])
  /\ renames' = renames + 1
  /\ UNCHANGED <<cloud, gateway, now, faults>>

\* ... and SetLightName stores the new one, with a time taken on the way and the version
\* the row has now, plus one.
SetLightName(p, at) ==
  /\ req[p].op = "put" /\ req[p].since <= at /\ at <= now
  /\ cloud' = [cloud EXCEPT ![req[p].light] =
                 [name |-> req[p].name, version |-> @.version + 1, at |-> at]]
  /\ Goto(p, Idle)
  /\ UNCHANGED <<gateway, now, renames, faults>>

-----------------------------------------------------------------------------
(* SyncLightNames.                                                         *)

\* The gateway sends its copy; the rows and the clock are read.
SyncLightNames(p) ==
  /\ req[p] = Idle
  /\ Goto(p, [op |-> "sync", sent |-> gateway, rows |-> cloud, since |-> now, todo |-> Light])
  /\ UNCHANGED <<cloud, gateway, now, renames, faults>>

\* An entry that was never set, or whose name is refused, is ignored.
Readable(in) == in.version > 0 /\ Normalize[in.name] # Invalid

\* What the entry of the gateway asks to store.
Merged(in, time) ==
  [name |-> Normalize[in.name], version |-> in.version, at |-> ClampLightNameTime(in.at, time)]

Wins(p, l) ==
  LET in == req[p].sent[l]  cur == req[p].rows[l] IN
  Readable(in) /\ (cur = NoName \/ LightNameNewer(Merged(in, req[p].since), cur))

\* One turn of the loop that stores nothing.
KeepEntry(p, l) ==
  /\ req[p].op = "sync" /\ l \in req[p].todo /\ ~ Wins(p, l)
  /\ Goto(p, [req[p] EXCEPT !.todo = @ \ {l}])
  /\ UNCHANGED <<cloud, gateway, now, renames, faults>>

\* Mutant: the merged name is answered and not stored.
MergeNotStored(p, l) ==
  /\ req[p].op = "sync" /\ l \in req[p].todo /\ Wins(p, l)
  /\ Goto(p, [req[p] EXCEPT !.todo = @ \ {l}, !.rows[l] = Merged(req[p].sent[l], req[p].since)])
  /\ UNCHANGED <<cloud, gateway, now, renames, faults>>

\* One turn that stores the name of the gateway: PutLightNameExact, whatever the row holds
\* by now.
PutLightNameExact(p, l) ==
  /\ req[p].op = "sync" /\ l \in req[p].todo /\ Wins(p, l)
  /\ LET merged == Merged(req[p].sent[l], req[p].since) IN
       /\ cloud' = [cloud EXCEPT ![l] = merged]
       /\ Goto(p, [req[p] EXCEPT !.todo = @ \ {l}, !.rows[l] = merged])
  /\ UNCHANGED <<gateway, now, renames, faults>>

\* The answer reaches the gateway.
Answer(p) ==
  /\ req[p].op = "sync" /\ req[p].todo = {}
  /\ gateway' = [l \in Light |->
       IF gateway[l] = req[p].sent[l] THEN req[p].rows[l] ELSE gateway[l]]
  /\ Goto(p, Idle)
  /\ UNCHANGED <<cloud, now, renames, faults>>

\* A statement fails, the request is cancelled or the answer is lost: what the loop has
\* stored stays.
Fail(p) ==
  /\ req[p] # Idle /\ faults < MaxFaults
  /\ faults' = faults + 1
  /\ Goto(p, Idle)
  /\ UNCHANGED <<cloud, gateway, now, renames>>

-----------------------------------------------------------------------------
\* The owner renames a light at home; the clock of the gateway may be wrong.
GatewayRename(l, n, t) ==
  /\ renames < MaxRenames
  /\ gateway' = [gateway EXCEPT ![l] = [name |-> n, version |-> @.version + 1, at |-> t]]
  /\ renames' = renames + 1
  /\ UNCHANGED <<cloud, now, req, faults>>

Tick ==
  /\ now < MaxTime /\ now' = now + 1
  /\ UNCHANGED <<cloud, gateway, req, renames, faults>>

Continue(p) ==
  \/ \E at \in 0 .. MaxTime : SetLightName(p, at)
  \/ \E l \in Light : KeepEntry(p, l) \/ PutLightNameExact(p, l)
  \/ Answer(p)

Next ==
  \/ \E p \in Request :
       \/ \E l \in Light, n \in Raw : PutLightName(p, l, n)
       \/ SyncLightNames(p)
       \/ Continue(p)
       \/ Fail(p)
  \/ \E l \in Light, n \in Raw, t \in GatewayTime : GatewayRename(l, n, t)
  \/ Tick

Spec == Init /\ [][Next]_vars

\* The gateway keeps synchronising, and a handler that was started runs to its end.
Fairness ==
  /\ WF_vars(\E p \in Request : SyncLightNames(p))
  /\ \A p \in Request : WF_vars(Continue(p))

FairSpec == Spec /\ Fairness

-----------------------------------------------------------------------------
(* Properties.                                                             *)

Row == [name : Raw, version : Nat, at : Nat \cup {-1}]

\* The rows and the handlers' local state have their types.
TypeOK ==
  /\ cloud \in [Light -> Row] /\ gateway \in [Light -> Row]
  /\ now \in 0 .. MaxTime
  /\ req \in [Request ->
       [op : {"idle"}]
       \cup [op : {"put"}, light : Light, name : Raw, rows : [Light -> Row], since : Nat]
       \cup [op : {"sync"}, sent : [Light -> Row], rows : [Light -> Row], since : Nat,
             todo : SUBSET Light]]
  /\ renames \in Nat /\ faults \in Nat

\* LightNameMaxFuture: no name is stored with a time further ahead than that, so a wrong
\* clock of the gateway outlives the names given in the cloud by no more than that.
FutureBounded == \A l \in Light : cloud[l].at <= now + LightNameMaxFuture

\* The order of (updated_at, version), told apart from LightNameNewer.
NotBefore(a, b) == a.at > b.at \/ (a.at = b.at /\ a.version >= b.version)

\* A handler stores over a row it has not seen: the row has changed since it was read, or
\* the row's time is ahead of the clock by which the cloud names a light.
Blind(p, l) ==
  \/ req[p].rows[l] # cloud[l]
  \/ req[p].op = "put" /\ req[p].since < cloud[l].at

\* The later name wins: a step never puts an older name in the place of a newer one,
\* unless the handler that takes it is blind to the row.
LaterNameWins ==
  [][\A l \in Light :
       \/ NotBefore(cloud'[l], cloud[l])
       \/ \E p \in Request : req[p] # Idle /\ req'[p] # req[p] /\ Blind(p, l)]_vars

\* What a handler has read is not of the future; with it the type invariant and
\* FutureBounded are inductive.
SinceOK == \A p \in Request : req[p] # Idle => req[p].since <= now

IInv == TypeOK /\ SinceOK /\ FutureBounded

\* Once the renames end, the cloud and the gateway come to hold the same names, with the
\* same versions and times, and stay so.
Converges == <>[](gateway = cloud)
=============================================================================
