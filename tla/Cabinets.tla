------------------------------ MODULE Cabinets ------------------------------
(***************************************************************************)
(* How queued commands find their cabinet (internal/middleware/            *)
(* basic_auth.go, data/legacy_iot_store.go, legacyiot/handlers.go,         *)
(* data/store.go, handlers/gateway.go, cmd/import-machines).  Commands are *)
(* queued by machine id.  A cabinet that polls for itself takes the queue  *)
(* of its numeric client_id, or else of its inventory id; a gateway takes  *)
(* the queue of the machine it is registered for.  A poll is authenticated *)
(* by one statement and served by later ones.                              *)
(*                                                                         *)
(* The queue is reduced to who has commands in it (module CloudActions has *)
(* the rest); of a gateway's token and addresses one credential is kept.   *)
(***************************************************************************)
EXTENDS Integers, FiniteSets

CONSTANTS
  Cabinet,      \* the cabinets, by hashed key
  Machine,      \* machines.id, also the ids commands are queued by
  Gateway,      \* the gateways
  Credential,   \* what a gateway may be registered with
  User,         \* the ids of the users, by which commands are queued
  Absent,       \* no such row
  Inventory,    \* the tables machines the system may start with
  Registered,   \* the table gateway_sessions it starts with
  Registration, \* what gateways are registered with later
  ImportFile,   \* the entries of machines.json: a cabinet, a client_id (0: no number), a flag
  MaxOps,       \* bound on the operations of users and administrators
  MaxUpkeep     \* bound on the imports, registrations of gateways and failed bindings

Client == {0} \cup Machine    \* machines.client_id; 0 stands for one without a number

MachineRow == [id : Machine, client : Client, active : BOOLEAN]
SessionRow == [machine : Machine, cred : Credential]

\* machines.id is unique.
Numbered(table) ==
  \A c, d \in Cabinet : table[c] # Absent /\ table[d] # Absent /\ table[c].id = table[d].id => c = d

ASSUME CabinetsAssumption ==
  /\ Cabinet \cap Gateway = {} /\ 0 \notin Machine
  /\ Absent \notin MachineRow /\ Absent \notin SessionRow
  /\ Inventory \subseteq [Cabinet -> MachineRow \cup {Absent}]
  /\ \A table \in Inventory : Numbered(table)
  /\ Registration \subseteq SessionRow
  /\ Registered \in [Gateway -> SessionRow \cup {Absent}]
  /\ ImportFile \subseteq [cabinet : Cabinet, client : Client, active : BOOLEAN]
  /\ {MaxOps, MaxUpkeep} \subseteq Nat

VARIABLES
  machines,   \* the table machines
  sessions,   \* the table gateway_sessions
  queue,      \* who has commands queued, by machine id
  poll,       \* the polls in progress
  ops         \* how much of each bound is spent

cabinetVars == <<machines, sessions, queue, poll>>

Served == [op |-> "idle"]
Operation == ops.people < MaxOps /\ ops' = [ops EXCEPT !.people = @ + 1]
Upkeep == ops.upkeep < MaxUpkeep /\ ops' = [ops EXCEPT !.upkeep = @ + 1]
Listed == {c \in Cabinet : machines[c] # Absent}

\* The ids a row may get: of a new one any that is not taken (a sequence that may have gaps).
Ids(c) ==
  IF machines[c] = Absent THEN Machine \ {machines[d].id : d \in Listed} ELSE {machines[c].id}

InitCabinets ==
  /\ machines \in Inventory
  /\ sessions = Registered
  /\ queue = [m \in Machine |-> {}]
  /\ poll = [x \in Cabinet \cup Gateway |-> Served]
  /\ ops = [people |-> 0, upkeep |-> 0]

-----------------------------------------------------------------------------
(* The inventory.                                                          *)

\* BasicAuth: a cabinet that is not known yet is entered, without a number and not active.
RegisterUnknownMachine(c) ==
  /\ machines[c] = Absent
  /\ \E id \in Ids(c) :
       machines' = [machines EXCEPT ![c] = [id |-> id, client |-> 0, active |-> FALSE]]
  /\ UNCHANGED <<sessions, queue, poll, ops>>

\* Mutant: the import sets the flag of a cabinet it knows already.
ImportResets(row, entry, id) ==
  IF row = Absent THEN [id |-> id, client |-> entry.client, active |-> entry.active]
  ELSE [row EXCEPT !.client = IF @ = 0 THEN entry.client ELSE @, !.active = entry.active]

\* A numeric client_id is kept, and so is a cabinet's activation.
ImportMachine(row, entry, id) ==
  IF row = Absent THEN [id |-> id, client |-> entry.client, active |-> entry.active]
  ELSE [row EXCEPT !.client = IF @ = 0 THEN entry.client ELSE @, !.active = @ \/ entry.active]

\* One entry of the file that cmd/import-machines reads.
Import(c, entry) ==
  /\ entry.cabinet = c /\ Upkeep
  /\ \E id \in Ids(c) : machines' = [machines EXCEPT ![c] = ImportMachine(machines[c], entry, id)]
  /\ UNCHANGED <<sessions, queue, poll>>

HashedPkeyByInventoryID(m) == {c \in Listed : machines[c].id = m}

\* The cabinet m of the inventory, if there is one, polls for m from now on.
BindMachineForPortalDelivery(m) ==
  machines' = [c \in Cabinet |->
    IF c \in HashedPkeyByInventoryID(m) THEN [machines[c] EXCEPT !.active = TRUE, !.client = m]
    ELSE machines[c]]

\* What the gateway was registered with is replaced.
RegisterGatewaySession(g, m, cred) == sessions' = [sessions EXCEPT ![g] = [machine |-> m, cred |-> cred]]

\* An administrator registers a gateway for a machine.
RegisterGateway(g, m, cred) ==
  /\ Upkeep
  /\ RegisterGatewaySession(g, m, cred)
  /\ UNCHANGED <<machines, queue, poll>>

-----------------------------------------------------------------------------
(* The polls.                                                              *)

\* The queue a cabinet takes.
PortalMachineIDFromHashedPkey(c) ==
  IF machines[c].client # 0 THEN machines[c].client ELSE machines[c].id

Take(x, m) ==
  /\ queue' = [queue EXCEPT ![m] = {}]
  /\ poll' = [poll EXCEPT ![x] = Served]
  /\ UNCHANGED <<machines, sessions, ops>>

\* BasicAuth, strict: only an active cabinet gets through ...
BasicAuth(c) ==
  /\ poll[c] = Served /\ machines[c] # Absent /\ machines[c].active
  /\ poll' = [poll EXCEPT ![c] = [op |-> "cabinet"]]
  /\ UNCHANGED <<machines, sessions, queue, ops>>

\* ... and MyActions serves it.
MyActions(c) ==
  /\ poll[c] # Served
  /\ Take(c, PortalMachineIDFromHashedPkey(c))

ValidateGatewayRequest(g, cred) == sessions[g] # Absent /\ sessions[g].cred = cred

\* What the gateway presents is compared with its session ...
GatewayAuth(g, cred) ==
  /\ poll[g] = Served /\ ValidateGatewayRequest(g, cred)
  /\ poll' = [poll EXCEPT ![g] = [op |-> "gateway", cred |-> cred, seen |-> sessions[g]]]
  /\ UNCHANGED <<machines, sessions, queue, ops>>

\* ... which is read again for the machine.
FetchPendingActionsForGateway(g) == Take(g, sessions[g].machine)

PendingActions(g) ==
  /\ poll[g] # Served
  /\ FetchPendingActionsForGateway(g)

-----------------------------------------------------------------------------
NextCabinets ==
  \/ \E c \in Cabinet :
       \/ RegisterUnknownMachine(c)
       \/ \E entry \in ImportFile : Import(c, entry)
       \/ BasicAuth(c)
       \/ MyActions(c)
  \/ \E g \in Gateway :
       \/ \E new \in Registration : RegisterGateway(g, new.machine, new.cred)
       \/ \E cred \in Credential : GatewayAuth(g, cred)
       \/ PendingActions(g)

-----------------------------------------------------------------------------
(* What the properties of module Accounts are stated with.                 *)

PollState ==
  [op : {"idle", "cabinet"}] \cup [op : {"gateway"}, cred : Credential, seen : SessionRow]

CabinetsTypeOK ==
  /\ machines \in [Cabinet -> MachineRow \cup {Absent}] /\ Numbered(machines)
  /\ sessions \in [Gateway -> SessionRow \cup {Absent}]
  /\ queue \in [Machine -> SUBSET User]
  /\ poll \in [Cabinet \cup Gateway -> PollState]
  /\ ops \in [people : 0..MaxOps, upkeep : 0..MaxUpkeep]

\* An import gave the cabinet the number of another one, if not since the start then before.
Foreign(c) ==
  LET n == machines[c].client IN
    /\ n \notin {0, machines[c].id}
    /\ \/ ops.upkeep > 0 /\ \E entry \in ImportFile : entry.cabinet = c /\ entry.client = n
       \/ \E table \in Inventory : table[c] # Absent /\ table[c].client = n

\* The cabinet of the machine was bound.
Bound(m) == \E c \in HashedPkeyByInventoryID(m) : machines[c].active /\ machines[c].client = m
=============================================================================
