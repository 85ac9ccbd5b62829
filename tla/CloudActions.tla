---------------------------- MODULE CloudActions ----------------------------
(***************************************************************************)
(* The queue of portal commands waiting for a cabinet ("armoire"): the     *)
(* table cloud_actions and the statements that change it                   *)
(* (internal/data/store.go).  A command is inserted `pending'.  A poll of   *)
(* the machine (the CM5 gateway through /gateway/actions, the cabinet       *)
(* through /myactions) SELECTs the oldest pending rows, merges them, then   *)
(* marks them `delivered' by one UPDATE per row, outside any transaction,   *)
(* and finally answers.  The client acknowledges a GUID with /done.         *)
(*                                                                          *)
(* A Poller is one HTTP client that has at most one poll in progress;      *)
(* several pollers may serve one machine (gateway and cabinet, or a retry  *)
(* that starts while the handler of the abandoned request still runs).     *)
(***************************************************************************)
EXTENDS Naturals, FiniteSets

CONSTANTS
  Guid,         \* identifiers of commands (cloud_actions.guid, primary key)
  Machine,      \* machines (cloud_actions.machine_id)
  Poller,       \* HTTP clients that poll
  MachineOf,    \* the machine a poller is authenticated for
  Limit,        \* rows returned by one poll (20 in both callers)
  MaxFailures   \* bound on the UPDATE statements that fail in a behaviour

ASSUME QueueAssumption ==
  /\ IsFiniteSet(Guid)
  /\ MachineOf \in [Poller -> Machine]
  /\ Limit \in Nat \ {0}
  /\ MaxFailures \in Nat

NoRow == "none"   \* the columns of a row that does not exist

\* A command either carries only the light/shutter block (IsPureBlockAction)
\* and may be merged with its neighbours, or is delivered unchanged.
Kind == {"block", "other"}

VARIABLES
  status,    \* cloud_actions.status; "absent" when there is no such row
  machine,   \* cloud_actions.machine_id, meaningful once the row exists
  kind,      \* what cloud_actions.params holds
  created,   \* cloud_actions.created_at, as a rank
  clock,     \* the last rank given
  poll,      \* the polls in progress
  known,     \* what clients have received: GUIDs, each with the rows it stands for
  failures,  \* number of UPDATE statements that failed
  \* History variables; the code has no such state.
  received,  \* rows carried by an answer that arrived
  lost,      \* rows of an answer that did not arrive
  twice,     \* rows carried by a second answer that arrived
  late,      \* rows that arrived after a younger row of their machine
  settled,   \* rows of an acknowledged answer
  unmarked,  \* rows whose UPDATE to `delivered' failed
  contended  \* machines that had two polls in progress at once

rows  == <<status, machine, kind, created, clock>>
ghost == <<received, lost, twice, late, settled, unmarked, contended>>
vars  == <<rows, poll, known, failures, ghost>>

Idle == [busy |-> FALSE, batch |-> {}, todo |-> {}]

Init ==
  /\ status  = [g \in Guid |-> "absent"]
  /\ machine = [g \in Guid |-> NoRow]
  /\ kind    = [g \in Guid |-> NoRow]
  /\ created = [g \in Guid |-> 0]
  /\ clock = 0
  /\ poll  = [p \in Poller |-> Idle]
  /\ known = {}
  /\ failures = 0
  /\ received = {} /\ lost = {} /\ twice = {}
  /\ late = {} /\ settled = {} /\ unmarked = {} /\ contended = {}

-----------------------------------------------------------------------------
(* EnqueueCloudAction: INSERT ... ON CONFLICT (guid) DO NOTHING.  A retry   *)
(* with a GUID already in the table changes nothing and reports success.    *)

EnqueueCloudAction(g, m, k) ==
  /\ IF status[g] = "absent"
       THEN /\ status'  = [status EXCEPT ![g] = "pending"]
            /\ machine' = [machine EXCEPT ![g] = m]
            /\ kind'    = [kind EXCEPT ![g] = k]
            /\ created' = [created EXCEPT ![g] = clock + 1]
            /\ clock'   = clock + 1
       ELSE UNCHANGED rows
  /\ UNCHANGED <<poll, known, failures, ghost>>

-----------------------------------------------------------------------------
(* FetchPendingActionsForMachine, first statement: the SELECT.              *)

Pending(m) == {g \in Guid : status[g] = "pending" /\ machine[g] = m}

\* Mutant: ORDER BY created_at DESC.
Youngest(S) ==
  {g \in S : Cardinality({h \in S : created[h] > created[g]}) < Limit}

\* Mutant: the limit is off by one.
OldestButOne(S) ==
  {g \in S : Cardinality({h \in S : created[h] < created[g]}) < Limit - 1}

\* ORDER BY created_at ASC LIMIT n.
Oldest(S) ==
  {g \in S : Cardinality({h \in S : created[h] < created[g]}) < Limit}

FetchSelect(p) ==
  LET batch == Oldest(Pending(MachineOf[p])) IN
  /\ ~ poll[p].busy
  /\ batch # {}
  /\ poll' = [poll EXCEPT ![p] = [busy |-> TRUE, batch |-> batch, todo |-> batch]]
  /\ contended' = contended \cup
       {MachineOf[q] : q \in {r \in Poller : /\ r # p /\ poll[r].busy
                                            /\ MachineOf[r] = MachineOf[p]}}
  /\ UNCHANGED <<rows, known, failures, received, lost, twice, late, settled, unmarked>>

\* The loop over the rows of the batch, oldest first: each UPDATE is a
\* statement of its own and is not conditional on the current status.
NextRow(p, g) ==
  /\ g \in poll[p].todo
  /\ \A h \in poll[p].todo : created[g] <= created[h]

\* Mutant: the loop stops before the last row of the batch.
MarkAllButLast(p) ==
  \E g \in Guid :
    /\ NextRow(p, g)
    /\ status' = IF poll[p].todo = {g} THEN status ELSE [status EXCEPT ![g] = "delivered"]
    /\ poll' = [poll EXCEPT ![p].todo = @ \ {g}]
    /\ UNCHANGED <<machine, kind, created, clock, known, failures, ghost>>

\* Mutant: one UPDATE for all the rows of the machine.
MarkMachine(p) ==
  \E g \in Guid :
    /\ NextRow(p, g)
    /\ status' = [h \in Guid |-> IF machine[h] = machine[g] THEN "delivered" ELSE status[h]]
    /\ poll' = [poll EXCEPT ![p].todo = @ \ {g}]
    /\ UNCHANGED <<machine, kind, created, clock, known, failures, ghost>>

MarkDelivered(p) ==
  \E g \in Guid :
    /\ NextRow(p, g)
    /\ status' = [status EXCEPT ![g] = "delivered"]
    /\ poll' = [poll EXCEPT ![p].todo = @ \ {g}]
    /\ UNCHANGED <<machine, kind, created, clock, known, failures, ghost>>

\* The error of an UPDATE is ignored: the row is delivered but stays pending.
MarkFails(p) ==
  \E g \in Guid :
    /\ failures < MaxFailures
    /\ NextRow(p, g)
    /\ failures' = failures + 1
    /\ poll' = [poll EXCEPT ![p].todo = @ \ {g}]
    /\ unmarked' = unmarked \cup {g}
    /\ UNCHANGED <<rows, known, received, lost, twice, late, settled, contended>>

-----------------------------------------------------------------------------
(* coalescePendingActions: every maximal run of consecutive block rows of   *)
(* the batch becomes one action, under the GUID of its last row.            *)

SameRun(batch, g, h) ==
  \A x \in batch :
    \/ created[g] <= created[x] /\ created[x] <= created[h]
    \/ created[h] <= created[x] /\ created[x] <= created[g]
    => kind[x] = "block"

Run(batch, g) ==
  IF kind[g] = "block" THEN {h \in batch : SameRun(batch, g, h)} ELSE {g}

\* Mutant: all the block rows of the batch are merged, wherever they are.
MergeAllBlocks(batch) ==
  LET run(g) == IF kind[g] = "block" THEN {h \in batch : kind[h] = "block"} ELSE {g}
  IN  {[guid |-> g, run |-> run(g)] :
         g \in {x \in batch : \A h \in run(x) : created[h] <= created[x]}}

\* Mutant: a run is delivered as its last row only.
KeepLastOfRun(batch) ==
  {[guid |-> g, run |-> {g}] :
     g \in {x \in batch : \A h \in Run(batch, x) : created[h] <= created[x]}}

coalescePendingActions(batch) ==
  {[guid |-> g, run |-> Run(batch, g)] :
     g \in {x \in batch : \A h \in Run(batch, x) : created[h] <= created[x]}}

Carried(batch) == UNION {a.run : a \in coalescePendingActions(batch)}

\* The answer reaches the client: the handler (PendingActions of the gateway
\* or MyActions of the cabinet) has written the merged actions.
FetchReply(p) ==
  LET batch == poll[p].batch
      new   == Carried(batch) \ received
  IN
  /\ poll[p].busy /\ poll[p].todo = {}
  /\ poll' = [poll EXCEPT ![p] = Idle]
  /\ known' = known \cup coalescePendingActions(batch)
  /\ received' = received \cup Carried(batch)
  /\ twice' = twice \cup (Carried(batch) \cap received)
  /\ late' = late \cup {g \in new : \E h \in received :
                           machine[h] = machine[g] /\ created[g] < created[h]}
  /\ UNCHANGED <<rows, failures, lost, settled, unmarked, contended>>

\* The client goes away (or the server stops): the request context is
\* cancelled, the remaining UPDATEs fail and nobody reads the answer.
FetchLost(p) ==
  /\ poll[p].busy
  /\ poll' = [poll EXCEPT ![p] = Idle]
  /\ lost' = lost \cup poll[p].batch
  /\ UNCHANGED <<rows, known, failures, received, twice, late, settled,
                 unmarked, contended>>

-----------------------------------------------------------------------------
(* MarkActionDone: the GUID becomes done, and with it every delivered row   *)
(* of its machine.  The machine_id read by the first statement never        *)
(* changes and rows are never deleted, so the two statements are one step.  *)
(* Any authenticated client may acknowledge any GUID: the handlers do not   *)
(* compare the row's machine with the caller's.  Clients send only GUIDs    *)
(* they have received, once or several times, in any order.                 *)

\* Mutant: only the acknowledged GUID becomes done.
MarkOnlyGuid(a) == [status EXCEPT ![a.guid] = "done"]

DoneStatus(a) ==
  [g \in Guid |->
     IF g = a.guid \/ (machine[g] = machine[a.guid] /\ status[g] = "delivered")
       THEN "done" ELSE status[g]]

MarkActionDone(a) ==
  /\ status' = DoneStatus(a)
  /\ settled' = settled \cup a.run
  /\ UNCHANGED <<machine, kind, created, clock, poll, known, failures, received,
                 lost, twice, late, unmarked, contended>>

-----------------------------------------------------------------------------
Next ==
  \/ \E g \in Guid, m \in Machine, k \in Kind : EnqueueCloudAction(g, m, k)
  \/ \E p \in Poller :
       \/ FetchSelect(p)
       \/ MarkDelivered(p)
       \/ MarkFails(p)
       \/ FetchReply(p)
       \/ FetchLost(p)
  \/ \E a \in known : MarkActionDone(a)

Spec == Init /\ [][Next]_vars

\* Clients keep polling, a handler that was started runs to its end, and a
\* client does not hang up before the first UPDATE of every one of its polls.
\* Nobody has to send commands or acknowledge them.
Fairness ==
  \A p \in Poller :
    /\ WF_vars(FetchSelect(p))
    /\ SF_vars(MarkDelivered(p))
    /\ WF_vars(FetchReply(p))

FairSpec == Spec /\ Fairness

-----------------------------------------------------------------------------
(* Properties.                                                              *)

Status == {"absent", "pending", "delivered", "done"}
PollState == [busy : BOOLEAN, batch : SUBSET Guid, todo : SUBSET Guid]
Answer == [guid : Guid, run : SUBSET Guid]

\* The types of the columns and of the handlers' local state.
TypeOK ==
  /\ status \in [Guid -> Status]
  /\ machine \in [Guid -> Machine \cup {NoRow}]
  /\ kind \in [Guid -> Kind \cup {NoRow}]
  /\ created \in [Guid -> Nat]
  /\ clock \in Nat
  /\ poll \in [Poller -> PollState]
  /\ known \subseteq Answer
  /\ failures \in Nat
  /\ received \subseteq Guid /\ lost \subseteq Guid
  /\ twice \subseteq Guid /\ late \subseteq Guid /\ settled \subseteq Guid
  /\ unmarked \subseteq Guid /\ contended \subseteq Machine

\* A row that two overlapping polls may both have read, or whose UPDATE failed:
\* the two ways the non-transactional FetchPendingActionsForMachine misbehaves.
Disturbed(g) == g \in unmarked \/ machine[g] \in contended

\* The rows some poll has read: of a poll in progress, of an answer that reached a
\* client, or of an answer that did not arrive.
Read == received \cup lost \cup UNION {poll[p].batch : p \in Poller}

\* FetchPendingActionsForMachine never loses a command: a row that left
\* `pending' was read, and the answer it was put in arrived, was lost on the way or
\* is still being prepared.
NoCommandVanishes ==
  \A g \in Guid : status[g] \in {"delivered", "done"} => g \in Read

\* A client receives a command a second time only when two polls of its machine
\* overlapped or an UPDATE to `delivered' failed.
DeliveredOnce == \A g \in twice : Disturbed(g)

\* Commands of a machine are read in emission order, however many polls overlap:
\* when a row has been read, every older row of its machine has been read.
ReadInOrder ==
  \A g, h \in Guid :
    /\ h \in Read /\ status[g] # "absent"
    /\ machine[g] = machine[h] /\ created[g] < created[h]
    => g \in Read

\* Commands reach the cabinet in emission order unless polls of the machine
\* overlapped: the answer of a later poll can then overtake an earlier one.
ReceivedInOrder == \A g \in late : machine[g] \in contended

\* Acknowledging a merged action settles every command merged into it, and none
\* of them is open again later, unless an UPDATE failed or polls overlapped.
AckSettlesRun == \A g \in settled : status[g] = "done" \/ Disturbed(g)

\* An acknowledgement only closes commands of its own machine: a command is done
\* only after a client of that machine has received an answer.
DoneAfterContact ==
  \A g \in Guid : status[g] = "done" => \E a \in known : machine[a.guid] = machine[g]

\* The actions of an answer partition the rows that were read, and a command of
\* another kind between two block commands is never jumped over by the merge.
MergeKeepsOrder ==
  \A p \in Poller :
    LET batch == poll[p].batch
        acts  == coalescePendingActions(batch)
    IN  /\ Carried(batch) = batch
        /\ \A a, b \in acts : a.run \cap b.run # {} => a = b
        /\ \A a, b \in acts : a # b =>
             \/ \A g \in a.run, h \in b.run : created[g] < created[h]
             \/ \A g \in a.run, h \in b.run : created[g] > created[h]

\* A row that left the queue never comes back to it: neither a retry of the same
\* GUID nor a poll, a failed UPDATE or an acknowledgement makes it pending again.
NeverRequeued ==
  [][\A g \in Guid : status[g] \in {"delivered", "done"} => status'[g] # "pending"]_vars

\* The unconditional UPDATE to `delivered' reopens a command that was done only
\* when two polls overlapped or an earlier UPDATE of the row failed.
DoneIsFinal ==
  [][\A g \in Guid : status[g] = "done" /\ ~ Disturbed(g) => status'[g] = "done"]_vars

\* With clients that keep polling, every command is eventually carried to a client
\* or lost with an answer that marked it.
EveryCommandAnswered ==
  \A g \in Guid :
    status[g] = "pending" ~> g \in received \/ (g \in lost /\ status[g] # "pending")

-----------------------------------------------------------------------------
(* The inductive invariant behind the safety properties, in parts.         *)

\* A row that exists has a machine and a rank of its own.
RowsOK ==
  /\ \A g \in Guid : created[g] <= clock
  /\ \A g \in Guid : status[g] # "absent" => machine[g] \in Machine
  /\ \A g, h \in Guid :
       status[g] # "absent" /\ status[h] # "absent" /\ created[g] = created[h] => g = h

\* A poll holds rows of its machine, and of these the oldest that are pending.
PollsOK ==
  \A p \in Poller :
    /\ poll[p].todo \subseteq poll[p].batch
    /\ ~ poll[p].busy => poll[p].batch = {}
    /\ \A g \in poll[p].batch : status[g] # "absent" /\ machine[g] = MachineOf[p]
    /\ \A h \in poll[p].batch, g \in Guid :
         machine[g] = machine[h] /\ created[g] < created[h] =>
           g \in poll[p].batch \/ status[g] # "pending"

\* Two polls of one machine in progress at once are remembered.
ContentionOK ==
  \A p, q \in Poller :
    p # q /\ poll[p].busy /\ poll[q].busy /\ MachineOf[p] = MachineOf[q] =>
      MachineOf[p] \in contended

\* What an undisturbed row's status says of the polls that hold it.
MarkingOK ==
  \A p \in Poller, g \in Guid : ~ Disturbed(g) =>
    /\ g \in poll[p].todo => status[g] = "pending"
    /\ g \in poll[p].batch \ poll[p].todo => status[g] # "pending"

\* Clients know rows that exist; an undisturbed row they received is out of the
\* queue for good.
ReceivedOK ==
  /\ \A g \in received \cup lost : status[g] # "absent"
  /\ \A a \in known :
       /\ a.guid \in received
       /\ a.run \subseteq received
       /\ \A g \in a.run : machine[g] = machine[a.guid]
  /\ \A g \in received : ~ Disturbed(g) =>
       status[g] # "pending" /\ \A p \in Poller : g \notin poll[p].batch

\* Without overlapping polls, a row overtaken by a younger one will never arrive:
\* the answer that held it was lost.
OvertakenOK ==
  \A g, h \in Guid :
    /\ h \in received /\ g \notin received /\ status[g] # "absent"
    /\ machine[g] = machine[h] /\ created[g] < created[h]
    /\ machine[g] \notin contended
    => status[g] # "pending" /\ \A p \in Poller : g \notin poll[p].batch

IInv ==
  /\ TypeOK /\ RowsOK /\ PollsOK /\ ContentionOK /\ MarkingOK /\ ReceivedOK /\ OvertakenOK
  /\ NoCommandVanishes /\ ReadInOrder /\ DeliveredOnce /\ ReceivedInOrder
  /\ twice \cup late \cup settled \subseteq received /\ AckSettlesRun /\ DoneAfterContact
=============================================================================
