# A TLA+ model of the Essensys user portal backend

The portal backend (Go, PostgreSQL) sits between the web portal of an Essensys owner and
the "armoire", the cabinet that drives lamps, shutters, heating and outlets of a house.
The portal stores commands; a CM5 gateway, or the cabinet itself through the legacy API,
polls for them. Around that core are the accounts of the owners, the administration of
machines, and a support desk that files issues on GitHub.

Every handler runs in a goroutine of its own and keeps no state between requests; several
instances of the backend may run. Shared state is in PostgreSQL (but for the rotator of polls
and a rate limiter, in memory), most handlers use
several statements without a transaction, and the process, the client or the network may
fail between two of them. That is what the modules are about.

## 1. Inventory

| Component | State | Operations | What makes it correct | Module |
|---|---|---|---|---|
| Cloud action queue (`data/store.go`, `handlers/gateway.go`, `legacyiot/handlers.go`) | table `cloud_actions` | `EnqueueCloudAction`, `FetchPendingActionsForMachine`, `MarkActionDone` | no command vanishes; delivered once, in order; an acknowledgement settles what was merged, and nothing of another machine | `CloudActions` |
| Merge of light and shutter commands (`domain/merge_params.go`, `order_expansion.go`, `action_chunk.go`, `handlers/portal.go`) | the waiting actions | complete the block, cut into actions of 30 parameters, merge the waiting ones | the merged delivery does what the commands would have done one by one | `BlockParams`, `MergeLoop`, `BlockMerge` |
| Credentials and sessions (`identity/`, `admin/temporary_password.go`, `admin/password_reset.go`, stores) | `users`, `password_reset_tokens`, `remember_sessions` | login, logout, forgot, reset, change, profile, temporary password, ban, delete | links are single use and superseded, sessions end with the password, the lock goes with the temporary password | `Credentials` |
| Support reports (`support/`, `data/support_report_store.go`) | `support_reports`, an advisory lock, issues on GitHub | submit, send, worker, read-back | one issue per report, filed in the end, closed shows | `SupportReports` |
| Exchange cache of a cabinet (`data/exchange.go`, `handlers/portal.go`, `legacyiot/`) | `gateway_exchange_cache` (one JSON table per machine), `machine_telemetry`, the rotator in memory | gateway push, polls of the cabinet, writes of the portal, answer | no key of a concurrent writer is lost; what is shown was held by the cabinet or was ordered whole; in the end the copy is right | `ExchangeCache` |
| Scenario and light timer commands (`handlers/scenarios.go`, `handlers/light_timers.go`, `domain/scenario/`) | the queue and the exchange cache | write, restore, launch a scenario; write a timer | a scenario that is half queued does not show | `ExchangeCache`, launch also in `BlockMerge` |
| Light names (`handlers/light_names.go`, `domain/lights_names.go`) | table `light_names`, the gateway's copy | rename, two-way synchronisation | the later name wins, both sides converge | `LightNames` |
| Sync profiles and runs (`data/sync_profile_store.go`, `data/sync_alert.go`, `handlers/gateway_sync.go`, `admin/sync_handlers.go`) | `sync_profiles`, `sync_runs`, what a gateway knows of them | create, edit, delete a profile; ask for, list, start a run; report progress or a result; alert | a run follows its life cycle and ends; its log is kept; `last_run_at` and alerts follow from the results | `SyncLifeCycle`, `SyncRuns` |
| Accounts, administration, link requests (`identity/handlers.go`, `identity/oauth.go`, `admin/handlers.go`, `admin/authz.go`, `handlers/portal.go`) | `users` (role, ban, links), `link_requests` | sign-up in four ways, delete, role, links, ban, request, review, command | a global administrator remains, local ones stay within their machine, commands need access | `Accounts` |
| Cabinets and gateways (`middleware/basic_auth.go`, `middleware/auth.go`, `data/legacy_iot_store.go`, `data/store.go`, `cmd/import-machines`) | `machines`, `gateway_sessions` | register, import, bind, authenticate, fetch | commands reach the cabinet of their machine and no other | `Cabinets` |
| Rate limiting, newsletter and mail, configuration, audit, observability, geolocation | | | | not modelled, section 7 |

How the parts meet. The portal handlers (`Inject`, `InjectBatch`, scenarios, timers)
complete a command and insert it in the queue; two kinds of client drain the queue of the
same machine; the merge happens while a poll reads. Login, reset, change and the
administrator's actions all write the same `users` row and the sessions and links that hang
on it. The submit handler and the workers of all instances send the same pending reports;
only the workers take the lock. `Accounts` is composed with `Cabinets`: the links an
administrator writes decide which cabinet is bound, and the queue a portal user fills is
drained by whichever cabinet or gateway the inventory sends there. `ExchangeCache` sits on
the queue: its chunks are rows of `CloudActions`, applied in order.

The hard behaviours, each listed at its line under `hazards` in `PROJECT.json`: polls of
one machine that overlap; rows marked `delivered` before the answer is written; UPDATEs
whose error is ignored or that have no condition on the status; one acknowledgement for
many merged rows; a check and the write it protects in two statements (issue limit, session
cap, report limit); a login that stores its session after the password has changed; a reset
link that is read while it is being retired; the crash between opening an issue and
recording it; a worker that writes what it read from GitHub some time ago; rows that are
read, merged in memory and written whole (exchange cache, sync runs); rights that are
decided on rows which change before the write; a binding whose error is only logged.

## 2. Modules

Each module keeps the names of the functions and columns it models; `map` in
`PROJECT.json` gives the lines of every definition. Definitions whose comment starts with
"Mutant" are plausible bugs of the definition below them: nothing uses them except the
`mutants` of `PROJECT.json`, which show that each property can fail.

### CloudActions: the queue

`status`, `machine`, `kind`, `created` are the columns of `cloud_actions`: `kind` is all
that the queue looks at in `params` (does it hold only the light/shutter block?), and
`created` is the rank of the insertion. `poll[p]` is the local state of
`FetchPendingActionsForMachine`: the rows it selected and the ones it has not yet marked.
`known` holds the actions clients have received, each with the rows it stands for.

| Action | Code |
|---|---|
| `EnqueueCloudAction` | the INSERT with ON CONFLICT DO NOTHING; a retry with the same GUID is part of it |
| `FetchSelect` | the SELECT: pending, of the machine, oldest first, LIMIT |
| `MarkDelivered`, `MarkFails` | one iteration of the UPDATE loop; its error is ignored |
| `FetchReply` | `coalescePendingActions` and the answer of `PendingActions` or `MyActions` |
| `FetchLost` | the client goes away or the server stops, anywhere in the poll |
| `MarkActionDone` | the acknowledgement, with the sweep over the machine's delivered rows |

`twice`, `late`, `settled`, `unmarked`, `contended`, `received` and `lost` are history: the
program has no such state and no guard reads them. They let a property say *when* a
guarantee of the non-transactional poll is given up. `Disturbed(g)` is exactly that: two
polls of the machine overlapped, or an UPDATE of the row failed.

Abstractions. The insertion of a row, its `created_at` and its visibility are one step, so
ranks are unique and follow the order of visibility. A poll that finds nothing changes
nothing and is left out. The parameters of a row always parse as JSON, since
`EnqueueCloudAction` is what marshals them. Clients acknowledge GUIDs they have received,
any number of times and in any order.

### BlockParams, MergeLoop, BlockMerge: the merge

A parameter is an index and a value. The values of the block are bit masks, so a number is
the set of its bits (`|` is union, `&^` is difference); a value that is not a number is a
text. `BlockParams` has the index layout for any number of lights and shutters,
`blockOpposite`, the body of the loop (`MergeParam`), and a reference that has no loop:
`Asked` and `Holds` say what a list of parameters asks for by looking at the whole list.

`MergeLoop` is the loop itself, one parameter per step (`Step`), then the block it returns, one
index per step in the order `sort.Slice` gives (`Deliver`); it exists to be proved about. Two
cabinets in the same state follow it: `lamps` is given the parameters themselves, `merged` the
block. What scenario 1 does when it comes to an index of its block (`ObeyIndex`) is external, as
below.

`BlockMerge` is the way from a request to the cabinet: `ExpandLegacyScenarioBlock`,
`ChunkExchangeParams`, `IsPureBlockAction`, `MergeBlockActions`, `coalescePendingActions`,
and the handlers as actions: `Inject`, `InjectBatch` with its loop (`StoreChunk`, and
`StoreFails` which keeps the chunks stored before), `LaunchScenario`. The commands of other
requests may come between two chunks of a batch. `split`, `bare` and `cutsAsked` are history. The
loops of the code and of the cabinet (`MergeParams`, `MergeChunks`, `Execute`) are recursive
functions from the number of iterations to the state after them.

The cabinet (`ExecuteAction`) is external. It is modelled from the comments of
`order_expansion.go:9-11` and `merge_params.go:60` and the design notes of the security outlets,
which describe the firmware the code is written for: 605..623 are fields of scenario 1 in an
exchange table that keeps its values. Writing them moves nothing (`Written`). Only 590 = "1" makes
the cabinet act, and then it runs the whole block as the table has it by then (`RunBlock`, and 623
for the outlets), with masks that earlier actions left where this one wrote none. Everything else
an action asks for, another value of 590 included, is recorded in the log (`Besides`) with the
lamps and shutters it found; so a scenario that a merge loses, and a lamp that moves because a
merge gave its action a trigger, both show in `Effect`. If both masks of an opposite pair are set, as in a batch that asks for both, the one at the higher
index stands: the block is run in the order of the indices, which is also the order in which
`MergeBlockActions` goes through a completed action. That order is an assumption about the firmware.

### Credentials: the ways into an account

`user`, `token` and `session` are the rows; `req[r]` is a handler in progress with what it
has read. A handler is split where the code runs separate statements: the comparison of a
password and the write that follows it, the count of recent links and the insertion, the
validation of a link and its consumption, `SetTemporaryPassword` and the retirement of the
links, the statements of `RememberSessionStore.Create` and its commit (another transaction
does not see them in between). `Abandon` ends any handler between two steps: validation
failed, a statement failed, the process stopped.

Abstractions. One account is enough, as every statement is keyed by `user_id`. Time is told
apart by the limits that pass: an hour for a link, the validity of a temporary password, 30
days for a session. Expired, retired and cascaded rows are one state, as no statement tells
them apart. A JWT is valid for 24 hours and cannot be revoked, so a handler behind one may
start whenever the middleware admits the account; the middleware's check and the handler's
first read are one step. `RememberRefresh` hands out a JWT and notes the last use, which
nothing reads; sign-up and the OAuth callbacks are in `Accounts`; audit records are left out; the purge of links older than 30 days cannot be
observed. `uses`, `current`, `inForce` and the fields `lapse`, `raced` and `temp` are history.

### SupportReports: reports and issues

`report` is the row, `issues[r]` the issues GitHub holds for it (several, if it was sent
twice), `lock` the advisory lock, `proc` the handlers and workers in progress. `Submit`
counts, `CreateReport` inserts, then handler and worker share `send`: `CreateIssue`,
`CreateRefused`, `AnswerLost`, `MarkSent` and the failures of the two statements. A worker
(`SyncOnce`) takes the lock, sends what is pending, then reads back what is open
(`BeginRefresh`, `GetIssue`, `UpdateStatus`) and releases the lock. `Crash` stops any
process anywhere; the lock ends with the connection of its holder.

Abstractions. The GitHub App is configured; the batches (50 pending, 100 open) hold every
report; the backoff, the refresh interval and the rate window are flags that pass. Issues
that are reopened on GitHub, and the loss of the lock's connection alone while its holder
works on, are not modelled.

### LightNames: two copies of the names

`cloud` is the table `light_names`, `gateway` the copy of the gateway, `now` the clock of the
cloud. `PutLightName` reads and `SetLightName` stores, with a time taken anywhere between the
two. `SyncLightNames` takes what the gateway sends and reads rows and clock; each entry is a
step (`KeepEntry` or `PutLightNameExact`); `Answer` ends it, `Fail` ends any handler anywhere.
The gateway is external: it renames by a clock that may say anything, and adopts the answer
for the lights it has not renamed since it sent them. Names are abstract and
`NormalizeLightName` is the parameter `Normalize` (trims, refuses, maps the empty name to the
reset). Authorisation is left out, as are the dry run and the audit record. The sync request
names no author, so `updated_by` never decides and is left out.

### ExchangeCache: what the cloud knows of a cabinet

`table` is what the cabinet holds (external), `cache` the row of `gateway_exchange_cache`,
`telemetry` the last report of the cabinet itself, `slot` the `InfoRotator` that all cabinets
share, `queue` the chunks not applied yet, `req` the handlers in progress.

| Action | Code |
|---|---|
| `PushExchange` | the gateway's push: the copy is read (an error is taken for an empty copy) |
| `UpsertGatewayExchange` | the merged copy is written whole |
| `ServerInfos`, `OtherServerInfos`, `MyStatus` | a cabinet, or another one, is told which keys to report, and reports |
| `PutScenario`, `RestoreScenario`, `LaunchScenario`, `PutLightTimer`, `Inject`, `InjectBatch`, `PostWebActions` | the request is validated and cut in chunks |
| `EnqueueCloudAction` | one turn of the loop over the chunks |
| `Keep` | after the loop, the keys of the order go into the copy, by the same read and write |
| `Fail` | any statement fails or the process stops; what is queued stays |
| `Apply`, `ChangeAtHome` | the cabinet |

`Answer` is `GetExchange`: the copy, and the telemetry for keys it does not hold. `whole` and
`held` are history. Abstractions: one machine, as every row is keyed by it; one push at a time,
as a gateway waits for its answer; values are small numbers; completion of the light block is
left to `BlockMerge`. `GetExchange` itself only reads.

### SyncLifeCycle and SyncRuns: synchronisation runs

`SyncLifeCycle` is the abstract specification: a run is asked for, begins, ends with a
result, and vanishes only with its profile; it is taken up again only while a report on it is
held back. `SyncRuns` is the code: `profiles` and `runs` are the tables, `known` the runs a
gateway was told of (external), `req` the handlers between two statements. A report
(`SyncRunProgress`) reads the row, `AppendSyncRunProgress` writes it whole from what was read,
`StampProfile` sets `last_run_at` by a statement whose error is ignored, and
`maybeAlertConsecutiveFailures` looks at the latest runs. Deleting a profile cascades.
`FollowsLifeCycle` is the refinement, with `Life == INSTANCE SyncLifeCycle WITH ...` mapping
a run to its profile and status, and the handlers in progress to the reports held back.

Abstractions. `stamped` stands for `last_run_at`: the finished runs it is not before. A log is
the set of kinds of its lines, since only their presence is at stake. Runs are numbered in the
order of `created_at`. Counters, `started_at`, the schedule text and the `enabled` flag
(`PatchSyncProfile`) are left out: no guard here reads them.

### Cabinets and Accounts: from a user to a cabinet

`Cabinets` has the inventory (`machines`), the gateways (`sessions`), and the polls, each in
two steps as in the code: authentication, then the fetch that reads the row again. `Accounts`
extends it with `users`, `requests` (the link requests) and the handlers in progress. `Reading` is
a row as a handler read it: what it decides on, whatever the table holds by then.

| Step | Code |
|---|---|
| `EnforceActiveUser` | the middleware reads the row and lets an active account through (`user_status.go:76, 123`) |
| `GetUserByEmail` | the handler reads the row of the email again and does not look at the ban (`admin/handlers.go:163, 266, 385`, `portal.go:199`, `identity/handlers.go:251`) |
| `AuthorizeAdminTarget`, `CountAdminGlobal` | the target is read and the decision made; before a global administrator is deleted, a count of its own |
| `UpdateUserRole`, `ForbidUser`, `DeleteUser` | the write, by id: on a row that is gone it does nothing |
| `CheckLinks`, `UpdateUserLinks` | the body is validated and the target read once more; then the UPDATE, after which the binding follows even if the target is gone |
| `bindArmoireForPortalDelivery`, `BindFails` | the binding of the cabinet, whose error is only logged |
| `userPortalAccess` | eligibility on the profile that was read, and the approved link |
| `portalUser` | the scenario handlers read the profile once more, and check nothing (`scenarios.go:83`) |
| `EnqueueCloudAction` | the INSERT, for the machine that was read last |
| `DeleteProfile`, `UpdateProfileLinks`, `CreateLinkRequest` | what users do to their own account |

Sign-up is a lookup and an INSERT that the UNIQUE constraint may refuse; the holder of
`ADMIN_TOKEN` has no account and may only create users. A new row of `machines` gets any id that
is free (`Ids`): sequence values are burnt by inserts that end in ON CONFLICT, and a migration
took some ids from `client_id`, so nothing is assumed of them but that they are unique.

A cabinet may poll with a number that is not its own: `Foreign(c)` says that an import gave it,
since the start or before, and `CommandsGoHome` lets exactly these cabinets off.

Abstractions. The queue is reduced to who has commands in it. Token, MAC and address of a
gateway are one credential. An id is never used twice, an email may be. A failed handler is
one that stays where it is, as each writes once at its end; the binding is the exception.
The role in a JWT is left out, as the handlers decide by the row.

## 3. Runs

| Run | Instance | What it shows |
|---|---|---|
| `queue` | 3 commands, 1 machine, 2 clients, 3 rows per poll, 1 failing UPDATE | no command vanishes; second deliveries, reopened and unsettled commands happen only after overlapping polls or a failed UPDATE; the merge jumps over no other command |
| `queue_live` | 2 commands, 2 machines, 3 clients, 1 row per poll, 1 failing UPDATE | every command is answered; commands of a machine arrive in emission order unless polls overlap |
| `merge_loop` | every list of up to 4 parameters of a lamp (2 bits, one text) | the loop computes the last intent; its block moves the lamp as the commands would, from every position of the lamp (442,652 states) |
| `block_merge` | queues of up to 3 actions, 1 light and 1 shutter mask per direction, 7 parameters per action | the merged delivery has the effect of the commands one by one on a cabinet that acts only on 590, with the three exceptions `SameEffect` names; the outlets are cut as often as asked; every action fits (56,218 states) |
| `outlets_split` | the same, long batches | violation, see section 6 |
| `credentials_links` | 2 links, 1 session, 2 handlers, limits of 1 | single use, supersession, issue limit, lock |
| `credentials_sessions` | 1 link, 2 sessions, 2 handlers, limits of 1 | sessions end with the password; the cap |
| `support` | 1 report, 1 handler, 2 workers, 3 attempts, 2 faults | when a second issue appears, that a report is filed and its end shown |
| `light_names` | 1 light, 2 handlers, 2 renames, 1 failing request, times 0 to 2, a gateway clock up to 4 | the later name wins unless a handler writes over a row it has not seen; the two copies converge |
| `exchange` | 8 keys, 2 scenarios of 2 keys, 1 key per action, 1 portal handler and the gateway's push, 1 order, 1 change at home, 1 fault (303,660 states) | what the copy may hold, when a key leaves it; that `GetExchange` comes to answer what the cabinet holds, for pushed keys for good and for polled keys again and again |
| `sync_runs` | 1 profile, 1 gateway and a foreign one, 2 runs, 2 handlers, alerts from 2 failures, 1 edit, 1 plain report, 1 fault (519,041 states) | the refinement; lost log lines, missing stamps and alerts only by overlapping reports or faults; every run ends |
| `accounts` | 6 user ids (2 global administrators, a local one, a guest, one email with two ids), 2 cabinets, 1 gateway, 2 handlers, 2 operations, 1 upkeep step (653,360 states) | who remains, who may change whom, who gets commands queued, which cabinet takes them |

Why the bounds are enough. Three commands in one page are the fewest with a middle one (a
command of another kind between two block commands). With one row per poll a page does not
hold two commands of a machine, which is where the order and the LIMIT matter. Two clients
are the fewest whose polls overlap, and a third one serves the other machine. In
`block_merge` a full block has 6 parameters and an action takes 7, so a request may fit
exactly, fit, or need two actions; three waiting actions give a run before, after and on
both sides of another command. One batch is cut inside the block, so that its second action,
without a trigger, is merged with its neighbours; a text, a bare trigger of scenario "1" and a
lamp together with the trigger of another scenario are among the commands. A mask pair and two bits are enough for the loop, since
parameters of different pairs do not touch each other; the theorem of section 5 removes
this bound. Two links, sessions and handlers are the fewest that race. With limits of 1
the boundary is reached by the first row. In `support` one report is enough, as reports
share only the lock; the cap of 3 attempts is reached by refusals together with both
faults. In `light_names` lights do not touch each other,
and the gateway's clock can be behind, right, within and beyond the trusted five minutes (1
tick). In `exchange` every order with more than one key is cut, so a failure between chunks
happens, and one portal writer with one push is the least that overlaps. In `sync_runs` two
runs and a threshold of 2 let results come in either order, in two handlers at once. In
`accounts` two operations are two requests that overlap (delete against delete, ban, role or
links; one bans the caller of the other between its two reads) or a request and a command on its
way; the upkeep step is an import, a registration or
a failed binding. `MaxFailures`, `MaxFaults`, `MaxQueue`, `MaxRenames`, `MaxTime`,
`MaxOrders`, `MaxChanges`, `MaxRuns`, `MaxEdits`, `MaxReports`, `MaxOps` and `MaxUpkeep` are
bounds of the model, not of the code.

Symmetry is used where the members of a set play one role and no liveness is checked.
Deadlock is not checked in the runs whose instances run out of commands, links or sessions;
`support`, `exchange`, `sync_runs` and `accounts` check it.

## 4. Fairness

`queue_live`: clients keep polling (weak fairness of `FetchSelect`), a handler that was
started runs to its end (`FetchReply`), and a client does not hang up before the first
UPDATE of every one of its polls (strong fairness of `MarkDelivered`). Gateways and
cabinets poll in a loop, and the handler runs without waiting for anything but the
database, which justifies the first two. The third is an assumption about the network:
with a client whose every request is cancelled at once nothing can be delivered. Nobody is
obliged to send or to acknowledge commands.

`support`: the worker of some instance runs again and again (`Run` ticks every
`SyncInterval`), a worker that has begun goes on, GitHub answers, if only with a refusal
(the client has a timeout), and the backoff and the refresh interval pass. Handlers are not
fair: they may crash or be cancelled at any point. Faults are finite in a behaviour.

`light_names`: the gateway keeps synchronising, and a handler that was started runs to its
end. Renames and faults are finite, and nothing is assumed of the clocks.

`exchange`: the gateway pushes each group of keys again and again (strong fairness, as the
push of one group makes the others wait), the cabinet polls, reports and applies what is
queued, and a handler that was started runs to its end. Nothing is assumed of the other
cabinets: `PollsRecur` says that their polls may starve one of this cabinet's groups.

`sync_runs`: a gateway keeps polling its configuration and ends each run it knows of with a
result (an assumption about the gateway: nothing in the cloud ends a run it forgets, it only
offers it again), and handlers run to their end. No
fairness of `StartSyncRun` or of progress reports is needed. Restarts and faults are finite.

`accounts`: a cabinet keeps polling and its polls are served. No user, administrator or
gateway is obliged to anything.

## 5. Proofs

TLAPS checks `CloudActionsProofs`, `MergeProofs`, `CredentialsProofs`,
`SupportReportsProofs`, `LightNamesProofs`, `ExchangeCacheProofs`, `SyncRunsProofs` and
`AccountsProofs`, each of which extends the module it is about (`MergeProofs` extends
`MergeLoop` and `BlockMerge`). The type invariants but that of `Accounts`, and `ReadInOrder`,
`DoneAfterContact`, `NeverRequeued`, `OppositesDisjoint`, `FutureBounded` and `DeliveryShape`, are only proved
and have no run; the other theorems state, for every value of the constants, what
a run shows on its instance.

**The queue.** For every set of commands (finite), machines and clients, every page size
and every number of failing UPDATEs (`QueueAssumption`, nothing else): `TypeOK`,
`NoCommandVanishes`, `DeliveredOnce`, `ReadInOrder`, `ReceivedInOrder`, `AckSettlesRun`,
`DoneAfterContact`, `MergeKeepsOrder`, and the action properties `NeverRequeued` and `DoneIsFinal`. The
properties are not inductive by themselves; `IInv` adds

- `RowsOK`: rows have a machine and a rank of their own, so that "oldest first" is an order;
- `PollsOK`: a poll holds rows of its machine and, below any row it holds, every pending
  row. This is the lemma `OldestIsPrefix` about ORDER BY ... LIMIT, and `ReadInOrder` rests
  on it;
- `ContentionOK`: two polls of one machine in progress are remembered in `contended`;
- `MarkingOK`: for an undisturbed row, marked and not yet marked is the same as not pending
  and pending, so that no other poll can hold it;
- `ReceivedOK`: an undisturbed row that was received has left the queue and every poll
  (`DeliveredOnce`, `DoneIsFinal`, `AckSettlesRun`), and a merged action holds rows of one
  machine (`DoneAfterContact`);
- `OvertakenOK`: without contention, an older row that was overtaken will never arrive
  (`ReceivedInOrder`).

`NatMin` and `YoungestExists` (a finite set of rows has a youngest one, from the library's
theorems on finite sets) give `CarriedIsBatch`: what `coalescePendingActions` delivers
stands for exactly the rows that were read. Then there is one lemma per action.
`MergeKeepsOrder` follows from `IInv` without a step of its own: the rows of a run have the same
run (`RunShared`), so two actions that share a row are named by the same youngest row
(`RunsDisjoint`), and a row of the younger action that were older than the other's name would
put that name into the younger run (`RunsOrdered`).

**The merge.** For any number of lights and shutters, any set of bits and of texts, and
lists of any length (`ParamsAssumption`, `InputsAssumption`): `blockOpposite` pairs the
indices (`OppositeIsPairing`), the loop computes the last intent (`MergeCorrect`), no
lamp or shutter is asked to go both ways (`OppositesDisjointThm`), and for commands without
texts the merged block leaves every lamp and shutter where the commands one by one would have
put it, from any state of the cabinet (`MergeSameLamps`). `LoopInv` is the type
invariant, the reference at the current position, the disjointness of opposite masks,
that an index with a text has an empty mask, that the block is written only after the loop,
and `SameButLeft`: the two cabinets differ by the masks of the indices not yet written. The
disjointness is what makes the order of the block's indices irrelevant;
`AskedStep` and `HoldsStep` say how the reference changes with one more parameter, and
`LoopStep` goes through the cases of the loop's body and the writing of the block. The part
about texts is needed because the loop clears a bit of the opposite mask only if no text
stands there.

For batches of any length, any set of other indices and any limit that takes a whole block
(`BlockAssumption`), no stored and no delivered action is empty or too long
(`FitsFirmwareThm`), the merged delivery has the effect of the commands one by one, with the
exceptions that `SameEffect` names (`SameEffectThm`), and without split requests and bare triggers the outlets are cut exactly as
often as it was asked (`CutsThm`). These compare what two loops compute over a queue of any
length, so they take induction over lists. It is done by the least counterexample: a set of
natural numbers that is not empty has a least element (`NatMin`, from `WFMin` of the library),
and `LoopInd` carries a set of states along the steps of a loop.

- *Loops.* `LoopExists` and `LoopUnique` say that a recursive function over `0 .. n` exists and
  is determined by its steps. `MergeParamsRun`, `MergeChunksRun` and
  `ExecuteRun` apply this to the three loops, with the types of their states: `GoodMasks` are
  masks of which opposite ones are disjoint, and where an index with a text has none; `Cabinet`
  is the type of the cabinet.
- *Sizes.* `RankExists`: in a finite set of numbers there is an element of every rank, because
  the ranks are as many as the elements and no two are equal. So `Sorted` lists a set
  (`SortedLists`), a completed request has one parameter per index (`ExpandType`), and a merged
  action is one whole block (`MergeSize`). `ChunkSizes` is the arithmetic of the cut.
- *Shape of a delivery.* `DeliveryShape`: the delivered actions are the waiting ones in their
  order, each as it was or the merge of a run of pure ones, and these runs and the unmerged
  actions partition the queue. Nothing is lost, repeated or moved.
- *One merged run.* `Reached(f, mm, g)` says that lamps `g` are the lamps `f` after the masks
  `mm`. One more numeric parameter keeps it, obeyed on one side and merged on the other
  (`ReachedStep`); so does one more completed action, since running the block of the table is
  obeying its parameters in their order (`ReachedRun`), and running the merged block reaches it
  (`ReachedBlock`). `PureEffect`: a completed light or shutter action leaves the outlets alone
  and, with the trigger, runs its masks and nothing else. `MergedRun` puts them together.
- *The whole delivery.* `DeliveryAgrees` is the induction over the delivered actions: after each,
  the cabinet agrees with the one that executed the waiting actions it stands for. Their tables
  need not be equal, as a merge leaves other masks than the last action of its run. What `Agree`
  asks of them then is that both are `Settled`: running the block again would move nothing
  (`RunTwice`), so a bare trigger of scenario "1" later finds no difference, and a completed
  action overwrites all of it (`AgreeStep`). If texts or triggers of other scenarios are among the
  actions, only the outlets are compared, which is what `CutsThm` needs.

`MergedRun` needs to know of every pure action in the queue that it has the whole block with
623 = "0". That is not what `IsPureBlockAction` checks: it only forbids other values. It is true
because of how actions come about, and `QueueInv` is the inductive invariant that says so: without
split requests every action of the queue and every chunk still to be stored is in `Kept` (not too
long, and with the whole block or nothing of it), and without bare triggers an action with the
trigger holds 623 (`Own`) and executing the queue cuts the outlets `cutsAsked` times.
`BlockAssumption` (30 is at least 18 + 2) is what lets a completed block fit one action.

**The credentials.** For any finite sets of links and sessions, any number of handlers and any
limits (`CredentialsAssumption`): `TypeOK`, `SingleUse`, `LinksSuperseded`,
`TemporaryPasswordLocks`, `SessionsEndWithPassword`, `OneLiveLink`, `IssueLimit` and
`SessionCap`. `LinksSuperseded`, `TemporaryPasswordLocks` and `SessionsEndWithPassword` are
inductive with the types; the others are not.

- `Spent` says of a link that set a password not only that it is unusable now but that its row
  is used or dead, which no handler turns into a usable one.
- `LinkInv` is behind both `OneLiveLink` and `IssueLimit`, which let overlapping requests off:
  of the handlers that issue a link at one time, at most one came while no other was (`Sole`).
  Between its retirement of the earlier links and its insertion every usable link is of an
  overlapping handler, and the window it counted (`Counted`) still has room for its link.
- `CapInv` is the same argument for `RememberSessionStore.Create`: at most one handler in the
  middle of it came alone (`Lone`), and the sessions it has not chosen to revoke leave it room.
  That its choice, the ones beyond the newest `MaxSessionsPerUser - 1`, leaves so few is
  `NewestAreFew`, a fact about ranks and cardinalities proved from well-foundedness.

**The support reports.** For any number of reports, handlers, workers, attempts and faults
(`SupportAssumption`): `TypeOK`, `SettledIsFinal` and `OneIssue`. `Books` relates the row, the
issues and what processes remember of them (a report has an issue on record exactly once it has
left the queue). `Alone` is what the advisory lock is for: a worker that reads back is alone,
has each report once, and what it is still to read or write is open, so it cannot reopen one
that is settled. `Held` is behind `OneIssue`: a report that is not excused is in the hands of
one process, is pending while it is, and has no issue before that process is about to record
one. What excuses a report is a list of `ListPending` that overlaps another send of it, or an
issue that was never recorded.

**The light names.** For any catalogue, number of handlers, normalisation and clock of the
gateway (`NamesAssumption`): `TypeOK`, `FutureBounded` and `LaterNameWins`. `IInv` adds
`SinceOK`, that no handler has read a clock of the future: a clamped time is compared with
the clock at the start of the request, and the bound is about the clock at the end.
`LaterNameWins` follows step by step: a handler that is not blind to the row compares with
the row it replaces. `NewerIsStrict` and `NewerIsTransitive` say that `LightNameNewer` is an
order.

**The exchange cache.** For any keys, values, layout of the scenarios, size of an action,
groups, requests and number of handlers (`ExchangeAssumption`): `TypeOK`, `KeysNeverLost` and
`CacheBacked`. The type invariant needs arithmetic about `ChunkExchangeParams` (no chunk is
empty, so the loop always has a head). `CacheBacked` is not inductive: a writer carries an old
copy and the keys it is about to write, so `Inv` adds that both are backed (`Carries`), that an
order past its loop is among the whole ones, and that the cabinet's table is in its past.
`Remembers` says that neither past nor orders are forgotten, so a step has to be examined only
where it writes.

**The sync runs.** For any sets of profiles, gateways, results and handlers, any threshold and
bounds (`SyncAssumption`): `TypeOK` (with: no run of a profile that is gone), `NoLineLost`, the
refinement `FollowsLifeCycle`, `LastRunCovers` and `AlertRaised`. `Numbered` adds to the types
that runs are numbered below the next one, also those a report still holds, and that a report
agrees with the row on the profile; so a number is not reused and a stamp goes to the right
profile. The refinement goes action by action: each maps to `AskFor`, `Begin`, `End`,
`TakeUpAgain`, `Remove` or a stutter. `LastRunCovers` and `AlertRaised` count on any handler in
progress, which is too weak to be inductive: `Covers` and `Alerted` count only on handlers that
have yet to stamp, and yet to look at a failing series; `LatestSame` and facts on
cardinalities say that the latest runs depend only on which runs there are.

**Accounts and cabinets.** For any sets of users, emails, requests, gateways and
cabinets, any ids of machines, any inventory to start from, and any links, roles, imports and registrations
(`CabinetsAssumption`, `AccountsAssumption`): `TypeOK`, `AdminRemains`, `ScopeOfAdmins`,
`AccessBehindCommands` and `CommandsGoHome`. The assumptions on the starting tables are what the
schema enforces: emails are unique, and so are the ids of machines (`Numbered`).

- `TypeOK` has two parts that could fail: an email has one account (by the UNIQUE constraint,
  as the lookup before it may be stale) and a machine its own number (`NewNumber`).
- The action properties are about handlers that write on what they read earlier. `Handlers` is
  the inductive invariant behind them, of two parts. `Decided` says what the decisions leave in a
  handler's hands: the account was let through active, and had the role and the reach, or the
  access, in the rows *as read*. `Traced` relates the readings of one handler, which looks its
  caller up by email each time: a later reading is of the same account, unless the earlier one is
  gone (`Later`; ids are not used twice, so an account that is gone stays gone). `ContinueFit` and
  `PeopleFit` show that every step of a handler goes where `Fit` allows.
- `UserMoves` lists the ways a row of `users` changes. With it, `AdminRemains` is an argument
  about one step: if the readings of the caller still hold, then by `Traced` they are of one
  account, which is an active global administrator, is not the target, and stays. In
  `AccessBehindCommands` each conjunct is traced to the reading it was decided on: the ban to the
  middleware's, gateway and approved link to the one of the access check, the machine to the last.
- `CommandsGoHome` needs `Numbers` (a cabinet's number is none, its own, or one an import gave)
  and `Polled` (a cabinet that is being served stays in the inventory, and a gateway presented
  what its session held then).

**Only model-checked.** The liveness properties (`EveryCommandAnswered`,
`EventuallyFiled`, `ClosedShows`, `Converges`, `PushesPrevail`, `PollsRecur`, `EveryRunEnds`,
`BoundCabinetServed`) are out of the prover's reach: they rest on fairness, and the installed
backends have no rule for ENABLED. Every safety property that a run checks is proved, but for
`CutsOnlyOnRequest`, which does not hold.

## 6. Where the code and its documentation disagree

- `outlets_split`: a batch is completed first and cut afterwards, so a long batch can put
  the trigger and the lamps in one action and index 623 in the next. The cabinet then obeys
  the value of 623 left by an earlier command and cuts the security outlets, which the
  documentation rules out. `CutsThm` shows that this is the only way, a request that triggers
  scenario "1" by itself apart: that one runs the scenario as the table has it, which may be a cut.
- Without a run of their own: the three exceptions of `SameEffect`, against
  `docs/features/portal-action-merge.md:5`, « le même effet que les commandes appliquées une à
  une ». (a) A batch with a lamp and a scenario trigger (590 other than "1") counts as a pure block
  action (`merge_params.go:43`); merged with a neighbour, its trigger becomes "1"
  (`merge_params.go:90`), the scenario is not launched and the lamps move (`OwnTriggers`). (b) Of a
  batch that is cut inside the block, the first action runs masks half of which are older, and the
  second has no trigger, so it moves nothing by itself but is given a trigger by a merge (`split`).
  (c) A text for a lamp replaces the numbers before it (`NumericQueue`). TLC violates `SameEffect`
  without `OwnTriggers` and without `NumericQueue` on queues of three actions, and without
  `~ split` on queues of four: two closing commands that are merged, then the first action of a
  cut batch.
- Without a run of its own: a reset link completed after a temporary password was issued
  writes the owner's password and leaves the lock and the expiry of the temporary one
  (`password_reset_store.go:143`). The owner is still asked to change it, and cannot log in
  once the expiry has passed; `domain/auth.go:25` describes the lock as that of a temporary
  password not yet replaced.

Some properties state the exact limits of what the code promises rather than a defect:
commands can be delivered twice or out of order when polls of one machine overlap; a
remembered session survives a password change if its login was in progress; a report gets a
second issue if the handler and the worker send it at once, or if an issue was not recorded; a rename answered as saved can be
replaced by an older one if a synchronisation had read the row before, or if the gateway's
clock is ahead by less than five minutes. A key leaves the exchange cache, and a line the log
of a sync run, when two writers read before either writes, or when the read of the cache fails;
a finished run is set running again by a report that read it before. The last active global
administrator can go by deleting or demoting the own account, by a change of role, or when two
requests overtake each other: the ban is looked at once, when a request is let through, so an
administrator who is forbidden right after that still forbids or deletes the one who did it. The
same holds for users: a command is queued for an account that was forbidden, moved to the VPS
gateway or given another machine after the read that decided on it, and the scenario handlers
take the machine of a second read that is not checked. `AdminRemains` and `AccessBehindCommands`
excuse exactly these cases, each by the reading that has changed. TLC reaches every excuse of
`AccessBehindCommands` and the ban of a caller between the two reads; the two other excuses of
`AdminRemains` (a caller's row changed after the second read only, a target promoted under a local
administrator's request) take more operations than the run has, and the theorem covers them. The cabinet that is bound is
`linked_armoire_id` while commands are queued under `linked_machine_id`: with different ones
the commands wait, which no rule of the code forbids. A cabinet that polls in step with
others may always be asked for the same group of keys, as all share one rotator.

## 7. Not modelled

- Reads that change nothing (`GetLastCloudActionForUser`, lists, dashboards), and columns that
  only a display reads: heartbeat and `last_seen`, geolocation, counters of a run.
- The in-memory rate limiter: a counter per address under one mutex, without interleaving.
- Newsletter and transactional mail: templates and sending, I/O and formatting.
- Audit, configuration, observability, Turnstile: wiring and calls to outside services.
- The `enabled` flag of sync profiles, and the MAC a gateway reports for a cabinet.
- The loss of the connection that holds the advisory lock while its worker goes on.

## 8. Plan

Every safety property that a run checks, and that holds, is also proved. What is left are
`PatchSyncProfile` and the reports a gateway makes of its own cabinets, the parts of components
listed as `partly`.
