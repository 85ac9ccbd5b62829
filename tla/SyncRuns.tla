------------------------------ MODULE SyncRuns ------------------------------
(***************************************************************************)
(* Sync profiles and their runs (internal/data/sync_profile_store.go,      *)
(* data/sync_alert.go, handlers/gateway_sync.go, gateway_sync_profile.go,  *)
(* admin/sync_handlers.go).  An administrator keeps profiles, for one      *)
(* gateway or for all; a run of a profile is asked for by the              *)
(* administrator or by the gateway's own schedule.  The gateway polls its  *)
(* unfinished runs, starts them, reports progress and at last a result.    *)
(* A report reads the run, computes the new row from what it has read and  *)
(* writes it whole; a result also stamps the profile and may raise an      *)
(* alert, each by a statement of its own.                                  *)
(*                                                                         *)
(* The gateway is external: it works on the runs of its last poll, forgets *)
(* them when it restarts, and ends a run it knows of by reporting a        *)
(* result.  The counts of a run and its started_at are left out; of        *)
(* last_run_at is kept for which finished runs it is not before their end. *)
(***************************************************************************)
EXTENDS Integers, FiniteSets

CONSTANTS
  Profile,
  Gateway,      \* the gateways that take part
  Owner,        \* the gateway_ids a profile may be given
  Everyone,     \* the gateway_id '', of a profile for all gateways
  Absent,       \* no such profile, no such run
  Result,       \* the results the gateways report
  Request,      \* handlers that may be in progress at once
  syncConsecutiveFailureThreshold,  \* 3 in the code
  MaxRuns,      \* bound on the runs asked for
  MaxEdits,     \* bound on the edits of the profiles
  MaxReports,   \* bound on the reports without a result
  MaxFaults     \* bound on the handlers that fail and the gateways that restart

Run == 1 .. MaxRuns          \* numbered in the order of created_at
Failing == {"partial", "failed"}
Finished == {"success"} \cup Failing

\* The rows of sync_runs and of sync_profiles.
Row == [profile : Profile, gw : Gateway, status : {"pending", "running"} \cup Finished,
        lines : SUBSET {"progress", "end"}]
ProfileRow == [gw : Owner, stamped : SUBSET Run]

ASSUME SyncAssumption ==
  /\ Result \subseteq {"success", "partial", "failed"}
  /\ Everyone \in Owner \ Gateway
  /\ Absent \notin Profile \cup Row \cup ProfileRow
  /\ syncConsecutiveFailureThreshold \in Nat \ {0}
  /\ {MaxRuns, MaxEdits, MaxReports, MaxFaults} \subseteq Nat

VARIABLES
  profiles,  \* the table sync_profiles
  runs,      \* the table sync_runs
  known,     \* the runs each gateway was told of by its last poll
  req,       \* the handlers in progress
  alerts,    \* the groups of runs an alert was logged for
  used       \* how much of each bound is spent

vars == <<profiles, runs, known, req, alerts, used>>

Idle == [op |-> "idle"]
Goto(p, next) == req' = [req EXCEPT ![p] = next]
Spend(what, bound) == used[what] < bound /\ used' = [used EXCEPT ![what] = @ + 1]

\* The templates of the migration, for all gateways, and profiles still to be created.
Init ==
  /\ profiles \in [Profile -> {Absent, [gw |-> Everyone, stamped |-> {}]}]
  /\ runs = [r \in Run |-> Absent]
  /\ known = [g \in Gateway |-> {}]
  /\ req = [p \in Request |-> Idle]
  /\ alerts = {}
  /\ used = [asked |-> 0, runs |-> 0, edits |-> 0, reports |-> 0, faults |-> 0]

Serves(pf, g) == profiles[pf] # Absent /\ profiles[pf].gw \in {Everyone, g}
RunsOf(pf) == {r \in Run : runs[r] # Absent /\ runs[r].profile = pf}

-----------------------------------------------------------------------------
(* The administrator's edits, one statement each.                          *)

CreateSyncProfile(pf, g) ==
  /\ profiles[pf] = Absent /\ Spend("edits", MaxEdits)
  /\ profiles' = [profiles EXCEPT ![pf] = [gw |-> g, stamped |-> {}]]
  /\ UNCHANGED <<runs, known, req, alerts>>

UpdateSyncProfile(pf, g) ==
  /\ profiles[pf] # Absent /\ Spend("edits", MaxEdits)
  /\ profiles' = [profiles EXCEPT ![pf].gw = g]
  /\ UNCHANGED <<runs, known, req, alerts>>

\* The runs of the profile go with it (ON DELETE CASCADE).
DeleteSyncProfile(pf) ==
  /\ profiles[pf] # Absent /\ Spend("edits", MaxEdits)
  /\ profiles' = [profiles EXCEPT ![pf] = Absent]
  /\ runs' = [r \in Run |-> IF r \in RunsOf(pf) THEN Absent ELSE runs[r]]
  /\ UNCHANGED <<known, req, alerts>>

-----------------------------------------------------------------------------
(* A run is asked for: the profile is read, and the run is inserted for    *)
(* the gateway found then.                                                 *)

\* From the administration: the profile's gateway, or the one the request names.
RunSyncProfile(p, pf, g) ==
  /\ req[p] = Idle /\ profiles[pf] # Absent /\ Spend("asked", MaxRuns)
  /\ Goto(p, [op |-> "create", profile |-> pf, gw |-> g])
  /\ UNCHANGED <<profiles, runs, known, alerts>>

\* From the gateway, for a profile that serves it.
SyncRunCreate(p, pf, g) ==
  /\ req[p] = Idle /\ Serves(pf, g) /\ Spend("asked", MaxRuns)
  /\ Goto(p, [op |-> "create", profile |-> pf, gw |-> g])
  /\ UNCHANGED <<profiles, runs, known, alerts>>

\* The insertion; it fails when the profile has gone meanwhile (foreign key).
CreateSyncRun(p) ==
  /\ req[p].op = "create" /\ Goto(p, Idle)
  /\ IF profiles[req[p].profile] = Absent
       THEN UNCHANGED <<runs, used>>
       ELSE /\ Spend("runs", MaxRuns)
            /\ runs' = [runs EXCEPT ![used.runs + 1] =
                 [profile |-> req[p].profile, gw |-> req[p].gw, status |-> "pending",
                  lines |-> {}]]
  /\ UNCHANGED <<profiles, known, alerts>>

-----------------------------------------------------------------------------
(* The gateway.                                                            *)

\* Mutant: only the runs that have not begun are offered.
ListOnlyPending(g) ==
  {r \in Run : runs[r] # Absent /\ runs[r].gw = g /\ runs[r].status = "pending"}

ListPendingSyncRuns(g) ==
  {r \in Run : runs[r] # Absent /\ runs[r].gw = g /\ runs[r].status \in {"pending", "running"}}

SyncConfig(g) ==
  /\ known' = [known EXCEPT ![g] = ListPendingSyncRuns(g)]
  /\ UNCHANGED <<profiles, runs, req, alerts, used>>

GatewayRestart(g) ==
  /\ known[g] # {} /\ Spend("faults", MaxFaults)
  /\ known' = [known EXCEPT ![g] = {}]
  /\ UNCHANGED <<profiles, runs, req, alerts>>

StartSyncRun(g, r) ==
  /\ r \in known[g] /\ runs[r] # Absent
  /\ runs[r].gw = g /\ runs[r].status = "pending"
  /\ runs' = [runs EXCEPT ![r].status = "running"]
  /\ UNCHANGED <<profiles, known, req, alerts, used>>

-----------------------------------------------------------------------------
(* AppendSyncRunProgress.                                                  *)

Report == [status : {"", "running"} \cup Finished, line : {"progress", "end"}]

\* The report of a gateway on one of its runs; the row is read.
SyncRunProgress(p, g, r, report) ==
  /\ req[p] = Idle /\ r \in known[g] /\ runs[r] # Absent /\ runs[r].gw = g
  /\ Goto(p, [op |-> "progress", run |-> r, report |-> report, read |-> runs[r]])
  /\ UNCHANGED <<profiles, runs, alerts>>

ReportProgress(p, g, r) ==
  /\ \E s \in {"", "running"} : SyncRunProgress(p, g, r, [status |-> s, line |-> "progress"])
  /\ Spend("reports", MaxReports)
  /\ UNCHANGED known

\* The gateway is done with a run.
ReportResult(p, g, r) ==
  /\ \E s \in Result : SyncRunProgress(p, g, r, [status |-> s, line |-> "end"])
  /\ known' = [known EXCEPT ![g] = @ \ {r}]
  /\ UNCHANGED used

\* Mutant: a report without a status sets the run going.
AlwaysRunning(report, read) == IF report.status # "" THEN report.status ELSE "running"

\* The status the report leads to.
NewStatus(report, read) ==
  IF report.status # "" THEN report.status
  ELSE IF read.status = "pending" THEN "running" ELSE read.status

\* Mutant: the new line takes the place of the old ones.
OneLineRow(p) ==
  LET read == req[p].read  status == NewStatus(req[p].report, read) IN
  [read EXCEPT !.status = status, !.lines = {req[p].report.line}]

\* The row the handler writes, from the row it has read.
NewRow(p) ==
  LET read == req[p].read  status == NewStatus(req[p].report, read) IN
  [read EXCEPT !.status = status, !.lines = @ \cup {req[p].report.line}]

\* The row is written without a look at what it holds by now; a run that is gone stays
\* gone.  A result puts last_run_at of the profile behind.
AppendSyncRunProgress(p) ==
  /\ req[p].op = "progress"
  /\ LET r == req[p].run  pf == req[p].read.profile  row == NewRow(p)  fin == row.status \in Finished IN
       /\ runs' = IF runs[r] = Absent THEN runs ELSE [runs EXCEPT ![r] = row]
       /\ profiles' = IF runs[r] = Absent \/ ~ fin THEN profiles
                      ELSE [profiles EXCEPT ![pf].stamped = @ \ {r}]
       /\ Goto(p, IF fin THEN [op |-> "stamp", profile |-> pf, failing |-> row.status \in Failing]
                  ELSE Idle)
  /\ UNCHANGED <<known, alerts, used>>

\* Mutant: only a success stamps the profile.
StampIfSuccess(p, ok) ==
  /\ req[p].op = "stamp"
  /\ LET pf == req[p].profile IN
       /\ profiles' = IF ok /\ ~ req[p].failing /\ profiles[pf] # Absent
                      THEN [profiles EXCEPT ![pf].stamped =
                              {r \in RunsOf(pf) : runs[r].status \in Finished}]
                      ELSE profiles
       /\ Goto(p, IF req[p].failing THEN [op |-> "alert", profile |-> pf] ELSE Idle)
  /\ IF ok THEN UNCHANGED used ELSE Spend("faults", MaxFaults)
  /\ UNCHANGED <<runs, known, alerts>>

\* last_run_at of the profile is now; an error of this statement is ignored.
StampProfile(p, ok) ==
  /\ req[p].op = "stamp"
  /\ LET pf == req[p].profile IN
       /\ profiles' = IF ok /\ profiles[pf] # Absent
                      THEN [profiles EXCEPT ![pf].stamped =
                              {r \in RunsOf(pf) : runs[r].status \in Finished}]
                      ELSE profiles
       /\ Goto(p, IF req[p].failing THEN [op |-> "alert", profile |-> pf] ELSE Idle)
  /\ IF ok THEN UNCHANGED used ELSE Spend("faults", MaxFaults)
  /\ UNCHANGED <<runs, known, alerts>>

\* The latest runs of a profile, as many as make an alert.
ListSyncRunsForProfile(pf) ==
  {r \in RunsOf(pf) :
     Cardinality({q \in RunsOf(pf) : q >= r}) <= syncConsecutiveFailureThreshold}

\* Mutant: a partial run breaks the series.
AllFailed(group) ==
  /\ Cardinality(group) = syncConsecutiveFailureThreshold
  /\ \A r \in group : runs[r].status = "failed"

AllFailing(group) ==
  /\ Cardinality(group) = syncConsecutiveFailureThreshold
  /\ \A r \in group : runs[r].status \in Failing

maybeAlertConsecutiveFailures(p) ==
  /\ req[p].op = "alert" /\ Goto(p, Idle)
  /\ LET latest == ListSyncRunsForProfile(req[p].profile) IN
       alerts' = IF AllFailing(latest) THEN alerts \cup {latest} ELSE alerts
  /\ UNCHANGED <<profiles, runs, known, used>>

\* A statement fails, or the process stops: what was written stays.
Fail(p) ==
  /\ req[p] # Idle /\ Spend("faults", MaxFaults)
  /\ Goto(p, Idle)
  /\ UNCHANGED <<profiles, runs, known, alerts>>

-----------------------------------------------------------------------------
Continue(p) ==
  \/ CreateSyncRun(p)
  \/ AppendSyncRunProgress(p)
  \/ \E ok \in BOOLEAN : StampProfile(p, ok)
  \/ maybeAlertConsecutiveFailures(p)

Next ==
  \/ \E pf \in Profile :
       \/ \E g \in Owner :
            CreateSyncProfile(pf, g) \/ UpdateSyncProfile(pf, g)
       \/ DeleteSyncProfile(pf)
  \/ \E p \in Request, pf \in Profile, g \in Gateway :
       \/ RunSyncProfile(p, pf, g)
       \/ SyncRunCreate(p, pf, g)
  \/ \E g \in Gateway :
       \/ SyncConfig(g)
       \/ GatewayRestart(g)
       \/ \E r \in Run :
            \/ StartSyncRun(g, r)
            \/ \E p \in Request : ReportProgress(p, g, r) \/ ReportResult(p, g, r)
  \/ \E p \in Request : Continue(p) \/ Fail(p)

Spec == Init /\ [][Next]_vars

\* A gateway keeps polling and ends the runs it knows of; a handler that was started runs
\* to its end.
Fairness ==
  /\ \A g \in Gateway : WF_vars(SyncConfig(g))
  /\ \A g \in Gateway, r \in Run : WF_vars(\E p \in Request : ReportResult(p, g, r))
  /\ \A p \in Request : WF_vars(Continue(p))

FairSpec == Spec /\ Fairness

-----------------------------------------------------------------------------
(* Properties.                                                             *)

Message ==
  {Idle}
  \cup [op : {"create"}, profile : Profile, gw : Gateway]
  \cup [op : {"progress"}, run : Run, report : Report, read : Row]
  \cup [op : {"stamp"}, profile : Profile, failing : BOOLEAN]
  \cup [op : {"alert"}, profile : Profile]

\* The rows and the handlers' local state have their types, and a run belongs to a profile
\* that exists.
TypeOK ==
  /\ profiles \in [Profile -> {Absent} \cup ProfileRow]
  /\ runs \in [Run -> {Absent} \cup Row]
  /\ \A r \in Run : runs[r] # Absent => profiles[runs[r].profile] # Absent
  /\ known \in [Gateway -> SUBSET Run]
  /\ req \in [Request -> Message]
  /\ alerts \subseteq SUBSET Run
  /\ used \in [asked : 0 .. MaxRuns, runs : 0 .. MaxRuns, edits : 0 .. MaxEdits,
               reports : 0 .. MaxReports, faults : 0 .. MaxFaults]

\* The handler works on a row that has changed since it was read.
Stale(p) == req[p].op = "progress" /\ req[p].read # runs[req[p].run]

\* A run's log only grows: AppendSyncRunProgress appends to what it has read, so a line is
\* lost only by a report that has read the row before another one wrote it, or with the
\* whole profile.
NoLineLost ==
  [][\A r \in Run : runs[r] # Absent /\ runs'[r] # Absent =>
       \/ runs[r].lines \subseteq runs'[r].lines
       \/ \E p \in Request : Stale(p) /\ req[p].run = r /\ req'[p] # req[p]]_vars

\* A handler of AppendSyncRunProgress is between the statements that follow a result.
InProgress(pf) ==
  \E p \in Request : req[p].op \in {"stamp", "alert"} /\ req[p].profile = pf

\* When the latest runs of a profile have all failed or ended partially, an alert was
\* logged for them: whichever of them ends last, and in whatever order the reports came in,
\* its handler sees them all (unless a handler was cut short).
AlertRaised ==
  \A pf \in Profile :
    LET latest == ListSyncRunsForProfile(pf) IN
    /\ Cardinality(latest) = syncConsecutiveFailureThreshold
    /\ \A r \in latest : runs[r].status \in Failing
    => latest \in alerts \/ InProgress(pf) \/ used.faults > 0

\* decodeProfile computes next_run_at from last_run_at: it is never before the end of a
\* finished run, unless a handler is still to stamp the profile or was cut short.
LastRunCovers ==
  \A pf \in Profile : \A r \in RunsOf(pf) :
    runs[r].status \in Finished => r \in profiles[pf].stamped \/ InProgress(pf) \/ used.faults > 0

\* A finished run is only taken up again by a report that was held back.
HeldBack ==
  {r \in Run : \E p \in Request :
     req[p].op = "progress" /\ req[p].run = r /\ (Stale(p) \/ req[p].report.status = "running")}

Life == INSTANCE SyncLifeCycle WITH
  profile  <- [r \in Run |-> IF runs[r] = Absent THEN Absent ELSE runs[r].profile],
  status   <- [r \in Run |-> IF runs[r] = Absent THEN "none" ELSE runs[r].status],
  heldBack <- HeldBack

\* The table sync_runs and its handlers implement the life cycle of runs.
FollowsLifeCycle == Life!Spec

\* Every run comes to an end: a run whose report was lost, or whose gateway restarted in
\* the middle, is offered again by ListPendingSyncRuns until it has a result or is gone.
EveryRunEnds ==
  \A r \in Run : runs[r] # Absent ~> (runs[r] = Absent \/ runs[r].status \in Finished)
=============================================================================
