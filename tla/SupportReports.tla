-------------------------- MODULE SupportReports ---------------------------
(***************************************************************************)
(* Reports filed from the support site (internal/support) and the issues   *)
(* opened for them on GitHub.  The handler that stores a report tries to   *)
(* open its issue at once; a worker of every backend instance retries what *)
(* is pending and reads back what is open, one instance at a time, under   *)
(* an advisory lock of Postgres.  Opening an issue and recording it are    *)
(* two steps, with a process of the internet between them.                 *)
(*                                                                         *)
(* The worker's batches (50 pending, 100 open) are large enough for every  *)
(* report, and the GitHub App is configured.  A report is rejected for its *)
(* content before anything is stored.                                      *)
(***************************************************************************)
EXTENDS Naturals, Sequences, FiniteSets

CONSTANTS
  Report,       \* rows of support_reports of one account
  Handler,      \* requests that may be in progress at once
  Instance,     \* backend instances, each with its worker
  Limit,        \* reports per window and account: 5 in 24 hours
  MaxAttempts,  \* 10 in the code
  MaxFaults,    \* bound on crashes, cancelled requests, lost answers, failed statements
  NoInstance    \* nobody holds the lock

ASSUME SupportAssumption ==
  /\ Limit \in Nat \ {0} /\ MaxAttempts \in Nat \ {0} /\ MaxFaults \in Nat
  /\ Handler \cap Instance = {} /\ NoInstance \notin Instance

VARIABLES
  report,   \* support_reports
  issues,   \* the issues opened for each report, in the order they were
  lock,     \* the instance that holds the advisory lock
  proc,     \* the handlers and workers in progress
  faults,   \* how many faults have happened
  excused   \* history: reports that two processes have had in hand at once, or that
            \* have an issue which was not recorded

vars == <<report, issues, lock, proc, faults, excused>>

Proc == Handler \cup Instance

\* due: pending, and the backoff since the last attempt has passed.  recent: created within the rate
\* limit's window.  stale: GitHub was last read more than RefreshAfter ago.
NoReport == [status |-> "none", attempts |-> 0, issue |-> 0,
             due |-> FALSE, recent |-> FALSE, stale |-> FALSE]
Idle == [at |-> "idle"]

Init ==
  /\ report = [r \in Report |-> NoReport]
  /\ issues = [r \in Report |-> <<>>]
  /\ lock = NoInstance
  /\ proc = [p \in Proc |-> Idle]
  /\ faults = 0 /\ excused = {}

Goto(p, next) == proc' = [proc EXCEPT ![p] = next]
Sending(todo) == [at |-> "send", todo |-> todo]
Fault == faults < MaxFaults /\ faults' = faults + 1

-----------------------------------------------------------------------------
(* Submit.                                                                 *)

\* CountSince and the limit of Submit.
BelowLimit == Cardinality({r \in Report : report[r].recent}) < Limit

Submit(h) ==
  /\ proc[h] = Idle /\ BelowLimit
  /\ Goto(h, [at |-> "counted"])
  /\ UNCHANGED <<report, issues, lock, faults, excused>>

\* Create; then the report is sent.
CreateReport(h, r) ==
  /\ proc[h].at = "counted" /\ report[r].status = "none"
  /\ report' = [report EXCEPT ![r] =
       [NoReport EXCEPT !.status = "pending", !.due = TRUE, !.recent = TRUE]]
  /\ Goto(h, Sending({r}))
  /\ UNCHANGED <<issues, lock, faults, excused>>

-----------------------------------------------------------------------------
(* send, for a handler and for the worker.                                 *)

ToSend(p) == IF proc[p].at = "send" THEN proc[p].todo ELSE {}

\* The reports a process has read as pending and not dealt with.
InHand(p) ==
  ToSend(p) \cup (IF proc[p].at = "record" THEN {proc[p].rep} \cup proc[p].todo ELSE {})

Opened(r) == [issues EXCEPT ![r] = Append(@, "open")]

\* MarkFailed, whatever the status.
MarkFailed(r) == [report EXCEPT ![r].attempts = @ + 1, ![r].due = FALSE]

\* CreateIssue answers with the number of the issue.
CreateIssue(p, r) ==
  /\ r \in ToSend(p)
  /\ issues' = Opened(r)
  /\ Goto(p, [at |-> "record", rep |-> r, iss |-> Len(issues[r]) + 1,
              todo |-> proc[p].todo \ {r}])
  /\ UNCHANGED <<report, lock, faults, excused>>

\* GitHub refuses, or is down.
CreateRefused(p, r) ==
  /\ r \in ToSend(p)
  /\ report' = MarkFailed(r)
  /\ Goto(p, Sending(proc[p].todo \ {r}))
  /\ UNCHANGED <<issues, lock, faults, excused>>

\* GitHub opens the issue, but its answer is lost.
AnswerLost(p, r) ==
  /\ r \in ToSend(p) /\ Fault
  /\ issues' = Opened(r)
  /\ report' = MarkFailed(r)
  /\ Goto(p, Sending(proc[p].todo \ {r}))
  /\ excused' = excused \cup {r}
  /\ UNCHANGED lock

\* The error of MarkFailed is ignored.
MarkFailedFails(p, r) ==
  /\ r \in ToSend(p) /\ Fault
  /\ Goto(p, Sending(proc[p].todo \ {r}))
  /\ UNCHANGED <<report, issues, lock, excused>>

\* MarkSent, whatever the status.
MarkSent(p) ==
  /\ proc[p].at = "record"
  /\ LET r == proc[p].rep IN
       report' = [report EXCEPT ![r] =
         [report[r] EXCEPT !.status = "open", !.issue = proc[p].iss,
                           !.attempts = @ + 1, !.due = FALSE, !.stale = FALSE]]
  /\ Goto(p, Sending(proc[p].todo))
  /\ UNCHANGED <<issues, lock, faults, excused>>

\* The issue exists, the row does not know it.
MarkSentFails(p) ==
  /\ proc[p].at = "record" /\ Fault
  /\ excused' = excused \cup {proc[p].rep}
  /\ Goto(p, Sending(proc[p].todo))
  /\ UNCHANGED <<report, issues, lock>>

\* The handler has answered.
SubmitEnds(h) ==
  /\ proc[h] = Sending({})
  /\ Goto(h, Idle)
  /\ UNCHANGED <<report, issues, lock, faults, excused>>

-----------------------------------------------------------------------------
(* SyncOnce.                                                               *)

\* Mutant: the backoff of a failed report never passes.
PendingUntried(r) ==
  report[r].status = "pending" /\ report[r].due /\ report[r].attempts = 0

\* Mutant: the status is not looked at.
SendAgain(r) == report[r].status # "none" /\ report[r].attempts < MaxAttempts

\* ListPending.
ListPending(r) ==
  report[r].status = "pending" /\ report[r].due /\ report[r].attempts < MaxAttempts

\* Mutant: only the reports sent at the first attempt are read back.
OpenAtFirst(r) == report[r].status = "open" /\ report[r].stale /\ report[r].attempts = 1

\* ListOpenToSync.
ListOpenToSync(r) == report[r].status = "open" /\ report[r].stale

\* Mutant: every instance works.
LockIgnored(i) == TRUE

\* pg_try_advisory_lock of WithSyncLock; an instance that does not get it comes back
\* after SyncInterval.
TryLock(i) == lock = NoInstance

SyncOnce(i) ==
  /\ proc[i] = Idle /\ TryLock(i)
  /\ lock' = i
  /\ LET pending == {r \in Report : ListPending(r)} IN
       /\ Goto(i, Sending(pending))
       /\ excused' = excused \cup {r \in pending : \E p \in Proc : r \in InHand(p)}
  /\ UNCHANGED <<report, issues, faults>>

\* The pending reports are done; the open ones are read back.
BeginRefresh(i) ==
  /\ proc[i] = Sending({})
  /\ Goto(i, [at |-> "refresh", todo |-> {<<r, report[r].issue>> : r \in {x \in Report : ListOpenToSync(x)}}])
  /\ UNCHANGED <<report, issues, lock, faults, excused>>

ToRead(i) == IF proc[i].at = "refresh" THEN proc[i].todo ELSE {}

StatusFromIssue(iss) ==
  CASE iss = "open"      -> "open"
    [] iss = "completed" -> "resolved"
    [] iss = "other"     -> "closed"

\* GetIssue, of the issue that was on record when the list was read.
GetIssue(i, x) ==
  /\ x \in ToRead(i)
  /\ Goto(i, [at |-> "update", rep |-> x[1], todo |-> proc[i].todo \ {x},
              status |-> StatusFromIssue(issues[x[1]][x[2]])])
  /\ UNCHANGED <<report, issues, lock, faults, excused>>

\* A report that cannot be read back is skipped.
GetIssueFails(i, x) ==
  /\ x \in ToRead(i) /\ Fault
  /\ Goto(i, [at |-> "refresh", todo |-> proc[i].todo \ {x}])
  /\ UNCHANGED <<report, issues, lock, excused>>

\* UpdateStatus, whatever the status.
UpdateStatus(i) ==
  /\ proc[i].at = "update"
  /\ report' = [report EXCEPT ![proc[i].rep] =
       [@ EXCEPT !.status = proc[i].status, !.stale = FALSE]]
  /\ Goto(i, [at |-> "refresh", todo |-> proc[i].todo])
  /\ UNCHANGED <<issues, lock, faults, excused>>

Unlock(i) == lock' = IF lock = i THEN NoInstance ELSE lock

SyncEnds(i) ==
  /\ proc[i] = [at |-> "refresh", todo |-> {}]
  /\ Goto(i, Idle) /\ Unlock(i)
  /\ UNCHANGED <<report, issues, faults, excused>>

\* A process dies, a request is cancelled, or SyncOnce returns an error; a lock ends
\* with the connection that holds it.
Crash(p) ==
  /\ proc[p] # Idle /\ Fault
  /\ Goto(p, Idle) /\ Unlock(p)
  /\ excused' = excused \cup (IF proc[p].at = "record" THEN {proc[p].rep} ELSE {})
  /\ UNCHANGED <<report, issues>>

-----------------------------------------------------------------------------
(* GitHub and time.                                                        *)

\* A maintainer closes the issue; closing one that is not on record is never seen.
CloseIssue(r, state) ==
  /\ report[r].issue # 0 /\ issues[r][report[r].issue] = "open"
  /\ issues' = [issues EXCEPT ![r][report[r].issue] = state]
  /\ UNCHANGED <<report, lock, proc, faults, excused>>

\* An attempt's backoff passes.
BackoffPasses(r) ==
  /\ report[r].status = "pending" /\ ~ report[r].due
  /\ report' = [report EXCEPT ![r].due = TRUE]
  /\ UNCHANGED <<issues, lock, proc, faults, excused>>

RefreshAfter(r) ==
  /\ report[r].status = "open" /\ ~ report[r].stale
  /\ report' = [report EXCEPT ![r].stale = TRUE]
  /\ UNCHANGED <<issues, lock, proc, faults, excused>>

WindowPasses(r) ==
  /\ report[r].recent
  /\ report' = [report EXCEPT ![r].recent = FALSE]
  /\ UNCHANGED <<issues, lock, proc, faults, excused>>

-----------------------------------------------------------------------------
\* What a process does by itself, once begun.
Continue(p) ==
  \/ \E r \in Report : CreateIssue(p, r) \/ CreateRefused(p, r)
  \/ MarkSent(p)

Next ==
  \/ \E h \in Handler : Submit(h) \/ SubmitEnds(h) \/ \E r \in Report : CreateReport(h, r)
  \/ \E i \in Instance :
       \/ SyncOnce(i) \/ BeginRefresh(i) \/ UpdateStatus(i) \/ SyncEnds(i)
       \/ \E x \in ToRead(i) : GetIssue(i, x) \/ GetIssueFails(i, x)
  \/ \E p \in Proc :
       \/ Continue(p) \/ MarkSentFails(p) \/ Crash(p)
       \/ \E r \in Report : AnswerLost(p, r) \/ MarkFailedFails(p, r)
  \/ \E r \in Report :
       \/ BackoffPasses(r) \/ RefreshAfter(r) \/ WindowPasses(r)
       \/ \E state \in {"completed", "other"} : CloseIssue(r, state)

Spec == Init /\ [][Next]_vars

\* Workers tick for ever (Run), GitHub answers, if only with a refusal, and time passes.
Fairness ==
  /\ WF_vars(\E i \in Instance : SyncOnce(i))
  /\ \A i \in Instance :
       WF_vars(Continue(i) \/ BeginRefresh(i) \/ UpdateStatus(i) \/ SyncEnds(i)
                 \/ \E x \in ToRead(i) : GetIssue(i, x))
  /\ \A r \in Report : WF_vars(BackoffPasses(r)) /\ WF_vars(RefreshAfter(r))

FairSpec == Spec /\ Fairness

-----------------------------------------------------------------------------
(* Properties.                                                             *)

ReportRow == [status : {"none", "pending", "open", "resolved", "closed"},
              attempts : Nat, issue : Nat, due : BOOLEAN, recent : BOOLEAN, stale : BOOLEAN]
Work ==
  [at : {"idle", "counted"}]
  \cup [at : {"send"}, todo : SUBSET Report]
  \cup [at : {"record"}, rep : Report, iss : Nat, todo : SUBSET Report]
  \cup [at : {"refresh"}, todo : SUBSET (Report \X Nat)]
  \cup [at : {"update"}, rep : Report, status : {"open", "resolved", "closed"},
        todo : SUBSET (Report \X Nat)]

\* The rows, the issues and the processes' local state have their types.
TypeOK ==
  /\ report \in [Report -> ReportRow]
  /\ issues \in [Report -> Seq({"open", "completed", "other"})]
  /\ lock \in Instance \cup {NoInstance}
  /\ proc \in [Proc -> Work]
  /\ faults \in 0..MaxFaults
  /\ excused \subseteq Report

\* One issue is opened for a report, unless two processes had it in hand at once or an
\* issue was never recorded.
OneIssue == \A r \in Report : Len(issues[r]) <= 1 \/ r \in excused

\* A report shown as resolved or closed is not reopened by a worker, however late what
\* it read of GitHub: only the end of a send that was in progress does.
SettledIsFinal ==
  [][\A r \in Report :
       report[r].status \in {"resolved", "closed"} =>
         \/ report'[r].status = report[r].status
         \/ \E p \in Proc : proc[p].at = "record" /\ proc[p].rep = r]_vars

\* A pending report is sent in the end, unless GitHub has refused it MaxAttempts times.
EventuallyFiled ==
  \A r \in Report :
    report[r].status = "pending" ~>
      report[r].status # "pending" \/ report[r].attempts >= MaxAttempts

\* SyncInterval and RefreshAfter: an issue closed on GitHub shows in the list of reports,
\* unless the end of another send puts a second issue in its place.
ClosedShows ==
  \A r \in Report :
    (report[r].status = "open" /\ issues[r][report[r].issue] # "open")
      ~> report[r].status # "open" \/ issues[r][report[r].issue] = "open"
=============================================================================
