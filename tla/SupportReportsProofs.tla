------------------------ MODULE SupportReportsProofs ------------------------
(***************************************************************************)
(* Proofs that SupportReports has its safety properties for every number   *)
(* of reports, requests and backend instances, and of faults.              *)
(***************************************************************************)
EXTENDS SupportReports, SequenceTheorems, TLAPS

-----------------------------------------------------------------------------
(* The inductive invariants.                                               *)

\* The rows and the issues agree: a report has an issue on record exactly once it has
\* left the queue, and what a process remembers of an issue is an issue of that report.
Books ==
  /\ \A r \in Report : report[r].issue \in 0..Len(issues[r])
  /\ \A r \in Report : report[r].issue = 0 <=> report[r].status \in {"none", "pending"}
  /\ \A p \in Proc : proc[p].at = "record" => proc[p].iss \in 1..Len(issues[proc[p].rep])
  /\ \A p \in Proc : proc[p].at \in {"refresh", "update"} =>
       \A x \in proc[p].todo : x[2] \in 1..Len(issues[x[1]])

\* A worker reads GitHub back alone, under the lock, and each report once, so what it is
\* still to read or to write is open.
Alone ==
  /\ \A i \in Instance : proc[i].at # "idle" => lock = i
  /\ \A p \in Proc : proc[p].at \in {"refresh", "update"} =>
       /\ p \in Instance
       /\ \A x \in proc[p].todo : report[x[1]].status = "open"
       /\ \A x, y \in proc[p].todo : x[1] = y[1] => x = y
  /\ \A p \in Proc : proc[p].at = "update" =>
       report[proc[p].rep].status = "open" /\ \A x \in proc[p].todo : x[1] # proc[p].rep

\* Process p has opened an issue for r and is about to record it.
Recording(p, r) == proc[p].at = "record" /\ proc[p].rep = r

\* A report that nobody is excused for is in the hands of one process, which has opened
\* its issue only when it is about to record it.
Held ==
  /\ \A p \in Proc : \A r \in InHand(p) : report[r].status # "none"
  /\ \A r \in Report \ excused :
       /\ \A p, q \in Proc : r \in InHand(p) /\ r \in InHand(q) => p = q
       /\ \A p \in Proc : r \in InHand(p) => report[r].status = "pending"
       /\ \A p \in Proc : Recording(p, r) => r \notin proc[p].todo
       /\ report[r].status \in {"none", "pending"} /\ (\A p \in Proc : ~ Recording(p, r))
            => Len(issues[r]) = 0
       /\ Len(issues[r]) <= 1

-----------------------------------------------------------------------------
(* The type invariant.                                                     *)

\* The local state of a process, by where it stands.
LEMMA WorkCases ==
  ASSUME TypeOK, NEW p \in Proc
  PROVE  /\ proc[p].at = "send" =>
              proc[p] = Sending(proc[p].todo) /\ proc[p].todo \in SUBSET Report
         /\ proc[p].at = "record" =>
              proc[p].rep \in Report /\ proc[p].iss \in Nat /\ proc[p].todo \in SUBSET Report
         /\ proc[p].at = "refresh" => proc[p].todo \in SUBSET (Report \X Nat)
         /\ proc[p].at = "update" =>
              /\ proc[p].rep \in Report /\ proc[p].todo \in SUBSET (Report \X Nat)
              /\ proc[p].status \in {"open", "resolved", "closed"}
         /\ proc[p].at = "idle" => proc[p] = Idle
         /\ proc[p].at \in {"idle", "counted", "send", "record", "refresh", "update"}
BY DEF TypeOK, Work, Sending, Idle

\* What the statements make of a row.
LEMMA RowEdits ==
  ASSUME NEW row \in ReportRow, NEW n \in Nat, NEW st \in {"open", "resolved", "closed"}
  PROVE  /\ [row EXCEPT !.attempts = @ + 1, !.due = FALSE] \in ReportRow
         /\ [row EXCEPT !.status = "open", !.issue = n, !.attempts = @ + 1, !.due = FALSE,
                        !.stale = FALSE] \in ReportRow
         /\ [row EXCEPT !.status = st, !.stale = FALSE] \in ReportRow
         /\ [row EXCEPT !.due = TRUE] \in ReportRow
         /\ [row EXCEPT !.stale = TRUE] \in ReportRow
         /\ [row EXCEPT !.recent = FALSE] \in ReportRow
<1>0. PICK k \in Nat : k = row.attempts + 1
  BY DEF ReportRow
<1>1. [row EXCEPT !.attempts = @ + 1, !.due = FALSE] \in ReportRow
  <2>1. [row EXCEPT !.attempts = k, !.due = FALSE] \in ReportRow
    BY DEF ReportRow
  <2> QED
    BY <1>0, <2>1
<1>2. [row EXCEPT !.status = "open", !.issue = n, !.attempts = @ + 1, !.due = FALSE,
                  !.stale = FALSE] \in ReportRow
  <2>1. [row EXCEPT !.status = "open", !.issue = n, !.attempts = k, !.due = FALSE,
                    !.stale = FALSE] \in ReportRow
    BY DEF ReportRow
  <2> QED
    BY <1>0, <2>1
<1>3. [row EXCEPT !.status = st, !.stale = FALSE] \in ReportRow
  BY DEF ReportRow
<1>4. [row EXCEPT !.due = TRUE] \in ReportRow
  BY DEF ReportRow
<1>5. [row EXCEPT !.stale = TRUE] \in ReportRow
  BY DEF ReportRow
<1>6. [row EXCEPT !.recent = FALSE] \in ReportRow
  BY DEF ReportRow
<1> QED
  BY <1>1, <1>2, <1>3, <1>4, <1>5, <1>6

\* MarkFailed counts the attempt and starts the backoff.
LEMMA MarkFailedRow ==
  ASSUME TypeOK, NEW r \in Report
  PROVE  MarkFailed(r) = [report EXCEPT ![r] = [report[r] EXCEPT !.attempts = @ + 1, !.due = FALSE]]
BY DEF TypeOK, MarkFailed

LEMMA SendTypes ==
  ASSUME TypeOK, NEW p \in Proc, NEW r \in Report,
         \/ CreateIssue(p, r) \/ CreateRefused(p, r) \/ AnswerLost(p, r) \/ MarkFailedFails(p, r)
         \/ MarkSent(p) \/ MarkSentFails(p)
  PROVE  TypeOK'
<1>1. Opened(r) \in [Report -> Seq({"open", "completed", "other"})]
  BY DEF TypeOK, Opened
<1>2. MarkFailed(r) \in [Report -> ReportRow]
  <2>1. report[r] \in ReportRow
    BY DEF TypeOK
  <2> QED
    BY <2>1, MarkFailedRow, RowEdits DEF TypeOK
<1>3. proc[p].at = "send" => \A T \in SUBSET proc[p].todo : Sending(T) \in Work
  BY WorkCases DEF Sending, Work
<1>4. CASE CreateIssue(p, r)
  <2>1. Len(issues[r]) + 1 \in Nat /\ proc[p].at = "send"
    BY <1>4 DEF TypeOK, CreateIssue, ToSend
  <2>2. [at |-> "record", rep |-> r, iss |-> Len(issues[r]) + 1, todo |-> proc[p].todo \ {r}] \in Work
    BY <2>1, WorkCases DEF Work
  <2> QED
    BY <1>1, <1>4, <2>2 DEF TypeOK, CreateIssue, Goto
<1>5. CASE CreateRefused(p, r)
  <2>1. Sending(proc[p].todo \ {r}) \in Work
    BY <1>3, <1>5 DEF CreateRefused, ToSend
  <2> QED
    BY <1>2, <1>5, <2>1 DEF TypeOK, CreateRefused, Goto
<1>6. CASE AnswerLost(p, r) \/ MarkFailedFails(p, r)
  <2>1. Sending(proc[p].todo \ {r}) \in Work
    BY <1>3, <1>6 DEF AnswerLost, MarkFailedFails, ToSend
  <2> QED
    BY <1>1, <1>2, <1>6, <2>1, SupportAssumption DEF TypeOK, AnswerLost, MarkFailedFails, Goto, Fault
<1>7. CASE MarkSent(p)
  <2>1. proc[p].rep \in Report /\ proc[p].iss \in Nat /\ Sending(proc[p].todo) \in Work
    BY <1>7, WorkCases DEF MarkSent, Sending, Work
  <2>2. report' \in [Report -> ReportRow]
    <3>1. report[proc[p].rep] \in ReportRow
      BY <2>1 DEF TypeOK
    <3>2. [report[proc[p].rep] EXCEPT !.status = "open", !.issue = proc[p].iss,
             !.attempts = @ + 1, !.due = FALSE, !.stale = FALSE] \in ReportRow
      BY <2>1, <3>1, RowEdits
    <3> QED
      BY <1>7, <2>1, <3>2 DEF TypeOK, MarkSent
  <2> QED
    BY <1>7, <2>1, <2>2 DEF TypeOK, MarkSent, Goto
<1>8. CASE MarkSentFails(p)
  <2>1. proc[p].rep \in Report /\ Sending(proc[p].todo) \in Work
    BY <1>8, WorkCases DEF MarkSentFails, Sending, Work
  <2> QED
    BY <1>8, <2>1, SupportAssumption DEF TypeOK, MarkSentFails, Goto, Fault
<1> QED
  BY <1>4, <1>5, <1>6, <1>7, <1>8

LEMMA SyncTypes ==
  ASSUME TypeOK, Books, NEW i \in Instance,
         \/ SyncOnce(i) \/ BeginRefresh(i) \/ UpdateStatus(i) \/ SyncEnds(i)
         \/ \E x \in ToRead(i) : GetIssue(i, x) \/ GetIssueFails(i, x)
  PROVE  TypeOK'
<1>0. i \in Proc
  BY DEF Proc
<1>1. CASE SyncOnce(i)
  <2>1. Sending({r \in Report : ListPending(r)}) \in Work
    BY DEF Sending, Work
  <2> QED
    BY <1>0, <1>1, <2>1 DEF TypeOK, SyncOnce, Goto
<1>2. CASE BeginRefresh(i)
  <2>1. {<<r, report[r].issue>> : r \in {x \in Report : ListOpenToSync(x)}} \subseteq Report \X Nat
    BY DEF TypeOK, ReportRow
  <2>2. [at |-> "refresh", todo |-> {<<r, report[r].issue>> : r \in {x \in Report : ListOpenToSync(x)}}] \in Work
    BY <2>1 DEF Work
  <2> QED
    BY <1>0, <1>2, <2>2 DEF TypeOK, BeginRefresh, Goto
<1>3. CASE UpdateStatus(i)
  <2>1. /\ proc[i].rep \in Report /\ proc[i].status \in {"open", "resolved", "closed"}
        /\ [at |-> "refresh", todo |-> proc[i].todo] \in Work
    BY <1>0, <1>3, WorkCases DEF UpdateStatus, Work
  <2>2. report' \in [Report -> ReportRow]
    <3>1. report[proc[i].rep] \in ReportRow
      BY <2>1 DEF TypeOK
    <3> QED
      BY <1>3, <2>1, <3>1, RowEdits DEF TypeOK, UpdateStatus
  <2> QED
    BY <1>0, <1>3, <2>1, <2>2 DEF TypeOK, UpdateStatus, Goto
<1>4. CASE SyncEnds(i)
  BY <1>0, <1>4 DEF TypeOK, SyncEnds, Goto, Unlock, Idle, Work
<1>5. ASSUME NEW x \in ToRead(i), GetIssue(i, x) \/ GetIssueFails(i, x)
      PROVE  TypeOK'
  <2>1. /\ proc[i].at = "refresh" /\ proc[i].todo \in SUBSET (Report \X Nat) /\ x \in proc[i].todo
        /\ x[1] \in Report /\ x[2] \in 1..Len(issues[x[1]])
    BY <1>0, <1>5, WorkCases DEF ToRead, Books
  <2>2. issues[x[1]][x[2]] \in {"open", "completed", "other"}
    BY <2>1 DEF TypeOK
  <2>3. StatusFromIssue(issues[x[1]][x[2]]) \in {"open", "resolved", "closed"}
    BY <2>2 DEF StatusFromIssue
  <2>4. /\ [at |-> "update", rep |-> x[1], todo |-> proc[i].todo \ {x},
            status |-> StatusFromIssue(issues[x[1]][x[2]])] \in Work
        /\ [at |-> "refresh", todo |-> proc[i].todo \ {x}] \in Work
    BY <2>1, <2>3 DEF Work
  <2> QED
    <3>1. CASE GetIssue(i, x)
      BY <1>0, <2>4, <3>1 DEF TypeOK, GetIssue, Goto
    <3>2. CASE GetIssueFails(i, x)
      BY <1>0, <2>4, <3>2, SupportAssumption DEF TypeOK, GetIssueFails, Goto, Fault
    <3> QED
      BY <1>5, <3>1, <3>2
<1> QED
  BY <1>1, <1>2, <1>3, <1>4, <1>5

LEMMA OtherTypes ==
  ASSUME TypeOK, Books,
         \/ \E h \in Handler : Submit(h) \/ SubmitEnds(h) \/ \E r \in Report : CreateReport(h, r)
         \/ \E p \in Proc : Crash(p)
         \/ \E r \in Report :
              \/ BackoffPasses(r) \/ RefreshAfter(r) \/ WindowPasses(r)
              \/ \E state \in {"completed", "other"} : CloseIssue(r, state)
  PROVE  TypeOK'
<1>1. ASSUME NEW h \in Handler, Submit(h) \/ SubmitEnds(h)
      PROVE  TypeOK'
  <2>1. h \in Proc /\ Idle \in Work /\ [at |-> "counted"] \in Work
    BY DEF Proc, Idle, Work
  <2> QED
    BY <1>1, <2>1 DEF TypeOK, Submit, SubmitEnds, Goto
<1>2. ASSUME NEW h \in Handler, NEW r \in Report, CreateReport(h, r)
      PROVE  TypeOK'
  <2>1. Sending({r}) \in Work /\ h \in Proc
    BY DEF Sending, Work, Proc
  <2>2. [NoReport EXCEPT !.status = "pending", !.due = TRUE, !.recent = TRUE] \in ReportRow
    BY DEF NoReport, ReportRow
  <2> QED
    BY <1>2, <2>1, <2>2 DEF TypeOK, CreateReport, Goto
<1>3. ASSUME NEW p \in Proc, Crash(p)
      PROVE  TypeOK'
  BY <1>3, WorkCases, SupportAssumption DEF TypeOK, Crash, Goto, Unlock, Fault, Idle, Work
<1>4. ASSUME NEW r \in Report, BackoffPasses(r) \/ RefreshAfter(r) \/ WindowPasses(r)
      PROVE  TypeOK'
  <2>1. \/ report' = [report EXCEPT ![r] = [report[r] EXCEPT !.due = TRUE]]
        \/ report' = [report EXCEPT ![r] = [report[r] EXCEPT !.stale = TRUE]]
        \/ report' = [report EXCEPT ![r] = [report[r] EXCEPT !.recent = FALSE]]
    BY <1>4 DEF TypeOK, BackoffPasses, RefreshAfter, WindowPasses
  <2>2. report[r] \in ReportRow
    BY DEF TypeOK
  <2>3. report' \in [Report -> ReportRow]
    BY <2>1, <2>2, RowEdits DEF TypeOK
  <2> QED
    BY <1>4, <2>3 DEF TypeOK, BackoffPasses, RefreshAfter, WindowPasses
<1>5. ASSUME NEW r \in Report, NEW state \in {"completed", "other"}, CloseIssue(r, state)
      PROVE  TypeOK'
  <2>1. [issues[r] EXCEPT ![report[r].issue] = state] \in Seq({"open", "completed", "other"})
    <3>1. report[r].issue \in 1..Len(issues[r]) /\ issues[r] \in Seq({"open", "completed", "other"})
      BY <1>5 DEF TypeOK, Books, CloseIssue, ReportRow
    <3> QED
      BY <3>1, ExceptSeq
  <2> QED
    BY <1>5, <2>1 DEF TypeOK, CloseIssue
<1> QED
  BY <1>1, <1>2, <1>3, <1>4, <1>5

-----------------------------------------------------------------------------
(* Rows and issues.                                                        *)

\* MarkFailed keeps the status and the issue, and so does the passing of time.
LEMMA StatusKept ==
  ASSUME TypeOK, NEW r \in Report,
         \/ report' = MarkFailed(r) \/ UNCHANGED report
         \/ BackoffPasses(r) \/ RefreshAfter(r) \/ WindowPasses(r)
  PROVE  \A x \in Report : report'[x].issue = report[x].issue /\ report'[x].status = report[x].status
<1>1. \A x \in Report : report[x] \in ReportRow
  BY DEF TypeOK
<1>2. CASE report' = MarkFailed(r)
  <2>1. \A x \in Report \ {r} : report'[x] = report[x]
    BY <1>2, MarkFailedRow DEF TypeOK
  <2>2. report'[r] = [report[r] EXCEPT !.attempts = @ + 1, !.due = FALSE]
    BY <1>2, MarkFailedRow DEF TypeOK
  <2>3. report'[r].issue = report[r].issue /\ report'[r].status = report[r].status
    BY <1>1, <2>2 DEF ReportRow
  <2> QED
    BY <2>1, <2>3
<1>3. CASE BackoffPasses(r) \/ RefreshAfter(r) \/ WindowPasses(r)
  <2>1. \A x \in Report \ {r} : report'[x] = report[x]
    BY <1>3 DEF BackoffPasses, RefreshAfter, WindowPasses, TypeOK
  <2>2. \/ report'[r] = [report[r] EXCEPT !.due = TRUE]
        \/ report'[r] = [report[r] EXCEPT !.stale = TRUE]
        \/ report'[r] = [report[r] EXCEPT !.recent = FALSE]
    BY <1>3 DEF BackoffPasses, RefreshAfter, WindowPasses, TypeOK
  <2>3. report'[r].issue = report[r].issue /\ report'[r].status = report[r].status
    BY <1>1, <2>2 DEF ReportRow
  <2> QED
    BY <2>1, <2>3
<1> QED
  BY <1>2, <1>3

\* A recorded issue.
LEMMA SentRow ==
  ASSUME TypeOK, NEW p \in Proc, MarkSent(p)
  PROVE  /\ proc[p].rep \in Report
         /\ report'[proc[p].rep].issue = proc[p].iss /\ report'[proc[p].rep].status = "open"
         /\ \A x \in Report \ {proc[p].rep} : report'[x] = report[x]
<1>1. proc[p].rep \in Report /\ proc[p].iss \in Nat
  BY WorkCases DEF MarkSent
<1>2. report[proc[p].rep] \in ReportRow
  BY <1>1 DEF TypeOK
<1>3. report'[proc[p].rep] = [report[proc[p].rep] EXCEPT !.status = "open", !.issue = proc[p].iss,
                                !.attempts = @ + 1, !.due = FALSE, !.stale = FALSE]
  BY <1>1 DEF MarkSent, TypeOK
<1>4. \A x \in Report \ {proc[p].rep} : report'[x] = report[x]
  BY <1>1 DEF MarkSent, TypeOK
<1>5. report'[proc[p].rep].issue = proc[p].iss /\ report'[proc[p].rep].status = "open"
  BY <1>2, <1>3 DEF ReportRow
<1> QED
  BY <1>1, <1>4, <1>5

\* A step leaves every process but one where it was.
LEMMA OneMoves ==
  ASSUME NEW p \in Proc, NEW w, TypeOK, Goto(p, w)
  PROVE  proc'[p] = w /\ \A q \in Proc \ {p} : proc'[q] = proc[q]
BY DEF TypeOK, Goto

LEMMA OpenedLen ==
  ASSUME TypeOK, NEW r \in Report
  PROVE  \A x \in Report : /\ Len(issues[x]) \in Nat
                           /\ Len(Opened(r)[x]) = IF x = r THEN Len(issues[x]) + 1 ELSE Len(issues[x])
BY DEF TypeOK, Opened

LEMMA ClosedLen ==
  ASSUME TypeOK, Books, NEW r \in Report, NEW state \in {"completed", "other"}, CloseIssue(r, state)
  PROVE  \A x \in Report : Len(issues'[x]) = Len(issues[x])
<1>1. report[r].issue \in 1..Len(issues[r]) /\ issues[r] \in Seq({"open", "completed", "other"})
  BY DEF TypeOK, Books, CloseIssue, ReportRow
<1>2. Len([issues[r] EXCEPT ![report[r].issue] = state]) = Len(issues[r])
  BY <1>1, ExceptSeq
<1> QED
  BY <1>2 DEF TypeOK, CloseIssue

\* The sends that end without a record, and what changes no row and no issue on record.
LEMMA BooksSend ==
  ASSUME TypeOK, TypeOK', Books, NEW p \in Proc, NEW r \in Report,
         \/ CreateIssue(p, r) \/ CreateRefused(p, r) \/ AnswerLost(p, r) \/ MarkFailedFails(p, r)
         \/ MarkSent(p) \/ MarkSentFails(p)
  PROVE  Books'
<1>1. CASE CreateIssue(p, r)
  <2>1. \A x \in Report : Len(issues'[x]) = IF x = r THEN Len(issues[x]) + 1 ELSE Len(issues[x])
    BY <1>1, OpenedLen DEF CreateIssue
  <2>2. /\ proc'[p] = [at |-> "record", rep |-> r, iss |-> Len(issues[r]) + 1, todo |-> proc[p].todo \ {r}]
        /\ \A q \in Proc \ {p} : proc'[q] = proc[q]
    BY <1>1, OneMoves DEF CreateIssue
  <2>3. report' = report /\ \A x \in Report : Len(issues[x]) \in Nat
    BY <1>1 DEF CreateIssue, TypeOK
  <2>4. \A x \in Report : report'[x].issue \in 0..Len(issues'[x])
    BY <2>1, <2>3 DEF Books
  <2>5. \A q \in Proc : proc'[q].at = "record" => proc'[q].iss \in 1..Len(issues'[proc'[q].rep])
    <3> SUFFICES ASSUME NEW q \in Proc, proc'[q].at = "record"
                 PROVE  proc'[q].iss \in 1..Len(issues'[proc'[q].rep])
      OBVIOUS
    <3>1. CASE q = p
      BY <2>1, <2>2, <2>3, <3>1
    <3>2. CASE q # p
      <4>1. proc[q].at = "record" /\ proc[q].rep \in Report /\ proc'[q] = proc[q]
        BY <2>2, <3>2, WorkCases
      <4>2. proc[q].iss \in 1..Len(issues[proc[q].rep])
        BY <4>1 DEF Books
      <4> QED
        BY <2>1, <2>3, <4>1, <4>2
    <3> QED
      BY <3>1, <3>2
  <2>6. \A q \in Proc : proc'[q].at \in {"refresh", "update"} =>
          \A x \in proc'[q].todo : x[2] \in 1..Len(issues'[x[1]])
    <3> SUFFICES ASSUME NEW q \in Proc, proc'[q].at \in {"refresh", "update"}, NEW x \in proc'[q].todo
                 PROVE  x[2] \in 1..Len(issues'[x[1]])
      OBVIOUS
    <3>1. proc'[q] = proc[q] /\ x \in Report \X Nat
      BY <2>2, WorkCases
    <3> QED
      BY <2>1, <2>3, <3>1 DEF Books
  <2> QED
    BY <2>3, <2>4, <2>5, <2>6 DEF Books
<1>2. CASE CreateRefused(p, r) \/ AnswerLost(p, r) \/ MarkFailedFails(p, r)
  <2>1. \A x \in Report : Len(issues'[x]) >= Len(issues[x]) /\ Len(issues[x]) \in Nat /\ Len(issues'[x]) \in Nat
    <3>1. issues' = issues \/ issues' = Opened(r)
      BY <1>2 DEF CreateRefused, AnswerLost, MarkFailedFails
    <3>2. \A x \in Report : Len(issues[x]) \in Nat
      BY DEF TypeOK
    <3> QED
      BY <3>1, <3>2, OpenedLen
  <2>2. proc'[p].at = "send" /\ \A q \in Proc \ {p} : proc'[q] = proc[q]
    BY <1>2, OneMoves DEF CreateRefused, AnswerLost, MarkFailedFails, Sending
  <2>3. \A x \in Report : report'[x].issue = report[x].issue /\ report'[x].status = report[x].status
    BY <1>2, StatusKept DEF CreateRefused, AnswerLost, MarkFailedFails
  <2>4. \A x \in Report : report'[x].issue \in 0..Len(issues'[x])
    BY <2>1, <2>3 DEF Books
  <2>5. \A q \in Proc : proc'[q].at = "record" => proc'[q].iss \in 1..Len(issues'[proc'[q].rep])
    BY <2>1, <2>2, WorkCases DEF Books
  <2>6. \A q \in Proc : proc'[q].at \in {"refresh", "update"} =>
          \A x \in proc'[q].todo : x[2] \in 1..Len(issues'[x[1]])
    <3> SUFFICES ASSUME NEW q \in Proc, proc'[q].at \in {"refresh", "update"}, NEW x \in proc'[q].todo
                 PROVE  x[2] \in 1..Len(issues'[x[1]])
      OBVIOUS
    <3>1. proc'[q] = proc[q] /\ x \in Report \X Nat
      BY <2>2, WorkCases
    <3> QED
      BY <2>1, <3>1 DEF Books
  <2> QED
    BY <2>3, <2>4, <2>5, <2>6 DEF Books
<1>3. CASE MarkSent(p) \/ MarkSentFails(p)
  <2>1. proc'[p].at = "send" /\ \A q \in Proc \ {p} : proc'[q] = proc[q]
    BY <1>3, OneMoves DEF MarkSent, MarkSentFails, Sending
  <2>2. issues' = issues /\ proc[p].at = "record" /\ proc[p].rep \in Report
    BY <1>3, WorkCases DEF MarkSent, MarkSentFails
  <2>3. proc[p].iss \in 1..Len(issues[proc[p].rep])
    BY <2>2 DEF Books
  <2>4. \A x \in Report : \/ report'[x] = report[x]
                          \/ x = proc[p].rep /\ report'[x].issue = proc[p].iss /\ report'[x].status = "open"
    BY <1>3, SentRow DEF MarkSentFails
  <2>5. \A x \in Report : report'[x].issue \in 0..Len(issues'[x])
    BY <2>2, <2>3, <2>4 DEF Books
  <2>6. \A x \in Report : report'[x].issue = 0 <=> report'[x].status \in {"none", "pending"}
    BY <2>3, <2>4 DEF Books
  <2>7. \A q \in Proc : proc'[q].at = "record" => proc'[q].iss \in 1..Len(issues'[proc'[q].rep])
    BY <2>1, <2>2 DEF Books
  <2>8. \A q \in Proc : proc'[q].at \in {"refresh", "update"} =>
          \A x \in proc'[q].todo : x[2] \in 1..Len(issues'[x[1]])
    BY <2>1, <2>2 DEF Books
  <2> QED
    BY <2>5, <2>6, <2>7, <2>8 DEF Books
<1> QED
  BY <1>1, <1>2, <1>3

LEMMA BooksSync ==
  ASSUME TypeOK, TypeOK', Books, Alone, NEW i \in Instance,
         \/ SyncOnce(i) \/ BeginRefresh(i) \/ UpdateStatus(i) \/ SyncEnds(i)
         \/ \E x \in ToRead(i) : GetIssue(i, x) \/ GetIssueFails(i, x)
  PROVE  Books'
<1>0. i \in Proc /\ issues' = issues
  BY DEF Proc, SyncOnce, BeginRefresh, UpdateStatus, SyncEnds, GetIssue, GetIssueFails
<1>1. \A q \in Proc \ {i} : proc'[q] = proc[q]
  BY <1>0, OneMoves DEF SyncOnce, BeginRefresh, UpdateStatus, SyncEnds, GetIssue, GetIssueFails
<1>2. \A x \in Report : /\ report'[x].issue = report[x].issue
                        /\ \/ report'[x].status = report[x].status
                           \/ {report[x].status, report'[x].status} \subseteq {"open", "resolved", "closed"}
  <2>1. CASE UpdateStatus(i)
    <3>1. /\ proc[i].rep \in Report /\ proc[i].status \in {"open", "resolved", "closed"}
          /\ report[proc[i].rep].status = "open"
      BY <1>0, <2>1, WorkCases DEF UpdateStatus, Alone
    <3> QED
      BY <2>1, <3>1 DEF UpdateStatus, TypeOK, ReportRow
  <2>2. CASE ~ UpdateStatus(i)
    BY <2>2 DEF SyncOnce, BeginRefresh, SyncEnds, GetIssue, GetIssueFails
  <2> QED
    BY <2>1, <2>2
<1>3. \/ proc'[i].at \in {"send", "idle"}
      \/ /\ proc'[i].at \in {"refresh", "update"}
         /\ \A x \in proc'[i].todo : x[2] \in 1..Len(issues[x[1]])
  <2>1. CASE SyncOnce(i) \/ SyncEnds(i)
    BY <1>0, <2>1, OneMoves DEF SyncOnce, SyncEnds, Sending, Idle
  <2>2. CASE BeginRefresh(i)
    <3>1. proc'[i] = [at |-> "refresh", todo |-> {<<r, report[r].issue>> : r \in {x \in Report : ListOpenToSync(x)}}]
      BY <1>0, <2>2, OneMoves DEF BeginRefresh
    <3>2. \A r \in Report : ListOpenToSync(r) => report[r].issue \in 1..Len(issues[r])
      BY DEF ListOpenToSync, Books
    <3> QED
      BY <3>1, <3>2
  <2>3. CASE UpdateStatus(i)
    BY <1>0, <2>3, OneMoves DEF UpdateStatus, Books
  <2>4. ASSUME NEW x \in ToRead(i), GetIssue(i, x) \/ GetIssueFails(i, x)
        PROVE  /\ proc'[i].at \in {"refresh", "update"}
               /\ \A y \in proc'[i].todo : y[2] \in 1..Len(issues[y[1]])
    <3>1. proc[i].at = "refresh"
      BY <2>4 DEF ToRead
    <3>2. proc'[i].at \in {"refresh", "update"} /\ proc'[i].todo = proc[i].todo \ {x}
      BY <1>0, <2>4, OneMoves DEF GetIssue, GetIssueFails
    <3> QED
      BY <1>0, <3>1, <3>2 DEF Books
  <2> QED
    BY <2>1, <2>2, <2>3, <2>4
<1>4. \A x \in Report : report'[x].issue \in 0..Len(issues'[x])
  BY <1>0, <1>2 DEF Books
<1>5. \A x \in Report : report'[x].issue = 0 <=> report'[x].status \in {"none", "pending"}
  BY <1>2 DEF Books
<1>6. \A q \in Proc : proc'[q].at = "record" => proc'[q].iss \in 1..Len(issues'[proc'[q].rep])
  BY <1>0, <1>1, <1>3 DEF Books
<1>7. \A q \in Proc : proc'[q].at \in {"refresh", "update"} =>
        \A x \in proc'[q].todo : x[2] \in 1..Len(issues'[x[1]])
  BY <1>0, <1>1, <1>3 DEF Books
<1> QED
  BY <1>4, <1>5, <1>6, <1>7 DEF Books

LEMMA BooksOther ==
  ASSUME TypeOK, TypeOK', Books,
         \/ \E h \in Handler : Submit(h) \/ SubmitEnds(h) \/ \E r \in Report : CreateReport(h, r)
         \/ \E p \in Proc : Crash(p)
         \/ \E r \in Report :
              \/ BackoffPasses(r) \/ RefreshAfter(r) \/ WindowPasses(r)
              \/ \E state \in {"completed", "other"} : CloseIssue(r, state)
  PROVE  Books'
<1>1. \A p \in Proc : proc'[p] = proc[p] \/ proc'[p].at \in {"idle", "counted", "send"}
  <2>1. ASSUME NEW h \in Handler, Submit(h) \/ SubmitEnds(h) \/ \E r \in Report : CreateReport(h, r)
        PROVE  \A p \in Proc : proc'[p] = proc[p] \/ proc'[p].at \in {"idle", "counted", "send"}
    <3>1. h \in Proc
      BY DEF Proc
    <3>2. CASE Submit(h) \/ SubmitEnds(h)
      BY <3>1, <3>2, OneMoves DEF Submit, SubmitEnds, Idle
    <3>3. ASSUME NEW r \in Report, CreateReport(h, r)
          PROVE  proc'[h].at = "send" /\ \A q \in Proc \ {h} : proc'[q] = proc[q]
      BY <3>1, <3>3, OneMoves DEF CreateReport, Sending
    <3> QED
      BY <2>1, <3>2, <3>3
  <2>2. ASSUME NEW q \in Proc, Crash(q)
        PROVE  \A p \in Proc : proc'[p] = proc[p] \/ proc'[p].at \in {"idle", "counted", "send"}
    BY <2>2, OneMoves DEF Crash, Idle
  <2> QED
    BY <2>1, <2>2 DEF BackoffPasses, RefreshAfter, WindowPasses, CloseIssue
<1>2. \A x \in Report : Len(issues'[x]) = Len(issues[x])
  BY ClosedLen DEF Submit, SubmitEnds, CreateReport, Crash, BackoffPasses, RefreshAfter, WindowPasses
<1>3. \A x \in Report : /\ report'[x].issue = report[x].issue
                        /\ \/ report'[x].status = report[x].status
                           \/ report[x].status = "none" /\ report'[x].status = "pending"
  <2>1. ASSUME NEW h \in Handler, NEW r \in Report, CreateReport(h, r)
        PROVE  \A x \in Report : /\ report'[x].issue = report[x].issue
                                 /\ \/ report'[x].status = report[x].status
                                    \/ report[x].status = "none" /\ report'[x].status = "pending"
    BY <2>1 DEF CreateReport, NoReport, Books, TypeOK
  <2>2. ASSUME NEW r \in Report, BackoffPasses(r) \/ RefreshAfter(r) \/ WindowPasses(r)
        PROVE  \A x \in Report : report'[x].issue = report[x].issue /\ report'[x].status = report[x].status
    BY <2>2, StatusKept
  <2> QED
    BY <2>1, <2>2 DEF Submit, SubmitEnds, Crash, CloseIssue
<1>4. \A x \in Report : report'[x].issue \in 0..Len(issues'[x])
  BY <1>2, <1>3 DEF Books
<1>5. \A x \in Report : report'[x].issue = 0 <=> report'[x].status \in {"none", "pending"}
  BY <1>3 DEF Books
<1>6. \A q \in Proc : proc'[q].at = "record" => proc'[q].iss \in 1..Len(issues'[proc'[q].rep])
  BY <1>1, <1>2, WorkCases DEF Books
<1>7. \A q \in Proc : proc'[q].at \in {"refresh", "update"} =>
        \A x \in proc'[q].todo : x[2] \in 1..Len(issues'[x[1]])
  <2> SUFFICES ASSUME NEW q \in Proc, proc'[q].at \in {"refresh", "update"}, NEW x \in proc'[q].todo
               PROVE  x[2] \in 1..Len(issues'[x[1]])
    OBVIOUS
  <2>1. proc'[q] = proc[q] /\ x[1] \in Report
    BY <1>1, WorkCases
  <2> QED
    BY <1>2, <2>1 DEF Books
<1> QED
  BY <1>4, <1>5, <1>6, <1>7 DEF Books

-----------------------------------------------------------------------------
(* The worker that reads GitHub back is alone.                             *)

\* What a step of the specification may be.
SendStep(p) ==
  \/ \E r \in Report : CreateIssue(p, r) \/ CreateRefused(p, r) \/ AnswerLost(p, r) \/ MarkFailedFails(p, r)
  \/ MarkSent(p) \/ MarkSentFails(p)
HandlerStep(h) == Submit(h) \/ SubmitEnds(h) \/ \E r \in Report : CreateReport(h, r)
OutsideStep ==
  \E r \in Report :
    \/ BackoffPasses(r) \/ RefreshAfter(r) \/ WindowPasses(r)
    \/ \E state \in {"completed", "other"} : CloseIssue(r, state)

LEMMA StepCases ==
  ASSUME [Next]_vars
  PROVE  \/ \E p \in Proc : SendStep(p) \/ Crash(p)
         \/ \E h \in Handler : HandlerStep(h)
         \/ \E i \in Instance :
              \/ SyncOnce(i) \/ BeginRefresh(i) \/ UpdateStatus(i) \/ SyncEnds(i)
              \/ \E x \in ToRead(i) : GetIssue(i, x) \/ GetIssueFails(i, x)
         \/ OutsideStep \/ UNCHANGED vars
BY Zenon DEF Next, Continue, SendStep, HandlerStep, OutsideStep

\* How a status changes.
LEMMA StatusSteps ==
  ASSUME TypeOK, [Next]_vars, NEW r \in Report
  PROVE  \/ report'[r].status = report[r].status
         \/ report[r].status = "none"
         \/ \E p \in Proc : MarkSent(p) /\ proc[p].rep = r /\ report'[r].status = "open"
         \/ \E i \in Instance : UpdateStatus(i) /\ proc[i].rep = r
<1>1. ASSUME NEW p \in Proc, NEW x \in Report, CreateRefused(p, x) \/ AnswerLost(p, x)
      PROVE  report'[r].status = report[r].status
  BY <1>1, StatusKept DEF CreateRefused, AnswerLost
<1>2. ASSUME NEW p \in Proc, MarkSent(p)
      PROVE  \/ report'[r].status = report[r].status
             \/ proc[p].rep = r /\ report'[r].status = "open"
  BY <1>2, SentRow
<1>3. ASSUME NEW h \in Handler, NEW x \in Report, CreateReport(h, x)
      PROVE  report'[r].status = report[r].status \/ report[r].status = "none"
  BY <1>3 DEF CreateReport, TypeOK
<1>4. ASSUME NEW x \in Report, BackoffPasses(x) \/ RefreshAfter(x) \/ WindowPasses(x)
      PROVE  report'[r].status = report[r].status
  BY <1>4, StatusKept
<1>5. ASSUME NEW p \in Proc, NEW x \in Report, CreateIssue(p, x) \/ MarkFailedFails(p, x)
      PROVE  report' = report
  BY <1>5 DEF CreateIssue, MarkFailedFails
<1>6. ASSUME NEW p \in Proc, MarkSentFails(p) \/ Crash(p)
      PROVE  report' = report
  BY <1>6 DEF MarkSentFails, Crash
<1>7. ASSUME NEW i \in Instance,
             \/ SyncOnce(i) \/ BeginRefresh(i) \/ SyncEnds(i)
             \/ \E x \in ToRead(i) : GetIssue(i, x) \/ GetIssueFails(i, x)
      PROVE  report' = report
  BY <1>7 DEF SyncOnce, BeginRefresh, SyncEnds, GetIssue, GetIssueFails
<1>8. ASSUME NEW i \in Instance, UpdateStatus(i), proc[i].rep # r
      PROVE  report'[r].status = report[r].status
  BY <1>8 DEF UpdateStatus, TypeOK
<1>9. ASSUME NEW h \in Handler, Submit(h) \/ SubmitEnds(h)
      PROVE  report' = report
  BY <1>9 DEF Submit, SubmitEnds
<1>10. ASSUME NEW x \in Report, NEW state \in {"completed", "other"}, CloseIssue(x, state)
       PROVE  report' = report
  BY <1>10 DEF CloseIssue
<1>11. CASE UNCHANGED vars
  BY <1>11 DEF vars
<1>12. ASSUME NEW p \in Proc, SendStep(p)
       PROVE  \/ report'[r].status = report[r].status
              \/ MarkSent(p) /\ proc[p].rep = r /\ report'[r].status = "open"
  BY <1>1, <1>2, <1>5, <1>6, <1>12 DEF SendStep
<1>13. ASSUME NEW h \in Handler, HandlerStep(h)
       PROVE  report'[r].status = report[r].status \/ report[r].status = "none"
  BY <1>3, <1>9, <1>13 DEF HandlerStep
<1>14. ASSUME OutsideStep
       PROVE  report'[r].status = report[r].status
  BY <1>4, <1>10, <1>14 DEF OutsideStep
<1> QED
  BY <1>6, <1>7, <1>8, <1>11, <1>12, <1>13, <1>14, StepCases

\* Every way to leave the status "open" is UpdateStatus.
LEMMA OpenStays ==
  ASSUME TypeOK, [Next]_vars, ~ \E i \in Instance : UpdateStatus(i)
  PROVE  \A r \in Report : report[r].status = "open" => report'[r].status = "open"
BY StatusSteps

\* The parts of a step: who moves, and whether the lock does.
LEMMA SendMoves ==
  ASSUME TypeOK, NEW p \in Proc, SendStep(p)
  PROVE  /\ proc[p].at \in {"send", "record"} /\ proc'[p].at \in {"send", "record"}
         /\ \A q \in Proc \ {p} : proc'[q] = proc[q]
         /\ lock' = lock
<1>1. ASSUME NEW r \in Report, CreateIssue(p, r) \/ CreateRefused(p, r) \/ AnswerLost(p, r) \/ MarkFailedFails(p, r)
      PROVE  /\ proc[p].at \in {"send", "record"} /\ proc'[p].at \in {"send", "record"}
             /\ \A q \in Proc \ {p} : proc'[q] = proc[q]
             /\ lock' = lock
  <2>1. proc[p].at = "send" /\ lock' = lock
    BY <1>1 DEF CreateIssue, CreateRefused, AnswerLost, MarkFailedFails, ToSend
  <2>2. proc'[p].at \in {"send", "record"} /\ \A q \in Proc \ {p} : proc'[q] = proc[q]
    BY <1>1, OneMoves DEF CreateIssue, CreateRefused, AnswerLost, MarkFailedFails, Sending
  <2> QED
    BY <2>1, <2>2
<1>2. ASSUME MarkSent(p) \/ MarkSentFails(p)
      PROVE  /\ proc[p].at \in {"send", "record"} /\ proc'[p].at \in {"send", "record"}
             /\ \A q \in Proc \ {p} : proc'[q] = proc[q]
             /\ lock' = lock
  <2>1. proc[p].at = "record" /\ lock' = lock
    BY <1>2 DEF MarkSent, MarkSentFails
  <2>2. proc'[p].at \in {"send", "record"} /\ \A q \in Proc \ {p} : proc'[q] = proc[q]
    BY <1>2, OneMoves DEF MarkSent, MarkSentFails, Sending
  <2> QED
    BY <2>1, <2>2
<1> QED
  BY <1>1, <1>2 DEF SendStep

LEMMA HandlerMoves ==
  ASSUME TypeOK, NEW h \in Handler, HandlerStep(h)
  PROVE  /\ h \in Proc /\ proc'[h].at \in {"idle", "counted", "send"}
         /\ \A q \in Proc \ {h} : proc'[q] = proc[q]
         /\ lock' = lock
<1>1. h \in Proc
  BY DEF Proc
<1>2. CASE Submit(h) \/ SubmitEnds(h)
  BY <1>1, <1>2, OneMoves DEF Submit, SubmitEnds, Idle
<1>3. ASSUME NEW r \in Report, CreateReport(h, r)
      PROVE  /\ proc'[h].at = "send" /\ lock' = lock
             /\ \A q \in Proc \ {h} : proc'[q] = proc[q]
  BY <1>1, <1>3, OneMoves DEF CreateReport, Sending
<1> QED
  BY <1>1, <1>2, <1>3 DEF HandlerStep

\* The lock is held by the one worker in progress.
LEMMA LockStep ==
  ASSUME TypeOK, Alone, [Next]_vars
  PROVE  \A i \in Instance : proc'[i].at # "idle" => lock' = i
<1>0. \A i \in Instance : i \in Proc /\ i \notin Handler /\ i # NoInstance
  BY SupportAssumption DEF Proc
<1>1. ASSUME NEW p \in Proc, SendStep(p)
      PROVE  \A i \in Instance : proc'[i].at # "idle" => lock' = i
  <2> SUFFICES ASSUME NEW i \in Instance, proc'[i].at # "idle"
               PROVE  lock' = i
    OBVIOUS
  <2>1. proc[i].at # "idle" /\ lock' = lock
    BY <1>0, <1>1, SendMoves
  <2> QED
    BY <2>1 DEF Alone
<1>2. ASSUME NEW h \in Handler, HandlerStep(h)
      PROVE  \A i \in Instance : proc'[i].at # "idle" => lock' = i
  BY <1>0, <1>2, HandlerMoves DEF Alone
<1>3. ASSUME NEW i \in Instance, SyncOnce(i)
      PROVE  \A j \in Instance : proc'[j].at # "idle" => lock' = j
  <2>1. lock' = i /\ \A q \in Proc \ {i} : proc'[q] = proc[q]
    BY <1>0, <1>3, OneMoves DEF SyncOnce
  <2>2. \A j \in Instance : proc[j].at = "idle"
    BY <1>0, <1>3 DEF SyncOnce, TryLock, Alone
  <2> QED
    BY <1>0, <2>1, <2>2
<1>4. ASSUME NEW i \in Instance,
             \/ BeginRefresh(i) \/ UpdateStatus(i)
             \/ \E x \in ToRead(i) : GetIssue(i, x) \/ GetIssueFails(i, x)
      PROVE  \A j \in Instance : proc'[j].at # "idle" => lock' = j
  <2>1. lock' = lock /\ \A q \in Proc \ {i} : proc'[q] = proc[q]
    BY <1>0, <1>4, OneMoves DEF BeginRefresh, UpdateStatus, GetIssue, GetIssueFails
  <2>2. proc[i].at # "idle"
    <3>1. CASE BeginRefresh(i) \/ UpdateStatus(i)
      BY <3>1 DEF BeginRefresh, UpdateStatus, Sending
    <3>2. CASE \E x \in ToRead(i) : TRUE
      BY <3>2 DEF ToRead
    <3> QED
      BY <1>4, <3>1, <3>2
  <2> QED
    BY <1>0, <2>1, <2>2 DEF Alone
<1>5. ASSUME NEW p \in Proc, Goto(p, Idle), Unlock(p)
      PROVE  \A j \in Instance : proc'[j].at # "idle" => lock' = j
  <2>1. proc'[p].at = "idle" /\ \A q \in Proc \ {p} : proc'[q] = proc[q]
    BY <1>5, OneMoves DEF Idle
  <2> QED
    BY <1>0, <1>5, <2>1 DEF Alone, Unlock
<1>6. CASE OutsideStep \/ UNCHANGED vars
  <2>1. proc' = proc /\ lock' = lock
    BY <1>6 DEF OutsideStep, BackoffPasses, RefreshAfter, WindowPasses, CloseIssue, vars
  <2> QED
    BY <2>1 DEF Alone
<1>7. ASSUME NEW i \in Instance, SyncEnds(i)
      PROVE  Goto(i, Idle) /\ Unlock(i)
  BY <1>7 DEF SyncEnds
<1>8. ASSUME NEW p \in Proc, Crash(p)
      PROVE  Goto(p, Idle) /\ Unlock(p)
  BY <1>8 DEF Crash
<1> QED
  BY <1>0, <1>1, <1>2, <1>3, <1>4, <1>5, <1>6, <1>7, <1>8, StepCases

\* The processes that read GitHub back: each has just read the list, goes on with it, or
\* has taken one report from it.
LEMMA ReaderMoves ==
  ASSUME TypeOK, [Next]_vars, NEW p \in Proc, proc'[p].at \in {"refresh", "update"}
  PROVE  \/ proc'[p] = proc[p]
         \/ p \in Instance /\ BeginRefresh(p)
         \/ p \in Instance /\ UpdateStatus(p)
         \/ p \in Instance /\ \E x \in ToRead(p) : GetIssue(p, x) \/ GetIssueFails(p, x)
<1>0. \A i \in Instance : i \in Proc
  BY DEF Proc
<1>1. ASSUME NEW q \in Proc, SendStep(q)
      PROVE  proc'[p] = proc[p]
  BY <1>1, SendMoves
<1>2. ASSUME NEW q \in Proc, Crash(q)
      PROVE  proc'[p] = proc[p]
  BY <1>2, OneMoves DEF Crash, Idle
<1>3. ASSUME NEW h \in Handler, HandlerStep(h)
      PROVE  proc'[p] = proc[p]
  BY <1>3, HandlerMoves
<1>4. ASSUME NEW i \in Instance, SyncOnce(i) \/ SyncEnds(i)
      PROVE  proc'[p] = proc[p]
  BY <1>0, <1>4, OneMoves DEF SyncOnce, SyncEnds, Idle, Sending
<1>5. ASSUME NEW i \in Instance, i # p,
             \/ BeginRefresh(i) \/ UpdateStatus(i)
             \/ \E x \in ToRead(i) : GetIssue(i, x) \/ GetIssueFails(i, x)
      PROVE  proc'[p] = proc[p]
  BY <1>0, <1>5, OneMoves DEF BeginRefresh, UpdateStatus, GetIssue, GetIssueFails
<1>6. CASE OutsideStep \/ UNCHANGED vars
  BY <1>6 DEF OutsideStep, BackoffPasses, RefreshAfter, WindowPasses, CloseIssue, vars
<1> QED
  BY <1>1, <1>2, <1>3, <1>4, <1>5, <1>6, StepCases

\* What a reader's state says when the reports on its list are open.
Reads(p) ==
  /\ p \in Instance
  /\ \A x \in proc[p].todo : report[x[1]].status = "open"
  /\ \A x, y \in proc[p].todo : x[1] = y[1] => x = y
  /\ proc[p].at = "update" =>
       report[proc[p].rep].status = "open" /\ \A x \in proc[p].todo : x[1] # proc[p].rep

LEMMA ReadsStep ==
  ASSUME TypeOK, Alone, [Next]_vars, NEW p \in Proc, proc'[p].at \in {"refresh", "update"}
  PROVE  Reads(p)'
<1>1. CASE \E i \in Instance : UpdateStatus(i)
  <2>1. PICK i \in Instance : UpdateStatus(i)
    BY <1>1
  <2>2. i \in Proc /\ proc[i].at = "update" /\ proc'[i] = [at |-> "refresh", todo |-> proc[i].todo]
        /\ \A q \in Proc \ {i} : proc'[q] = proc[q]
    BY <2>1, OneMoves DEF UpdateStatus, Proc
  <2>3. p = i
    <3>1. CASE p # i
      <4>1. proc[p].at \in {"refresh", "update"}
        BY <2>2, <3>1
      <4>2. p \in Instance
        BY <4>1 DEF Alone
      <4> QED
        BY <2>2, <3>1, <4>1, <4>2 DEF Alone
    <3> QED
      BY <3>1
  <2>4. proc[i].rep \in Report /\ proc[i].todo \in SUBSET (Report \X Nat)
    BY <2>2, WorkCases
  <2>5. \A r \in Report \ {proc[i].rep} : report'[r] = report[r]
    BY <2>1, <2>4 DEF UpdateStatus, TypeOK
  <2>6. \A x \in proc[i].todo : x[1] \in Report \ {proc[i].rep} /\ report[x[1]].status = "open"
    BY <2>2, <2>4 DEF Alone
  <2>7. \A x, y \in proc[i].todo : x[1] = y[1] => x = y
    BY <2>2 DEF Alone
  <2> QED
    BY <2>2, <2>3, <2>5, <2>6, <2>7 DEF Reads
<1>2. CASE ~ \E i \in Instance : UpdateStatus(i)
  <2>1. \A r \in Report : report[r].status = "open" => report'[r].status = "open"
    BY <1>2, OpenStays
  <2>2. proc[p].at \in {"refresh", "update"} =>
          /\ Reads(p) /\ proc[p].todo \in SUBSET (Report \X Nat)
          /\ proc[p].at = "update" => proc[p].rep \in Report
    BY WorkCases DEF Alone, Reads
  <2>3. CASE proc'[p] = proc[p]
    <3>1. \A x \in proc[p].todo : x[1] \in Report
      BY <2>2, <2>3
    <3> QED
      BY <2>1, <2>2, <2>3, <3>1 DEF Reads
  <2>4. CASE p \in Instance /\ BeginRefresh(p)
    <3>1. proc'[p] = [at |-> "refresh", todo |-> {<<r, report[r].issue>> : r \in {x \in Report : ListOpenToSync(x)}}]
      BY <2>4, OneMoves DEF BeginRefresh
    <3>2. \A r \in Report : ListOpenToSync(r) => report'[r].status = "open"
      BY <2>1 DEF ListOpenToSync
    <3> QED
      BY <2>4, <3>1, <3>2 DEF Reads
  <2>5. ASSUME p \in Instance, NEW x \in ToRead(p), GetIssue(p, x) \/ GetIssueFails(p, x)
        PROVE  Reads(p)'
    <3>1. proc[p].at = "refresh" /\ x \in proc[p].todo
      BY <2>5 DEF ToRead
    <3>2. /\ proc'[p].todo = proc[p].todo \ {x}
          /\ \/ proc'[p].at = "refresh"
             \/ proc'[p].at = "update" /\ proc'[p].rep = x[1]
      BY <2>5, OneMoves DEF GetIssue, GetIssueFails
    <3>3. \A y \in proc[p].todo : y[1] \in Report /\ report[y[1]].status = "open"
      BY <2>2, <3>1 DEF Reads
    <3> QED
      BY <2>1, <2>2, <2>5, <3>1, <3>2, <3>3 DEF Reads
  <2> QED
    BY <1>2, <2>3, <2>4, <2>5, ReaderMoves
<1> QED
  BY <1>1, <1>2

LEMMA AloneStep ==
  ASSUME TypeOK, Alone, [Next]_vars
  PROVE  Alone'
<1>1. \A i \in Instance : proc'[i].at # "idle" => lock' = i
  BY LockStep
<1>2. \A p \in Proc : proc'[p].at \in {"refresh", "update"} => Reads(p)'
  BY ReadsStep
<1> QED
  BY <1>1, <1>2 DEF Alone, Reads

LEMMA SyncInv == Spec => [](TypeOK /\ Books /\ Alone)
<1>1. Init => TypeOK /\ Books /\ Alone
  <2> SUFFICES ASSUME Init
               PROVE  TypeOK /\ Books /\ Alone
    OBVIOUS
  <2>1. TypeOK
    BY SupportAssumption DEF Init, TypeOK, NoReport, Idle, ReportRow, Work
  <2>2. Books
    BY DEF Init, Books, NoReport, Idle
  <2>3. \A i \in Instance : i \in Proc
    BY DEF Proc
  <2>4. Alone
    BY <2>3 DEF Init, Alone, Idle
  <2> QED
    BY <2>1, <2>2, <2>4
<1>2. TypeOK /\ Books /\ Alone /\ [Next]_vars => (TypeOK /\ Books /\ Alone)'
  <2> SUFFICES ASSUME TypeOK, Books, Alone, [Next]_vars
               PROVE  TypeOK' /\ Books'
    BY AloneStep
  <2>1. CASE UNCHANGED vars
    BY <2>1 DEF vars, TypeOK, Books
  <2>2. ASSUME NEW p \in Proc, SendStep(p)
        PROVE  TypeOK' /\ Books'
    <3>1. ASSUME NEW r \in Report,
                 \/ CreateIssue(p, r) \/ CreateRefused(p, r) \/ AnswerLost(p, r) \/ MarkFailedFails(p, r)
          PROVE  TypeOK' /\ Books'
      BY <3>1, SendTypes, BooksSend
    <3>2. ASSUME MarkSent(p) \/ MarkSentFails(p)
          PROVE  TypeOK' /\ Books'
      <4>1. proc[p].rep \in Report
        BY <3>2, WorkCases DEF MarkSent, MarkSentFails
      <4> QED
        BY <3>2, <4>1, SendTypes, BooksSend
    <3> QED
      BY <2>2, <3>1, <3>2 DEF SendStep
  <2>3. ASSUME NEW i \in Instance,
               \/ SyncOnce(i) \/ BeginRefresh(i) \/ UpdateStatus(i) \/ SyncEnds(i)
               \/ \E x \in ToRead(i) : GetIssue(i, x) \/ GetIssueFails(i, x)
        PROVE  TypeOK' /\ Books'
    BY <2>3, SyncTypes, BooksSync
  <2>4. ASSUME (\E h \in Handler : HandlerStep(h)) \/ (\E p \in Proc : Crash(p)) \/ OutsideStep
        PROVE  TypeOK' /\ Books'
    BY <2>4, OtherTypes, BooksOther DEF HandlerStep, OutsideStep
  <2> QED
    BY <2>1, <2>2, <2>3, <2>4, StepCases
<1> QED
  BY <1>1, <1>2, PTL DEF Spec

\* The rows, the issues and the local state of handlers and workers keep their types; in
\* particular a worker only asks GitHub for issues that exist.
THEOREM TypeCorrect == Spec => []TypeOK
BY SyncInv, PTL

\* A report shown as resolved or closed is not reopened by a worker, however many
\* instances read GitHub back and however late: only the end of a send that was in
\* progress does.
THEOREM SettledReportsStay == Spec => SettledIsFinal
<1> DEFINE Keeps ==
      \A r \in Report :
        report[r].status \in {"resolved", "closed"} =>
          \/ report'[r].status = report[r].status
          \/ \E p \in Proc : proc[p].at = "record" /\ proc[p].rep = r
<1>1. TypeOK /\ Books /\ Alone /\ [Next]_vars => [Keeps]_vars
  <2> SUFFICES ASSUME TypeOK, Alone, [Next]_vars, NEW r \in Report,
                      report[r].status \in {"resolved", "closed"},
                      report'[r].status # report[r].status
               PROVE  \E p \in Proc : proc[p].at = "record" /\ proc[p].rep = r
    BY DEF Keeps
  <2>1. ASSUME NEW i \in Instance, UpdateStatus(i), proc[i].rep = r
        PROVE  FALSE
    <3>1. i \in Proc /\ proc[i].at = "update"
      BY <2>1 DEF Proc, UpdateStatus
    <3>2. report[proc[i].rep].status = "open"
      BY <3>1 DEF Alone
    <3> QED
      BY <2>1, <3>2
  <2>2. PICK p \in Proc : MarkSent(p) /\ proc[p].rep = r
    BY <2>1, StatusSteps
  <2> QED
    BY <2>2 DEF MarkSent
<1> QED
  BY <1>1, SyncInv, PTL DEF Spec, SettledIsFinal

-----------------------------------------------------------------------------
(* One issue for a report.                                                 *)

\* Steps by which no process takes a report in hand, opens an issue for it or records one.
LEMMA HeldShrinks ==
  ASSUME Held, excused \subseteq excused',
         \A q \in Proc : InHand(q)' \subseteq InHand(q) /\ InHand(q) \subseteq Report,
         \A q \in Proc : \A x \in Report \ excused' :
           /\ Recording(q, x)' <=> Recording(q, x)
           /\ Recording(q, x)' => proc'[q] = proc[q],
         \A x \in Report \ excused' : Len(issues'[x]) = Len(issues[x]),
         \A x \in Report : \/ report'[x].status = report[x].status
                           \/ {report[x].status, report'[x].status} \cap {"none", "pending"} = {}
  PROVE  Held'
<1>1. \A p \in Proc : \A r \in InHand(p)' : report'[r].status # "none"
  BY DEF Held
<1>2. ASSUME NEW r \in Report \ excused'
      PROVE  /\ \A p, q \in Proc : r \in InHand(p)' /\ r \in InHand(q)' => p = q
             /\ \A p \in Proc : r \in InHand(p)' => report'[r].status = "pending"
             /\ \A p \in Proc : Recording(p, r)' => r \notin proc'[p].todo
             /\ report'[r].status \in {"none", "pending"} /\ (\A p \in Proc : ~ Recording(p, r)')
                  => Len(issues'[r]) = 0
             /\ Len(issues'[r]) <= 1
  <2>1. r \in Report \ excused
    OBVIOUS
  <2>2. \A p, q \in Proc : r \in InHand(p)' /\ r \in InHand(q)' => p = q
    BY <2>1 DEF Held
  <2>3. \A p \in Proc : r \in InHand(p)' => report'[r].status = "pending"
    BY <2>1 DEF Held
  <2>4. \A p \in Proc : Recording(p, r)' => r \notin proc'[p].todo
    BY <2>1 DEF Held
  <2>5. report'[r].status \in {"none", "pending"} /\ (\A p \in Proc : ~ Recording(p, r)')
          => Len(issues'[r]) = 0
    BY <2>1 DEF Held
  <2>6. Len(issues'[r]) <= 1
    BY <2>1 DEF Held
  <2> QED
    BY <2>2, <2>3, <2>4, <2>5, <2>6
<1> QED
  BY <1>1, <1>2 DEF Held

LEMMA HandTypes ==
  ASSUME TypeOK
  PROVE  \A p \in Proc : InHand(p) \subseteq Report
BY WorkCases DEF InHand, ToSend

\* Opening an issue: the report stays in the same hands, which now record it.
LEMMA HeldCreateIssue ==
  ASSUME TypeOK, Held, NEW p \in Proc, NEW r \in Report, CreateIssue(p, r)
  PROVE  Held'
<1>1. proc[p].at = "send" /\ r \in proc[p].todo
  BY DEF CreateIssue, ToSend
<1>2. /\ proc'[p] = [at |-> "record", rep |-> r, iss |-> Len(issues[r]) + 1, todo |-> proc[p].todo \ {r}]
      /\ \A q \in Proc \ {p} : proc'[q] = proc[q]
  BY OneMoves DEF CreateIssue
<1>3. \A q \in Proc : InHand(q)' = InHand(q)
  BY <1>1, <1>2 DEF InHand, ToSend
<1>4. /\ \A q \in Proc \ {p} : \A x \in Report : Recording(q, x)' <=> Recording(q, x)
      /\ \A x \in Report : ~ Recording(p, x) /\ (Recording(p, x)' <=> x = r)
  BY <1>1, <1>2 DEF Recording
<1>5. report' = report /\ excused' = excused
  BY DEF CreateIssue
<1>6. \A x \in Report : Len(issues'[x]) = IF x = r THEN Len(issues[x]) + 1 ELSE Len(issues[x])
  BY OpenedLen DEF CreateIssue
<1>7. r \in InHand(p)
  BY <1>1 DEF InHand, ToSend
<1>8. r \notin excused => Len(issues[r]) = 0
  <2> SUFFICES ASSUME r \notin excused
               PROVE  Len(issues[r]) = 0
    OBVIOUS
  <2>1. \A q \in Proc : Recording(q, r) => r \in InHand(q)
    BY DEF Recording, InHand
  <2>2. \A q \in Proc : ~ Recording(q, r)
    BY <1>4, <1>7, <2>1 DEF Held
  <2>3. report[r].status = "pending"
    BY <1>7 DEF Held
  <2> QED
    BY <2>2, <2>3 DEF Held
<1>9. \A q \in Proc : \A x \in InHand(q)' : report'[x].status # "none"
  BY <1>3, <1>5 DEF Held
<1>10. ASSUME NEW x \in Report \ excused'
       PROVE  /\ \A q, u \in Proc : x \in InHand(q)' /\ x \in InHand(u)' => q = u
              /\ \A q \in Proc : x \in InHand(q)' => report'[x].status = "pending"
              /\ \A q \in Proc : Recording(q, x)' => x \notin proc'[q].todo
              /\ report'[x].status \in {"none", "pending"} /\ (\A q \in Proc : ~ Recording(q, x)')
                   => Len(issues'[x]) = 0
              /\ Len(issues'[x]) <= 1
  <2>1. x \in Report \ excused
    BY <1>5
  <2>2. \A q, u \in Proc : x \in InHand(q)' /\ x \in InHand(u)' => q = u
    BY <1>3, <2>1 DEF Held
  <2>3. \A q \in Proc : x \in InHand(q)' => report'[x].status = "pending"
    BY <1>3, <1>5, <2>1 DEF Held
  <2>4. \A q \in Proc : Recording(q, x)' => x \notin proc'[q].todo
    BY <1>2, <1>4, <2>1 DEF Held
  <2>5. report'[x].status \in {"none", "pending"} /\ (\A q \in Proc : ~ Recording(q, x)')
          => Len(issues'[x]) = 0
    BY <1>4, <1>5, <1>6, <2>1 DEF Held
  <2>6. Len(issues'[x]) <= 1
    BY <1>6, <1>8, <2>1 DEF Held
  <2> QED
    BY <2>2, <2>3, <2>4, <2>5, <2>6
<1> QED
  BY <1>9, <1>10 DEF Held

\* A send that ends without a record.
LEMMA HeldNotSent ==
  ASSUME TypeOK, Held, NEW p \in Proc, NEW r \in Report,
         CreateRefused(p, r) \/ AnswerLost(p, r) \/ MarkFailedFails(p, r)
  PROVE  Held'
<1>1. proc[p].at = "send" /\ r \in proc[p].todo
  BY DEF CreateRefused, AnswerLost, MarkFailedFails, ToSend
<1>2. /\ proc'[p] = Sending(proc[p].todo \ {r})
      /\ \A q \in Proc \ {p} : proc'[q] = proc[q]
  BY OneMoves DEF CreateRefused, AnswerLost, MarkFailedFails
<1>3. \A q \in Proc : InHand(q)' \subseteq InHand(q) /\ InHand(q) \subseteq Report
  BY <1>1, <1>2, HandTypes DEF InHand, ToSend, Sending
<1>4. \A q \in Proc, x \in Report : /\ Recording(q, x)' <=> Recording(q, x)
                                    /\ Recording(q, x)' => proc'[q] = proc[q]
  BY <1>1, <1>2 DEF Recording, Sending
<1>5. \A x \in Report : report'[x].status = report[x].status
  BY StatusKept DEF CreateRefused, AnswerLost, MarkFailedFails
<1>6. \/ issues' = issues /\ excused' = excused
      \/ issues' = Opened(r) /\ excused' = excused \cup {r}
  BY DEF CreateRefused, AnswerLost, MarkFailedFails
<1>7. \A x \in Report \ excused' : Len(issues'[x]) = Len(issues[x])
  BY <1>6, OpenedLen
<1> QED
  BY <1>3, <1>4, <1>5, <1>6, <1>7, HeldShrinks

\* Recording an issue takes the report off the queue.
LEMMA HeldSent ==
  ASSUME TypeOK, Held, NEW p \in Proc, MarkSent(p)
  PROVE  Held'
<1>1. proc[p].at = "record" /\ issues' = issues /\ excused' = excused
  BY DEF MarkSent
<1>2. /\ proc'[p] = Sending(proc[p].todo)
      /\ \A q \in Proc \ {p} : proc'[q] = proc[q]
  BY OneMoves DEF MarkSent
<1>3. \A q \in Proc : InHand(q)' \subseteq InHand(q)
  BY <1>1, <1>2 DEF InHand, ToSend, Sending
<1>4. /\ InHand(p)' = proc[p].todo /\ proc[p].rep \in InHand(p)
      /\ \A q \in Proc \ {p} : InHand(q)' = InHand(q)
  BY <1>1, <1>2 DEF InHand, ToSend, Sending
<1>5. /\ proc[p].rep \in Report /\ report'[proc[p].rep].status = "open"
      /\ \A x \in Report \ {proc[p].rep} : report'[x] = report[x]
  BY SentRow
<1>6. \A q \in Proc : \A x \in Report \ {proc[p].rep} : Recording(q, x)' <=> Recording(q, x)
  BY <1>1, <1>2 DEF Recording, Sending
<1>7. \A q \in Proc, x \in Report : Recording(q, x)' => Recording(q, x) /\ proc'[q] = proc[q]
  BY <1>1, <1>2 DEF Recording, Sending
<1>8. \A q \in Proc : \A x \in InHand(q)' : report'[x].status # "none"
  <2>1. \A q \in Proc : InHand(q) \subseteq Report
    BY HandTypes
  <2> QED
    BY <1>3, <1>5, <2>1 DEF Held
<1>9. proc[p].rep \notin excused => \A q \in Proc : proc[p].rep \notin InHand(q)'
  <2> SUFFICES ASSUME proc[p].rep \notin excused, NEW q \in Proc
               PROVE  proc[p].rep \notin InHand(q)'
    OBVIOUS
  <2>1. Recording(p, proc[p].rep)
    BY <1>1 DEF Recording
  <2>2. proc[p].rep \notin proc[p].todo
    BY <1>5, <2>1 DEF Held
  <2>3. q # p => proc[p].rep \notin InHand(q)
    BY <1>4, <1>5 DEF Held
  <2> QED
    BY <1>4, <2>2, <2>3
<1>10. ASSUME NEW x \in Report \ excused'
       PROVE  /\ \A q, u \in Proc : x \in InHand(q)' /\ x \in InHand(u)' => q = u
              /\ \A q \in Proc : x \in InHand(q)' => report'[x].status = "pending"
              /\ \A q \in Proc : Recording(q, x)' => x \notin proc'[q].todo
              /\ report'[x].status \in {"none", "pending"} /\ (\A q \in Proc : ~ Recording(q, x)')
                   => Len(issues'[x]) = 0
              /\ Len(issues'[x]) <= 1
  <2>1. x \in Report \ excused
    BY <1>1
  <2>2. \A q, u \in Proc : x \in InHand(q)' /\ x \in InHand(u)' => q = u
    BY <1>3, <2>1 DEF Held
  <2>3. \A q \in Proc : x \in InHand(q)' => report'[x].status = "pending"
    BY <1>3, <1>5, <1>9, <2>1 DEF Held
  <2>4. \A q \in Proc : Recording(q, x)' => x \notin proc'[q].todo
    BY <1>7, <2>1 DEF Held
  <2>5. report'[x].status \in {"none", "pending"} /\ (\A q \in Proc : ~ Recording(q, x)')
          => Len(issues'[x]) = 0
    BY <1>1, <1>5, <1>6, <2>1 DEF Held
  <2>6. Len(issues'[x]) <= 1
    BY <1>1, <2>1 DEF Held
  <2> QED
    BY <2>2, <2>3, <2>4, <2>5, <2>6
<1> QED
  BY <1>8, <1>10 DEF Held

\* A report that could not be recorded, and a process that dies with one, are excused.
LEMMA HeldLost ==
  ASSUME TypeOK, Held, NEW p \in Proc, MarkSentFails(p) \/ Crash(p)
  PROVE  Held'
<1>1. /\ proc'[p] = Idle \/ (proc[p].at = "record" /\ proc'[p] = Sending(proc[p].todo))
      /\ \A q \in Proc \ {p} : proc'[q] = proc[q]
  BY OneMoves DEF MarkSentFails, Crash
<1>2. report' = report /\ issues' = issues /\ excused \subseteq excused'
  BY DEF MarkSentFails, Crash
<1>3. proc[p].at = "record" => proc[p].rep \in excused'
  BY DEF MarkSentFails, Crash
<1>4. \A q \in Proc : InHand(q)' \subseteq InHand(q) /\ InHand(q) \subseteq Report
  BY <1>1, HandTypes DEF InHand, ToSend, Sending, Idle
<1>5. \A q \in Proc : \A x \in Report \ excused' :
        /\ Recording(q, x)' <=> Recording(q, x)
        /\ Recording(q, x)' => proc'[q] = proc[q]
  BY <1>1, <1>3 DEF Recording, Sending, Idle
<1> QED
  BY <1>2, <1>4, <1>5, HeldShrinks

\* The worker takes the pending reports; those in other hands are excused.
LEMMA HeldSyncOnce ==
  ASSUME TypeOK, Held, NEW i \in Instance, SyncOnce(i)
  PROVE  Held'
<1> DEFINE pending == {r \in Report : ListPending(r)}
<1>0. i \in Proc
  BY DEF Proc
<1>1. /\ proc[i] = Idle /\ proc'[i] = Sending(pending)
      /\ \A q \in Proc \ {i} : proc'[q] = proc[q]
  BY <1>0, OneMoves DEF SyncOnce
<1>2. /\ report' = report /\ issues' = issues
      /\ excused' = excused \cup {r \in pending : \E p \in Proc : r \in InHand(p)}
  BY DEF SyncOnce
<1>3. \A r \in pending : r \in Report /\ report[r].status = "pending"
  BY DEF ListPending
<1> HIDE DEF pending
<1>4. /\ InHand(i)' = pending /\ InHand(i) = {}
      /\ \A q \in Proc \ {i} : InHand(q)' = InHand(q)
  BY <1>1 DEF InHand, ToSend, Sending, Idle
<1>5. \A q \in Proc, x \in Report : Recording(q, x)' <=> Recording(q, x)
  BY <1>1 DEF Recording, Sending, Idle
<1>6. \A q \in Proc, x \in Report : Recording(q, x)' => proc'[q] = proc[q]
  BY <1>1 DEF Recording, Sending, Idle
<1>7. \A q \in Proc : \A x \in InHand(q)' : report'[x].status # "none"
  BY <1>2, <1>3, <1>4 DEF Held
<1>8. ASSUME NEW x \in Report \ excused'
      PROVE  /\ \A q, u \in Proc : x \in InHand(q)' /\ x \in InHand(u)' => q = u
             /\ \A q \in Proc : x \in InHand(q)' => report'[x].status = "pending"
             /\ \A q \in Proc : Recording(q, x)' => x \notin proc'[q].todo
             /\ report'[x].status \in {"none", "pending"} /\ (\A q \in Proc : ~ Recording(q, x)')
                  => Len(issues'[x]) = 0
             /\ Len(issues'[x]) <= 1
  <2>1. x \in Report \ excused /\ (x \in pending => \A q \in Proc : x \notin InHand(q))
    BY <1>2
  <2>2. \A q, u \in Proc : x \in InHand(q)' /\ x \in InHand(u)' => q = u
    BY <1>4, <2>1 DEF Held
  <2>3. \A q \in Proc : x \in InHand(q)' => report'[x].status = "pending"
    BY <1>2, <1>3, <1>4, <2>1 DEF Held
  <2>4. \A q \in Proc : Recording(q, x)' => x \notin proc'[q].todo
    BY <1>5, <1>6, <2>1 DEF Held
  <2>5. report'[x].status \in {"none", "pending"} /\ (\A q \in Proc : ~ Recording(q, x)')
          => Len(issues'[x]) = 0
    BY <1>2, <1>5, <2>1 DEF Held
  <2>6. Len(issues'[x]) <= 1
    BY <1>2, <2>1 DEF Held
  <2> QED
    BY <2>2, <2>3, <2>4, <2>5, <2>6
<1> QED
  BY <1>7, <1>8 DEF Held

\* Reading GitHub back touches no report that is in hand.
LEMMA HeldRefresh ==
  ASSUME TypeOK, Books, Alone, Held, NEW i \in Instance,
         \/ BeginRefresh(i) \/ UpdateStatus(i) \/ SyncEnds(i)
         \/ \E x \in ToRead(i) : GetIssue(i, x) \/ GetIssueFails(i, x)
  PROVE  Held'
<1>0. i \in Proc /\ issues' = issues /\ excused' = excused
  BY DEF Proc, BeginRefresh, UpdateStatus, SyncEnds, GetIssue, GetIssueFails
<1>1. \A q \in Proc \ {i} : proc'[q] = proc[q]
  BY <1>0, OneMoves DEF BeginRefresh, UpdateStatus, SyncEnds, GetIssue, GetIssueFails
<1>2. proc'[i].at \in {"idle", "refresh", "update"} /\ proc[i].at # "record"
  <2>1. CASE BeginRefresh(i) \/ UpdateStatus(i) \/ SyncEnds(i)
    BY <1>0, <2>1, OneMoves DEF BeginRefresh, UpdateStatus, SyncEnds, Sending, Idle
  <2>2. ASSUME NEW x \in ToRead(i), GetIssue(i, x) \/ GetIssueFails(i, x)
        PROVE  proc'[i].at \in {"idle", "refresh", "update"} /\ proc[i].at # "record"
    <3>1. proc[i].at = "refresh"
      BY <2>2 DEF ToRead
    <3> QED
      BY <1>0, <2>2, <3>1, OneMoves DEF GetIssue, GetIssueFails
  <2> QED
    BY <2>1, <2>2
<1>3. \A q \in Proc : InHand(q)' \subseteq InHand(q) /\ InHand(q) \subseteq Report
  BY <1>0, <1>1, <1>2, HandTypes DEF InHand, ToSend
<1>4. \A q \in Proc, x \in Report : /\ Recording(q, x)' <=> Recording(q, x)
                                    /\ Recording(q, x)' => proc'[q] = proc[q]
  BY <1>1, <1>2 DEF Recording
<1>5. \A x \in Report : \/ report'[x].status = report[x].status
                        \/ {report[x].status, report'[x].status} \cap {"none", "pending"} = {}
  <2>1. CASE UpdateStatus(i)
    <3>1. /\ proc[i].rep \in Report /\ proc[i].status \in {"open", "resolved", "closed"}
          /\ report[proc[i].rep].status = "open"
      BY <1>0, <2>1, WorkCases DEF UpdateStatus, Alone
    <3>2. report[proc[i].rep] \in ReportRow
      BY <3>1 DEF TypeOK
    <3>3. report'[proc[i].rep] = [report[proc[i].rep] EXCEPT !.status = proc[i].status, !.stale = FALSE]
      BY <2>1, <3>1 DEF UpdateStatus, TypeOK
    <3>4. report'[proc[i].rep].status = proc[i].status
      BY <3>2, <3>3 DEF ReportRow
    <3>5. \A x \in Report \ {proc[i].rep} : report'[x] = report[x]
      BY <2>1, <3>1 DEF UpdateStatus, TypeOK
    <3> QED
      BY <3>1, <3>4, <3>5
  <2>2. CASE ~ UpdateStatus(i)
    BY <2>2 DEF BeginRefresh, SyncEnds, GetIssue, GetIssueFails
  <2> QED
    BY <2>1, <2>2
<1> QED
  BY <1>0, <1>3, <1>4, <1>5, HeldShrinks

\* A report is stored in the hands of its handler.
LEMMA HeldCreateReport ==
  ASSUME TypeOK, Held, NEW h \in Handler, NEW r \in Report, CreateReport(h, r)
  PROVE  Held'
<1>0. h \in Proc
  BY DEF Proc
<1>1. /\ proc[h].at = "counted" /\ proc'[h] = Sending({r})
      /\ \A q \in Proc \ {h} : proc'[q] = proc[q]
  BY <1>0, OneMoves DEF CreateReport
<1>2. issues' = issues /\ excused' = excused /\ report[r].status = "none"
  BY DEF CreateReport
<1>3. report'[r].status = "pending" /\ \A x \in Report \ {r} : report'[x] = report[x]
  BY DEF CreateReport, NoReport, TypeOK
<1>4. /\ InHand(h)' = {r} /\ InHand(h) = {}
      /\ \A q \in Proc \ {h} : InHand(q)' = InHand(q)
  BY <1>1 DEF InHand, ToSend, Sending
<1>5. \A q \in Proc : r \notin InHand(q)
  BY <1>2 DEF Held
<1>6. \A q \in Proc, x \in Report : /\ Recording(q, x)' <=> Recording(q, x)
                                    /\ Recording(q, x)' => proc'[q] = proc[q]
  BY <1>1 DEF Recording, Sending
<1>7. \A q \in Proc : \A x \in InHand(q)' : report'[x].status # "none"
  <2>1. \A q \in Proc : InHand(q) \subseteq Report
    BY HandTypes
  <2> QED
    BY <1>3, <1>4, <1>5, <2>1 DEF Held
<1>8. ASSUME NEW x \in Report \ excused'
      PROVE  /\ \A q, u \in Proc : x \in InHand(q)' /\ x \in InHand(u)' => q = u
             /\ \A q \in Proc : x \in InHand(q)' => report'[x].status = "pending"
             /\ \A q \in Proc : Recording(q, x)' => x \notin proc'[q].todo
             /\ report'[x].status \in {"none", "pending"} /\ (\A q \in Proc : ~ Recording(q, x)')
                  => Len(issues'[x]) = 0
             /\ Len(issues'[x]) <= 1
  <2>1. x \in Report \ excused
    BY <1>2
  <2>2. \A q, u \in Proc : x \in InHand(q)' /\ x \in InHand(u)' => q = u
    BY <1>4, <1>5, <2>1 DEF Held
  <2>3. \A q \in Proc : x \in InHand(q)' => report'[x].status = "pending"
    BY <1>3, <1>4, <1>5, <2>1 DEF Held
  <2>4. \A q \in Proc : Recording(q, x)' => x \notin proc'[q].todo
    BY <1>6, <2>1 DEF Held
  <2>5. report'[x].status \in {"none", "pending"} /\ (\A q \in Proc : ~ Recording(q, x)')
          => Len(issues'[x]) = 0
    BY <1>2, <1>3, <1>6, <2>1 DEF Held
  <2>6. Len(issues'[x]) <= 1
    BY <1>2, <2>1 DEF Held
  <2> QED
    BY <2>2, <2>3, <2>4, <2>5, <2>6
<1> QED
  BY <1>7, <1>8 DEF Held

\* A request that begins or ends, and what happens outside.
LEMMA HeldOther ==
  ASSUME TypeOK, Books, Held,
         (\E h \in Handler : Submit(h) \/ SubmitEnds(h)) \/ OutsideStep \/ UNCHANGED vars
  PROVE  Held'
<1>1. excused' = excused
  BY DEF Submit, SubmitEnds, OutsideStep, BackoffPasses, RefreshAfter, WindowPasses, CloseIssue, vars
<1>2. \A q \in Proc : /\ InHand(q)' = InHand(q)
                      /\ \A x \in Report : /\ Recording(q, x)' <=> Recording(q, x)
                                           /\ Recording(q, x)' => proc'[q] = proc[q]
  <2>1. ASSUME NEW h \in Handler, Submit(h) \/ SubmitEnds(h), NEW q \in Proc
        PROVE  \/ proc'[q] = proc[q]
               \/ proc'[q].at \in {"idle", "counted"} /\ (proc[q] = Idle \/ proc[q] = Sending({}))
    <3>1. h \in Proc
      BY DEF Proc
    <3> QED
      BY <2>1, <3>1, OneMoves DEF Submit, SubmitEnds, Idle
  <2>2. ASSUME OutsideStep \/ UNCHANGED vars
        PROVE  proc' = proc
    BY <2>2 DEF OutsideStep, BackoffPasses, RefreshAfter, WindowPasses, CloseIssue, vars
  <2> QED
    BY <2>1, <2>2 DEF InHand, ToSend, Recording, Sending, Idle
<1>3. \A x \in Report : Len(issues'[x]) = Len(issues[x])
  <2>1. ASSUME NEW r \in Report, NEW state \in {"completed", "other"}, CloseIssue(r, state)
        PROVE  \A x \in Report : Len(issues'[x]) = Len(issues[x])
    BY <2>1, ClosedLen
  <2>2. CASE ~ \E r \in Report, state \in {"completed", "other"} : CloseIssue(r, state)
    BY <2>2 DEF Submit, SubmitEnds, OutsideStep, BackoffPasses, RefreshAfter, WindowPasses, vars
  <2> QED
    BY <2>1, <2>2
<1>4. \A x \in Report : report'[x].status = report[x].status
  <2>1. ASSUME NEW r \in Report, BackoffPasses(r) \/ RefreshAfter(r) \/ WindowPasses(r)
        PROVE  \A x \in Report : report'[x].status = report[x].status
    BY <2>1, StatusKept
  <2>2. CASE ~ \E r \in Report : BackoffPasses(r) \/ RefreshAfter(r) \/ WindowPasses(r)
    BY <2>2 DEF Submit, SubmitEnds, OutsideStep, CloseIssue, vars
  <2> QED
    BY <2>1, <2>2
<1> QED
  BY <1>1, <1>2, <1>3, <1>4, HandTypes, HeldShrinks

LEMMA HeldStep ==
  ASSUME TypeOK, Books, Alone, Held, [Next]_vars
  PROVE  Held'
<1>1. ASSUME NEW p \in Proc, SendStep(p)
      PROVE  Held'
  BY <1>1, HeldCreateIssue, HeldNotSent, HeldSent, HeldLost DEF SendStep
<1>2. ASSUME NEW p \in Proc, Crash(p)
      PROVE  Held'
  BY <1>2, HeldLost
<1>3. ASSUME NEW h \in Handler, HandlerStep(h)
      PROVE  Held'
  BY <1>3, HeldCreateReport, HeldOther DEF HandlerStep
<1>4. ASSUME NEW i \in Instance,
             \/ SyncOnce(i) \/ BeginRefresh(i) \/ UpdateStatus(i) \/ SyncEnds(i)
             \/ \E x \in ToRead(i) : GetIssue(i, x) \/ GetIssueFails(i, x)
      PROVE  Held'
  BY <1>4, HeldSyncOnce, HeldRefresh
<1>5. CASE OutsideStep \/ UNCHANGED vars
  BY <1>5, HeldOther
<1> QED
  BY <1>1, <1>2, <1>3, <1>4, <1>5, StepCases

\* One issue is opened for a report, however handlers, workers of several instances,
\* refusals and time interleave, unless two processes had it in hand at once or an issue
\* was never recorded.
THEOREM ReportsHaveOneIssue == Spec => []OneIssue
<1>1. Init => Held
  <2> SUFFICES ASSUME Init
               PROVE  Held
    OBVIOUS
  <2>1. \A p \in Proc : InHand(p) = {} /\ \A r \in Report : ~ Recording(p, r)
    BY DEF Init, InHand, ToSend, Recording, Idle
  <2>2. \A r \in Report : Len(issues[r]) = 0
    BY DEF Init
  <2> QED
    BY <2>1, <2>2 DEF Held
<1>2. TypeOK /\ Books /\ Alone /\ Held /\ [Next]_vars => Held'
  BY HeldStep
<1>3. Held => OneIssue
  BY DEF Held, OneIssue
<1> QED
  BY <1>1, <1>2, <1>3, SyncInv, PTL DEF Spec
=============================================================================
