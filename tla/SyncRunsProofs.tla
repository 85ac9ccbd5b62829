--------------------------- MODULE SyncRunsProofs ---------------------------
(***************************************************************************)
(* Proofs about module SyncRuns, for any number of profiles, gateways,     *)
(* runs and handlers in progress, and for any threshold of the alerts.     *)
(***************************************************************************)
EXTENDS SyncRuns, FiniteSetTheorems, TLAPS

Used == [asked : 0 .. MaxRuns, runs : 0 .. MaxRuns, edits : 0 .. MaxEdits,
         reports : 0 .. MaxReports, faults : 0 .. MaxFaults]

\* Runs are numbered as they are inserted, and a number is not given twice: a handler that
\* has read a run finds that run or none.
Numbered ==
  /\ \A r \in Run : runs[r] # Absent => r <= used.runs
  /\ \A p \in Request : req[p].op = "progress" =>
       /\ req[p].run <= used.runs
       /\ runs[req[p].run] # Absent => runs[req[p].run].profile = req[p].read.profile

Inv == TypeOK /\ Numbered

-----------------------------------------------------------------------------
(* Lemmas about the helpers.                                               *)

LEMMA Bounds ==
  MaxRuns \in Nat /\ MaxEdits \in Nat /\ MaxReports \in Nat /\ MaxFaults \in Nat
BY SyncAssumption

LEMMA SpendAsked ==
  ASSUME used \in Used, Spend("asked", MaxRuns)
  PROVE  used' \in Used /\ used'.runs = used.runs
<1>1. used.asked + 1 \in 0 .. MaxRuns
  BY Bounds DEF Spend, Used
<1> QED
  BY <1>1 DEF Spend, Used

LEMMA SpendRuns ==
  ASSUME used \in Used, Spend("runs", MaxRuns)
  PROVE  used' \in Used /\ used'.runs = used.runs + 1 /\ used.runs + 1 \in Run /\ used'.faults = used.faults
<1>1. used.runs + 1 \in 0 .. MaxRuns /\ used.runs + 1 \in Run
  BY Bounds DEF Spend, Used, Run
<1> QED
  BY <1>1 DEF Spend, Used

LEMMA SpendEdits ==
  ASSUME used \in Used, Spend("edits", MaxEdits)
  PROVE  used' \in Used /\ used'.runs = used.runs
<1>1. used.edits + 1 \in 0 .. MaxEdits
  BY Bounds DEF Spend, Used
<1> QED
  BY <1>1 DEF Spend, Used

LEMMA SpendReports ==
  ASSUME used \in Used, Spend("reports", MaxReports)
  PROVE  used' \in Used /\ used'.runs = used.runs
<1>1. used.reports + 1 \in 0 .. MaxReports
  BY Bounds DEF Spend, Used
<1> QED
  BY <1>1 DEF Spend, Used

LEMMA SpendFaults ==
  ASSUME used \in Used, Spend("faults", MaxFaults)
  PROVE  used' \in Used /\ used'.runs = used.runs /\ used'.faults > 0
<1>1. used.faults + 1 \in 0 .. MaxFaults /\ used.faults + 1 > 0
  BY Bounds DEF Spend, Used
<1> QED
  BY <1>1 DEF Spend, Used

\* The handlers in progress, by what they are doing.
LEMMA Messages ==
  ASSUME TypeOK, NEW p \in Request
  PROVE  /\ req[p].op = "create" => req[p].profile \in Profile /\ req[p].gw \in Gateway
         /\ req[p].op = "progress" => req[p].run \in Run /\ req[p].report \in Report /\ req[p].read \in Row
         /\ req[p].op = "stamp" => req[p].profile \in Profile /\ req[p].failing \in BOOLEAN
         /\ req[p].op = "alert" => req[p].profile \in Profile
<1>1. req[p] \in Message
  BY DEF TypeOK
<1> QED
  BY <1>1 DEF Message, Idle

\* What a report writes is a row, of the profile that was read, which has begun.
LEMMA NewRowType ==
  ASSUME TypeOK, NEW p \in Request, req[p].op = "progress"
  PROVE  /\ NewRow(p) \in Row
         /\ NewRow(p).profile = req[p].read.profile
         /\ NewRow(p).status = NewStatus(req[p].report, req[p].read)
         /\ NewRow(p).status \in {"running"} \cup Finished
         /\ NewRow(p).lines = req[p].read.lines \cup {req[p].report.line}
<1> DEFINE status == NewStatus(req[p].report, req[p].read)
<1>1. req[p].report \in Report /\ req[p].read \in Row
  BY Messages
<1>2. status \in {"running"} \cup Finished
  BY <1>1 DEF NewStatus, Report, Row
<1>3. req[p].read.lines \cup {req[p].report.line} \in SUBSET {"progress", "end"}
  BY <1>1 DEF Report, Row
<1>4. NewRow(p) = [req[p].read EXCEPT !.status = status, !.lines = @ \cup {req[p].report.line}]
  BY DEF NewRow
<1> HIDE DEF status
<1>5. NewRow(p) = [profile |-> req[p].read.profile, gw |-> req[p].read.gw, status |-> status,
                   lines |-> req[p].read.lines \cup {req[p].report.line}]
  BY <1>1, <1>4 DEF Row
<1>6. req[p].read.profile \in Profile /\ req[p].read.gw \in Gateway
  BY <1>1 DEF Row
<1> QED
  BY <1>2, <1>3, <1>5, <1>6 DEF Row, status

\* A handler that goes on to something else than a report leaves the readings alone.
LEMMA GotoNumbered ==
  ASSUME Inv, NEW p \in Request, NEW m \in Message, m.op # "progress", Goto(p, m),
         runs' = runs, used'.runs = used.runs
  PROVE  req' \in [Request -> Message] /\ Numbered'
<1>1. req' \in [Request -> Message] /\ \A q \in Request : req'[q] = IF q = p THEN m ELSE req[q]
  BY DEF Goto, Inv, TypeOK
<1> QED
  BY <1>1 DEF Inv, Numbered

-----------------------------------------------------------------------------
(* The types, and the numbers of the runs.                                 *)

LEMMA InitInv ==
  ASSUME Init
  PROVE  Inv
<1>1. [gw |-> Everyone, stamped |-> {}] \in ProfileRow
  BY SyncAssumption DEF ProfileRow
<1>2. used \in Used /\ req \in [Request -> Message]
  BY Bounds DEF Init, Used, Message
<1> QED
  BY <1>1, <1>2 DEF Init, Inv, TypeOK, Numbered, Used, Idle

\* The administrator's edits.
LEMMA EditStep ==
  ASSUME Inv, NEW pf \in Profile, NEW g \in Owner,
         CreateSyncProfile(pf, g) \/ UpdateSyncProfile(pf, g) \/ DeleteSyncProfile(pf)
  PROVE  Inv'
<1> USE DEF Inv
<1>1. used' \in Used /\ used'.runs = used.runs
  BY SpendEdits DEF CreateSyncProfile, UpdateSyncProfile, DeleteSyncProfile, TypeOK, Used
<1>2. CASE CreateSyncProfile(pf, g)
  <2>1. [gw |-> g, stamped |-> {}] \in ProfileRow /\ Absent \notin ProfileRow
    BY SyncAssumption DEF ProfileRow
  <2>2. profiles' \in [Profile -> {Absent} \cup ProfileRow]
        /\ \A q \in Profile : profiles[q] # Absent => profiles'[q] # Absent
    BY <1>2, <2>1 DEF CreateSyncProfile, TypeOK
  <2>3. \A r \in Run : runs[r] # Absent => runs[r].profile \in Profile
    BY DEF TypeOK, Row
  <2> QED
    BY <1>1, <1>2, <2>2, <2>3 DEF CreateSyncProfile, TypeOK, Numbered, Used
<1>3. CASE UpdateSyncProfile(pf, g)
  <2>1. profiles[pf] \in ProfileRow /\ Absent \notin ProfileRow
    BY <1>3, SyncAssumption DEF UpdateSyncProfile, TypeOK
  <2>2. [profiles[pf] EXCEPT !.gw = g] \in ProfileRow
    BY <2>1 DEF ProfileRow
  <2>3. profiles' \in [Profile -> {Absent} \cup ProfileRow]
        /\ \A q \in Profile : profiles[q] # Absent => profiles'[q] # Absent
    BY <1>3, <2>1, <2>2 DEF UpdateSyncProfile, TypeOK
  <2>4. \A r \in Run : runs[r] # Absent => runs[r].profile \in Profile
    BY DEF TypeOK, Row
  <2> QED
    BY <1>1, <1>3, <2>3, <2>4 DEF UpdateSyncProfile, TypeOK, Numbered, Used
<1>4. CASE DeleteSyncProfile(pf)
  <2>1. profiles' \in [Profile -> {Absent} \cup ProfileRow]
        /\ \A q \in Profile : q # pf => profiles'[q] = profiles[q]
    BY <1>4 DEF DeleteSyncProfile, TypeOK
  <2>2. runs' \in [Run -> {Absent} \cup Row]
        /\ \A r \in Run : runs'[r] # Absent => runs'[r] = runs[r] /\ runs[r].profile # pf
    BY <1>4 DEF DeleteSyncProfile, TypeOK, RunsOf
  <2>3. \A r \in Run : runs[r] # Absent => runs[r].profile \in Profile
    BY DEF TypeOK, Row
  <2>4. \A r \in Run : runs'[r] # Absent => profiles'[runs'[r].profile] # Absent
    BY <2>1, <2>2, <2>3 DEF TypeOK
  <2>5. req' = req /\ known' = known /\ alerts' = alerts
    BY <1>4 DEF DeleteSyncProfile
  <2>6. Numbered'
    <3>1. \A p \in Request : req[p].op = "progress" => req[p].run \in Run
      BY Messages
    <3> QED
      BY <1>1, <2>2, <2>5, <3>1 DEF Numbered
  <2> QED
    BY <1>1, <2>1, <2>2, <2>4, <2>5, <2>6 DEF TypeOK, Used
<1> QED
  BY <1>2, <1>3, <1>4

\* The steps of the gateways that write no row: polls, restarts.
LEMMA PollStep ==
  ASSUME Inv, NEW g \in Gateway, SyncConfig(g) \/ GatewayRestart(g)
  PROVE  Inv'
<1>1. used' \in Used /\ used'.runs = used.runs
  BY SpendFaults DEF SyncConfig, GatewayRestart, Inv, TypeOK, Used
<1>2. ListPendingSyncRuns(g) \subseteq Run
  BY DEF ListPendingSyncRuns
<1>3. known' \in [Gateway -> SUBSET Run]
  BY <1>2 DEF SyncConfig, GatewayRestart, Inv, TypeOK
<1> QED
  BY <1>1, <1>3 DEF SyncConfig, GatewayRestart, Inv, TypeOK, Numbered, Used

LEMMA StartStep ==
  ASSUME Inv, NEW g \in Gateway, NEW r \in Run, StartSyncRun(g, r)
  PROVE  Inv' /\ runs' = [runs EXCEPT ![r].status = "running"] /\ runs'[r] \in Row
         /\ runs[r] \in Row /\ runs'[r] = [runs[r] EXCEPT !.status = "running"]
<1>1. runs[r] \in Row /\ Absent \notin Row
  BY SyncAssumption DEF StartSyncRun, Inv, TypeOK
<1>2. [runs[r] EXCEPT !.status = "running"] \in Row
      /\ [runs[r] EXCEPT !.status = "running"].profile = runs[r].profile
  BY <1>1 DEF Row
<1>3. runs' = [runs EXCEPT ![r] = [runs[r] EXCEPT !.status = "running"]]
  BY DEF StartSyncRun, Inv, TypeOK
<1>4. runs' \in [Run -> {Absent} \cup Row]
      /\ \A q \in Run : runs'[q] # Absent => runs[q] # Absent /\ runs'[q].profile = runs[q].profile
  BY <1>1, <1>2, <1>3 DEF Inv, TypeOK
<1>5. \A p \in Request : req[p].op = "progress" => req[p].run \in Run
  BY Messages DEF Inv
<1>6. Numbered'
  BY <1>4, <1>5 DEF StartSyncRun, Inv, Numbered
<1>7. TypeOK'
  BY <1>4 DEF StartSyncRun, Inv, TypeOK
<1> QED
  BY <1>1, <1>2, <1>3, <1>6, <1>7 DEF StartSyncRun, Inv, TypeOK

\* A run is asked for.
LEMMA AskStep ==
  ASSUME Inv, NEW p \in Request, NEW pf \in Profile, NEW g \in Gateway,
         RunSyncProfile(p, pf, g) \/ SyncRunCreate(p, pf, g)
  PROVE  Inv'
<1> DEFINE m == [op |-> "create", profile |-> pf, gw |-> g]
<1>1. used' \in Used /\ used'.runs = used.runs
  BY SpendAsked DEF RunSyncProfile, SyncRunCreate, Inv, TypeOK, Used
<1>2. Goto(p, m) /\ profiles' = profiles /\ runs' = runs /\ known' = known /\ alerts' = alerts
  BY DEF RunSyncProfile, SyncRunCreate
<1>3. m \in Message /\ m.op # "progress"
  BY DEF Message
<1> HIDE DEF m
<1>4. req' \in [Request -> Message] /\ Numbered'
  BY <1>1, <1>2, <1>3, GotoNumbered
<1> QED
  BY <1>1, <1>2, <1>4 DEF Inv, TypeOK, Used

\* The insertion takes a number that no run has.
LEMMA CreateStep ==
  ASSUME Inv, NEW p \in Request, CreateSyncRun(p)
  PROVE  /\ Inv'
         /\ \/ runs' = runs /\ used' = used
            \/ LET r == used.runs + 1  row == [profile |-> req[p].profile, gw |-> req[p].gw,
                                               status |-> "pending", lines |-> {}]
               IN  /\ r \in Run /\ runs[r] = Absent /\ row \in Row
                   /\ runs' = [runs EXCEPT ![r] = row]
                   /\ used'.faults = used.faults
<1>0. Idle \in Message /\ Idle.op # "progress" /\ Goto(p, Idle) /\ profiles' = profiles
      /\ known' = known /\ alerts' = alerts
  BY DEF Message, Idle, CreateSyncRun
<1>1. CASE profiles[req[p].profile] = Absent
  <2>1. runs' = runs /\ used' = used
    BY <1>1 DEF CreateSyncRun
  <2>2. req' \in [Request -> Message] /\ Numbered'
    BY <1>0, <2>1, GotoNumbered
  <2> QED
    BY <1>0, <2>1, <2>2 DEF Inv, TypeOK
<1>2. CASE profiles[req[p].profile] # Absent
  <2> DEFINE r == used.runs + 1
             row == [profile |-> req[p].profile, gw |-> req[p].gw, status |-> "pending", lines |-> {}]
  <2>1. used' \in Used /\ used'.runs = r /\ r \in Run /\ used'.faults = used.faults
        /\ used.runs \in Nat /\ runs' = [runs EXCEPT ![r] = row]
    BY <1>2, SpendRuns, Bounds DEF CreateSyncRun, Inv, TypeOK, Used
  <2>2. req[p].profile \in Profile /\ req[p].gw \in Gateway
    BY Messages DEF CreateSyncRun, Inv
  <2>3. row \in Row /\ row.profile = req[p].profile
    BY <2>2 DEF Row
  <2> HIDE DEF row
  <2>4. runs[r] = Absent
    BY <2>1 DEF Inv, Numbered, Run
  <2>5. runs' \in [Run -> {Absent} \cup Row] /\ \A q \in Run : runs'[q] = IF q = r THEN row ELSE runs[q]
    BY <2>1, <2>3 DEF Inv, TypeOK
  <2>6. req' \in [Request -> Message]
        /\ \A q \in Request : req'[q] = IF q = p THEN Idle ELSE req[q]
    BY <1>0 DEF Goto, Inv, TypeOK
  <2>7. \A q \in Request : req[q].op = "progress" => req[q].run \in Run /\ req[q].run # r
    BY <2>1, Messages DEF Inv, Numbered, Run
  <2>8. Numbered'
    <3>1. \A q \in Run : runs'[q] # Absent => q <= used'.runs
      BY <2>1, <2>5 DEF Inv, Numbered, Run
    <3>2. ASSUME NEW q \in Request, req'[q].op = "progress"
          PROVE  /\ req'[q].run <= used'.runs
                 /\ runs'[req'[q].run] # Absent => runs'[req'[q].run].profile = req'[q].read.profile
      <4>1. req'[q] = req[q]
        BY <1>0, <2>6, <3>2
      <4>2. req[q].run <= used.runs /\ req[q].run \in Run /\ req[q].run # r
        BY <2>7, <3>2, <4>1 DEF Inv, Numbered
      <4> QED
        BY <2>1, <2>5, <3>2, <4>1, <4>2 DEF Inv, Numbered, Run
    <3> QED
      BY <3>1, <3>2 DEF Numbered
  <2>9. \A q \in Run : runs'[q] # Absent => profiles'[runs'[q].profile] # Absent
    BY <1>0, <1>2, <2>3, <2>5 DEF Inv, TypeOK
  <2>10. TypeOK'
    BY <1>0, <2>1, <2>5, <2>6, <2>9 DEF Inv, TypeOK, Used
  <2> QED
    BY <2>1, <2>3, <2>4, <2>8, <2>10 DEF Inv, row
<1> QED
  BY <1>1, <1>2

\* A report arrives: the handler keeps the row it reads.
LEMMA ReportStep ==
  ASSUME Inv, NEW p \in Request, NEW g \in Gateway, NEW r \in Run,
         ReportProgress(p, g, r) \/ ReportResult(p, g, r)
  PROVE  Inv' /\ runs' = runs /\ profiles' = profiles /\ req[p] = Idle
         /\ used'.faults = used.faults
<1>1. PICK report \in Report : SyncRunProgress(p, g, r, report)
  BY SyncAssumption DEF ReportProgress, ReportResult, Report, Finished, Failing
<1>2. used' \in Used /\ used'.runs = used.runs /\ used'.faults = used.faults
  BY SpendReports DEF ReportProgress, ReportResult, Inv, TypeOK, Used, Spend
<1>3. known' \in [Gateway -> SUBSET Run]
  <2>1. known' = known \/ known' = [known EXCEPT ![g] = @ \ {r}]
    BY DEF ReportProgress, ReportResult
  <2> QED
    BY <2>1 DEF Inv, TypeOK
<1> DEFINE m == [op |-> "progress", run |-> r, report |-> report, read |-> runs[r]]
<1>4. runs[r] \in Row /\ runs[r] # Absent
  BY <1>1 DEF SyncRunProgress, Inv, TypeOK
<1>5. m \in Message
  BY <1>4 DEF Message
<1>6. req' = [req EXCEPT ![p] = m] /\ profiles' = profiles /\ runs' = runs /\ alerts' = alerts
      /\ req[p] = Idle
  BY <1>1 DEF SyncRunProgress, Goto
<1>7. m.op = "progress" /\ m.run = r /\ m.read = runs[r]
  OBVIOUS
<1> HIDE DEF m
<1>8. req' \in [Request -> Message] /\ \A q \in Request : req'[q] = IF q = p THEN m ELSE req[q]
  BY <1>5, <1>6 DEF Inv, TypeOK
<1>9. Numbered'
  BY <1>2, <1>4, <1>6, <1>7, <1>8 DEF Inv, Numbered
<1> QED
  BY <1>2, <1>3, <1>6, <1>8, <1>9 DEF Inv, TypeOK, Used

\* A report is written.
LEMMA AppendStep ==
  ASSUME Inv, NEW p \in Request, AppendSyncRunProgress(p)
  PROVE  /\ Inv'
         /\ req[p].op = "progress" /\ req[p].run \in Run /\ NewRow(p) \in Row
         /\ \/ runs[req[p].run] = Absent /\ runs' = runs /\ profiles' = profiles
            \/ /\ runs[req[p].run] \in Row /\ runs' = [runs EXCEPT ![req[p].run] = NewRow(p)]
               /\ runs[req[p].run].profile = NewRow(p).profile
<1> DEFINE r == req[p].run
           pf == req[p].read.profile
           fin == NewRow(p).status \in Finished
           m == IF fin THEN [op |-> "stamp", profile |-> pf, failing |-> NewRow(p).status \in Failing]
                ELSE Idle
<1>1. req[p].op = "progress" /\ r \in Run /\ NewRow(p) \in Row /\ NewRow(p).profile = pf /\ pf \in Profile
      /\ NewRow(p) # Absent
  BY Messages, NewRowType, SyncAssumption DEF AppendSyncRunProgress, Inv, Row
<1>2. Goto(p, m) /\ known' = known /\ alerts' = alerts /\ used' = used
  BY DEF AppendSyncRunProgress
<1>3. m \in Message /\ m.op # "progress"
  BY <1>1 DEF Message, Idle
<1> HIDE DEF m
<1>4. req' \in [Request -> Message] /\ \A q \in Request : req'[q] = IF q = p THEN m ELSE req[q]
  BY <1>2, <1>3 DEF Goto, Inv, TypeOK
<1>5. CASE runs[r] = Absent
  <2>1. runs' = runs /\ profiles' = profiles
    BY <1>5 DEF AppendSyncRunProgress
  <2>2. Numbered'
    BY <1>2, <1>3, <2>1, GotoNumbered
  <2>3. TypeOK'
    BY <1>2, <1>4, <2>1 DEF Inv, TypeOK
  <2> QED
    BY <1>1, <1>5, <2>1, <2>2, <2>3 DEF Inv
<1>6. CASE runs[r] # Absent
  <2>1. runs[r] \in Row /\ runs[r].profile = pf /\ profiles[pf] # Absent
    BY <1>1, <1>6 DEF Inv, TypeOK, Numbered
  <2>2. runs' = [runs EXCEPT ![r] = NewRow(p)]
    BY <1>6 DEF AppendSyncRunProgress
  <2>3. runs' \in [Run -> {Absent} \cup Row]
        /\ \A q \in Run : runs'[q] # Absent => runs[q] # Absent /\ runs'[q].profile = runs[q].profile
    BY <1>1, <1>6, <2>1, <2>2 DEF Inv, TypeOK
  <2>4. profiles[pf] \in ProfileRow /\ Absent \notin ProfileRow
    BY <1>1, <2>1, SyncAssumption DEF Inv, TypeOK
  <2>5. [profiles[pf] EXCEPT !.stamped = @ \ {r}] \in ProfileRow
    BY <2>4 DEF ProfileRow
  <2>6. profiles' = profiles \/ profiles' = [profiles EXCEPT ![pf] = [profiles[pf] EXCEPT !.stamped = @ \ {r}]]
    BY <1>1 DEF AppendSyncRunProgress, Inv, TypeOK
  <2>7. profiles' \in [Profile -> {Absent} \cup ProfileRow]
        /\ \A q \in Profile : profiles[q] # Absent => profiles'[q] # Absent
    BY <1>1, <2>4, <2>5, <2>6 DEF Inv, TypeOK
  <2>8. \A q \in Run : runs[q] # Absent => runs[q].profile \in Profile
    BY DEF Inv, TypeOK, Row
  <2>9. TypeOK'
    BY <1>2, <1>4, <2>3, <2>7, <2>8 DEF Inv, TypeOK
  <2>10. Numbered'
    <3>1. \A q \in Request : req[q].op = "progress" => req[q].run \in Run
      BY Messages DEF Inv
    <3> QED
      BY <1>2, <1>3, <1>4, <2>3, <3>1 DEF Inv, Numbered
  <2> QED
    BY <1>1, <2>1, <2>2, <2>9, <2>10 DEF Inv
<1> QED
  BY <1>5, <1>6

\* The statements that follow a result.
LEMMA StampStep ==
  ASSUME Inv, NEW p \in Request, NEW ok \in BOOLEAN, StampProfile(p, ok)
  PROVE  Inv'
<1> DEFINE pf == req[p].profile
           m == IF req[p].failing THEN [op |-> "alert", profile |-> pf] ELSE Idle
           new == {r \in RunsOf(pf) : runs[r].status \in Finished}
<1>1. pf \in Profile
  BY Messages DEF StampProfile, Inv
<1>2. Goto(p, m) /\ runs' = runs /\ known' = known /\ alerts' = alerts
  BY DEF StampProfile
<1>3. m \in Message /\ m.op # "progress"
  BY <1>1 DEF Message, Idle
<1> HIDE DEF m
<1>4. used' \in Used /\ used'.runs = used.runs
  BY SpendFaults DEF StampProfile, Inv, TypeOK, Used
<1>5. req' \in [Request -> Message] /\ Numbered'
  BY <1>2, <1>3, <1>4, GotoNumbered
<1>6. profiles[pf] # Absent => profiles[pf] \in ProfileRow /\ [profiles[pf] EXCEPT !.stamped = new] \in ProfileRow
  <2>1. new \subseteq Run
    BY DEF RunsOf
  <2> HIDE DEF new
  <2> QED
    BY <1>1, <2>1 DEF Inv, TypeOK, ProfileRow
<1>7. profiles' = profiles
      \/ (profiles[pf] # Absent /\ profiles' = [profiles EXCEPT ![pf] = [profiles[pf] EXCEPT !.stamped = new]])
  BY <1>1 DEF StampProfile, Inv, TypeOK
<1> HIDE DEF new
<1>8. profiles' \in [Profile -> {Absent} \cup ProfileRow]
      /\ \A q \in Profile : profiles[q] # Absent => profiles'[q] # Absent
  BY <1>1, <1>6, <1>7, SyncAssumption DEF Inv, TypeOK
<1>9. \A q \in Run : runs[q] # Absent => runs[q].profile \in Profile
  BY DEF Inv, TypeOK, Row
<1> QED
  BY <1>2, <1>4, <1>5, <1>8, <1>9 DEF Inv, TypeOK, Used

LEMMA AlertStep ==
  ASSUME Inv, NEW p \in Request, maybeAlertConsecutiveFailures(p)
  PROVE  Inv'
<1>1. Idle \in Message /\ Idle.op # "progress"
  BY DEF Message, Idle
<1>2. Goto(p, Idle) /\ profiles' = profiles /\ runs' = runs /\ known' = known /\ used' = used
  BY DEF maybeAlertConsecutiveFailures
<1>3. req' \in [Request -> Message] /\ Numbered'
  BY <1>1, <1>2, GotoNumbered
<1>4. ListSyncRunsForProfile(req[p].profile) \subseteq Run
  BY DEF ListSyncRunsForProfile, RunsOf
<1>5. alerts' \subseteq SUBSET Run
  BY <1>4 DEF maybeAlertConsecutiveFailures, Inv, TypeOK
<1> QED
  BY <1>2, <1>3, <1>5 DEF Inv, TypeOK

LEMMA FailStep ==
  ASSUME Inv, NEW p \in Request, Fail(p)
  PROVE  Inv' /\ used'.faults > 0
<1>1. Idle \in Message /\ Idle.op # "progress"
  BY DEF Message, Idle
<1>2. Goto(p, Idle) /\ profiles' = profiles /\ runs' = runs /\ known' = known /\ alerts' = alerts
  BY DEF Fail
<1>3. used' \in Used /\ used'.runs = used.runs /\ used'.faults > 0
  BY SpendFaults DEF Fail, Inv, TypeOK, Used
<1>4. req' \in [Request -> Message] /\ Numbered'
  BY <1>1, <1>2, <1>3, GotoNumbered
<1> QED
  BY <1>2, <1>3, <1>4 DEF Inv, TypeOK, Used

LEMMA InvStep ==
  ASSUME Inv, [Next]_vars
  PROVE  Inv'
<1>0. Everyone \in Owner
  BY SyncAssumption
<1>1. ASSUME NEW pf \in Profile, DeleteSyncProfile(pf) PROVE Inv'
  BY <1>0, <1>1, EditStep
<1>2. ASSUME NEW p \in Request, Continue(p) PROVE Inv'
  BY <1>2, CreateStep, AppendStep, StampStep, AlertStep DEF Continue
<1>3. ASSUME UNCHANGED vars PROVE Inv'
  BY <1>3 DEF vars, Inv, TypeOK, Numbered
<1> QED
  BY <1>1, <1>2, <1>3, EditStep, AskStep, PollStep, StartStep, ReportStep, FailStep DEF Next

\* The rows of the profiles and the runs, and the handlers in progress, keep their types: no
\* handler writes a run of a profile that is gone.
THEOREM TypeCorrect == Spec => []TypeOK
<1>1. Init => Inv
  BY InitInv
<1>2. Inv /\ [Next]_vars => Inv'
  BY InvStep
<1>3. Inv => TypeOK
  BY DEF Inv
<1> QED
  BY <1>1, <1>2, <1>3, PTL DEF Spec

\* The inductive invariant holds: besides the types, a run has a number below that of the
\* next one to be inserted, so that CreateSyncRun writes over no row.
THEOREM Invariance == Spec => []Inv
<1>1. Init => Inv
  BY InitInv
<1>2. Inv /\ [Next]_vars => Inv'
  BY InvStep
<1> QED
  BY <1>1, <1>2, PTL DEF Spec

-----------------------------------------------------------------------------
(* What the steps do to the rows of the runs.                              *)

LEMMA DeleteRuns ==
  ASSUME NEW pf \in Profile, DeleteSyncProfile(pf)
  PROVE  runs' = [r \in Run |-> IF r \in RunsOf(pf) THEN Absent ELSE runs[r]]
BY DEF DeleteSyncProfile

\* The only steps that write rows of sync_runs.
LEMMA Writers ==
  ASSUME Inv, [Next]_vars, runs' # runs
  PROVE  \/ \E pf \in Profile : DeleteSyncProfile(pf)
         \/ \E g \in Gateway, r \in Run : StartSyncRun(g, r)
         \/ \E p \in Request : CreateSyncRun(p) \/ AppendSyncRunProgress(p)
<1>1. \A pf \in Profile, g \in Owner : ~ CreateSyncProfile(pf, g) /\ ~ UpdateSyncProfile(pf, g)
  BY DEF CreateSyncProfile, UpdateSyncProfile
<1>2. \A p \in Request, pf \in Profile, g \in Gateway : ~ RunSyncProfile(p, pf, g) /\ ~ SyncRunCreate(p, pf, g)
  BY DEF RunSyncProfile, SyncRunCreate
<1>3. \A g \in Gateway : ~ SyncConfig(g) /\ ~ GatewayRestart(g)
  BY DEF SyncConfig, GatewayRestart
<1>4. \A p \in Request, g \in Gateway, r \in Run : ~ ReportProgress(p, g, r) /\ ~ ReportResult(p, g, r)
  BY ReportStep
<1>5. \A p \in Request : ~ Fail(p) /\ ~ maybeAlertConsecutiveFailures(p) /\ \A ok \in BOOLEAN : ~ StampProfile(p, ok)
  BY DEF Fail, maybeAlertConsecutiveFailures, StampProfile
<1>6. ~ UNCHANGED vars
  BY DEF vars
<1> QED
  BY <1>1, <1>2, <1>3, <1>4, <1>5, <1>6 DEF Next, Continue

-----------------------------------------------------------------------------
(* NoLineLost.                                                             *)

LEMMA LineStep ==
  ASSUME Inv, [Next]_vars, NEW r \in Run, runs[r] # Absent, runs'[r] # Absent
  PROVE  \/ runs[r].lines \subseteq runs'[r].lines
         \/ \E p \in Request : Stale(p) /\ req[p].run = r /\ req'[p] # req[p]
<1>1. CASE runs' = runs
  BY <1>1
<1>2. ASSUME NEW pf \in Profile, DeleteSyncProfile(pf) PROVE runs'[r] = runs[r]
  BY <1>2, DeleteRuns
<1>3. ASSUME NEW g \in Gateway, NEW q \in Run, StartSyncRun(g, q) PROVE runs'[r].lines = runs[r].lines
  <2>1. runs[q] \in Row /\ runs'[q] = [runs[q] EXCEPT !.status = "running"]
        /\ (r # q => runs'[r] = runs[r])
    BY <1>3, StartStep DEF Inv, TypeOK
  <2> QED
    BY <2>1 DEF Row
<1>4. ASSUME NEW p \in Request, CreateSyncRun(p) PROVE runs'[r] = runs[r]
  BY <1>4, CreateStep DEF Inv, TypeOK
<1>5. ASSUME NEW p \in Request, AppendSyncRunProgress(p)
      PROVE  runs[r].lines \subseteq runs'[r].lines \/ (Stale(p) /\ req[p].run = r /\ req'[p] # req[p])
  <2>1. CASE r # req[p].run \/ runs' = runs
    BY <1>5, <2>1, AppendStep DEF Inv, TypeOK
  <2>2. CASE r = req[p].run /\ runs' # runs
    <3>1. runs'[r] = NewRow(p) /\ req[p].op = "progress"
      BY <1>5, <2>2, AppendStep DEF Inv, TypeOK
    <3>2. NewRow(p).lines = req[p].read.lines \cup {req[p].report.line}
      BY <3>1, NewRowType DEF Inv
    <3>3. req'[p].op # "progress"
      BY <1>5 DEF AppendSyncRunProgress, Goto, Idle, Inv, TypeOK
    <3>4. CASE Stale(p)
      BY <2>2, <3>1, <3>3, <3>4
    <3>5. CASE ~ Stale(p)
      <4>1. req[p].read = runs[r]
        BY <2>2, <3>1, <3>5 DEF Stale
      <4> QED
        BY <3>1, <3>2, <4>1
    <3> QED
      BY <3>4, <3>5
  <2> QED
    BY <2>1, <2>2
<1> QED
  BY <1>1, <1>2, <1>3, <1>4, <1>5, Writers

\* A line of a run's log is lost only by a report that has read the row before another one
\* wrote it, or with the whole profile, whatever the number of reports at once.
THEOREM NoLineLostThm == Spec => NoLineLost
<1>1. Inv /\ [Next]_vars =>
        [\A r \in Run : runs[r] # Absent /\ runs'[r] # Absent =>
           \/ runs[r].lines \subseteq runs'[r].lines
           \/ \E p \in Request : Stale(p) /\ req[p].run = r /\ req'[p] # req[p]]_vars
  BY LineStep
<1> QED
  BY <1>1, Invariance, PTL DEF Spec, NoLineLost

-----------------------------------------------------------------------------
(* The table and its handlers implement the life cycle.                    *)

Of(rs) == [r \in Run |-> IF rs[r] = Absent THEN Absent ELSE rs[r].profile]
StatusOf(rs) == [r \in Run |-> IF rs[r] = Absent THEN "none" ELSE rs[r].status]

LEMMA LifeDelete ==
  ASSUME Inv, NEW pf \in Profile, DeleteSyncProfile(pf)
  PROVE  Life!Remove
<1> DEFINE gone == RunsOf(pf)
<1>1. gone \in SUBSET Run /\ \A r \in Run : r \in gone <=> runs[r] # Absent /\ runs[r].profile = pf
  BY DEF RunsOf
<1>2. runs' = [r \in Run |-> IF r \in gone THEN Absent ELSE runs[r]]
  BY DeleteRuns
<1> HIDE DEF gone
<1>3. \A r \in Run : runs[r] # Absent => runs[r].profile # Absent
  BY SyncAssumption DEF Inv, TypeOK, Row
<1>4. \A r \in gone, q \in Run : Of(runs)[r] # Absent /\ (Of(runs)[q] = Of(runs)[r] => q \in gone)
  BY <1>1, <1>3 DEF Of
<1>5. Of(runs') = [r \in Run |-> IF r \in gone THEN Absent ELSE Of(runs)[r]]
  BY <1>2 DEF Of
<1>6. StatusOf(runs') = [r \in Run |-> IF r \in gone THEN "none" ELSE StatusOf(runs)[r]]
  BY <1>2 DEF StatusOf
<1> QED
  BY <1>1, <1>4, <1>5, <1>6 DEF Life!Remove, Of, StatusOf

\* The step of one run that exists and keeps its profile.
LEMMA LifeMoves ==
  ASSUME Inv, NEW r \in Run, NEW row \in Row, runs[r] # Absent,
         row.profile = runs[r].profile, runs' = [runs EXCEPT ![r] = row]
  PROVE  Life!Moves(r, row.status)
<1>1. row # Absent /\ runs' \in [Run -> {Absent} \cup Row]
  BY SyncAssumption DEF Inv, TypeOK
<1>2. \A q \in Run : runs'[q] = IF q = r THEN row ELSE runs[q]
  BY DEF Inv, TypeOK
<1>3. Of(runs') = Of(runs)
  BY <1>1, <1>2 DEF Of
<1>4. StatusOf(runs') = [StatusOf(runs) EXCEPT ![r] = row.status]
  BY <1>1, <1>2 DEF StatusOf
<1> QED
  BY <1>3, <1>4 DEF Life!Moves, Of, StatusOf

LEMMA LifeStart ==
  ASSUME Inv, NEW g \in Gateway, NEW r \in Run, StartSyncRun(g, r)
  PROVE  Life!Begin(r)
<1>1. runs[r] # Absent /\ runs[r].status = "pending" /\ runs[r] \in Row
      /\ runs' = [runs EXCEPT ![r] = [runs[r] EXCEPT !.status = "running"]]
      /\ [runs[r] EXCEPT !.status = "running"] \in Row
  BY StartStep DEF StartSyncRun, Inv, TypeOK
<1>2. [runs[r] EXCEPT !.status = "running"].profile = runs[r].profile
      /\ [runs[r] EXCEPT !.status = "running"].status = "running"
  BY <1>1 DEF Row
<1>3. Life!Moves(r, "running")
  BY <1>1, <1>2, LifeMoves
<1> QED
  BY <1>1, <1>3 DEF Life!Begin

LEMMA LifeCreate ==
  ASSUME Inv, NEW p \in Request, CreateSyncRun(p), runs' # runs
  PROVE  \E r \in Run : Life!AskFor(r)
<1>1. PICK r \in Run, row \in Row :
        runs[r] = Absent /\ row.status = "pending" /\ runs' = [runs EXCEPT ![r] = row]
  BY CreateStep
<1>2. row.profile \in Profile /\ row.status = "pending" /\ row # Absent
  BY <1>1, SyncAssumption DEF Row
<1>3. \A q \in Run : runs'[q] = IF q = r THEN row ELSE runs[q]
  BY <1>1 DEF Inv, TypeOK
<1> DEFINE rowProfile == row.profile
<1>4. Of(runs)[r] = Absent /\ Of(runs') = [Of(runs) EXCEPT ![r] = rowProfile]
  <2>1. runs'[r] # Absent /\ runs'[r].profile = rowProfile /\ runs[r] = Absent
    BY <1>1, <1>2, <1>3
  <2>2. \A q \in Run : q # r => runs'[q] = runs[q]
    BY <1>3
  <2> HIDE DEF rowProfile
  <2> QED
    BY <2>1, <2>2 DEF Of
<1>5. StatusOf(runs') = [StatusOf(runs) EXCEPT ![r] = "pending"]
  <2>1. runs'[r] # Absent /\ runs'[r].status = "pending"
    BY <1>2, <1>3
  <2>2. \A q \in Run : q # r => runs'[q] = runs[q]
    BY <1>3
  <2> QED
    BY <2>1, <2>2 DEF StatusOf
<1>6. Life!AskFor(r)
  BY <1>2, <1>4, <1>5 DEF Life!AskFor, Of, StatusOf
<1> QED
  BY <1>1, <1>6

LEMMA LifeAppend ==
  ASSUME Inv, NEW p \in Request, AppendSyncRunProgress(p), runs' # runs
  PROVE  \E r \in Run : Life!Begin(r) \/ Life!End(r) \/ Life!TakeUpAgain(r)
<1>0. PICK r \in Run, row \in Row : r = req[p].run /\ row = NewRow(p)
  BY AppendStep
<1>1. r = req[p].run /\ req[p].op = "progress" /\ runs[r] \in Row
      /\ runs' = [runs EXCEPT ![r] = row] /\ row.profile = runs[r].profile
  BY <1>0, AppendStep
<1>2. runs[r] # Absent /\ runs[r].status \in {"pending", "running"} \cup Finished
  BY <1>1, SyncAssumption DEF Row
<1>3. row.status \in {"running"} \cup Finished
      /\ row.status = NewStatus(req[p].report, req[p].read)
  BY <1>0, <1>1, NewRowType DEF Inv
<1>4. Life!Moves(r, row.status)
  BY <1>1, <1>2, LifeMoves
<1>5. CASE row.status \in Finished
  <2>1. Life!End(r)
    BY <1>1, <1>2, <1>4, <1>5 DEF Life!End, Finished, Failing
  <2> QED
    BY <2>1
<1>6. CASE row.status = "running" /\ runs[r].status \in {"pending", "running"}
  <2>1. Life!Begin(r)
    BY <1>1, <1>2, <1>4, <1>6 DEF Life!Begin
  <2> QED
    BY <2>1
<1>7. CASE row.status = "running" /\ runs[r].status \in Finished
  <2>1. Stale(p) \/ req[p].report.status = "running"
    BY <1>1, <1>3, <1>7 DEF Stale, NewStatus, Finished, Failing
  <2>2. r \in HeldBack
    BY <1>1, <2>1 DEF HeldBack
  <2>3. Life!TakeUpAgain(r)
    BY <1>1, <1>2, <1>4, <1>7, <2>2 DEF Life!TakeUpAgain
  <2> QED
    BY <2>3
<1> QED
  BY <1>2, <1>3, <1>5, <1>6, <1>7

LEMMA LifeStep ==
  ASSUME Inv, [Next]_vars
  PROVE  [Life!Next]_Life!vars
<1>1. HeldBack' \in SUBSET Run
  BY DEF HeldBack
<1>2. CASE runs' = runs
  <2>1. UNCHANGED <<Of(runs), StatusOf(runs)>>
    BY <1>2 DEF Of, StatusOf
  <2> QED
    BY <1>1, <2>1 DEF Life!Next, Of, StatusOf
<1>3. CASE runs' # runs
  BY <1>1, <1>3, Writers, LifeDelete, LifeStart, LifeCreate, LifeAppend DEF Life!Next
<1> QED
  BY <1>2, <1>3

\* The table sync_runs with its handlers implements the life cycle of runs: the initial
\* states map to its initial state, and every step to one of its steps or a stutter.
THEOREM FollowsLifeCycleThm == Spec => FollowsLifeCycle
<1>1. Init => Life!Init
  BY DEF Init, Life!Init, HeldBack, Idle
<1>2. Inv /\ [Next]_vars => [Life!Next]_Life!vars
  BY LifeStep
<1> QED
  BY <1>1, <1>2, Invariance, PTL DEF Spec, FollowsLifeCycle, Life!Spec

-----------------------------------------------------------------------------
(* LastRunCovers.  A handler that is past the stamp covers nothing any     *)
(* more: the inductive invariant counts on those before it only.           *)

Stamping(pf) == \E p \in Request : req[p].op = "stamp" /\ req[p].profile = pf

Covers ==
  \A r \in Run : runs[r] # Absent /\ runs[r].status \in Finished =>
    \/ r \in profiles[runs[r].profile].stamped
    \/ Stamping(runs[r].profile)
    \/ used.faults > 0

\* Faults are not forgotten.
LEMMA FaultsStay ==
  ASSUME Inv, [Next]_vars, used.faults > 0
  PROVE  used'.faults > 0
<1>1. used \in Used
  BY DEF Inv, TypeOK, Used
<1>2. ASSUME NEW what \in {"asked", "runs", "edits", "reports"}, NEW bound, Spend(what, bound)
      PROVE  used'.faults = used.faults
  BY <1>1, <1>2 DEF Spend, Used
<1>3. Spend("faults", MaxFaults) => used'.faults > 0
  BY <1>1, SpendFaults
<1>4. used' = used \/ Spend("asked", MaxRuns) \/ Spend("runs", MaxRuns) \/ Spend("edits", MaxEdits)
      \/ Spend("reports", MaxReports) \/ Spend("faults", MaxFaults)
  BY DEF Next, vars, CreateSyncProfile, UpdateSyncProfile, DeleteSyncProfile, RunSyncProfile, SyncRunCreate,
         SyncConfig, GatewayRestart, StartSyncRun, ReportProgress, ReportResult, Continue,
         CreateSyncRun, AppendSyncRunProgress, StampProfile, maybeAlertConsecutiveFailures, Fail
<1> QED
  BY <1>2, <1>3, <1>4

LEMMA CoversStep ==
  ASSUME Inv, Covers, [Next]_vars
  PROVE  Covers'
<1> SUFFICES ASSUME NEW r \in Run, runs'[r] # Absent, runs'[r].status \in Finished, ~ (used'.faults > 0)
             PROVE  r \in profiles'[runs'[r].profile].stamped \/ Stamping(runs[r].profile)'
  BY DEF Covers, Stamping
<1>0. Inv' /\ ~ (used.faults > 0)
  BY InvStep, FaultsStay
<1>K. \A q \in Run : runs[q] # Absent => runs[q] \in Row /\ runs[q].profile \in Profile
                                         /\ profiles[runs[q].profile] # Absent
  BY DEF Inv, TypeOK, Row
<1>C. runs'[r] = runs[r] => r \in profiles[runs[r].profile].stamped \/ Stamping(runs[r].profile)
  BY <1>0 DEF Covers
<1>1. ASSUME NEW pf \in Profile, NEW g \in Owner, CreateSyncProfile(pf, g) \/ UpdateSyncProfile(pf, g)
      PROVE  r \in profiles'[runs'[r].profile].stamped \/ Stamping(runs[r].profile)'
  <2>1. runs' = runs /\ req' = req
    BY <1>1 DEF CreateSyncProfile, UpdateSyncProfile
  <2>2. ASSUME NEW q \in Profile, profiles[q] # Absent PROVE profiles'[q].stamped = profiles[q].stamped
    <3>1. profiles[q] \in ProfileRow
      BY <2>2 DEF Inv, TypeOK
    <3> QED
      BY <1>1, <2>2, <3>1 DEF CreateSyncProfile, UpdateSyncProfile, Inv, TypeOK, ProfileRow
  <2> QED
    BY <1>K, <1>C, <2>1, <2>2 DEF Stamping
<1>2. ASSUME NEW pf \in Profile, DeleteSyncProfile(pf)
      PROVE  r \in profiles'[runs'[r].profile].stamped \/ Stamping(runs[r].profile)'
  <2>1. runs'[r] = runs[r] /\ runs[r].profile # pf /\ req' = req
    BY <1>2, DeleteRuns DEF RunsOf, DeleteSyncProfile
  <2>2. profiles'[runs[r].profile] = profiles[runs[r].profile]
    BY <1>2, <1>K, <2>1 DEF DeleteSyncProfile, Inv, TypeOK
  <2> QED
    BY <1>C, <2>1, <2>2 DEF Stamping
<1>3. ASSUME NEW p \in Request, NEW pf \in Profile, NEW g \in Gateway,
             RunSyncProfile(p, pf, g) \/ SyncRunCreate(p, pf, g)
      PROVE  r \in profiles'[runs'[r].profile].stamped \/ Stamping(runs[r].profile)'
  <2>1. runs' = runs /\ profiles' = profiles /\ req[p].op # "stamp"
        /\ Goto(p, [op |-> "create", profile |-> pf, gw |-> g])
    BY <1>3 DEF RunSyncProfile, SyncRunCreate, Idle
  <2>2. Stamping(runs[r].profile) => Stamping(runs[r].profile)'
    BY <2>1 DEF Stamping, Goto, Inv, TypeOK
  <2> QED
    BY <1>C, <2>1, <2>2
<1>4. ASSUME NEW g \in Gateway, NEW q \in Run, StartSyncRun(g, q)
      PROVE  r \in profiles'[runs'[r].profile].stamped \/ Stamping(runs[r].profile)'
  <2>1. profiles' = profiles /\ req' = req
    BY <1>4 DEF StartSyncRun
  <2>2. runs'[r] = runs[r]
    <3>1. runs[q] \in Row /\ runs'[q] = [runs[q] EXCEPT !.status = "running"] /\ (r # q => runs'[r] = runs[r])
      BY <1>4, StartStep DEF Inv, TypeOK
    <3>2. runs'[q].status = "running"
      BY <3>1 DEF Row
    <3> QED
      BY <3>1, <3>2 DEF Finished, Failing
  <2> QED
    BY <1>C, <2>1, <2>2 DEF Stamping
<1>5. ASSUME NEW p \in Request, NEW g \in Gateway, NEW q \in Run,
             ReportProgress(p, g, q) \/ ReportResult(p, g, q)
      PROVE  r \in profiles'[runs'[r].profile].stamped \/ Stamping(runs[r].profile)'
  <2>1. runs' = runs /\ profiles' = profiles /\ req[p].op # "stamp"
    BY <1>5, ReportStep DEF Idle
  <2>2. \A n \in Request : n # p => req'[n] = req[n]
    BY <1>5 DEF ReportProgress, ReportResult, SyncRunProgress, Goto, Inv, TypeOK
  <2> QED
    BY <1>C, <2>1, <2>2 DEF Stamping
<1>6. ASSUME NEW p \in Request, CreateSyncRun(p)
      PROVE  r \in profiles'[runs'[r].profile].stamped \/ Stamping(runs[r].profile)'
  <2>1. profiles' = profiles /\ req[p].op # "stamp" /\ Goto(p, Idle)
    BY <1>6 DEF CreateSyncRun
  <2>2. runs'[r] = runs[r]
    <3>1. CASE runs' = runs
      BY <3>1
    <3>2. ASSUME NEW q \in Run, NEW row \in Row, row.status = "pending", runs' = [runs EXCEPT ![q] = row]
          PROVE  runs'[r] = runs[r]
      <4>1. runs'[q] = row /\ (r # q => runs'[r] = runs[r])
        BY <3>2 DEF Inv, TypeOK
      <4> QED
        BY <3>2, <4>1 DEF Finished, Failing
    <3> QED
      BY <1>6, <3>1, <3>2, CreateStep
  <2>3. Stamping(runs[r].profile) => Stamping(runs[r].profile)'
    BY <2>1, <2>2 DEF Stamping, Goto, Inv, TypeOK
  <2> QED
    BY <1>C, <2>1, <2>2, <2>3
<1>7. ASSUME NEW p \in Request, AppendSyncRunProgress(p)
      PROVE  r \in profiles'[runs'[r].profile].stamped \/ Stamping(runs[r].profile)'
  <2>1. req[p].op = "progress" /\ req[p].run \in Run /\ \A n \in Request : n # p => req'[n] = req[n]
    BY <1>7, AppendStep DEF AppendSyncRunProgress, Goto, Inv, TypeOK
  <2>2. CASE runs' = runs /\ profiles' = profiles
    BY <1>C, <2>1, <2>2 DEF Stamping
  <2>3. CASE runs[req[p].run] \in Row /\ runs' = [runs EXCEPT ![req[p].run] = NewRow(p)]
             /\ runs[req[p].run].profile = NewRow(p).profile /\ runs[req[p].run] # Absent
    <3>1. CASE r = req[p].run
      <4>1. runs'[r] = NewRow(p) /\ runs'[r].profile = req[p].read.profile
        BY <2>1, <2>3, <3>1, NewRowType DEF Inv, TypeOK
      <4>2. req'[p] = [op |-> "stamp", profile |-> req[p].read.profile, failing |-> NewRow(p).status \in Failing]
        BY <1>7, <2>1, <4>1 DEF AppendSyncRunProgress, Goto, Inv, TypeOK
      <4>3. req'[p].op = "stamp" /\ req'[p].profile = runs'[r].profile
        BY <4>1, <4>2
      <4> QED
        BY <4>3 DEF Stamping
    <3>2. CASE r # req[p].run
      <4>1. runs'[r] = runs[r]
        BY <2>3, <3>2 DEF Inv, TypeOK
      <4>2. profiles[runs[r].profile] \in ProfileRow
        BY <1>K, <4>1 DEF Inv, TypeOK
      <4>3. profiles' = profiles
            \/ profiles' = [profiles EXCEPT ![req[p].read.profile].stamped = @ \ {req[p].run}]
        BY <1>7 DEF AppendSyncRunProgress
      <4>4. r \in profiles[runs[r].profile].stamped => r \in profiles'[runs[r].profile].stamped
        BY <1>K, <3>2, <4>1, <4>2, <4>3 DEF Inv, TypeOK, ProfileRow
      <4> QED
        BY <1>C, <2>1, <4>1, <4>4 DEF Stamping
    <3> QED
      BY <3>1, <3>2
  <2> QED
    BY <1>7, <2>2, <2>3, AppendStep, SyncAssumption
<1>8. ASSUME NEW p \in Request, NEW ok \in BOOLEAN, StampProfile(p, ok)
      PROVE  r \in profiles'[runs'[r].profile].stamped \/ Stamping(runs[r].profile)'
  <2>1. ok /\ runs' = runs /\ req[p].op = "stamp" /\ req[p].profile \in Profile
        /\ \A n \in Request : n # p => req'[n] = req[n]
    BY <1>8, SpendFaults, Messages DEF StampProfile, Goto, Inv, TypeOK, Used
  <2>2. CASE runs[r].profile = req[p].profile
    <3>1. profiles[req[p].profile] \in ProfileRow /\ profiles[req[p].profile] # Absent
      BY <1>K, <2>1, <2>2 DEF Inv, TypeOK
    <3>2. profiles' = [profiles EXCEPT ![req[p].profile].stamped =
                         {q \in RunsOf(req[p].profile) : runs[q].status \in Finished}]
      BY <1>8, <2>1, <3>1 DEF StampProfile
    <3>3. profiles'[req[p].profile].stamped = {q \in RunsOf(req[p].profile) : runs[q].status \in Finished}
      BY <2>1, <3>1, <3>2 DEF Inv, TypeOK, ProfileRow
    <3> QED
      BY <2>1, <2>2, <3>3 DEF RunsOf
  <2>3. CASE runs[r].profile # req[p].profile
    <3>1. profiles'[runs[r].profile] = profiles[runs[r].profile]
      BY <1>8, <1>K, <2>1, <2>3 DEF StampProfile, Inv, TypeOK
    <3> QED
      BY <1>C, <2>1, <2>3, <3>1 DEF Stamping
  <2> QED
    BY <2>2, <2>3
<1>9. ASSUME NEW p \in Request, maybeAlertConsecutiveFailures(p)
      PROVE  r \in profiles'[runs'[r].profile].stamped \/ Stamping(runs[r].profile)'
  <2>1. runs' = runs /\ profiles' = profiles /\ req[p].op # "stamp"
        /\ \A n \in Request : n # p => req'[n] = req[n]
    BY <1>9 DEF maybeAlertConsecutiveFailures, Goto, Inv, TypeOK
  <2> QED
    BY <1>C, <2>1 DEF Stamping
<1>10. ASSUME NEW g \in Gateway, SyncConfig(g) \/ GatewayRestart(g)
       PROVE  r \in profiles'[runs'[r].profile].stamped \/ Stamping(runs[r].profile)'
  BY <1>C, <1>10 DEF SyncConfig, GatewayRestart, Stamping
<1>11. ASSUME NEW p \in Request, Fail(p) PROVE FALSE
  BY <1>11, FailStep
<1>12. ASSUME UNCHANGED vars PROVE r \in profiles'[runs'[r].profile].stamped \/ Stamping(runs[r].profile)'
  BY <1>C, <1>12 DEF vars, Stamping
<1> QED
  BY <1>1, <1>2, <1>3, <1>4, <1>5, <1>6, <1>7, <1>8, <1>9, <1>10, <1>11, <1>12 DEF Next, Continue

\* last_run_at is never before the end of a finished run unless a handler is still to stamp
\* the profile or was cut short, for any number of reports, edits and profiles.
THEOREM LastRunCoversThm == Spec => []LastRunCovers
<1>1. Init => Covers
  BY DEF Init, Covers
<1>2. Inv /\ Covers /\ [Next]_vars => Covers'
  BY CoversStep
<1>3. Inv /\ Covers => LastRunCovers
  BY DEF Covers, LastRunCovers, RunsOf, InProgress, Stamping
<1> QED
  BY <1>1, <1>2, <1>3, Invariance, PTL DEF Spec

-----------------------------------------------------------------------------
(* AlertRaised.  As before, only the handlers that are still to look at    *)
(* the latest runs count.                                                  *)

Alerting(pf) ==
  \E p \in Request :
    /\ req[p].op = "alert" \/ (req[p].op = "stamp" /\ req[p].failing)
    /\ req[p].profile = pf

Latest(pf) == ListSyncRunsForProfile(pf)

Alerted ==
  \A pf \in Profile : AllFailing(Latest(pf)) =>
    Latest(pf) \in alerts \/ Alerting(pf) \/ used.faults > 0

\* The latest runs depend on which runs there are only.
LEMMA LatestSame ==
  ASSUME NEW pf \in Profile, RunsOf(pf)' = RunsOf(pf)
  PROVE  Latest(pf)' = Latest(pf)
BY DEF Latest, ListSyncRunsForProfile

LEMMA LatestRuns ==
  ASSUME NEW pf \in Profile, NEW r \in Latest(pf)
  PROVE  r \in Run /\ runs[r] # Absent /\ runs[r].profile = pf
BY DEF Latest, ListSyncRunsForProfile, RunsOf

\* Where the rows of the latest runs stay as they are, so does the alert.
LEMMA SameLatest ==
  ASSUME Alerted, NEW pf \in Profile, RunsOf(pf)' = RunsOf(pf),
         \A r \in Latest(pf) : runs'[r].status = runs[r].status,
         alerts \subseteq alerts', AllFailing(Latest(pf))', ~ (used.faults > 0),
         Alerting(pf) => Alerting(pf)'
  PROVE  Latest(pf)' \in alerts' \/ Alerting(pf)'
<1>1. Latest(pf)' = Latest(pf)
  BY LatestSame
<1>2. AllFailing(Latest(pf))
  BY <1>1 DEF AllFailing
<1> QED
  BY <1>1, <1>2 DEF Alerted

\* A step that leaves the handlers that are still to look alone.
LEMMA AlertingStays ==
  ASSUME NEW pf \in Profile, NEW p \in Request, req[p].op # "alert", req[p].op # "stamp",
         \A n \in Request : n # p => req'[n] = req[n]
  PROVE  Alerting(pf) => Alerting(pf)'
BY DEF Alerting

\* The newest run of a set is one of its latest, whatever the threshold.
LEMMA NewestIsLatest ==
  ASSUME NEW S \in SUBSET Run, NEW r \in S, \A q \in S : q <= r
  PROVE  Cardinality({q \in S : q >= r}) <= syncConsecutiveFailureThreshold
<1>1. S \subseteq Int
  BY DEF Run
<1>2. {q \in S : q >= r} = {r}
  <2>1. ASSUME NEW q \in S PROVE q >= r <=> q = r
    <3>1. q \in Int /\ r \in Int /\ q <= r
      BY <1>1
    <3> QED
      BY <3>1
  <2> QED
    BY <2>1
<1>3. Cardinality({r}) = 1
  BY FS_Singleton
<1>4. 1 <= syncConsecutiveFailureThreshold
  BY SyncAssumption
<1> QED
  BY <1>2, <1>3, <1>4

LEMMA AlertedStep ==
  ASSUME Inv, Alerted, [Next]_vars
  PROVE  Alerted'
<1> SUFFICES ASSUME NEW pf \in Profile, AllFailing(Latest(pf))', ~ (used'.faults > 0)
             PROVE  Latest(pf)' \in alerts' \/ Alerting(pf)'
  BY DEF Alerted
<1>0. Inv' /\ ~ (used.faults > 0)
  BY InvStep, FaultsStay
<1>S. ASSUME runs' = runs, alerts \subseteq alerts', Alerting(pf) => Alerting(pf)'
      PROVE  Latest(pf)' \in alerts' \/ Alerting(pf)'
  <2>1. RunsOf(pf)' = RunsOf(pf)
    BY <1>S DEF RunsOf
  <2> QED
    BY <1>0, <1>S, <2>1, SameLatest
<1>1. ASSUME NEW g, NEW q \in Profile, CreateSyncProfile(q, g) \/ UpdateSyncProfile(q, g)
      PROVE  Latest(pf)' \in alerts' \/ Alerting(pf)'
  BY <1>S, <1>1 DEF CreateSyncProfile, UpdateSyncProfile, Alerting
<1>2. ASSUME NEW q \in Profile, DeleteSyncProfile(q)
      PROVE  Latest(pf)' \in alerts' \/ Alerting(pf)'
  <2>1. runs' = [r \in Run |-> IF r \in RunsOf(q) THEN Absent ELSE runs[r]] /\ req' = req /\ alerts' = alerts
    BY <1>2, DeleteRuns DEF DeleteSyncProfile
  <2>2. CASE q = pf
    <3>1. RunsOf(pf)' = {}
      BY <2>1, <2>2 DEF RunsOf
    <3>2. Latest(pf)' = {}
      BY <3>1 DEF Latest, ListSyncRunsForProfile
    <3>3. Cardinality({}) = 0
      BY FS_EmptySet
    <3>4. FALSE
      BY <3>2, <3>3, SyncAssumption DEF AllFailing
    <3> QED
      BY <3>4
  <2>3. CASE q # pf
    <3>1. \A r \in RunsOf(pf) : runs'[r] = runs[r]
      BY <2>1, <2>3 DEF RunsOf
    <3>2. RunsOf(pf)' = RunsOf(pf)
      BY <2>1, <2>3 DEF RunsOf
    <3>3. \A r \in Latest(pf) : runs'[r].status = runs[r].status
      BY <3>1 DEF Latest, ListSyncRunsForProfile
    <3> QED
      BY <1>0, <2>1, <3>2, <3>3, SameLatest DEF Alerting
  <2> QED
    BY <2>2, <2>3
<1>3. ASSUME NEW p \in Request, NEW q \in Profile, NEW g \in Gateway,
             RunSyncProfile(p, q, g) \/ SyncRunCreate(p, q, g)
      PROVE  Latest(pf)' \in alerts' \/ Alerting(pf)'
  <2>1. runs' = runs /\ alerts' = alerts /\ req[p].op = "idle" /\ \A n \in Request : n # p => req'[n] = req[n]
    BY <1>3 DEF RunSyncProfile, SyncRunCreate, Goto, Idle, Inv, TypeOK
  <2> QED
    BY <1>S, <2>1, AlertingStays
<1>4. ASSUME NEW g \in Gateway, NEW q \in Run, StartSyncRun(g, q)
      PROVE  Latest(pf)' \in alerts' \/ Alerting(pf)'
  <2>1. runs[q] \in Row /\ runs'[q] = [runs[q] EXCEPT !.status = "running"]
        /\ \A r \in Run : r # q => runs'[r] = runs[r]
    BY <1>4, StartStep DEF Inv, TypeOK
  <2>2. runs'[q].status = "running" /\ runs'[q].profile = runs[q].profile /\ runs'[q] \in Row
        /\ runs[q] # Absent /\ runs'[q] # Absent
    BY <1>4, <2>1, SyncAssumption, StartStep DEF Row, StartSyncRun
  <2>3. RunsOf(pf)' = RunsOf(pf)
    BY <2>1, <2>2 DEF RunsOf
  <2>4. q \notin Latest(pf)
    BY <2>2, <2>3, LatestSame DEF AllFailing, Failing
  <2>5. \A r \in Latest(pf) : runs'[r].status = runs[r].status
    BY <2>1, <2>4, LatestRuns
  <2>6. alerts' = alerts /\ req' = req
    BY <1>4 DEF StartSyncRun
  <2> QED
    BY <1>0, <2>3, <2>5, <2>6, SameLatest DEF Alerting
<1>5. ASSUME NEW p \in Request, NEW g \in Gateway, NEW q \in Run,
             ReportProgress(p, g, q) \/ ReportResult(p, g, q)
      PROVE  Latest(pf)' \in alerts' \/ Alerting(pf)'
  <2>1. runs' = runs /\ req[p].op = "idle"
    BY <1>5, ReportStep DEF Idle
  <2>2. alerts' = alerts /\ \A n \in Request : n # p => req'[n] = req[n]
    BY <1>5 DEF ReportProgress, ReportResult, SyncRunProgress, Goto, Inv, TypeOK
  <2> QED
    BY <1>S, <2>1, <2>2, AlertingStays
<1>6. ASSUME NEW p \in Request, CreateSyncRun(p)
      PROVE  Latest(pf)' \in alerts' \/ Alerting(pf)'
  <2>1. alerts' = alerts /\ req[p].op = "create" /\ \A n \in Request : n # p => req'[n] = req[n]
    BY <1>6 DEF CreateSyncRun, Goto, Inv, TypeOK
  <2>2. Alerting(pf) => Alerting(pf)'
    BY <2>1, AlertingStays
  <2>3. CASE runs' = runs
    BY <1>S, <2>1, <2>2, <2>3
  <2>4. ASSUME NEW q \in Run, NEW row \in Row, row.status = "pending", runs' = [runs EXCEPT ![q] = row],
               q = used.runs + 1, runs[q] = Absent
        PROVE  Latest(pf)' \in alerts' \/ Alerting(pf)'
    <3>1. row # Absent /\ runs'[q] = row /\ \A r \in Run : r # q => runs'[r] = runs[r]
      BY <2>4, SyncAssumption DEF Inv, TypeOK
    <3>2. CASE row.profile = pf
      <4>1. q \in RunsOf(pf)' /\ used.runs \in Nat
        BY <3>1, <3>2 DEF RunsOf, Inv, TypeOK
      <4>2. \A r \in RunsOf(pf)' : r <= q
        BY <2>4, <3>1, <4>1 DEF RunsOf, Inv, Numbered, Run
      <4>3. q \in Latest(pf)'
        <5>1. RunsOf(pf)' \subseteq Run
          BY DEF RunsOf
        <5>2. Cardinality({r \in RunsOf(pf)' : r >= q}) <= syncConsecutiveFailureThreshold
          BY <4>1, <4>2, <5>1, NewestIsLatest
        <5> QED
          BY <4>1, <5>2 DEF Latest, ListSyncRunsForProfile
      <4>4. FALSE
        BY <2>4, <3>1, <4>3 DEF AllFailing, Failing
      <4> QED
        BY <4>4
    <3>3. CASE row.profile # pf
      <4>1. RunsOf(pf)' = RunsOf(pf) /\ q \notin RunsOf(pf)
        BY <2>4, <3>1, <3>3 DEF RunsOf
      <4>2. \A r \in Latest(pf) : runs'[r].status = runs[r].status
        BY <3>1, <4>1 DEF Latest, ListSyncRunsForProfile, RunsOf
      <4> QED
        BY <1>0, <2>1, <2>2, <4>1, <4>2, SameLatest
    <3> QED
      BY <3>2, <3>3
  <2> QED
    BY <1>6, <2>3, <2>4, CreateStep
<1>7. ASSUME NEW p \in Request, AppendSyncRunProgress(p)
      PROVE  Latest(pf)' \in alerts' \/ Alerting(pf)'
  <2>1. req[p].op = "progress" /\ alerts' = alerts /\ \A n \in Request : n # p => req'[n] = req[n]
    BY <1>7 DEF AppendSyncRunProgress, Goto, Inv, TypeOK
  <2>2. Alerting(pf) => Alerting(pf)'
    BY <2>1, AlertingStays
  <2>3. CASE runs' = runs
    BY <1>S, <2>1, <2>2, <2>3
  <2>4. CASE runs' # runs
    <3> DEFINE q == req[p].run
               row == NewRow(p)
    <3>1. q \in Run /\ row \in Row /\ row.profile = runs[q].profile /\ runs[q] \in Row
          /\ runs' = [runs EXCEPT ![q] = row] /\ row.profile = req[p].read.profile
      BY <1>7, <2>1, <2>4, AppendStep, NewRowType DEF Inv
    <3> HIDE DEF q, row
    <3>2. row # Absent /\ runs[q] # Absent /\ runs'[q] = row /\ \A r \in Run : r # q => runs'[r] = runs[r]
      BY <3>1, SyncAssumption DEF Inv, TypeOK
    <3>3. RunsOf(pf)' = RunsOf(pf)
      <4>1. \A r \in Run : (runs'[r] # Absent /\ runs'[r].profile = pf) <=> (runs[r] # Absent /\ runs[r].profile = pf)
        BY <3>1, <3>2
      <4> QED
        BY <4>1 DEF RunsOf
    <3>4. CASE row.profile = pf /\ row.status \in Failing
      <4>1. req'[p] = [op |-> "stamp", profile |-> req[p].read.profile, failing |-> TRUE]
        BY <1>7, <3>4 DEF AppendSyncRunProgress, Goto, Inv, TypeOK, Finished, row
      <4>2. Alerting(pf)'
        BY <3>1, <3>4, <4>1 DEF Alerting
      <4> QED
        BY <4>2
    <3>5. CASE ~ (row.profile = pf /\ row.status \in Failing)
      <4>1. q \notin Latest(pf)
        <5>1. q \in Latest(pf) => row.profile = pf
          BY <3>1, LatestRuns
        <5>2. q \in Latest(pf) => row.status \in Failing
          BY <3>2, <3>3, LatestSame DEF AllFailing
        <5> QED
          BY <3>5, <5>1, <5>2
      <4>2. \A r \in Latest(pf) : runs'[r].status = runs[r].status
        BY <3>2, <4>1, LatestRuns
      <4> QED
        BY <1>0, <2>1, <2>2, <3>3, <4>2, SameLatest
    <3> QED
      BY <3>4, <3>5
  <2> QED
    BY <2>3, <2>4
<1>8. ASSUME NEW p \in Request, NEW ok \in BOOLEAN, StampProfile(p, ok)
      PROVE  Latest(pf)' \in alerts' \/ Alerting(pf)'
  <2>1. runs' = runs /\ alerts' = alerts /\ req[p].op = "stamp" /\ \A n \in Request : n # p => req'[n] = req[n]
    BY <1>8 DEF StampProfile, Goto, Inv, TypeOK
  <2>2. ASSUME NEW n \in Request, req[n].op = "alert" \/ (req[n].op = "stamp" /\ req[n].failing),
               req[n].profile = pf
        PROVE  Alerting(pf)'
    <3>1. CASE n # p
      BY <2>1, <2>2, <3>1 DEF Alerting
    <3>2. CASE n = p
      <4>1. req[p].failing /\ req[p].profile = pf
        BY <2>1, <2>2, <3>2
      <4>2. req'[p] = [op |-> "alert", profile |-> req[p].profile]
        BY <1>8, <4>1 DEF StampProfile, Goto, Inv, TypeOK
      <4>3. req'[p].op = "alert" /\ req'[p].profile = pf
        BY <4>1, <4>2
      <4> QED
        BY <4>3 DEF Alerting
    <3> QED
      BY <3>1, <3>2
  <2>3. Alerting(pf) => Alerting(pf)'
    BY <2>2 DEF Alerting
  <2> QED
    BY <1>S, <2>1, <2>3
<1>9. ASSUME NEW p \in Request, maybeAlertConsecutiveFailures(p)
      PROVE  Latest(pf)' \in alerts' \/ Alerting(pf)'
  <2>1. runs' = runs /\ alerts \subseteq alerts' /\ req[p].op = "alert" /\ \A n \in Request : n # p => req'[n] = req[n]
    BY <1>9 DEF maybeAlertConsecutiveFailures, Goto, Inv, TypeOK
  <2>2. CASE req[p].profile # pf
    <3>1. Alerting(pf) => Alerting(pf)'
      BY <2>1, <2>2 DEF Alerting
    <3> QED
      BY <1>S, <2>1, <3>1
  <2>3. CASE req[p].profile = pf
    <3>1. RunsOf(pf)' = RunsOf(pf)
      BY <2>1 DEF RunsOf
    <3>2. Latest(pf)' = Latest(pf) /\ AllFailing(Latest(pf))
      BY <2>1, <3>1, LatestSame DEF AllFailing
    <3>3. Latest(pf) \in alerts'
      BY <1>9, <2>3, <3>2 DEF maybeAlertConsecutiveFailures, Latest
    <3> QED
      BY <3>2, <3>3
  <2> QED
    BY <2>2, <2>3
<1>10. ASSUME NEW g \in Gateway, SyncConfig(g) \/ GatewayRestart(g)
       PROVE  Latest(pf)' \in alerts' \/ Alerting(pf)'
  BY <1>S, <1>10 DEF SyncConfig, GatewayRestart, Alerting
<1>11. ASSUME NEW p \in Request, Fail(p) PROVE FALSE
  BY <1>11, FailStep
<1>12. ASSUME UNCHANGED vars PROVE Latest(pf)' \in alerts' \/ Alerting(pf)'
  BY <1>S, <1>12 DEF vars, Alerting
<1> QED
  BY <1>1, <1>2, <1>3, <1>4, <1>5, <1>6, <1>7, <1>8, <1>9, <1>10, <1>11, <1>12 DEF Next, Continue

\* An alert is logged whenever the latest runs of a profile have all failed or ended
\* partially, for any threshold, any number of runs and any order of the reports, unless a
\* handler is still to look at them or was cut short.
THEOREM AlertRaisedThm == Spec => []AlertRaised
<1>1. Init => Alerted
  <2> SUFFICES ASSUME Init, NEW pf \in Profile, AllFailing(Latest(pf)) PROVE FALSE
    BY DEF Alerted
  <2>1. Latest(pf) = {}
    BY DEF Init, Latest, ListSyncRunsForProfile, RunsOf
  <2>2. Cardinality({}) = 0
    BY FS_EmptySet
  <2> QED
    BY <2>1, <2>2, SyncAssumption DEF AllFailing
<1>2. Inv /\ Alerted /\ [Next]_vars => Alerted'
  BY AlertedStep
<1>3. Alerted => AlertRaised
  BY DEF Alerted, AlertRaised, AllFailing, Latest, InProgress, Alerting
<1> QED
  BY <1>1, <1>2, <1>3, Invariance, PTL DEF Spec

=============================================================================
