------------------------- MODULE CloudActionsProofs -------------------------
(***************************************************************************)
(* Proofs that CloudActions has its safety properties for every number of  *)
(* commands, machines and pollers, every Limit and every number of failed  *)
(* statements.                                                             *)
(***************************************************************************)
EXTENDS CloudActions, Integers, FiniteSetTheorems, WellFoundedInduction, TLAPS

USE QueueAssumption

-----------------------------------------------------------------------------
(* Facts about numbers and about the operators of the model.               *)

\* Every non-empty set of naturals has a least element.
LEMMA NatMin ==
  ASSUME NEW S \in SUBSET Nat, S # {}
  PROVE  \E x \in S : \A y \in S : x <= y
<1> DEFINE R == OpToRel(<, Nat)
<1>1. IsWellFoundedOn(R, Nat)
  BY NatLessThanWellFounded
<1>2. \A T : T \subseteq Nat /\ T # {} => \E x \in T : \A y \in T : ~(<<y, x>> \in R)
  BY <1>1, WFMin
<1>3. \A x, y \in Nat : <<y, x>> \in R <=> y < x
  BY DEF OpToRel
<1> HIDE DEF R
<1>4. PICK x \in S : \A y \in S : ~(<<y, x>> \in R)
  BY <1>2
<1>5. \A y \in S : ~ (y < x)
  BY <1>3, <1>4
<1> QED
  BY <1>5

\* A set of rows whose ranks are bounded has a youngest row: the row a merged run
\* is named after exists.
LEMMA YoungestExists ==
  ASSUME NEW f \in [Guid -> Nat], NEW n \in Nat, \A g \in Guid : f[g] <= n,
         NEW S \in SUBSET Guid, S # {}
  PROVE  \E x \in S : \A y \in S : f[y] <= f[x]
<1> DEFINE D == {n - f[g] : g \in S}
<1>1. D \in SUBSET Nat /\ D # {}
  OBVIOUS
<1>2. PICK d \in D : \A e \in D : d <= e
  BY <1>1, NatMin
<1>3. PICK x \in S : d = n - f[x]
  BY <1>2
<1>4. \A y \in S : f[y] <= f[x]
  <2> TAKE y \in S
  <2>1. n - f[y] \in D
    OBVIOUS
  <2>2. n - f[x] <= n - f[y]
    BY <1>2, <1>3, <2>1
  <2> QED
    BY <2>2
<1> QED
  BY <1>4

\* ORDER BY created_at LIMIT n cuts a prefix: with a row, every older candidate is
\* in the result.
LEMMA OldestIsPrefix ==
  ASSUME TypeOK, NEW S \in SUBSET Guid, NEW h \in Oldest(S), NEW g \in S,
         created[g] < created[h]
  PROVE  g \in Oldest(S)
<1> DEFINE Before(x) == {y \in S : created[y] < created[x]}
<1>1. Before(h) \subseteq Guid /\ IsFiniteSet(Before(h))
  BY FS_Subset
<1>2. Before(g) \subseteq Before(h)
  BY DEF TypeOK, Oldest
<1>3. /\ Cardinality(Before(g)) <= Cardinality(Before(h))
      /\ Cardinality(Before(g)) \in Nat
      /\ Cardinality(Before(h)) \in Nat
  BY <1>1, <1>2, FS_Subset, FS_CardinalityType
<1>4. Cardinality(Before(h)) < Limit
  BY DEF Oldest
<1>5. Cardinality(Before(g)) < Limit
  BY <1>3, <1>4
<1> QED
  BY <1>5 DEF Oldest

\* The actions of an answer carry exactly the rows that were read.
LEMMA CarriedIsBatch ==
  ASSUME TypeOK, \A g \in Guid : created[g] <= clock, NEW B \in SUBSET Guid,
         \A g, h \in B : created[g] = created[h] => g = h
  PROVE  Carried(B) = B
<1>0. \A g, x \in B : created[g] <= created[x] /\ created[x] <= created[g] => x = g
  BY DEF TypeOK
<1>1. \A g \in B : g \in Run(B, g) /\ Run(B, g) \subseteq B
  BY <1>0 DEF Run, SameRun
<1>2. Carried(B) \subseteq B
  BY <1>1 DEF Carried, coalescePendingActions
<1>3. ASSUME NEW g \in B
      PROVE  g \in Carried(B)
  <2>1. PICK x \in Run(B, g) : \A y \in Run(B, g) : created[y] <= created[x]
    BY <1>1, YoungestExists DEF TypeOK
  <2>2. x \in B
    BY <1>1
  <2>3. Run(B, x) = Run(B, g)
    <3>1. CASE kind[g] # "block"
      BY <3>1 DEF Run
    <3>2. CASE kind[g] = "block"
      <4>1. SameRun(B, g, x)
        BY <3>2 DEF Run
      <4>2. kind[x] = "block"
        BY <4>1, <2>2 DEF SameRun, TypeOK
      <4>3. \A h \in B : SameRun(B, x, h) <=> SameRun(B, g, h)
        BY <4>1, <2>2 DEF SameRun, TypeOK
      <4> QED
        BY <3>2, <4>2, <4>3 DEF Run
    <3> QED
      BY <3>1, <3>2
  <2>4. [guid |-> x, run |-> Run(B, x)] \in coalescePendingActions(B)
    BY <2>1, <2>2, <2>3 DEF coalescePendingActions
  <2>5. g \in Run(B, x)
    BY <1>1, <2>3
  <2> QED
    BY <2>4, <2>5 DEF Carried
<1> QED
  BY <1>2, <1>3

\* Each action of an answer is named by one of the rows that were read.
LEMMA ActionsOfBatch ==
  ASSUME TypeOK, NEW B \in SUBSET Guid
  PROVE  \A a \in coalescePendingActions(B) :
           a \in Answer /\ a.guid \in B /\ a.run \subseteq B
BY DEF coalescePendingActions, Run, SameRun, Answer, TypeOK

-----------------------------------------------------------------------------
(* The inductive invariant holds initially and every action preserves it.  *)

LEMMA InitIInv == Init => IInv
BY DEF Init, IInv, TypeOK, RowsOK, PollsOK, ContentionOK, MarkingOK, ReceivedOK,
       OvertakenOK, NoCommandVanishes, ReadInOrder, DeliveredOnce, ReceivedInOrder,
       AckSettlesRun, DoneAfterContact, Idle, PollState, Status, Read, Disturbed

\* The insertion of a row: its rank is above every other, no poll holds it.
LEMMA EnqueueIInv ==
  ASSUME IInv, NEW g \in Guid, NEW m \in Machine, NEW k \in Kind,
         EnqueueCloudAction(g, m, k), status[g] = "absent"
  PROVE  IInv'
<1> USE DEF EnqueueCloudAction, ghost
<1>1. /\ TypeOK /\ RowsOK
      /\ g \notin received /\ g \notin lost
      /\ \A p \in Poller : g \notin poll[p].batch /\ g \notin poll[p].todo
      /\ \A a \in known : a.guid # g /\ g \notin a.run
  BY DEF IInv, ReceivedOK, PollsOK
<1>2. /\ \A h \in Guid : h # g => /\ status'[h] = status[h] /\ machine'[h] = machine[h]
                                 /\ created'[h] = created[h] /\ created'[h] < created'[g]
      /\ status'[g] = "pending" /\ machine'[g] = m /\ created'[g] = clock'
      /\ UNCHANGED <<poll, known, received, lost, twice, late, settled, unmarked, contended>>
  BY <1>1 DEF TypeOK, RowsOK
<1>3. TypeOK'
  BY <1>1 DEF TypeOK, Status, Kind
<1>4. RowsOK'
  BY <1>1, <1>2 DEF TypeOK, RowsOK
<1>5. \A h \in Guid : h # g => (Disturbed(h)' <=> Disturbed(h))
  BY <1>2 DEF Disturbed
<1>6. Read' = Read
  BY <1>2 DEF Read
<1>7. PollsOK'
  BY <1>1, <1>2 DEF IInv, PollsOK, TypeOK, PollState
<1>8. ContentionOK' /\ twice' \cup late' \cup settled' \subseteq received'
  BY <1>2 DEF IInv, ContentionOK
<1>9. MarkingOK'
  BY <1>1, <1>2, <1>5 DEF IInv, MarkingOK
<1>10. ReceivedOK'
  BY <1>1, <1>2, <1>5 DEF IInv, ReceivedOK, TypeOK, Answer
<1>11. OvertakenOK'
  BY <1>1, <1>2 DEF IInv, OvertakenOK, TypeOK
<1>12. NoCommandVanishes'
  BY <1>2, <1>6 DEF IInv, NoCommandVanishes
<1>13. ReadInOrder'
  <2>1. g \notin Read
    BY <1>1 DEF Read
  <2> QED
    BY <1>1, <1>2, <1>6, <2>1 DEF IInv, ReadInOrder, TypeOK
<1>14. DeliveredOnce' /\ ReceivedInOrder' /\ AckSettlesRun'
  <2>1. twice \subseteq Guid /\ late \subseteq Guid /\ settled \subseteq Guid
    BY <1>1 DEF TypeOK
  <2>2. g \notin twice \cup late \cup settled
    BY <1>1 DEF IInv
  <2> QED
    BY <1>2, <1>5, <2>1, <2>2 DEF IInv, DeliveredOnce, ReceivedInOrder, AckSettlesRun, Disturbed
<1>15. DoneAfterContact'
  BY <1>1, <1>2 DEF IInv, DoneAfterContact, TypeOK, Answer
<1> QED
  BY <1>3, <1>4, <1>7, <1>8, <1>9, <1>10, <1>11, <1>12, <1>13, <1>14, <1>15 DEF IInv

\* The SELECT: it takes the oldest pending rows, so none of them was received
\* undisturbed and none is held by another poll unless the machine is contended.
LEMMA FetchSelectIInv ==
  ASSUME IInv, NEW p \in Poller, FetchSelect(p)
  PROVE  IInv'
<1> USE DEF FetchSelect, rows
<1> DEFINE S == Pending(MachineOf[p])
           B == Oldest(S)
<1>1. /\ TypeOK /\ S \subseteq Guid /\ B \subseteq S
      /\ \A g \in B : status[g] = "pending" /\ machine[g] = MachineOf[p]
  BY DEF IInv, Pending, Oldest
<1>2. /\ poll'[p] = [busy |-> TRUE, batch |-> B, todo |-> B]
      /\ \A q \in Poller : q # p => poll'[q] = poll[q]
      /\ ~ poll[p].busy /\ poll[p].batch = {} /\ poll[p].todo = {}
      /\ UNCHANGED <<status, machine, kind, created, clock, known, failures, received, lost,
                     twice, late, settled, unmarked>>
  BY <1>1 DEF TypeOK, IInv, PollsOK
<1>3. contended \subseteq contended' /\ contended' \subseteq Machine
  BY <1>1 DEF TypeOK
<1>4. \A q \in Poller : q # p /\ poll[q].busy /\ MachineOf[q] = MachineOf[p] =>
        MachineOf[p] \in contended'
  OBVIOUS
<1>5. \A h \in B, g \in S : created[g] < created[h] => g \in B
  BY <1>1, OldestIsPrefix
<1> HIDE DEF B, S, FetchSelect
<1>6. \A g \in Guid : ~ Disturbed(g)' => ~ Disturbed(g)
  BY <1>2, <1>3 DEF Disturbed
<1>7. Read' = Read \cup B
  <2>1. \A g : (\E q \in Poller : g \in poll'[q].batch) <=>
                 ((\E q \in Poller : g \in poll[q].batch) \/ g \in B)
    BY <1>2
  <2> QED
    BY <1>2, <2>1 DEF Read
<1>8. TypeOK'
  <2>1. poll' \in [Poller -> PollState]
    BY <1>1 DEF FetchSelect, TypeOK, PollState, S, B
  <2> QED
    BY <1>1, <1>2, <1>3, <2>1 DEF TypeOK
<1>9. RowsOK'
  BY <1>2 DEF IInv, RowsOK
<1>10. PollsOK'
  <2>1. \A h \in B, g \in Guid :
          machine[g] = machine[h] /\ created[g] < created[h] /\ status[g] = "pending" => g \in B
    BY <1>1, <1>5 DEF S, Pending
  <2> QED
    BY <1>1, <1>2, <2>1 DEF IInv, PollsOK
<1>11. ContentionOK'
  BY <1>2, <1>3, <1>4 DEF IInv, ContentionOK
<1>12. MarkingOK'
  BY <1>1, <1>2, <1>6 DEF IInv, MarkingOK
<1>13. ReceivedOK'
  BY <1>1, <1>2, <1>6 DEF IInv, ReceivedOK, TypeOK
<1>14. OvertakenOK'
  BY <1>1, <1>2, <1>3 DEF IInv, OvertakenOK
<1>15. NoCommandVanishes'
  BY <1>2, <1>7 DEF IInv, NoCommandVanishes
<1>16. ReadInOrder'
  <2>1. \A h \in B, g \in Guid :
          machine[g] = machine[h] /\ created[g] < created[h] /\ status[g] # "absent" => g \in Read \cup B
    BY <1>1, <1>5 DEF S, Pending, IInv, NoCommandVanishes, TypeOK, Status
  <2> QED
    BY <1>2, <1>7, <2>1 DEF IInv, ReadInOrder
<1>17. DeliveredOnce' /\ ReceivedInOrder' /\ AckSettlesRun' /\ DoneAfterContact'
  BY <1>2, <1>3 DEF IInv, DeliveredOnce, ReceivedInOrder, AckSettlesRun, DoneAfterContact, Disturbed
<1> QED
  BY <1>2, <1>8, <1>9, <1>10, <1>11, <1>12, <1>13, <1>14, <1>15, <1>16, <1>17 DEF IInv

\* The UPDATE of one row of the batch, successful or not.
LEMMA MarkIInv ==
  ASSUME IInv, NEW p \in Poller, MarkDelivered(p) \/ MarkFails(p)
  PROVE  IInv'
<1> DEFINE Mark(g) == status' = [status EXCEPT ![g] = "delivered"] /\ UNCHANGED <<unmarked, failures>>
           Fail(g) == /\ UNCHANGED status /\ unmarked' = unmarked \cup {g}
                      /\ failures' = failures + 1
<1>1. PICK g \in Guid :
        /\ g \in poll[p].todo
        /\ Mark(g) \/ Fail(g)
        /\ poll' = [poll EXCEPT ![p].todo = @ \ {g}]
        /\ UNCHANGED <<machine, kind, created, clock, known, received, lost, twice, late,
                       settled, contended>>
  BY DEF MarkDelivered, MarkFails, NextRow, rows, ghost
<1>2. /\ TypeOK
      /\ \A q \in Poller : /\ poll'[q].batch = poll[q].batch
                            /\ poll'[q].busy = poll[q].busy
                            /\ poll'[q].todo = IF q = p THEN poll[q].todo \ {g} ELSE poll[q].todo
  BY <1>1 DEF IInv, TypeOK, PollState
<1>3. /\ g \in poll[p].batch /\ status[g] # "absent"
      /\ \A h \in Guid : /\ h # g => status'[h] = status[h]
                         /\ status[h] # "pending" => status'[h] # "pending"
                         /\ status[h] = "absent" <=> status'[h] = "absent"
                         /\ ~ Disturbed(h)' => ~ Disturbed(h)
      /\ ~ Disturbed(g)' => Mark(g)
  BY <1>1, <1>2 DEF IInv, PollsOK, TypeOK, Disturbed
<1>4. Read' = Read /\ g \in Read
  BY <1>1, <1>2, <1>3 DEF Read
<1>5. ~ Disturbed(g) => status[g] = "pending" /\ \A q \in Poller : q # p => g \notin poll[q].batch
  <2>1. ~ Disturbed(g) => status[g] = "pending"
    BY <1>1 DEF IInv, MarkingOK
  <2>2. \A q \in Poller : q # p /\ g \in poll[q].batch => machine[g] \in contended
    BY <1>3 DEF IInv, PollsOK, ContentionOK
  <2> QED
    BY <2>1, <2>2 DEF Disturbed
<1>6. TypeOK'
  <2>1. status' \in [Guid -> Status] /\ unmarked' \subseteq Guid /\ failures' \in Nat
    BY <1>1, <1>2 DEF TypeOK, Status
  <2>2. poll' \in [Poller -> PollState]
    BY <1>1, <1>2 DEF TypeOK, PollState
  <2> QED
    BY <1>1, <1>2, <2>1, <2>2 DEF TypeOK
<1>7. RowsOK'
  BY <1>1, <1>3 DEF IInv, RowsOK
<1>8. PollsOK'
  <2> SUFFICES ASSUME NEW q \in Poller
               PROVE  PollsOK!(q)'
    BY DEF PollsOK
  <2>1. /\ poll'[q].todo \subseteq poll[q].todo /\ poll'[q].batch = poll[q].batch
        /\ poll'[q].busy = poll[q].busy /\ poll[q].batch \subseteq Guid
    BY <1>2 DEF TypeOK, PollState
  <2>2. PollsOK!(q)
    BY DEF IInv, PollsOK
  <2> QED
    BY <1>1, <1>3, <2>1, <2>2
<1>9. ContentionOK' /\ ReceivedInOrder' /\ twice' \cup late' \cup settled' \subseteq received'
  BY <1>1, <1>2 DEF IInv, ContentionOK, ReceivedInOrder
<1>10. MarkingOK'
  <2> SUFFICES ASSUME NEW q \in Poller, NEW h \in Guid, ~ Disturbed(h)'
               PROVE  /\ h \in poll'[q].todo => status'[h] = "pending"
                      /\ h \in poll'[q].batch \ poll'[q].todo => status'[h] # "pending"
    BY DEF MarkingOK
  <2>1. CASE h = g
    <3>1. status'[g] = "delivered"
      BY <1>2, <1>3, <2>1 DEF TypeOK
    <3>2. g \notin poll'[q].todo
      BY <1>2, <1>3, <1>5, <2>1 DEF IInv, PollsOK
    <3> QED
      BY <2>1, <3>1, <3>2
  <2>2. CASE h # g
    <3>1. ~ Disturbed(h)
      BY <1>3
    <3>2. /\ h \in poll[q].todo => status[h] = "pending"
          /\ h \in poll[q].batch \ poll[q].todo => status[h] # "pending"
      BY <3>1 DEF IInv, MarkingOK
    <3>3. status'[h] = status[h]
      BY <1>3, <2>2
    <3>4. h \in poll'[q].todo <=> h \in poll[q].todo
      BY <1>2, <2>2
    <3>5. h \in poll'[q].batch <=> h \in poll[q].batch
      BY <1>2
    <3> QED
      BY <3>2, <3>3, <3>4, <3>5
  <2> QED
    BY <2>1, <2>2
<1>11. ReceivedOK'
  BY <1>1, <1>2, <1>3 DEF IInv, ReceivedOK, TypeOK
<1>12. OvertakenOK'
  BY <1>1, <1>2, <1>3 DEF IInv, OvertakenOK
<1>13. NoCommandVanishes'
  BY <1>3, <1>4 DEF IInv, NoCommandVanishes
<1>14. ReadInOrder'
  BY <1>1, <1>3, <1>4 DEF IInv, ReadInOrder
<1>15. DeliveredOnce'
  <2>1. \A h \in Guid : Disturbed(h) => Disturbed(h)'
    BY <1>1 DEF Disturbed
  <2> QED
    BY <1>1, <1>2, <2>1 DEF IInv, DeliveredOnce, TypeOK
<1>16. AckSettlesRun'
  <2>1. \A h \in settled : h \in Guid
    BY <1>2 DEF TypeOK
  <2>2. \A h \in settled : h = g => Disturbed(h)
    BY <1>5 DEF IInv, AckSettlesRun
  <2>3. Disturbed(g) => Disturbed(g)'
    BY <1>1 DEF Disturbed
  <2> QED
    BY <1>1, <1>3, <2>1, <2>2, <2>3 DEF IInv, AckSettlesRun
<1>17. DoneAfterContact'
  <2>1. \A h \in Guid : status'[h] = "done" => status[h] = "done"
    BY <1>1, <1>2 DEF TypeOK
  <2> QED
    BY <1>1, <2>1 DEF IInv, DoneAfterContact
<1> QED
  BY <1>6, <1>7, <1>8, <1>9, <1>10, <1>11, <1>12, <1>13, <1>14, <1>15, <1>16, <1>17 DEF IInv

\* The answer arrives: every row of the batch has been marked, so the undisturbed
\* ones are no longer pending and no other poll holds them.
LEMMA FetchReplyIInv ==
  ASSUME IInv, NEW p \in Poller, FetchReply(p)
  PROVE  IInv'
<1> USE DEF FetchReply, rows
<1> DEFINE B == poll[p].batch
<1>1. /\ TypeOK /\ B \subseteq Guid /\ poll[p].busy /\ poll[p].todo = {}
      /\ \A g \in B : status[g] # "absent" /\ machine[g] = MachineOf[p]
  BY DEF IInv, PollsOK, TypeOK, PollState
<1>2. Carried(B) = B
  BY <1>1, CarriedIsBatch DEF IInv, RowsOK
<1>3. \A a \in coalescePendingActions(B) :
        a \in Answer /\ a.guid \in B /\ a.run \subseteq B
  BY <1>1, ActionsOfBatch
<1>4. /\ \A q \in Poller : poll'[q] = IF q = p THEN Idle ELSE poll[q]
      /\ known' = known \cup coalescePendingActions(B)
      /\ received' = received \cup B /\ twice' = twice \cup (B \cap received)
      /\ late' = late \cup {g \in B \ received : \E h \in received :
                             machine[h] = machine[g] /\ created[g] < created[h]}
      /\ UNCHANGED <<status, machine, kind, created, clock, failures, lost, settled,
                     unmarked, contended>>
  BY <1>1, <1>2 DEF TypeOK
<1>5. TypeOK'
  <2>1. poll' \in [Poller -> PollState]
    BY <1>1 DEF TypeOK, PollState, Idle
  <2> QED
    BY <1>1, <1>3, <1>4, <2>1 DEF TypeOK
<1> HIDE DEF B, FetchReply
<1>6. /\ Idle.batch = {} /\ Idle.todo = {} /\ Idle.busy = FALSE
      /\ \A g \in Guid : Disturbed(g)' <=> Disturbed(g)
  BY <1>4 DEF Idle, Disturbed
<1>7. \A g \in B : ~ Disturbed(g) =>
        status[g] # "pending" /\ \A q \in Poller : q # p => g \notin poll[q].batch
  <2> SUFFICES ASSUME NEW g \in B, ~ Disturbed(g)
               PROVE  status[g] # "pending" /\ \A q \in Poller : q # p => g \notin poll[q].batch
    OBVIOUS
  <2>1. status[g] # "pending"
    BY <1>1 DEF IInv, MarkingOK, B
  <2>2. \A q \in Poller : q # p /\ g \in poll[q].batch => machine[g] \in contended
    BY <1>1 DEF IInv, PollsOK, ContentionOK, B
  <2> QED
    BY <2>1, <2>2 DEF Disturbed
<1>8. Read' = Read
  <2>1. \A g : (\E q \in Poller : g \in poll[q].batch) <=>
                 ((\E q \in Poller : g \in poll'[q].batch) \/ g \in B)
    BY <1>4, <1>6 DEF B
  <2> QED
    BY <1>4, <2>1 DEF Read
<1>9. RowsOK' /\ PollsOK' /\ ContentionOK' /\ MarkingOK'
  BY <1>4, <1>6 DEF IInv, RowsOK, PollsOK, ContentionOK, MarkingOK
<1>10. ReceivedOK'
  <2>1. \A g \in received' \cup lost' : status'[g] # "absent"
    BY <1>1, <1>4 DEF IInv, ReceivedOK
  <2>2. \A a \in known' : /\ a.guid \in received' /\ a.run \subseteq received'
                          /\ \A g \in a.run : machine'[g] = machine'[a.guid]
    BY <1>1, <1>3, <1>4 DEF IInv, ReceivedOK
  <2>3. \A g \in received' : ~ Disturbed(g)' =>
          status'[g] # "pending" /\ \A q \in Poller : g \notin poll'[q].batch
    BY <1>1, <1>4, <1>6, <1>7 DEF IInv, ReceivedOK, TypeOK
  <2> QED
    BY <2>1, <2>2, <2>3 DEF ReceivedOK
<1>11. OvertakenOK'
  <2> SUFFICES ASSUME NEW g \in Guid, NEW h \in Guid, h \in received', g \notin received',
                      status[g] # "absent", machine[g] = machine[h],
                      created[g] < created[h], machine[g] \notin contended
               PROVE  status[g] # "pending" /\ \A q \in Poller : g \notin poll'[q].batch
    BY <1>4 DEF OvertakenOK
  <2>1. CASE h \in received
    BY <1>4, <1>6, <2>1 DEF IInv, OvertakenOK
  <2>2. CASE h \in B
    <3>1. g \notin B /\ status[g] # "pending"
      BY <1>4, <2>2 DEF IInv, PollsOK, B
    <3>2. \A q \in Poller : q # p => g \notin poll[q].batch
      BY <1>1, <2>2 DEF IInv, PollsOK, ContentionOK, B
    <3> QED
      BY <1>4, <1>6, <3>1, <3>2
  <2> QED
    BY <1>4, <2>1, <2>2
<1>12. NoCommandVanishes' /\ ReadInOrder'
  BY <1>4, <1>8 DEF IInv, NoCommandVanishes, ReadInOrder
<1>13. DeliveredOnce'
  <2>1. \A g \in B \cap received : Disturbed(g)
    BY <1>1 DEF IInv, ReceivedOK, B
  <2> QED
    BY <1>1, <1>4, <1>6, <2>1 DEF IInv, DeliveredOnce, TypeOK
<1>14. ReceivedInOrder'
  <2>1. \A g \in B \ received, h \in received :
          machine[h] = machine[g] /\ created[g] < created[h] => machine[g] \in contended
    BY <1>1 DEF IInv, OvertakenOK, B, TypeOK
  <2> QED
    BY <1>4, <2>1 DEF IInv, ReceivedInOrder
<1>15. AckSettlesRun' /\ DoneAfterContact' /\ twice' \cup late' \cup settled' \subseteq received'
  BY <1>1, <1>4, <1>6 DEF IInv, AckSettlesRun, DoneAfterContact, TypeOK
<1> QED
  BY <1>5, <1>9, <1>10, <1>11, <1>12, <1>13, <1>14, <1>15 DEF IInv

\* The answer is lost: the poll ends and only the history remembers its rows.
LEMMA FetchLostIInv ==
  ASSUME IInv, NEW p \in Poller, FetchLost(p)
  PROVE  IInv'
<1> USE DEF FetchLost, rows
<1>1. /\ TypeOK /\ poll[p].batch \subseteq Guid
      /\ \A g \in poll[p].batch : status[g] # "absent"
      /\ Idle.batch = {} /\ Idle.todo = {} /\ Idle.busy = FALSE
  BY DEF IInv, PollsOK, TypeOK, PollState, Idle
<1>2. /\ \A q \in Poller : poll'[q] = IF q = p THEN Idle ELSE poll[q]
      /\ lost' = lost \cup poll[p].batch
      /\ UNCHANGED <<status, machine, kind, created, clock, known, failures, received,
                     twice, late, settled, unmarked, contended>>
  BY <1>1 DEF TypeOK
<1>3. TypeOK'
  <2>1. poll' \in [Poller -> PollState]
    BY <1>1 DEF TypeOK, PollState, Idle
  <2> QED
    BY <1>1, <1>2, <2>1 DEF TypeOK
<1> HIDE DEF FetchLost
<1>4. Read' = Read
  <2>1. \A g : (\E q \in Poller : g \in poll[q].batch) <=>
                 ((\E q \in Poller : g \in poll'[q].batch) \/ g \in poll[p].batch)
    BY <1>1, <1>2
  <2> QED
    BY <1>2, <2>1 DEF Read
<1>5. \A g : Disturbed(g)' <=> Disturbed(g)
  BY <1>2 DEF Disturbed
<1>6. RowsOK' /\ PollsOK' /\ ContentionOK' /\ MarkingOK'
  BY <1>1, <1>2, <1>5 DEF IInv, RowsOK, PollsOK, ContentionOK, MarkingOK
<1>7. ReceivedOK' /\ OvertakenOK'
  BY <1>1, <1>2, <1>5 DEF IInv, ReceivedOK, OvertakenOK
<1>8. NoCommandVanishes' /\ ReadInOrder'
  BY <1>2, <1>4 DEF IInv, NoCommandVanishes, ReadInOrder
<1>9. /\ DeliveredOnce' /\ ReceivedInOrder' /\ AckSettlesRun' /\ DoneAfterContact'
      /\ twice' \cup late' \cup settled' \subseteq received'
  BY <1>2, <1>5 DEF IInv, DeliveredOnce, ReceivedInOrder, AckSettlesRun, DoneAfterContact
<1> QED
  BY <1>3, <1>6, <1>7, <1>8, <1>9 DEF IInv

\* The acknowledgement: it touches the named row, which a client has received, and
\* delivered rows; never an undisturbed row a poll has still to mark.
LEMMA MarkActionDoneIInv ==
  ASSUME IInv, NEW a \in known, MarkActionDone(a)
  PROVE  IInv'
<1> USE DEF MarkActionDone
<1>1. /\ TypeOK /\ a \in Answer /\ a.guid \in received /\ a.run \subseteq received
      /\ \A g \in a.run : machine[g] = machine[a.guid]
  BY DEF IInv, TypeOK, ReceivedOK
<1>2. /\ \A g \in Guid : status'[g] =
           IF g = a.guid \/ (machine[g] = machine[a.guid] /\ status[g] = "delivered")
             THEN "done" ELSE status[g]
      /\ status' \in [Guid -> Status]
      /\ settled' = settled \cup a.run
      /\ UNCHANGED <<machine, kind, created, clock, poll, known, failures, received, lost,
                     twice, late, unmarked, contended>>
  BY <1>1 DEF TypeOK, DoneStatus, Answer, Status
<1> HIDE DEF MarkActionDone
<1>3. TypeOK'
  BY <1>1, <1>2 DEF TypeOK, Answer
<1>4. /\ Read' = Read
      /\ \A g : Disturbed(g)' <=> Disturbed(g)
  BY <1>2 DEF Read, Disturbed
<1>5. /\ a.guid \in Guid /\ status[a.guid] # "absent"
      /\ \A g \in Guid : /\ status'[g] = "absent" <=> status[g] = "absent"
                         /\ status'[g] = "pending" => status[g] = "pending"
                         /\ status[g] = "done" => status'[g] = "done"
  BY <1>1, <1>2 DEF IInv, ReceivedOK, TypeOK, Answer
<1>6. RowsOK' /\ PollsOK' /\ ContentionOK'
  BY <1>2, <1>5 DEF IInv, RowsOK, PollsOK, ContentionOK, TypeOK, PollState
<1>7. MarkingOK'
  <2>1. \A g \in Guid, p \in Poller : ~ Disturbed(g) /\ g \in poll[p].todo =>
          g # a.guid /\ status[g] = "pending"
    BY <1>1 DEF IInv, ReceivedOK, MarkingOK, PollsOK
  <2> QED
    BY <1>2, <1>4, <1>5, <2>1 DEF IInv, MarkingOK
<1>8. ReceivedOK'
  BY <1>1, <1>2, <1>4, <1>5 DEF IInv, ReceivedOK, TypeOK
<1>9. OvertakenOK'
  BY <1>2, <1>5 DEF IInv, OvertakenOK
<1>10. NoCommandVanishes'
  <2>1. a.guid \in Read
    BY <1>1 DEF Read
  <2> QED
    BY <1>2, <1>4, <2>1 DEF IInv, NoCommandVanishes, TypeOK, Status
<1>11. ReadInOrder'
  BY <1>2, <1>4, <1>5 DEF IInv, ReadInOrder
<1>12. DeliveredOnce' /\ ReceivedInOrder' /\ twice' \cup late' \cup settled' \subseteq received'
  BY <1>1, <1>2, <1>4 DEF IInv, DeliveredOnce, ReceivedInOrder
<1>13. AckSettlesRun'
  <2> SUFFICES ASSUME NEW g \in settled', ~ Disturbed(g)
               PROVE  status'[g] = "done"
    BY <1>4 DEF AckSettlesRun
  <2>1. CASE g \in settled
    BY <1>1, <1>5, <2>1 DEF IInv, AckSettlesRun, TypeOK
  <2>2. CASE g \in a.run
    <3>1. g \in Guid /\ status[g] \in {"delivered", "done"}
      BY <1>1, <2>2 DEF IInv, ReceivedOK, TypeOK, Status
    <3> QED
      BY <1>1, <1>2, <2>2, <3>1
  <2> QED
    BY <1>2, <2>1, <2>2
<1>14. DoneAfterContact'
  BY <1>1, <1>2 DEF IInv, DoneAfterContact
<1> QED
  BY <1>3, <1>6, <1>7, <1>8, <1>9, <1>10, <1>11, <1>12, <1>13, <1>14 DEF IInv

LEMMA NextIInv == IInv /\ [Next]_vars => IInv'
<1> SUFFICES ASSUME IInv, [Next]_vars
             PROVE  IInv'
  OBVIOUS
<1>1. ASSUME NEW g \in Guid, NEW m \in Machine, NEW k \in Kind, EnqueueCloudAction(g, m, k)
      PROVE  IInv' \/ UNCHANGED vars
  <2>1. CASE status[g] = "absent"
    BY <1>1, <2>1, EnqueueIInv
  <2>2. CASE status[g] # "absent"
    BY <1>1, <2>2 DEF EnqueueCloudAction, vars
  <2> QED
    BY <2>1, <2>2
<1>2. ASSUME NEW p \in Poller, FetchSelect(p)
      PROVE  IInv'
  BY <1>2, FetchSelectIInv
<1>3. ASSUME NEW p \in Poller, MarkDelivered(p) \/ MarkFails(p)
      PROVE  IInv'
  BY <1>3, MarkIInv
<1>4. ASSUME NEW p \in Poller, FetchReply(p)
      PROVE  IInv'
  BY <1>4, FetchReplyIInv
<1>5. ASSUME NEW p \in Poller, FetchLost(p)
      PROVE  IInv'
  BY <1>5, FetchLostIInv
<1>6. ASSUME NEW a \in known, MarkActionDone(a)
      PROVE  IInv'
  BY <1>6, MarkActionDoneIInv
<1>7. CASE UNCHANGED vars
  BY <1>7 DEF vars, rows, ghost, IInv, TypeOK, RowsOK, PollsOK, ContentionOK, MarkingOK,
              ReceivedOK, OvertakenOK, NoCommandVanishes, ReadInOrder, DeliveredOnce,
              ReceivedInOrder, AckSettlesRun, DoneAfterContact, Disturbed, Read
<1> QED
  BY <1>1, <1>2, <1>3, <1>4, <1>5, <1>6, <1>7 DEF Next

-----------------------------------------------------------------------------
(* The theorems.                                                            *)

LEMMA Invariance == Spec => []IInv
BY InitIInv, NextIInv, PTL DEF Spec

\* The columns of cloud_actions and the local state of the handlers keep their types.
THEOREM TypeCorrect == Spec => []TypeOK
BY Invariance, PTL DEF IInv

\* A row that left `pending' was read by a poll whose answer arrived, was lost or is
\* being prepared (FetchPendingActionsForMachine, MarkActionDone).
THEOREM NoCommandVanishesThm == Spec => []NoCommandVanishes
BY Invariance, PTL DEF IInv

\* A command reaches a client twice only if polls of its machine overlapped or the
\* UPDATE that marks it failed.
THEOREM DeliveredOnceThm == Spec => []DeliveredOnce
BY Invariance, PTL DEF IInv

\* The commands of a machine are read in emission order by any number of pollers.
THEOREM ReadInOrderThm == Spec => []ReadInOrder
BY Invariance, PTL DEF IInv

\* The commands of a machine whose polls never overlap arrive in emission order.
THEOREM ReceivedInOrderThm == Spec => []ReceivedInOrder
BY Invariance, PTL DEF IInv

\* MarkActionDone settles every command merged into the acknowledged action.
THEOREM AckSettlesRunThm == Spec => []AckSettlesRun
BY Invariance, PTL DEF IInv

\* An acknowledgement never closes commands of another machine.
THEOREM DoneAfterContactThm == Spec => []DoneAfterContact
BY Invariance, PTL DEF IInv

\* No step brings a row that left the queue back to `pending'.
THEOREM NeverRequeuedThm == Spec => NeverRequeued
<1>1. TypeOK /\ [Next]_vars =>
        [\A g \in Guid : status[g] \in {"delivered", "done"} => status'[g] # "pending"]_vars
  BY DEF TypeOK, Next, vars, rows, EnqueueCloudAction, FetchSelect, MarkDelivered, MarkFails,
         FetchReply, FetchLost, MarkActionDone, DoneStatus
<1> QED
  BY <1>1, TypeCorrect, PTL DEF Spec, NeverRequeued

\* The unconditional UPDATE of MarkDelivered never reopens an undisturbed done row.
THEOREM DoneIsFinalThm == Spec => DoneIsFinal
<1> DEFINE Final == \A g \in Guid : status[g] = "done" /\ ~ Disturbed(g) => status'[g] = "done"
<1>1. IInv /\ [Next]_vars => [Final]_vars
  <2> SUFFICES ASSUME IInv, Next, NEW g \in Guid, status[g] = "done", ~ Disturbed(g)
               PROVE  status'[g] = "done"
    BY DEF vars
  <2>1. TypeOK
    BY DEF IInv
  <2>2. ASSUME NEW p \in Poller, MarkDelivered(p)
        PROVE  status'[g] = "done"
    <3>1. g \notin poll[p].todo
      BY DEF IInv, MarkingOK
    <3> QED
      BY <2>1, <2>2, <3>1 DEF MarkDelivered, NextRow, TypeOK
  <2> QED
    BY <2>1, <2>2 DEF TypeOK, Next, rows, EnqueueCloudAction, FetchSelect, MarkFails,
                      FetchReply, FetchLost, MarkActionDone, DoneStatus
<1> QED
  BY <1>1, Invariance, PTL DEF Spec, DoneIsFinal

-----------------------------------------------------------------------------
(* The merge.                                                              *)

\* The rows of a run have the same run.
LEMMA RunShared ==
  ASSUME TypeOK, NEW B \in SUBSET Guid, NEW x \in B, NEW y \in Run(B, x),
         \A g, h \in B : created[g] = created[h] => g = h
  PROVE  y \in B /\ Run(B, y) = Run(B, x)
<1>1. CASE kind[x] # "block"
  BY <1>1 DEF Run
<1>2. CASE kind[x] = "block"
  <2>1. y \in B /\ SameRun(B, x, y)
    BY <1>2 DEF Run
  <2>2. kind[y] = "block"
    BY <2>1 DEF SameRun, TypeOK
  <2>3. \A h \in B : SameRun(B, y, h) <=> SameRun(B, x, h)
    BY <2>1 DEF SameRun, TypeOK
  <2> QED
    BY <1>2, <2>1, <2>2, <2>3 DEF Run
<1> QED
  BY <1>1, <1>2

\* Two actions of an answer that share a row are the same action.
LEMMA RunsDisjoint ==
  ASSUME TypeOK, NEW B \in SUBSET Guid,
         \A g, h \in B : created[g] = created[h] => g = h,
         NEW a \in coalescePendingActions(B), NEW b \in coalescePendingActions(B), a.run \cap b.run # {}
  PROVE  a = b
<1>1. PICK g \in a.run : g \in b.run
  OBVIOUS
<1>2. /\ a = [guid |-> a.guid, run |-> Run(B, a.guid)] /\ a.guid \in B
      /\ \A h \in Run(B, a.guid) : created[h] <= created[a.guid]
  BY DEF coalescePendingActions
<1>3. /\ b = [guid |-> b.guid, run |-> Run(B, b.guid)] /\ b.guid \in B
      /\ \A h \in Run(B, b.guid) : created[h] <= created[b.guid]
  BY DEF coalescePendingActions
<1>4. a.run = Run(B, a.guid) /\ b.run = Run(B, b.guid)
  BY <1>2, <1>3
<1>5. Run(B, a.guid) = Run(B, b.guid)
  BY <1>1, <1>2, <1>3, <1>4, RunShared
<1>6. a.guid \in Run(B, a.guid) /\ b.guid \in Run(B, b.guid)
  BY <1>2, <1>3 DEF Run, SameRun, TypeOK
<1>7. created[a.guid] = created[b.guid]
  BY <1>2, <1>3, <1>5, <1>6 DEF TypeOK
<1>8. a.guid = b.guid
  BY <1>2, <1>3, <1>7
<1> QED
  BY <1>2, <1>3, <1>8

\* Of two actions, the one named by the older row carries only rows older than the other's.
LEMMA RunsOrdered ==
  ASSUME TypeOK, NEW B \in SUBSET Guid,
         \A g, h \in B : created[g] = created[h] => g = h,
         NEW a \in coalescePendingActions(B), NEW b \in coalescePendingActions(B),
         created[a.guid] < created[b.guid], NEW g \in a.run, NEW h \in b.run
  PROVE  created[g] < created[h]
<1>1. /\ a.guid \in B /\ a.run = Run(B, a.guid)
      /\ \A x \in Run(B, a.guid) : created[x] <= created[a.guid]
  BY DEF coalescePendingActions
<1>2. b.guid \in B /\ b.run = Run(B, b.guid)
  BY DEF coalescePendingActions
<1>3. g \in B /\ h \in B /\ created[g] \in Nat /\ created[h] \in Nat
      /\ created[a.guid] \in Nat /\ created[b.guid] \in Nat
  BY <1>1, <1>2, RunShared DEF TypeOK
<1>4. a # b /\ a.run \cap b.run = {}
  BY <1>3, RunsDisjoint
<1>5. ASSUME created[h] <= created[g]
      PROVE  FALSE
  <2>1. created[h] <= created[a.guid]
    BY <1>1, <1>3, <1>5
  <2>2. kind[b.guid] = "block" /\ SameRun(B, b.guid, h)
    BY <1>2, <1>3, <2>1 DEF Run
  <2>3. SameRun(B, b.guid, a.guid)
    <3> SUFFICES ASSUME NEW x \in B,
                        \/ created[b.guid] <= created[x] /\ created[x] <= created[a.guid]
                        \/ created[a.guid] <= created[x] /\ created[x] <= created[b.guid]
                 PROVE  kind[x] = "block"
      BY DEF SameRun
    <3>1. created[x] \in Nat
      BY DEF TypeOK
    <3>2. created[h] <= created[x] /\ created[x] <= created[b.guid]
      BY <1>3, <2>1, <3>1
    <3> QED
      BY <2>2, <3>2 DEF SameRun
  <2>4. a.guid \in b.run
    BY <1>1, <1>2, <2>2, <2>3 DEF Run
  <2>5. a.guid \in a.run
    BY <1>1 DEF Run, SameRun, TypeOK
  <2> QED
    BY <1>4, <2>4, <2>5
<1> QED
  BY <1>3, <1>5

\* The actions of an answer partition the rows that were read and keep their order: a
\* command between two light or shutter commands is never jumped over, for every batch.
THEOREM MergeKeepsOrderThm == Spec => []MergeKeepsOrder
<1>1. IInv => MergeKeepsOrder
  <2> SUFFICES ASSUME IInv, NEW p \in Poller
               PROVE  LET batch == poll[p].batch
                          acts  == coalescePendingActions(batch)
                      IN  /\ Carried(batch) = batch
                          /\ \A a, b \in acts : a.run \cap b.run # {} => a = b
                          /\ \A a, b \in acts : a # b =>
                               \/ \A g \in a.run, h \in b.run : created[g] < created[h]
                               \/ \A g \in a.run, h \in b.run : created[g] > created[h]
    BY DEF MergeKeepsOrder
  <2> DEFINE B == poll[p].batch
  <2>1. TypeOK /\ B \in SUBSET Guid /\ \A g \in Guid : created[g] <= clock
    BY DEF IInv, TypeOK, PollState, RowsOK
  <2>2. \A g, h \in B : created[g] = created[h] => g = h
    <3>1. \A g \in B : g \in Guid /\ status[g] # "absent"
      BY <2>1 DEF IInv, PollsOK
    <3> QED
      BY <3>1 DEF IInv, RowsOK
  <2> HIDE DEF B
  <2>3. Carried(B) = B
    BY <2>1, <2>2, CarriedIsBatch
  <2>4. \A a, b \in coalescePendingActions(B) : a.run \cap b.run # {} => a = b
    BY <2>1, <2>2, RunsDisjoint
  <2>5. ASSUME NEW a \in coalescePendingActions(B), NEW b \in coalescePendingActions(B), a # b
        PROVE  \/ \A g \in a.run, h \in b.run : created[g] < created[h]
               \/ \A g \in a.run, h \in b.run : created[g] > created[h]
    <3>1. /\ a = [guid |-> a.guid, run |-> Run(B, a.guid)] /\ a.guid \in B
          /\ b = [guid |-> b.guid, run |-> Run(B, b.guid)] /\ b.guid \in B
      BY DEF coalescePendingActions
    <3>2. a.guid # b.guid
      BY <2>5, <3>1
    <3>3. created[a.guid] < created[b.guid] \/ created[b.guid] < created[a.guid]
      BY <2>1, <2>2, <3>1, <3>2 DEF TypeOK
    <3>4. CASE created[a.guid] < created[b.guid]
      BY <2>1, <2>2, <3>4, RunsOrdered
    <3>5. CASE created[b.guid] < created[a.guid]
      <4>1. \A g \in a.run, h \in b.run : created[h] < created[g]
        BY <2>1, <2>2, <3>5, RunsOrdered
      <4>2. \A g \in a.run : g \in Guid
        BY <2>1, <2>2, <3>1, RunShared
      <4>3. \A h \in b.run : h \in Guid
        BY <2>1, <2>2, <3>1, RunShared
      <4> QED
        BY <2>1, <4>1, <4>2, <4>3 DEF TypeOK
    <3> QED
      BY <3>3, <3>4, <3>5
  <2> QED
    BY <2>3, <2>4, <2>5 DEF B
<1> QED
  BY <1>1, Invariance, PTL
=============================================================================
