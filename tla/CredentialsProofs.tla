-------------------------- MODULE CredentialsProofs --------------------------
(***************************************************************************)
(* Proofs that Credentials has its safety properties for every number of   *)
(* links, sessions and handlers in progress, and whatever the limits.      *)
(***************************************************************************)
EXTENDS Credentials, FiniteSetTheorems, WellFoundedInduction, TLAPS

-----------------------------------------------------------------------------
(* The type invariant.                                                     *)

\* The ranks of sessions are numbers.
LEMMA StoredCount ==
  Cardinality({s \in Session : session[s].state # "none"}) \in Nat
BY CredentialsAssumption, FS_Subset, FS_CardinalityType

\* The victims of a new session are sessions.
LEMMA VictimsAreSessions == BeyondCap(Active) \subseteq Session
BY DEF BeyondCap, Active

LEMMA HandlerTypes ==
  ASSUME TypeOK, NEW r \in Request,
         \/ Login(r) \/ CreateSession(r) \/ ForgotPassword(r) \/ SendPasswordReset(r)
         \/ \E t \in Token : ResetPassword(r, t)
         \/ ConsumeRefused(r) \/ ChangePassword(r) \/ UpdateProfile(r)
         \/ IssueTemporaryPassword(r) \/ Abandon(r)
  PROVE  TypeOK'
<1>1. CASE Login(r)
  BY <1>1 DEF TypeOK, Login, Begin, Message
<1>2. CASE CreateSession(r)
  BY <1>2, VictimsAreSessions DEF TypeOK, CreateSession, Continue, Message, Lapse, history
<1>3. CASE ForgotPassword(r) \/ SendPasswordReset(r)
  <2>1. PICK self \in BOOLEAN, lapse \in {"none", "uncounted"} : BeginIssue(r, self, lapse)
    BY <1>3 DEF ForgotPassword, SendPasswordReset
  <2>2. PICK l \in Lapse : req' = [req EXCEPT ![r] = [op |-> "issue", self |-> self, lapse |-> l]]
    BY <2>1 DEF BeginIssue, Begin, Lapse
  <2>3. [op |-> "issue", self |-> self, lapse |-> l] \in Message
    BY DEF Message, Issuing
  <2> QED
    BY <2>1, <2>2, <2>3 DEF TypeOK, BeginIssue, history
<1>4. CASE \E t \in Token : ResetPassword(r, t)
  BY <1>4 DEF TypeOK, ResetPassword, Begin, Message, history
<1>5. CASE ConsumeRefused(r) \/ Abandon(r)
  BY <1>5 DEF TypeOK, ConsumeRefused, Abandon, End, Continue, Idle, Message, history
<1>6. CASE ChangePassword(r) \/ UpdateProfile(r) \/ IssueTemporaryPassword(r)
  BY <1>6 DEF TypeOK, ChangePassword, UpdateProfile, IssueTemporaryPassword, Begin, Message, history
<1> QED
  BY <1>1, <1>2, <1>3, <1>4, <1>5, <1>6

\* A write of the password, or of nothing when the account is gone.
LEMMA WriteTypes ==
  ASSUME TypeOK,
         NEW newUser \in [exists : BOOLEAN, forbidden : BOOLEAN, temp : BOOLEAN,
                          locked : BOOLEAN, expiry : {"none", "set", "passed"}],
         writeCredential(newUser) \/ WriteIfExists(newUser)
  PROVE  /\ user' \in [exists : BOOLEAN, forbidden : BOOLEAN, temp : BOOLEAN,
                       locked : BOOLEAN, expiry : {"none", "set", "passed"}]
         /\ session' \in [Session -> SessionRow]
         /\ inForce' \subseteq Request \cup Session
<1>1. RevokeAll \in [Session -> SessionRow]
  BY DEF TypeOK, RevokeAll, Ended, NoSession, SessionRow, Lapse
<1> QED
  BY <1>1 DEF TypeOK, writeCredential, WriteIfExists

LEMMA InvalidateTypes ==
  ASSUME TypeOK
  PROVE  InvalidateForUser \in [Token -> TokenRow]
BY DEF TypeOK, InvalidateForUser, TokenRow

LEMMA WriterTypes ==
  ASSUME TypeOK, NEW r \in Request,
         \/ ConsumeAndSetPassword(r) \/ ClearPasswordChangeRequired(r) \/ UpdateUser(r)
         \/ SetTemporaryPassword(r) \/ RetireLinks(r) \/ IssueInvalidates(r)
  PROVE  TypeOK'
<1>1. CASE ConsumeAndSetPassword(r)
  <2>1. /\ user' \in [exists : BOOLEAN, forbidden : BOOLEAN, temp : BOOLEAN,
                      locked : BOOLEAN, expiry : {"none", "set", "passed"}]
        /\ session' \in [Session -> SessionRow]
        /\ inForce' \subseteq Request \cup Session
    <3>1. [user EXCEPT !.temp = FALSE] \in
             [exists : BOOLEAN, forbidden : BOOLEAN, temp : BOOLEAN,
              locked : BOOLEAN, expiry : {"none", "set", "passed"}]
      BY DEF TypeOK
    <3> QED
      BY <1>1, <3>1, WriteTypes DEF ConsumeAndSetPassword
  <2>2. token' \in [Token -> TokenRow] /\ uses' \in [Token -> Nat]
    <3>1. req[r].tok \in Token
      BY <1>1 DEF TypeOK, ConsumeAndSetPassword, Message, Issuing
    <3>2. [InvalidateForUser[req[r].tok] EXCEPT !.state = "used"] \in TokenRow
      BY <3>1, InvalidateTypes DEF TokenRow
    <3> HIDE DEF TokenRow
    <3>3. token' = [InvalidateForUser EXCEPT ![req[r].tok] =
                      [InvalidateForUser[req[r].tok] EXCEPT !.state = "used"]]
      BY <1>1, <3>1, InvalidateTypes DEF ConsumeAndSetPassword
    <3>4. token' \in [Token -> TokenRow]
      BY <3>2, <3>3, InvalidateTypes
    <3>5. uses' \in [Token -> Nat]
      BY <1>1, <3>1 DEF TypeOK, ConsumeAndSetPassword
    <3> QED
      BY <3>4, <3>5
  <2>3. req' \in [Request -> Message] /\ current' \subseteq Token
    BY <1>1 DEF TypeOK, ConsumeAndSetPassword, End, Continue, Idle, Message
  <2> QED
    BY <2>1, <2>2, <2>3 DEF TypeOK
<1>2. CASE ClearPasswordChangeRequired(r)
  <2>1. [user EXCEPT !.temp = FALSE, !.locked = FALSE, !.expiry = "none"] \in
             [exists : BOOLEAN, forbidden : BOOLEAN, temp : BOOLEAN,
              locked : BOOLEAN, expiry : {"none", "set", "passed"}]
    BY DEF TypeOK
  <2> QED
    BY <1>2, <2>1, WriteTypes DEF TypeOK, ClearPasswordChangeRequired, End, Continue, Idle, Message
<1>3. CASE UpdateUser(r)
  <2>1. [user EXCEPT !.temp = FALSE] \in
             [exists : BOOLEAN, forbidden : BOOLEAN, temp : BOOLEAN,
              locked : BOOLEAN, expiry : {"none", "set", "passed"}]
    BY DEF TypeOK
  <2> QED
    BY <1>3, <2>1, WriteTypes DEF TypeOK, UpdateUser, End, Continue, Idle, Message
<1>4. CASE SetTemporaryPassword(r)
  <2>1. [user EXCEPT !.temp = TRUE, !.locked = TRUE, !.expiry = "set"] \in
             [exists : BOOLEAN, forbidden : BOOLEAN, temp : BOOLEAN,
              locked : BOOLEAN, expiry : {"none", "set", "passed"}]
    BY DEF TypeOK
  <2> QED
    BY <1>4, <2>1, WriteTypes DEF TypeOK, SetTemporaryPassword, Continue, Message
<1>5. CASE RetireLinks(r)
  BY <1>5, InvalidateTypes DEF TypeOK, RetireLinks, End, Continue, Idle, Message
<1>6. CASE IssueInvalidates(r)
  BY <1>6, InvalidateTypes DEF TypeOK, IssueInvalidates, Continue, Message, Issuing, history
<1> QED
  BY <1>1, <1>2, <1>3, <1>4, <1>5, <1>6

LEMMA RowTypes ==
  ASSUME TypeOK,
         \/ \E r \in Request, s \in Session : CommitSession(r, s)
         \/ \E r \in Request, t \in Token : IssueCreates(r, t)
         \/ \E s \in Session : Logout(s) \/ SessionExpires(s)
         \/ \E t \in Token : HourPasses(t)
         \/ ForbidUser \/ UnforbidUser \/ DeleteUser \/ TemporaryPasswordExpires
  PROVE  TypeOK'
<1>1. ASSUME NEW r \in Request, NEW s \in Session, CommitSession(r, s)
      PROVE  TypeOK'
  <2>1. req[r] \in [op : {"create"}, victims : SUBSET Session, lapse : Lapse]
    BY <1>1 DEF TypeOK, CommitSession, Message, Issuing
  <2>2. session' \in [Session -> SessionRow]
    <3> SUFFICES ASSUME NEW x \in Session
                 PROVE  session'[x] \in SessionRow
      BY <1>1 DEF CommitSession
    <3>1. CASE x = s
      BY <1>1, <2>1, <3>1, StoredCount DEF CommitSession, SessionRow
    <3>2. CASE x # s
      BY <1>1, <3>2 DEF CommitSession, SessionRow, TypeOK, Ended, NoSession, Lapse
    <3> QED
      BY <3>1, <3>2
  <2>3. req' \in [Request -> Message]
    BY <1>1 DEF TypeOK, CommitSession, End, Continue, Idle, Message
  <2> QED
    BY <1>1, <2>2, <2>3 DEF TypeOK, CommitSession
<1>2. ASSUME NEW r \in Request, NEW t \in Token, IssueCreates(r, t)
      PROVE  TypeOK'
  <2>1. req[r] \in [op : Issuing, self : BOOLEAN, lapse : Lapse]
    BY <1>2 DEF TypeOK, IssueCreates, Message
  <2>2. token' \in [Token -> TokenRow]
    BY <1>2, <2>1 DEF TypeOK, IssueCreates, TokenRow
  <2> QED
    BY <1>2, <2>2 DEF TypeOK, IssueCreates, End, Continue, Idle, Message
<1>3. ASSUME NEW s \in Session, Logout(s) \/ SessionExpires(s)
      PROVE  TypeOK'
  <2>1. Ended \in SessionRow
    BY DEF Ended, NoSession, SessionRow, Lapse
  <2> QED
    BY <1>3, <2>1 DEF TypeOK, Logout, SessionExpires, history
<1>4. ASSUME NEW t \in Token, HourPasses(t)
      PROVE  TypeOK'
  BY <1>4 DEF TypeOK, HourPasses, Dead, NoToken, TokenRow, Lapse, history
<1>5. CASE ForbidUser \/ UnforbidUser \/ TemporaryPasswordExpires
  BY <1>5 DEF TypeOK, ForbidUser, UnforbidUser, TemporaryPasswordExpires, history
<1>6. CASE DeleteUser
  BY <1>6 DEF TypeOK, DeleteUser, Dead, NoToken, Ended, NoSession, TokenRow, SessionRow, Lapse, history
<1> QED
  BY <1>1, <1>2, <1>3, <1>4, <1>5, <1>6

\* The rows and the handlers of Credentials keep their types, for any number of them.
THEOREM TypeCorrect == Spec => []TypeOK
<1>1. Init => TypeOK
  BY DEF Init, TypeOK, TokenRow, SessionRow, Message, Lapse, NoToken, NoSession, Idle
<1>2. TypeOK /\ [Next]_vars => TypeOK'
  <2> SUFFICES ASSUME TypeOK, [Next]_vars
               PROVE  TypeOK'
    OBVIOUS
  <2>1. CASE UNCHANGED vars
    BY <2>1 DEF TypeOK, vars, history
  <2>2. CASE Next
    BY <2>2, HandlerTypes, WriterTypes, RowTypes DEF Next
  <2> QED
    BY <2>1, <2>2
<1> QED
  BY <1>1, <1>2, PTL DEF Spec

-----------------------------------------------------------------------------
(* What a step may do to the links, the sessions and the handlers.         *)

\* The statements that write the table of links.
LEMMA LinkSteps ==
  ASSUME [Next]_vars
  PROVE  \/ UNCHANGED <<token, uses, current>>
         \/ \E r \in Request, t \in Token : IssueCreates(r, t)
         \/ \E r \in Request : IssueInvalidates(r)
         \/ \E r \in Request : RetireLinks(r)
         \/ \E r \in Request : ConsumeAndSetPassword(r)
         \/ DeleteUser
         \/ \E t \in Token : HourPasses(t)
<1>1. CASE UNCHANGED vars
  BY <1>1 DEF vars, history
<1>2. ASSUME NEW r \in Request,
             \/ Login(r) \/ CreateSession(r) \/ ForgotPassword(r) \/ SendPasswordReset(r)
             \/ \E t \in Token : ResetPassword(r, t)
             \/ ConsumeRefused(r) \/ ChangePassword(r) \/ UpdateProfile(r)
             \/ IssueTemporaryPassword(r) \/ Abandon(r)
             \/ \E s \in Session : CommitSession(r, s)
             \/ ClearPasswordChangeRequired(r) \/ UpdateUser(r) \/ SetTemporaryPassword(r)
      PROVE  UNCHANGED <<token, uses, current>>
  BY <1>2 DEF Login, CreateSession, ForgotPassword, SendPasswordReset, BeginIssue, ResetPassword,
    ConsumeRefused, ChangePassword, UpdateProfile, IssueTemporaryPassword, Abandon, CommitSession,
    ClearPasswordChangeRequired, UpdateUser, SetTemporaryPassword, history
<1>3. ASSUME \/ \E s \in Session : Logout(s) \/ SessionExpires(s)
             \/ ForbidUser \/ UnforbidUser \/ TemporaryPasswordExpires
      PROVE  UNCHANGED <<token, uses, current>>
  BY <1>3 DEF Logout, SessionExpires, ForbidUser, UnforbidUser, TemporaryPasswordExpires, history
<1> QED
  BY <1>1, <1>2, <1>3 DEF Next

\* The statements that write the table of sessions or replace a password.
LEMMA SessionSteps ==
  ASSUME [Next]_vars
  PROVE  \/ UNCHANGED <<session, inForce>>
         \/ \E r \in Request : session' = session
              /\ (inForce' = inForce \cup {r} \/ inForce' = inForce \ {r})
         \/ \E r \in Request, s \in Session : CommitSession(r, s)
         \/ session' = RevokeAll /\ inForce' = {}
         \/ DeleteUser
         \/ \E s \in Session : session[s].state = "active"
              /\ session' = [session EXCEPT ![s] = Ended] /\ inForce' = inForce
<1>1. CASE UNCHANGED vars
  BY <1>1 DEF vars, history
<1>2. ASSUME NEW r \in Request,
             \/ CreateSession(r) \/ ForgotPassword(r) \/ SendPasswordReset(r)
             \/ \E t \in Token : ResetPassword(r, t) \/ IssueCreates(r, t)
             \/ ConsumeRefused(r) \/ ChangePassword(r) \/ UpdateProfile(r)
             \/ IssueTemporaryPassword(r) \/ IssueInvalidates(r) \/ RetireLinks(r)
      PROVE  UNCHANGED <<session, inForce>>
  BY <1>2 DEF CreateSession, ForgotPassword, SendPasswordReset, BeginIssue, ResetPassword,
    ConsumeRefused, ChangePassword, UpdateProfile, IssueTemporaryPassword, IssueCreates,
    IssueInvalidates, RetireLinks, history
<1>3. ASSUME NEW r \in Request, Login(r) \/ Abandon(r)
      PROVE  session' = session /\ (inForce' = inForce \cup {r} \/ inForce' = inForce \ {r})
  BY <1>3 DEF Login, Abandon
<1>4. ASSUME NEW r \in Request,
             \/ ConsumeAndSetPassword(r) \/ ClearPasswordChangeRequired(r) \/ UpdateUser(r)
             \/ SetTemporaryPassword(r)
      PROVE  (session' = RevokeAll /\ inForce' = {}) \/ UNCHANGED <<session, inForce>>
  BY <1>4 DEF ConsumeAndSetPassword, ClearPasswordChangeRequired, UpdateUser,
    SetTemporaryPassword, WriteIfExists, writeCredential
<1>5. ASSUME \/ \E t \in Token : HourPasses(t)
             \/ ForbidUser \/ UnforbidUser \/ TemporaryPasswordExpires
      PROVE  UNCHANGED <<session, inForce>>
  BY <1>5 DEF HourPasses, ForbidUser, UnforbidUser, TemporaryPasswordExpires, history
<1>6. ASSUME NEW s \in Session, Logout(s) \/ SessionExpires(s)
      PROVE  /\ session[s].state = "active"
             /\ session' = [session EXCEPT ![s] = Ended] /\ inForce' = inForce
  BY <1>6 DEF Logout, SessionExpires, history
<1> QED
  BY <1>1, <1>2, <1>3, <1>4, <1>5, <1>6 DEF Next

\* A handler that issues a link goes on, has just retired the earlier links, or has just
\* begun; a step moves one handler.
LEMMA IssuerSteps ==
  ASSUME TypeOK, [Next]_vars, NEW r \in Request, req'[r].op \in Issuing
  PROVE  \/ req'[r] = req[r]
         \/ /\ IssueInvalidates(r)
            /\ req'[r] = [req[r] EXCEPT !.op = "mint"]
         \/ /\ req[r] = Idle /\ req'[r].op = "issue" /\ UNCHANGED token
            /\ \A q \in Request \ {r} : req'[q] = req[q]
            /\ \/ req'[r].lapse = "overlap"
               \/ /\ InProgress(Issuing) = {}
                  /\ req'[r].self /\ req'[r].lapse = "none" => BelowIssueLimit
<1>1. ASSUME NEW q \in Request,
             \/ Login(q) \/ CreateSession(q) \/ \E t \in Token : ResetPassword(q, t)
             \/ ChangePassword(q) \/ UpdateProfile(q)
             \/ IssueTemporaryPassword(q)
      PROVE  req'[r] = req[r]
  BY <1>1 DEF TypeOK, Login, CreateSession, ResetPassword, ChangePassword,
    UpdateProfile, IssueTemporaryPassword, Begin, Continue, Issuing
<1>2. ASSUME NEW q \in Request,
             \/ ConsumeRefused(q) \/ Abandon(q) \/ ConsumeAndSetPassword(q)
             \/ ClearPasswordChangeRequired(q) \/ UpdateUser(q) \/ SetTemporaryPassword(q)
             \/ RetireLinks(q)
             \/ \E s \in Session : CommitSession(q, s)
             \/ \E t \in Token : IssueCreates(q, t)
      PROVE  req'[r] = req[r]
  BY <1>2 DEF TypeOK, ConsumeRefused, Abandon, ConsumeAndSetPassword, ClearPasswordChangeRequired,
    UpdateUser, SetTemporaryPassword, RetireLinks, CommitSession, IssueCreates, End, Continue, Idle, Issuing
<1>3. ASSUME \/ \E s \in Session : Logout(s) \/ SessionExpires(s)
             \/ \E t \in Token : HourPasses(t)
             \/ ForbidUser \/ UnforbidUser \/ DeleteUser \/ TemporaryPasswordExpires
             \/ UNCHANGED vars
      PROVE  req'[r] = req[r]
  BY <1>3 DEF Logout, SessionExpires, HourPasses, ForbidUser, UnforbidUser, DeleteUser,
    TemporaryPasswordExpires, vars
<1>4. ASSUME NEW q \in Request, IssueInvalidates(q)
      PROVE  \/ req'[r] = req[r]
             \/ IssueInvalidates(r) /\ req'[r] = [req[r] EXCEPT !.op = "mint"]
  BY <1>4 DEF TypeOK, IssueInvalidates, Continue
<1>5. ASSUME NEW q \in Request, ForgotPassword(q) \/ SendPasswordReset(q), req'[r] # req[r]
      PROVE  /\ req[r] = Idle /\ req'[r].op = "issue" /\ UNCHANGED token
             /\ \A x \in Request \ {r} : req'[x] = req[x]
             /\ \/ req'[r].lapse = "overlap"
                \/ /\ InProgress(Issuing) = {}
                   /\ req'[r].self /\ req'[r].lapse = "none" => BelowIssueLimit
  <2>1. PICK self \in BOOLEAN, lapse \in {"none", "uncounted"} :
          BeginIssue(q, self, lapse) /\ (self /\ lapse = "none" => BelowIssueLimit)
    BY <1>5 DEF ForgotPassword, SendPasswordReset
  <2>2. q = r
    BY <1>5, <2>1 DEF TypeOK, BeginIssue, Begin
  <2> QED
    BY <2>1, <2>2 DEF TypeOK, BeginIssue, Begin
<1> QED
  BY <1>1, <1>2, <1>3, <1>4, <1>5 DEF Next

-----------------------------------------------------------------------------
(* Links: single use and supersession.                                     *)

\* A link that has set a password stays unusable: it is used, or dead after that, and
\* only a row that holds no link is turned into one.
Spent == \A t \in Token : uses[t] <= 1 /\ (uses[t] = 1 => token[t].state \in {"used", "dead"})

LEMMA SpentStep ==
  ASSUME TypeOK, TypeOK', Spent, [Next]_vars
  PROVE  Spent'
<1>1. CASE UNCHANGED <<token, uses, current>>
  BY <1>1 DEF Spent
<1>2. ASSUME NEW r \in Request, NEW t \in Token, IssueCreates(r, t)
      PROVE  Spent'
  BY <1>2 DEF Spent, IssueCreates, TypeOK
<1>3. ASSUME NEW r \in Request, IssueInvalidates(r) \/ RetireLinks(r)
      PROVE  Spent'
  BY <1>3 DEF Spent, IssueInvalidates, RetireLinks, InvalidateForUser, TypeOK, TokenRow, history
<1>4. ASSUME NEW r \in Request, ConsumeAndSetPassword(r)
      PROVE  Spent'
  <2>1. req[r].tok \in Token
    BY <1>4 DEF TypeOK, ConsumeAndSetPassword, Message, Issuing
  <2>2. uses[req[r].tok] = 0
    BY <1>4, <2>1 DEF Spent, ConsumeAndSetPassword, TypeOK
  <2>3. \A t \in Token : token[t].state \in {"used", "dead"}
                         => InvalidateForUser[t].state \in {"used", "dead"}
    BY DEF InvalidateForUser, TypeOK, TokenRow
  <2>4. token'[req[r].tok].state = "used"
    BY <1>4, <2>1, InvalidateTypes DEF ConsumeAndSetPassword, TokenRow
  <2>5. \A t \in Token \ {req[r].tok} : token'[t] = InvalidateForUser[t]
    BY <1>4, <2>1, InvalidateTypes DEF ConsumeAndSetPassword
  <2>6. uses'[req[r].tok] = 1 /\ \A t \in Token \ {req[r].tok} : uses'[t] = uses[t]
    BY <1>4, <2>1, <2>2 DEF ConsumeAndSetPassword, TypeOK
  <2> QED
    BY <2>1, <2>3, <2>4, <2>5, <2>6 DEF Spent
<1>5. CASE DeleteUser
  BY <1>5 DEF Spent, DeleteUser, Dead, NoToken, TypeOK, history
<1>6. ASSUME NEW t \in Token, HourPasses(t)
      PROVE  Spent'
  BY <1>6 DEF Spent, HourPasses, Dead, NoToken, TypeOK, history
<1> QED
  BY <1>1, <1>2, <1>3, <1>4, <1>5, <1>6, LinkSteps

\* However many requests race on a link, ConsumeAndSetPassword lets one of them set a
\* password with it, for any number of links and requests.
THEOREM LinksAreSingleUse == Spec => []SingleUse
<1>1. Init => Spent
  BY DEF Init, Spent
<1>2. TypeOK /\ TypeOK' /\ Spent /\ [Next]_vars => Spent'
  BY SpentStep
<1>3. Spent => SingleUse
  BY DEF Spent, SingleUse, Valid
<1> QED
  BY <1>1, <1>2, <1>3, TypeCorrect, PTL DEF Spec

LEMMA SupersededStep ==
  ASSUME TypeOK, LinksSuperseded, [Next]_vars
  PROVE  LinksSuperseded'
<1>1. CASE UNCHANGED <<token, uses, current>>
  BY <1>1 DEF LinksSuperseded, Valid
<1>2. ASSUME NEW r \in Request, NEW t \in Token, IssueCreates(r, t)
      PROVE  LinksSuperseded'
  BY <1>2 DEF LinksSuperseded, Valid, IssueCreates, TypeOK
<1>3. ASSUME NEW r \in Request, IssueInvalidates(r) \/ RetireLinks(r)
      PROVE  LinksSuperseded'
  BY <1>3 DEF LinksSuperseded, Valid, IssueInvalidates, RetireLinks, InvalidateForUser, TypeOK, TokenRow, history
<1>4. ASSUME NEW r \in Request, ConsumeAndSetPassword(r)
      PROVE  LinksSuperseded'
  <2>1. req[r].tok \in Token
    BY <1>4 DEF TypeOK, ConsumeAndSetPassword, Message, Issuing
  <2>2. token'[req[r].tok].state = "used"
    BY <1>4, <2>1, InvalidateTypes DEF ConsumeAndSetPassword, TokenRow
  <2>3. \A t \in Token \ {req[r].tok} : token'[t] = InvalidateForUser[t]
    BY <1>4, <2>1, InvalidateTypes DEF ConsumeAndSetPassword
  <2>4. \A t \in Token : InvalidateForUser[t].state # "valid"
    BY DEF InvalidateForUser, TypeOK, TokenRow
  <2> QED
    BY <2>2, <2>3, <2>4 DEF LinksSuperseded, Valid
<1>5. CASE DeleteUser
  BY <1>5 DEF LinksSuperseded, Valid, DeleteUser, Dead, NoToken, TypeOK, history
<1>6. ASSUME NEW t \in Token, HourPasses(t)
      PROVE  LinksSuperseded'
  BY <1>6 DEF LinksSuperseded, Valid, HourPasses, Dead, NoToken, TypeOK, history
<1> QED
  BY <1>1, <1>2, <1>3, <1>4, <1>5, <1>6, LinkSteps

\* A completed reset and the retirement after a temporary password leave no earlier link
\* usable, whatever was being read or minted meanwhile.
THEOREM EarlierLinksAreSuperseded == Spec => []LinksSuperseded
<1>1. Init => LinksSuperseded
  BY DEF Init, LinksSuperseded, Valid, NoToken
<1>2. TypeOK /\ LinksSuperseded /\ [Next]_vars => LinksSuperseded'
  BY SupersededStep
<1> QED
  BY <1>1, <1>2, TypeCorrect, PTL DEF Spec

-----------------------------------------------------------------------------
(* The lock of a temporary password, and sessions against the password.    *)

LEMMA LockStep ==
  ASSUME TypeOK, TemporaryPasswordLocks, [Next]_vars
  PROVE  TemporaryPasswordLocks'
<1>1. ASSUME UNCHANGED user
      PROVE  TemporaryPasswordLocks'
  BY <1>1 DEF TemporaryPasswordLocks
<1>2. CASE UNCHANGED vars
  BY <1>1, <1>2 DEF vars
<1>3. ASSUME NEW r \in Request,
             \/ Login(r) \/ CreateSession(r) \/ ForgotPassword(r) \/ SendPasswordReset(r)
             \/ \E t \in Token : ResetPassword(r, t) \/ IssueCreates(r, t)
             \/ ConsumeRefused(r) \/ ChangePassword(r) \/ UpdateProfile(r)
             \/ IssueTemporaryPassword(r) \/ Abandon(r) \/ IssueInvalidates(r) \/ RetireLinks(r)
             \/ \E s \in Session : CommitSession(r, s)
      PROVE  UNCHANGED user
  BY <1>3 DEF Login, CreateSession, ForgotPassword, SendPasswordReset, BeginIssue, ResetPassword,
    ConsumeRefused, ChangePassword, UpdateProfile, IssueTemporaryPassword, Abandon, CommitSession,
    IssueCreates, IssueInvalidates, RetireLinks
<1>4. ASSUME \/ \E s \in Session : Logout(s) \/ SessionExpires(s)
             \/ \E t \in Token : HourPasses(t)
      PROVE  UNCHANGED user
  BY <1>4 DEF Logout, SessionExpires, HourPasses
<1>5. ASSUME NEW r \in Request, ConsumeAndSetPassword(r) \/ UpdateUser(r)
      PROVE  TemporaryPasswordLocks'
  BY <1>5 DEF ConsumeAndSetPassword, UpdateUser, WriteIfExists, writeCredential,
    TemporaryPasswordLocks, TypeOK
<1>6. ASSUME NEW r \in Request, ClearPasswordChangeRequired(r) \/ SetTemporaryPassword(r)
      PROVE  TemporaryPasswordLocks'
  BY <1>6 DEF ClearPasswordChangeRequired, SetTemporaryPassword, WriteIfExists, writeCredential,
    TemporaryPasswordLocks, TypeOK
<1>7. CASE ForbidUser \/ UnforbidUser \/ DeleteUser \/ TemporaryPasswordExpires
  BY <1>7 DEF ForbidUser, UnforbidUser, DeleteUser, TemporaryPasswordExpires,
    TemporaryPasswordLocks, TypeOK
<1> QED
  BY <1>1, <1>2, <1>3, <1>4, <1>5, <1>6, <1>7 DEF Next

\* No order of password changes, resets and temporary passwords leaves a temporary
\* password in force without its lock, or the lock without its expiry.
THEOREM TemporaryPasswordsLock == Spec => []TemporaryPasswordLocks
<1>1. Init => TemporaryPasswordLocks
  BY DEF Init, TemporaryPasswordLocks
<1>2. TypeOK /\ TemporaryPasswordLocks /\ [Next]_vars => TemporaryPasswordLocks'
  BY LockStep
<1> QED
  BY <1>1, <1>2, TypeCorrect, PTL DEF Spec

LEMMA InForceStep ==
  ASSUME TypeOK, SessionsEndWithPassword, [Next]_vars
  PROVE  SessionsEndWithPassword'
<1>1. CASE UNCHANGED <<session, inForce>>
  BY <1>1 DEF SessionsEndWithPassword, Active
<1>2. ASSUME NEW r \in Request, session' = session,
             inForce' = inForce \cup {r} \/ inForce' = inForce \ {r}
      PROVE  SessionsEndWithPassword'
  BY <1>2, CredentialsAssumption DEF SessionsEndWithPassword, Active
<1>3. ASSUME NEW r \in Request, NEW s \in Session, CommitSession(r, s)
      PROVE  SessionsEndWithPassword'
  <2> SUFFICES ASSUME NEW x \in Active'
               PROVE  x \in inForce' \/ session'[x].raced
    BY DEF SessionsEndWithPassword
  <2>1. CASE x = s
    BY <1>3, <2>1 DEF CommitSession, Active
  <2>2. CASE x # s
    <3>1. session'[x] = session[x]
      BY <1>3, <2>2 DEF CommitSession, Active, Ended, NoSession
    <3>2. x # r
      BY CredentialsAssumption DEF Active
    <3> QED
      BY <1>3, <2>2, <3>1, <3>2 DEF CommitSession, Active, SessionsEndWithPassword
  <2> QED
    BY <2>1, <2>2
<1>4. CASE session' = RevokeAll /\ inForce' = {}
  BY <1>4 DEF SessionsEndWithPassword, Active, RevokeAll, Ended, NoSession
<1>5. CASE DeleteUser
  BY <1>5 DEF DeleteUser, SessionsEndWithPassword, Active, Ended, NoSession
<1>6. ASSUME NEW s \in Session, session[s].state = "active",
             session' = [session EXCEPT ![s] = Ended], inForce' = inForce
      PROVE  SessionsEndWithPassword'
  BY <1>6 DEF SessionsEndWithPassword, Active, Ended, NoSession, TypeOK
<1> QED
  BY <1>1, <1>2, <1>3, <1>4, <1>5, <1>6, SessionSteps

\* No remembered session outlives the password it was opened with, unless the password
\* was replaced between the comparison and the commit of that very login.
THEOREM SessionsEndWithTheirPassword == Spec => []SessionsEndWithPassword
<1>1. Init => SessionsEndWithPassword
  BY DEF Init, SessionsEndWithPassword, Active, NoSession
<1>2. TypeOK /\ SessionsEndWithPassword /\ [Next]_vars => SessionsEndWithPassword'
  BY InForceStep
<1> QED
  BY <1>1, <1>2, TypeCorrect, PTL DEF Spec

-----------------------------------------------------------------------------
(* One live link, and the limit of links an hour.  Both rest on the same   *)
(* invariant: among the handlers that issue a link at one time, at most    *)
(* one came while no other was (Sole); from its retirement of the earlier  *)
(* links to its insert, every link minted is of an overlapping handler,    *)
(* and so is every link that could fill the window it has counted.         *)

Sole(r) == req[r].op \in Issuing /\ req[r].lapse # "overlap"
Counted == {t \in Token : token[t].recent /\ token[t].self /\ token[t].lapse = "none"}

LinkInv ==
  /\ \A r, q \in Request : Sole(r) /\ Sole(q) => r = q
  /\ \A r \in Request : Sole(r) /\ req[r].op = "mint" => \A t \in Valid : token[t].lapse = "overlap"
  /\ \A t, u \in Valid : token[t].lapse # "overlap" /\ token[u].lapse # "overlap" => t = u
  /\ \A r \in Request : Sole(r) /\ req[r].self /\ req[r].lapse = "none"
                          => Cardinality(Counted) < maxTokensPerAccountPerHour
  /\ Cardinality(Counted) <= maxTokensPerAccountPerHour

LEMMA CountedFinite ==
  /\ IsFiniteSet(Counted) /\ Cardinality(Counted) \in Nat
  /\ IsFiniteSet(Counted') /\ Cardinality(Counted') \in Nat
<1>1. Counted \subseteq Token /\ Counted' \subseteq Token
  BY DEF Counted
<1> QED
  BY <1>1, CredentialsAssumption, FS_Subset, FS_CardinalityType

\* InvalidateForUser leaves a row where it is counted, and no link usable.
LEMMA InvalidatedRows ==
  ASSUME TypeOK, NEW t \in Token
  PROVE  /\ InvalidateForUser[t].state # "valid"
         /\ InvalidateForUser[t].recent = token[t].recent
         /\ InvalidateForUser[t].self = token[t].self
         /\ InvalidateForUser[t].lapse = token[t].lapse
BY DEF InvalidateForUser, TypeOK, TokenRow

\* Only the insert of a link adds one to those that are usable or counted.
LEMMA LinksOnlyLapse ==
  ASSUME TypeOK, [Next]_vars, ~ \E r \in Request, t \in Token : IssueCreates(r, t)
  PROVE  /\ \A t \in Token : t \in Valid' => t \in Valid /\ token'[t].lapse = token[t].lapse
         /\ Counted' \subseteq Counted
<1>1. CASE UNCHANGED <<token, uses, current>>
  BY <1>1 DEF Valid, Counted
<1>3. ASSUME NEW r \in Request, IssueInvalidates(r) \/ RetireLinks(r)
      PROVE  /\ \A t \in Token : t \in Valid' => t \in Valid /\ token'[t].lapse = token[t].lapse
             /\ Counted' \subseteq Counted
  <2>1. token' = InvalidateForUser
    BY <1>3 DEF IssueInvalidates, RetireLinks
  <2> QED
    BY <2>1, InvalidatedRows DEF Valid, Counted
<1>4. ASSUME NEW r \in Request, ConsumeAndSetPassword(r)
      PROVE  /\ \A t \in Token : t \in Valid' => t \in Valid /\ token'[t].lapse = token[t].lapse
             /\ Counted' \subseteq Counted
  <2>1. req[r].tok \in Token
    BY <1>4 DEF TypeOK, ConsumeAndSetPassword, Message, Issuing
  <2>2. token'[req[r].tok] = [InvalidateForUser[req[r].tok] EXCEPT !.state = "used"]
    BY <1>4, <2>1, InvalidateTypes DEF ConsumeAndSetPassword
  <2>3. \A t \in Token \ {req[r].tok} : token'[t] = InvalidateForUser[t]
    BY <1>4, <2>1, InvalidateTypes DEF ConsumeAndSetPassword
  <2>5. \A t \in Token : /\ token'[t].state # "valid"
                         /\ token'[t].recent = token[t].recent
                         /\ token'[t].self = token[t].self
                         /\ token'[t].lapse = token[t].lapse
    BY <2>1, <2>2, <2>3, InvalidatedRows, InvalidateTypes DEF TokenRow
  <2> QED
    BY <2>5 DEF Valid, Counted
<1>5. CASE DeleteUser
  BY <1>5 DEF Valid, Counted, DeleteUser, Dead, NoToken, TypeOK
<1>6. ASSUME NEW t \in Token, HourPasses(t)
      PROVE  /\ \A x \in Token : x \in Valid' => x \in Valid /\ token'[x].lapse = token[x].lapse
             /\ Counted' \subseteq Counted
  BY <1>6 DEF Valid, Counted, HourPasses, Dead, NoToken, TypeOK
<1> QED
  BY <1>1, <1>3, <1>4, <1>5, <1>6, LinkSteps

\* A handler that came alone was there alone: the others in progress are not Sole.
LEMMA SoleStep ==
  ASSUME TypeOK, LinkInv, [Next]_vars
  PROVE  /\ \A r, q \in Request : Sole(r)' /\ Sole(q)' => r = q
         /\ \A r \in Request : Sole(r)' =>
              \/ /\ Sole(r) /\ req'[r].self = req[r].self /\ req'[r].lapse = req[r].lapse
                 /\ req'[r].op = "mint" => req[r].op = "mint" \/ IssueInvalidates(r)
              \/ /\ UNCHANGED token /\ req'[r].op = "issue"
                 /\ req'[r].self /\ req'[r].lapse = "none" => BelowIssueLimit
<1>1. ASSUME NEW r \in Request, Sole(r)'
      PROVE  \/ /\ Sole(r) /\ req'[r].self = req[r].self /\ req'[r].lapse = req[r].lapse
                /\ req'[r].op = "mint" => req[r].op = "mint" \/ IssueInvalidates(r)
             \/ /\ UNCHANGED token /\ req'[r].op = "issue"
                /\ req'[r].self /\ req'[r].lapse = "none" => BelowIssueLimit
                /\ InProgress(Issuing) = {}
                /\ \A q \in Request \ {r} : req'[q] = req[q]
  <2>1. CASE req'[r] = req[r]
    BY <1>1, <2>1 DEF Sole
  <2>2. CASE IssueInvalidates(r) /\ req'[r] = [req[r] EXCEPT !.op = "mint"]
    <3>1. req[r] \in [op : Issuing, self : BOOLEAN, lapse : Lapse]
      BY <2>2 DEF TypeOK, IssueInvalidates, Message
    <3> QED
      BY <1>1, <2>2, <3>1 DEF Sole, IssueInvalidates, Issuing
  <2> QED
    BY <1>1, <2>1, <2>2, IssuerSteps DEF Sole
<1>2. ASSUME NEW r \in Request, NEW q \in Request, Sole(r)', Sole(q)', r # q
      PROVE  FALSE
  <2>1. CASE Sole(r) /\ Sole(q)
    BY <1>2, <2>1 DEF LinkInv
  <2>2. ASSUME NEW a \in Request, NEW b \in Request, a # b, Sole(b)',
               InProgress(Issuing) = {}, \A x \in Request \ {a} : req'[x] = req[x]
        PROVE  FALSE
    BY <2>2 DEF InProgress, Sole
  <2> QED
    BY <1>1, <1>2, <2>1, <2>2
<1> QED
  BY <1>1, <1>2

LEMMA LinkInvStep ==
  ASSUME TypeOK, LinkInv, [Next]_vars
  PROVE  LinkInv'
<1>1. \A r, q \in Request : Sole(r)' /\ Sole(q)' => r = q
  BY SoleStep
<1>2. CASE ~ \E r \in Request, t \in Token : IssueCreates(r, t)
  <2>1. \A t \in Token : t \in Valid' => t \in Valid /\ token'[t].lapse = token[t].lapse
    BY <1>2, LinksOnlyLapse
  <2>2. Cardinality(Counted') <= Cardinality(Counted)
    BY <1>2, LinksOnlyLapse, CountedFinite, FS_Subset
  <2>3. \A t, u \in Valid' : token'[t].lapse # "overlap" /\ token'[u].lapse # "overlap" => t = u
    <3>1. Valid' \subseteq Token
      BY DEF Valid
    <3> QED
      BY <2>1, <3>1 DEF LinkInv
  <2>4. ASSUME NEW r \in Request, Sole(r)', req'[r].op = "mint", NEW t \in Valid'
        PROVE  token'[t].lapse = "overlap"
    <3>0. t \in Token
      BY DEF Valid
    <3>1. Sole(r) /\ (req[r].op = "mint" \/ IssueInvalidates(r))
      BY <2>4, SoleStep
    <3>2. CASE req[r].op = "mint"
      BY <2>1, <2>4, <3>0, <3>1, <3>2 DEF LinkInv
    <3>3. CASE IssueInvalidates(r)
      BY <2>4, <3>0, <3>3 DEF IssueInvalidates, InvalidateForUser, Valid, TypeOK, TokenRow
    <3> QED
      BY <3>1, <3>2, <3>3
  <2>5. ASSUME NEW r \in Request, Sole(r)', req'[r].self, req'[r].lapse = "none"
        PROVE  Cardinality(Counted') < maxTokensPerAccountPerHour
    <3>1. CASE Sole(r) /\ req[r].self /\ req[r].lapse = "none"
      BY <2>2, <3>1, CountedFinite, CredentialsAssumption DEF LinkInv
    <3>2. CASE BelowIssueLimit
      <4>1. Counted \subseteq {t \in Token : token[t].recent}
        BY DEF Counted
      <4>2. Cardinality(Counted) <= Cardinality({t \in Token : token[t].recent})
            /\ Cardinality({t \in Token : token[t].recent}) \in Nat
        BY <4>1, CredentialsAssumption, FS_Subset, FS_CardinalityType
      <4> QED
        BY <2>2, <3>2, <4>2, CountedFinite, CredentialsAssumption DEF BelowIssueLimit
    <3> QED
      BY <2>5, <3>1, <3>2, SoleStep
  <2>6. Cardinality(Counted') <= maxTokensPerAccountPerHour
    BY <2>2, CountedFinite, CredentialsAssumption DEF LinkInv
  <2> QED
    BY <1>1, <2>3, <2>4, <2>5, <2>6 DEF LinkInv
<1>3. ASSUME NEW r \in Request, NEW t \in Token, IssueCreates(r, t)
      PROVE  LinkInv'
  <2>1. req[r] \in [op : Issuing, self : BOOLEAN, lapse : Lapse] /\ req[r].op \in Issuing
    BY <1>3 DEF TypeOK, IssueCreates, Message, Issuing
  <2>2. /\ token'[t].lapse = req[r].lapse /\ token'[t].self = req[r].self /\ token'[t].recent
        /\ \A u \in Token \ {t} : token'[u] = token[u]
    BY <1>3, <2>1 DEF TypeOK, IssueCreates
  <2>3. Valid' = Valid \cup {t}
    BY <1>3, <2>1 DEF Valid, IssueCreates, TypeOK
  <2>4. ~ Sole(r)' /\ \A q \in Request \ {r} : req'[q] = req[q]
    BY <1>3 DEF TypeOK, IssueCreates, End, Continue, Idle, Sole, Issuing
  <2>5. \A q \in Request : Sole(q)' => q # r /\ Sole(q) /\ req'[q] = req[q]
    BY <2>4 DEF Sole
  <2>6. \A q \in Request : Sole(q)' => req[r].lapse = "overlap"
    BY <2>1, <2>5 DEF LinkInv, Sole
  <2>7. \A u \in Valid : u # t /\ u \in Token
    BY <1>3 DEF IssueCreates, Valid
  <2>8. Counted' \subseteq Counted \cup {t}
    BY <2>2 DEF Counted
  <2>9. (req[r].self /\ req[r].lapse = "none") \/ Counted' \subseteq Counted
    BY <2>2 DEF Counted
  <2>10. Cardinality(Counted') <= Cardinality(Counted) + 1
    <3>1. /\ IsFiniteSet(Counted \cup {t})
          /\ \/ Cardinality(Counted \cup {t}) = Cardinality(Counted)
             \/ Cardinality(Counted \cup {t}) = Cardinality(Counted) + 1
      BY CountedFinite, FS_AddElement
    <3>2. Cardinality(Counted') <= Cardinality(Counted \cup {t})
      BY <2>8, <3>1, FS_Subset
    <3> QED
      BY <3>1, <3>2, CountedFinite
  <2>11. Counted' \subseteq Counted => Cardinality(Counted') <= Cardinality(Counted)
    BY CountedFinite, FS_Subset
  <2>12. ASSUME NEW q \in Request, Sole(q)', req'[q].op = "mint", NEW u \in Valid'
         PROVE  token'[u].lapse = "overlap"
    <3>1. CASE u = t
      BY <2>2, <2>6, <2>12, <3>1
    <3>2. CASE u # t
      <4>1. u \in Valid /\ token'[u] = token[u]
        BY <2>2, <2>3, <2>7, <2>12, <3>2
      <4>2. Sole(q) /\ req[q].op = "mint"
        BY <2>5, <2>12
      <4> QED
        BY <4>1, <4>2 DEF LinkInv
    <3> QED
      BY <3>1, <3>2
  <2>13. ASSUME NEW u \in Valid', NEW v \in Valid',
                token'[u].lapse # "overlap", token'[v].lapse # "overlap"
         PROVE  u = v
    <3>1. \A x \in Valid' : x = t \/ (x \in Valid /\ x # t /\ token'[x] = token[x])
      BY <2>2, <2>3, <2>7
    <3>2. CASE u = t \/ v = t
      <4>1. CASE Sole(r)
        <5>1. \A x \in Valid : token[x].lapse = "overlap"
          BY <1>3, <4>1 DEF LinkInv, IssueCreates
        <5> QED
          BY <2>13, <3>1, <3>2, <5>1
      <4>2. CASE ~ Sole(r)
        BY <2>1, <2>2, <2>13, <3>1, <3>2, <4>2 DEF Sole
      <4> QED
        BY <4>1, <4>2
    <3>3. CASE u # t /\ v # t
      BY <2>13, <3>1, <3>3 DEF LinkInv
    <3> QED
      BY <3>2, <3>3
  <2>14. ASSUME NEW q \in Request, Sole(q)', req'[q].self, req'[q].lapse = "none"
         PROVE  Cardinality(Counted') < maxTokensPerAccountPerHour
    <3>1. Counted' \subseteq Counted
      BY <2>6, <2>9, <2>14
    <3>2. Sole(q) /\ req[q].self /\ req[q].lapse = "none"
      BY <2>5, <2>14
    <3> QED
      BY <2>11, <3>1, <3>2, CountedFinite, CredentialsAssumption DEF LinkInv
  <2>15. Cardinality(Counted') <= maxTokensPerAccountPerHour
    <3>1. CASE Counted' \subseteq Counted
      BY <2>11, <3>1, CountedFinite, CredentialsAssumption DEF LinkInv
    <3>2. CASE req[r].self /\ req[r].lapse = "none"
      BY <2>1, <2>10, <3>2, CountedFinite, CredentialsAssumption DEF LinkInv, Sole
    <3> QED
      BY <2>9, <3>1, <3>2
  <2> QED
    BY <1>1, <2>12, <2>13, <2>14, <2>15 DEF LinkInv
<1> QED
  BY <1>2, <1>3

LEMMA LinkInvInit == Init => LinkInv
<1> SUFFICES ASSUME Init
             PROVE  LinkInv
  OBVIOUS
<1>1. Counted = {} /\ Valid = {}
  BY DEF Init, Counted, Valid, NoToken
<1>2. \A r \in Request : ~ Sole(r)
  BY DEF Init, Sole, Idle, Issuing
<1>3. Cardinality(Counted) = 0
  BY <1>1, FS_EmptySet
<1> QED
  BY <1>1, <1>2, <1>3, CredentialsAssumption DEF LinkInv

\* Issue retires the earlier links: however requests interleave, one link is usable at a
\* time, not counting those whose request came while another was issuing one.
THEOREM OneLinkIsLive == Spec => []OneLiveLink
<1>1. Init => LinkInv
  BY LinkInvInit
<1>2. TypeOK /\ LinkInv /\ [Next]_vars => LinkInv'
  BY LinkInvStep
<1>3. LinkInv => OneLiveLink
  <2> SUFFICES ASSUME LinkInv
               PROVE  Cardinality({t \in Valid : token[t].lapse # "overlap"}) <= 1
    BY DEF OneLiveLink
  <2> DEFINE L == {t \in Valid : token[t].lapse # "overlap"}
  <2>1. CASE L = {}
    BY <2>1, FS_EmptySet
  <2>2. CASE L # {}
    <3>1. PICK t \in L : TRUE
      BY <2>2
    <3>2. L = {t}
      BY <3>1 DEF LinkInv
    <3> QED
      BY <3>2, FS_Singleton
  <2> QED
    BY <2>1, <2>2
<1> QED
  BY <1>1, <1>2, <1>3, TypeCorrect, PTL DEF Spec

\* issueResetIfEligible: the account's owner is sent at most maxTokensPerAccountPerHour
\* links an hour, but for the handlers that overlapped another or could not count.
THEOREM LinksAreLimited == Spec => []IssueLimit
<1>1. Init => LinkInv
  BY LinkInvInit
<1>2. TypeOK /\ LinkInv /\ [Next]_vars => LinkInv'
  BY LinkInvStep
<1>3. LinkInv => IssueLimit
  BY DEF LinkInv, IssueLimit, Counted
<1> QED
  BY <1>1, <1>2, <1>3, TypeCorrect, PTL DEF Spec

-----------------------------------------------------------------------------
(* The cap on sessions.                                                    *)

\* Every non-empty set of naturals has a least element.
LEMMA NatMin ==
  ASSUME NEW S \in SUBSET Nat, S # {}
  PROVE  \E x \in S : \A y \in S : x <= y
<1> DEFINE R == OpToRel(<, Nat)
<1>1. IsWellFoundedOn(R, Nat)
  BY NatLessThanWellFounded
<1>2. \A T : T \subseteq Nat /\ T # {} => \E x \in T : \A y \in T : ~(<<y, x>> \in R)
  BY <1>1, WFMin
<1>3. \A x, y \in Nat : <<y, x>> \in R <=> y < x
  BY DEF OpToRel
<1> HIDE DEF R
<1>4. PICK x \in S : \A y \in S : ~(<<y, x>> \in R)
  BY <1>2
<1>5. \A y \in S : ~ (y < x)
  BY <1>3, <1>4
<1> QED
  BY <1>5

\* The rows that fewer than n others are newer than are at most n: OFFSET n keeps n rows.
LEMMA NewestAreFew ==
  ASSUME NEW S, IsFiniteSet(S), NEW n \in Nat,
         \A s \in S : Rank(s) \in Nat, \A x, y \in S : Rank(x) = Rank(y) => x = y
  PROVE  Cardinality({s \in S : Cardinality({x \in S : Rank(x) > Rank(s)}) < n}) <= n
<1> DEFINE Newer(s) == {x \in S : Rank(x) > Rank(s)}
           K == {s \in S : Cardinality(Newer(s)) < n}
<1> HIDE DEF K
<1>1. CASE K = {}
  <2>1. Cardinality(K) = 0
    BY <1>1, FS_EmptySet
  <2> QED
    BY <2>1 DEF K
<1>2. CASE K # {}
  <2> DEFINE D == {Rank(s) : s \in K}
  <2>1. D \subseteq Nat /\ D # {}
    BY <1>2 DEF K
  <2>2. PICK d \in D : \A e \in D : d <= e
    BY <2>1, NatMin
  <2>3. PICK k \in K : d = Rank(k)
    BY <2>2
  <2>4. K \ {k} \subseteq Newer(k)
    <3> SUFFICES ASSUME NEW x \in K, x # k
                 PROVE  x \in S /\ Rank(x) > Rank(k)
      OBVIOUS
    <3>1. x \in S /\ k \in S /\ Rank(x) \in Nat /\ Rank(k) \in Nat /\ Rank(x) # Rank(k)
      BY DEF K
    <3>2. Rank(k) <= Rank(x)
      BY <2>2, <2>3
    <3> QED
      BY <3>1, <3>2
  <2>5. IsFiniteSet(Newer(k)) /\ IsFiniteSet(K)
    BY FS_Subset DEF K
  <2>6. Cardinality(K \ {k}) <= Cardinality(Newer(k)) /\ Cardinality(Newer(k)) \in Nat
    BY <2>4, <2>5, FS_Subset, FS_CardinalityType
  <2>7. Cardinality(K \ {k}) = Cardinality(K) - 1 /\ Cardinality(K) \in Nat
    BY <2>5, FS_RemoveElement, FS_CardinalityType
  <2>8. Cardinality(Newer(k)) < n
    BY DEF K
  <2>9. Cardinality(K) <= n
    BY <2>6, <2>7, <2>8
  <2> QED
    BY <2>9 DEF K
<1> QED
  BY <1>1, <1>2

Stored == {s \in Session : session[s].state # "none"}
Uncontested == {s \in Active : session[s].lapse = "none"}
Lone(r) == req[r].op = "create" /\ req[r].lapse = "none"

\* Ranks order the active sessions.  At most one handler in the middle of Create came
\* while no other was, and the sessions it has not chosen to revoke leave it room: other
\* handlers only add sessions that overlap it.
CapInv ==
  /\ \A x, y \in Active : Rank(x) = Rank(y) => x = y
  /\ \A x \in Active : Rank(x) <= Cardinality(Stored)
  /\ \A r, q \in Request : Lone(r) /\ Lone(q) => r = q
  /\ \A r \in Request : Lone(r) => Cardinality(Uncontested \ req[r].victims) < MaxSessionsPerUser
  /\ Cardinality(Uncontested) <= MaxSessionsPerUser

LEMMA SessionsFinite ==
  ASSUME NEW S \in SUBSET Session
  PROVE  IsFiniteSet(S) /\ Cardinality(S) \in Nat
BY CredentialsAssumption, FS_Subset, FS_CardinalityType

LEMMA SmallerSet ==
  ASSUME NEW S \in SUBSET Session, NEW T \in SUBSET S
  PROVE  Cardinality(T) <= Cardinality(S) /\ Cardinality(T) \in Nat /\ Cardinality(S) \in Nat
BY SessionsFinite, FS_Subset

\* Only the commit of a login stores a session; the other statements end some.
LEMMA SessionsOnlyEnd ==
  ASSUME TypeOK, [Next]_vars, ~ \E r \in Request, s \in Session : CommitSession(r, s)
  PROVE  /\ \A s \in Session : s \in Active' => s \in Active /\ session'[s] = session[s]
         /\ Stored' = Stored /\ Uncontested' \subseteq Uncontested
<1>1. (\A s \in Session : \/ session'[s] = session[s]
                          \/ session[s].state # "none" /\ session'[s] = Ended)
      => /\ \A s \in Session : s \in Active' => s \in Active /\ session'[s] = session[s]
         /\ Stored' = Stored /\ Uncontested' \subseteq Uncontested
  BY DEF Active, Stored, Uncontested, Ended, NoSession
<1>2. CASE session' = session
  BY <1>1, <1>2
<1>3. CASE session' = RevokeAll
  BY <1>1, <1>3 DEF RevokeAll
<1>4. CASE DeleteUser
  <2>1. \A s \in Session : \/ session'[s] = session[s]
                           \/ session[s].state # "none" /\ session'[s] = Ended
                           \/ session[s].state = "none" /\ session'[s] = NoSession
    BY <1>4 DEF DeleteUser
  <2> QED
    BY <2>1 DEF Active, Stored, Uncontested, Ended, NoSession
<1>5. ASSUME NEW s \in Session, session[s].state = "active",
             session' = [session EXCEPT ![s] = Ended]
      PROVE  \A x \in Session : \/ session'[x] = session[x]
                                \/ session[x].state # "none" /\ session'[x] = Ended
  BY <1>5 DEF TypeOK
<1> QED
  BY <1>1, <1>2, <1>3, <1>4, <1>5, SessionSteps

\* A handler in the middle of Create stays there, or has just read the sessions.
LEMMA CreatorSteps ==
  ASSUME TypeOK, [Next]_vars, NEW r \in Request, req'[r].op = "create"
  PROVE  \/ req'[r] = req[r]
         \/ /\ CreateSession(r) /\ UNCHANGED session
            /\ req'[r].victims = BeyondCap(Active)
            /\ req'[r].lapse = "none" => InProgress({"create"}) = {}
            /\ \A q \in Request \ {r} : req'[q] = req[q]
<1>1. ASSUME NEW q \in Request,
             \/ Login(q) \/ \E t \in Token : ResetPassword(q, t)
             \/ ForgotPassword(q) \/ SendPasswordReset(q)
             \/ ChangePassword(q) \/ UpdateProfile(q)
             \/ IssueTemporaryPassword(q)
      PROVE  req'[r] = req[r]
  BY <1>1 DEF TypeOK, Login, ResetPassword, ForgotPassword, SendPasswordReset, BeginIssue,
    ChangePassword, UpdateProfile, IssueTemporaryPassword, Begin
<1>2. ASSUME NEW q \in Request,
             \/ ConsumeRefused(q) \/ Abandon(q) \/ ConsumeAndSetPassword(q)
             \/ ClearPasswordChangeRequired(q) \/ UpdateUser(q) \/ SetTemporaryPassword(q)
             \/ RetireLinks(q)
             \/ \E s \in Session : CommitSession(q, s)
             \/ \E t \in Token : IssueCreates(q, t)
      PROVE  req'[r] = req[r]
  BY <1>2 DEF TypeOK, ConsumeRefused, Abandon, ConsumeAndSetPassword, ClearPasswordChangeRequired,
    UpdateUser, SetTemporaryPassword, RetireLinks, CommitSession, IssueCreates, End, Continue, Idle
<1>3. ASSUME \/ \E s \in Session : Logout(s) \/ SessionExpires(s)
             \/ \E t \in Token : HourPasses(t)
             \/ ForbidUser \/ UnforbidUser \/ DeleteUser \/ TemporaryPasswordExpires
             \/ UNCHANGED vars
      PROVE  req'[r] = req[r]
  BY <1>3 DEF Logout, SessionExpires, HourPasses, ForbidUser, UnforbidUser, DeleteUser,
    TemporaryPasswordExpires, vars
<1>4. ASSUME NEW q \in Request, IssueInvalidates(q)
      PROVE  req'[r] = req[r]
  <2>1. req[q] \in [op : Issuing, self : BOOLEAN, lapse : Lapse]
    BY <1>4 DEF TypeOK, IssueInvalidates, Message
  <2> QED
    BY <1>4, <2>1 DEF TypeOK, IssueInvalidates, Continue
<1>5. ASSUME NEW q \in Request, CreateSession(q), req'[r] # req[r]
      PROVE  /\ CreateSession(r) /\ UNCHANGED session
             /\ req'[r].victims = BeyondCap(Active)
             /\ req'[r].lapse = "none" => InProgress({"create"}) = {}
             /\ \A x \in Request \ {r} : req'[x] = req[x]
  <2>1. q = r
    BY <1>5 DEF TypeOK, CreateSession, Continue
  <2> QED
    BY <1>5, <2>1 DEF TypeOK, CreateSession, Continue
<1> QED
  BY <1>1, <1>2, <1>3, <1>4, <1>5 DEF Next

\* The sessions a lone handler does not revoke leave room for its own.
LEMMA RoomForOne ==
  ASSUME TypeOK, CapInv
  PROVE  Cardinality(Uncontested \ BeyondCap(Active)) < MaxSessionsPerUser
<1> DEFINE n == MaxSessionsPerUser - 1
           Kept == {s \in Active : Cardinality({x \in Active : Rank(x) > Rank(s)}) < n}
<1>1. n \in Nat
  BY CredentialsAssumption
<1>2. Active \in SUBSET Session /\ \A s \in Active : Rank(s) \in Nat
  BY DEF Active, Rank, TypeOK, SessionRow
<1>3. IsFiniteSet(Active)
  BY <1>2, SessionsFinite
<1>4. Cardinality(Kept) <= n
  BY <1>1, <1>2, <1>3, NewestAreFew DEF CapInv
<1>5. Uncontested \ BeyondCap(Active) \subseteq Kept
  <2> SUFFICES ASSUME NEW s \in Uncontested, s \notin BeyondCap(Active)
               PROVE  s \in Kept
    OBVIOUS
  <2>1. s \in Active
    BY DEF Uncontested
  <2>2. ~ (Cardinality({x \in Active : Rank(x) > Rank(s)}) + 1 >= MaxSessionsPerUser)
    BY <2>1 DEF BeyondCap
  <2>3. Cardinality({x \in Active : Rank(x) > Rank(s)}) \in Nat
    BY <1>2, SessionsFinite
  <2> QED
    BY <2>1, <2>2, <2>3, CredentialsAssumption
<1>6. Kept \in SUBSET Session
  BY <1>2
<1> HIDE DEF Kept
<1>7. Cardinality(Uncontested \ BeyondCap(Active)) <= Cardinality(Kept)
      /\ Cardinality(Uncontested \ BeyondCap(Active)) \in Nat /\ Cardinality(Kept) \in Nat
  BY <1>5, <1>6, SmallerSet
<1> QED
  BY <1>1, <1>4, <1>7, CredentialsAssumption

\* Of two handlers in the middle of Create, at most one came alone.
LEMMA LoneStep ==
  ASSUME TypeOK, CapInv, [Next]_vars
  PROVE  \A r, q \in Request : Lone(r)' /\ Lone(q)' => r = q
<1> SUFFICES ASSUME NEW r \in Request, NEW q \in Request, Lone(r)', Lone(q)', r # q
             PROVE  FALSE
  OBVIOUS
<1>1. CASE req'[r] = req[r] /\ req'[q] = req[q]
  BY <1>1 DEF CapInv, Lone
<1>2. ASSUME NEW a \in Request, NEW b \in Request, a # b, Lone(a)', Lone(b)', req'[a] # req[a]
      PROVE  FALSE
  <2>1. InProgress({"create"}) = {} /\ req'[b] = req[b]
    BY <1>2, CreatorSteps DEF Lone
  <2> QED
    BY <1>2, <2>1 DEF InProgress, Lone
<1> QED
  BY <1>1, <1>2

LEMMA CapInvStep ==
  ASSUME TypeOK, TypeOK', CapInv, [Next]_vars
  PROVE  CapInv'
<1>0. /\ Active \in SUBSET Session /\ Uncontested \in SUBSET Session /\ Stored \in SUBSET Session
      /\ Active' \in SUBSET Session /\ Uncontested' \in SUBSET Session /\ Stored' \in SUBSET Session
  BY DEF Active, Uncontested, Stored
<1>1. \A r, q \in Request : Lone(r)' /\ Lone(q)' => r = q
  BY LoneStep
<1>2. CASE ~ \E r \in Request, s \in Session : CommitSession(r, s)
  <2>1. /\ \A s \in Session : s \in Active' => s \in Active /\ session'[s] = session[s]
        /\ Stored' = Stored /\ Uncontested' \subseteq Uncontested
    BY <1>2, SessionsOnlyEnd
  <2>2. \A x, y \in Active' : Rank(x)' = Rank(y)' => x = y
    BY <1>0, <2>1 DEF CapInv, Rank
  <2>3. \A x \in Active' : Rank(x)' <= Cardinality(Stored')
    BY <1>0, <2>1 DEF CapInv, Rank
  <2>4. ASSUME NEW r \in Request, Lone(r)'
        PROVE  Cardinality(Uncontested' \ req'[r].victims) < MaxSessionsPerUser
    <3>1. CASE req'[r] = req[r]
      <4>1. Cardinality(Uncontested \ req[r].victims) < MaxSessionsPerUser
        BY <2>4, <3>1 DEF CapInv, Lone
      <4>2. /\ Cardinality(Uncontested' \ req'[r].victims) <= Cardinality(Uncontested \ req[r].victims)
            /\ Cardinality(Uncontested' \ req'[r].victims) \in Nat
            /\ Cardinality(Uncontested \ req[r].victims) \in Nat
        <5>1. /\ Uncontested \ req[r].victims \in SUBSET Session
              /\ Uncontested' \ req'[r].victims \in SUBSET (Uncontested \ req[r].victims)
          BY <1>0, <2>1, <3>1
        <5> QED
          BY <5>1, SmallerSet
      <4> QED
        BY <4>1, <4>2, CredentialsAssumption
    <3>2. CASE UNCHANGED session /\ req'[r].victims = BeyondCap(Active)
      <4>1. Uncontested' \ req'[r].victims = Uncontested \ BeyondCap(Active)
        BY <3>2 DEF Uncontested, Active
      <4> QED
        BY <4>1, RoomForOne
    <3> QED
      BY <2>4, <3>1, <3>2, CreatorSteps DEF Lone
  <2>5. Cardinality(Uncontested') <= MaxSessionsPerUser
    BY <1>0, <2>1, SmallerSet, CredentialsAssumption DEF CapInv
  <2> QED
    BY <1>1, <2>2, <2>3, <2>4, <2>5 DEF CapInv
<1>3. ASSUME NEW r \in Request, NEW s \in Session, CommitSession(r, s)
      PROVE  CapInv'
  <2> DEFINE n == Cardinality(Stored)
  <2>1. n \in Nat
    BY <1>0, SessionsFinite
  <2>2. /\ session[s].state = "none" /\ session'[s].state = "active"
        /\ session'[s].lapse = req[r].lapse /\ session'[s].rank = n + 1
    BY <1>3 DEF CommitSession, Stored
  <2>3. \A x \in Session \ {s} : \/ session'[x] = session[x] /\ x \notin req[r].victims
                                 \/ session'[x] = Ended /\ x \in req[r].victims
    BY <1>3 DEF CommitSession
  <2>4. Active' \subseteq Active \cup {s} /\ s \notin Active
        /\ \A x \in Active' \ {s} : x \in Active /\ session'[x] = session[x] /\ x \notin req[r].victims
    BY <2>2, <2>3 DEF Active, Ended, NoSession
  <2>5. Cardinality(Stored') >= n + 1 /\ Cardinality(Stored') \in Nat
    <3>1. Stored \cup {s} \subseteq Stored' /\ s \notin Stored
      BY <2>2, <2>3 DEF Stored, Ended, NoSession
    <3>2. Cardinality(Stored \cup {s}) = n + 1
      BY <1>0, <3>1, SessionsFinite, FS_AddElement
    <3> QED
      BY <1>0, <3>1, <3>2, SmallerSet
  <2>6. \A x \in Active : Rank(x) \in Nat /\ Rank(x) <= n
    BY DEF CapInv, Active, Rank, TypeOK, SessionRow
  <2>7. \A x, y \in Active' : Rank(x)' = Rank(y)' => x = y
    <3>1. \A x \in Active' \ {s} : Rank(x)' = Rank(x) /\ x \in Active /\ Rank(x)' # n + 1
      BY <2>1, <2>4, <2>6 DEF Rank
    <3>2. Rank(s)' = n + 1
      BY <2>2 DEF Rank
    <3> QED
      BY <3>1, <3>2 DEF CapInv
  <2>8. \A x \in Active' : Rank(x)' <= Cardinality(Stored')
    <3> SUFFICES ASSUME NEW x \in Active'
                 PROVE  Rank(x)' <= Cardinality(Stored')
      OBVIOUS
    <3>1. CASE x = s
      BY <2>1, <2>2, <2>5, <3>1 DEF Rank
    <3>2. CASE x # s
      <4>1. Rank(x)' = Rank(x) /\ x \in Active
        BY <2>4, <3>2 DEF Rank
      <4> QED
        BY <2>1, <2>5, <2>6, <4>1
    <3> QED
      BY <3>1, <3>2
  <2>9. ~ Lone(r)' /\ \A q \in Request \ {r} : req'[q] = req[q]
    BY <1>3 DEF TypeOK, CommitSession, End, Continue, Idle, Lone
  <2>10. CASE req[r].lapse = "none"
    <3>1. Lone(r)
      BY <1>3, <2>10 DEF CommitSession, Lone
    <3>2. \A q \in Request : ~ Lone(q)'
      BY <2>9, <3>1 DEF Lone, CapInv
    <3>3. Uncontested' \subseteq (Uncontested \ req[r].victims) \cup {s}
      BY <2>4 DEF Uncontested
    <3>4. Cardinality(Uncontested \ req[r].victims) < MaxSessionsPerUser
      BY <3>1 DEF CapInv
    <3>5. Cardinality(Uncontested') <= MaxSessionsPerUser
      <4> DEFINE U == Uncontested \ req[r].victims
      <4>1. U \in SUBSET Session /\ U \cup {s} \in SUBSET Session
        BY <1>0
      <4> HIDE DEF U
      <4>2. IsFiniteSet(U) /\ Cardinality(U) \in Nat
        BY <4>1, SessionsFinite
      <4>3. Cardinality(U \cup {s}) = Cardinality(U) \/ Cardinality(U \cup {s}) = Cardinality(U) + 1
        BY <4>2, FS_AddElement
      <4>4. Uncontested' \in SUBSET (U \cup {s})
        BY <3>3 DEF U
      <4>5. Cardinality(Uncontested') <= Cardinality(U \cup {s}) /\ Cardinality(Uncontested') \in Nat
        BY <4>1, <4>4, SmallerSet
      <4>6. Cardinality(U) < MaxSessionsPerUser
        BY <3>4 DEF U
      <4> QED
        BY <4>2, <4>3, <4>5, <4>6, CredentialsAssumption
    <3> QED
      BY <1>1, <2>7, <2>8, <3>2, <3>5 DEF CapInv
  <2>11. CASE req[r].lapse # "none"
    <3>1. Uncontested' \subseteq Uncontested
      BY <2>2, <2>4, <2>11 DEF Uncontested
    <3>2. Cardinality(Uncontested') <= MaxSessionsPerUser
      BY <1>0, <3>1, SmallerSet, CredentialsAssumption DEF CapInv
    <3>3. ASSUME NEW q \in Request, Lone(q)'
          PROVE  Cardinality(Uncontested' \ req'[q].victims) < MaxSessionsPerUser
      <4>1. Lone(q) /\ req'[q] = req[q]
        BY <2>9, <3>3 DEF Lone
      <4>2. Cardinality(Uncontested \ req[q].victims) < MaxSessionsPerUser
        BY <4>1 DEF CapInv
      <4>3. /\ Uncontested \ req[q].victims \in SUBSET Session
            /\ Uncontested' \ req'[q].victims \in SUBSET (Uncontested \ req[q].victims)
        BY <1>0, <3>1, <4>1
      <4>4. /\ Cardinality(Uncontested' \ req'[q].victims) <= Cardinality(Uncontested \ req[q].victims)
            /\ Cardinality(Uncontested' \ req'[q].victims) \in Nat
            /\ Cardinality(Uncontested \ req[q].victims) \in Nat
        BY <4>3, SmallerSet
      <4> QED
        BY <4>2, <4>4, CredentialsAssumption
    <3> QED
      BY <1>1, <2>7, <2>8, <3>2, <3>3 DEF CapInv
  <2> QED
    BY <2>10, <2>11
<1> QED
  BY <1>2, <1>3

\* RememberSessionStore.Create keeps at most MaxSessionsPerUser sessions, whatever logins,
\* logouts, expiries and password changes interleave, but for those stored while another was.
THEOREM SessionsAreCapped == Spec => []SessionCap
<1>1. Init => CapInv
  <2> SUFFICES ASSUME Init
               PROVE  CapInv
    OBVIOUS
  <2>1. Active = {} /\ Uncontested = {}
    BY DEF Init, Active, Uncontested, NoSession
  <2>2. \A r \in Request : ~ Lone(r)
    BY DEF Init, Lone, Idle
  <2>3. Cardinality(Uncontested) = 0
    BY <2>1, FS_EmptySet
  <2> QED
    BY <2>1, <2>2, <2>3, CredentialsAssumption DEF CapInv
<1>2. TypeOK /\ TypeOK' /\ CapInv /\ [Next]_vars => CapInv'
  BY CapInvStep
<1>3. CapInv => SessionCap
  BY DEF CapInv, SessionCap, Uncontested
<1> QED
  BY <1>1, <1>2, <1>3, TypeCorrect, PTL DEF Spec
=============================================================================
