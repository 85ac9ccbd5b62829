---------------------------- MODULE Credentials ----------------------------
(***************************************************************************)
(* The ways into one account: its password, the reset links sent by mail,  *)
(* the temporary password an administrator reads out, and the 30-day       *)
(* remembered sessions (internal/identity, internal/admin and the stores   *)
(* of internal/data).  Every statement is keyed by the account, so one     *)
(* account is enough.                                                      *)
(*                                                                         *)
(* A handler reads, decides and writes in separate statements: a Request   *)
(* is a handler in progress and remembers what it has read.  Time is only  *)
(* told apart by the limits that pass: an hour for a link (its validity,   *)
(* and the window of the issue limit), the validity of a temporary         *)
(* password, 30 days for a session.  A JWT lives 24 h and cannot be        *)
(* revoked, so a handler behind one may start at any time the middleware   *)
(* admits the account; the steps that only hand one out (RememberRefresh,  *)
(* the OAuth callbacks) change nothing here.                               *)
(***************************************************************************)
EXTENDS Naturals, FiniteSets

CONSTANTS
  Token,     \* rows of password_reset_tokens
  Session,   \* rows of remember_sessions
  Request,   \* handlers that may be in progress at once
  maxTokensPerAccountPerHour,   \* 3 in the code
  MaxSessionsPerUser            \* 10 in the code

ASSUME CredentialsAssumption ==
  /\ IsFiniteSet(Token) /\ IsFiniteSet(Session) /\ Session \cap Request = {}
  /\ maxTokensPerAccountPerHour \in Nat \ {0}
  /\ MaxSessionsPerUser \in Nat \ {0}

VARIABLES
  user,      \* the row of users
  token,     \* password_reset_tokens
  session,   \* remember_sessions
  req,       \* the handlers in progress
  \* History variables; the code has no such state.
  uses,      \* how many passwords a link has set
  current,   \* links minted since the last event that retires every link
  inForce    \* logins and sessions whose password has not been replaced since

history == <<uses, current, inForce>>
vars == <<user, token, session, req, history>>

\* user.temp says that an administrator issued the password in force (the code knows
\* only the lock, password_change_required_at); user.expiry is temp_password_expires_at:
\* none, set, or passed.  A token is dead when it has expired, was retired or its
\* account is gone, and a session is ended when it has expired, was revoked or its
\* account is gone: no statement tells these apart.  The lapse of a token or a session
\* is history too: that it was stored while another one was ("overlap"), or, for a
\* token, without counting the recent ones ("uncounted"); raced, that the password a
\* session was opened with had been replaced when it was stored.
NoToken   == [state |-> "none", recent |-> FALSE, self |-> FALSE, lapse |-> "none"]
Dead      == [NoToken EXCEPT !.state = "dead"]
NoSession == [state |-> "none", rank |-> 0, lapse |-> "none", raced |-> FALSE]
Ended     == [NoSession EXCEPT !.state = "ended"]
Idle      == [op |-> "idle"]

Init ==
  /\ user = [exists |-> TRUE, forbidden |-> FALSE,
             temp |-> FALSE, locked |-> FALSE, expiry |-> "none"]
  /\ token = [t \in Token |-> NoToken]
  /\ session = [s \in Session |-> NoSession]
  /\ req = [r \in Request |-> Idle]
  /\ uses = [t \in Token |-> 0]
  /\ current = {} /\ inForce = {}

Begin(r, next) == req[r] = Idle /\ req' = [req EXCEPT ![r] = next]
Continue(r, next) == req' = [req EXCEPT ![r] = next]
End(r) == Continue(r, Idle)

Active == {s \in Session : session[s].state = "active"}
Valid  == {t \in Token : token[t].state = "valid"}
InProgress(ops) == {r \in Request : req[r].op \in ops}

-----------------------------------------------------------------------------
(* Statements.                                                             *)

\* revokeAllRememberSQL.
RevokeAll ==
  [s \in Session |-> IF session[s].state = "active" THEN Ended ELSE session[s]]

\* InvalidateForUser.
InvalidateForUser ==
  [t \in Token |-> IF token[t].state = "valid"
                     THEN [token[t] EXCEPT !.state = "dead"] ELSE token[t]]

\* Mutant: the sessions of other devices stay open.
WriteWithoutRevoke(newUser) ==
  user' = newUser /\ session' = session /\ inForce' = {}

\* writeCredential: the password and the end of every session, in one transaction.
writeCredential(newUser) ==
  user' = newUser /\ session' = RevokeAll /\ inForce' = {}

\* An UPDATE of an account that is gone changes no row.
WriteIfExists(newUser) ==
  IF user.exists THEN writeCredential(newUser) ELSE UNCHANGED <<user, session, inForce>>

\* resolveActiveUser and enforceActiveUser, for a request with a JWT.
resolveActiveUser == user.exists /\ ~ user.forbidden
enforceActiveUser == resolveActiveUser /\ ~ user.locked

-----------------------------------------------------------------------------
(* Login, with remember_me: the account is read and the password compared;  *)
(* then the session is inserted and the oldest beyond the cap revoked, in   *)
(* one transaction that sees only what is committed.                        *)

Login(r) ==
  /\ user.exists /\ ~ user.forbidden /\ user.expiry # "passed"
  /\ Begin(r, [op |-> "login"])
  /\ inForce' = inForce \cup {r}
  /\ UNCHANGED <<user, token, session, uses, current>>

Rank(s) == session[s].rank

\* Mutant: one session more than the cap is kept.
BeyondCapByOne(S) ==
  {s \in S : Cardinality({x \in S : Rank(x) > Rank(s)}) >= MaxSessionsPerUser}

\* ORDER BY created_at DESC ... OFFSET MaxSessionsPerUser, the new session included.
BeyondCap(S) ==
  {s \in S : Cardinality({x \in S : Rank(x) > Rank(s)}) + 1 >= MaxSessionsPerUser}

\* The statements of RememberSessionStore.Create.
CreateSession(r) ==
  /\ req[r].op = "login" /\ user.exists
  /\ Continue(r, [op |-> "create", victims |-> BeyondCap(Active),
                  lapse |-> IF InProgress({"create"}) # {} THEN "overlap" ELSE "none"])
  /\ UNCHANGED <<user, token, session, history>>

\* Its commit.
CommitSession(r, s) ==
  /\ req[r].op = "create" /\ session[s].state = "none" /\ user.exists
  /\ session' = [x \in Session |->
       CASE x = s -> [state |-> "active", lapse |-> req[r].lapse, raced |-> r \notin inForce,
                      rank |-> Cardinality({y \in Session : session[y].state # "none"}) + 1]
         [] x # s /\ x \in req[r].victims -> Ended
         [] OTHER -> session[x]]
  /\ inForce' = (inForce \ {r}) \cup {x \in {s} : r \in inForce}
  /\ End(r)
  /\ UNCHANGED <<user, token, uses, current>>

\* Logout revokes the session it names and no other.
Logout(s) ==
  /\ session[s].state = "active"
  /\ session' = [session EXCEPT ![s] = Ended]
  /\ UNCHANGED <<user, token, req, history>>

-----------------------------------------------------------------------------
(* Reset links.                                                            *)

Issuing == {"issue", "mint"}

BeginIssue(r, self, lapse) ==
  /\ user.exists /\ ~ user.forbidden
  /\ Begin(r, [op |-> "issue", self |-> self,
               lapse |-> IF InProgress(Issuing) # {} THEN "overlap" ELSE lapse])
  /\ UNCHANGED <<user, token, session, history>>

\* Mutant: the account limit is off by one.
RecentAllowsOneMore ==
  Cardinality({t \in Token : token[t].recent}) <= maxTokensPerAccountPerHour

\* CountRecentForUser, and the limit of issueResetIfEligible.
BelowIssueLimit ==
  Cardinality({t \in Token : token[t].recent}) < maxTokensPerAccountPerHour

\* ForgotPassword; when the count fails, the link is issued all the same.
ForgotPassword(r) ==
  \/ BelowIssueLimit /\ BeginIssue(r, TRUE, "none")
  \/ ~ BelowIssueLimit /\ BeginIssue(r, TRUE, "uncounted")

\* SendPasswordReset of an administrator: not limited.
SendPasswordReset(r) == BeginIssue(r, FALSE, "none")

\* Mutant: earlier links are left alone.
IssueKeepsLinks(r) ==
  /\ req[r].op = "issue"
  /\ Continue(r, [req[r] EXCEPT !.op = "mint"])
  /\ UNCHANGED <<user, token, session, history>>

\* Issue: the earlier links are retired first ...
IssueInvalidates(r) ==
  /\ req[r].op = "issue"
  /\ token' = InvalidateForUser
  /\ Continue(r, [req[r] EXCEPT !.op = "mint"])
  /\ UNCHANGED <<user, session, history>>

\* ... then the new one is inserted, unless the account is gone.  The purge of rows
\* older than 30 days removes no link that could still be used.
IssueCreates(r, t) ==
  /\ req[r].op = "mint" /\ token[t].state = "none" /\ user.exists
  /\ token' = [token EXCEPT ![t] = [state |-> "valid", recent |-> TRUE,
                                    self |-> req[r].self, lapse |-> req[r].lapse]]
  /\ current' = (current \cap Valid) \cup {t}
  /\ End(r)
  /\ UNCHANGED <<user, session, uses, inForce>>

\* ResetPassword: the link and the account are read; a forbidden account loses its links.
ResetPassword(r, t) ==
  /\ token[t].state = "valid" /\ user.exists
  /\ Begin(r, IF user.forbidden THEN [op |-> "retire"] ELSE [op |-> "reset", tok |-> t])
  /\ UNCHANGED <<user, token, session, history>>

\* Mutant: the UPDATE that consumes the link does not ask that it be valid.
ConsumeUnconditionally(r) ==
  /\ req[r].op = "reset" /\ user.exists
  /\ LET t == req[r].tok IN
       /\ token' = [InvalidateForUser EXCEPT ![t].state = "used"]
       /\ uses' = [uses EXCEPT ![t] = @ + 1]
  /\ writeCredential([user EXCEPT !.temp = FALSE])
  /\ current' = {}
  /\ End(r)

\* Mutant: the other links of the account survive.
ConsumeKeepsLinks(r) ==
  /\ req[r].op = "reset" /\ user.exists
  /\ LET t == req[r].tok IN
       /\ token[t].state = "valid"
       /\ token' = [token EXCEPT ![t].state = "used"]
       /\ uses' = [uses EXCEPT ![t] = @ + 1]
  /\ writeCredential([user EXCEPT !.temp = FALSE])
  /\ current' = {}
  /\ End(r)

\* ConsumeAndSetPassword: one transaction, which writes the password only if the link
\* is still valid, and leaves the lock and the expiry of a temporary password alone.
ConsumeAndSetPassword(r) ==
  /\ req[r].op = "reset" /\ user.exists
  /\ LET t == req[r].tok IN
       /\ token[t].state = "valid"
       /\ token' = [InvalidateForUser EXCEPT ![t].state = "used"]
       /\ uses' = [uses EXCEPT ![t] = @ + 1]
  /\ writeCredential([user EXCEPT !.temp = FALSE])
  /\ current' = {}
  /\ End(r)

\* ErrTokenNotConsumable: the race was lost, or the link has expired or is gone.
ConsumeRefused(r) ==
  /\ req[r].op = "reset" /\ token[req[r].tok].state # "valid"
  /\ End(r)
  /\ UNCHANGED <<user, token, session, history>>

-----------------------------------------------------------------------------
(* The other ways to write a password.                                     *)

\* ChangePassword: allowed while the lock is on; the current password is compared ...
ChangePassword(r) ==
  /\ resolveActiveUser
  /\ Begin(r, [op |-> "change"])
  /\ UNCHANGED <<user, token, session, history>>

\* ... and ClearPasswordChangeRequired writes the new one, whatever happened since.
ClearPasswordChangeRequired(r) ==
  /\ req[r].op = "change"
  /\ WriteIfExists([user EXCEPT !.temp = FALSE, !.locked = FALSE, !.expiry = "none"])
  /\ End(r)
  /\ UNCHANGED <<token, uses, current>>

\* UpdateProfile with a password: refused while the lock is on ...
UpdateProfile(r) ==
  /\ enforceActiveUser
  /\ Begin(r, [op |-> "profile"])
  /\ UNCHANGED <<user, token, session, history>>

\* ... and UpdateUser leaves the lock as it finds it.
UpdateUser(r) ==
  /\ req[r].op = "profile"
  /\ WriteIfExists([user EXCEPT !.temp = FALSE])
  /\ End(r)
  /\ UNCHANGED <<token, uses, current>>

\* IssueTemporaryPassword: the account is read, ...
IssueTemporaryPassword(r) ==
  /\ user.exists /\ ~ user.forbidden
  /\ Begin(r, [op |-> "temp"])
  /\ UNCHANGED <<user, token, session, history>>

\* Mutant: the lock is forgotten.
TemporaryWithoutLock(r) ==
  /\ req[r].op = "temp"
  /\ WriteIfExists([user EXCEPT !.temp = TRUE, !.expiry = "set"])
  /\ Continue(r, [op |-> "retire"])
  /\ UNCHANGED <<token, uses, current>>

\* ... the temporary password and the lock are written together, ...
SetTemporaryPassword(r) ==
  /\ req[r].op = "temp"
  /\ WriteIfExists([user EXCEPT !.temp = TRUE, !.locked = TRUE, !.expiry = "set"])
  /\ Continue(r, [op |-> "retire"])
  /\ UNCHANGED <<token, uses, current>>

\* ... and the outstanding links are retired by another statement, whose error is
\* ignored (Abandon).
RetireLinks(r) ==
  /\ req[r].op = "retire"
  /\ token' = InvalidateForUser
  /\ current' = {}
  /\ End(r)
  /\ UNCHANGED <<user, session, uses, inForce>>

-----------------------------------------------------------------------------
\* A handler stops where it is: the new password is too weak or not new, remember_me was
\* not asked, or a statement failed, and with it the transaction it was in.  What other
\* statements have written stays.
Abandon(r) ==
  /\ req[r] # Idle
  /\ inForce' = inForce \ {r}
  /\ End(r)
  /\ UNCHANGED <<user, token, session, uses, current>>

-----------------------------------------------------------------------------
(* Administration and time.                                                *)

ForbidUser ==
  /\ user.exists /\ user' = [user EXCEPT !.forbidden = TRUE]
  /\ UNCHANGED <<token, session, req, history>>

UnforbidUser ==
  /\ user.exists /\ user' = [user EXCEPT !.forbidden = FALSE]
  /\ UNCHANGED <<token, session, req, history>>

\* DeleteUser, of an administrator or of the profile: links and sessions cascade.
DeleteUser ==
  /\ user.exists
  /\ user' = [user EXCEPT !.exists = FALSE]
  /\ token' = [t \in Token |-> IF token[t].state = "none" THEN NoToken ELSE Dead]
  /\ session' = [s \in Session |-> IF session[s].state = "none" THEN NoSession ELSE Ended]
  /\ UNCHANGED <<req, history>>

\* An hour after it was issued a link expires and leaves the window of the limit.
HourPasses(t) ==
  /\ token[t].recent
  /\ token' = [token EXCEPT ![t] = Dead]
  /\ UNCHANGED <<user, session, req, history>>

\* The temporary password is no longer accepted at login.
TemporaryPasswordExpires ==
  /\ user.expiry = "set" /\ user' = [user EXCEPT !.expiry = "passed"]
  /\ UNCHANGED <<token, session, req, history>>

\* Thirty days after the login.
SessionExpires(s) ==
  /\ session[s].state = "active"
  /\ session' = [session EXCEPT ![s] = Ended]
  /\ UNCHANGED <<user, token, req, history>>

-----------------------------------------------------------------------------
Next ==
  \/ \E r \in Request :
       \/ Login(r)
       \/ CreateSession(r)
       \/ \E s \in Session : CommitSession(r, s)
       \/ ForgotPassword(r)
       \/ SendPasswordReset(r)
       \/ IssueInvalidates(r)
       \/ \E t \in Token : IssueCreates(r, t)
       \/ \E t \in Token : ResetPassword(r, t)
       \/ ConsumeAndSetPassword(r)
       \/ ConsumeRefused(r)
       \/ ChangePassword(r)
       \/ ClearPasswordChangeRequired(r)
       \/ UpdateProfile(r)
       \/ UpdateUser(r)
       \/ IssueTemporaryPassword(r)
       \/ SetTemporaryPassword(r)
       \/ RetireLinks(r)
       \/ Abandon(r)
  \/ \E s \in Session : Logout(s) \/ SessionExpires(s)
  \/ \E t \in Token : HourPasses(t)
  \/ ForbidUser
  \/ UnforbidUser
  \/ DeleteUser
  \/ TemporaryPasswordExpires

Spec == Init /\ [][Next]_vars

-----------------------------------------------------------------------------
(* Properties.                                                             *)

Lapse == {"none", "overlap", "uncounted"}
TokenRow == [state : {"none", "valid", "used", "dead"}, recent : BOOLEAN, self : BOOLEAN,
             lapse : Lapse]
SessionRow == [state : {"none", "active", "ended"}, rank : Nat, lapse : Lapse, raced : BOOLEAN]
Message ==
  [op : {"idle", "login", "change", "profile", "temp", "retire"}]
  \cup [op : {"create"}, victims : SUBSET Session, lapse : Lapse]
  \cup [op : Issuing, self : BOOLEAN, lapse : Lapse]
  \cup [op : {"reset"}, tok : Token]

\* The rows and the handlers' local state have their types.
TypeOK ==
  /\ user \in [exists : BOOLEAN, forbidden : BOOLEAN, temp : BOOLEAN,
               locked : BOOLEAN, expiry : {"none", "set", "passed"}]
  /\ token \in [Token -> TokenRow]
  /\ session \in [Session -> SessionRow]
  /\ req \in [Request -> Message]
  /\ uses \in [Token -> Nat]
  /\ current \subseteq Token /\ inForce \subseteq Request \cup Session

\* ConsumeAndSetPassword is the single-use guarantee: however many requests race on a
\* link, it sets one password, and a link that set one cannot be used again.
SingleUse == \A t \in Token : uses[t] <= 1 /\ (uses[t] = 1 => t \notin Valid)

\* A completed reset, and a temporary password once its links are retired, leave no
\* earlier link usable, also when the link was being read or minted meanwhile.
LinksSuperseded == Valid \subseteq current

\* Issue retires the earlier links: one link is usable at a time, not counting those
\* whose request came while another was issuing one.
OneLiveLink == Cardinality({t \in Valid : token[t].lapse # "overlap"}) <= 1

\* issueResetIfEligible: an account is sent at most maxTokensPerAccountPerHour links an
\* hour on its owner's request, not counting those whose request came while another was
\* issuing one, or whose count of the recent ones failed.
IssueLimit ==
  Cardinality({t \in Token : token[t].recent /\ token[t].self /\ token[t].lapse = "none"})
    <= maxTokensPerAccountPerHour

\* writeCredential: a remembered session lives only as long as the password it was
\* opened with, unless that password was replaced while the login was in progress.
SessionsEndWithPassword == \A s \in Active : s \in inForce \/ session[s].raced

\* RememberSessionStore.Create: no more than MaxSessionsPerUser sessions are active, not
\* counting those stored while another was.
SessionCap == Cardinality({s \in Active : session[s].lapse = "none"}) <= MaxSessionsPerUser

\* A temporary password in force always locks the account, and an account is not
\* locked without one having been issued: the lock and the expiry come and go together.
TemporaryPasswordLocks ==
  /\ user.temp => user.locked
  /\ user.locked <=> user.expiry # "none"
=============================================================================
