------------------------------ MODULE Accounts ------------------------------
(***************************************************************************)
(* The users, what administrators do to them, and what the users may ask   *)
(* of their cabinet (internal/admin/authz.go, admin/handlers.go, identity/ *)
(* handlers.go, identity/oauth.go, middleware/user_status.go,              *)
(* data/user_store.go, handlers/portal.go, handlers/scenarios.go,          *)
(* data/store.go), composed with module Cabinets.  A request is let        *)
(* through on one read of the caller's row, and its handler reads the row  *)
(* of the email again and does not look at the ban.  One of an             *)
(* administrator then reads the target's row, decides, and writes by the   *)
(* target's id, whatever either row holds by then; a link in cabinet mode  *)
(* is followed by the binding of the cabinet.                              *)
(*                                                                         *)
(* Passwords and sessions are module Credentials'.  The role in a token is *)
(* left out: user management goes by the row, and who reviews link         *)
(* requests is not told apart.                                             *)
(***************************************************************************)
EXTENDS Cabinets

CONSTANTS
  EmailOf,      \* the email a user id is for: an id is never used twice, an email may be
  AdminEmails,  \* ADMIN_EMAILS
  None,         \* no link
  RoleGiven,    \* the roles administrators give
  LinksGiven,   \* the links administrators give
  Founders,     \* the rows of users the system starts with
  LinkRequest,  \* the ids of link requests
  Approved,     \* the users of the link requests approved at the start
  Request       \* handlers that may be in progress at once

Privileged == {"admin_global", "admin_local", "support"}
LocalRoles == {"user", "guest_local"}
Role == Privileged \cup LocalRoles
Links == [machine : Machine \cup {None}, gateway : {None, "server", "cm5"}, armoire : Machine \cup {None}]
UserRow == [role : Role, forbidden : BOOLEAN, links : Links]
LinkRow == [user : User, status : {"pending", "approved", "rejected"}]
Unlinked == [machine |-> None, gateway |-> None, armoire |-> None]

ASSUME AccountsAssumption ==
  /\ DOMAIN EmailOf = User
  /\ RoleGiven \subseteq Role /\ LinksGiven \subseteq Links
  /\ Absent \notin UserRow /\ Absent \notin LinkRow /\ Absent \notin User
  /\ Founders \in [User -> UserRow \cup {Absent}]
  /\ \A u, v \in User : Founders[u] # Absent /\ Founders[v] # Absent /\ EmailOf[u] = EmailOf[v] => u = v
  /\ Approved \in [LinkRequest -> User \cup {Absent}]

VARIABLES
  users,     \* the table users
  gone,      \* the ids that were deleted
  requests,  \* the table link_requests
  req        \* the handlers in progress

vars == <<cabinetVars, ops, users, gone, requests, req>>
accountVars == <<users, gone, requests, req>>

Idle == [op |-> "idle"]
Goto(p, next) == req' = [req EXCEPT ![p] = next]
Live == {u \in User : users[u] # Absent}
Free(p) == p = CHOOSE q \in Request : req[q] = Idle   \* handlers are alike: one that is free
ByEmail(e) == {u \in Live : EmailOf[u] = e}

\* A row as a handler read it.
Reading == [id : User, row : UserRow]
Read(u) == [id |-> u, row |-> users[u]]

Init ==
  /\ InitCabinets
  /\ users = Founders /\ gone = {}
  /\ requests = [r \in LinkRequest |->
       IF Approved[r] = Absent THEN Absent ELSE [user |-> Approved[r], status |-> "approved"]]
  /\ req = [p \in Request |-> Idle]

-----------------------------------------------------------------------------
(* Who asks.                                                               *)

\* resolveActiveUser: the account exists and is not forbidden.
Active(u) == u \in Live /\ ~ users[u].forbidden

\* Mutant: the ban is not looked at.
LetAllThrough(p, u) ==
  /\ req[p] = Idle /\ Free(p) /\ u \in Live /\ Operation
  /\ Goto(p, [op |-> "checked", seen |-> Read(u)])
  /\ UNCHANGED <<cabinetVars, users, gone, requests>>

\* The middleware lets an active account through ...
EnforceActiveUser(p, u) ==
  /\ req[p] = Idle /\ Free(p) /\ Active(u) /\ Operation
  /\ Goto(p, [op |-> "checked", seen |-> Read(u)])
  /\ UNCHANGED <<cabinetVars, users, gone, requests>>

\* ... and the handler finds the row of the email, if there is one by now: to administer
\* users, to command the cabinet, to leave, to name a machine, or to apply for a link.
GetUserByEmail(p, route) ==
  /\ req[p].op = "checked"
  /\ LET found == ByEmail(EmailOf[req[p].seen.id]) IN
       IF found = {} THEN Goto(p, Idle)
       ELSE \E u \in found : Goto(p, [op |-> route, seen |-> req[p].seen, by |-> Read(u)])
  /\ UNCHANGED <<cabinetVars, ops, users, gone, requests>>

-----------------------------------------------------------------------------
(* Accounts come and go.                                                   *)

\* A new account, if the email is not taken.
Create(p, e, role) ==
  /\ req[p] = Idle /\ Free(p) /\ Operation
  /\ ByEmail(e) = {}
  /\ Goto(p, [op |-> "create", email |-> e, role |-> role])
  /\ UNCHANGED <<cabinetVars, users, gone, requests>>

Register(p, e) == Create(p, e, "guest_local")

\* CreateUser of the administration, which the holder of ADMIN_TOKEN may always call.
AdminCreateUser(p, e) == Create(p, e, "guest_local")

\* Sign-up with a provider: the role depends on the email.
RoleOf(e) == IF e \in AdminEmails THEN "admin_global" ELSE "user"
GoogleCallback(p, e) == Create(p, e, RoleOf(e))
AppleCallback(p, e) == Create(p, e, RoleOf(e))

\* Mutant: the insertion does not mind the email.
CreateTwice(p) ==
  /\ req[p].op = "create" /\ Goto(p, Idle)
  /\ LET new == {u \in User \ (Live \cup gone) : EmailOf[u] = req[p].email} IN
       IF new = {} THEN UNCHANGED users
       ELSE users' = [users EXCEPT ![CHOOSE u \in new : TRUE] =
              [role |-> req[p].role, forbidden |-> FALSE, links |-> Unlinked]]
  /\ UNCHANGED <<cabinetVars, ops, gone, requests>>

\* The insertion fails when the email was taken meanwhile (UNIQUE).
CreateUser(p) ==
  /\ req[p].op = "create" /\ Goto(p, Idle)
  /\ LET e == req[p].email  new == {u \in User \ (Live \cup gone) : EmailOf[u] = e} IN
       IF ByEmail(e) # {} \/ new = {} THEN UNCHANGED users
       ELSE users' = [users EXCEPT ![CHOOSE u \in new : TRUE] =
              [role |-> req[p].role, forbidden |-> FALSE, links |-> Unlinked]]
  /\ UNCHANGED <<cabinetVars, ops, gone, requests>>

Remove(u) ==
  /\ users' = [users EXCEPT ![u] = Absent]
  /\ gone' = gone \cup {u}

\* The writes go by the id: on a row that is gone they do nothing.
Change(u, row) == users' = IF u \in Live THEN [users EXCEPT ![u] = row] ELSE users
RemoveIfThere(u) == IF u \in Live THEN Remove(u) ELSE UNCHANGED <<users, gone>>

\* A user deletes the own account.
DeleteProfile(p) ==
  /\ req[p].op = "leave" /\ Goto(p, Idle)
  /\ RemoveIfThere(req[p].by.id)
  /\ UNCHANGED <<cabinetVars, ops, requests>>

\* A user names the own machine and gateway; the cabinet is dropped, nothing is checked.
UpdateProfileLinks(p, m, g) ==
  /\ req[p].op = "ownlinks" /\ Goto(p, Idle)
  /\ LET u == req[p].by.id IN
       Change(u, [users[u] EXCEPT !.links = [machine |-> m, gateway |-> g, armoire |-> None]])
  /\ UNCHANGED <<cabinetVars, ops, gone, requests>>

-----------------------------------------------------------------------------
(* Administration of users.                                                *)

Admins == {u \in Live : users[u].role = "admin_global"}

callerOwnsTarget(caller, target) ==
  caller.links.machine # None /\ caller.links.machine = target.links.machine

\* Mutant: a local administrator gives any role.
AllowedAnyRole(caller, target, action, role) ==
  \/ /\ caller.row.role = "admin_global"
     /\ (action \in {"delete", "forbid", "unforbid"} => caller.id # target.id)
  \/ /\ caller.row.role = "admin_local"
     /\ callerOwnsTarget(caller.row, target.row) /\ target.row.role \in LocalRoles

\* AuthorizeAdminTarget, once the target is found and up to the count.
Allowed(caller, target, action, role) ==
  \/ /\ caller.row.role = "admin_global"
     /\ (action \in {"delete", "forbid", "unforbid"} => caller.id # target.id)
  \/ /\ caller.row.role = "admin_local"
     /\ callerOwnsTarget(caller.row, target.row) /\ target.row.role \in LocalRoles
     /\ (action = "role" => role \in LocalRoles)

\* The target is read and the decision made: on to the write, or refused; before a global
\* administrator is deleted they are counted.
AuthorizeAdminTarget(p, t, action, role, links) ==
  /\ req[p].op = "caller"
  /\ LET last == action = "delete" /\ users[t].role = "admin_global" IN
       Goto(p, IF t \in Live /\ Allowed(req[p].by, Read(t), action, role)
               THEN [op |-> IF last THEN "count" ELSE action, seen |-> req[p].seen, by |-> req[p].by,
                     target |-> Read(t), role |-> role, links |-> links]
               ELSE Idle)
  /\ UNCHANGED <<cabinetVars, ops, users, gone, requests>>

CountAdminGlobal(p) ==
  /\ req[p].op = "count"
  /\ Goto(p, IF Cardinality(Admins) > 1 THEN [req[p] EXCEPT !.op = "delete"] ELSE Idle)
  /\ UNCHANGED <<cabinetVars, ops, users, gone, requests>>

UpdateUserRole(p) ==
  /\ req[p].op = "role" /\ Goto(p, Idle)
  /\ LET t == req[p].target.id IN Change(t, [users[t] EXCEPT !.role = req[p].role])
  /\ UNCHANGED <<cabinetVars, ops, gone, requests>>

\* ForbidUser and UnforbidUser, refused when the row that was read has the flag already.
ForbidUser(p) ==
  /\ req[p].op \in {"forbid", "unforbid"} /\ Goto(p, Idle)
  /\ LET t == req[p].target.id  flag == req[p].op = "forbid" IN
       IF req[p].target.row.forbidden = flag THEN UNCHANGED users
       ELSE Change(t, [users[t] EXCEPT !.forbidden = flag])
  /\ UNCHANGED <<cabinetVars, ops, gone, requests>>

DeleteUser(p) ==
  /\ req[p].op = "delete" /\ Goto(p, Idle)
  /\ RemoveIfThere(req[p].target.id)
  /\ UNCHANGED <<cabinetVars, ops, requests>>

\* IsRemoteEligibleGateway
Remote(links) == links.gateway = "cm5"

\* The body is refused with the VPS gateway and a machine, or a CM5 gateway without one.
ValidateAdminUserLinks(links) ==
  /\ links.gateway = "server" => links.machine = None /\ links.armoire = None
  /\ links.gateway = "cm5" => links.machine # None

\* The body is validated and the target read once more, which must be there ...
CheckLinks(p) ==
  /\ req[p].op = "links"
  /\ Goto(p, IF ValidateAdminUserLinks(req[p].links) /\ req[p].target.id \in Live
             THEN [req[p] EXCEPT !.op = "relink"] ELSE Idle)
  /\ UNCHANGED <<cabinetVars, ops, users, gone, requests>>

\* ... the links are written, and the cabinet they name is to be bound unless there is a
\* gateway, even when the target is gone.
UpdateUserLinks(p) ==
  /\ req[p].op = "relink"
  /\ LET t == req[p].target.id  links == req[p].links
         cabinet == IF links.armoire # None THEN links.armoire ELSE links.machine IN
       /\ Change(t, [users[t] EXCEPT !.links = links])
       /\ Goto(p, IF ~ Remote(links) /\ cabinet # None
                  THEN [op |-> "bind", machine |-> cabinet] ELSE Idle)
  /\ UNCHANGED <<cabinetVars, ops, gone, requests>>

\* Mutant: every cabinet of the inventory is bound to the machine.
BindAll(p) ==
  /\ req[p].op = "bind" /\ Goto(p, Idle)
  /\ machines' = [c \in Cabinet |-> IF c \in Listed
       THEN [machines[c] EXCEPT !.active = TRUE, !.client = req[p].machine] ELSE Absent]
  /\ UNCHANGED <<sessions, queue, poll, ops, users, gone, requests>>

bindArmoireForPortalDelivery(p) ==
  /\ req[p].op = "bind" /\ Goto(p, Idle)
  /\ BindMachineForPortalDelivery(req[p].machine)
  /\ UNCHANGED <<sessions, queue, poll, ops, users, gone, requests>>

\* An error of the binding is only logged, and the links stay.  (Every other handler
\* writes once, at its end: one that fails is one that stays where it is.)
BindFails(p) ==
  /\ req[p].op = "bind" /\ Goto(p, Idle) /\ Upkeep
  /\ UNCHANGED <<cabinetVars, users, gone, requests>>

-----------------------------------------------------------------------------
(* The portal.                                                             *)

CreateLinkRequest(p, r) ==
  /\ req[p].op = "apply" /\ Goto(p, Idle)
  /\ requests[r] = Absent
  /\ IF req[p].by.row.links.gateway = "server" THEN UNCHANGED requests
     ELSE requests' = [requests EXCEPT ![r] = [user |-> req[p].by.id, status |-> "pending"]]
  /\ UNCHANGED <<cabinetVars, ops, users, gone>>

\* The review writes the status whatever it was.
ReviewLinkRequest(r, status) ==
  /\ requests[r] # Absent /\ Operation
  /\ requests' = [requests EXCEPT ![r].status = status]
  /\ UNCHANGED <<cabinetVars, users, gone, req>>

\* Mutant: a request is enough, whatever became of it.
UserHasAnyLink(u) == \E r \in LinkRequest : requests[r] # Absent /\ requests[r].user = u

UserHasApprovedLink(u) ==
  \E r \in LinkRequest : requests[r] = [user |-> u, status |-> "approved"]

UserPortalAccessEligible(links) == links.gateway # "server" /\ links.machine # None

\* The access is checked on the profile that was read.  Inject, InjectBatch, PostWebActions
\* and PutLightTimer then queue a command; those of scenarios read the profile once more.
userPortalAccess(p, next) ==
  /\ req[p].op = "profile"
  /\ LET user == req[p].by IN
       Goto(p, IF UserPortalAccessEligible(user.row.links) /\ UserHasApprovedLink(user.id)
               THEN [op |-> next, seen |-> req[p].seen, first |-> user, by |-> user,
                     approved |-> requests]
               ELSE Idle)
  /\ UNCHANGED <<cabinetVars, ops, users, gone, requests>>

\* The second read of the scenario handlers, after which nothing is checked.
portalUser(p) ==
  /\ req[p].op = "reread"
  /\ LET found == ByEmail(EmailOf[req[p].first.id]) IN
       IF found = {} THEN Goto(p, Idle)
       ELSE \E u \in found : Goto(p, [req[p] EXCEPT !.op = "enqueue", !.by = Read(u)])
  /\ UNCHANGED <<cabinetVars, ops, users, gone, requests>>

\* The command is queued for the machine that was read last; without one (NULL) it is in no
\* cabinet's queue.
EnqueueCloudAction(p) ==
  /\ req[p].op = "enqueue" /\ Goto(p, Idle)
  /\ LET m == req[p].by.row.links.machine IN
       IF m = None THEN UNCHANGED queue
       ELSE queue' = [queue EXCEPT ![m] = @ \cup {req[p].by.id}]
  /\ UNCHANGED <<machines, sessions, poll, ops, users, gone, requests>>

-----------------------------------------------------------------------------
Action == {"role", "links", "forbid", "unforbid", "delete"}
Route == {"caller", "profile", "leave", "ownlinks", "apply"}

\* What users and administrators begin.
People ==
  \/ \E p \in Request : \E e \in {EmailOf[u] : u \in User} :
       \/ Register(p, e)
       \/ GoogleCallback(p, e) \/ AppleCallback(p, e)
       \/ AdminCreateUser(p, e)
  \/ \E p \in Request, u \in User : EnforceActiveUser(p, u)
  \/ \E r \in LinkRequest, status \in {"approved", "rejected"} : ReviewLinkRequest(r, status)

\* What users do to their own account and cabinet.
OwnAccount(p) ==
  \/ DeleteProfile(p)
  \/ \E links \in LinksGiven : UpdateProfileLinks(p, links.machine, links.gateway)
  \/ \E r \in LinkRequest : CreateLinkRequest(p, r)
  \/ userPortalAccess(p, "enqueue") \/ userPortalAccess(p, "reread")
  \/ portalUser(p) \/ EnqueueCloudAction(p)

Authorize(p) ==
  \E t \in User :
    \/ \E role \in RoleGiven : AuthorizeAdminTarget(p, t, "role", role, Unlinked)
    \/ \E links \in LinksGiven : AuthorizeAdminTarget(p, t, "links", "user", links)
    \/ \E action \in Action \ {"role", "links"} : AuthorizeAdminTarget(p, t, action, "user", Unlinked)

\* What administrators do to an account.
Administer(p) ==
  \/ Authorize(p) \/ CountAdminGlobal(p)
  \/ UpdateUserRole(p) \/ ForbidUser(p) \/ DeleteUser(p)
  \/ CheckLinks(p) \/ UpdateUserLinks(p)
  \/ bindArmoireForPortalDelivery(p) \/ BindFails(p)

Continue(p) ==
  \/ CreateUser(p)
  \/ \E route \in Route : GetUserByEmail(p, route)
  \/ OwnAccount(p)
  \/ Administer(p)

Next ==
  \/ NextCabinets /\ UNCHANGED accountVars
  \/ People
  \/ \E p \in Request : Continue(p)

Spec == Init /\ [][Next]_vars

\* A cabinet keeps polling, and its polls are served.
Fairness ==
  \A c \in Cabinet :
    /\ WF_vars(BasicAuth(c) /\ UNCHANGED accountVars)
    /\ WF_vars(MyActions(c) /\ UNCHANGED accountVars)

FairSpec == Spec /\ Fairness

-----------------------------------------------------------------------------
(* Properties.                                                             *)

Message ==
  [op : {"idle"}]
  \cup [op : {"create"}, email : {EmailOf[u] : u \in User}, role : Role]
  \cup [op : {"checked"}, seen : Reading]
  \cup [op : Route, seen : Reading, by : Reading]
  \cup [op : Action \cup {"count", "relink"}, seen : Reading, by : Reading, target : Reading,
        role : Role, links : Links]
  \cup [op : {"bind"}, machine : Machine]
  \cup [op : {"reread", "enqueue"}, seen : Reading, first : Reading, by : Reading,
        approved : [LinkRequest -> LinkRow \cup {Absent}]]

\* The tables and the handlers' local state have their types; an email has one account.
TypeOK ==
  /\ CabinetsTypeOK
  /\ users \in [User -> UserRow \cup {Absent}] /\ gone \subseteq User \ Live
  /\ \A u, v \in Live : EmailOf[u] = EmailOf[v] => u = v
  /\ requests \in [LinkRequest -> LinkRow \cup {Absent}]
  /\ req \in [Request -> Message]

ActiveAdmins == {u \in Admins : ~ users[u].forbidden}

\* The row has changed, or is gone, since it was read.
Stale(reading) == users[reading.id] # reading.row

\* authz.go, "cannot remove the last global admin": the last active global administrator
\* goes only by the own will, by a change of role, by a request of one who is no longer an
\* active global administrator but was when the request was let through and read the
\* caller's row, or by a local administrator's request that found no administrator in the
\* row yet.  An active administrator's request never leaves the system without one.
AdminRemains ==
  [][ActiveAdmins # {} /\ ActiveAdmins' = {} =>
       \E p \in Request :
         /\ req'[p] = Idle
         /\ \/ req[p].op \in {"leave", "role"}
            \/ /\ req[p].op \in {"forbid", "delete"}
               /\ \/ /\ req[p].by.row.role = "admin_global" /\ ~ req[p].seen.row.forbidden
                     /\ req[p].by.id \notin ActiveAdmins
                     /\ Stale(req[p].seen) \/ Stale(req[p].by)
                  \/ req[p].by.row.role = "admin_local" /\ Stale(req[p].target)]_vars

\* A local administrator reaches only accounts of the own machine and without privileges,
\* however requests overlap, and only a global administrator or the list of administrators'
\* emails gives privileges: unless caller or target changed since they were read, and even
\* then no privileges are given.
ScopeOfAdmins ==
  [][\A u \in User : users'[u] # users[u] =>
       /\ (u \in Live /\ users'[u] # Absent /\ users'[u].role # users[u].role
            /\ users'[u].role \in Privileged =>
            \E p \in Request : req[p].op = "role" /\ req[p].target.id = u /\ req'[p] # req[p]
              /\ req[p].by.row.role = "admin_global")
       /\ (u \notin Live /\ users'[u].role \in Privileged => EmailOf[u] \in AdminEmails)
       /\ \A p \in Request :
            req[p].op \in Action \cup {"relink"} /\ req[p].target.id = u /\ req'[p] # req[p]
            /\ req[p].by.row.role = "admin_local" /\ ~ Stale(req[p].by) /\ ~ Stale(req[p].target) =>
              /\ users[u].role \notin Privileged
              /\ users[u].links.machine = users[req[p].by.id].links.machine]_vars

\* A command is queued for the machine of an active user with access: active unless the row
\* changed since the request was let through, of that machine unless it changed since the
\* last read, not on the VPS gateway unless it changed since the access was checked, and
\* with an approved link unless a link request changed since that check.
AccessBehindCommands ==
  [][\A m \in Machine : \A u \in queue'[m] \ queue[m] :
       \E p \in Request :
         /\ req[p].op = "enqueue" /\ req[p].by.id = u /\ req'[p] # req[p]
         /\ Stale(req[p].seen) \/ Active(u)
         /\ Stale(req[p].by) \/ users[u].links.machine = m
         /\ Stale(req[p].first) \/ users[u].links.gateway # "server"
         /\ \/ Stale(req[p].first) \/ requests # req[p].approved
            \/ \E r \in LinkRequest : requests[r] # Absent /\ requests[r].user = u
                 /\ requests[r].status = "approved"]_vars

\* A cabinet only takes the commands queued for its own inventory id, unless an import gave
\* it another's number; a gateway only those of the machine it is registered for with what
\* it presented, unless it was registered anew while it was served.
CommandsGoHome ==
  [][\A m \in Machine : queue[m] # {} /\ queue'[m] = {} =>
       \/ \E c \in Cabinet : poll[c] # Served /\ poll'[c] = Served
            /\ (machines[c].id = m \/ Foreign(c))
       \/ \E g \in Gateway : poll[g] # Served /\ poll'[g] = Served /\ sessions[g].machine = m
            /\ (sessions[g].cred = poll[g].cred \/ sessions[g] # poll[g].seen)]_vars

\* Once its cabinet was bound, a machine's commands are taken: nothing undoes the binding.
BoundCabinetServed == \A m \in Machine : (queue[m] # {} /\ Bound(m)) ~> queue[m] = {}
=============================================================================
