--------------------------- MODULE AccountsProofs ---------------------------
(***************************************************************************)
(* Proofs that Accounts, with Cabinets, has its safety properties for      *)
(* every number of users, administrators, requests, cabinets and gateways. *)
(***************************************************************************)
EXTENDS Accounts, TLAPS

-----------------------------------------------------------------------------
(* The cabinets keep their types.                                          *)

LEMMA IdsType ==
  ASSUME CabinetsTypeOK, NEW c \in Cabinet, NEW id \in Ids(c)
  PROVE  id \in Machine /\ (machines[c] # Absent => id = machines[c].id)
<1>1. CASE machines[c] = Absent
  BY <1>1 DEF Ids
<1>2. CASE machines[c] # Absent
  BY <1>2 DEF Ids, CabinetsTypeOK, MachineRow
<1> QED
  BY <1>1, <1>2

\* A cabinet that is entered gets a number nobody has, and one that is there keeps its own.
LEMMA NewNumber ==
  ASSUME CabinetsTypeOK, NEW c \in Cabinet, NEW row \in MachineRow, row.id \in Ids(c),
         machines' = [machines EXCEPT ![c] = row]
  PROVE  machines' \in [Cabinet -> MachineRow \cup {Absent}] /\ Numbered(machines')
<1>1. machines'[c] = row /\ \A d \in Cabinet \ {c} : machines'[d] = machines[d]
  BY DEF CabinetsTypeOK
<1>2. machines' \in [Cabinet -> MachineRow \cup {Absent}]
  BY DEF CabinetsTypeOK
<1>3. \A d \in Cabinet \ {c} : machines[d] # Absent => machines[d].id # row.id
  <2>1. CASE machines[c] = Absent
    BY <2>1 DEF Ids, Listed
  <2>2. CASE machines[c] # Absent
    BY <2>2 DEF Ids, CabinetsTypeOK, Numbered
  <2> QED
    BY <2>1, <2>2
<1>4. Numbered(machines')
  BY <1>1, <1>3 DEF CabinetsTypeOK, Numbered
<1> QED
  BY <1>2, <1>4

\* What the import makes of a row.
LEMMA ImportedRow ==
  ASSUME CabinetsTypeOK, NEW c \in Cabinet, NEW entry \in ImportFile, NEW id \in Ids(c)
  PROVE  LET row == ImportMachine(machines[c], entry, id) IN
           /\ row \in MachineRow /\ row.id = id
           /\ row.client = entry.client \/ (c \in Listed /\ row.client = machines[c].client)
<1>0. entry.client \in Client /\ entry.active \in BOOLEAN
  BY CabinetsAssumption
<1>1. CASE machines[c] = Absent
  BY <1>0, <1>1, IdsType DEF ImportMachine, MachineRow
<1>2. CASE machines[c] # Absent
  <2>1. machines[c] \in MachineRow /\ id = machines[c].id
    BY <1>2, IdsType DEF CabinetsTypeOK
  <2> QED
    BY <1>0, <1>2, <2>1 DEF ImportMachine, MachineRow, Listed
<1> QED
  BY <1>1, <1>2

\* Changes that keep the ids of the rows keep the numbering.
LEMMA SameNumber ==
  ASSUME CabinetsTypeOK, NEW table,
         \A c \in Cabinet : \/ table[c] = machines[c]
                            \/ machines[c] # Absent /\ table[c] # Absent /\ table[c].id = machines[c].id
  PROVE  Numbered(table)
BY DEF Numbered, CabinetsTypeOK

LEMMA CabinetMoves ==
  ASSUME CabinetsTypeOK, NEW c \in Cabinet,
         \/ RegisterUnknownMachine(c)
         \/ \E entry \in ImportFile : Import(c, entry)
         \/ BasicAuth(c)
         \/ MyActions(c)
  PROVE  CabinetsTypeOK'
<1>1. CASE RegisterUnknownMachine(c)
  <2>1. PICK id \in Ids(c) : machines' = [machines EXCEPT ![c] = [id |-> id, client |-> 0, active |-> FALSE]]
    BY <1>1 DEF RegisterUnknownMachine
  <2>2. [id |-> id, client |-> 0, active |-> FALSE] \in MachineRow
    BY IdsType DEF MachineRow, Client
  <2>3. machines' \in [Cabinet -> MachineRow \cup {Absent}] /\ Numbered(machines')
    BY <2>1, <2>2, NewNumber
  <2> QED
    BY <1>1, <2>3 DEF CabinetsTypeOK, RegisterUnknownMachine
<1>2. ASSUME NEW entry \in ImportFile, Import(c, entry)
      PROVE  CabinetsTypeOK'
  <2>1. PICK id \in Ids(c) : machines' = [machines EXCEPT ![c] = ImportMachine(machines[c], entry, id)]
    BY <1>2 DEF Import
  <2>2. ImportMachine(machines[c], entry, id) \in MachineRow /\ ImportMachine(machines[c], entry, id).id = id
    BY ImportedRow
  <2>3. machines' \in [Cabinet -> MachineRow \cup {Absent}] /\ Numbered(machines')
    BY <2>1, <2>2, NewNumber
  <2>4. ops' \in [people : 0..MaxOps, upkeep : 0..MaxUpkeep]
    BY <1>2, CabinetsAssumption DEF Import, Upkeep, CabinetsTypeOK
  <2> QED
    BY <1>2, <2>3, <2>4 DEF CabinetsTypeOK, Import
<1>3. CASE BasicAuth(c)
  <2>1. poll' \in [Cabinet \cup Gateway -> PollState]
    BY <1>3 DEF CabinetsTypeOK, BasicAuth, PollState
  <2> QED
    BY <1>3, <2>1 DEF CabinetsTypeOK, BasicAuth
<1>4. CASE MyActions(c)
  <2>1. poll' \in [Cabinet \cup Gateway -> PollState] /\ queue' \in [Machine -> SUBSET User]
    BY <1>4 DEF CabinetsTypeOK, MyActions, Take, Served, PollState
  <2> QED
    BY <1>4, <2>1 DEF CabinetsTypeOK, MyActions, Take
<1> QED
  BY <1>1, <1>2, <1>3, <1>4

LEMMA GatewayMoves ==
  ASSUME CabinetsTypeOK, NEW g \in Gateway,
         \/ \E new \in Registration : RegisterGateway(g, new.machine, new.cred)
         \/ \E cred \in Credential : GatewayAuth(g, cred)
         \/ PendingActions(g)
  PROVE  CabinetsTypeOK'
<1>1. ASSUME NEW new \in Registration, RegisterGateway(g, new.machine, new.cred)
      PROVE  CabinetsTypeOK'
  <2>1. [machine |-> new.machine, cred |-> new.cred] \in SessionRow
    BY CabinetsAssumption DEF SessionRow
  <2>2. ops' \in [people : 0..MaxOps, upkeep : 0..MaxUpkeep]
    BY <1>1, CabinetsAssumption DEF RegisterGateway, Upkeep, CabinetsTypeOK
  <2> QED
    BY <1>1, <2>1, <2>2 DEF CabinetsTypeOK, RegisterGateway, RegisterGatewaySession
<1>2. ASSUME NEW cred \in Credential, GatewayAuth(g, cred)
      PROVE  CabinetsTypeOK'
  <2>1. [op |-> "gateway", cred |-> cred, seen |-> sessions[g]] \in PollState
    BY <1>2 DEF CabinetsTypeOK, GatewayAuth, ValidateGatewayRequest, PollState
  <2> QED
    BY <1>2, <2>1 DEF CabinetsTypeOK, GatewayAuth
<1>3. CASE PendingActions(g)
  <2>1. poll' \in [Cabinet \cup Gateway -> PollState] /\ queue' \in [Machine -> SUBSET User]
    BY <1>3 DEF CabinetsTypeOK, PendingActions, FetchPendingActionsForGateway, Take, Served, PollState
  <2> QED
    BY <1>3, <2>1 DEF CabinetsTypeOK, PendingActions, FetchPendingActionsForGateway, Take
<1> QED
  BY <1>1, <1>2, <1>3

\* The binding of a cabinet keeps its id.
LEMMA BindTypes ==
  ASSUME CabinetsTypeOK, NEW m \in Machine, BindMachineForPortalDelivery(m)
  PROVE  machines' \in [Cabinet -> MachineRow \cup {Absent}] /\ Numbered(machines')
<1>1. \A c \in Cabinet :
        \/ machines'[c] = machines[c]
        \/ machines[c] # Absent /\ machines'[c] \in MachineRow /\ machines'[c].id = machines[c].id
  <2> SUFFICES ASSUME NEW c \in Cabinet, machines'[c] # machines[c]
               PROVE  machines[c] # Absent /\ machines'[c] \in MachineRow /\ machines'[c].id = machines[c].id
    OBVIOUS
  <2>1. machines[c] # Absent /\ machines'[c] = [machines[c] EXCEPT !.active = TRUE, !.client = m]
    BY DEF BindMachineForPortalDelivery, HashedPkeyByInventoryID, Listed
  <2>2. machines[c] \in MachineRow
    BY <2>1 DEF CabinetsTypeOK
  <2> QED
    BY <2>1, <2>2 DEF MachineRow, Client
<1>2. machines' \in [Cabinet -> MachineRow \cup {Absent}]
  BY <1>1 DEF BindMachineForPortalDelivery, CabinetsTypeOK
<1>3. Numbered(machines')
  BY <1>1, SameNumber, CabinetsAssumption
<1> QED
  BY <1>2, <1>3

-----------------------------------------------------------------------------
(* The users and the handlers keep their types.                            *)

AccountsTypeOK ==
  /\ users \in [User -> UserRow \cup {Absent}] /\ gone \subseteq User \ Live
  /\ \A u, v \in Live : EmailOf[u] = EmailOf[v] => u = v
  /\ requests \in [LinkRequest -> LinkRow \cup {Absent}]
  /\ req \in [Request -> Message]

LEMMA TypeParts == TypeOK <=> CabinetsTypeOK /\ AccountsTypeOK
BY DEF TypeOK, AccountsTypeOK

LEMMA TypePartsNext == TypeOK' <=> CabinetsTypeOK' /\ AccountsTypeOK'
BY DEF TypeOK, AccountsTypeOK

Acting == Action \cup {"count", "relink"}
ActingMessage ==
  [op : Acting, seen : Reading, by : Reading, target : Reading, role : Role, links : Links]
AccessMessage ==
  [op : {"reread", "enqueue"}, seen : Reading, first : Reading, by : Reading,
   approved : [LinkRequest -> LinkRow \cup {Absent}]]

\* The local state of a handler, by what it is about to do.
LEMMA MessageCases ==
  ASSUME AccountsTypeOK, NEW p \in Request
  PROVE  /\ req[p].op = "create" => req[p].email \in {EmailOf[u] : u \in User} /\ req[p].role \in Role
         /\ req[p].op = "checked" => req[p].seen \in Reading
         /\ req[p].op \in Route => req[p].seen \in Reading /\ req[p].by \in Reading
         /\ req[p].op \in Acting => req[p] \in ActingMessage
         /\ req[p].op = "bind" => req[p].machine \in Machine
         /\ req[p].op \in {"reread", "enqueue"} => req[p] \in AccessMessage
<1>1. req[p] \in Message
  BY DEF AccountsTypeOK
<1> QED
  BY <1>1 DEF Message, Action, Route, Acting, ActingMessage, AccessMessage

LEMMA ReadingFields ==
  ASSUME NEW x \in Reading
  PROVE  x.id \in User /\ x.row \in UserRow
BY DEF Reading

LEMMA ActingFields ==
  ASSUME AccountsTypeOK, NEW p \in Request, req[p].op \in Acting
  PROVE  /\ req[p].by.id \in User /\ req[p].by.row \in UserRow
         /\ req[p].target.id \in User /\ req[p].target.row \in UserRow
         /\ req[p].seen.id \in User /\ req[p].seen.row \in UserRow
         /\ req[p].role \in Role /\ req[p].links \in Links
<1>1. req[p] \in ActingMessage
  BY MessageCases
<1> QED
  BY <1>1, ReadingFields DEF ActingMessage

LEMMA RouteFields ==
  ASSUME AccountsTypeOK, NEW p \in Request, req[p].op \in Route
  PROVE  req[p].by.id \in User /\ req[p].by.row \in UserRow
BY MessageCases, ReadingFields

LEMMA AccessFields ==
  ASSUME AccountsTypeOK, NEW p \in Request, req[p].op \in {"reread", "enqueue"}
  PROVE  /\ req[p].seen.id \in User /\ req[p].seen.row \in UserRow
         /\ req[p].first.id \in User /\ req[p].first.row \in UserRow
         /\ req[p].by.id \in User /\ req[p].by.row \in UserRow
         /\ req[p].approved \in [LinkRequest -> LinkRow \cup {Absent}]
<1>1. req[p] \in AccessMessage
  BY MessageCases
<1> QED
  BY <1>1, ReadingFields DEF AccessMessage

\* A handler moves alone.
LEMMA OneMoves ==
  ASSUME AccountsTypeOK, NEW p \in Request, NEW next, Goto(p, next)
  PROVE  req'[p] = next /\ \A q \in Request \ {p} : req'[q] = req[q]
BY DEF AccountsTypeOK, Goto

LEMMA GotoTypes ==
  ASSUME AccountsTypeOK, NEW p \in Request, NEW next \in Message, Goto(p, next)
  PROVE  req' \in [Request -> Message]
BY DEF AccountsTypeOK, Goto

LEMMA IdleType == Idle \in Message
BY DEF Idle, Message

LEMMA RowOfLive ==
  ASSUME AccountsTypeOK, NEW u \in Live
  PROVE  u \in User /\ users[u] \in UserRow /\ Read(u) \in Reading
BY DEF AccountsTypeOK, Live, Read, Reading

\* What a step may do to the users: replace the row of one that is there, remove it, or
\* insert one for an email that has none.
Rewritten(u, row) == u \in Live /\ row \in UserRow /\ users' = [users EXCEPT ![u] = row] /\ UNCHANGED gone
Removed(u) == u \in Live /\ Remove(u)
Added(u, row) ==
  /\ u \in User \ (Live \cup gone) /\ row \in UserRow /\ ByEmail(EmailOf[u]) = {}
  /\ users' = [users EXCEPT ![u] = row] /\ UNCHANGED gone

UsersMove ==
  \/ UNCHANGED <<users, gone>>
  \/ \E u \in User : Removed(u) \/ \E row \in UserRow : Rewritten(u, row) \/ Added(u, row)

UsersTypeOK ==
  /\ users \in [User -> UserRow \cup {Absent}] /\ gone \subseteq User \ Live
  /\ \A u, v \in Live : EmailOf[u] = EmailOf[v] => u = v

\* An id that was given stays given, and one that is gone stays gone.
Grows == gone \subseteq gone' /\ Live \cup gone \subseteq Live' \cup gone'

LEMMA UsersKeep ==
  ASSUME AccountsTypeOK, UsersMove
  PROVE  UsersTypeOK' /\ Grows
<1>1. CASE UNCHANGED <<users, gone>>
  BY <1>1 DEF UsersTypeOK, AccountsTypeOK, Live, Grows
<1>2. ASSUME NEW u \in User, Removed(u)
      PROVE  UsersTypeOK' /\ Grows
  <2>1. users' \in [User -> UserRow \cup {Absent}] /\ gone' = gone \cup {u}
    BY <1>2 DEF AccountsTypeOK, Removed, Remove
  <2>2. Live' = Live \ {u}
    BY <1>2 DEF AccountsTypeOK, Live, Removed, Remove
  <2> QED
    BY <2>1, <2>2 DEF UsersTypeOK, AccountsTypeOK, Grows
<1>3. ASSUME NEW u \in User, NEW row \in UserRow, Rewritten(u, row)
      PROVE  UsersTypeOK' /\ Grows
  <2>1. users' \in [User -> UserRow \cup {Absent}] /\ gone' = gone
    BY <1>3 DEF AccountsTypeOK, Rewritten
  <2>2. Live' = Live
    BY <1>3, AccountsAssumption DEF AccountsTypeOK, Live, Rewritten
  <2> QED
    BY <2>1, <2>2 DEF UsersTypeOK, AccountsTypeOK, Grows
<1>4. ASSUME NEW u \in User, NEW row \in UserRow, Added(u, row)
      PROVE  UsersTypeOK' /\ Grows
  <2>1. users' \in [User -> UserRow \cup {Absent}] /\ gone' = gone /\ u \notin gone
    BY <1>4 DEF AccountsTypeOK, Added
  <2>2. Live' = Live \cup {u}
    BY <1>4, AccountsAssumption DEF AccountsTypeOK, Live, Added
  <2>3. \A v \in Live : EmailOf[v] # EmailOf[u]
    BY <1>4 DEF Added, ByEmail
  <2> QED
    BY <2>1, <2>2, <2>3 DEF UsersTypeOK, AccountsTypeOK, Grows
<1> QED
  BY <1>1, <1>2, <1>3, <1>4 DEF UsersMove

\* What may be written into a row.
LEMMA UserEdits ==
  ASSUME NEW row \in UserRow
  PROVE  /\ \A role \in Role : [row EXCEPT !.role = role] \in UserRow
         /\ \A flag \in BOOLEAN : [row EXCEPT !.forbidden = flag] \in UserRow
         /\ \A links \in Links : [row EXCEPT !.links = links] \in UserRow
BY DEF UserRow

LEMMA RowFields ==
  ASSUME NEW row \in UserRow
  PROVE  /\ \A role : [row EXCEPT !.role = role].role = role
         /\ \A flag : [row EXCEPT !.forbidden = flag].role = row.role
         /\ \A links : /\ [row EXCEPT !.links = links].role = row.role
                       /\ [row EXCEPT !.links = links].forbidden = row.forbidden
BY DEF UserRow

LEMMA ChangeMoves ==
  ASSUME NEW u, NEW row, u \in Live => row \in UserRow, Change(u, row), UNCHANGED gone
  PROVE  UNCHANGED <<users, gone>> \/ Rewritten(u, row)
BY DEF Change, Rewritten

\* What a handler's step does to the users, by what it is about to do.
Writes(p) ==
  \/ UNCHANGED <<users, gone>>
  \/ /\ req[p].op = "create"
     /\ \E u \in User, row \in UserRow : Added(u, row) /\ row.role = req[p].role /\ EmailOf[u] = req[p].email
  \/ req[p].op = "leave" /\ Removed(req[p].by.id)
  \/ \E u \in User, links \in Links :
       /\ \/ req[p].op = "ownlinks" /\ u = req[p].by.id
          \/ req[p].op = "relink" /\ u = req[p].target.id
       /\ Rewritten(u, [users[u] EXCEPT !.links = links])
  \/ req[p].op = "role" /\ Rewritten(req[p].target.id, [users[req[p].target.id] EXCEPT !.role = req[p].role])
  \/ /\ req[p].op \in {"forbid", "unforbid"}
     /\ Rewritten(req[p].target.id, [users[req[p].target.id] EXCEPT !.forbidden = (req[p].op = "forbid")])
  \/ req[p].op = "delete" /\ Removed(req[p].target.id)

LEMMA WritesMove ==
  ASSUME NEW p \in Request, Writes(p)
  PROVE  UsersMove
<1>1. \A u, row : Rewritten(u, row) => u \in User /\ row \in UserRow
  BY DEF Rewritten, Live
<1>2. \A u : Removed(u) => u \in User
  BY DEF Removed, Live
<1> QED
  BY <1>1, <1>2 DEF Writes, UsersMove

LEMMA ContinueWrites ==
  ASSUME AccountsTypeOK, NEW p \in Request, Continue(p)
  PROVE  Writes(p)
<1>1. CASE CreateUser(p)
  <2> DEFINE e == req[p].email
             new == {u \in User \ (Live \cup gone) : EmailOf[u] = e}
             row == [role |-> req[p].role, forbidden |-> FALSE, links |-> Unlinked]
  <2>1. CASE UNCHANGED users
    BY <1>1, <2>1 DEF CreateUser, Writes
  <2>2. CASE ~ UNCHANGED users
    <3>1. ByEmail(e) = {} /\ new # {} /\ users' = [users EXCEPT ![CHOOSE u \in new : TRUE] = row]
      BY <1>1, <2>2 DEF CreateUser
    <3>2. PICK u \in new : users' = [users EXCEPT ![u] = row]
      BY <3>1
    <3>3. row \in UserRow /\ row.role = req[p].role
      BY <1>1, MessageCases DEF CreateUser, UserRow, Unlinked, Links
    <3> HIDE DEF row
    <3>4. Added(u, row)
      BY <1>1, <3>1, <3>2, <3>3 DEF Added, CreateUser
    <3> QED
      BY <1>1, <3>2, <3>3, <3>4 DEF Writes, CreateUser
  <2> QED
    BY <2>1, <2>2
<1>2. ASSUME NEW route \in Route, GetUserByEmail(p, route)
      PROVE  Writes(p)
  BY <1>2 DEF GetUserByEmail, Writes
<1>3. CASE DeleteProfile(p)
  BY <1>3 DEF DeleteProfile, RemoveIfThere, Removed, Writes
<1>4. ASSUME NEW links \in LinksGiven, UpdateProfileLinks(p, links.machine, links.gateway)
      PROVE  Writes(p)
  <2> DEFINE u == req[p].by.id
             new == [machine |-> links.machine, gateway |-> links.gateway, armoire |-> None]
             row == [users[u] EXCEPT !.links = new]
  <2>1. new \in Links
    BY AccountsAssumption DEF Links
  <2>2. u \in User /\ req[p].op = "ownlinks" /\ UNCHANGED gone
    BY <1>4, RouteFields DEF UpdateProfileLinks, Route
  <2>3. Change(u, row)
    BY <1>4 DEF UpdateProfileLinks
  <2> HIDE DEF new
  <2>4. u \in Live => row \in UserRow
    BY <2>1, RowOfLive, UserEdits
  <2>5. UNCHANGED <<users, gone>> \/ Rewritten(u, row)
    BY <2>2, <2>3, <2>4, ChangeMoves
  <2> QED
    BY <2>1, <2>2, <2>5 DEF Writes
<1>5. CASE UpdateUserRole(p)
  <2> DEFINE t == req[p].target.id
             row == [users[t] EXCEPT !.role = req[p].role]
  <2>1. t \in User /\ req[p].role \in Role /\ req[p].op = "role" /\ UNCHANGED gone
    BY <1>5, ActingFields DEF UpdateUserRole, Acting, Action
  <2>2. t \in Live => row \in UserRow
    BY <2>1, RowOfLive, UserEdits
  <2>3. Change(t, row)
    BY <1>5 DEF UpdateUserRole
  <2> QED
    BY <2>1, <2>2, <2>3, ChangeMoves DEF Writes
<1>6. CASE ForbidUser(p)
  <2> DEFINE t == req[p].target.id
             flag == req[p].op = "forbid"
             row == [users[t] EXCEPT !.forbidden = flag]
  <2>1. flag \in BOOLEAN /\ req[p].op \in {"forbid", "unforbid"} /\ UNCHANGED gone
    BY <1>6 DEF ForbidUser
  <2>2. t \in Live => row \in UserRow
    BY <2>1, RowOfLive, UserEdits
  <2>3. UNCHANGED users \/ Change(t, row)
    BY <1>6 DEF ForbidUser
  <2> QED
    BY <2>1, <2>2, <2>3, ChangeMoves DEF Writes
<1>7. CASE DeleteUser(p)
  BY <1>7 DEF DeleteUser, RemoveIfThere, Removed, Writes
<1>8. CASE UpdateUserLinks(p)
  <2> DEFINE t == req[p].target.id
             row == [users[t] EXCEPT !.links = req[p].links]
  <2>1. t \in User /\ req[p].links \in Links /\ req[p].op = "relink" /\ UNCHANGED gone
    BY <1>8, ActingFields DEF UpdateUserLinks, Acting
  <2>2. t \in Live => row \in UserRow
    BY <2>1, RowOfLive, UserEdits
  <2>3. Change(t, row)
    BY <1>8 DEF UpdateUserLinks
  <2>4. UNCHANGED <<users, gone>> \/ Rewritten(t, row)
    BY <2>1, <2>2, <2>3, ChangeMoves
  <2> QED
    BY <2>1, <2>4 DEF Writes
<1>9. CASE \/ \E r \in LinkRequest : CreateLinkRequest(p, r)
           \/ \E next \in {"enqueue", "reread"} : userPortalAccess(p, next)
           \/ portalUser(p) \/ EnqueueCloudAction(p)
           \/ CountAdminGlobal(p) \/ CheckLinks(p) \/ bindArmoireForPortalDelivery(p) \/ BindFails(p)
  <2>1. UNCHANGED <<users, gone>>
    BY <1>9 DEF CreateLinkRequest, userPortalAccess, portalUser, EnqueueCloudAction, CountAdminGlobal,
      CheckLinks, bindArmoireForPortalDelivery, BindFails
  <2> QED
    BY <2>1 DEF Writes
<1>10. CASE Authorize(p)
  <2>1. UNCHANGED <<users, gone>>
    BY <1>10 DEF Authorize, AuthorizeAdminTarget
  <2> QED
    BY <2>1 DEF Writes
<1> QED
  BY <1>1, <1>2, <1>3, <1>4, <1>5, <1>6, <1>7, <1>8, <1>9, <1>10 DEF Continue, OwnAccount, Administer

\* What else the steps change.
LEMMA CabinetsApart ==
  ASSUME CabinetsTypeOK, UNCHANGED cabinetVars, Operation \/ Upkeep \/ UNCHANGED ops
  PROVE  CabinetsTypeOK'
<1>1. ops' \in [people : 0..MaxOps, upkeep : 0..MaxUpkeep]
  BY CabinetsAssumption DEF CabinetsTypeOK, Operation, Upkeep
<1> QED
  BY <1>1 DEF CabinetsTypeOK, cabinetVars

\* Only the binding writes a cabinet's row, and only the enqueueing a queue.
LEMMA ContinueBesides ==
  ASSUME NEW p \in Request, Continue(p)
  PROVE  \/ bindArmoireForPortalDelivery(p)
         \/ EnqueueCloudAction(p)
         \/ UNCHANGED cabinetVars /\ (Upkeep \/ UNCHANGED ops)
<1>1. ASSUME NEW route \in Route, GetUserByEmail(p, route)
      PROVE  UNCHANGED cabinetVars /\ UNCHANGED ops
  BY <1>1 DEF GetUserByEmail
<1>2. CASE OwnAccount(p)
  BY <1>2 DEF OwnAccount, DeleteProfile, UpdateProfileLinks, CreateLinkRequest, userPortalAccess, portalUser
<1>3. CASE Authorize(p)
  BY <1>3 DEF Authorize, AuthorizeAdminTarget
<1>4. CASE CreateUser(p)
  BY <1>4 DEF CreateUser
<1>5. CASE Administer(p) /\ ~ Authorize(p)
  BY <1>5 DEF Administer, CountAdminGlobal, UpdateUserRole, ForbidUser, DeleteUser, CheckLinks,
    UpdateUserLinks, BindFails
<1> QED
  BY <1>1, <1>2, <1>3, <1>4, <1>5 DEF Continue, Administer

LEMMA ContinueCabinets ==
  ASSUME TypeOK, NEW p \in Request, Continue(p)
  PROVE  CabinetsTypeOK'
<1>0. CabinetsTypeOK /\ AccountsTypeOK
  BY TypeParts
<1>1. CASE bindArmoireForPortalDelivery(p)
  <2>1. req[p].machine \in Machine
    BY <1>0, <1>1, MessageCases DEF bindArmoireForPortalDelivery
  <2>2. machines' \in [Cabinet -> MachineRow \cup {Absent}] /\ Numbered(machines')
    BY <1>0, <1>1, <2>1, BindTypes DEF bindArmoireForPortalDelivery
  <2> QED
    BY <1>0, <1>1, <2>2 DEF bindArmoireForPortalDelivery, CabinetsTypeOK
<1>2. CASE EnqueueCloudAction(p)
  <2>1. req[p].by.id \in User
    BY <1>0, <1>2, AccessFields DEF EnqueueCloudAction
  <2>2. queue' \in [Machine -> SUBSET User]
    BY <1>0, <1>2, <2>1 DEF EnqueueCloudAction, CabinetsTypeOK
  <2> QED
    BY <1>0, <1>2, <2>2 DEF EnqueueCloudAction, CabinetsTypeOK
<1> QED
  BY <1>0, <1>1, <1>2, ContinueBesides, CabinetsApart

LEMMA ContinueRequests ==
  ASSUME AccountsTypeOK, NEW p \in Request, Continue(p)
  PROVE  requests' \in [LinkRequest -> LinkRow \cup {Absent}]
<1>1. ASSUME UNCHANGED requests
      PROVE  requests' \in [LinkRequest -> LinkRow \cup {Absent}]
  BY <1>1 DEF AccountsTypeOK
<1>2. ASSUME NEW r \in LinkRequest, CreateLinkRequest(p, r)
      PROVE  requests' \in [LinkRequest -> LinkRow \cup {Absent}]
  <2>1. req[p].by.id \in User
    BY <1>2, RouteFields DEF CreateLinkRequest, Route
  <2>2. [user |-> req[p].by.id, status |-> "pending"] \in LinkRow
    BY <2>1 DEF LinkRow
  <2> QED
    BY <1>2, <2>2 DEF CreateLinkRequest, AccountsTypeOK
<1>3. CASE Authorize(p)
  BY <1>1, <1>3 DEF Authorize, AuthorizeAdminTarget
<1>4. ASSUME NEW route \in Route, GetUserByEmail(p, route)
      PROVE  UNCHANGED requests
  BY <1>4 DEF GetUserByEmail
<1>5. CASE Administer(p) /\ ~ Authorize(p)
  BY <1>1, <1>5 DEF Administer, CountAdminGlobal, UpdateUserRole, ForbidUser, DeleteUser, CheckLinks,
    UpdateUserLinks, bindArmoireForPortalDelivery, BindFails
<1>6. CASE OwnAccount(p) /\ ~ \E r \in LinkRequest : CreateLinkRequest(p, r)
  BY <1>1, <1>6 DEF OwnAccount, DeleteProfile, UpdateProfileLinks, userPortalAccess, portalUser,
    EnqueueCloudAction
<1>7. CASE CreateUser(p)
  BY <1>1, <1>7 DEF CreateUser
<1> QED
  BY <1>1, <1>2, <1>3, <1>4, <1>5, <1>6, <1>7 DEF Continue, Administer

-----------------------------------------------------------------------------
(* What a handler decided on, it carries to its write.                     *)

\* The message of a handler holds what its decisions established, of the rows as they were
\* read: who asks was let through active, and has the role and the reach, or the access.
Decided(r) ==
  /\ r.op = "create" /\ r.role \in Privileged => r.email \in AdminEmails
  /\ r.op \notin {"idle", "create", "bind"} => ~ r.seen.row.forbidden
  /\ r.op \in Acting =>
       \/ r.by.row.role = "admin_global" /\ (r.op \in {"count", "delete", "forbid", "unforbid"} => r.by.id # r.target.id)
       \/ /\ r.by.row.role = "admin_local" /\ r.op # "count"
          /\ callerOwnsTarget(r.by.row, r.target.row)
          /\ r.target.row.role \in LocalRoles /\ (r.op = "role" => r.role \in LocalRoles)
  /\ r.op \in {"reread", "enqueue"} =>
       /\ r.first.row.links.gateway # "server"
       /\ \E l \in LinkRequest : r.approved[l] = [user |-> r.first.id, status |-> "approved"]

\* An id that was read, and another of the same email that was read later.
Known(x) == x.id \in Live \cup gone
Later(x, y) == Known(x) /\ Known(y) /\ (x.id = y.id \/ x.id \in gone)

\* The rows a handler reads for one email are of one account, unless the account it was let
\* through for is gone.
Traced(r) ==
  /\ r.op = "checked" => Known(r.seen)
  /\ r.op \in Route \cup Acting => Later(r.seen, r.by)
  /\ r.op \in {"reread", "enqueue"} => Later(r.seen, r.first) /\ Later(r.first, r.by)

Handlers == \A p \in Request : Decided(req[p]) /\ Traced(req[p])

\* Where a handler may go.
Fit(next) == next \in Message /\ Decided(next) /\ Traced(next)

LEMMA TracedStays ==
  ASSUME NEW r, Traced(r), Grows, NEW s, s = r
  PROVE  Traced(s)'
BY DEF Traced, Later, Known, Grows

LEMMA HandlersStay ==
  ASSUME AccountsTypeOK, Handlers, Grows, NEW p \in Request, NEW next, Fit(next), Goto(p, next)
  PROVE  req' \in [Request -> Message] /\ Handlers'
<1>1. req' \in [Request -> Message]
  BY GotoTypes DEF Fit
<1>2. ASSUME NEW q \in Request
      PROVE  Decided(req'[q]) /\ Traced(req[q])'
  <2>1. CASE q = p
    BY <2>1, OneMoves, TracedStays DEF Fit
  <2>2. CASE q # p
    BY <2>2, OneMoves, TracedStays DEF Handlers
  <2> QED
    BY <2>1, <2>2
<1> QED
  BY <1>1, <1>2 DEF Handlers

LEMMA IdleFit == Fit(Idle)
BY IdleType DEF Fit, Decided, Traced, Idle, Acting, Action, Route

LEMMA BindFit == \A m \in Machine : Fit([op |-> "bind", machine |-> m])
<1> SUFFICES ASSUME NEW m \in Machine
             PROVE  Fit([op |-> "bind", machine |-> m])
  OBVIOUS
<1>1. [op |-> "bind", machine |-> m] \in Message
  BY DEF Message
<1> QED
  BY <1>1 DEF Fit, Decided, Traced, Acting, Action, Route

LEMMA CreateFit ==
  ASSUME NEW e \in {EmailOf[u] : u \in User}, NEW role \in Role, role \in Privileged => e \in AdminEmails
  PROVE  Fit([op |-> "create", email |-> e, role |-> role])
<1>1. [op |-> "create", email |-> e, role |-> role] \in Message
  BY DEF Message
<1> QED
  BY <1>1 DEF Fit, Decided, Traced, Acting, Action, Route

LEMMA CheckedFit ==
  ASSUME NEW x \in Reading, ~ x.row.forbidden, Known(x)
  PROVE  Fit([op |-> "checked", seen |-> x])
<1>1. [op |-> "checked", seen |-> x] \in Message
  BY DEF Message
<1> QED
  BY <1>1 DEF Fit, Decided, Traced, Acting, Action, Route

LEMMA RouteFit ==
  ASSUME NEW x \in Reading, NEW y \in Reading, ~ x.row.forbidden, Later(x, y), NEW route \in Route
  PROVE  Fit([op |-> route, seen |-> x, by |-> y])
<1>1. [op |-> route, seen |-> x, by |-> y] \in Message
  BY DEF Message
<1> QED
  BY <1>1 DEF Fit, Decided, Traced, Acting, Action, Route

\* The account of an email is the one that was read before, unless that one is gone.
LEMMA SameAccount ==
  ASSUME AccountsTypeOK, NEW x \in Reading, Known(x), NEW u \in ByEmail(EmailOf[x.id])
  PROVE  Read(u) \in Reading /\ Later(x, Read(u))
<1>1. u \in Live /\ EmailOf[u] = EmailOf[x.id]
  BY DEF ByEmail
<1>2. Read(u) \in Reading /\ Read(u).id = u
  BY <1>1, RowOfLive DEF Read
<1>3. x.id \in Live => x.id = u
  BY <1>1 DEF AccountsTypeOK
<1> QED
  BY <1>1, <1>2, <1>3 DEF Later, Known

LEMMA ActingFit ==
  ASSUME NEW r \in ActingMessage, Decided(r), Traced(r)
  PROVE  Fit(r)
<1>1. r \in Message
  BY DEF ActingMessage, Acting, Message
<1> QED
  BY <1>1 DEF Fit

LEMMA AccessFit ==
  ASSUME NEW r \in AccessMessage, Decided(r), Traced(r)
  PROVE  Fit(r)
<1>1. r \in Message
  BY DEF AccessMessage, Message
<1> QED
  BY <1>1 DEF Fit

LEMMA OwnAccountFit ==
  ASSUME AccountsTypeOK, Handlers, NEW p \in Request, OwnAccount(p)
  PROVE  \E next : Fit(next) /\ Goto(p, next)
<1>1. ASSUME Goto(p, Idle)
      PROVE  \E next : Fit(next) /\ Goto(p, next)
  BY <1>1, IdleFit
<1>2. ASSUME NEW op \in {"enqueue", "reread"}, userPortalAccess(p, op)
      PROVE  \E next : Fit(next) /\ Goto(p, next)
  <2> DEFINE user == req[p].by
             next == [op |-> op, seen |-> req[p].seen, first |-> user, by |-> user, approved |-> requests]
  <2>1. req[p].op = "profile" /\ (Goto(p, Idle) \/ (Goto(p, next)
          /\ UserPortalAccessEligible(user.row.links) /\ UserHasApprovedLink(user.id)))
    BY <1>2 DEF userPortalAccess
  <2>2. CASE Goto(p, next) /\ UserPortalAccessEligible(user.row.links) /\ UserHasApprovedLink(user.id)
    <3>1. req[p].seen \in Reading /\ user \in Reading
      BY <2>1, MessageCases DEF Route
    <3>2. next \in AccessMessage
      BY <3>1 DEF AccessMessage, AccountsTypeOK
    <3>3. ~ req[p].seen.row.forbidden /\ Later(req[p].seen, user)
      BY <2>1 DEF Handlers, Decided, Traced, Route
    <3>4. Later(user, user)
      BY <3>3 DEF Later
    <3>5. /\ user.row.links.gateway # "server"
          /\ \E l \in LinkRequest : requests[l] = [user |-> user.id, status |-> "approved"]
      BY <2>2 DEF UserPortalAccessEligible, UserHasApprovedLink
    <3>6. /\ next.op = op /\ next.seen = req[p].seen /\ next.first = user /\ next.by = user
          /\ next.approved = requests
      OBVIOUS
    <3> HIDE DEF next, user
    <3>7. Decided(next)
      BY <3>3, <3>5, <3>6 DEF Decided, Acting, Action
    <3>8. Traced(next)
      BY <3>3, <3>4, <3>6 DEF Traced, Acting, Action, Route
    <3> QED
      BY <2>2, <3>2, <3>7, <3>8, AccessFit
  <2> QED
    BY <1>1, <2>1, <2>2
<1>3. CASE portalUser(p)
  <2> DEFINE x == req[p].first
  <2>1. CASE Goto(p, Idle)
    BY <1>1, <2>1
  <2>2. ASSUME NEW u \in ByEmail(EmailOf[x.id]), Goto(p, [req[p] EXCEPT !.op = "enqueue", !.by = Read(u)])
        PROVE  \E next : Fit(next) /\ Goto(p, next)
    <3> DEFINE next == [req[p] EXCEPT !.op = "enqueue", !.by = Read(u)]
    <3>1. req[p] \in AccessMessage /\ req[p].op = "reread"
      BY <1>3, MessageCases DEF portalUser
    <3>2. x \in Reading
      BY <3>1 DEF AccessMessage
    <3>3. Decided(req[p]) /\ Later(req[p].seen, x)
      BY <3>1 DEF Handlers, Traced
    <3>4. Read(u) \in Reading /\ Later(x, Read(u))
      BY <3>2, <3>3, SameAccount DEF Later
    <3>5. /\ next \in AccessMessage /\ next.op = "enqueue" /\ next.seen = req[p].seen /\ next.first = x
          /\ next.by = Read(u) /\ next.approved = req[p].approved
      BY <3>1, <3>4 DEF AccessMessage
    <3> HIDE DEF next, x
    <3>6. Decided(next)
      BY <3>1, <3>3, <3>5 DEF Decided, Acting, Action, x
    <3>7. Traced(next)
      BY <3>3, <3>4, <3>5 DEF Traced, Acting, Action, Route
    <3> QED
      BY <2>2, <3>5, <3>6, <3>7, AccessFit DEF next
  <2> QED
    BY <1>3, <2>1, <2>2 DEF portalUser
<1>4. CASE \/ DeleteProfile(p) \/ EnqueueCloudAction(p)
           \/ \E links \in LinksGiven : UpdateProfileLinks(p, links.machine, links.gateway)
           \/ \E r \in LinkRequest : CreateLinkRequest(p, r)
  BY <1>1, <1>4 DEF DeleteProfile, EnqueueCloudAction, UpdateProfileLinks, CreateLinkRequest
<1> QED
  BY <1>2, <1>3, <1>4 DEF OwnAccount

LEMMA AuthorizeFit ==
  ASSUME AccountsTypeOK, Handlers, NEW p \in Request, Authorize(p)
  PROVE  \E next : Fit(next) /\ Goto(p, next)
<1>1. PICK t \in User, action \in Action, role \in Role, links \in Links :
        AuthorizeAdminTarget(p, t, action, role, links)
  BY AccountsAssumption DEF Authorize, Action, Unlinked, Links, Role, LocalRoles
<1> DEFINE by == req[p].by
           last == action = "delete" /\ users[t].role = "admin_global"
           op == IF last THEN "count" ELSE action
           next == [op |-> op, seen |-> req[p].seen, by |-> by,
                    target |-> Read(t), role |-> role, links |-> links]
<1>2. CASE t \in Live /\ Allowed(by, Read(t), action, role)
  <2>1. Goto(p, next) /\ req[p].op = "caller"
    BY <1>1, <1>2 DEF AuthorizeAdminTarget
  <2>2. Read(t) \in Reading /\ Read(t).row = users[t]
    BY <1>2, RowOfLive DEF Read
  <2>3. req[p].seen \in Reading /\ by \in Reading
    BY <2>1, MessageCases DEF Route
  <2>4. op \in Acting
    BY DEF Acting, Action
  <2>5. (op = "count" => action = "delete" /\ users[t].role = "admin_global") /\ (op # "count" => op = action)
    BY DEF Action
  <2> HIDE DEF op
  <2>6. next \in ActingMessage
    BY <2>2, <2>3, <2>4 DEF ActingMessage
  <2>7. ~ req[p].seen.row.forbidden /\ Later(req[p].seen, by)
    BY <2>1 DEF Handlers, Decided, Traced, Route
  <2>8. /\ next.op = op /\ next.seen = req[p].seen /\ next.by = by /\ next.target = Read(t)
        /\ next.role = role
    OBVIOUS
  <2> HIDE DEF next, by
  <2>9. \/ /\ by.row.role = "admin_global"
           /\ op \in {"count", "delete", "forbid", "unforbid"} => by.id # Read(t).id
        \/ /\ by.row.role = "admin_local" /\ op # "count"
           /\ callerOwnsTarget(by.row, Read(t).row)
           /\ Read(t).row.role \in LocalRoles /\ (op = "role" => role \in LocalRoles)
    BY <1>2, <2>2, <2>5 DEF Allowed, LocalRoles
  <2>10. Decided(next)
    BY <2>4, <2>7, <2>8, <2>9 DEF Decided, Acting, Action
  <2>11. Traced(next)
    BY <2>4, <2>7, <2>8 DEF Traced, Acting, Action
  <2> QED
    BY <2>1, <2>6, <2>10, <2>11, ActingFit
<1>3. CASE ~ (t \in Live /\ Allowed(by, Read(t), action, role))
  BY <1>1, <1>3, IdleFit DEF AuthorizeAdminTarget
<1> QED
  BY <1>2, <1>3

\* An administrator's handler that goes on with what it decided.
\* The steps on the way to a write.
Proceeds(r, op) ==
  \/ r.op = "count" /\ op = "delete"
  \/ r.op = "links" /\ op = "relink"

LEMMA ProceedFit ==
  ASSUME AccountsTypeOK, Handlers, NEW p \in Request, NEW op, Proceeds(req[p], op)
  PROVE  Fit([req[p] EXCEPT !.op = op])
<1> DEFINE next == [req[p] EXCEPT !.op = op]
<1>1. req[p] \in ActingMessage
  BY MessageCases DEF Proceeds, Acting, Action
<1>2. /\ next \in ActingMessage /\ next.op = op /\ next.seen = req[p].seen /\ next.by = req[p].by
      /\ next.target = req[p].target /\ next.role = req[p].role
  BY <1>1 DEF Proceeds, ActingMessage, Acting, Action
<1>3. Decided(req[p]) /\ Traced(req[p])
  BY DEF Handlers
<1> HIDE DEF next
<1>4. Decided(next)
  BY <1>2, <1>3 DEF Proceeds, Decided, Acting, Action
<1>5. Traced(next)
  BY <1>2, <1>3 DEF Proceeds, Traced, Acting, Action, Route
<1> QED
  BY <1>2, <1>4, <1>5, ActingFit DEF next

LEMMA ContinueFit ==
  ASSUME AccountsTypeOK, Handlers, NEW p \in Request, Continue(p)
  PROVE  \E next : Fit(next) /\ Goto(p, next)
<1>1. ASSUME Goto(p, Idle)
      PROVE  \E next : Fit(next) /\ Goto(p, next)
  BY <1>1, IdleFit
<1>2. ASSUME NEW route \in Route, GetUserByEmail(p, route)
      PROVE  \E next : Fit(next) /\ Goto(p, next)
  <2> DEFINE x == req[p].seen
  <2>1. req[p].op = "checked"
    BY <1>2 DEF GetUserByEmail
  <2>2. x \in Reading /\ ~ x.row.forbidden /\ Known(x)
    BY <2>1, MessageCases DEF Handlers, Decided, Traced
  <2>3. ASSUME NEW u \in ByEmail(EmailOf[x.id]), Goto(p, [op |-> route, seen |-> x, by |-> Read(u)])
        PROVE  \E next : Fit(next) /\ Goto(p, next)
    <3>1. Read(u) \in Reading /\ Later(x, Read(u))
      BY <2>2, SameAccount
    <3> QED
      BY <2>2, <2>3, <3>1, RouteFit
  <2> QED
    BY <1>1, <1>2, <2>3 DEF GetUserByEmail
<1>3. CASE CountAdminGlobal(p)
  <2>1. Goto(p, Idle) \/ Goto(p, [req[p] EXCEPT !.op = "delete"])
    BY <1>3 DEF CountAdminGlobal
  <2>2. Proceeds(req[p], "delete")
    BY <1>3 DEF CountAdminGlobal, Proceeds
  <2>3. Fit([req[p] EXCEPT !.op = "delete"])
    BY <2>2, ProceedFit
  <2> QED
    BY <1>1, <2>1, <2>3
<1>4. CASE CheckLinks(p)
  <2>1. req[p].op = "links" /\ (Goto(p, Idle) \/ Goto(p, [req[p] EXCEPT !.op = "relink"]))
    BY <1>4 DEF CheckLinks
  <2>2. Proceeds(req[p], "relink")
    BY <2>1 DEF Proceeds
  <2>3. Fit([req[p] EXCEPT !.op = "relink"])
    BY <2>2, ProceedFit
  <2> QED
    BY <1>1, <2>1, <2>3
<1>5. CASE UpdateUserLinks(p)
  <2> DEFINE links == req[p].links
             cabinet == IF links.armoire # None THEN links.armoire ELSE links.machine
  <2>1. links \in Links
    BY <1>5, ActingFields DEF UpdateUserLinks, Acting
  <2>2. cabinet # None => cabinet \in Machine
    BY <2>1 DEF Links
  <2>3. Goto(p, Idle) \/ (cabinet # None /\ Goto(p, [op |-> "bind", machine |-> cabinet]))
    BY <1>5 DEF UpdateUserLinks
  <2> QED
    BY <1>1, <2>2, <2>3, BindFit
<1>6. CASE \/ CreateUser(p) \/ UpdateUserRole(p) \/ ForbidUser(p) \/ DeleteUser(p)
           \/ bindArmoireForPortalDelivery(p) \/ BindFails(p)
  BY <1>1, <1>6 DEF CreateUser, UpdateUserRole, ForbidUser, DeleteUser,
    bindArmoireForPortalDelivery, BindFails
<1> QED
  BY <1>2, <1>3, <1>4, <1>5, <1>6, OwnAccountFit, AuthorizeFit DEF Continue, Administer

\* What people begin leaves users and cabinets alone.
LEMMA PeopleBesides ==
  ASSUME People
  PROVE  UNCHANGED <<cabinetVars, users, gone>> /\ Operation
BY DEF People, Register, GoogleCallback, AppleCallback, AdminCreateUser, Create, EnforceActiveUser,
  ReviewLinkRequest

LEMMA PeopleFit ==
  ASSUME AccountsTypeOK, People
  PROVE  \/ UNCHANGED req /\ requests' \in [LinkRequest -> LinkRow \cup {Absent}]
         \/ UNCHANGED requests /\ \E p \in Request : \E next : Fit(next) /\ Goto(p, next)
<1>1. ASSUME NEW p \in Request, NEW e \in {EmailOf[u] : u \in User},
             \/ Register(p, e) \/ GoogleCallback(p, e) \/ AppleCallback(p, e) \/ AdminCreateUser(p, e)
      PROVE  UNCHANGED requests /\ \E next : Fit(next) /\ Goto(p, next)
  <2>1. PICK role \in Role : Create(p, e, role) /\ (role \in Privileged => e \in AdminEmails)
    <3>1. "guest_local" \in Role \ Privileged
      BY DEF Role, Privileged, LocalRoles
    <3>2. RoleOf(e) \in Role /\ (RoleOf(e) \in Privileged => e \in AdminEmails)
      BY DEF Role, Privileged, LocalRoles, RoleOf
    <3> QED
      BY <1>1, <3>1, <3>2 DEF Register, GoogleCallback, AppleCallback, AdminCreateUser
  <2> QED
    BY <2>1, CreateFit DEF Create
<1>2. ASSUME NEW p \in Request, NEW u \in User, EnforceActiveUser(p, u)
      PROVE  UNCHANGED requests /\ \E next : Fit(next) /\ Goto(p, next)
  <2>1. u \in Live /\ ~ users[u].forbidden
    BY <1>2 DEF EnforceActiveUser, Active
  <2>2. Read(u) \in Reading /\ ~ Read(u).row.forbidden /\ Known(Read(u))
    BY <2>1, RowOfLive DEF Read, Known
  <2> QED
    BY <1>2, <2>2, CheckedFit DEF EnforceActiveUser
<1>3. ASSUME NEW r \in LinkRequest, NEW status \in {"approved", "rejected"}, ReviewLinkRequest(r, status)
      PROVE  UNCHANGED req /\ requests' \in [LinkRequest -> LinkRow \cup {Absent}]
  BY <1>3 DEF ReviewLinkRequest, AccountsTypeOK, LinkRow
<1> QED
  BY <1>1, <1>2, <1>3 DEF People

LEMMA InitTypes == Init => TypeOK /\ Handlers
<1> SUFFICES ASSUME Init
             PROVE  TypeOK /\ Handlers
  OBVIOUS
<1>1. machines \in [Cabinet -> MachineRow \cup {Absent}] /\ Numbered(machines)
  BY CabinetsAssumption DEF Init, InitCabinets
<1>2. poll \in [Cabinet \cup Gateway -> PollState]
  BY DEF Init, InitCabinets, Served, PollState
<1>3. ops \in [people : 0..MaxOps, upkeep : 0..MaxUpkeep]
  BY CabinetsAssumption DEF Init, InitCabinets
<1>4. CabinetsTypeOK
  BY <1>1, <1>2, <1>3, CabinetsAssumption DEF Init, InitCabinets, CabinetsTypeOK
<1>5. requests \in [LinkRequest -> LinkRow \cup {Absent}]
  BY AccountsAssumption DEF Init, LinkRow
<1>6. AccountsTypeOK
  BY <1>5, AccountsAssumption, IdleType DEF Init, AccountsTypeOK, Live
<1>7. Handlers
  BY IdleFit DEF Init, Handlers, Fit
<1> QED
  BY <1>4, <1>6, <1>7, TypeParts

\* The users move in the same ways in every step.
LEMMA UsersStep ==
  ASSUME AccountsTypeOK, [Next]_vars
  PROVE  UsersMove
<1>1. CASE UNCHANGED <<users, gone>>
  BY <1>1 DEF UsersMove
<1> QED
  BY <1>1, PeopleBesides, ContinueWrites, WritesMove DEF Next, vars, accountVars

LEMMA HandlersDecide == Spec => [](TypeOK /\ Handlers)
<1>1. TypeOK /\ Handlers /\ [Next]_vars => TypeOK' /\ Handlers'
  <2> SUFFICES ASSUME TypeOK, Handlers, [Next]_vars
               PROVE  TypeOK' /\ Handlers'
    OBVIOUS
  <2>0. CabinetsTypeOK /\ AccountsTypeOK
    BY TypeParts
  <2>1. UsersTypeOK' /\ Grows
    BY <2>0, UsersStep, UsersKeep
  <2>2. ASSUME UNCHANGED req
        PROVE  req' \in [Request -> Message] /\ Handlers'
    <3>1. req' \in [Request -> Message]
      BY <2>0, <2>2 DEF AccountsTypeOK
    <3>2. ASSUME NEW q \in Request
          PROVE  Decided(req'[q]) /\ Traced(req[q])'
      BY <2>1, <2>2, TracedStays DEF Handlers
    <3> QED
      BY <3>1, <3>2 DEF Handlers
  <2>3. ASSUME CabinetsTypeOK', requests' \in [LinkRequest -> LinkRow \cup {Absent}],
               req' \in [Request -> Message] /\ Handlers'
        PROVE  TypeOK' /\ Handlers'
    <3>1. AccountsTypeOK'
      BY <2>1, <2>3 DEF AccountsTypeOK, UsersTypeOK
    <3> QED
      BY <2>3, <3>1, TypePartsNext
  <2>4. requests \in [LinkRequest -> LinkRow \cup {Absent}]
    BY <2>0 DEF AccountsTypeOK
  <2>5. CASE UNCHANGED vars
    <3>1. CabinetsTypeOK'
      BY <2>0, <2>5 DEF vars, cabinetVars, CabinetsTypeOK
    <3> QED
      BY <2>2, <2>3, <2>4, <2>5, <3>1 DEF vars
  <2>6. CASE NextCabinets /\ UNCHANGED accountVars
    <3>1. CabinetsTypeOK'
      BY <2>0, <2>6, CabinetMoves, GatewayMoves DEF NextCabinets
    <3> QED
      BY <2>2, <2>3, <2>4, <2>6, <3>1 DEF accountVars
  <2>7. CASE People
    <3>1. CabinetsTypeOK'
      BY <2>0, <2>7, PeopleBesides, CabinetsApart
    <3>2. CASE UNCHANGED req /\ requests' \in [LinkRequest -> LinkRow \cup {Absent}]
      BY <2>2, <2>3, <3>1, <3>2
    <3>3. ASSUME UNCHANGED requests, NEW p \in Request, NEW next, Fit(next) /\ Goto(p, next)
          PROVE  TypeOK' /\ Handlers'
      <4>1. req' \in [Request -> Message] /\ Handlers'
        BY <2>0, <2>1, <3>3, HandlersStay
      <4> QED
        BY <2>3, <2>4, <3>1, <3>3, <4>1
    <3> QED
      BY <2>0, <2>7, <3>2, <3>3, PeopleFit
  <2>8. ASSUME NEW p \in Request, Continue(p)
        PROVE  TypeOK' /\ Handlers'
    <3>1. CabinetsTypeOK' /\ requests' \in [LinkRequest -> LinkRow \cup {Absent}]
      BY <2>0, <2>8, ContinueCabinets, ContinueRequests
    <3>2. PICK next : Fit(next) /\ Goto(p, next)
      BY <2>0, <2>8, ContinueFit
    <3>3. req' \in [Request -> Message] /\ Handlers'
      BY <2>0, <2>1, <3>2, HandlersStay
    <3> QED
      BY <2>3, <3>1, <3>3
  <2> QED
    BY <2>5, <2>6, <2>7, <2>8 DEF Next
<1> QED
  BY <1>1, InitTypes, PTL DEF Spec

\* The tables and the handlers keep their types, a machine its number to itself and an
\* email its account, however sign-ups, deletions, imports and registrations interleave.
THEOREM TypeCorrect == Spec => []TypeOK
BY HandlersDecide, PTL

-----------------------------------------------------------------------------
(* The properties of administration.                                       *)

\* How a row of users may change: its owner or an administrator replaces its links, the
\* owner removes it, it is inserted for the email that was asked for, or a handler that
\* decided on it writes the role, the flag or the end of it.
Relinked(u) ==
  /\ u \in Live /\ users'[u] # Absent
  /\ users'[u].role = users[u].role /\ users'[u].forbidden = users[u].forbidden

Left(u, p) == u \in Live /\ req[p].op = "leave" /\ users'[u] = Absent

Inserted(u, p) ==
  /\ u \notin Live /\ req[p].op = "create"
  /\ users'[u].role = req[p].role /\ EmailOf[u] = req[p].email

Edited(u, p) ==
  /\ u \in Live /\ req[p].target.id = u
  /\ \A v \in User \ {u} : users'[v] = users[v]
  /\ \/ req[p].op = "role" /\ users'[u] # Absent /\ users'[u].role = req[p].role
     \/ req[p].op = "forbid" /\ users'[u] # Absent /\ users'[u].role = users[u].role
     \/ req[p].op = "unforbid" /\ users'[u] # Absent /\ users'[u].role = users[u].role /\ ~ users'[u].forbidden
     \/ req[p].op = "delete" /\ users'[u] = Absent

LEMMA FlagField == \A row \in UserRow : \A flag : [row EXCEPT !.forbidden = flag].forbidden = flag
BY DEF UserRow

\* A write on one row leaves the others alone.
LEMMA OneRow ==
  ASSUME AccountsTypeOK, NEW u \in User, NEW t, NEW row, users' = [users EXCEPT ![t] = row],
         users'[u] # users[u]
  PROVE  u = t /\ users'[u] = row /\ \A v \in User \ {u} : users'[v] = users[v]
BY DEF AccountsTypeOK

LEMMA WrittenRow ==
  ASSUME AccountsTypeOK, NEW p \in Request, Writes(p), NEW u \in User, users'[u] # users[u]
  PROVE  Relinked(u) \/ Left(u, p) \/ Inserted(u, p) \/ Edited(u, p)
<1> DEFINE t == req[p].target.id
<1>1. ASSUME NEW v, NEW row, Rewritten(v, row)
      PROVE  /\ u = v /\ u \in Live /\ row \in UserRow /\ users'[u] = row /\ users'[u] # Absent
             /\ users[u] \in UserRow /\ \A w \in User \ {u} : users'[w] = users[w]
  <2>1. v \in Live /\ row \in UserRow /\ users' = [users EXCEPT ![v] = row]
    BY <1>1 DEF Rewritten
  <2>2. u = v /\ users'[u] = row /\ \A w \in User \ {u} : users'[w] = users[w]
    BY <2>1, OneRow
  <2> QED
    BY <2>1, <2>2, RowOfLive, AccountsAssumption
<1>2. ASSUME NEW v, Removed(v)
      PROVE  u = v /\ u \in Live /\ users'[u] = Absent /\ \A w \in User \ {u} : users'[w] = users[w]
  <2>1. v \in Live /\ users' = [users EXCEPT ![v] = Absent]
    BY <1>2 DEF Removed, Remove
  <2> QED
    BY <2>1, OneRow
<1>3. ASSUME NEW v \in User, NEW row \in UserRow, Added(v, row), req[p].op = "create",
             row.role = req[p].role, EmailOf[v] = req[p].email
      PROVE  Inserted(u, p)
  <2>1. v \notin Live /\ users' = [users EXCEPT ![v] = row]
    BY <1>3 DEF Added
  <2>2. u = v /\ users'[u] = row
    BY <2>1, OneRow
  <2> QED
    BY <1>3, <2>1, <2>2 DEF Inserted
<1>4. CASE req[p].op = "leave" /\ Removed(req[p].by.id)
  BY <1>2, <1>4 DEF Left
<1>5. ASSUME NEW v \in User, NEW links \in Links, Rewritten(v, [users[v] EXCEPT !.links = links])
      PROVE  Relinked(u)
  <2>1. /\ u \in Live /\ users'[u] # Absent /\ users[u] \in UserRow
        /\ users'[u] = [users[u] EXCEPT !.links = links]
    BY <1>1, <1>5
  <2>2. users'[u].role = users[u].role /\ users'[u].forbidden = users[u].forbidden
    BY <2>1, RowFields
  <2> QED
    BY <2>1, <2>2 DEF Relinked
<1>6. CASE req[p].op = "role" /\ Rewritten(t, [users[t] EXCEPT !.role = req[p].role])
  <2>1. u = t /\ users'[u] = [users[u] EXCEPT !.role = req[p].role] /\ users[u] \in UserRow
    BY <1>1, <1>6
  <2>2. users'[u].role = req[p].role
    BY <2>1, RowFields
  <2> QED
    BY <1>1, <1>6, <2>1, <2>2 DEF Edited
<1>7. CASE /\ req[p].op \in {"forbid", "unforbid"}
           /\ Rewritten(t, [users[t] EXCEPT !.forbidden = (req[p].op = "forbid")])
  <2> DEFINE flag == req[p].op = "forbid"
  <2>1. u = t /\ users'[u] = [users[u] EXCEPT !.forbidden = flag] /\ users[u] \in UserRow
    BY <1>1, <1>7
  <2>2. req[p].op = "unforbid" => ~ flag
    OBVIOUS
  <2> HIDE DEF flag
  <2>3. users'[u].role = users[u].role /\ users'[u].forbidden = flag
    BY <2>1, RowFields, FlagField
  <2> QED
    BY <1>1, <1>7, <2>1, <2>2, <2>3 DEF Edited
<1>8. CASE req[p].op = "delete" /\ Removed(t)
  BY <1>2, <1>8 DEF Edited
<1> QED
  BY <1>3, <1>4, <1>5, <1>6, <1>7, <1>8 DEF Writes

\* After its write a handler of these is done.
LEMMA DoneAfter ==
  ASSUME AccountsTypeOK, NEW p \in Request, Continue(p), req[p].op \in {"leave", "role", "forbid", "unforbid", "delete"}
  PROVE  req'[p] = Idle
<1>1. DeleteProfile(p) \/ UpdateUserRole(p) \/ ForbidUser(p) \/ DeleteUser(p)
  <2>1. ~ Authorize(p) /\ ~ \E route \in Route : GetUserByEmail(p, route)
    BY DEF Authorize, AuthorizeAdminTarget, GetUserByEmail
  <2>2. OwnAccount(p) => DeleteProfile(p)
    BY DEF OwnAccount, UpdateProfileLinks, CreateLinkRequest, userPortalAccess, portalUser, EnqueueCloudAction
  <2>3. Administer(p) => UpdateUserRole(p) \/ ForbidUser(p) \/ DeleteUser(p)
    BY <2>1 DEF Administer, CountAdminGlobal, CheckLinks, UpdateUserLinks, bindArmoireForPortalDelivery, BindFails
  <2> QED
    BY <2>1, <2>2, <2>3 DEF Continue, CreateUser
<1>2. Goto(p, Idle)
  BY <1>1 DEF DeleteProfile, UpdateUserRole, ForbidUser, DeleteUser
<1> QED
  BY <1>2, OneMoves

LEMMA UserMoves ==
  ASSUME TypeOK, [Next]_vars, NEW u \in User, users'[u] # users[u]
  PROVE  \/ Relinked(u)
         \/ \E p \in Request : /\ Left(u, p) \/ Inserted(u, p) \/ Edited(u, p)
                               /\ req[p].op # "create" => req'[p] = Idle
<1>0. AccountsTypeOK
  BY TypeParts
<1>1. ~ UNCHANGED <<users, gone>>
  OBVIOUS
<1>2. PICK p \in Request : Continue(p)
  BY <1>1, PeopleBesides DEF Next, vars, accountVars
<1>3. Relinked(u) \/ Left(u, p) \/ Inserted(u, p) \/ Edited(u, p)
  BY <1>0, <1>2, ContinueWrites, WrittenRow
<1>4. Left(u, p) \/ Edited(u, p) => req'[p] = Idle
  BY <1>0, <1>2, DoneAfter DEF Left, Edited
<1> QED
  BY <1>3, <1>4 DEF Inserted

\* The last active global administrator goes only by the own will, by a change of role, or by
\* a request whose caller, let through active and read as a global administrator, no longer
\* is one (or, of a local administrator, whose target was made an administrator meanwhile):
\* for any number of administrators and requests.
THEOREM AnAdministratorRemains == Spec => AdminRemains
<1> DEFINE Excused(p) ==
             /\ req'[p] = Idle
             /\ \/ req[p].op \in {"leave", "role"}
                \/ /\ req[p].op \in {"forbid", "delete"}
                   /\ \/ /\ req[p].by.row.role = "admin_global" /\ ~ req[p].seen.row.forbidden
                         /\ req[p].by.id \notin ActiveAdmins
                         /\ Stale(req[p].seen) \/ Stale(req[p].by)
                      \/ req[p].by.row.role = "admin_local" /\ Stale(req[p].target)
           Remains == ActiveAdmins # {} /\ ActiveAdmins' = {} => \E p \in Request : Excused(p)
<1>1. TypeOK /\ Handlers /\ [Next]_vars => [Remains]_vars
  <2> SUFFICES ASSUME TypeOK, Handlers, [Next]_vars, NEW u \in ActiveAdmins, ActiveAdmins' = {}
               PROVE  \E p \in Request : Excused(p)
    BY DEF Remains
  <2>0. AccountsTypeOK
    BY TypeParts
  <2>1. u \in User /\ u \in Live /\ users[u].role = "admin_global" /\ ~ users[u].forbidden
    BY DEF ActiveAdmins, Admins, Live
  <2>2. ASSUME NEW v \in User, users'[v] # Absent
        PROVE  users'[v].role # "admin_global" \/ users'[v].forbidden
    BY <2>2 DEF ActiveAdmins, Admins, Live
  <2>3. users[u] # Absent
    BY <2>1 DEF Live
  <2>4. users'[u] # users[u] /\ ~ Relinked(u) /\ \A p \in Request : ~ Inserted(u, p)
    BY <2>1, <2>2, <2>3 DEF Relinked, Inserted
  <2>5. PICK p \in Request : /\ Left(u, p) \/ Edited(u, p)
                             /\ req[p].op # "create" => req'[p] = Idle
    BY <2>1, <2>4, UserMoves
  <2>6. CASE Left(u, p) \/ req[p].op = "role"
    BY <2>5, <2>6 DEF Left
  <2>7. CASE Edited(u, p) /\ req[p].op # "role"
    <3> DEFINE by == req[p].by
    <3>1. req[p].op \in {"forbid", "delete"} /\ req[p].target.id = u
      BY <2>1, <2>2, <2>7 DEF Edited
    <3>2. req[p].op \in Acting
      BY <3>1 DEF Acting, Action
    <3>3. /\ by.id \in User /\ by.row \in UserRow
          /\ req[p].seen.id \in User /\ req[p].seen.row \in UserRow
      BY <2>0, <3>2, ActingFields
    <3>4. Decided(req[p]) /\ Traced(req[p])
      BY DEF Handlers
    <3>5. CASE by.row.role = "admin_global" /\ by.id # u
      <4>1. by.id \notin ActiveAdmins
        <5> SUFFICES ASSUME by.id \in ActiveAdmins
                     PROVE  FALSE
          OBVIOUS
        <5>1. users'[by.id] = users[by.id]
          BY <2>7, <3>3, <3>5 DEF Edited
        <5>2. users[by.id] # Absent /\ users[by.id].role = "admin_global" /\ ~ users[by.id].forbidden
          BY DEF ActiveAdmins, Admins, Live
        <5> QED
          BY <2>2, <3>3, <5>1, <5>2
      <4>2. ~ req[p].seen.row.forbidden /\ Later(req[p].seen, by)
        BY <3>2, <3>4 DEF Decided, Traced, Acting, Action
      <4>3. ASSUME ~ Stale(req[p].seen), ~ Stale(by)
            PROVE  FALSE
        <5>1. users[req[p].seen.id] = req[p].seen.row /\ users[by.id] = by.row
          BY <4>3 DEF Stale
        <5>2. req[p].seen.id \in Live
          BY <3>3, <5>1, AccountsAssumption DEF Live
        <5>3. req[p].seen.id = by.id
          BY <2>0, <4>2, <5>2 DEF Later, AccountsTypeOK
        <5> QED
          BY <3>5, <4>1, <4>2, <5>1, <5>2, <5>3 DEF ActiveAdmins, Admins
      <4> QED
        BY <2>5, <3>1, <3>5, <4>1, <4>2, <4>3
    <3>6. CASE by.row.role = "admin_local" /\ req[p].target.row.role \in LocalRoles
      <4>1. Stale(req[p].target)
        BY <2>1, <3>1, <3>6 DEF Stale, LocalRoles
      <4> QED
        BY <2>5, <3>1, <3>6, <4>1
    <3> QED
      BY <3>1, <3>2, <3>4, <3>5, <3>6 DEF Decided
  <2> QED
    BY <2>5, <2>6, <2>7
<1> QED
  BY <1>1, HandlersDecide, PTL DEF Spec, AdminRemains

\* Privileges come from a global administrator or from the list of administrators' emails,
\* and a local administrator reaches the accounts of the own machine without privileges,
\* however requests overlap and for any number of them.
THEOREM AdministratorsKeepTheirScope == Spec => ScopeOfAdmins
<1> DEFINE Given(u) ==
             u \in Live /\ users'[u] # Absent /\ users'[u].role # users[u].role
             /\ users'[u].role \in Privileged =>
             \E p \in Request : req[p].op = "role" /\ req[p].target.id = u /\ req'[p] # req[p]
               /\ req[p].by.row.role = "admin_global"
           Born(u) == u \notin Live /\ users'[u].role \in Privileged => EmailOf[u] \in AdminEmails
           Reached(u) ==
             \A p \in Request :
               req[p].op \in Action \cup {"relink"} /\ req[p].target.id = u /\ req'[p] # req[p]
               /\ req[p].by.row.role = "admin_local" /\ ~ Stale(req[p].by) /\ ~ Stale(req[p].target) =>
                 /\ users[u].role \notin Privileged
                 /\ users[u].links.machine = users[req[p].by.id].links.machine
           Scoped == \A u \in User : users'[u] # users[u] =>
                       /\ Given(u)
                       /\ Born(u)
                       /\ Reached(u)
<1>1. TypeOK /\ Handlers /\ [Next]_vars => [Scoped]_vars
  <2> SUFFICES ASSUME TypeOK, Handlers, [Next]_vars, NEW u \in User, users'[u] # users[u]
               PROVE  Given(u) /\ Born(u) /\ Reached(u)
    BY DEF Scoped
  <2>1. \A role \in LocalRoles : role \notin Privileged
    BY DEF LocalRoles, Privileged
  <2>2. Given(u)
    <3> SUFFICES ASSUME u \in Live, users'[u] # Absent, users'[u].role # users[u].role, users'[u].role \in Privileged
                 PROVE  \E p \in Request : req[p].op = "role" /\ req[p].target.id = u /\ req'[p] # req[p]
                          /\ req[p].by.row.role = "admin_global"
      OBVIOUS
    <3>1. ~ Relinked(u) /\ \A p \in Request : ~ Left(u, p) /\ ~ Inserted(u, p)
      BY DEF Relinked, Left, Inserted
    <3>2. PICK p \in Request : Edited(u, p) /\ (req[p].op # "create" => req'[p] = Idle)
      BY <3>1, UserMoves
    <3>3. req[p].op = "role" /\ users'[u].role = req[p].role /\ req[p].target.id = u
      BY <3>2 DEF Edited
    <3>4. req'[p] # req[p]
      BY <3>2, <3>3 DEF Idle
    <3>5. req[p].role \notin LocalRoles
      BY <2>1, <3>3
    <3>6. req[p].by.row.role = "admin_global"
      BY <3>3, <3>5 DEF Handlers, Decided, Acting, Action
    <3> QED
      BY <3>3, <3>4, <3>6
  <2>3. Born(u)
    <3> SUFFICES ASSUME u \notin Live, users'[u].role \in Privileged
                 PROVE  EmailOf[u] \in AdminEmails
      OBVIOUS
    <3>1. PICK p \in Request : Inserted(u, p)
      BY UserMoves DEF Left, Relinked, Edited
    <3> QED
      BY <3>1 DEF Inserted, Handlers, Decided
  <2>4. Reached(u)
    <3> SUFFICES ASSUME NEW p \in Request, req[p].op \in Action \cup {"relink"}, req[p].target.id = u,
                        req[p].by.row.role = "admin_local", ~ Stale(req[p].by), ~ Stale(req[p].target)
                 PROVE  /\ users[u].role \notin Privileged
                        /\ users[u].links.machine = users[req[p].by.id].links.machine
      OBVIOUS
    <3>1. users[req[p].by.id] = req[p].by.row /\ users[u] = req[p].target.row
      BY DEF Stale
    <3>2. callerOwnsTarget(req[p].by.row, req[p].target.row) /\ req[p].target.row.role \in LocalRoles
      BY DEF Handlers, Decided, Acting
    <3> QED
      BY <2>1, <3>1, <3>2 DEF callerOwnsTarget
  <2> QED
    BY <2>2, <2>3, <2>4
<1> QED
  BY <1>1, HandlersDecide, PTL DEF Spec, ScopeOfAdmins

\* Only a handler that was let through and checked the access queues a command, for the
\* machine it read last: each part of the access holds when the command is queued, unless
\* what it was read from changed since.
THEOREM CommandsHaveAccess == Spec => AccessBehindCommands
<1> DEFINE Behind(p, u, m) ==
             /\ req[p].op = "enqueue" /\ req[p].by.id = u /\ req'[p] # req[p]
             /\ Stale(req[p].seen) \/ Active(u)
             /\ Stale(req[p].by) \/ users[u].links.machine = m
             /\ Stale(req[p].first) \/ users[u].links.gateway # "server"
             /\ \/ Stale(req[p].first) \/ requests # req[p].approved
                \/ \E r \in LinkRequest : requests[r] # Absent /\ requests[r].user = u
                     /\ requests[r].status = "approved"
           Covered == \A m \in Machine : \A u \in queue'[m] \ queue[m] : \E p \in Request : Behind(p, u, m)
<1>1. TypeOK /\ Handlers /\ [Next]_vars => [Covered]_vars
  <2> SUFFICES ASSUME TypeOK, Handlers, [Next]_vars, NEW m \in Machine, NEW u \in queue'[m] \ queue[m]
               PROVE  \E p \in Request : Behind(p, u, m)
    BY DEF Covered
  <2>0. CabinetsTypeOK /\ AccountsTypeOK
    BY TypeParts
  <2>1. ASSUME UNCHANGED queue
        PROVE  FALSE
    BY <2>1
  <2>2. ASSUME NEW x, NEW n, Take(x, n)
        PROVE  FALSE
    BY <2>0, <2>2 DEF Take, CabinetsTypeOK
  <2>3. ~ NextCabinets
    BY <2>1, <2>2 DEF NextCabinets, RegisterUnknownMachine, Import, BasicAuth, MyActions,
      RegisterGateway, GatewayAuth, PendingActions, FetchPendingActionsForGateway
  <2>4. PICK p \in Request : Continue(p)
    BY <2>1, <2>3, PeopleBesides DEF Next, vars, cabinetVars
  <2>5. EnqueueCloudAction(p)
    BY <2>1, <2>4, ContinueBesides DEF bindArmoireForPortalDelivery, cabinetVars
  <2>6. req[p].op = "enqueue" /\ m = req[p].by.row.links.machine /\ u = req[p].by.id /\ req'[p] = Idle
    BY <2>0, <2>5, OneMoves DEF EnqueueCloudAction, CabinetsTypeOK
  <2>7. /\ req[p].seen.id \in User /\ req[p].seen.row \in UserRow
        /\ req[p].first.id \in User /\ req[p].first.row \in UserRow
    BY <2>0, <2>6, AccessFields
  <2>8. Decided(req[p]) /\ Later(req[p].seen, req[p].first) /\ Later(req[p].first, req[p].by)
    BY <2>6 DEF Handlers, Traced
  <2>9. ASSUME NEW x, x.id \in User, x.row \in UserRow, ~ Stale(x)
        PROVE  x.id \in Live /\ x.id \notin gone /\ users[x.id] = x.row
    BY <2>0, <2>9, AccountsAssumption DEF Stale, Live, AccountsTypeOK
  <2>10. ~ Stale(req[p].first) => u = req[p].first.id /\ users[u] = req[p].first.row
    BY <2>6, <2>7, <2>8, <2>9 DEF Later
  <2>11. Stale(req[p].seen) \/ Active(u)
    <3> SUFFICES ASSUME ~ Stale(req[p].seen)
                 PROVE  Active(u)
      OBVIOUS
    <3>1. req[p].seen.id \in Live /\ req[p].seen.id \notin gone /\ users[req[p].seen.id] = req[p].seen.row
      BY <2>7, <2>9
    <3>2. req[p].first.id = req[p].seen.id
      BY <2>8, <3>1 DEF Later
    <3>3. u = req[p].seen.id
      BY <2>6, <2>8, <3>1, <3>2 DEF Later
    <3>4. ~ req[p].seen.row.forbidden
      BY <2>6, <2>8 DEF Decided
    <3> QED
      BY <3>1, <3>3, <3>4 DEF Active
  <2>12. Stale(req[p].by) \/ users[u].links.machine = m
    BY <2>6 DEF Stale
  <2>13. Stale(req[p].first) \/ users[u].links.gateway # "server"
    BY <2>6, <2>8, <2>10 DEF Decided
  <2>14. \/ Stale(req[p].first) \/ requests # req[p].approved
         \/ \E r \in LinkRequest : requests[r] # Absent /\ requests[r].user = u
              /\ requests[r].status = "approved"
    <3> SUFFICES ASSUME ~ Stale(req[p].first), requests = req[p].approved
                 PROVE  \E r \in LinkRequest : requests[r] # Absent /\ requests[r].user = u
                          /\ requests[r].status = "approved"
      OBVIOUS
    <3>1. u = req[p].first.id /\ u \in User
      BY <2>7, <2>10
    <3>2. \E r \in LinkRequest : requests[r] = [user |-> u, status |-> "approved"]
      BY <2>6, <2>8, <3>1 DEF Decided
    <3>3. [user |-> u, status |-> "approved"] \in LinkRow
      BY <3>1 DEF LinkRow
    <3> QED
      BY <3>2, <3>3, AccountsAssumption
  <2>15. req'[p] # req[p]
    BY <2>6 DEF Idle
  <2> QED
    BY <2>6, <2>11, <2>12, <2>13, <2>14, <2>15
<1> QED
  BY <1>1, HandlersDecide, PTL DEF Spec, AccessBehindCommands

-----------------------------------------------------------------------------
(* Where the commands go.                                                  *)

\* A number that is not the cabinet's own is one an import gave.
Numbers == \A c \in Listed : machines[c].client \in {0, machines[c].id} \/ Foreign(c)

\* A cabinet that is being served is in the inventory; a gateway that is being served
\* presented what its session held when it was read.
Polled ==
  /\ \A c \in Cabinet : poll[c] # Served => c \in Listed
  /\ \A g \in Gateway : poll[g] # Served => poll[g].seen.cred = poll[g].cred

\* Rows that stay, while nothing is taken off the bounds, keep their numbers explained.
LEMMA NumbersStay ==
  ASSUME CabinetsTypeOK, Numbers, ops'.upkeep \in Nat, ops'.upkeep >= ops.upkeep,
         \A c \in Listed' : \/ c \in Listed /\ machines'[c] = machines[c]
                            \/ machines'[c].client \in {0, machines'[c].id}
                            \/ Foreign(c)'
  PROVE  Numbers'
<1> SUFFICES ASSUME NEW c \in Listed', c \in Listed, machines'[c] = machines[c]
             PROVE  machines'[c].client \in {0, machines'[c].id} \/ Foreign(c)'
  BY DEF Numbers
<1>1. ops.upkeep \in Nat
  BY CabinetsAssumption DEF CabinetsTypeOK
<1>2. ops.upkeep > 0 => ops'.upkeep > 0
  BY <1>1
<1>3. CASE machines[c].client \in {0, machines[c].id}
  BY <1>3
<1>4. CASE Foreign(c)
  BY <1>2, <1>4 DEF Foreign
<1> QED
  BY <1>3, <1>4 DEF Numbers

LEMMA UpkeepGrows ==
  ASSUME CabinetsTypeOK, Operation \/ Upkeep \/ UNCHANGED ops
  PROVE  ops'.upkeep \in Nat /\ ops'.upkeep >= ops.upkeep /\ (Upkeep => ops'.upkeep > 0)
<1>1. ops \in [people : 0..MaxOps, upkeep : 0..MaxUpkeep] /\ ops.upkeep \in Nat
  BY CabinetsAssumption DEF CabinetsTypeOK
<1>2. CASE Upkeep
  <2>1. ops'.upkeep = ops.upkeep + 1
    BY <1>1, <1>2 DEF Upkeep
  <2> QED
    BY <1>1, <2>1
<1>3. CASE ~ Upkeep
  <2>1. ops'.upkeep = ops.upkeep
    BY <1>1, <1>3 DEF Operation
  <2> QED
    BY <1>1, <1>3, <2>1
<1> QED
  BY <1>2, <1>3

\* Steps that leave the inventory and the polls alone.
LEMMA NumbersApart ==
  ASSUME CabinetsTypeOK, Numbers, Polled, UNCHANGED <<machines, poll>>,
         Operation \/ Upkeep \/ UNCHANGED ops
  PROVE  Numbers' /\ Polled'
<1>1. Numbers'
  BY UpkeepGrows, NumbersStay DEF Listed
<1> QED
  BY <1>1 DEF Polled, Listed

LEMMA TakeNumbers ==
  ASSUME CabinetsTypeOK, Numbers, Polled, NEW x \in Cabinet \cup Gateway, NEW m, Take(x, m)
  PROVE  Numbers' /\ Polled'
<1>1. UNCHANGED <<machines, ops>> /\ \A y \in Cabinet \cup Gateway : poll'[y] \in {poll[y], Served}
  BY DEF Take, CabinetsTypeOK
<1>2. Numbers'
  BY <1>1, UpkeepGrows, NumbersStay DEF Listed
<1>3. Polled'
  <2>1. ASSUME NEW y \in Cabinet \cup Gateway, poll'[y] # Served
        PROVE  poll[y] # Served /\ poll'[y] = poll[y]
    BY <1>1, <2>1
  <2> QED
    BY <1>1, <2>1 DEF Polled, Listed
<1> QED
  BY <1>2, <1>3

LEMMA CabinetNumbers ==
  ASSUME CabinetsTypeOK, Numbers, Polled, NEW c \in Cabinet,
         \/ RegisterUnknownMachine(c)
         \/ \E entry \in ImportFile : Import(c, entry)
         \/ BasicAuth(c)
         \/ MyActions(c)
  PROVE  Numbers' /\ Polled'
<1>1. CASE RegisterUnknownMachine(c)
  <2>1. PICK id \in Ids(c) : machines' = [machines EXCEPT ![c] = [id |-> id, client |-> 0, active |-> FALSE]]
    BY <1>1 DEF RegisterUnknownMachine
  <2> DEFINE row == [id |-> id, client |-> 0, active |-> FALSE]
  <2>2. row \in MachineRow /\ row.client = 0
    BY IdsType DEF MachineRow, Client
  <2>3. machines' = [machines EXCEPT ![c] = row]
    BY <2>1
  <2> HIDE DEF row
  <2>4. machines'[c] = row /\ \A d \in Cabinet \ {c} : machines'[d] = machines[d]
    BY <2>3 DEF CabinetsTypeOK
  <2>5. Numbers'
    BY <1>1, <2>2, <2>4, UpkeepGrows, NumbersStay DEF RegisterUnknownMachine, Listed
  <2>6. Polled'
    BY <1>1, <2>2, <2>4, CabinetsAssumption DEF RegisterUnknownMachine, Polled, Listed
  <2> QED
    BY <2>5, <2>6
<1>2. ASSUME NEW entry \in ImportFile, Import(c, entry)
      PROVE  Numbers' /\ Polled'
  <2>1. PICK id \in Ids(c) : machines' = [machines EXCEPT ![c] = ImportMachine(machines[c], entry, id)]
    BY <1>2 DEF Import
  <2> DEFINE row == ImportMachine(machines[c], entry, id)
  <2>2. /\ row \in MachineRow /\ row.id = id
        /\ row.client = entry.client \/ (c \in Listed /\ row.client = machines[c].client)
    BY ImportedRow
  <2>3. machines' = [machines EXCEPT ![c] = row]
    BY <2>1
  <2> HIDE DEF row
  <2>4. machines'[c] = row /\ \A d \in Cabinet \ {c} : machines'[d] = machines[d]
    BY <2>3 DEF CabinetsTypeOK
  <2>5. ops'.upkeep \in Nat /\ ops'.upkeep >= ops.upkeep /\ ops'.upkeep > 0
    BY <1>2, UpkeepGrows DEF Import
  <2>6. row.client \in {0, row.id} \/ Foreign(c)'
    <3>1. CASE row.client = entry.client
      BY <1>2, <2>4, <2>5, <3>1 DEF Foreign, Import
    <3>2. CASE c \in Listed /\ row.client = machines[c].client
      <4>1. row.id = machines[c].id
        BY <2>2, <3>2, IdsType DEF Listed
      <4> QED
        BY <2>4, <2>5, <3>2, <4>1 DEF Foreign, Numbers
    <3> QED
      BY <2>2, <3>1, <3>2
  <2>7. Numbers'
    BY <2>4, <2>5, <2>6, NumbersStay DEF Listed
  <2>8. Polled'
    BY <1>2, <2>2, <2>4, CabinetsAssumption DEF Import, Polled, Listed
  <2> QED
    BY <2>7, <2>8
<1>3. CASE BasicAuth(c)
  <2>1. Numbers'
    BY <1>3, UpkeepGrows, NumbersStay DEF BasicAuth, Listed
  <2>2. Polled'
    <3>1. UNCHANGED machines /\ c \in Listed /\ \A y \in (Cabinet \cup Gateway) \ {c} : poll'[y] = poll[y]
      BY <1>3 DEF BasicAuth, CabinetsTypeOK, Listed
    <3> QED
      BY <3>1, CabinetsAssumption DEF Polled, Listed
  <2> QED
    BY <2>1, <2>2
<1>4. CASE MyActions(c)
  BY <1>4, TakeNumbers DEF MyActions
<1> QED
  BY <1>1, <1>2, <1>3, <1>4

LEMMA GatewayNumbers ==
  ASSUME CabinetsTypeOK, Numbers, Polled, NEW g \in Gateway,
         \/ \E new \in Registration : RegisterGateway(g, new.machine, new.cred)
         \/ \E cred \in Credential : GatewayAuth(g, cred)
         \/ PendingActions(g)
  PROVE  Numbers' /\ Polled'
<1>1. ASSUME NEW new \in Registration, RegisterGateway(g, new.machine, new.cred)
      PROVE  Numbers' /\ Polled'
  BY <1>1, NumbersApart DEF RegisterGateway
<1>2. ASSUME NEW cred \in Credential, GatewayAuth(g, cred)
      PROVE  Numbers' /\ Polled'
  <2>1. Numbers'
    BY <1>2, UpkeepGrows, NumbersStay DEF GatewayAuth, Listed
  <2>2. Polled'
    <3>1. UNCHANGED machines /\ \A y \in (Cabinet \cup Gateway) \ {g} : poll'[y] = poll[y]
      BY <1>2 DEF GatewayAuth, CabinetsTypeOK
    <3>2. poll'[g] = [op |-> "gateway", cred |-> cred, seen |-> sessions[g]] /\ sessions[g].cred = cred
      BY <1>2 DEF GatewayAuth, ValidateGatewayRequest, CabinetsTypeOK
    <3>3. poll'[g].seen.cred = poll'[g].cred
      BY <3>2
    <3> QED
      BY <3>1, <3>3, CabinetsAssumption DEF Polled, Listed
  <2> QED
    BY <2>1, <2>2
<1>3. CASE PendingActions(g)
  BY <1>3, TakeNumbers DEF PendingActions, FetchPendingActionsForGateway
<1> QED
  BY <1>1, <1>2, <1>3

LEMMA BindNumbers ==
  ASSUME TypeOK, Numbers, Polled, NEW p \in Request, bindArmoireForPortalDelivery(p)
  PROVE  Numbers' /\ Polled'
<1> DEFINE m == req[p].machine
<1>0. CabinetsTypeOK /\ AccountsTypeOK
  BY TypeParts
<1>1. m \in Machine
  BY <1>0, MessageCases DEF bindArmoireForPortalDelivery
<1>2. UNCHANGED <<poll, ops>> /\ BindMachineForPortalDelivery(m)
  BY DEF bindArmoireForPortalDelivery
<1> HIDE DEF m
<1>3. ASSUME NEW c \in Cabinet
      PROVE  \/ machines'[c] = machines[c]
             \/ c \in Listed /\ machines'[c] # Absent /\ machines'[c].client = machines'[c].id
  <2> SUFFICES ASSUME machines'[c] # machines[c]
               PROVE  c \in Listed /\ machines'[c] # Absent /\ machines'[c].client = machines'[c].id
    OBVIOUS
  <2>1. /\ c \in Listed /\ machines[c].id = m
        /\ machines'[c] = [machines[c] EXCEPT !.active = TRUE, !.client = m]
    BY <1>2 DEF BindMachineForPortalDelivery, HashedPkeyByInventoryID
  <2>2. machines[c] \in MachineRow
    BY <1>0, <2>1 DEF CabinetsTypeOK, Listed
  <2>3. machines'[c] \in MachineRow /\ machines'[c].client = m /\ machines'[c].id = m
    BY <1>1, <2>1, <2>2 DEF MachineRow, Client
  <2> QED
    BY <2>1, <2>3, CabinetsAssumption
<1>4. Numbers'
  BY <1>0, <1>2, <1>3, UpkeepGrows, NumbersStay DEF Listed
<1>5. Polled'
  BY <1>2, <1>3 DEF Polled, Listed
<1> QED
  BY <1>4, <1>5

LEMMA NumbersKept == Spec => [](TypeOK /\ Numbers /\ Polled)
<1>1. Init => Numbers /\ Polled
  <2> SUFFICES ASSUME Init
               PROVE  Numbers /\ Polled
    OBVIOUS
  <2>1. machines \in Inventory /\ \A x \in Cabinet \cup Gateway : poll[x] = Served
    BY DEF Init, InitCabinets
  <2> QED
    BY <2>1 DEF Numbers, Polled, Foreign, Listed
<1>2. TypeOK /\ Numbers /\ Polled /\ [Next]_vars => Numbers' /\ Polled'
  <2> SUFFICES ASSUME TypeOK, Numbers, Polled, [Next]_vars
               PROVE  Numbers' /\ Polled'
    OBVIOUS
  <2>0. CabinetsTypeOK
    BY TypeParts
  <2>1. CASE UNCHANGED cabinetVars /\ (Operation \/ Upkeep \/ UNCHANGED ops)
    BY <2>0, <2>1, NumbersApart DEF cabinetVars
  <2>2. CASE NextCabinets
    BY <2>0, <2>2, CabinetNumbers, GatewayNumbers DEF NextCabinets
  <2>3. CASE People
    BY <2>1, <2>3, PeopleBesides
  <2>4. ASSUME NEW p \in Request, Continue(p)
        PROVE  Numbers' /\ Polled'
    <3>1. CASE bindArmoireForPortalDelivery(p)
      BY <3>1, BindNumbers
    <3>2. CASE EnqueueCloudAction(p)
      BY <2>0, <3>2, NumbersApart DEF EnqueueCloudAction
    <3> QED
      BY <2>1, <2>4, <3>1, <3>2, ContinueBesides
  <2> QED
    BY <2>1, <2>2, <2>3, <2>4 DEF Next, vars
<1> QED
  BY <1>1, <1>2, TypeCorrect, PTL DEF Spec

\* A row of the queue is emptied by the poll that takes it.
LEMMA WhoTakes ==
  ASSUME CabinetsTypeOK, [Next]_vars, NEW m \in Machine, queue[m] # {}, queue'[m] = {}
  PROVE  \/ \E c \in Cabinet : poll[c] # Served /\ poll'[c] = Served /\ PortalMachineIDFromHashedPkey(c) = m
         \/ \E g \in Gateway : poll[g] # Served /\ poll'[g] = Served /\ sessions[g].machine = m
<1>1. ASSUME UNCHANGED queue
      PROVE  FALSE
  BY <1>1
<1>2. ASSUME NEW x \in Cabinet \cup Gateway, NEW n, Take(x, n)
      PROVE  n = m /\ poll'[x] = Served
  BY <1>2 DEF Take, CabinetsTypeOK
<1>3. ~ People
  BY <1>1, PeopleBesides DEF cabinetVars
<1>4. ASSUME NEW p \in Request, Continue(p)
      PROVE  FALSE
  <2>1. CASE EnqueueCloudAction(p)
    BY <1>1, <2>1 DEF EnqueueCloudAction, CabinetsTypeOK
  <2> QED
    BY <1>1, <1>4, <2>1, ContinueBesides DEF bindArmoireForPortalDelivery, cabinetVars
<1>5. NextCabinets
  BY <1>1, <1>3, <1>4 DEF Next, vars, cabinetVars
<1>6. CASE \E c \in Cabinet : MyActions(c)
  BY <1>2, <1>6 DEF MyActions
<1>7. CASE \E g \in Gateway : PendingActions(g)
  BY <1>2, <1>7 DEF PendingActions, FetchPendingActionsForGateway
<1> QED
  BY <1>1, <1>5, <1>6, <1>7 DEF NextCabinets, RegisterUnknownMachine, Import, BasicAuth,
    RegisterGateway, GatewayAuth

\* A queue is emptied by the cabinet it is for, by one an import gave its number, or by the
\* gateway registered for it with what it presented, unless it was registered anew while it
\* was served: for any inventory, any imports and any number of gateways.
THEOREM CommandsReachTheirCabinet == Spec => CommandsGoHome
<1> DEFINE Home ==
      \A m \in Machine : queue[m] # {} /\ queue'[m] = {} =>
        \/ \E c \in Cabinet : poll[c] # Served /\ poll'[c] = Served
             /\ (machines[c].id = m \/ Foreign(c))
        \/ \E g \in Gateway : poll[g] # Served /\ poll'[g] = Served /\ sessions[g].machine = m
             /\ (sessions[g].cred = poll[g].cred \/ sessions[g] # poll[g].seen)
<1>1. TypeOK /\ Numbers /\ Polled /\ [Next]_vars => [Home]_vars
  <2> SUFFICES ASSUME TypeOK, Numbers, Polled, [Next]_vars, NEW m \in Machine, queue[m] # {}, queue'[m] = {}
               PROVE  \/ \E c \in Cabinet : poll[c] # Served /\ poll'[c] = Served
                           /\ (machines[c].id = m \/ Foreign(c))
                      \/ \E g \in Gateway : poll[g] # Served /\ poll'[g] = Served /\ sessions[g].machine = m
                           /\ (sessions[g].cred = poll[g].cred \/ sessions[g] # poll[g].seen)
    BY DEF Home
  <2>1. ASSUME NEW c \in Cabinet, poll[c] # Served, PortalMachineIDFromHashedPkey(c) = m
        PROVE  machines[c].id = m \/ Foreign(c)
    <3>1. machines[c].client \in {0, machines[c].id} \/ Foreign(c)
      BY <2>1 DEF Numbers, Polled
    <3> QED
      BY <2>1, <3>1 DEF PortalMachineIDFromHashedPkey
  <2>2. ASSUME NEW g \in Gateway, poll[g] # Served
        PROVE  sessions[g].cred = poll[g].cred \/ sessions[g] # poll[g].seen
    BY <2>2 DEF Polled
  <2> QED
    BY <2>1, <2>2, TypeParts, WhoTakes
<1> QED
  BY <1>1, NumbersKept, PTL DEF Spec, CommandsGoHome
=============================================================================
