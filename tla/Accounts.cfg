SPECIFICATION FairSpec
CONSTANTS
  Cabinet = {"c1", "c2"}
  Machine = {1, 2}
  Gateway = {"gw"}
  Credential = {"old", "new"}
  User = {"boss", "chief", "local", "guest", "new1", "new2"}
  Absent = absent
  None = none
  Inventory <- Tables
  Registered <- Sessions0
  Registration <- Sessions1
  ImportFile <- File
  MaxOps = 2
  MaxUpkeep = 1
  EmailOf <- Emails
  AdminEmails = {"new"}
  RoleGiven = {"admin_local", "guest_local"}
  LinksGiven <- LinksOffered
  Founders <- People0
  LinkRequest = {"r1", "r2"}
  Approved <- ApprovedLinks
  Request = {"p", "q"}
INVARIANTS
  TypeOK
PROPERTIES
  AdminRemains
  ScopeOfAdmins
  AccessBehindCommands
  CommandsGoHome
  BoundCabinetServed
