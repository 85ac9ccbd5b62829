----------------------------- MODULE MCAccounts -----------------------------
(* An instance of Accounts for TLC: two global administrators, a local one of  *)
(* machine 1, a guest of it with an approved link, and an email of ADMIN_EMAILS  *)
(* that may sign up, go, and sign up again.                                    *)
EXTENDS Accounts

On(m) == [Unlinked EXCEPT !.machine = m]
Row(role, links) == [role |-> role, forbidden |-> FALSE, links |-> links]

People0 == [u \in User |->
  CASE u = "boss"  -> Row("admin_global", Unlinked)
    [] u = "chief" -> Row("admin_global", Unlinked)
    [] u = "local" -> Row("admin_local", On(1))
    [] u = "guest" -> Row("guest_local", On(1))
    [] OTHER       -> Absent]
Emails == [u \in User |-> IF u \in {"new1", "new2"} THEN "new" ELSE u]
Tables == {[c \in Cabinet |-> IF c = "c1" THEN [id |-> 1, client |-> 0, active |-> FALSE] ELSE Absent]}
Sessions0 == [g \in Gateway |-> [machine |-> 1, cred |-> "old"]]
Sessions1 == {[machine |-> 2, cred |-> "new"]}
LinksOffered == {On(1), [On(2) EXCEPT !.armoire = 2], [On(1) EXCEPT !.gateway = "cm5"],
                 [On(1) EXCEPT !.gateway = "server"]}
File == {[cabinet |-> "c2", client |-> 0, active |-> FALSE],
         [cabinet |-> "c2", client |-> 1, active |-> TRUE]}
ApprovedLinks == [r \in LinkRequest |-> IF r = "r1" THEN "guest" ELSE Absent]
=============================================================================
