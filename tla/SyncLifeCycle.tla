--------------------------- MODULE SyncLifeCycle ----------------------------
(***************************************************************************)
(* What the cloud promises about the life of a synchronisation run,        *)
(* whatever handlers carry it: a run is asked for, begins, and ends with a *)
(* result; it vanishes only with its whole profile.  A run that has ended  *)
(* is taken up again only while a report on it is held back: one that      *)
(* looked at the run before it ended, or that says itself that the run is  *)
(* going on.                                                               *)
(***************************************************************************)
CONSTANTS
  Run,       \* the runs
  Profile,   \* the profiles
  Absent,    \* the profile of a run that does not exist
  Finished   \* the results a run may end with

VARIABLES
  profile,  \* the profile each run belongs to
  status,   \* "none", "pending", "running" or a result
  heldBack  \* the runs on which such a report is in progress

vars == <<profile, status, heldBack>>

Init ==
  /\ profile = [r \in Run |-> Absent]
  /\ status = [r \in Run |-> "none"]
  /\ heldBack = {}

AskFor(r) ==
  /\ profile[r] = Absent
  /\ \E pf \in Profile : profile' = [profile EXCEPT ![r] = pf]
  /\ status' = [status EXCEPT ![r] = "pending"]

\* The step of one run leaves the others alone.
Moves(r, to) == status' = [status EXCEPT ![r] = to] /\ UNCHANGED profile

Begin(r) == status[r] \in {"pending", "running"} /\ Moves(r, "running")

End(r) == status[r] # "none" /\ \E s \in Finished : Moves(r, s)

TakeUpAgain(r) == status[r] \in Finished /\ r \in heldBack /\ Moves(r, "running")

\* A profile is removed with all its runs.
Remove ==
  \E gone \in SUBSET Run :
    /\ \A r \in gone, q \in Run : profile[r] # Absent /\ (profile[q] = profile[r] => q \in gone)
    /\ profile' = [r \in Run |-> IF r \in gone THEN Absent ELSE profile[r]]
    /\ status' = [r \in Run |-> IF r \in gone THEN "none" ELSE status[r]]

Next ==
  /\ heldBack' \in SUBSET Run
  /\ \/ \E r \in Run : AskFor(r) \/ Begin(r) \/ End(r) \/ TakeUpAgain(r)
     \/ Remove
     \/ UNCHANGED <<profile, status>>

Spec == Init /\ [][Next]_vars
=============================================================================
