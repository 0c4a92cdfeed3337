------------------------------ MODULE Tracker ------------------------------
(***************************************************************************)
(* What the applications service promises about its two tables, whatever   *)
(* middleware, queries and interleavings it takes: every change is one     *)
(* atomic change of one row, made by a user who may make it at that very   *)
(* moment, and a number names one row for ever.                            *)
(*                                                                         *)
(* A row remembers its author, the user whose inputs it holds.             *)
(***************************************************************************)
EXTENDS Naturals

CONSTANT Users    \* the registered users

VARIABLES
  applications,    \* id -> [userID, author]
  stages,          \* id -> [applicationID, author]
  usedApplications,
  usedStages       \* the numbers that were given out, rows and failures

vars == <<applications, stages, usedApplications, usedStages>>

Init ==
  /\ applications = [a \in {1} |-> [userID |-> 1, author |-> 1]]
  /\ stages = [s \in {1} |-> [applicationID |-> 1, author |-> 1]]
  /\ usedApplications = {1}
  /\ usedStages = {1}

Owns(u, a) == a \in DOMAIN applications /\ applications[a].userID = u

OwnsStage(u, s) == s \in DOMAIN stages /\ Owns(u, stages[s].applicationID)

SameBut(old, new, id) ==
  \A x \in (DOMAIN old \cap DOMAIN new) \ {id} : new[x] = old[x]

\* Any user may create an application, for any owner, under a fresh number.
AddApplication(u, a) ==
  /\ a \notin usedApplications
  /\ DOMAIN applications' = DOMAIN applications \cup {a}
  /\ applications'[a].author = u
  /\ SameBut(applications, applications', a)
  /\ usedApplications' = usedApplications \cup {a}
  /\ UNCHANGED <<stages, usedStages>>

\* The owner edits an application: it stays where it is and whose it is.
EditApplication(u, a) ==
  /\ Owns(u, a)
  /\ applications' = [applications EXCEPT ![a].author = u]
  /\ UNCHANGED <<stages, usedApplications, usedStages>>

\* The owner of an application adds a stage to it under a fresh number.
AddStage(u, s) ==
  /\ s \notin usedStages
  /\ DOMAIN stages' = DOMAIN stages \cup {s}
  /\ Owns(u, stages'[s].applicationID)
  /\ stages'[s].author = u
  /\ SameBut(stages, stages', s)
  /\ usedStages' = usedStages \cup {s}
  /\ UNCHANGED <<applications, usedApplications>>

EditStage(u, s) ==
  /\ OwnsStage(u, s)
  /\ stages' = [stages EXCEPT ![s].author = u]
  /\ UNCHANGED <<applications, usedApplications, usedStages>>

\* The owner drops a stage; so does, for the stage of the same number, the
\* owner of an application who asks to delete the application.
DropStage(u, s) ==
  /\ s \in DOMAIN stages
  /\ OwnsStage(u, s) \/ Owns(u, s)
  /\ stages' = [x \in DOMAIN stages \ {s} |-> stages[x]]
  /\ UNCHANGED <<applications, usedApplications, usedStages>>

\* A failed insert uses up the number it was given.
SkipApplication(a) ==
  /\ usedApplications' = usedApplications \cup {a}
  /\ UNCHANGED <<applications, stages, usedStages>>

SkipStage(s) ==
  /\ usedStages' = usedStages \cup {s}
  /\ UNCHANGED <<applications, stages, usedApplications>>

Next ==
  \/ \E u \in Users :
       \/ \E a \in DOMAIN applications' : AddApplication(u, a)
       \/ \E a \in DOMAIN applications : EditApplication(u, a)
       \/ \E s \in DOMAIN stages' : AddStage(u, s)
       \/ \E s \in DOMAIN stages : EditStage(u, s) \/ DropStage(u, s)
  \/ \E a \in usedApplications' : SkipApplication(a)
  \/ \E s \in usedStages' : SkipStage(s)

Spec == Init /\ [][Next]_vars
=============================================================================
