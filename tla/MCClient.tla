------------------------------ MODULE MCClient ------------------------------
(***************************************************************************)
(* Instances of Client for TLC.                                            *)
(***************************************************************************)
EXTENDS Client, TLC

CONSTANTS t1, t2, s1, s2, f1, f2, company, status

OneTab      == {t1}
TwoTabs     == {t1, t2}
TwoUsers    == {1, 2}
OneUser     == {1}
TwoSessions == {s1, s2}
OneSession  == {s1}
TwoSlots    == {f1, f2}

\* Tabs, session ids and slots are told apart by no definition (Send chooses a
\* slot, and any other choice leads to the same state but for the slots' names).
Alike == Permutations(TwoTabs) \cup Permutations(TwoSessions) \cup Permutations(TwoSlots)
TwoFields   == {company, status}
NoField     == {}
=============================================================================
