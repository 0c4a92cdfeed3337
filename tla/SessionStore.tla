---------------------------- MODULE SessionStore ----------------------------
(***************************************************************************)
(* What the gateway expects of a session store (sessions/store.go): a      *)
(* session lives from the moment it is saved until it is ended or expires, *)
(* and once gone it is gone for good.                                      *)
(***************************************************************************)
CONSTANT SessionIDs

VARIABLES
  issued,   \* the session ids ever generated
  live      \* those whose state the store can return

vars == <<issued, live>>

Init == issued = {} /\ live = {}

\* An id is generated; saving its state may fail.
Begin(s) ==
  /\ s \notin issued
  /\ issued' = issued \cup {s}
  /\ live' \in {live, live \cup {s}}

\* Sessions end: one by a DELETE, any number of them by the passing of time.
End(ended) ==
  /\ ended \subseteq live
  /\ live' = live \ ended
  /\ UNCHANGED issued

Next == (\E s \in SessionIDs : Begin(s)) \/ (\E ended \in SUBSET live : End(ended))

Spec == Init /\ [][Next]_vars
=============================================================================
