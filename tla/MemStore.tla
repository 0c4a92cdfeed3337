------------------------------ MODULE MemStore ------------------------------
(***************************************************************************)
(* sessions/memstore.go: Get reads the entry from the cache and then sets  *)
(* it again to renew its time.  The cache locks each of the two, and not   *)
(* the pair.                                                               *)
(***************************************************************************)
EXTENDS Sessions

Get(c) ==
  /\ call[c].at = "new"
  /\ \E s \in Held :
       IF Live(s)
       THEN call' = [call EXCEPT ![c] = [at |-> "fetched", op |-> "GetState",
                                         sid |-> s, outcome |-> "ok"]]
       ELSE Return(c, "GetState", s, "notFound")
  /\ UNCHANGED <<ttl, issued>>

\* entries.Set writes what was read, whatever has become of the entry.
ResetTTL(c) ==
  /\ call[c].at = "fetched"
  /\ ttl' = [ttl EXCEPT ![call[c].sid] = Duration]
  /\ call' = [call EXCEPT ![c].at = "done"]
  /\ UNCHANGED issued

Next ==
  \/ \E c \in Calls : \/ BeginSession(c) \/ EndSession(c)
                      \/ Get(c) \/ ResetTTL(c)
  \/ Tick
  \/ Quiet

Spec == Init /\ [][Next]_vars
=============================================================================
