----------------------------- MODULE RedisStore -----------------------------
(***************************************************************************)
(* sessions/redisstore.go: Get sends GET and EXPIRE in one pipeline, which *)
(* Redis runs in order but not as a transaction.                           *)
(***************************************************************************)
EXTENDS Sessions

\* The GET of the pipeline: what it finds is the answer, if all goes well.
Get(c) ==
  /\ call[c].at = "new"
  /\ \E s \in Held :
       call' = [call EXCEPT ![c] = [at |-> "fetched", op |-> "GetState",
                  sid |-> s,
                  outcome |-> IF Live(s) THEN "ok" ELSE "notFound"]]
  /\ UNCHANGED <<ttl, issued>>

\* A mutated form: the pipeline writes the state back, as a SET with a time.
ExpireBySet(c) ==
  /\ call[c].at = "fetched"
  /\ ttl' = IF call[c].outcome = "ok"
            THEN [ttl EXCEPT ![call[c].sid] = Duration]
            ELSE ttl
  /\ call' = [call EXCEPT ![c].at = "done"]
  /\ UNCHANGED issued

\* A mutated form: the entry is renewed without a time (PERSIST).
ExpirePersist(c) ==
  /\ call[c].at = "fetched"
  /\ ttl' = [ttl EXCEPT ![call[c].sid] =
               IF Live(call[c].sid) THEN Forever ELSE 0]
  /\ call' = [call EXCEPT ![c].at = "done"]
  /\ UNCHANGED issued

\* The EXPIRE: it renews an entry that is there and does nothing otherwise.
Expire(c) ==
  /\ call[c].at = "fetched"
  /\ ttl' = [ttl EXCEPT ![call[c].sid] =
               IF Live(call[c].sid) THEN Duration ELSE 0]
  /\ \E outcome \in {call[c].outcome, "error"} :
       Return(c, "GetState", call[c].sid, outcome)
  /\ UNCHANGED issued

\* The pipeline fails before EXPIRE has any effect.
PipelineFails(c) ==
  /\ call[c].at = "fetched"
  /\ Return(c, "GetState", call[c].sid, "error")
  /\ UNCHANGED <<ttl, issued>>

Next ==
  \/ \E c \in Calls : \/ BeginSession(c) \/ EndSession(c)
                      \/ Get(c) \/ Expire(c) \/ PipelineFails(c)
  \/ Tick
  \/ Quiet

\* Time passes, and a pipeline that was sent comes back.
Fairness ==
  /\ WF_vars(Tick)
  /\ \A c \in Calls : WF_vars(Expire(c) \/ PipelineFails(c))

Spec     == Init /\ [][Next]_vars
FairSpec == Spec /\ Fairness
=============================================================================
