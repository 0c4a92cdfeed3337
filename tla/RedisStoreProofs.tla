-------------------------- MODULE RedisStoreProofs --------------------------
(***************************************************************************)
(* Proofs about RedisStore, for any set of calls, any set of ids and any   *)
(* duration: sessions that are over never come back, and the store is one  *)
(* as SessionStore describes it.                                           *)
(***************************************************************************)
EXTENDS RedisStore, TLAPS

\* Every id that a call carries has been drawn.
SidsIssued ==
  \A c \in Calls : call[c].sid # NoSession => call[c].sid \in issued

\* A call that is under way or has returned carries an id.
SidsCarried ==
  \A c \in Calls : call[c].at # "new" => call[c].sid \in SessionIDs

IInv == TypeOK /\ SidsIssued /\ SidsCarried /\ EndedSessionsStayEnded

-----------------------------------------------------------------------------
LEMMA HeldIssued ==
  ASSUME IInv PROVE Held \subseteq issued /\ Held \subseteq SessionIDs
BY SessionsAssumption
DEF IInv, TypeOK, SidsIssued, SidsCarried, Held, Returned

LEMMA InitIInv == Init => IInv
BY SessionsAssumption
DEF Init, IInv, TypeOK, SidsIssued, SidsCarried, EndedSessionsStayEnded,
    CallStates, Forever, Live, Returned

\* What a step that only counts one entry anew, or ends it, keeps.
LEMMA SetEntry ==
  ASSUME IInv, NEW s \in SessionIDs, NEW n \in 0..Forever,
         ttl' = [ttl EXCEPT ![s] = n],
         issued \subseteq issued', issued' \subseteq SessionIDs,
         n > 0 => s \in issued'
  PROVE  /\ ttl' \in [SessionIDs -> 0..Forever]
         /\ \A t \in SessionIDs : Live(t)' => t \in issued'
BY DEF IInv, TypeOK, Live

\* A call returns or goes on with an id that was issued; if it has ended the
\* session of that id, the session is over.
LEMMA CallStep ==
  ASSUME IInv, NEW c \in Calls, NEW state \in CallStates,
         call' = [call EXCEPT ![c] = state],
         state.sid \in SessionIDs \cap issued', issued \subseteq issued',
         state.op = "EndSession" /\ state.outcome = "ok" => ~Live(state.sid)',
         \A s \in issued : Live(s)' => Live(s)
  PROVE  /\ call' \in [Calls -> CallStates]
         /\ SidsIssued' /\ SidsCarried' /\ EndedSessionsStayEnded'
<1>1. call' \in [Calls -> CallStates]
  BY DEF IInv, TypeOK
<1>2. call'[c] = state /\ \A b \in Calls \ {c} : call'[b] = call[b]
  BY DEF IInv, TypeOK
<1>3. SidsIssued' /\ SidsCarried'
  BY <1>2 DEF IInv, SidsIssued, SidsCarried
<1>4. ASSUME NEW b \in Calls, Returned(b, "EndSession", "ok")'
      PROVE  ~Live(call[b].sid)'
  <2>1. CASE b = c
    BY <1>2, <1>4, <2>1 DEF Returned, Live
  <2>2. CASE b # c
    <3>1. Returned(b, "EndSession", "ok") /\ call'[b] = call[b]
      BY <1>2, <1>4, <2>2 DEF Returned
    <3>2. ~Live(call[b].sid) /\ call[b].sid \in issued
      BY <3>1, SessionsAssumption
      DEF Returned, IInv, EndedSessionsStayEnded, SidsIssued, SidsCarried, TypeOK
    <3> QED
      BY <3>1, <3>2 DEF Live
  <2> QED
    BY <2>1, <2>2
<1> QED
  BY <1>1, <1>3, <1>4 DEF EndedSessionsStayEnded

LEMMA StepIInv == IInv /\ [Next]_vars => IInv'
<1> SUFFICES ASSUME IInv, [Next]_vars PROVE IInv'
  OBVIOUS
<1>1. ASSUME NEW c \in Calls, BeginSession(c) PROVE IInv'
  <2>1. PICK s \in SessionIDs \ issued :
          /\ issued' = issued \cup {s}
          /\ ttl' \in {ttl, [ttl EXCEPT ![s] = Duration]}
          /\ \E outcome \in {"ok", "error"} : Return(c, "BeginSession", s, outcome)
    BY <1>1 DEF BeginSession
  <2>2. PICK outcome \in {"ok", "error"} : Return(c, "BeginSession", s, outcome)
    BY <2>1
  <2> DEFINE state == [at |-> "done", op |-> "BeginSession", sid |-> s,
                       outcome |-> outcome]
  <2>3. state \in CallStates
    BY DEF CallStates
  <2>4. \A t \in issued : ttl'[t] = ttl[t]
    BY <2>1 DEF IInv, TypeOK
  <2>5. /\ ttl' \in [SessionIDs -> 0..Forever]
        /\ \A t \in SessionIDs : Live(t)' => t \in issued'
    BY <2>1, SessionsAssumption DEF IInv, TypeOK, Live, Forever
  <2>6. /\ call' \in [Calls -> CallStates]
        /\ SidsIssued' /\ SidsCarried' /\ EndedSessionsStayEnded'
    BY <2>1, <2>2, <2>3, <2>4, CallStep DEF Return, Live
  <2> QED
    BY <2>1, <2>5, <2>6 DEF IInv, TypeOK
<1>2. ASSUME NEW c \in Calls, EndSession(c) PROVE IInv'
  <2>1. PICK s \in Held, outcome \in {"ok", "error"} :
          /\ Return(c, "EndSession", s, outcome)
          /\ \/ ttl' = [ttl EXCEPT ![s] = 0]
             \/ ttl' = ttl /\ outcome = "error"
    BY <1>2 DEF EndSession
  <2>2. s \in SessionIDs \cap issued /\ issued' = issued
    BY <1>2, HeldIssued DEF EndSession
  <2> DEFINE state == [at |-> "done", op |-> "EndSession", sid |-> s,
                       outcome |-> outcome]
  <2>3. state \in CallStates
    BY <2>2 DEF CallStates
  <2>4. \A t \in SessionIDs : ttl'[t] \in {ttl[t], 0}
    BY <2>1 DEF IInv, TypeOK
  <2>5. /\ ttl' \in [SessionIDs -> 0..Forever]
        /\ \A t \in SessionIDs : Live(t)' => Live(t)
    BY <2>1, <2>4, SessionsAssumption DEF IInv, TypeOK, Live, Forever
  <2>6. outcome = "ok" => ~Live(s)'
    BY <2>1, <2>2 DEF IInv, TypeOK, Live
  <2>7. /\ call' \in [Calls -> CallStates]
        /\ SidsIssued' /\ SidsCarried' /\ EndedSessionsStayEnded'
    BY <2>1, <2>2, <2>3, <2>5, <2>6, CallStep DEF Return, IInv, TypeOK
  <2> QED
    BY <2>2, <2>5, <2>7 DEF IInv, TypeOK
<1>3. ASSUME NEW c \in Calls, Get(c) PROVE IInv'
  <2>1. PICK s \in Held, outcome \in {"ok", "notFound"} :
          call' = [call EXCEPT ![c] = [at |-> "fetched", op |-> "GetState",
                                       sid |-> s, outcome |-> outcome]]
    BY <1>3 DEF Get
  <2>2. s \in SessionIDs \cap issued /\ UNCHANGED <<ttl, issued>>
    BY <1>3, HeldIssued DEF Get
  <2>3. [at |-> "fetched", op |-> "GetState", sid |-> s, outcome |-> outcome]
          \in CallStates
    BY <2>2 DEF CallStates
  <2>4. /\ call' \in [Calls -> CallStates]
        /\ SidsIssued' /\ SidsCarried' /\ EndedSessionsStayEnded'
    BY <2>1, <2>2, <2>3, CallStep DEF Live
  <2> QED
    BY <2>2, <2>4 DEF IInv, TypeOK, Live
<1>a. ASSUME NEW c \in Calls, call[c].at = "fetched",
             NEW outcome \in {"none", "ok", "notFound", "error"},
             Return(c, "GetState", call[c].sid, outcome),
             issued' = issued, \A s \in issued : Live(s)' => Live(s)
      PROVE  /\ call' \in [Calls -> CallStates]
             /\ SidsIssued' /\ SidsCarried' /\ EndedSessionsStayEnded'
  <2>1. call[c].sid \in SessionIDs \cap issued
    BY <1>a, SessionsAssumption DEF IInv, TypeOK, SidsIssued, SidsCarried
  <2>2. [at |-> "done", op |-> "GetState", sid |-> call[c].sid,
         outcome |-> outcome] \in CallStates
    BY <2>1 DEF CallStates
  <2> QED
    BY <1>a, <2>1, <2>2, CallStep DEF Return
<1>4. ASSUME NEW c \in Calls, Expire(c) PROVE IInv'
  <2>1. call[c].sid \in SessionIDs /\ call[c] \in CallStates
    BY <1>4 DEF Expire, IInv, TypeOK, SidsCarried
  <2>2. \A s \in SessionIDs : Live(s)' <=> Live(s)
    BY <1>4, <2>1, SessionsAssumption DEF Expire, IInv, TypeOK, Live
  <2>3. ttl' \in [SessionIDs -> 0..Forever]
    BY <1>4, <2>1, SessionsAssumption DEF Expire, IInv, TypeOK, Forever
  <2>4. PICK outcome \in {call[c].outcome, "error"} :
          Return(c, "GetState", call[c].sid, outcome)
    BY <1>4 DEF Expire
  <2>5. outcome \in {"none", "ok", "notFound", "error"}
    BY <2>1 DEF CallStates
  <2>6. /\ call' \in [Calls -> CallStates]
        /\ SidsIssued' /\ SidsCarried' /\ EndedSessionsStayEnded'
    BY <1>4, <1>a, <2>2, <2>4, <2>5 DEF Expire, IInv, TypeOK
  <2> QED
    BY <1>4, <2>2, <2>3, <2>6 DEF Expire, IInv, TypeOK
<1>5. ASSUME NEW c \in Calls, PipelineFails(c) PROVE IInv'
  <2>1. /\ call' \in [Calls -> CallStates]
        /\ SidsIssued' /\ SidsCarried' /\ EndedSessionsStayEnded'
    BY <1>5, <1>a DEF PipelineFails, Live
  <2> QED
    BY <1>5, <2>1 DEF PipelineFails, IInv, TypeOK, Live
<1>6. CASE Tick
  <2>1. \A s \in SessionIDs : ttl'[s] \in 0..Forever /\ (Live(s)' => Live(s))
    BY <1>6, SessionsAssumption DEF Tick, IInv, TypeOK, Live, Forever
  <2>2. ttl' \in [SessionIDs -> 0..Forever]
    BY <1>6, <2>1 DEF Tick
  <2>3. EndedSessionsStayEnded'
    <3>1. \A c \in Calls : Returned(c, "EndSession", "ok") => call[c].sid \in SessionIDs
      BY DEF Returned, IInv, SidsCarried
    <3> QED
      BY <1>6, <2>1, <3>1
      DEF Tick, IInv, EndedSessionsStayEnded, Returned, Live
  <2> QED
    BY <1>6, <2>1, <2>2, <2>3 DEF Tick, IInv, TypeOK, SidsIssued, SidsCarried
<1>7. CASE UNCHANGED vars
  BY <1>7 DEF vars, IInv, TypeOK, SidsIssued, SidsCarried,
              EndedSessionsStayEnded, Returned, Live
<1> QED
  BY <1>1, <1>2, <1>3, <1>4, <1>5, <1>6, <1>7 DEF Next, Quiet

\* The conjunction the other theorems rest on.
THEOREM Inductive == Spec => []IInv
BY InitIInv, StepIInv, PTL DEF Spec

\* Entries are counted in ticks, and only ids that were drawn have one.
THEOREM Typing == Spec => []TypeOK
BY Inductive, PTL DEF IInv

\* A session that a client was told is ended cannot be used again, however
\* many reads of it are under way (redisstore.go:54-75).
THEOREM EndedStayEnded == Spec => []EndedSessionsStayEnded
BY Inductive, PTL DEF IInv

-----------------------------------------------------------------------------
(* Refinement. *)

LiveSessions == {s \in SessionIDs : Live(s)}

\* Sessions that end, be it none of them, are a step of the abstract store.
LEMMA EndStep ==
  ASSUME LiveSessions' \subseteq LiveSessions, issued' = issued
  PROVE  Abstract!Next
<1> DEFINE ended == LiveSessions \ LiveSessions'
<1>1. Abstract!End(ended)
  BY DEF Abstract!End, LiveSessions
<1>2. ended \in SUBSET {s \in SessionIDs : Live(s)}
  BY DEF LiveSessions
<1> QED
  BY <1>1, <1>2 DEF Abstract!Next

LEMMA StoreStep == IInv /\ [Next]_vars => [Abstract!Next]_(Abstract!vars)
<1> SUFFICES ASSUME IInv, [Next]_vars
             PROVE  Abstract!Next \/ UNCHANGED Abstract!vars
  OBVIOUS
<1>1. ASSUME NEW c \in Calls, BeginSession(c) PROVE Abstract!Next
  <2>1. PICK s \in SessionIDs \ issued :
          /\ issued' = issued \cup {s}
          /\ ttl' \in {ttl, [ttl EXCEPT ![s] = Duration]}
    BY <1>1 DEF BeginSession
  <2>2. LiveSessions' \in {LiveSessions, LiveSessions \cup {s}}
    BY <2>1, SessionsAssumption DEF LiveSessions, Live, IInv, TypeOK
  <2>3. Abstract!Begin(s)
    BY <2>1, <2>2 DEF Abstract!Begin, LiveSessions
  <2> QED
    BY <2>3 DEF Abstract!Next
<1>2. ASSUME NEW c \in Calls, EndSession(c) PROVE Abstract!Next
  <2>1. PICK s \in Held : ttl' \in {ttl, [ttl EXCEPT ![s] = 0]}
    BY <1>2 DEF EndSession
  <2>2. LiveSessions' \subseteq LiveSessions
    BY <2>1 DEF LiveSessions, Live, IInv, TypeOK
  <2> QED
    BY <1>2, <2>2, EndStep DEF EndSession
<1>3. ASSUME NEW c \in Calls, Get(c) \/ PipelineFails(c)
      PROVE  UNCHANGED Abstract!vars
  BY <1>3 DEF Get, PipelineFails, Abstract!vars, Live
<1>4. ASSUME NEW c \in Calls, Expire(c) PROVE Abstract!Next
  <2>1. call[c].sid \in SessionIDs
    BY <1>4 DEF Expire, IInv, SidsCarried
  <2>2. LiveSessions' \subseteq LiveSessions
    BY <1>4, <2>1, SessionsAssumption DEF Expire, LiveSessions, Live, IInv, TypeOK
  <2> QED
    BY <1>4, <2>2, EndStep DEF Expire
<1>5. CASE Tick
  <2>1. LiveSessions' \subseteq LiveSessions
    BY <1>5, SessionsAssumption DEF Tick, LiveSessions, Live, IInv, TypeOK
  <2> QED
    BY <1>5, <2>1, EndStep DEF Tick
<1>6. CASE UNCHANGED vars
  BY <1>6 DEF vars, Abstract!vars, Live
<1> QED
  BY <1>1, <1>2, <1>3, <1>4, <1>5, <1>6 DEF Next, Quiet

\* The two commands of a Get, which other calls come between, are as good as
\* one: an id is begun once and never comes back (store.go).
THEOREM Refinement == Spec => ImplementsSessionStore
<1>1. Init => Abstract!Init
  BY DEF Init, Abstract!Init, Live
<1> QED
  BY <1>1, StoreStep, Inductive, PTL
  DEF Spec, ImplementsSessionStore, Abstract!Spec
=============================================================================
