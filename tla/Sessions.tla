------------------------------ MODULE Sessions ------------------------------
(***************************************************************************)
(* The gateway's sessions package, as far as its two stores agree.  Every  *)
(* HTTP request is a goroutine of its own; a call of a store's method is   *)
(* made of the commands it sends, one action each.  Time is counted in     *)
(* ticks, of which a session lives Duration after its last refresh.        *)
(*                                                                         *)
(* What a session's state holds is not modelled here: it is written once.  *)
(***************************************************************************)
EXTENDS Naturals

CONSTANTS
  Calls,       \* calls of BeginSession, GetState and EndSession
  SessionIDs,  \* the ids NewSessionID may draw
  NoSession,   \* InvalidSessionID
  Duration     \* the stores' sessionDuration, in ticks

ASSUME SessionsAssumption == /\ NoSession \notin SessionIDs
                             /\ Duration \in Nat \ {0}

VARIABLES
  ttl,      \* session id -> ticks its entry still has, 0 without an entry
  issued,   \* the ids NewSessionID has drawn
  call      \* the calls: where they are, the id they carry, their outcome

vars == <<ttl, issued, call>>

\* The time of an entry without one: what 0 means to SET, and -1 to go-cache.
Forever == Duration + 1

CallStates ==
  [at      : {"new", "fetched", "done"},
   op      : {"none", "BeginSession", "GetState", "EndSession"},
   sid     : SessionIDs \cup {NoSession},
   outcome : {"none", "ok", "notFound", "error"}]

Init ==
  /\ ttl = [s \in SessionIDs |-> 0]
  /\ issued = {}
  /\ call = [c \in Calls |-> [at |-> "new", op |-> "none", sid |-> NoSession,
                              outcome |-> "none"]]

Return(c, op, s, outcome) ==
  call' = [call EXCEPT ![c] = [at |-> "done", op |-> op, sid |-> s,
                               outcome |-> outcome]]

Live(s) == ttl[s] > 0

Returned(c, op, outcome) ==
  call[c].at = "done" /\ call[c].op = op /\ call[c].outcome = outcome

\* The ids clients were given, in the Authorization header of an answer.
Held == {call[c].sid : c \in {b \in Calls : Returned(b, "BeginSession", "ok")}}

-----------------------------------------------------------------------------
\* A mutated form: ids may come again.
BeginSessionWithAnyID(c) ==
  /\ call[c].at = "new"
  /\ \E s \in SessionIDs :
       /\ ttl' = [ttl EXCEPT ![s] = Duration]
       /\ Return(c, "BeginSession", s, "ok")
  /\ UNCHANGED issued

\* NewSessionID draws random bytes, so no id comes twice; Save stores the
\* state, or fails before or after it took effect.
BeginSession(c) ==
  /\ call[c].at = "new"
  /\ \E s \in SessionIDs \ issued :
       /\ issued' = issued \cup {s}
       /\ \/ /\ ttl' = [ttl EXCEPT ![s] = Duration]
             /\ \E outcome \in {"ok", "error"} :
                  Return(c, "BeginSession", s, outcome)
          \/ /\ UNCHANGED ttl
             /\ Return(c, "BeginSession", s, "error")

\* EndSession deletes the entry; that there was none is no error.
EndSession(c) ==
  /\ call[c].at = "new"
  /\ \E s \in Held :
       \/ /\ ttl' = [ttl EXCEPT ![s] = 0]
          /\ \E outcome \in {"ok", "error"} :
               Return(c, "EndSession", s, outcome)
       \/ /\ UNCHANGED ttl
          /\ Return(c, "EndSession", s, "error")
  /\ UNCHANGED issued

\* A tick: an entry whose time has run out is not found any more.
Tick ==
  /\ \E s \in SessionIDs : ttl[s] \in 1..Duration
  /\ ttl' = [s \in SessionIDs |->
               IF ttl[s] \in 1..Duration THEN ttl[s] - 1 ELSE ttl[s]]
  /\ UNCHANGED <<issued, call>>

\* Every call has returned and every session is over.
Quiet ==
  /\ \A c \in Calls : call[c].at = "done"
  /\ \A s \in SessionIDs : ~Live(s)
  /\ UNCHANGED vars

-----------------------------------------------------------------------------
TypeOK ==
  /\ ttl \in [SessionIDs -> 0..Forever]
  /\ issued \subseteq SessionIDs
  /\ call \in [Calls -> CallStates]
  /\ \A s \in SessionIDs : Live(s) => s \in issued

\* A session that a client was told is ended stays ended: whatever other
\* calls for it are under way, its state cannot be returned again.
EndedSessionsStayEnded ==
  \A c \in Calls : Returned(c, "EndSession", "ok") => ~Live(call[c].sid)

\* A session nobody can end, because the answer that carried its id was
\* lost, does not stay in the store for ever; nor does any other one.
SessionsExpire == \A s \in SessionIDs : Live(s) ~> ~Live(s)

Abstract == INSTANCE SessionStore WITH live <- {s \in SessionIDs : Live(s)}

\* The store behaves as store.go says: an id is saved once, and a session
\* that is over never comes back.
ImplementsSessionStore == Abstract!Spec
=============================================================================
