------------------------------ MODULE Director ------------------------------
(***************************************************************************)
(* The gateway's director for one microservice (gateway/main.go): it puts  *)
(* the user of the request's session in X-User and picks one of the        *)
(* service's hosts.  Requests are goroutines; the director's mutex makes   *)
(* them take turns.  Meanwhile sessions end, by sign-outs and by time.     *)
(*                                                                         *)
(* A panic ends the request without an answer: net/http recovers it, and   *)
(* the deferred Unlock runs.                                               *)
(***************************************************************************)
EXTENDS Integers, FiniteSets

CONSTANTS
  Requests,    \* requests for the microservice
  SessionIDs,  \* well-formed session ids
  NoSession,   \* a request without a valid session id
  ShortID,     \* one with a base64 string of fewer than idLength bytes
  Users,       \* values of X-User that name somebody
  Nobody,      \* the X-User "{}"
  UserOf,      \* session id -> the user of its state
  Hosts,       \* len(targets)
  MaxInt32     \* the largest counter: 2^31 - 1 in the code

ASSUME DirectorAssumption ==
  /\ SessionIDs \cap {NoSession, ShortID} = {} /\ NoSession # ShortID
  /\ Nobody \notin Users
  /\ UserOf \in [SessionIDs -> Users]
  /\ Hosts \in Nat \ {0} /\ MaxInt32 \in Nat

VARIABLES
  alive,    \* the sessions whose state the store has
  mutex,    \* the requests that hold the mutex: one at most
  counter,  \* an int32
  request

vars == <<alive, mutex, counter, request>>

NoHost == -1

RequestStates ==
  [at    : {"new", "waiting", "locked", "known", "chosen", "routed", "dropped"},
   sid   : SessionIDs \cup {NoSession, ShortID},
   stale : BOOLEAN,                          \* the session was over on arrival
   xuser : SUBSET (Users \cup {Nobody}),     \* the values of the X-User header
   host  : 0..(Hosts - 1) \cup {NoHost}]

Init ==
  /\ alive \in SUBSET SessionIDs
  /\ mutex = {}
  /\ counter = 0
  /\ request = [r \in Requests |->
       [at |-> "new", sid |-> NoSession, stale |-> FALSE, xuser |-> {},
        host |-> NoHost]]

-----------------------------------------------------------------------------
\* A request comes in, with a session id or none, and any X-User header.
Arrive(r) ==
  /\ request[r].at = "new"
  /\ \E s \in SessionIDs \cup {NoSession, ShortID},
        xuser \in {{}} \cup {{u} : u \in Users} :
       request' = [request EXCEPT ![r] =
         [at |-> "waiting", sid |-> s, stale |-> s \notin alive,
          xuser |-> xuser, host |-> NoHost]]
  /\ UNCHANGED <<alive, mutex, counter>>

\* Mutated forms: the mutex is not there; X-User is left in the request.
LockFreely(r) ==
  /\ request[r].at = "waiting"
  /\ mutex' = mutex \cup {r}
  /\ request' = [request EXCEPT ![r].at = "locked", ![r].xuser = {}]
  /\ UNCHANGED <<alive, counter>>

LockOnly(r) ==
  /\ request[r].at = "waiting" /\ mutex = {}
  /\ mutex' = {r}
  /\ request' = [request EXCEPT ![r].at = "locked"]
  /\ UNCHANGED <<alive, counter>>

\* mutex.Lock(), then the client's X-User is deleted.
Lock(r) ==
  /\ request[r].at = "waiting" /\ mutex = {}
  /\ mutex' = {r}
  /\ request' = [request EXCEPT ![r].at = "locked", ![r].xuser = {}]
  /\ UNCHANGED <<alive, counter>>

\* A mutated form: Unlock is the last statement, and not deferred.
PanicLocked(r) ==
  /\ request' = [request EXCEPT ![r].at = "dropped"]
  /\ UNCHANGED <<alive, mutex, counter>>

Panic(r) ==
  /\ mutex' = mutex \ {r}
  /\ request' = [request EXCEPT ![r].at = "dropped"]
  /\ UNCHANGED <<alive, counter>>

AddXUser(r, users) ==
  request' = [request EXCEPT ![r].at = "known", ![r].xuser = @ \cup users]

\* A mutated form: the state of no session is used as well.
GetStateOrPanic(r) ==
  /\ request[r].at = "locked"
  /\ \/ /\ request[r].sid \in alive
        /\ AddXUser(r, {UserOf[request[r].sid]})
        /\ UNCHANGED <<alive, mutex, counter>>
     \/ /\ request[r].sid \notin alive
        /\ Panic(r)

\* sessions.GetState finds the session, or reports that there is none or
\* that the store failed.  A short id is sliced out of its bounds, though
\* sessionid.go:60-62 promises an error for it.
GetState(r) ==
  /\ request[r].at = "locked"
  /\ \/ /\ request[r].sid \in alive
        /\ AddXUser(r, {UserOf[request[r].sid]})
        /\ UNCHANGED <<alive, mutex, counter>>
     \/ /\ request[r].sid # ShortID
        /\ AddXUser(r, {Nobody})
        /\ UNCHANGED <<alive, mutex, counter>>
     \/ /\ request[r].sid = ShortID
        /\ Panic(r)

\* Go's remainder has the sign of the dividend.
GoRem(a, b) == IF a >= 0 THEN a % b ELSE -((-a) % b)

\* targets[counter % int32(len(targets))]: a negative index panics.
ChooseHost(r) ==
  /\ request[r].at = "known"
  /\ LET index == GoRem(counter, Hosts) IN
       \/ /\ index >= 0
          /\ request' = [request EXCEPT ![r].at = "chosen", ![r].host = index]
          /\ UNCHANGED <<alive, mutex, counter>>
       \/ /\ index < 0
          /\ Panic(r)

\* atomic.AddInt32 wraps; then the URL is set and the mutex released.
AdvanceCounter(r) ==
  /\ request[r].at = "chosen"
  /\ counter' = IF counter = MaxInt32 THEN -MaxInt32 - 1 ELSE counter + 1
  /\ mutex' = mutex \ {r}
  /\ request' = [request EXCEPT ![r].at = "routed"]
  /\ UNCHANGED alive

\* Sessions end, and once they have ended they are never there again.
EndSessions ==
  /\ \E ended \in SUBSET alive : ended # {} /\ alive' = alive \ ended
  /\ UNCHANGED <<mutex, counter, request>>

\* Every request has left the director.
Quiet ==
  /\ \A r \in Requests : request[r].at \in {"routed", "dropped"}
  /\ UNCHANGED vars

Next ==
  \/ \E r \in Requests : \/ Arrive(r) \/ Lock(r) \/ GetState(r)
                         \/ ChooseHost(r) \/ AdvanceCounter(r)
  \/ EndSessions
  \/ Quiet

\* sync.Mutex lets a waiting goroutine in after 1 ms; Redis answers or the
\* client times out.
Fairness ==
  \A r \in Requests :
    /\ SF_vars(Lock(r))
    /\ WF_vars(GetState(r) \/ ChooseHost(r) \/ AdvanceCounter(r))

Spec     == Init /\ [][Next]_vars
FairSpec == Spec /\ Fairness

-----------------------------------------------------------------------------
TypeOK ==
  /\ alive \subseteq SessionIDs
  /\ mutex = {r \in Requests : request[r].at \in {"locked", "known", "chosen"}}
  /\ Cardinality(mutex) <= 1
  /\ counter \in -(MaxInt32 + 1)..MaxInt32
  /\ request \in [Requests -> RequestStates]

Routed(r) == request[r].at = "routed"

\* X-User holds one value, which the director put there: the user of the
\* session the request came with, or nobody; and nobody for a session that
\* was over when the request came in, whatever earlier requests were told.
XUserIsHonest ==
  \A r \in Requests : Routed(r) =>
    \/ request[r].xuser = {Nobody}
    \/ /\ request[r].sid \in SessionIDs /\ ~request[r].stale
       /\ request[r].xuser = {UserOf[request[r].sid]}

RoutedTo(h) == {r \in Requests : Routed(r) /\ request[r].host = h}

\* The hosts take turns: none has two requests more than another.
RoundRobin ==
  \A g, h \in 0..(Hosts - 1) :
    Cardinality(RoutedTo(g)) <= Cardinality(RoutedTo(h)) + 1

\* The mutex is always released, so that every request leaves the director,
\* those behind one that panicked too.
EveryRequestLeaves ==
  \A r \in Requests :
    request[r].at = "waiting" ~> request[r].at \in {"routed", "dropped"}

\* The director forwards requests, with or without a session (main.go:27, 49).
\* Well-formed ones are lost only after the int32 counter has wrapped round, and
\* then for good: the panic comes before the counter moves on.
LostOnlyAfterWrap ==
  \A r \in Requests :
    request[r].at = "dropped" /\ request[r].sid # ShortID =>
      /\ Cardinality({q \in Requests : Routed(q)}) > MaxInt32
      /\ GoRem(counter, Hosts) < 0
=============================================================================
