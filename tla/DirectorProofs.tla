--------------------------- MODULE DirectorProofs ---------------------------
(***************************************************************************)
(* Proofs about Director, for any set of requests and sessions, any number *)
(* of hosts and an integer of any width.                                   *)
(***************************************************************************)
EXTENDS Director, FiniteSetTheorems, TLAPS

HostIDs == 0..(Hosts - 1)

\* The request that holds the mutex, and nobody else, is inside.
MutexHeld ==
  /\ mutex = {r \in Requests : request[r].at \in {"locked", "known", "chosen"}}
  /\ \A q, r \in mutex : q = r

Typed ==
  /\ alive \subseteq SessionIDs
  /\ MutexHeld
  /\ counter \in -(MaxInt32 + 1)..MaxInt32
  /\ request \in [Requests -> RequestStates]

\* What the director has put in X-User is honest from then on.
XUserKept ==
  \A r \in Requests :
    /\ request[r].at = "locked" => request[r].xuser = {}
    /\ request[r].at \in {"known", "chosen", "routed"} =>
         \/ request[r].xuser = {Nobody}
         \/ /\ request[r].sid \in SessionIDs /\ ~request[r].stale
            /\ request[r].xuser = {UserOf[request[r].sid]}

\* A session that was over when a request came in is over.
StaleStaysOver ==
  \A r \in Requests :
    request[r].at # "new" /\ request[r].stale => request[r].sid \notin alive

-----------------------------------------------------------------------------
(* The counter and the hosts' shares. *)

RoutedRequests == {r \in Requests : Routed(r)}

Total    == Cardinality(RoutedRequests)
Share(h) == Cardinality(RoutedTo(h))

\* The hosts before x have been given one request more than the others.
TurnIs(x) ==
  \E n \in Nat : \A h \in HostIDs : Share(h) = IF h < x THEN n + 1 ELSE n

\* The int32 counts the routed requests until it wraps.  Then it points at a
\* host once more at best, and at none from there on.
CounterKnown ==
  \/ counter >= 0 /\ Total = counter /\ TurnIs(counter % Hosts)
  \/ /\ counter < 0 /\ Total > MaxInt32
     /\ \E x \in HostIDs : TurnIs(x)
     /\ GoRem(counter, Hosts) >= 0 => counter = -MaxInt32 - 1 /\ TurnIs(0)

Counting ==
  /\ IsFiniteSet(RoutedRequests)
  /\ Hosts > 1 => CounterKnown

\* Who has been given a host has the one the counter points at; whoever was
\* lost without a short id met a negative index, which stays.
HostKept ==
  \A r \in Requests :
    /\ request[r].at = "chosen" =>
         request[r].host \in HostIDs /\ request[r].host = GoRem(counter, Hosts)
    /\ request[r].at = "dropped" /\ request[r].sid # ShortID => GoRem(counter, Hosts) < 0

IInv == Typed /\ XUserKept /\ StaleStaysOver /\ Counting /\ HostKept
-----------------------------------------------------------------------------
(* Remainders. *)

LEMMA ModRange ==
  ASSUME NEW a \in Nat, NEW b \in Nat \ {0}
  PROVE  a % b \in 0..(b - 1)
BY Z3

LEMMA ModOfNext ==
  ASSUME NEW a \in Nat, NEW b \in Nat \ {0}
  PROVE  (a + 1) % b = IF a % b = b - 1 THEN 0 ELSE (a % b) + 1
<1> DEFINE q == a \div b
           p == (a + 1) \div b
<1>1. a = b * q + (a % b) /\ q \in Int
  BY SMT
<1>2. a + 1 = b * p + ((a + 1) % b) /\ p \in Int
  BY SMT
<1>3. a % b \in 0..(b - 1) /\ (a + 1) % b \in 0..(b - 1)
  BY ModRange
<1> HIDE DEF q, p
<1> QED
  BY <1>1, <1>2, <1>3, SMT

LEMMA GoRemRange ==
  ASSUME NEW a \in Int, NEW b \in Nat \ {0}, GoRem(a, b) >= 0
  PROVE  GoRem(a, b) \in 0..(b - 1)
BY ModRange, Z3 DEF GoRem
-----------------------------------------------------------------------------
(* Typing and mutual exclusion. *)

Places == {"new", "waiting", "locked", "known", "chosen", "routed", "dropped"}
Sids   == SessionIDs \cup {NoSession, ShortID}
XUsers == SUBSET (Users \cup {Nobody})
HostsOrNone == HostIDs \cup {NoHost}

LEMMA Fields ==
  RequestStates = [at : Places, sid : Sids, stale : BOOLEAN, xuser : XUsers,
                   host : HostsOrNone]
BY DEF RequestStates, Places, Sids, XUsers, HostsOrNone, HostIDs

LEMMA InitTyped == Init => Typed
BY DirectorAssumption DEF Init, Typed, MutexHeld, RequestStates, NoHost

\* A request that leaves the director gives the mutex back.
LEMMA LeaveMutex ==
  ASSUME Typed, NEW r \in mutex,
         request' \in [Requests -> RequestStates],
         request'[r].at \in {"routed", "dropped"},
         \A q \in Requests \ {r} : request'[q] = request[q],
         mutex' = mutex \ {r}
  PROVE  MutexHeld'
BY DEF Typed, MutexHeld

\* A request inside goes on inside.
LEMMA KeepMutex ==
  ASSUME Typed, NEW r \in Requests,
         request' \in [Requests -> RequestStates],
         request[r].at \in {"locked", "known", "chosen"}
           <=> request'[r].at \in {"locked", "known", "chosen"},
         \A q \in Requests \ {r} : request'[q] = request[q],
         mutex' = mutex
  PROVE  MutexHeld'
BY DEF Typed, MutexHeld

LEMMA PanicTyped ==
  ASSUME Typed, NEW r \in mutex, Panic(r)
  PROVE  Typed'
<1>1. r \in Requests
  BY DEF Typed, MutexHeld
<1>2. request' \in [Requests -> RequestStates]
  BY <1>1, Fields DEF Panic, Typed, Places
<1>3. MutexHeld'
  BY <1>1, <1>2, LeaveMutex DEF Panic, Typed
<1> QED
  BY <1>2, <1>3 DEF Panic, Typed

Chosen(r, h) ==
  /\ request' = [request EXCEPT ![r].at = "chosen", ![r].host = h]
  /\ UNCHANGED <<alive, mutex, counter>>

\* Either the counter points at a host, which is chosen, or the request panics.
LEMMA ChooseHostCases ==
  ASSUME Typed, NEW r \in Requests, ChooseHost(r)
  PROVE  LET i == GoRem(counter, Hosts) IN
           (i \in HostIDs /\ Chosen(r, i)) \/ (i < 0 /\ Panic(r))
<1>1. GoRem(counter, Hosts) >= 0 => GoRem(counter, Hosts) \in HostIDs
  BY GoRemRange, DirectorAssumption DEF HostIDs, Typed
<1> QED
  BY <1>1 DEF ChooseHost, Chosen

LEMMA StepTyped == Typed /\ [Next]_vars => Typed'
<1> SUFFICES ASSUME Typed, [Next]_vars PROVE Typed'
  OBVIOUS
<1>1. ASSUME NEW r \in Requests, Arrive(r) PROVE Typed'
  <2>1. request' \in [Requests -> RequestStates]
    <3>1. PICK s \in SessionIDs \cup {NoSession, ShortID},
               xuser \in {{}} \cup {{u} : u \in Users} :
            request' = [request EXCEPT ![r] =
              [at |-> "waiting", sid |-> s, stale |-> s \notin alive,
               xuser |-> xuser, host |-> NoHost]]
      BY <1>1 DEF Arrive
    <3>2. s \in Sids /\ xuser \in XUsers /\ NoHost \in HostsOrNone
      BY DEF Sids, XUsers, HostsOrNone
    <3>3. [at |-> "waiting", sid |-> s, stale |-> s \notin alive,
           xuser |-> xuser, host |-> NoHost] \in RequestStates
      BY <3>2, Fields DEF Places
    <3> QED
      BY <3>1, <3>3 DEF Typed
  <2>2. MutexHeld'
    BY <1>1, <2>1, KeepMutex DEF Arrive, Typed
  <2> QED
    BY <1>1, <2>1, <2>2 DEF Arrive, Typed
<1>2. ASSUME NEW r \in Requests, Lock(r) PROVE Typed'
  <2>1. request' \in [Requests -> RequestStates]
    <3>1. {} \in XUsers
      BY DEF XUsers
    <3> QED
      BY <1>2, <3>1, Fields DEF Lock, Typed, Places
  <2>2. MutexHeld'
    BY <1>2 DEF Lock, Typed, MutexHeld
  <2> QED
    BY <1>2, <2>1, <2>2 DEF Lock, Typed
<1>3. ASSUME NEW r \in Requests, GetState(r) PROVE Typed'
  <2>1. CASE Panic(r)
    BY <1>3, <2>1, PanicTyped DEF GetState, Typed, MutexHeld
  <2>2. ASSUME NEW u \in Users \cup {Nobody}, AddXUser(r, {u}),
               UNCHANGED <<alive, mutex, counter>>
        PROVE  Typed'
    <3>1. request' \in [Requests -> RequestStates]
      <4>1. request[r].xuser \cup {u} \in XUsers
        BY Fields DEF Typed, XUsers
      <4> QED
        BY <2>2, <4>1, Fields DEF AddXUser, Typed, Places
    <3>2. MutexHeld'
      BY <1>3, <2>2, <3>1, KeepMutex DEF GetState, AddXUser, Typed
    <3> QED
      BY <2>2, <3>1, <3>2 DEF Typed
  <2>3. request[r].sid \in alive => UserOf[request[r].sid] \in Users
    BY DirectorAssumption DEF Typed
  <2> QED
    BY <1>3, <2>1, <2>2, <2>3 DEF GetState
<1>4. ASSUME NEW r \in Requests, ChooseHost(r) PROVE Typed'
  <2>1. CASE Panic(r)
    BY <1>4, <2>1, PanicTyped DEF ChooseHost, Typed, MutexHeld
  <2>2. ASSUME NEW h \in HostIDs, Chosen(r, h) PROVE Typed'
    <3>1. request' \in [Requests -> RequestStates]
      BY <2>2, Fields DEF Chosen, Typed, Places, HostsOrNone
    <3>2. MutexHeld'
      BY <1>4, <2>2, <3>1, KeepMutex DEF ChooseHost, Chosen, Typed
    <3> QED
      BY <2>2, <3>1, <3>2 DEF Chosen, Typed
  <2> QED
    BY <1>4, <2>1, <2>2, ChooseHostCases
<1>5. ASSUME NEW r \in Requests, AdvanceCounter(r) PROVE Typed'
  <2>1. request' \in [Requests -> RequestStates]
    BY <1>5, Fields DEF AdvanceCounter, Typed, Places
  <2>2. MutexHeld'
    BY <1>5, <2>1, LeaveMutex DEF AdvanceCounter, Typed, MutexHeld
  <2>3. counter' \in -(MaxInt32 + 1)..MaxInt32
    BY <1>5, DirectorAssumption DEF AdvanceCounter, Typed
  <2> QED
    BY <1>5, <2>1, <2>2, <2>3 DEF AdvanceCounter, Typed
<1>6. CASE EndSessions
  BY <1>6 DEF EndSessions, Typed, MutexHeld
<1>7. CASE UNCHANGED vars
  BY <1>7 DEF vars, Typed, MutexHeld
<1> QED
  BY <1>1, <1>2, <1>3, <1>4, <1>5, <1>6, <1>7 DEF Next, Quiet

LEMMA TypedImpliesTypeOK == Typed => TypeOK
<1> SUFFICES ASSUME Typed PROVE Cardinality(mutex) <= 1
  BY DEF Typed, MutexHeld, TypeOK
<1>1. mutex = {} \/ \E r \in mutex : mutex = {r}
  BY DEF Typed, MutexHeld
<1> QED
  BY <1>1, FS_EmptySet, FS_Singleton

\* Every variable keeps its type, the counter stays an int32, and no two
\* requests are inside the director at one time (main.go:39).
THEOREM Typing == Spec => []TypeOK
BY InitTyped, StepTyped, TypedImpliesTypeOK, PTL DEF Spec

-----------------------------------------------------------------------------
(* X-User. *)

LEMMA XUserStep ==
  Typed /\ StaleStaysOver /\ XUserKept /\ [Next]_vars
    => StaleStaysOver' /\ XUserKept'
<1> SUFFICES ASSUME Typed, StaleStaysOver, XUserKept, [Next]_vars
             PROVE  StaleStaysOver' /\ XUserKept'
  OBVIOUS
<1>1. ASSUME NEW r \in Requests, Arrive(r) PROVE StaleStaysOver' /\ XUserKept'
  <2>1. PICK sid \in SessionIDs \cup {NoSession, ShortID},
             xuser \in {{}} \cup {{u} : u \in Users} :
           request' = [request EXCEPT ![r] =
             [at |-> "waiting", sid |-> sid, stale |-> sid \notin alive,
              xuser |-> xuser, host |-> NoHost]]
    BY <1>1 DEF Arrive
  <2>2. alive' = alive
    BY <1>1 DEF Arrive
  <2>3. StaleStaysOver'
    BY <2>1, <2>2 DEF Typed, StaleStaysOver
  <2>4. XUserKept'
    BY <2>1 DEF Typed, XUserKept
  <2> QED
    BY <2>3, <2>4
<1>2. ASSUME NEW r \in Requests, Lock(r) PROVE StaleStaysOver' /\ XUserKept'
  BY <1>2 DEF Lock, Typed, StaleStaysOver, XUserKept, RequestStates
<1>a. ASSUME NEW r \in Requests, Panic(r), request[r].at # "new"
      PROVE  StaleStaysOver' /\ XUserKept'
  BY <1>a DEF Panic, Typed, StaleStaysOver, XUserKept, RequestStates
<1>3. ASSUME NEW r \in Requests, GetState(r) PROVE StaleStaysOver' /\ XUserKept'
  <2>1. CASE Panic(r)
    BY <1>3, <1>a, <2>1 DEF GetState
  <2>2. CASE /\ request[r].sid \in alive
             /\ AddXUser(r, {UserOf[request[r].sid]})
             /\ UNCHANGED <<alive, mutex, counter>>
    <3>1. ~request[r].stale /\ request[r].sid \in SessionIDs
      BY <1>3, <2>2 DEF GetState, StaleStaysOver, Typed, RequestStates
    <3>2. request[r].at = "locked" /\ request[r].xuser = {}
      BY <1>3 DEF GetState, XUserKept
    <3>3. /\ request'[r].at = "known"
          /\ request'[r].xuser = {UserOf[request[r].sid]}
          /\ request'[r].sid = request[r].sid /\ request'[r].stale = request[r].stale
          /\ \A q \in Requests \ {r} : request'[q] = request[q]
      BY <2>2, <3>2, Fields DEF AddXUser, Typed
    <3>4. StaleStaysOver'
      BY <2>2, <3>1, <3>3 DEF StaleStaysOver
    <3>5. XUserKept'
      BY <3>1, <3>3 DEF XUserKept
    <3> QED
      BY <3>4, <3>5
  <2>3. CASE AddXUser(r, {Nobody}) /\ UNCHANGED <<alive, mutex, counter>>
    BY <1>3, <2>3
    DEF GetState, AddXUser, Typed, StaleStaysOver, XUserKept, RequestStates
  <2> QED
    BY <1>3, <2>1, <2>2, <2>3 DEF GetState
<1>4. ASSUME NEW r \in Requests, ChooseHost(r) PROVE StaleStaysOver' /\ XUserKept'
  <2>1. CASE Panic(r)
    BY <1>4, <1>a, <2>1 DEF ChooseHost
  <2>2. ASSUME NEW h, Chosen(r, h) PROVE StaleStaysOver' /\ XUserKept'
    BY <1>4, <2>2
    DEF ChooseHost, Chosen, Typed, StaleStaysOver, XUserKept, RequestStates
  <2> QED
    BY <1>4, <2>1, <2>2, ChooseHostCases
<1>5. ASSUME NEW r \in Requests, AdvanceCounter(r)
      PROVE  StaleStaysOver' /\ XUserKept'
  BY <1>5 DEF AdvanceCounter, Typed, StaleStaysOver, XUserKept, RequestStates
<1>6. CASE EndSessions
  BY <1>6 DEF EndSessions, StaleStaysOver, XUserKept
<1>7. CASE UNCHANGED vars
  BY <1>7 DEF vars, StaleStaysOver, XUserKept
<1> QED
  BY <1>1, <1>2, <1>3, <1>4, <1>5, <1>6, <1>7 DEF Next, Quiet

\* What the services are told of the user is what the director found out for
\* this request, whatever header the client sent (main.go:44-61).
THEOREM XUser == Spec => []XUserIsHonest
<1>1. Init => StaleStaysOver /\ XUserKept
  BY DEF Init, StaleStaysOver, XUserKept
<1>2. XUserKept => XUserIsHonest
  BY DEF XUserKept, XUserIsHonest, Routed
<1> QED
  BY <1>1, <1>2, InitTyped, StepTyped, XUserStep, PTL DEF Spec

-----------------------------------------------------------------------------
(* The counter. *)

LEMMA SameShares ==
  ASSUME Counting, RoutedRequests' = RoutedRequests,
         \A h : RoutedTo(h)' = RoutedTo(h), counter' = counter
  PROVE  Counting'
<1>1. Total' = Total /\ \A h : Share(h)' = Share(h)
  BY DEF Total, Share
<1>2. \A x : TurnIs(x)' <=> TurnIs(x)
  BY <1>1 DEF TurnIs
<1> QED
  BY <1>1, <1>2 DEF Counting, CounterKnown

\* A step of a request that is routed neither before nor after it.
LEMMA SameRouted ==
  ASSUME Typed, Counting, NEW r \in Requests,
         \A q \in Requests \ {r} : request'[q] = request[q],
         ~Routed(r), ~Routed(r)', counter' = counter
  PROVE  Counting'
<1>1. RoutedRequests' = RoutedRequests
  BY DEF RoutedRequests, Routed
<1>2. \A h : RoutedTo(h)' = RoutedTo(h)
  BY DEF RoutedTo, Routed
<1> QED
  BY <1>1, <1>2, SameShares

LEMMA ShareTyped ==
  ASSUME IsFiniteSet(RoutedRequests), NEW h
  PROVE  IsFiniteSet(RoutedTo(h)) /\ Share(h) \in Nat
<1>1. RoutedTo(h) \subseteq RoutedRequests
  BY DEF RoutedTo, RoutedRequests
<1> QED
  BY <1>1, FS_Subset, FS_CardinalityType DEF Share

\* Routing one more request to x is one more for x and for nobody else.
LEMMA OneMore ==
  ASSUME Typed, IsFiniteSet(RoutedRequests), NEW r \in Requests, ~Routed(r),
         AdvanceCounter(r)
  PROVE  /\ IsFiniteSet(RoutedRequests)' /\ Total' = Total + 1
         /\ \A h \in HostIDs :
              Share(h)' = IF h = request[r].host THEN Share(h) + 1 ELSE Share(h)
<1>1. /\ request'[r].at = "routed" /\ request'[r].host = request[r].host
      /\ \A q \in Requests \ {r} : request'[q] = request[q]
  BY DEF AdvanceCounter, Typed, RequestStates
<1>2. RoutedRequests' = RoutedRequests \cup {r} /\ r \notin RoutedRequests
  BY <1>1 DEF RoutedRequests, Routed
<1>3. \A h : /\ r \notin RoutedTo(h)
             /\ RoutedTo(h)' = IF h = request[r].host THEN RoutedTo(h) \cup {r}
                                                      ELSE RoutedTo(h)
  BY <1>1 DEF RoutedTo, Routed
<1>4. IsFiniteSet(RoutedRequests)' /\ Total' = Total + 1
  BY <1>2, FS_AddElement DEF Total
<1>5. ASSUME NEW h \in HostIDs
      PROVE  Share(h)' = IF h = request[r].host THEN Share(h) + 1 ELSE Share(h)
  BY <1>3, ShareTyped, FS_AddElement DEF Share
<1> QED
  BY <1>4, <1>5

\* The turn goes from x to the host after it, and from the last to the first.
LEMMA TurnMoves ==
  ASSUME NEW x \in HostIDs, TurnIs(x), IsFiniteSet(RoutedRequests),
         \A h \in HostIDs : Share(h)' = IF h = x THEN Share(h) + 1 ELSE Share(h)
  PROVE  TurnIs(IF x = Hosts - 1 THEN 0 ELSE x + 1)'
<1>1. PICK n \in Nat : \A h \in HostIDs : Share(h) = IF h < x THEN n + 1 ELSE n
  BY DEF TurnIs
<1>2. CASE x = Hosts - 1
  <2>1. \A h \in HostIDs : Share(h)' = n + 1
    BY <1>1, <1>2, DirectorAssumption DEF HostIDs
  <2>2. TurnIs(0)'
    BY <2>1, <1>1 DEF TurnIs, HostIDs
  <2> QED
    BY <1>2, <2>2
<1>3. CASE x # Hosts - 1
  <2>1. \A h \in HostIDs : Share(h)' = IF h < x + 1 THEN n + 1 ELSE n
    BY <1>1, <1>3, DirectorAssumption DEF HostIDs
  <2>2. TurnIs(x + 1)'
    BY <2>1 DEF TurnIs
  <2> QED
    BY <1>3, <2>2
<1> QED
  BY <1>2, <1>3

LEMMA AdvanceCounts ==
  ASSUME Typed, Counting, HostKept, NEW r \in Requests, AdvanceCounter(r)
  PROVE  Counting'
<1>1. PICK x \in HostIDs :
        x = request[r].host /\ x = GoRem(counter, Hosts) /\ ~Routed(r)
  BY DEF AdvanceCounter, HostKept, Routed
<1> DEFINE next == IF x = Hosts - 1 THEN 0 ELSE x + 1
<1>2. /\ IsFiniteSet(RoutedRequests)' /\ Total' = Total + 1
      /\ \A h \in HostIDs : Share(h)' = IF h = x THEN Share(h) + 1 ELSE Share(h)
  BY <1>1, OneMore DEF Counting
<1>3. /\ counter' = IF counter = MaxInt32 THEN -MaxInt32 - 1 ELSE counter + 1
      /\ counter \in Int /\ counter <= MaxInt32
      /\ MaxInt32 \in Nat /\ Hosts \in Nat \ {0}
  BY DirectorAssumption DEF AdvanceCounter, Typed
<1>4. ASSUME Hosts > 1 PROVE CounterKnown'
  <2>1. next \in HostIDs /\ (TurnIs(x) => TurnIs(next)')
    BY <1>1, <1>2, <1>3, TurnMoves DEF HostIDs, Counting
  <2>2. CASE counter >= 0 /\ Total = counter /\ TurnIs(counter % Hosts)
    <3>1. x = counter % Hosts
      BY <1>1, <1>3, <2>2 DEF GoRem
    <3>2. next = (counter + 1) % Hosts
      <4>1. counter \in Nat
        BY <1>3, <2>2
      <4> QED
        BY <1>3, <3>1, <4>1, ModOfNext
    <3> HIDE DEF next
    <3>3. CASE counter < MaxInt32
      <4>1. counter' = counter + 1 /\ Total' = counter'
        BY <1>2, <1>3, <2>2, <3>3
      <4>2. TurnIs(next)' /\ next = counter' % Hosts
        BY <2>1, <2>2, <3>1, <3>2, <4>1
      <4>3. TurnIs(counter % Hosts)'
        BY <4>2 DEF TurnIs
      <4> QED
        BY <1>3, <2>2, <4>1, <4>3 DEF CounterKnown
    <3>4. CASE counter = MaxInt32
      <4>1. counter' = -MaxInt32 - 1 /\ counter' < 0 /\ Total' > MaxInt32
        BY <1>2, <1>3, <2>2, <3>4
      <4>2. GoRem(counter', Hosts) = -next
        BY <1>3, <3>2, <3>4, <4>1 DEF GoRem
      <4>3. GoRem(counter', Hosts) >= 0 => next = 0
        BY <2>1, <4>2 DEF HostIDs
      <4> QED
        BY <2>1, <2>2, <3>1, <4>1, <4>3 DEF CounterKnown
    <3> QED
      BY <1>3, <3>3, <3>4
  <2>3. CASE /\ counter < 0 /\ Total > MaxInt32
             /\ counter = -MaxInt32 - 1 /\ TurnIs(0)
    <3>1. x = 0 /\ (MaxInt32 + 1) % Hosts = 0
      <4>1. (MaxInt32 + 1) % Hosts \in 0..(Hosts - 1)
        BY <1>3, ModRange
      <4>2. x = -((MaxInt32 + 1) % Hosts) /\ x >= 0
        BY <1>1, <1>3, <2>3 DEF GoRem, HostIDs
      <4> QED
        BY <4>1, <4>2
    <3>2. MaxInt32 % Hosts = Hosts - 1
      <4>1. (MaxInt32 + 1) % Hosts =
              IF MaxInt32 % Hosts = Hosts - 1 THEN 0 ELSE (MaxInt32 % Hosts) + 1
        BY <1>3, ModOfNext
      <4>2. MaxInt32 % Hosts \in 0..(Hosts - 1)
        BY <1>3, ModRange
      <4> QED
        BY <1>3, <3>1, <4>1, <4>2
    <3>3. MaxInt32 # 0
      BY <1>4, <1>3, <3>2
    <3>4. counter' = -MaxInt32 /\ counter' < 0
      BY <1>3, <2>3, <3>3
    <3>5. ~(GoRem(counter', Hosts) >= 0)
      BY <1>3, <1>4, <3>2, <3>4 DEF GoRem
    <3>6. \E y \in HostIDs : TurnIs(y)'
      BY <2>1, <2>3, <3>1
    <3>7. Total' > MaxInt32
      <4>1. Total \in Nat
        BY FS_CardinalityType DEF Counting, Total
      <4> QED
        BY <1>2, <1>3, <2>3, <4>1
    <3> QED
      BY <3>4, <3>5, <3>6, <3>7 DEF CounterKnown
  <2>4. x >= 0
    BY <1>1 DEF HostIDs
  <2> QED
    BY <1>1, <1>4, <2>2, <2>3, <2>4 DEF Counting, CounterKnown
<1> QED
  BY <1>2, <1>4 DEF Counting

LEMMA CountingStep ==
  Typed /\ Counting /\ HostKept /\ [Next]_vars => Counting' /\ HostKept'
<1> SUFFICES ASSUME Typed, Counting, HostKept, [Next]_vars
             PROVE  Counting' /\ HostKept'
  OBVIOUS
<1>a. ASSUME NEW r \in Requests, counter' = counter,
             \A q \in Requests \ {r} : request'[q] = request[q],
             request[r].at \in {"new", "waiting", "locked", "known"},
             request'[r].at \in {"waiting", "locked", "known"}
      PROVE  Counting' /\ HostKept'
  <2>1. Counting'
    BY <1>a, SameRouted DEF Routed
  <2>2. HostKept'
    BY <1>a DEF HostKept
  <2> QED
    BY <2>1, <2>2
<1>b. ASSUME NEW r \in Requests, Panic(r), request[r].at \in {"locked", "known"},
             request[r].sid = ShortID \/ GoRem(counter, Hosts) < 0
      PROVE  Counting' /\ HostKept'
  <2>1. /\ counter' = counter /\ request'[r].at = "dropped"
        /\ request'[r].sid = request[r].sid
        /\ \A q \in Requests \ {r} : request'[q] = request[q]
    BY <1>b DEF Panic, Typed, RequestStates
  <2>2. Counting'
    BY <1>b, <2>1, SameRouted DEF Routed
  <2>3. HostKept'
    BY <1>b, <2>1 DEF HostKept
  <2> QED
    BY <2>2, <2>3
<1>1. ASSUME NEW r \in Requests, Arrive(r) PROVE Counting' /\ HostKept'
  BY <1>1, <1>a DEF Arrive, Typed
<1>2. ASSUME NEW r \in Requests, Lock(r) PROVE Counting' /\ HostKept'
  BY <1>2, <1>a DEF Lock, Typed, RequestStates
<1>3. ASSUME NEW r \in Requests, GetState(r) PROVE Counting' /\ HostKept'
  <2>1. ASSUME NEW users, AddXUser(r, users), UNCHANGED <<alive, mutex, counter>>
        PROVE  Counting' /\ HostKept'
    BY <1>3, <1>a, <2>1 DEF GetState, AddXUser, Typed, RequestStates
  <2> QED
    BY <1>3, <1>b, <2>1 DEF GetState
<1>4. ASSUME NEW r \in Requests, ChooseHost(r) PROVE Counting' /\ HostKept'
  <2> DEFINE i == GoRem(counter, Hosts)
  <2>1. CASE i < 0 /\ Panic(r)
    BY <1>4, <1>b, <2>1 DEF ChooseHost
  <2>2. CASE i \in HostIDs /\ Chosen(r, i)
    <3>1. /\ counter' = counter
          /\ request'[r].at = "chosen" /\ request'[r].host = i
          /\ \A q \in Requests \ {r} : request'[q] = request[q]
      BY <2>2 DEF Chosen, Typed, RequestStates
    <3>2. Counting'
      BY <1>4, <3>1, SameRouted DEF ChooseHost, Routed
    <3>3. HostKept'
      BY <2>2, <3>1 DEF HostKept
    <3> QED
      BY <3>2, <3>3
  <2> QED
    BY <1>4, <2>1, <2>2, ChooseHostCases
<1>5. ASSUME NEW r \in Requests, AdvanceCounter(r) PROVE Counting' /\ HostKept'
  <2>1. Counting'
    BY <1>5, AdvanceCounts
  <2>2. request[r].at = "chosen" /\ GoRem(counter, Hosts) >= 0
    BY <1>5 DEF AdvanceCounter, HostKept, HostIDs
  <2>3. /\ request'[r].at = "routed"
        /\ \A q \in Requests \ {r} : request'[q] = request[q]
    BY <1>5, Fields DEF AdvanceCounter, Typed, Places
  <2>4. \A q \in Requests \ {r} : request[q].at # "chosen"
    BY <2>2 DEF Typed, MutexHeld
  <2>5. \A q \in Requests : request[q].at = "dropped" => request[q].sid = ShortID
    BY <2>2, GoRemRange, DirectorAssumption DEF HostKept, Typed, HostIDs
  <2>6. HostKept'
    BY <2>3, <2>4, <2>5 DEF HostKept
  <2> QED
    BY <2>1, <2>6
<1>6. ASSUME UNCHANGED <<request, counter>> PROVE Counting' /\ HostKept'
  <2>1. RoutedRequests' = RoutedRequests /\ \A h : RoutedTo(h)' = RoutedTo(h)
    BY <1>6 DEF RoutedRequests, RoutedTo, Routed
  <2>2. HostKept'
    BY <1>6 DEF HostKept
  <2> QED
    BY <1>6, <2>1, <2>2, SameShares
<1> QED
  BY <1>1, <1>2, <1>3, <1>4, <1>5, <1>6 DEF Next, Quiet, EndSessions, vars

LEMMA InitCounting == Init => Counting /\ HostKept
<1> SUFFICES ASSUME Init PROVE Counting /\ HostKept
  OBVIOUS
<1>1. RoutedRequests = {} /\ \A h : RoutedTo(h) = {}
  BY DEF Init, RoutedRequests, RoutedTo, Routed
<1>2. IsFiniteSet(RoutedRequests) /\ Total = 0 /\ \A h : Share(h) = 0
  BY <1>1, FS_EmptySet DEF Total, Share
<1>3. TurnIs(0)
  BY <1>2 DEF TurnIs, HostIDs
<1>4. 0 % Hosts = 0
  BY DirectorAssumption
<1>5. CounterKnown
  BY <1>2, <1>3, <1>4 DEF CounterKnown, Init
<1> QED
  BY <1>2, <1>5 DEF Counting, HostKept, Init

\* What the theorems on the counter rest on.
THEOREM Inductive == Spec => []IInv
<1>1. Init => StaleStaysOver /\ XUserKept
  BY DEF Init, StaleStaysOver, XUserKept
<1> QED
  BY <1>1, InitTyped, StepTyped, XUserStep, InitCounting, CountingStep, PTL
  DEF Spec, IInv

\* The hosts take turns for any number of hosts, and go on to when the counter
\* wraps round (main.go:64-66).
THEOREM TakingTurns == Spec => []RoundRobin
<1>1. IInv => RoundRobin
  <2> SUFFICES ASSUME IInv, NEW g \in HostIDs, NEW h \in HostIDs
               PROVE  Share(g) <= Share(h) + 1
    BY DEF RoundRobin, HostIDs, Share
  <2>1. Share(g) \in Nat /\ Share(h) \in Nat
    BY ShareTyped DEF IInv, Counting
  <2>2. CASE Hosts = 1
    BY <2>1, <2>2 DEF HostIDs
  <2>3. CASE Hosts > 1
    <3>1. \E x : TurnIs(x) /\ x \in Int
      BY <2>3, ModRange, DirectorAssumption
      DEF IInv, Counting, CounterKnown, Typed, HostIDs
    <3> QED
      BY <3>1 DEF TurnIs, HostIDs
  <2> QED
    BY <2>2, <2>3, DirectorAssumption
<1> QED
  BY <1>1, Inductive, PTL

\* A request with a session id that can be sliced is lost only to a counter
\* that has wrapped, and then every later one is (main.go:65).
THEOREM LossesAfterWrap == Spec => []LostOnlyAfterWrap
<1>1. IInv => LostOnlyAfterWrap
  <2> SUFFICES ASSUME IInv, NEW r \in Requests,
                      request[r].at = "dropped", request[r].sid # ShortID
               PROVE  Total > MaxInt32 /\ GoRem(counter, Hosts) < 0
    BY DEF LostOnlyAfterWrap, Total, RoutedRequests
  <2>1. GoRem(counter, Hosts) < 0
    BY DEF IInv, HostKept
  <2>2. counter \in Int /\ Hosts \in Nat \ {0}
    BY DirectorAssumption DEF IInv, Typed
  <2>3. Hosts > 1 /\ counter < 0
    <3>1. counter < 0
      BY <2>1, <2>2, ModRange DEF GoRem
    <3>2. CASE Hosts = 1
      BY <2>1, <2>2, <3>1, <3>2 DEF GoRem
    <3> QED
      BY <2>2, <3>1, <3>2
  <2> QED
    BY <2>1, <2>2, <2>3 DEF IInv, Counting, CounterKnown
<1> QED
  BY <1>1, Inductive, PTL
=============================================================================
