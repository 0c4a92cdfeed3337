--------------------------- MODULE AccountsProofs ---------------------------
(***************************************************************************)
(* Proofs about Accounts, for any finite set of requests and any set of    *)
(* sign-ups.                                                               *)
(***************************************************************************)
EXTENDS Accounts, FiniteSetTheorems, TLAPS

\* The requests that may have drawn a user id, and those that have not.
Early  == {"new", "email", "userName", "insert"}
Passed == {r \in Requests : request[r].at \notin Early}

\* Each request draws one id at most.
IDsSuffice == nextUserID <= Cardinality(Passed) + 1

\* Where a request is says which route it takes, and what it knows.
OnRouteAt(r) ==
  /\ request[r].at = "new" => request[r].route = "none"
  /\ request[r].at \in {"email", "userName", "insert"} =>
       request[r].route = "SignUp" /\ request[r].body \in NewUsers
  /\ request[r].at = "credentials" => request[r].route = "SignIn"
  /\ request[r].at = "begin" => request[r].route \in {"SignUp", "SignIn"}
  /\ request[r].at = "log" => request[r].route = "SignIn"
  /\ request[r].at = "state" => request[r].route \in {"GetUser", "PatchUser"}
  /\ request[r].at = "update" => request[r].route = "PatchUser"
  /\ request[r].at = "end" => request[r].route = "SignOut"
  /\ request[r].at \in Early => request[r].user = NoUser

OnRoute == \A r \in Requests : OnRouteAt(r)

\* A request comes with a session that was handed out, or with none.
SessionsHeld ==
  \A r \in Requests : request[r].session \in Held \cup {NoSession}

\* i is the row of the email and password that r came with.
Matches(r, i) ==
  /\ i \in UserIDs /\ HasRow(i)
  /\ users[i].email = request[r].body.email
  /\ users[i].password = request[r].body.password

\* Who is about to begin a session, or has begun one, has shown the
\* credentials of its user.
Authenticated ==
  \A r \in Requests :
    /\ request[r].at \in {"begin", "log"} => Matches(r, request[r].user)
    /\ sessions[r] # NoUser =>
         /\ request[r].at \in {"log", "done"}
         /\ request[r].user = sessions[r] /\ Matches(r, sessions[r])

\* A PATCH that got past its checks acts for the user of its session.
PatchesOwn ==
  \A r \in Requests : request[r].at = "update" =>
    request[r].session \in Held /\ request[request[r].session].user = request[r].user

\* Whoever wrote a row will not take another user any more.
AuthorsSettled ==
  \A i \in UserIDs : HasRow(i) =>
    /\ request[users[i].author].at \in {"begin", "done"}
    /\ request[users[i].author].at = "begin" =>
         request[users[i].author].route = "SignUp"

IInv ==
  /\ TypeOK /\ IDsSuffice /\ OnRoute /\ SessionsHeld /\ Authenticated
  /\ PatchesOwn /\ AuthorsSettled
  /\ UniqueAccounts /\ ProfilesWrittenByOwner /\ RefusedRequestsWriteNothing
-----------------------------------------------------------------------------
(* The shapes of a step.  Each says what becomes of request r and of the   *)
(* stores, field by field.                                                 *)

Frame(r) ==
  /\ request' \in [Requests -> RequestStates]
  /\ \A q \in Requests \ {r} : request'[q] = request[q]
  /\ request[r].at # "done"

Keeps(r) ==
  /\ request'[r].route = request[r].route
  /\ request'[r].body = request[r].body
  /\ request'[r].session = request[r].session

KeepsUser(r) == Keeps(r) /\ request'[r].user = request[r].user

Arrives(r) ==
  /\ Frame(r) /\ request[r].at = "new"
  /\ request'[r].at \in {"done", "email", "credentials", "state", "end"}
  /\ request'[r].user = request[r].user
  /\ request'[r].session \in Held \cup {NoSession}
  /\ OnRouteAt(r)'
  /\ UNCHANGED <<store, sessions>>

\* Nothing is written: r is answered, or goes on to the next lookup.
Passes(r) ==
  /\ Frame(r) /\ KeepsUser(r) /\ request[r].at \notin {"new", "begin", "log"}
  /\ \/ request'[r].at = "done"
     \/ request[r].at = "email" /\ request'[r].at = "userName"
     \/ request[r].at = "userName" /\ request'[r].at = "insert"
  /\ \/ UNCHANGED nextUserID
     \/ request[r].at = "insert" /\ nextUserID' = nextUserID + 1
  /\ request'[r].at = "insert" => UNCHANGED nextUserID
  /\ UNCHANGED <<users, signIns, sessions>>

Adds(r) ==
  /\ Frame(r) /\ Keeps(r) /\ request[r].at = "insert"
  /\ WithEmail(request[r].body.email) = {}
  /\ WithUserName(request[r].body.userName) = {}
  /\ users' = [users EXCEPT ![nextUserID] = NewRow(r)]
  /\ nextUserID' = nextUserID + 1
  /\ \/ request'[r].at = "begin" /\ request'[r].user = nextUserID
     \/ /\ request'[r].at = "done" /\ request'[r].status = 500
        /\ request'[r].user = request[r].user
  /\ UNCHANGED <<signIns, sessions>>

Knows(r) ==
  /\ Frame(r) /\ Keeps(r)
  /\ request[r].at = "credentials" /\ request'[r].at = "begin"
  /\ request'[r].user \in UserIDs /\ Matches(r, request'[r].user)
  /\ UNCHANGED <<store, sessions>>

Begins(r) ==
  /\ Frame(r) /\ KeepsUser(r) /\ request[r].at = "begin"
  /\ sessions' \in {sessions, [sessions EXCEPT ![r] = request[r].user]}
  /\ \/ request'[r].at = "done" /\ request'[r].status \in {201, 500}
     \/ request'[r].at = "log" /\ request[r].route = "SignIn"
  /\ UNCHANGED store

Logs(r) ==
  /\ Frame(r) /\ KeepsUser(r)
  /\ request[r].at = "log" /\ request'[r].at = "done" /\ request'[r].status = 201
  /\ signIns' \in [UserIDs -> Nat]
  /\ UNCHANGED <<users, nextUserID, sessions>>

Acts(r) ==
  /\ Frame(r) /\ Keeps(r) /\ request[r].at = "state"
  /\ \/ request'[r].at = "read" /\ request[r].route = "GetUser"
     \/ /\ request'[r].at = "update" /\ request[r].route = "PatchUser"
        /\ HasSession(r)
        /\ request'[r].user = sessions[request[r].session]
  /\ UNCHANGED <<store, sessions>>

Edits(r) ==
  /\ Frame(r) /\ KeepsUser(r)
  /\ request[r].at = "update" /\ request'[r].at = "done"
  /\ request'[r].status \in {200, 400}
  /\ SetNames(r)
  /\ UNCHANGED <<nextUserID, signIns, sessions>>

Ends(r) ==
  /\ Frame(r) /\ KeepsUser(r)
  /\ request[r].at = "end" /\ request'[r].at = "done"
  /\ request[r].session \in Requests
  /\ sessions' = [sessions EXCEPT ![request[r].session] = NoUser]
  /\ UNCHANGED store

Steps(r) ==
  \/ Arrives(r) \/ Passes(r) \/ Adds(r) \/ Knows(r) \/ Begins(r) \/ Logs(r)
  \/ Acts(r) \/ Edits(r) \/ Ends(r)

\* The fields of a request, as sets that stay folded.
Places   == {"new", "email", "userName", "insert", "begin", "credentials",
             "log", "state", "read", "update", "end", "done"}
RouteSet == Routes \cup {"none"}
Bodies   == NewUsers \cup {NoBody}
Carried  == Requests \cup {NoSession}
Targets  == UserIDs \cup {Me}
Users    == UserIDs \cup {NoUser}
Codes    == {0, 200, 201, 400, 401, 403, 404, 405, 415, 500}

LEMMA Fields ==
  RequestStates = [at : Places, route : RouteSet, body : Bodies,
                   session : Carried, target : Targets, user : Users,
                   status : Codes]
BY DEF RequestStates, Places, RouteSet, Bodies, Carried, Targets, Users, Codes

LEMMA ReplyFrame ==
  ASSUME TypeOK, NEW r \in Requests, request[r].at # "done",
         NEW code \in Codes, Reply(r, code)
  PROVE  /\ Frame(r) /\ KeepsUser(r)
         /\ request'[r].at = "done" /\ request'[r].status = code
<1>1. request \in [Requests -> RequestStates] /\ "done" \in Places
  BY DEF TypeOK, Places
<1> QED
  BY <1>1, Fields DEF Reply, Frame, Keeps, KeepsUser

LEMMA GotoFrame ==
  ASSUME TypeOK, NEW r \in Requests, request[r].at # "done",
         NEW place \in Places, Goto(r, place)
  PROVE  Frame(r) /\ KeepsUser(r) /\ request'[r].at = place
<1>1. request \in [Requests -> RequestStates]
  BY DEF TypeOK
<1> QED
  BY <1>1, Fields DEF Goto, Frame, Keeps, KeepsUser

\* r goes on for user i.
LEMMA ForUser ==
  ASSUME TypeOK, NEW r \in Requests, request[r].at # "done",
         NEW place \in Places, NEW i \in Users,
         request' = [request EXCEPT ![r].at = place, ![r].user = i]
  PROVE  /\ Frame(r) /\ Keeps(r)
         /\ request'[r].at = place /\ request'[r].user = i
<1>1. request \in [Requests -> RequestStates]
  BY DEF TypeOK
<1> QED
  BY <1>1, Fields DEF Frame, Keeps

\* r arrives with these fields.
LEMMA ArrivalOf ==
  ASSUME IInv, NEW r \in Requests, request[r].at = "new",
         NEW place \in {"done", "email", "credentials", "state", "end"},
         NEW route \in Routes, NEW fields \in RequestStates,
         fields.user = NoUser, fields.session \in Held \cup {NoSession},
         place = "email" => route = "SignUp" /\ fields.body \in NewUsers,
         place = "credentials" => route = "SignIn",
         place = "state" => route \in {"GetUser", "PatchUser"},
         place = "end" => route = "SignOut",
         ArriveAs(r, route, place, fields)
  PROVE  Arrives(r)
<1>1. /\ request \in [Requests -> RequestStates]
      /\ place \in Places /\ route \in RouteSet
  BY DEF IInv, TypeOK, Places, RouteSet
<1>2. request[r].user = NoUser
  BY DEF IInv, OnRoute, OnRouteAt, Early
<1>3. request' = [request EXCEPT ![r] = [fields EXCEPT !.at = place, !.route = route]]
  BY DEF ArriveAs
<1>4. [fields EXCEPT !.at = place, !.route = route] \in RequestStates
  BY <1>1, Fields
<1>5. /\ request'[r].at = place /\ request'[r].route = route
      /\ request'[r].user = NoUser /\ request'[r].body = fields.body
      /\ request'[r].session = fields.session
  BY <1>1, <1>3, <1>4, Fields
<1>6. Frame(r)
  BY <1>1, <1>3, <1>4 DEF Frame
<1>7. OnRouteAt(r)'
  BY <1>5 DEF OnRouteAt, Early
<1> QED
  BY <1>2, <1>5, <1>6, <1>7 DEF Arrives, ArriveAs

LEMMA ArrivalShape ==
  ASSUME IInv, NEW r \in Requests, Arrive(r)
  PROVE  Arrives(r)
<1>1. /\ request \in [Requests -> RequestStates] /\ request[r] \in RequestStates
      /\ request[r].session \in Held \cup {NoSession}
  BY DEF IInv, TypeOK, SessionsHeld
<1>2. request[r].at = "new" /\ request[r].user = NoUser
  <2>1. ASSUME NEW route, NEW place, NEW fields, ArriveAs(r, route, place, fields)
        PROVE  At(r, "new")
    BY <2>1 DEF ArriveAs
  <2>2. ASSUME NEW route, NEW codes, Refuse(r, route, codes) PROVE At(r, "new")
    BY <2>1, <2>2 DEF Refuse
  <2>3. SignUp(r) => At(r, "new")
    BY DEF SignUp, Refuse, ArriveAs
  <2>4. SignIn(r) => At(r, "new")
    BY DEF SignIn, Refuse, ArriveAs
  <2>5. SpecificUser(r) => At(r, "new")
    BY <2>1 DEF SpecificUser
  <2>6. SignOut(r) => At(r, "new")
    BY <2>1, <2>2 DEF SignOut
  <2>7. At(r, "new")
    BY <2>3, <2>4, <2>5, <2>6 DEF Arrive
  <2> QED
    BY <2>7 DEF IInv, OnRoute, OnRouteAt, Early, At
<1>a. ASSUME NEW route \in Routes, NEW codes \in SUBSET Codes, Refuse(r, route, codes)
      PROVE  Arrives(r)
  <2>1. PICK code \in Codes :
          ArriveAs(r, route, "done", [request[r] EXCEPT !.status = code])
    BY <1>a DEF Refuse
  <2>2. /\ [request[r] EXCEPT !.status = code] \in RequestStates
        /\ [request[r] EXCEPT !.status = code].user = NoUser
        /\ [request[r] EXCEPT !.status = code].session = request[r].session
    BY <1>1, <1>2, Fields
  <2> QED
    BY <1>1, <1>2, <2>1, <2>2, ArrivalOf
<1>b. ASSUME NEW body \in NewUsers, NEW route \in {"SignUp", "SignIn"},
             ArriveAs(r, route, IF route = "SignUp" THEN "email" ELSE "credentials",
                      [request[r] EXCEPT !.body = body])
      PROVE  Arrives(r)
  <2>1. /\ [request[r] EXCEPT !.body = body] \in RequestStates
        /\ [request[r] EXCEPT !.body = body].user = NoUser
        /\ [request[r] EXCEPT !.body = body].body = body
        /\ [request[r] EXCEPT !.body = body].session = request[r].session
    BY <1>1, <1>2, Fields DEF Bodies
  <2> QED
    BY <1>1, <1>2, <1>b, <2>1, ArrivalOf DEF Routes
<1>3. CASE SignUp(r)
  <2>1. CASE Refuse(r, "SignUp", {400, 405, 415})
    BY <1>a, <2>1 DEF Codes, Routes
  <2>2. ASSUME NEW body \in NewUsers,
               ArriveAs(r, "SignUp", "email", [request[r] EXCEPT !.body = body])
        PROVE  Arrives(r)
    BY <1>b, <2>2
  <2> QED
    BY <1>3, <2>1, <2>2 DEF SignUp
<1>4. CASE SignIn(r)
  <2>1. CASE Refuse(r, "SignIn", {400, 405, 415})
    BY <1>a, <2>1 DEF Codes, Routes
  <2>2. ASSUME NEW body \in NewUsers,
               ArriveAs(r, "SignIn", "credentials", [request[r] EXCEPT !.body = body])
        PROVE  Arrives(r)
    BY <1>b, <2>2
  <2> QED
    BY <1>4, <2>1, <2>2 DEF SignIn
<1>5. CASE SpecificUser(r)
  <2>1. PICK s \in Held \cup {NoSession}, i \in UserIDs \cup {Me},
             route \in {"GetUser", "PatchUser"} :
          ArriveAs(r, route, "state",
                   [request[r] EXCEPT !.session = s, !.target = i])
    BY <1>5 DEF SpecificUser
  <2>2. s \in Carried /\ i \in Targets
    BY DEF Held, Carried, Targets
  <2>3. /\ [request[r] EXCEPT !.session = s, !.target = i] \in RequestStates
        /\ [request[r] EXCEPT !.session = s, !.target = i].user = NoUser
        /\ [request[r] EXCEPT !.session = s, !.target = i].session = s
    BY <1>1, <1>2, <2>2, Fields
  <2>4. PICK f : f = [request[r] EXCEPT !.session = s, !.target = i]
    OBVIOUS
  <2>5. /\ f \in RequestStates /\ f.user = NoUser /\ f.session \in Held \cup {NoSession}
        /\ ArriveAs(r, route, "state", f) /\ route \in Routes
    BY <2>1, <2>3, <2>4 DEF Routes
  <2> QED
    BY <1>2, <2>1, <2>5, ArrivalOf
<1>6. CASE SignOut(r)
  <2>1. CASE Refuse(r, "SignOut", {403, 405})
    BY <1>a, <2>1 DEF Codes, Routes
  <2>2. ASSUME NEW s \in Held \cup {NoSession},
               ArriveAs(r, "SignOut", "end", [request[r] EXCEPT !.session = s])
        PROVE  Arrives(r)
    <3>1. s \in Carried
      BY DEF Held, Carried
    <3>2. /\ [request[r] EXCEPT !.session = s] \in RequestStates
          /\ [request[r] EXCEPT !.session = s].user = NoUser
          /\ [request[r] EXCEPT !.session = s].session = s
      BY <1>1, <1>2, <3>1, Fields
    <3> QED
      BY <1>2, <2>2, <3>2, ArrivalOf DEF Routes
  <2> QED
    BY <1>6, <2>1, <2>2 DEF SignOut
<1> QED
  BY <1>3, <1>4, <1>5, <1>6 DEF Arrive

\* As long as some request has not drawn an id, there is one to draw.
LEMMA DrawnIDs ==
  ASSUME IInv, NEW r \in Requests, request[r].at \in Early
  PROVE  nextUserID \in UserIDs
<1>1. IsFiniteSet(Requests) /\ Passed \in SUBSET Requests /\ r \in Requests \ Passed
  BY AccountsAssumption DEF Passed
<1>2. /\ IsFiniteSet(Passed) /\ Cardinality(Passed) <= Cardinality(Requests)
      /\ Cardinality(Passed) # Cardinality(Requests)
  BY <1>1, FS_Subset
<1>3. Cardinality(Passed) \in Nat /\ Cardinality(Requests) \in Nat
  BY <1>1, <1>2, FS_CardinalityType
<1> QED
  BY <1>2, <1>3 DEF IInv, TypeOK, IDsSuffice, UserIDs

LEMMA HandlerShape ==
  ASSUME IInv, NEW r \in Requests, Handle(r)
  PROVE  Steps(r)
<1>1. /\ TypeOK /\ OnRouteAt(r)
      /\ request \in [Requests -> RequestStates] /\ request[r] \in RequestStates
  BY DEF IInv, TypeOK, OnRoute
<1>2. /\ request[r].at \notin {"new", "done"} /\ request[r].user \in Users
      /\ request[r].target \in Targets /\ request[r].session \in Carried
  BY <1>1, Fields DEF Handle, LookUpEmail, LookUpUserName, InsertUser,
     Authenticate, BeginSession, LogSignIn, GetState, ReadUser, UpdateUser,
     EndSession, At
<1>a. ASSUME NEW code \in Codes, Reply(r, code),
             request[r].at \notin {"begin", "log"},
             UNCHANGED nextUserID
               \/ (request[r].at = "insert" /\ nextUserID' = nextUserID + 1),
             UNCHANGED <<users, signIns, sessions>>
      PROVE  Passes(r)
  BY <1>1, <1>2, <1>a, ReplyFrame DEF Passes
<1>3. CASE LookUpEmail(r)
  <2>1. CASE Reply(r, 400)
    BY <1>3, <1>a, <2>1 DEF LookUpEmail, At, store, Codes, Steps
  <2>2. CASE Goto(r, "userName")
    BY <1>1, <1>2, <1>3, <2>2, GotoFrame
    DEF LookUpEmail, At, store, Places, Passes, Steps
  <2> QED
    BY <1>3, <2>1, <2>2 DEF LookUpEmail
<1>4. CASE LookUpUserName(r)
  <2>1. CASE Reply(r, 400)
    BY <1>4, <1>a, <2>1 DEF LookUpUserName, At, store, Codes, Steps
  <2>2. CASE Goto(r, "insert")
    BY <1>1, <1>2, <1>4, <2>2, GotoFrame
    DEF LookUpUserName, At, store, Places, Passes, Steps
  <2> QED
    BY <1>4, <2>1, <2>2 DEF LookUpUserName
<1>5. CASE InsertUser(r)
  <2>1. request[r].at = "insert" /\ UNCHANGED <<signIns, sessions>>
    BY <1>5 DEF InsertUser, At
  <2>2. CASE InsertFails(r)
    BY <1>a, <2>1, <2>2 DEF InsertFails, Codes, Steps
  <2>3. CASE /\ WithEmail(request[r].body.email) = {}
             /\ WithUserName(request[r].body.userName) = {}
             /\ AddUser(r)
    <3>1. CASE Reply(r, 500)
      BY <1>1, <1>2, <2>1, <2>3, <3>1, ReplyFrame
      DEF AddUser, Codes, Adds, KeepsUser, Steps
    <3>2. CASE request' = [request EXCEPT ![r].at = "begin", ![r].user = nextUserID]
      <4>1. nextUserID \in Users
        BY <2>1, DrawnIDs DEF Early, Users
      <4> QED
        BY <1>1, <1>2, <2>1, <2>3, <3>2, <4>1, ForUser
        DEF AddUser, Places, Adds, Steps
    <3> QED
      BY <2>3, <3>1, <3>2 DEF AddUser
  <2> QED
    BY <1>5, <2>2, <2>3 DEF InsertUser
<1>6. CASE Authenticate(r)
  <2>1. CASE Reply(r, 401)
    BY <1>6, <1>a, <2>1 DEF Authenticate, At, store, Codes, Steps
  <2>2. ASSUME NEW i \in WithEmail(request[r].body.email),
               users[i].password = request[r].body.password,
               request' = [request EXCEPT ![r].at = "begin", ![r].user = i]
        PROVE  Steps(r)
    <3>1. i \in UserIDs /\ Matches(r, i)
      BY <2>2 DEF WithEmail, Matches
    <3> QED
      BY <1>1, <1>2, <1>6, <2>2, <3>1, ForUser
      DEF Authenticate, At, Users, Places, Knows, Steps
  <2> QED
    BY <1>6, <2>1, <2>2 DEF Authenticate
<1>7. CASE BeginSession(r)
  <2>1. /\ request[r].at = "begin" /\ UNCHANGED store
        /\ sessions' \in {sessions, [sessions EXCEPT ![r] = request[r].user]}
    BY <1>7 DEF BeginSession, At
  <2>2. ASSUME NEW code \in {201, 500}, Reply(r, code) PROVE Begins(r)
    BY <1>1, <2>1, <2>2, ReplyFrame DEF Codes, Begins
  <2>3. CASE request[r].route = "SignIn" /\ Goto(r, "log")
    BY <1>1, <2>1, <2>3, GotoFrame DEF Places, Begins, Steps
  <2> QED
    BY <1>7, <2>2, <2>3 DEF BeginSession, Steps
<1>8. CASE LogSignIn(r)
  <2>1. signIns' \in [UserIDs -> Nat]
    BY <1>1, <1>8 DEF LogSignIn, TypeOK
  <2> QED
    BY <1>1, <1>8, <2>1, ReplyFrame DEF LogSignIn, At, Codes, Logs, Steps
<1>9. CASE GetState(r)
  <2>1. request[r].at = "state" /\ UNCHANGED <<store, sessions>>
    BY <1>9 DEF GetState, At
  <2>2. ASSUME NEW code \in Codes, Reply(r, code) PROVE Steps(r)
    BY <1>a, <2>1, <2>2 DEF store, Steps
  <2>3. ASSUME HasSession(r), NEW place \in {"read", "update"}, NEW i \in Users,
               request' = [request EXCEPT ![r].at = place, ![r].user = i],
               place = "read" => request[r].route = "GetUser",
               place = "update" => /\ request[r].route = "PatchUser"
                                   /\ i = sessions[request[r].session]
        PROVE  Steps(r)
    BY <1>1, <1>2, <2>1, <2>3, ForUser DEF Places, Acts, Steps
  <2>4. HasSession(r) => sessions[request[r].session] \in Users
    BY <1>1 DEF HasSession, TypeOK, Users
  <2>5. request[r].target # Me => request[r].target \in Users
    BY <1>2 DEF Targets, Users
  <2> QED
    BY <1>9, <2>2, <2>3, <2>4, <2>5 DEF GetState, Codes
<1>10. CASE ReadUser(r)
  BY <1>10, <1>a DEF ReadUser, At, store, Codes, Steps
<1>11. CASE UpdateUser(r)
  <2>1. request[r].at = "update" /\ UNCHANGED <<nextUserID, signIns, sessions>>
    BY <1>11 DEF UpdateUser, At
  <2>2. CASE UNCHANGED users /\ Reply(r, 400)
    BY <1>a, <2>1, <2>2 DEF Codes, Steps
  <2>3. ASSUME SetNames(r), NEW code \in {200, 400}, Reply(r, code)
        PROVE  Edits(r)
    BY <1>1, <2>1, <2>3, ReplyFrame DEF Codes, Edits
  <2> QED
    BY <1>11, <2>2, <2>3 DEF UpdateUser, Steps
<1>12. CASE EndSession(r)
  <2>1. request[r].at = "end" /\ UNCHANGED store
    BY <1>12 DEF EndSession, At
  <2>2. CASE UNCHANGED sessions /\ Reply(r, 500)
    BY <1>a, <2>1, <2>2 DEF store, Codes, Steps
  <2>3. ASSUME request[r].session # NoSession, NEW code \in {200, 500}, Reply(r, code),
               sessions' = [sessions EXCEPT ![request[r].session] = NoUser]
        PROVE  Ends(r)
    BY <1>1, <1>2, <2>1, <2>3, ReplyFrame DEF Codes, Carried, Ends
  <2> QED
    BY <1>12, <2>2, <2>3 DEF EndSession, Steps
<1> QED
  BY <1>3, <1>4, <1>5, <1>6, <1>7, <1>8, <1>9, <1>10, <1>11, <1>12 DEF Handle
-----------------------------------------------------------------------------
(* What each shape preserves. *)

LEMMA RowsGrow ==
  ASSUME IInv, NEW r \in Requests, request[r].at = "insert"
  PROVE  /\ NewRow(r) \in Rows /\ NewRow(r) # NoRow
         /\ nextUserID \in UserIDs /\ nextUserID + 1 \in UserIDs \cup {Cardinality(Requests) + 1}
         /\ users[nextUserID] = NoRow
<1>1. request[r].body \in NewUsers
  BY DEF IInv, OnRoute, OnRouteAt
<1>2. NewRow(r) \in Rows
  BY <1>1 DEF NewRow, Rows
<1>3. nextUserID \in UserIDs
  BY DrawnIDs DEF Early
<1>4. Cardinality(Requests) \in Nat
  BY AccountsAssumption, FS_CardinalityType
<1> QED
  BY <1>2, <1>3, <1>4, RowsAssumption DEF UserIDs, IInv, TypeOK, HasRow

LEMMA StepTypeOK ==
  ASSUME IInv, NEW r \in Requests, Steps(r)
  PROVE  TypeOK'
<1>1. TypeOK
  BY DEF IInv
<1>2. request' \in [Requests -> RequestStates]
  BY DEF Steps, Arrives, Passes, Adds, Knows, Begins, Logs, Acts, Edits, Ends, Frame
<1>3. request[r].user \in Users
  BY <1>1, Fields DEF TypeOK
<1>4. CASE Arrives(r) \/ Knows(r) \/ Acts(r)
  BY <1>1, <1>2, <1>4 DEF TypeOK, HasRow, Arrives, Knows, Acts, store
<1>5. CASE Passes(r)
  BY <1>1, <1>2, <1>5, RowsGrow DEF TypeOK, HasRow, Passes, UserIDs
<1>6. CASE Adds(r)
  BY <1>1, <1>2, <1>6, RowsGrow DEF TypeOK, HasRow, Adds, UserIDs
<1>7. CASE Begins(r) \/ Ends(r)
  BY <1>1, <1>2, <1>3, <1>7 DEF TypeOK, HasRow, Begins, Ends, store, Users
<1>8. CASE Logs(r)
  BY <1>1, <1>2, <1>8 DEF TypeOK, HasRow, Logs
<1>9. CASE Edits(r)
  <2>1. \A i \in UserIDs : users[i] # NoRow => [users[i] EXCEPT !.author = r] \in Rows
    BY <1>1 DEF TypeOK, Rows
  <2>2. /\ users' = [users EXCEPT ![request[r].user] =
                       [users[request[r].user] EXCEPT !.author = r]]
        /\ users[request[r].user] # NoRow
    BY <1>1, <1>9 DEF TypeOK, Edits, SetNames, HasRow
  <2>3. users' \in [UserIDs -> Rows \cup {NoRow}]
    BY <1>1, <2>1, <2>2 DEF TypeOK
  <2>4. \A i \in UserIDs : users'[i] # NoRow => users[i] # NoRow
    BY <1>1, <2>2 DEF TypeOK
  <2> QED
    BY <1>1, <1>2, <1>9, <2>3, <2>4 DEF TypeOK, HasRow, Edits
<1> QED
  BY <1>4, <1>5, <1>6, <1>7, <1>8, <1>9 DEF Steps

LEMMA StepIDsSuffice ==
  ASSUME IInv, NEW r \in Requests, Steps(r)
  PROVE  IDsSuffice'
<1>1. /\ \A q \in Requests \ {r} : request'[q] = request[q]
      /\ request'[r].at \in Early => request[r].at \in Early
  BY DEF Steps, Arrives, Passes, Adds, Knows, Begins, Logs, Acts, Edits, Ends,
         Frame, Early
<1>2. Passed \in SUBSET Passed' /\ Passed' \in SUBSET Requests
  BY <1>1 DEF Passed
<1>3. IsFiniteSet(Passed) /\ IsFiniteSet(Passed')
  BY <1>2, AccountsAssumption, FS_Subset
<1>4. /\ Cardinality(Passed) \in Nat /\ Cardinality(Passed') \in Nat
      /\ Cardinality(Passed) <= Cardinality(Passed')
  BY <1>2, <1>3, FS_CardinalityType, FS_Subset
<1>5. nextUserID \in Nat /\ nextUserID <= Cardinality(Passed) + 1
  BY AccountsAssumption, FS_CardinalityType DEF IInv, TypeOK, IDsSuffice, UserIDs
<1>6. CASE UNCHANGED nextUserID
  BY <1>4, <1>5, <1>6 DEF IDsSuffice
<1>7. CASE /\ request[r].at = "insert" /\ request'[r].at \in {"begin", "done"}
           /\ nextUserID' = nextUserID + 1
  <2>1. r \notin Passed /\ Passed' = Passed \cup {r}
    BY <1>1, <1>7 DEF Passed, Early
  <2>2. Cardinality(Passed') = Cardinality(Passed) + 1
    BY <1>3, <2>1, FS_AddElement
  <2> QED
    BY <1>4, <1>5, <1>7, <2>2 DEF IDsSuffice
<1> QED
  BY <1>6, <1>7 DEF Steps, Arrives, Passes, Adds, Knows, Begins, Logs, Acts,
                    Edits, Ends, store

\* Being given out a session is for good.
LEMMA HeldGrows ==
  ASSUME IInv, NEW r \in Requests, Steps(r)
  PROVE  /\ Held \subseteq Held' /\ r \notin Held
         /\ \A q \in Held : request'[q] = request[q]
<1>1. Frame(r)
  BY DEF Steps, Arrives, Passes, Adds, Knows, Begins, Logs, Acts, Edits, Ends
<1>2. r \notin Held
  BY <1>1 DEF Frame, Held, Answered, At
<1>3. \A q \in Held : request'[q] = request[q]
  BY <1>1, <1>2 DEF Frame, Held
<1>4. Held \subseteq Held'
  BY <1>3 DEF Held, Answered, At
<1> QED
  BY <1>2, <1>3, <1>4

LEMMA StepOnRoute ==
  ASSUME IInv, NEW r \in Requests, Steps(r)
  PROVE  OnRoute' /\ SessionsHeld'
<1>1. OnRouteAt(r) /\ \A q \in Requests : OnRouteAt(q)
  BY DEF IInv, OnRoute
<1>2. \A q \in Requests \ {r} : request'[q] = request[q]
  BY DEF Steps, Arrives, Passes, Adds, Knows, Begins, Logs, Acts, Edits, Ends, Frame
<1>3. OnRouteAt(r)'
  <2>1. CASE Arrives(r)
    BY <2>1 DEF Arrives
  <2>2. CASE Passes(r)
    BY <1>1, <2>2 DEF OnRouteAt, Passes, KeepsUser, Keeps, Early
  <2>3. CASE Adds(r) \/ Knows(r)
    BY <1>1, <2>3 DEF OnRouteAt, Adds, Knows, Keeps, Early
  <2>4. CASE Begins(r) \/ Logs(r) \/ Edits(r) \/ Ends(r)
    <3>1. \/ request'[r].at = "done"
          \/ request'[r].at = "log" /\ request'[r].route = "SignIn"
      BY <2>4 DEF Begins, Logs, Edits, Ends, KeepsUser, Keeps
    <3> QED
      BY <3>1 DEF OnRouteAt, Early
  <2>5. CASE Acts(r)
    BY <1>1, <2>5 DEF OnRouteAt, Acts, Keeps, Early
  <2> QED
    BY <2>1, <2>2, <2>3, <2>4, <2>5 DEF Steps
<1>4. request'[r].session \in Held \cup {NoSession}
  BY DEF IInv, SessionsHeld, Steps, Arrives, Passes, Adds, Knows, Begins, Logs,
         Acts, Edits, Ends, KeepsUser, Keeps
<1>5. SessionsHeld'
  BY <1>2, <1>4, HeldGrows DEF IInv, SessionsHeld
<1>6. \A q \in Requests \ {r} : OnRouteAt(q)'
  BY <1>1, <1>2 DEF OnRouteAt
<1> QED
  BY <1>3, <1>5, <1>6 DEF OnRoute

\* A row keeps its email, username and password; only an author changes.
LEMMA RowsKept ==
  ASSUME IInv, NEW r \in Requests, Steps(r)
  PROVE  \A i \in UserIDs : HasRow(i) =>
           /\ users'[i] # NoRow
           /\ users'[i].email = users[i].email
           /\ users'[i].userName = users[i].userName
           /\ users'[i].password = users[i].password
<1>1. users \in [UserIDs -> Rows \cup {NoRow}]
  BY DEF IInv, TypeOK
<1>2. CASE UNCHANGED users
  BY <1>2 DEF HasRow
<1>3. CASE Adds(r)
  BY <1>1, <1>3, RowsGrow DEF Adds, HasRow
<1>4. CASE Edits(r)
  <2>1. \A i \in UserIDs : users[i] # NoRow =>
          LET row == [users[i] EXCEPT !.author = r] IN
            /\ row \in Rows
            /\ row.email = users[i].email /\ row.userName = users[i].userName
            /\ row.password = users[i].password
    BY <1>1 DEF Rows
  <2> QED
    BY <1>1, <1>4, <2>1, RowsAssumption DEF Edits, SetNames, HasRow
<1> QED
  BY <1>2, <1>3, <1>4 DEF Steps, Arrives, Passes, Knows, Begins, Logs, Acts, Ends, store

\* Who wrote the rows after a step.
LEMMA RowsFrom ==
  ASSUME IInv, NEW r \in Requests, Steps(r), NEW i \in UserIDs, HasRow(i)'
  PROVE  \/ HasRow(i) /\ users'[i] = users[i]
         \/ Adds(r) /\ i = nextUserID /\ users'[i] = NewRow(r)
         \/ /\ Edits(r) /\ HasRow(i) /\ i = request[r].user
            /\ users'[i].author = r
<1>1. users \in [UserIDs -> Rows \cup {NoRow}]
  BY DEF IInv, TypeOK
<1>2. CASE UNCHANGED users
  BY <1>2 DEF HasRow
<1>3. CASE Adds(r)
  BY <1>1, <1>3 DEF Adds, HasRow
<1>4. CASE Edits(r)
  <2>1. \A j \in UserIDs : users[j] # NoRow => [users[j] EXCEPT !.author = r].author = r
    BY <1>1 DEF Rows
  <2> QED
    BY <1>1, <1>4, <2>1 DEF Edits, SetNames, HasRow
<1> QED
  BY <1>2, <1>3, <1>4 DEF Steps, Arrives, Passes, Knows, Begins, Logs, Acts, Ends, store

LEMMA StepUniqueAccounts ==
  ASSUME IInv, NEW r \in Requests, Steps(r)
  PROVE  UniqueAccounts'
<1> SUFFICES ASSUME NEW i \in UserIDs, NEW j \in UserIDs,
                    HasRow(i)', HasRow(j)', i # j
             PROVE  /\ users'[i].email # users'[j].email
                    /\ users'[i].userName # users'[j].userName
  BY DEF UniqueAccounts
<1>1. CASE HasRow(i) /\ HasRow(j)
  BY <1>1, RowsKept DEF IInv, UniqueAccounts
<1>2. ASSUME NEW k \in UserIDs, HasRow(k), Adds(r)
      PROVE  /\ users[k].email # NewRow(r).email
             /\ users[k].userName # NewRow(r).userName
  BY <1>2 DEF Adds, WithEmail, WithUserName, NewRow
<1>3. ASSUME NEW k \in UserIDs, HasRow(k)'
      PROVE  HasRow(k) \/ (Adds(r) /\ k = nextUserID /\ users'[k] = NewRow(r))
  BY <1>3, RowsFrom
<1> QED
  BY <1>1, <1>2, <1>3, RowsKept

LEMMA StepAuthorsSettled ==
  ASSUME IInv, NEW r \in Requests, Steps(r)
  PROVE  AuthorsSettled'
<1> SUFFICES ASSUME NEW i \in UserIDs, HasRow(i)', NEW w, w = users'[i].author
             PROVE  /\ request'[w].at \in {"begin", "done"}
                    /\ request'[w].at = "begin" => request'[w].route = "SignUp"
  BY DEF AuthorsSettled
<1>1. request[r].at = "insert" => request[r].route = "SignUp"
  BY DEF IInv, OnRoute, OnRouteAt
<1>2. CASE Adds(r) /\ users'[i] = NewRow(r)
  BY <1>1, <1>2 DEF Adds, NewRow, Keeps
<1>3. CASE Edits(r) /\ w = r
  BY <1>3 DEF Edits
<1>4. CASE HasRow(i) /\ w = users[i].author
  <2>1. /\ w \in Requests /\ request[w].at \in {"begin", "done"}
        /\ request[w].at = "begin" => request[w].route = "SignUp"
    BY <1>4 DEF IInv, AuthorsSettled, TypeOK, HasRow, Rows
  <2>2. CASE w # r
    BY <2>1, <2>2 DEF Steps, Arrives, Passes, Adds, Knows, Begins, Logs, Acts,
                      Edits, Ends, Frame
  <2>3. CASE w = r
    <3>1. Begins(r)
      BY <2>1, <2>3 DEF Steps, Arrives, Passes, Adds, Knows, Logs, Acts,
                        Edits, Ends, Frame
    <3> QED
      BY <2>1, <2>3, <3>1 DEF Begins, Frame
  <2> QED
    BY <2>2, <2>3
<1> QED
  BY <1>2, <1>3, <1>4, RowsFrom

LEMMA StepProfiles ==
  ASSUME IInv, NEW r \in Requests, Steps(r)
  PROVE  ProfilesWrittenByOwner'
<1> DEFINE Owned(i, w) ==
      \/ request[w].route = "SignUp" /\ request[w].user \in {i, NoUser}
      \/ /\ request[w].route = "PatchUser" /\ request[w].user = i
         /\ request[w].session \in Held
         /\ request[request[w].session].user = i
<1> SUFFICES ASSUME NEW i \in UserIDs, HasRow(i)', NEW w, w = users'[i].author
             PROVE  Owned(i, w)'
  BY DEF ProfilesWrittenByOwner
<1>1. CASE Adds(r) /\ i = nextUserID /\ users'[i] = NewRow(r)
  <2>1. request[r].route = "SignUp" /\ request[r].user = NoUser /\ w = r
    BY <1>1 DEF IInv, OnRoute, OnRouteAt, Early, Adds, NewRow
  <2> QED
    BY <1>1, <2>1 DEF Adds, Keeps
<1>2. CASE Edits(r) /\ i = request[r].user /\ w = r
  <2>1. /\ request[r].route = "PatchUser" /\ request[r].session \in Held
        /\ request[request[r].session].user = i
    BY <1>2 DEF IInv, OnRoute, OnRouteAt, PatchesOwn, Edits
  <2>2. /\ request'[r].route = "PatchUser" /\ request'[r].session = request[r].session
        /\ request'[r].user = i
    BY <1>2, <2>1 DEF Edits, KeepsUser, Keeps
  <2>3. PICK s : s = request[r].session
    OBVIOUS
  <2>4. s \in Held' /\ request'[s].user = i
    BY <2>1, <2>3, HeldGrows
  <2> QED
    BY <1>2, <2>2, <2>3, <2>4
<1>3. CASE HasRow(i) /\ w = users[i].author
  <2>1. /\ w \in Requests /\ Owned(i, w)
        /\ request[w].at \in {"begin", "done"}
        /\ request[w].at = "begin" => request[w].route = "SignUp"
    BY <1>3 DEF IInv, AuthorsSettled, ProfilesWrittenByOwner, TypeOK, HasRow, Rows
  <2>2. CASE w # r
    <3>1. request'[w] = request[w]
      BY <2>1, <2>2 DEF Steps, Arrives, Passes, Adds, Knows, Begins, Logs, Acts,
                        Edits, Ends, Frame
    <3> QED
      BY <2>1, <3>1, HeldGrows
  <2>3. CASE w = r
    <3>1. Begins(r)
      BY <2>1, <2>3 DEF Steps, Arrives, Passes, Adds, Knows, Logs, Acts,
                        Edits, Ends, Frame
    <3> QED
      BY <2>1, <2>3, <3>1 DEF Begins, KeepsUser, Keeps
  <2> QED
    BY <2>2, <2>3
<1> QED
  BY <1>1, <1>2, <1>3, RowsFrom

LEMMA StepRefused ==
  ASSUME IInv, NEW r \in Requests, Steps(r)
  PROVE  RefusedRequestsWriteNothing'
<1> DEFINE Told(q) ==
      \/ \E code \in {401, 403, 404, 405, 415} :
           At(q, "done") /\ request[q].status = code
      \/ Answered(q, "SignUp", 400)
<1> SUFFICES ASSUME NEW q \in Requests, Told(q)', NEW i \in UserIDs,
                    HasRow(i)', users'[i].author = q
             PROVE  FALSE
  BY DEF RefusedRequestsWriteNothing
<1>1. CASE q # r
  <2>1. request'[q] = request[q]
    BY <1>1 DEF Steps, Arrives, Passes, Adds, Knows, Begins, Logs, Acts,
                Edits, Ends, Frame
  <2>2. Told(q)
    BY <2>1 DEF At, Answered
  <2>3. \/ HasRow(i) /\ users'[i] = users[i]
        \/ users'[i] = NewRow(r)
        \/ users'[i].author = r
    BY RowsFrom
  <2>4. HasRow(i) /\ users[i].author = q
    BY <1>1, <2>3 DEF NewRow
  <2> QED
    BY <2>2, <2>4 DEF IInv, RefusedRequestsWriteNothing
<1>2. CASE q = r
  <2>1. request'[r].at = "done"
    BY <1>2 DEF At, Answered
  <2>2. CASE Edits(r)
    <3>1. request'[r].route = "PatchUser" /\ request'[r].status \in {200, 400}
      BY <2>2 DEF IInv, OnRoute, OnRouteAt, Edits, KeepsUser, Keeps
    <3> QED
      BY <1>2, <3>1 DEF Answered
  <2>3. CASE Adds(r) \/ Begins(r)
    BY <1>2, <2>1, <2>3 DEF Adds, Begins, Answered
  <2>4. CASE HasRow(i) /\ users[i].author = r /\ ~Edits(r) /\ ~Adds(r) /\ ~Begins(r)
    <3>1. request[r].at \in {"begin", "done"}
      BY <2>4 DEF IInv, AuthorsSettled
    <3> QED
      BY <2>4, <3>1 DEF Steps, Arrives, Passes, Knows, Logs, Acts, Ends, Frame
  <2> QED
    BY <1>2, <2>2, <2>3, <2>4, RowsFrom
<1> QED
  BY <1>1, <1>2

\* Only the request that is at "begin" puts a user into a session.
LEMMA SessionsFrom ==
  ASSUME IInv, NEW r \in Requests, Steps(r), NEW s \in Requests, sessions'[s] # NoUser
  PROVE  \/ sessions'[s] = sessions[s]
         \/ Begins(r) /\ s = r /\ sessions'[s] = request[r].user
<1>1. sessions \in [Requests -> UserIDs \cup {NoUser}]
  BY DEF IInv, TypeOK
<1> QED
  BY <1>1 DEF Steps, Arrives, Passes, Adds, Knows, Begins, Logs, Acts, Edits,
              Ends, store

LEMMA MatchesKept ==
  ASSUME IInv, NEW r \in Requests, Steps(r), NEW q \in Requests, NEW i,
         request'[q].body = request[q].body, Matches(q, i)
  PROVE  Matches(q, i)'
BY RowsKept DEF Matches, HasRow

LEMMA StepAuthenticated ==
  ASSUME IInv, NEW r \in Requests, Steps(r)
  PROVE  Authenticated'
<1>2. \A q \in Requests \ {r} : request'[q] = request[q]
  BY DEF Steps, Arrives, Passes, Adds, Knows, Begins, Logs, Acts, Edits, Ends, Frame
<1>3. ASSUME NEW q \in Requests, NEW i, i = request'[q].user,
             request'[q].at \in {"begin", "log"}
      PROVE  Matches(q, i)'
  <2>1. CASE q # r
    BY <1>2, <1>3, <2>1, MatchesKept DEF IInv, Authenticated
  <2>2. CASE q = r /\ Adds(r)
    <3>1. /\ users'[i] = NewRow(r) /\ i \in UserIDs
          /\ request'[r].body = request[r].body /\ NewRow(r) # NoRow
      BY <1>3, <2>2, RowsGrow DEF Adds, Keeps, IInv, TypeOK
    <3> QED
      BY <2>2, <3>1 DEF Matches, HasRow, NewRow
  <2>3. CASE q = r /\ Knows(r)
    BY <1>3, <2>3, MatchesKept DEF Knows, Keeps
  <2>4. CASE q = r /\ Begins(r)
    BY <1>3, <2>4, MatchesKept DEF Begins, KeepsUser, Keeps, IInv, Authenticated
  <2>5. CASE /\ q = r
             /\ Arrives(r) \/ Passes(r) \/ Logs(r) \/ Acts(r) \/ Edits(r) \/ Ends(r)
    BY <1>3, <2>5 DEF Arrives, Passes, Logs, Acts, Edits, Ends
  <2> QED
    BY <2>1, <2>2, <2>3, <2>4, <2>5 DEF Steps
<1>4. ASSUME NEW q \in Requests, NEW i, i = sessions'[q], i # NoUser
      PROVE  /\ request'[q].at \in {"log", "done"} /\ request'[q].user = i
             /\ Matches(q, i)'
  <2>1. CASE Begins(r) /\ q = r
    <3>1. sessions[r] = NoUser /\ Matches(r, request[r].user)
      BY <2>1 DEF Begins, IInv, Authenticated
    <3>2. i = request[r].user
      BY <1>4, <2>1, <3>1, SessionsFrom
    <3> QED
      BY <2>1, <3>1, <3>2, MatchesKept DEF Begins, KeepsUser, Keeps
  <2>2. CASE sessions[q] = i /\ q = r /\ ~Begins(r)
    <3>1. /\ request[r].at \in {"log", "done"} /\ request[r].user = i
          /\ Matches(r, i)
      BY <1>4, <2>2 DEF IInv, Authenticated
    <3>2. Logs(r)
      BY <2>2, <3>1 DEF Steps, Arrives, Passes, Adds, Knows, Acts, Edits, Ends, Frame
    <3> QED
      BY <2>2, <3>1, <3>2, MatchesKept DEF Logs, KeepsUser, Keeps
  <2>3. CASE sessions[q] = i /\ q # r
    BY <1>2, <1>4, <2>3, MatchesKept DEF IInv, Authenticated
  <2> QED
    BY <1>4, <2>1, <2>2, <2>3, SessionsFrom
<1> QED
  BY <1>3, <1>4 DEF Authenticated, Matches, HasRow

LEMMA StepPatchesOwn ==
  ASSUME IInv, NEW r \in Requests, Steps(r)
  PROVE  PatchesOwn'
<1>1. \A q \in Requests \ {r} : request'[q] = request[q]
  BY DEF Steps, Arrives, Passes, Adds, Knows, Begins, Logs, Acts, Edits, Ends, Frame
<1>2. ASSUME NEW q \in Requests, q # r, request'[q].at = "update"
      PROVE  /\ request'[q].session \in Held'
             /\ request'[request'[q].session].user = request'[q].user
  BY <1>1, <1>2, HeldGrows DEF IInv, PatchesOwn
<1>3. ASSUME request'[r].at = "update"
      PROVE  /\ request'[r].session \in Held'
             /\ request'[request'[r].session].user = request'[r].user
  <2>1. Acts(r)
    BY <1>3 DEF Steps, Arrives, Passes, Adds, Knows, Begins, Logs, Edits, Ends
  <2>2. /\ HasSession(r) /\ request'[r].user = sessions[request[r].session]
        /\ request'[r].session = request[r].session
    BY <1>3, <2>1 DEF Acts, Keeps
  <2>3. request[r].session \in Held
    BY <2>2, AccountsAssumption DEF IInv, SessionsHeld, HasSession
  <2>4. request[request[r].session].user = sessions[request[r].session]
    BY <2>2 DEF IInv, Authenticated, HasSession
  <2> QED
    BY <2>2, <2>3, <2>4, HeldGrows
<1> QED
  BY <1>2, <1>3 DEF PatchesOwn
-----------------------------------------------------------------------------
(* The invariant. *)

LEMMA InitIInv == Init => IInv
<1> SUFFICES ASSUME Init PROVE IInv
  OBVIOUS
<1>1. Cardinality(Requests) \in Nat
  BY AccountsAssumption, FS_CardinalityType
<1>2. TypeOK
  <2>1. request \in [Requests -> RequestStates]
    BY DEF Init, RequestStates
  <2> QED
    BY <1>1, <2>1 DEF Init, TypeOK, HasRow, UserIDs
<1>3. IDsSuffice
  <2>1. IsFiniteSet(Passed) /\ Cardinality(Passed) \in Nat
    BY AccountsAssumption, FS_Subset, FS_CardinalityType DEF Passed
  <2> QED
    BY <2>1 DEF Init, IDsSuffice
<1>4. /\ OnRoute /\ SessionsHeld /\ Authenticated /\ PatchesOwn /\ AuthorsSettled
      /\ UniqueAccounts /\ ProfilesWrittenByOwner /\ RefusedRequestsWriteNothing
  BY DEF Init, OnRoute, OnRouteAt, SessionsHeld, Authenticated, PatchesOwn,
         AuthorsSettled, UniqueAccounts, ProfilesWrittenByOwner,
         RefusedRequestsWriteNothing, HasRow
<1> QED
  BY <1>2, <1>3, <1>4 DEF IInv

\* Forgetting a session changes nothing else.
LEMMA ExpireIInv ==
  ASSUME IInv, NEW s \in Requests, Expire(s)
  PROVE  IInv'
<1>1. UNCHANGED <<users, nextUserID, signIns, request>>
  BY DEF Expire, store
<1>2. \A q \in Requests : sessions'[q] \in {sessions[q], NoUser}
  BY DEF Expire, IInv, TypeOK
<1>3. TypeOK'
  BY <1>1 DEF Expire, IInv, TypeOK, HasRow
<1>4. Authenticated'
  BY <1>1, <1>2 DEF IInv, Authenticated, Matches, HasRow
<1>5. IDsSuffice' /\ OnRoute' /\ SessionsHeld' /\ PatchesOwn' /\ AuthorsSettled'
  BY <1>1 DEF IInv, IDsSuffice, Passed, OnRoute, OnRouteAt, SessionsHeld, Held,
              Answered, At, PatchesOwn, AuthorsSettled, HasRow
<1>6. UniqueAccounts'
  BY <1>1 DEF IInv, UniqueAccounts, HasRow
<1>7. RefusedRequestsWriteNothing'
  BY <1>1 DEF IInv, RefusedRequestsWriteNothing, HasRow, Answered, At
<1>8. ProfilesWrittenByOwner'
  <2>1. Held' = Held
    BY <1>1 DEF Held, Answered, At
  <2> QED
    BY <1>1, <2>1 DEF IInv, ProfilesWrittenByOwner, HasRow
<1> QED
  BY <1>3, <1>4, <1>5, <1>6, <1>7, <1>8 DEF IInv

LEMMA StutterIInv == IInv /\ UNCHANGED vars => IInv'
<1> SUFFICES ASSUME IInv, UNCHANGED vars PROVE IInv'
  OBVIOUS
<1>1. /\ users' = users /\ nextUserID' = nextUserID /\ signIns' = signIns
      /\ sessions' = sessions /\ request' = request
  BY DEF vars
<1>2. TypeOK' /\ Authenticated'
  BY <1>1 DEF IInv, TypeOK, Authenticated, Matches, HasRow
<1>3. IDsSuffice' /\ OnRoute'
  BY <1>1 DEF IInv, IDsSuffice, Passed, OnRoute, OnRouteAt
<1>4. SessionsHeld' /\ PatchesOwn' /\ AuthorsSettled'
  BY <1>1 DEF IInv, SessionsHeld, Held, Answered, At, PatchesOwn, AuthorsSettled, HasRow
<1>5. UniqueAccounts'
  BY <1>1 DEF IInv, UniqueAccounts, HasRow
<1>6. RefusedRequestsWriteNothing'
  BY <1>1 DEF IInv, RefusedRequestsWriteNothing, HasRow, Answered, At
<1>7. ProfilesWrittenByOwner'
  <2>1. Held' = Held
    BY <1>1 DEF Held, Answered, At
  <2> QED
    BY <1>1, <2>1 DEF IInv, ProfilesWrittenByOwner, HasRow
<1> QED
  BY <1>2, <1>3, <1>4, <1>5, <1>6, <1>7 DEF IInv

\* Every step is one of the shapes, a session that is forgotten, or nothing.
LEMMA StepCases ==
  ASSUME IInv, [Next]_vars
  PROVE  \/ \E r \in Requests : Steps(r) \/ Expire(r)
         \/ UNCHANGED vars
BY ArrivalShape, HandlerShape DEF Next, Quiet, Steps

LEMMA StepIInv == IInv /\ [Next]_vars => IInv'
<1> SUFFICES ASSUME IInv, [Next]_vars PROVE IInv'
  OBVIOUS
<1>1. ASSUME NEW r \in Requests, Steps(r) PROVE IInv'
  BY <1>1, StepTypeOK, StepIDsSuffice, StepOnRoute, StepAuthenticated,
     StepPatchesOwn, StepAuthorsSettled, StepUniqueAccounts, StepProfiles,
     StepRefused DEF IInv
<1> QED
  BY <1>1, StepCases, ExpireIInv, StutterIInv

\* The two stores and the requests between them satisfy the invariant in
\* every state (auth.go).
THEOREM Inductive == Spec => []IInv
BY InitIInv, StepIInv, PTL DEF Spec

\* The tables, the sessions and the requests keep their types; no user has an
\* id that the sequence has yet to give (auth.go, postgresstore.go).
THEOREM Typing == Spec => []TypeOK
BY Inductive, PTL DEF IInv

\* However many sign-ups find an email and a username free at the same time,
\* no two accounts share either (UsersHandler's lookups and its INSERT).
THEOREM OneAccountEach == Spec => []UniqueAccounts
BY Inductive, PTL DEF IInv

\* Every session names the user whose email and password the request brought
\* that began it (SessionsHandler, UsersHandler).
THEOREM SessionsMatch == Spec => []SessionsBelongToCredentials
<1>1. IInv => SessionsBelongToCredentials
  BY DEF IInv, Authenticated, Matches, SessionsBelongToCredentials
<1> QED
  BY <1>1, Inductive, PTL

\* Names are written by the sign-up that made the row or by a PATCH with a
\* session of its user (SpecificUserHandler).
THEOREM OwnersWrite == Spec => []ProfilesWrittenByOwner
BY Inductive, PTL DEF IInv

\* A refusal that the client is told of has written nothing (auth.go).
THEOREM RefusalsWriteNothing == Spec => []RefusedRequestsWriteNothing
BY Inductive, PTL DEF IInv
-----------------------------------------------------------------------------
(* The sessions as SessionStore has them. *)

Issued == {r \in Requests : /\ request[r].route \in {"SignUp", "SignIn"}
                            /\ At(r, "log") \/ At(r, "done")}
LiveSessions == {s \in Requests : sessions[s] # NoUser}

LEMMA EndStep ==
  ASSUME LiveSessions' \subseteq LiveSessions, Issued' = Issued
  PROVE  Store!Next
<1>1. PICK ended : ended = LiveSessions \ LiveSessions'
  OBVIOUS
<1>2. Store!End(ended)
  BY <1>1 DEF Store!End, LiveSessions, Issued
<1>3. ended \in SUBSET {s \in Requests : sessions[s] # NoUser}
  BY <1>1 DEF LiveSessions
<1>4. \E e \in SUBSET {s \in Requests : sessions[s] # NoUser} : Store!End(e)
  BY <1>2, <1>3
<1> QED
  BY <1>4 DEF Store!Next

LEMMA BeginStep ==
  ASSUME NEW r \in Requests, r \notin Issued, Issued' = Issued \cup {r},
         LiveSessions' \in {LiveSessions, LiveSessions \cup {r}}
  PROVE  Store!Next
<1>1. Store!Begin(r)
  BY DEF Store!Begin, LiveSessions, Issued
<1> QED
  BY <1>1 DEF Store!Next

\* A request that draws a session id is answered by that step, or logs the
\* sign-in next; only then can its session begin to live.
LEMMA StoreOfShape ==
  ASSUME IInv, NEW r \in Requests, Steps(r)
  PROVE  Store!Next
<1>1. /\ \A q \in Requests \ {r} : request'[q] = request[q]
      /\ request[r].at # "done"
  BY DEF Steps, Arrives, Passes, Adds, Knows, Begins, Logs, Acts, Edits, Ends, Frame
<1>2. CASE Begins(r)
  <2>1. request[r].route \in {"SignUp", "SignIn"}
    BY <1>2 DEF IInv, OnRoute, OnRouteAt, Begins
  <2>2. r \notin Issued /\ Issued' = Issued \cup {r}
    BY <1>1, <1>2, <2>1 DEF Issued, At, Begins, KeepsUser, Keeps
  <2>3. LiveSessions' \in {LiveSessions, LiveSessions \cup {r}}
    <3>1. sessions \in [Requests -> UserIDs \cup {NoUser}] /\ sessions[r] = NoUser
      BY <1>2 DEF IInv, TypeOK, Authenticated, Begins
    <3>2. \A q \in Requests \ {r} : sessions'[q] = sessions[q]
      BY <1>2, <3>1 DEF Begins
    <3> QED
      BY <3>1, <3>2 DEF LiveSessions
  <2> QED
    BY <2>2, <2>3, BeginStep
<1>3. CASE ~Begins(r)
  <2>1. LiveSessions' \subseteq LiveSessions
    BY <1>3, SessionsFrom DEF LiveSessions
  <2>2. CASE r \in Issued
    <3>1. request'[r].at = "done" /\ request'[r].route = request[r].route
      BY <1>3, <2>2 DEF Issued, At, Steps, Arrives, Passes, Adds, Knows, Logs,
         Acts, Edits, Ends, Frame, KeepsUser, Keeps
    <3>2. Issued' = Issued
      BY <1>1, <2>2, <3>1 DEF Issued, At
    <3> QED
      BY <2>1, <3>2, EndStep
  <2>3. CASE r \notin Issued /\ r \notin Issued'
    <3>1. Issued' = Issued
      BY <1>1, <2>3 DEF Issued, At
    <3> QED
      BY <2>1, <3>1, EndStep
  <2>4. CASE r \notin Issued /\ r \in Issued'
    <3>1. Issued' = Issued \cup {r}
      BY <1>1, <2>4 DEF Issued, At
    <3>2. ~Ends(r)
      BY <2>4 DEF Ends, KeepsUser, Keeps, Issued, IInv, OnRoute, OnRouteAt
    <3>3. UNCHANGED sessions
      BY <1>3, <3>2 DEF Steps, Arrives, Passes, Adds, Knows, Logs, Acts, Edits, store
    <3> QED
      BY <2>4, <3>1, <3>3, BeginStep DEF LiveSessions
  <2> QED
    BY <2>2, <2>3, <2>4
<1> QED
  BY <1>2, <1>3

LEMMA StoreStep == IInv /\ [Next]_vars => [Store!Next]_(Store!vars)
<1> SUFFICES ASSUME IInv, [Next]_vars
             PROVE  Store!Next \/ UNCHANGED Store!vars
  OBVIOUS
<1>1. ASSUME NEW s \in Requests, Expire(s) PROVE Store!Next
  <2>1. \A q \in Requests : sessions'[q] \in {sessions[q], NoUser}
    BY <1>1 DEF Expire, IInv, TypeOK
  <2>2. LiveSessions' \subseteq LiveSessions /\ Issued' = Issued
    BY <1>1, <2>1 DEF Expire, LiveSessions, Issued, At
  <2> QED
    BY <2>2, EndStep
<1>2. CASE UNCHANGED vars
  BY <1>2 DEF vars, Store!vars, At
<1> QED
  BY <1>1, <1>2, StoreOfShape, StepCases

\* The handlers between them begin every session once, and none that is over
\* comes back (auth.go against sessions/store.go).
THEOREM SessionsRefined == Spec => ImplementsSessionStore
<1>1. Init => Store!Init
  BY DEF Init, Store!Init, At
<1> QED
  BY <1>1, StoreStep, Inductive, PTL
  DEF Spec, ImplementsSessionStore, Store!Spec
=============================================================================
