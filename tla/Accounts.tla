------------------------------ MODULE Accounts ------------------------------
(***************************************************************************)
(* The gateway's own handlers (handlers/auth.go): signing up, signing in   *)
(* and out, reading and changing a user's profile, over two stores that    *)
(* share no transaction: users in Postgres, sessions in Redis.             *)
(*                                                                         *)
(* Every request is a goroutine.  An action is one query of one store and  *)
(* the handler's code up to the next; a query may fail, before or after it *)
(* took effect.  A session is named by the request that began it: its id   *)
(* is random.  Renewal of sessions is in module RedisStore.                *)
(***************************************************************************)
EXTENDS Naturals, FiniteSets

CONSTANTS
  Requests,
  NewUsers,   \* valid sign-ups: [email, userName, password]
  NoSession, NoBody, NoRow

Routes == {"SignUp", "SignIn", "GetUser", "PatchUser", "SignOut"}

UserIDs == 1..Cardinality(Requests)   \* each request draws one at most
NoUser  == 0
Me      == 0                          \* /v1/users/me

ASSUME AccountsAssumption ==
  /\ IsFiniteSet(Requests) /\ NoSession \notin Requests
  /\ NoBody \notin NewUsers

VARIABLES
  users,       \* user id -> row of table users, or NoRow
  nextUserID,  \* its serial sequence
  signIns,     \* user id -> rows of table usersignins
  sessions,    \* session -> the user id in its state, or NoUser
  request

vars == <<users, nextUserID, signIns, sessions, request>>
store == <<users, nextUserID, signIns>>

Rows == [email    : {u.email : u \in NewUsers},
         userName : {u.userName : u \in NewUsers},
         password : {u.password : u \in NewUsers},
         author   : Requests]     \* the request that wrote the first and last name

ASSUME RowsAssumption == NoRow \notin Rows

RequestStates ==
  [at      : {"new", "email", "userName", "insert", "begin", "credentials",
              "log", "state", "read", "update", "end", "done"},
   route   : Routes \cup {"none"},
   body    : NewUsers \cup {NoBody},
   session : Requests \cup {NoSession},    \* in its Authorization header
   target  : UserIDs \cup {Me},            \* in its path
   user    : UserIDs \cup {NoUser},        \* the user it acts for, once known
   status  : {0, 200, 201, 400, 401, 403, 404, 405, 415, 500}]

Init ==
  /\ users = [i \in UserIDs |-> NoRow]
  /\ nextUserID = 1
  /\ signIns = [i \in UserIDs |-> 0]
  /\ sessions = [s \in Requests |-> NoUser]
  /\ request = [r \in Requests |->
       [at |-> "new", route |-> "none", body |-> NoBody,
        session |-> NoSession, target |-> Me, user |-> NoUser, status |-> 0]]

At(r, place)   == request[r].at = place
Goto(r, place) == request' = [request EXCEPT ![r].at = place]
Reply(r, code) == request' = [request EXCEPT ![r].at = "done", ![r].status = code]

Answered(r, route, code) ==
  At(r, "done") /\ request[r].route = route /\ request[r].status = code

\* The sessions whose id was in the answer to a sign-up or a sign-in.
Held == {r \in Requests : Answered(r, "SignUp", 201) \/ Answered(r, "SignIn", 201)}

HasRow(i) == users[i] # NoRow
WithEmail(email) == {i \in UserIDs : HasRow(i) /\ users[i].email = email}
WithUserName(n)  == {i \in UserIDs : HasRow(i) /\ users[i].userName = n}

-----------------------------------------------------------------------------
\* Arrivals, with the checks that need no store.
ArriveAs(r, route, place, fields) ==
  /\ At(r, "new")
  /\ request' = [request EXCEPT ![r] =
       [fields EXCEPT !.at = place, !.route = route]]
  /\ UNCHANGED <<store, sessions>>

Refuse(r, route, codes) ==
  \E code \in codes :
    ArriveAs(r, route, "done", [request[r] EXCEPT !.status = code])

\* UsersHandler, up to the check of the email address: ToUser accepts the
\* body, and trims the email.
SignUp(r) ==
  \/ Refuse(r, "SignUp", {400, 405, 415})
  \/ \E body \in NewUsers :
       ArriveAs(r, "SignUp", "email", [request[r] EXCEPT !.body = body])

SignIn(r) ==
  \/ Refuse(r, "SignIn", {400, 405, 415})
  \/ \E body \in NewUsers :
       ArriveAs(r, "SignIn", "credentials", [request[r] EXCEPT !.body = body])

\* A PATCH body that cannot be decoded is taken for empty names: it is a
\* PATCH like any other.
SpecificUser(r) ==
  \E s \in Held \cup {NoSession}, i \in UserIDs \cup {Me},
     route \in {"GetUser", "PatchUser"} :
    ArriveAs(r, route, "state",
             [request[r] EXCEPT !.session = s, !.target = i])

SignOut(r) ==
  \/ Refuse(r, "SignOut", {403, 405})
  \/ \E s \in Held \cup {NoSession} :
       ArriveAs(r, "SignOut", "end", [request[r] EXCEPT !.session = s])

-----------------------------------------------------------------------------
\* GetByEmail; an error counts as "no such user".
LookUpEmail(r) ==
  /\ At(r, "email")
  /\ \/ WithEmail(request[r].body.email) # {} /\ Reply(r, 400)
     \/ Goto(r, "userName")   \* not there, or the query failed
  /\ UNCHANGED <<store, sessions>>

LookUpUserName(r) ==
  /\ At(r, "userName")
  /\ \/ WithUserName(request[r].body.userName) # {} /\ Reply(r, 400)
     \/ Goto(r, "insert")
  /\ UNCHANGED <<store, sessions>>

NewRow(r) ==
  [email |-> request[r].body.email, userName |-> request[r].body.userName,
   password |-> request[r].body.password, author |-> r]

\* A mutated form: the id is not taken from a sequence.
AddUserWithoutSequence(r) ==
  /\ users' = [users EXCEPT ![nextUserID] = NewRow(r)]
  /\ request' = [request EXCEPT ![r].at = "begin", ![r].user = nextUserID]
  /\ UNCHANGED nextUserID

\* The INSERT, of which the answer may be lost.
AddUser(r) ==
  /\ users' = [users EXCEPT ![nextUserID] = NewRow(r)]
  /\ nextUserID' = nextUserID + 1
  /\ \/ request' = [request EXCEPT ![r].at = "begin", ![r].user = nextUserID]
     \/ Reply(r, 500)

InsertFails(r) ==
  /\ nextUserID' \in {nextUserID, nextUserID + 1}
  /\ UNCHANGED users
  /\ Reply(r, 500)

\* A mutated form: the lookups alone keep emails and names apart.
InsertUserUnconstrained(r) ==
  /\ At(r, "insert")
  /\ AddUser(r) \/ InsertFails(r)
  /\ UNCHANGED <<signIns, sessions>>

\* The table's unique constraints decide; a refused row uses up an id.
InsertUser(r) ==
  /\ At(r, "insert")
  /\ \/ /\ WithEmail(request[r].body.email) = {}
        /\ WithUserName(request[r].body.userName) = {}
        /\ AddUser(r)
     \/ InsertFails(r)
  /\ UNCHANGED <<signIns, sessions>>

\* A mutated form: the password is not compared.
AuthenticateByEmail(r) ==
  /\ At(r, "credentials")
  /\ \/ \E i \in WithEmail(request[r].body.email) :
          request' = [request EXCEPT ![r].at = "begin", ![r].user = i]
     \/ Reply(r, 401)
  /\ UNCHANGED <<store, sessions>>

\* GetByEmail and Authenticate; 401 also when the query fails.
Authenticate(r) ==
  /\ At(r, "credentials")
  /\ \/ \E i \in WithEmail(request[r].body.email) :
          /\ users[i].password = request[r].body.password
          /\ request' = [request EXCEPT ![r].at = "begin", ![r].user = i]
     \/ Reply(r, 401)
  /\ UNCHANGED <<store, sessions>>

\* BeginSession, for a user just inserted or just authenticated.
BeginSession(r) ==
  /\ At(r, "begin")
  /\ \/ /\ sessions' = [sessions EXCEPT ![r] = request[r].user]
        /\ \/ request[r].route = "SignUp" /\ Reply(r, 201)
           \/ request[r].route = "SignIn" /\ Goto(r, "log")
           \/ Reply(r, 500)
     \/ UNCHANGED sessions /\ Reply(r, 500)
  /\ UNCHANGED store

\* LogSignIn, whose error is ignored.
LogSignIn(r) ==
  /\ At(r, "log")
  /\ signIns' \in {signIns, [signIns EXCEPT ![request[r].user] = @ + 1]}
  /\ Reply(r, 201)
  /\ UNCHANGED <<users, nextUserID, sessions>>

-----------------------------------------------------------------------------
HasSession(r) ==
  request[r].session \in Requests /\ sessions[request[r].session] # NoUser

\* A mutated form: a user may be changed with any session.
GetStateOfAnyone(r) ==
  /\ At(r, "state")
  /\ \/ /\ HasSession(r)
        /\ request' = [request EXCEPT
             ![r].at = IF request[r].route = "GetUser" THEN "read" ELSE "update",
             ![r].user = IF request[r].target = Me
                         THEN sessions[request[r].session]
                         ELSE request[r].target]
     \/ Reply(r, 401)
  /\ UNCHANGED <<store, sessions>>

\* SpecificUserHandler, up to its query: the session, the id in the path,
\* the method, whether one may change that user, and the content type.
GetState(r) ==
  /\ At(r, "state")
  /\ \/ Reply(r, 401)
     \/ /\ HasSession(r)
        /\ LET current   == sessions[request[r].session]
               requested == IF request[r].target = Me THEN current
                                                      ELSE request[r].target
               proceed(place) ==
                 request' = [request EXCEPT ![r].at = place, ![r].user = requested]
           IN \/ \E code \in {400, 405} : Reply(r, code)
              \/ request[r].route = "GetUser" /\ proceed("read")
              \/ request[r].route = "PatchUser" /\
                   \/ requested # current /\ Reply(r, 403)
                   \/ requested = current /\ (Reply(r, 415) \/ proceed("update"))
  /\ UNCHANGED <<store, sessions>>

ReadUser(r) ==
  /\ At(r, "read")
  /\ \/ HasRow(request[r].user) /\ Reply(r, 200)
     \/ Reply(r, 404)
  /\ UNCHANGED <<store, sessions>>

SetNames(r) ==
  /\ HasRow(request[r].user)
  /\ users' = [users EXCEPT ![request[r].user].author = r]

\* Mutated forms: the session's copy of the user is written anew; the
\* content type is checked last.
UpdateUserAndSession(r) ==
  /\ At(r, "update")
  /\ SetNames(r) /\ Reply(r, 200)
  /\ sessions' = [sessions EXCEPT ![request[r].session] = request[r].user]
  /\ UNCHANGED <<nextUserID, signIns>>

UpdateUserUnchecked(r) ==
  /\ At(r, "update")
  /\ SetNames(r) /\ \E code \in {200, 415} : Reply(r, code)
  /\ UNCHANGED <<nextUserID, signIns, sessions>>

\* The UPDATE takes any names, also those that auth_test.go:546-549 expects
\* to be refused: nothing but the mock store calls User.ApplyUpdates.
UpdateUser(r) ==
  /\ At(r, "update")
  /\ \/ SetNames(r) /\ \E code \in {200, 400} : Reply(r, code)
     \/ UNCHANGED users /\ Reply(r, 400)
  /\ UNCHANGED <<nextUserID, signIns, sessions>>

\* EndSession: that there is no such session is no error.
EndSession(r) ==
  /\ At(r, "end")
  /\ \/ /\ request[r].session # NoSession
        /\ sessions' = [sessions EXCEPT ![request[r].session] = NoUser]
        /\ \E code \in {200, 500} : Reply(r, code)
     \/ UNCHANGED sessions /\ Reply(r, 500)
  /\ UNCHANGED store

\* The session store forgets a session that was not used.
Expire(s) ==
  /\ sessions[s] # NoUser
  /\ sessions' = [sessions EXCEPT ![s] = NoUser]
  /\ UNCHANGED <<store, request>>

Arrive(r) == SignUp(r) \/ SignIn(r) \/ SpecificUser(r) \/ SignOut(r)

Handle(r) ==
  \/ LookUpEmail(r) \/ LookUpUserName(r) \/ InsertUser(r)
  \/ Authenticate(r) \/ BeginSession(r) \/ LogSignIn(r)
  \/ GetState(r) \/ ReadUser(r) \/ UpdateUser(r) \/ EndSession(r)

Quiet ==
  /\ \A r \in Requests : At(r, "done") /\ sessions[r] = NoUser
  /\ UNCHANGED vars

Next == (\E r \in Requests : Arrive(r) \/ Handle(r) \/ Expire(r)) \/ Quiet

Spec == Init /\ [][Next]_vars

-----------------------------------------------------------------------------
TypeOK ==
  /\ users \in [UserIDs -> Rows \cup {NoRow}]
  /\ nextUserID \in UserIDs \cup {Cardinality(Requests) + 1}
  /\ \A i \in UserIDs : HasRow(i) => i < nextUserID
  /\ signIns \in [UserIDs -> Nat]
  /\ sessions \in [Requests -> UserIDs \cup {NoUser}]
  /\ request \in [Requests -> RequestStates]

\* Sign-ups that all found the email and the username free make one account.
UniqueAccounts ==
  \A i, j \in UserIDs : HasRow(i) /\ HasRow(j) /\ i # j =>
    users[i].email # users[j].email /\ users[i].userName # users[j].userName

\* A session, of which the id may still be on its way, names a user with a
\* row, and that is the user whose credentials the request brought.
SessionsBelongToCredentials ==
  \A r \in Requests : sessions[r] # NoUser =>
    /\ HasRow(sessions[r])
    /\ users[sessions[r]].email = request[r].body.email
    /\ users[sessions[r]].password = request[r].body.password

\* The names of a user were written by the sign-up that made the row, or by
\* a PATCH with a session of that user, be it over by now.
ProfilesWrittenByOwner ==
  \A i \in UserIDs : HasRow(i) =>
    LET w == request[users[i].author] IN
      \/ w.route = "SignUp" /\ w.user \in {i, NoUser}
      \/ /\ w.route = "PatchUser" /\ w.user = i
         /\ w.session \in Held /\ request[w.session].user = i

\* A sign-up or a PATCH that is told to be refused has written nothing.
\* (400 to a PATCH is also what a failed UPDATE is answered with.)
RefusedRequestsWriteNothing ==
  \A r \in Requests :
    \/ \E code \in {401, 403, 404, 405, 415} :
         At(r, "done") /\ request[r].status = code
    \/ Answered(r, "SignUp", 400)
    => \A i \in UserIDs : HasRow(i) => users[i].author # r

Store == INSTANCE SessionStore WITH
  SessionIDs <- Requests,
  issued <- {r \in Requests : /\ request[r].route \in {"SignUp", "SignIn"}
                              /\ At(r, "log") \/ At(r, "done")},
  live   <- {s \in Requests : sessions[s] # NoUser}

\* Between them the handlers use sessions as they are meant to be used: each
\* is begun once, by the request that drew its id, and one that is over is
\* not brought back by a request that found it before.
ImplementsSessionStore == Store!Spec
=============================================================================
