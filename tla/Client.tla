------------------------------- MODULE Client -------------------------------
(***************************************************************************)
(* The web client (clients/src) on top of the services: the tabs of one    *)
(* browser, which share the token in localStorage, the fetches they have   *)
(* under way, and the servers behind them.  Handlers are async: a click    *)
(* sends a fetch, and whatever its answer does is done later, to whatever  *)
(* the tab has become.                                                     *)
(*                                                                         *)
(* The servers appear as Tracker and SessionStore describe them: a request *)
(* is served in one step, but for the UPDATE of an application, which runs *)
(* after its answer.  A row's contents are the edits its fields come from. *)
(***************************************************************************)
EXTENDS Naturals, FiniteSets

CONSTANTS
  Tabs,
  Users,        \* ids of users with an account
  SessionIDs,
  NoToken,      \* "" and null: both are falsy
  NoTab,
  Fields,       \* the inputs of a form
  Repeated,     \* bounds: operations asked for again before they are answered,
  Slots,        \* room for so many fetches at one time,
  MaxRows,      \* so many rows of each table,
  MaxInputs     \* and so many texts of an input beside the empty one

ASSUME ClientAssumption ==
  /\ Users \subseteq Nat \ {0}
  /\ NoToken \notin SessionIDs /\ NoTab \notin Tabs
  /\ IsFiniteSet(Slots) /\ MaxRows \in Nat \ {0} /\ MaxInputs \in Nat

VARIABLES
  token,         \* localStorage "Authorization"
  tab,
  fetch,         \* slot -> the fetch under way in it
  owner,         \* session id -> its user, Nobody before it is drawn
  live,          \* the sessions the store has
  applications,  \* number -> row
  stages,
  updates        \* UPDATEs of applications that were answered and still run

browser == <<token, tab>>
server  == <<owner, live, applications, stages, updates>>
vars    == <<token, tab, fetch, owner, live, applications, stages, updates>>

Nobody  == 0
Values  == [Fields -> 0..MaxInputs]
Blank   == [f \in Fields |-> 0]
Numbers == 1..MaxRows

Items == [kind : {"application", "stage"}, number : 0..MaxRows]  \* 0: a new one
Application(n) == [kind |-> "application", number |-> n]
Stage(n)       == [kind |-> "stage", number |-> n]

Nothing == [i \in {} |-> Blank]

Public == [view |-> "public", page |-> "signIn", authToken |-> NoToken,
           user |-> Nobody, number |-> 0, ready |-> {}, seen |-> Nothing,
           item |-> Application(0), values |-> Blank, edited |-> {}]

Idle == [at |-> "idle", op |-> "none", tab |-> NoTab, reader |-> "nobody",
         token |-> NoToken, user |-> Nobody, number |-> 0,
         item |-> Application(0), values |-> Blank, edited |-> {}, ok |-> FALSE,
         session |-> NoToken, who |-> Nobody, rows |-> Nothing]

Init ==
  /\ token = NoToken
  /\ tab = [t \in Tabs |-> Public]
  /\ fetch = [s \in Slots |-> Idle]
  /\ owner = [s \in SessionIDs |-> Nobody]
  /\ live = {}
  /\ applications = Nothing
  /\ stages = Nothing
  /\ updates = {}

-----------------------------------------------------------------------------
(* Fetches.  Their reader is the code that waits for the answer: App, or a *)
(* page, which is deaf once React has unmounted it.                        *)

Saves    == {"Create", "Patch"}
Sessions == {"SignIn", "SignOut"}

\* F without what the page of tab t waits for; a save still reaches the server.
Unmount(t, F) ==
  [s \in Slots |->
     IF F[s].tab # t \/ F[s].reader # "page" THEN F[s]
     ELSE IF F[s].op \in Saves /\ F[s].at = "sent"
     THEN [F[s] EXCEPT !.tab = NoTab, !.reader = "nobody"]
     ELSE Idle]

Free(F) == {s \in Slots : F[s].at = "idle"}

\* No button is disabled while what it asked for is under way; users who do not
\* press it twice are a bound of an instance.
MayAsk(t, ops) ==
  /\ Free(fetch) # {}
  /\ ops \subseteq Repeated \/ \A s \in Slots : fetch[s].tab = t => fetch[s].op \notin ops

\* Slots have no meaning: which one is taken makes no difference.
Send(F, request) == [F EXCEPT ![CHOOSE s \in Free(F) : TRUE] = request]

Request(t, op, reader) ==
  [Idle EXCEPT !.at = "sent", !.op = op, !.tab = t, !.reader = reader,
               !.token = token]

\* The fetch of the dashboard and the two of the page of application n.
List(t, user) == [Request(t, "List", "page") EXCEPT !.user = user]

ListStages(t, n) == [Request(t, "Stages", "page") EXCEPT !.number = n]

\* Tab t, as `fields', comes to the dashboard, with F under way.
ToDashboard(t, fields, F) ==
  /\ Free(F) # {}
  /\ tab' = [tab EXCEPT ![t] =
       [fields EXCEPT !.view = "dashboard", !.number = 0, !.ready = {},
          !.seen = Nothing, !.item = Application(0), !.values = Blank, !.edited = {}]]
  /\ fetch' = Send(F, List(t, fields.user))

\* Both fetches of the page have to be answered before it shows anything.
ToApplication(t, fields, n, F) ==
  /\ Cardinality(Free(F)) >= 2
  /\ tab' = [tab EXCEPT ![t] =
       [fields EXCEPT !.view = "application", !.number = n, !.ready = {},
          !.seen = Nothing, !.item = Application(0), !.values = Blank, !.edited = {}]]
  /\ fetch' = Send(Send(F, List(t, fields.user)), ListStages(t, n))

-----------------------------------------------------------------------------
(* App and the sign-in pages. *)

\* What a load of the page leaves of the fetches of the tab.
Abandon(t) ==
  [s \in Slots |->
     IF fetch[s].tab # t THEN fetch[s]
     ELSE IF fetch[s].at = "sent" /\ fetch[s].op \notin {"Me", "List", "Stages"}
     THEN [fetch[s] EXCEPT !.tab = NoTab, !.reader = "nobody"]
     ELSE Idle]

LoadAs(t, page) ==
  /\ tab' = [tab EXCEPT ![t] = [Public EXCEPT !.authToken = token, !.page = page]]
  /\ \/ token = NoToken /\ fetch' = Abandon(t)
     \/ token # NoToken /\ Free(Abandon(t)) # {} /\ fetch' = Send(Abandon(t), Request(t, "Me", "app"))
  /\ UNCHANGED <<token, server>>

\* A mutated form: one may sign in while the user is still being fetched.
LoadForSignIn(t) == LoadAs(t, "signIn")

\* The constructor, with getCurrentUser.  Without a user the router leaves `/'
\* and /signin, which is a link away from it.
Load(t) == LoadAs(t, IF token = NoToken THEN "signIn" ELSE "signedInMain")

\* SignIn and SignUp submit alike.  On page signedInMain there is no form:
\* "Error, invalid path reached".
SubmitForm(t) ==
  /\ tab[t].view = "public" /\ tab[t].page = "signIn"
  /\ MayAsk(t, Sessions)
  /\ \E u \in Users :
       fetch' = Send(fetch, [Request(t, "SignIn", "app") EXCEPT !.user = u, !.token = NoToken])
  /\ UNCHANGED <<browser, server>>

Answered(s, op) ==
  fetch[s].at = "served" /\ fetch[s].op = op /\ fetch[s].reader # "nobody"

\* The headers are there: the token is stored; the body is still to come.
SignedIn(s) ==
  /\ Answered(s, "SignIn") /\ fetch[s].ok
  /\ token' = fetch[s].session
  /\ tab' = [tab EXCEPT ![fetch[s].tab].authToken = fetch[s].session,
                        ![fetch[s].tab].page = "signedInMain"]
  /\ fetch' = [fetch EXCEPT ![s].at = "body", ![s].session = NoToken]
  /\ UNCHANGED server

\* setUser with the body of a sign-in or of users/me: from `/' and /signin the
\* router goes to the dashboard; any other page stays.
SetUser(s) ==
  /\ \/ fetch[s].at = "body"
     \/ Answered(s, "Me") /\ fetch[s].ok
  /\ LET t == fetch[s].tab
         F == [fetch EXCEPT ![s] = Idle]
         fields == [tab[t] EXCEPT !.user = fetch[s].who]
     IN IF tab[t].user = Nobody THEN ToDashboard(t, fields, F)
        ELSE tab' = [tab EXCEPT ![t] = fields] /\ fetch' = F
  /\ UNCHANGED <<token, server>>

\* A mutated form: the router does not look at the user.
SignedOutInPlace(t, F) ==
  /\ token' = NoToken
  /\ tab' = [tab EXCEPT ![t] = [Public EXCEPT !.view = tab[t].view]]
  /\ fetch' = Unmount(t, F)

\* No token, no user, and from every page of a user the way to `/'.
SignedOut(t, F) ==
  /\ token' = NoToken
  /\ tab' = [tab EXCEPT ![t] = Public]
  /\ fetch' = Unmount(t, F)

\* getCurrentUser: "Unable to verify login.  Logging out..."
NotVerified(s) ==
  /\ Answered(s, "Me") /\ ~fetch[s].ok
  /\ SignedOut(fetch[s].tab, [fetch EXCEPT ![s] = Idle])
  /\ UNCHANGED server

ClickSignOut(t) ==
  /\ tab[t].user # Nobody
  /\ MayAsk(t, Sessions)
  /\ fetch' = Send(fetch, Request(t, "SignOut", "app"))
  /\ UNCHANGED <<browser, server>>

SignOutAnswered(s) ==
  /\ Answered(s, "SignOut") /\ fetch[s].ok
  /\ SignedOut(fetch[s].tab, [fetch EXCEPT ![s] = Idle])
  /\ UNCHANGED server

\* A refusal shows at most a message, but for users/me; a promise that is
\* rejected shows nothing: the connection failed, before or after the request
\* was served.
NoEffect(s) ==
  /\ fetch[s].at # "idle"
  /\ fetch' = [fetch EXCEPT ![s] = Idle]
  /\ UNCHANGED <<browser, server>>

-----------------------------------------------------------------------------
(* The pages of a user. *)

\* Dashboard and ApplicationPage keep what they are sent.
Loaded(s) ==
  /\ fetch[s].at = "served" /\ fetch[s].ok /\ fetch[s].op \in {"List", "Stages"}
  /\ LET t == fetch[s].tab
         rows == fetch[s].rows
         old  == tab[t].seen
     IN tab' = [tab EXCEPT ![t].ready = @ \cup {fetch[s].op},
          ![t].seen = [i \in DOMAIN old \cup DOMAIN rows |->
                         IF i \in DOMAIN rows THEN rows[i] ELSE old[i]]]
  /\ fetch' = [fetch EXCEPT ![s] = Idle]
  /\ UNCHANGED <<token, server>>

\* No page links to the one before it; the browser does, and it is fetched anew.
Back(t) ==
  /\ LET dashboard == tab[t].view = "application" \/ tab[t].number = 0 IN
       \/ tab[t].view \in {"application", "form"} /\ dashboard
          /\ ToDashboard(t, tab[t], Unmount(t, fetch))
       \/ tab[t].view = "form" /\ ~dashboard
          /\ ToApplication(t, tab[t], tab[t].number, Unmount(t, fetch))
  /\ UNCHANGED <<token, server>>

OpenApplication(t) ==
  /\ tab[t].view = "dashboard"
  /\ \E i \in DOMAIN tab[t].seen : ToApplication(t, tab[t], i.number, Unmount(t, fetch))
  /\ UNCHANGED <<token, server>>

\* The form of a row, which takes its values from the page, or of a new one.
OpenForm(t) ==
  /\ \/ tab[t].view = "dashboard"
     \/ tab[t].view = "application" /\ tab[t].ready = {"List", "Stages"}
  /\ \E i \in Items :
       /\ \/ /\ tab[t].view = "application"
             /\ i \in DOMAIN tab[t].seen /\ i.kind = "application" => i.number = tab[t].number
             /\ i \in DOMAIN tab[t].seen \cup {Stage(0)}
          \/ tab[t].view = "dashboard" /\ i = Application(0)
       /\ tab' = [tab EXCEPT ![t].view = "form", ![t].item = i, ![t].seen = Nothing, ![t].ready = {},
            ![t].values = IF i.number = 0 THEN Blank ELSE tab[t].seen[i]]
  /\ fetch' = Unmount(t, fetch)
  /\ UNCHANGED <<token, server>>

\* The whole form is sent, with the inputs that were changed meanwhile, under
\* whatever token is stored now.
handleSubmit(t) ==
  /\ tab[t].view = "form" /\ MayAsk(t, Saves)
  /\ \E values \in Values :
       LET form == [tab[t] EXCEPT !.values = values,
                      !.edited = @ \cup {f \in Fields : values[f] # tab[t].values[f]}]
           op == IF form.item.number = 0 THEN "Create" ELSE "Patch"
       IN /\ tab' = [tab EXCEPT ![t] = form]
          /\ fetch' = Send(fetch, [Request(t, op, "page")
               EXCEPT !.user = form.user, !.number = form.number, !.item = form.item,
                      !.values = values, !.edited = form.edited])
  /\ UNCHANGED <<token, server>>

\* An application leads back to the dashboard, a stage to its application.
Saved(s) ==
  /\ fetch[s].at = "served" /\ fetch[s].ok /\ fetch[s].op \in Saves
  /\ LET t == fetch[s].tab
         F == Unmount(t, [fetch EXCEPT ![s] = Idle])
     IN \/ fetch[s].item.kind = "application" /\ ToDashboard(t, tab[t], F)
        \/ fetch[s].item.kind = "stage" /\ ToApplication(t, tab[t], tab[t].number, F)
  /\ UNCHANGED <<token, server>>

-----------------------------------------------------------------------------
(* The servers. *)

\* Slot s is answered; an answer nobody reads is forgotten.
Answer(s, answer) ==
  fetch' = [fetch EXCEPT ![s] =
    IF @.reader = "nobody" THEN Idle
    ELSE [answer EXCEPT !.at = "served", !.op = fetch[s].op, !.tab = fetch[s].tab,
                        !.reader = fetch[s].reader, !.item = fetch[s].item]]

OK == [Idle EXCEPT !.ok = TRUE]

Accept(s) == Answer(s, OK)

Sent(s, op) == fetch[s].at = "sent" /\ fetch[s].op = op

\* The user the gateway puts in X-User.
Caller(s) == IF fetch[s].token \in live THEN owner[fetch[s].token] ELSE Nobody

Owns(u, n) == n \in DOMAIN applications /\ applications[n].userID = u

\* The application a request for item i of application n is about.
Parent(i, n) ==
  IF i.kind = "application" THEN i.number
  ELSE IF i.number = 0 THEN n ELSE stages[i.number].applicationID

Refuse(s) ==
  /\ Sent(s, "Me")
  /\ Answer(s, Idle)
  /\ UNCHANGED <<browser, server>>

ServeSignIn(s) ==
  /\ Sent(s, "SignIn")
  /\ \E id \in SessionIDs :
       /\ owner[id] = Nobody
       /\ owner' = [owner EXCEPT ![id] = fetch[s].user]
       /\ live' = live \cup {id}
       /\ Answer(s, [OK EXCEPT !.session = id, !.who = fetch[s].user])
  /\ UNCHANGED <<browser, applications, stages, updates>>

ServeMe(s) ==
  /\ Sent(s, "Me") /\ Caller(s) # Nobody
  /\ Answer(s, [OK EXCEPT !.who = Caller(s)])
  /\ UNCHANGED <<browser, server>>

\* DELETE, for which it is no error that the session is over.
ServeSignOut(s) ==
  /\ Sent(s, "SignOut") /\ fetch[s].token # NoToken
  /\ live' = live \ {fetch[s].token}
  /\ Accept(s)
  /\ UNCHANGED <<browser, owner, applications, stages, updates>>

Expire ==
  /\ \E id \in live : live' = live \ {id}
  /\ UNCHANGED <<browser, fetch, owner, applications, stages, updates>>

\* A mutated form: the applications of the caller.
ListFor(s) == Caller(s)

\* The user whose applications are asked for: the userid parameter.
ListedUser(s) == fetch[s].user

ServeList(s) ==
  /\ Sent(s, "List") /\ Caller(s) # Nobody
  /\ LET items == {Application(n) : n \in {m \in DOMAIN applications : Owns(ListedUser(s), m)}}
     IN Answer(s, [OK EXCEPT !.rows = [i \in items |-> applications[i.number].values]])
  /\ UNCHANGED <<browser, server>>

ServeStages(s) ==
  /\ Sent(s, "Stages") /\ Owns(Caller(s), fetch[s].number)
  /\ LET items == {Stage(n) : n \in {m \in DOMAIN stages : stages[m].applicationID = fetch[s].number}}
     IN Answer(s, [OK EXCEPT !.rows = [i \in items |-> stages[i.number].values]])
  /\ UNCHANGED <<browser, server>>

Insert(table, row) ==
  LET new == Cardinality(DOMAIN table) + 1 IN
    [n \in DOMAIN table \cup {new} |-> IF n = new THEN row ELSE table[n]]

\* An application is created for the user of the tab, by the caller.
ServeCreate(s) ==
  /\ Sent(s, "Create") /\ Caller(s) # Nobody
  /\ \/ /\ fetch[s].item.kind = "application"
        /\ Cardinality(DOMAIN applications) < MaxRows
        /\ applications' = Insert(applications,
             [userID |-> fetch[s].user, author |-> Caller(s), values |-> fetch[s].values])
        /\ UNCHANGED stages
     \/ /\ fetch[s].item.kind = "stage"
        /\ Cardinality(DOMAIN stages) < MaxRows
        /\ Owns(Caller(s), fetch[s].number)
        /\ stages' = Insert(stages,
             [applicationID |-> fetch[s].number, author |-> Caller(s), values |-> fetch[s].values])
        /\ UNCHANGED applications
  /\ Accept(s)
  /\ UNCHANGED <<browser, owner, live, updates>>

\* A mutated form: everybody with a session may edit.
MayEditAlways(s) == Caller(s) # Nobody

MayEdit(s) == Owns(Caller(s), Parent(fetch[s].item, fetch[s].number))

\* A stage is written before the answer, an application after it.
ServePatch(s) ==
  /\ Sent(s, "Patch") /\ MayEdit(s)
  /\ LET n == fetch[s].item.number IN
       \/ /\ fetch[s].item.kind = "application"
          /\ updates' = updates \cup {[number |-> n, user |-> Caller(s),
               values |-> fetch[s].values, edited |-> fetch[s].edited]}
          /\ UNCHANGED stages
       \/ /\ fetch[s].item.kind = "stage"
          /\ stages' = [stages EXCEPT ![n].author = Caller(s), ![n].values = fetch[s].values]
          /\ UNCHANGED updates
  /\ Accept(s)
  /\ UNCHANGED <<browser, owner, live, applications>>

\* The UPDATE runs, or fails unnoticed.
Update ==
  \E u \in updates :
    /\ updates' = updates \ {u}
    /\ \/ applications' = [applications EXCEPT ![u.number].author = u.user,
                                               ![u.number].values = u.values]
       \/ UNCHANGED applications
    /\ UNCHANGED <<browser, fetch, owner, live, stages>>

-----------------------------------------------------------------------------
Click(t) ==
  \/ Load(t) \/ SubmitForm(t) \/ ClickSignOut(t)
  \/ Back(t) \/ OpenApplication(t) \/ OpenForm(t)
  \/ handleSubmit(t)

Receive(s) ==
  \/ SignedIn(s) \/ SetUser(s) \/ NotVerified(s) \/ SignOutAnswered(s)
  \/ NoEffect(s) \/ Loaded(s) \/ Saved(s)

Serve(s) ==
  \/ Refuse(s) \/ ServeSignIn(s) \/ ServeMe(s) \/ ServeSignOut(s)
  \/ ServeList(s) \/ ServeStages(s) \/ ServeCreate(s) \/ ServePatch(s)

Next ==
  \/ \E t \in Tabs : Click(t)
  \/ \E s \in Slots : Receive(s) \/ Serve(s)
  \/ Expire \/ Update

Spec == Init /\ [][Next]_vars

-----------------------------------------------------------------------------
(* Properties. *)

Shown == UNION {[I -> Values] : I \in SUBSET Items}   \* what a page holds of rows

TabStates ==
  [view : {"public", "dashboard", "application", "form"},
   page : {"signIn", "signedInMain"}, authToken : SessionIDs \cup {NoToken},
   user : Users \cup {Nobody}, number : 0..MaxRows,
   ready : SUBSET {"List", "Stages"}, seen : Shown, item : Items, values : Values,
   edited : SUBSET Fields]

Exists(i) ==
  i.number \in DOMAIN (IF i.kind = "application" THEN applications ELSE stages)

\* A tab shows a user's pages while it has a user, and the router takes it away
\* from them otherwise (App.js:153-171); what it shows and every save under way
\* are about rows that exist.
TypeOK ==
  /\ token \in SessionIDs \cup {NoToken}
  /\ tab \in [Tabs -> TabStates]
  /\ \A t \in Tabs :
       /\ tab[t].user # Nobody <=> tab[t].view \in {"dashboard", "application", "form"}
       /\ \A i \in DOMAIN tab[t].seen : Exists(i)
  /\ \A s \in Slots : fetch[s].op = "Patch" => Exists(fetch[s].item)
  /\ live \subseteq {s \in SessionIDs : owner[s] # Nobody}
  /\ \A u \in updates : u.number \in DOMAIN applications

\* The user a tab shows is the one of the token it was given, and a tab without
\* one shows nobody: no answer that comes late puts another user there, whatever
\* other tabs sign in and out (App.js:32, 88, SignIn.js:71-76).  Only while
\* Repeated does not have Sessions: the second of two sign-outs, answered late,
\* takes the token of the sign-in between them, and the bodies of two sign-ins
\* may come in another order than their headers.
TabsShowTheirSession ==
  \A t \in Tabs :
    tab[t].user # Nobody =>
      tab[t].authToken # NoToken /\ owner[tab[t].authToken] = tab[t].user

\* The applications a tab shows are its user's, also when another tab has put
\* the token of another user into localStorage (DashboardPage.js:15-26).
PagesShowTheUsersRows ==
  \A t \in Tabs : \A i \in DOMAIN tab[t].seen :
      Owns(tab[t].user, IF i.kind = "application" THEN i.number
                        ELSE stages[i.number].applicationID)

Rows == INSTANCE Tracker WITH
  applications <- [n \in DOMAIN applications |->
     [userID |-> applications[n].userID, author |-> applications[n].author]],
  stages <- [n \in DOMAIN stages |->
     [applicationID |-> stages[n].applicationID, author |-> stages[n].author]],
  usedApplications <- DOMAIN applications,
  usedStages <- DOMAIN stages

\* With tabs that keep forms while the token changes hands and sessions end,
\* every change of a row is still one of Tracker's: by a user who owns it at that
\* moment (AddEditApplicationPage.js:43, applications.ts:65).
RowsChangeAsInTracker == [][Rows!Next]_Rows!vars

\* "change this field" (AddEditApplicationPage.js:32), "a status field that can be
\* updated by the user" (README.md:57): an edit changes the fields the user
\* changed.  Does not hold: the whole form is saved as it was read.
EditsChangeTheirFields ==
  [][\A n \in DOMAIN applications :
       LET changed == {f \in Fields : applications'[n].values[f] # applications[n].values[f]}
       IN changed # {} => \E u \in updates \ updates' : changed \subseteq u.edited]_vars
=============================================================================
