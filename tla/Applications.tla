---------------------------- MODULE Applications ----------------------------
(***************************************************************************)
(* The applications service: an Express server over a Postgres database.   *)
(*                                                                         *)
(* A request runs through a chain of middleware and a handler.  Each of    *)
(* them does at most one query, and `await' gives the other requests the   *)
(* turn while the query runs.  So the unit of interleaving is one query    *)
(* with the code up to the next one, and that is one action here: GetUser, *)
(* GetApplication or GetStage with IsCreator, and then the handler.        *)
(*                                                                         *)
(* A row keeps its key, its parent and `by', the request whose inputs it   *)
(* holds: the columns themselves are never compared by the code.           *)
(***************************************************************************)
EXTENDS Naturals

CONSTANTS
  Requests,    \* the HTTP requests of a behaviour, each sent at most once
  Callers,     \* ids the X-User header may carry
  Users,       \* ids with a row in the users table (a session outlives it)
  Numbers,     \* numbers a URL carries: the path's id, or the userid query
  Operations,  \* the method and route pairs the clients use
  Seed         \* the author of the rows schema.sql inserts

ApplicationRoutes == {"GetApplication", "PatchApplication",
                      "DeleteApplication", "ListStages", "CreateStage"}
StageRoutes       == {"GetStage", "PatchStage", "DeleteStage"}
CollectionRoutes  == {"ListApplications", "CreateApplication"}
Routes            == ApplicationRoutes \cup StageRoutes \cup CollectionRoutes

NoID == 0      \* parseInt of a missing parameter, an X-User without an id

ASSUME ConstantsAssumption ==
  /\ Callers \subseteq Nat \ {NoID}
  /\ Users \subseteq Callers
  /\ Numbers \subseteq Nat
  /\ Operations \subseteq Routes
  /\ Seed \notin Requests

VARIABLES
  applications,       \* id -> [userID, by]
  stages,             \* id -> [applicationID, by]
  nextApplicationID,  \* the two serial sequences
  nextStageID,
  request,            \* how far each request has come, and its answer
  pending             \* PatchApplication requests whose UPDATE still runs

vars == <<applications, stages, nextApplicationID, nextStageID, request,
          pending>>

data == <<applications, stages, nextApplicationID, nextStageID>>

Authors == Requests \cup {Seed}

\* The places of the middleware chain; `row' is the id of the row the answer
\* carries, NoID when its body holds none.
RequestStates ==
  [at     : {"new", "GetUser", "GetApplication", "GetStage", "handler",
             "done"},
   op     : Operations \cup {"none"},
   user   : Callers \cup {NoID},
   number : Numbers \cup {NoID},
   status : {0, 200, 201, 400, 401, 403, 500},
   row    : Nat]

Unsent == [at |-> "new", op |-> "none", user |-> NoID, number |-> NoID,
           status |-> 0, row |-> NoID]

Init ==
  /\ applications = [a \in {1} |-> [userID |-> 1, by |-> Seed]]
  /\ stages = [s \in {1} |-> [applicationID |-> 1, by |-> Seed]]
  /\ nextApplicationID = 2
  /\ nextStageID = 2
  /\ request = [r \in Requests |-> Unsent]
  /\ pending = {}

-----------------------------------------------------------------------------
(* The request pipeline. *)

Goto(r, place) == request' = [request EXCEPT ![r].at = place]

Reply(r, status, row) ==
  request' = [request EXCEPT ![r].at = "done",
                             ![r].status = status,
                             ![r].row = row]

Handling(r, op) == request[r].at = "handler" /\ request[r].op = op

\* A client's request reaches the router; the gateway wrote its X-User header.
Arrive(r) ==
  /\ request[r].at = "new"
  /\ \E op \in Operations, user \in Callers \cup {NoID}, n \in Numbers :
       request' = [request EXCEPT ![r] = [Unsent EXCEPT !.at = "GetUser",
                                                        !.op = op,
                                                        !.user = user,
                                                        !.number = n]]
  /\ UNCHANGED <<data, pending>>

\* The middleware app.use() mounts on the path of a route.
AfterGetUser(op) ==
  CASE op \in ApplicationRoutes -> "GetApplication"
    [] op \in StageRoutes       -> "GetStage"
    [] OTHER                    -> "handler"

\* GetUser looks the caller up: a request without a header is answered 401,
\* one without an id, or whose id has no row, 400.
GetUser(r) ==
  /\ request[r].at = "GetUser"
  /\ \/ /\ request[r].user = NoID
        /\ \E status \in {400, 401} : Reply(r, status, NoID)
     \/ /\ request[r].user \in Callers \ Users
        /\ Reply(r, 400, NoID)
     \/ /\ request[r].user \in Users
        /\ Goto(r, AfterGetUser(request[r].op))
  /\ UNCHANGED <<data, pending>>

\* A mutated form: IsCreator forgets the comparison.
IsCreatorOfNothing(r, creatorID) == Goto(r, "handler")

\* A mutated form: IsCreator returns on a mismatch without calling next.
IsCreatorWithoutNext(r, creatorID) ==
  IF creatorID # request[r].user THEN Goto(r, "done")
  ELSE Goto(r, "handler")

\* IsCreator lets the request through only if it comes from the creator.
IsCreator(r, creatorID) ==
  IF creatorID = NoID THEN Reply(r, 500, NoID)
  ELSE IF creatorID # request[r].user THEN Reply(r, 403, NoID)
  ELSE Goto(r, "handler")

\* db.GetApplication, for the creator: the userID of the row read.
ApplicationOwner(a) == applications[a].userID

CheckApplication(r) ==
  /\ request[r].at = "GetApplication"
  /\ IF request[r].number \in DOMAIN applications
     THEN IsCreator(r, ApplicationOwner(request[r].number))
     ELSE Reply(r, 400, NoID)
  /\ UNCHANGED <<data, pending>>

\* db.GetStage joins the stage with its application, for the owner.
StageOwner(s) == applications[stages[s].applicationID].userID

\* A mutated form: the join with applications is on the stage's own number.
CheckStageOfSameNumber(r) ==
  /\ request[r].at = "GetStage"
  /\ IF request[r].number \in DOMAIN stages \cap DOMAIN applications
     THEN IsCreator(r, applications[request[r].number].userID)
     ELSE Reply(r, 400, NoID)
  /\ UNCHANGED <<data, pending>>

CheckStage(r) ==
  /\ request[r].at = "GetStage"
  /\ IF request[r].number \in DOMAIN stages
     THEN IsCreator(r, StageOwner(request[r].number))
     ELSE Reply(r, 400, NoID)
  /\ UNCHANGED <<data, pending>>

\* The handlers that read the userid query parameter answer 500 without it.
MissingUserID(r) ==
  /\ request[r].at = "handler"
  /\ request[r].op \in CollectionRoutes
  /\ request[r].number = NoID
  /\ Reply(r, 500, NoID)
  /\ UNCHANGED <<data, pending>>

\* A mutated form: the handlers do not look at the userid they parsed.
RunningUnguarded(r, op) == request[r].at = "handler" /\ request[r].op = op

\* The handler's own guard is behind r.
Running(r, op) ==
  /\ request[r].at = "handler"
  /\ request[r].op = op
  /\ op \in CollectionRoutes => request[r].number # NoID

\* A mutated form: PATCH starts the UPDATE and then validates its inputs.
RejectApplicationInputsLate(r) ==
  /\ Running(r, "PatchApplication")
  /\ pending' = pending \cup {r}
  /\ Reply(r, 400, NoID)
  /\ UNCHANGED data

\* ToApplicationInputs throws, before the query.
RejectApplicationInputs(r) ==
  /\ Running(r, "CreateApplication") \/ Running(r, "PatchApplication")
  /\ Reply(r, 400, NoID)
  /\ UNCHANGED <<data, pending>>

\* So does ToStageInputs.
RejectStageInputs(r) ==
  /\ Running(r, "CreateStage") \/ Running(r, "PatchStage")
  /\ Reply(r, 400, NoID)
  /\ UNCHANGED <<data, pending>>

RejectInputs(r) == RejectApplicationInputs(r) \/ RejectStageInputs(r)

\* The steps that wait for a query.  The application's own GET and PATCH do
\* not, and a stage's GET has none left.
AwaitsQuery(r) ==
  \/ request[r].at \in {"GetApplication", "GetStage"}
  \/ request[r].at = "GetUser" /\ request[r].user # NoID
  \/ \E op \in Routes \ {"GetApplication", "PatchApplication", "GetStage"} :
       Running(r, op)

\* A query fails and the awaiting code passes the error on: 500.  The row of
\* a failed INSERT may have taken its number from the sequence already.
QueryFails(r) ==
  /\ AwaitsQuery(r)
  /\ Reply(r, 500, NoID)
  /\ \/ UNCHANGED <<nextApplicationID, nextStageID>>
     \/ /\ Running(r, "CreateApplication")
        /\ nextApplicationID' = nextApplicationID + 1
        /\ UNCHANGED nextStageID
     \/ /\ Running(r, "CreateStage")
        /\ nextStageID' = nextStageID + 1
        /\ UNCHANGED nextApplicationID
  /\ UNCHANGED <<applications, stages, pending>>

\* The answer to a write that took effect: the connection may break after
\* the commit, and then the code reports 500.
AnswerWrite(r, status, row) ==
  \/ Reply(r, status, row)
  \/ Reply(r, 500, NoID)

-----------------------------------------------------------------------------
(* ApplicationsHandler and SpecificApplicationHandler. *)

ListApplications(r) ==
  /\ Running(r, "ListApplications")
  /\ Reply(r, 200, NoID)
  /\ UNCHANGED <<data, pending>>

InsertApplication(userID, r) ==
  /\ applications' =
       [a \in DOMAIN applications \cup {nextApplicationID} |->
          IF a = nextApplicationID THEN [userID |-> userID, by |-> r]
                                   ELSE applications[a]]
  /\ nextApplicationID' = nextApplicationID + 1

\* The owner is the userid parameter, whoever the caller is.
CreateApplication(r) ==
  /\ Running(r, "CreateApplication")
  /\ InsertApplication(request[r].number, r)
  /\ AnswerWrite(r, 201, nextApplicationID)
  /\ UNCHANGED <<stages, nextStageID, pending>>

\* db.GetApplication is not awaited: the body is a promise, printed as {}.
GetApplication(r) ==
  /\ Running(r, "GetApplication")
  /\ Reply(r, 200, NoID)
  /\ UNCHANGED <<data, pending>>

\* A mutated form: the check of the path's owner is lost on the way.
PatchApplicationOfNobody(r) ==
  /\ request[r].at \in {"GetApplication", "handler"}
  /\ request[r].op = "PatchApplication"
  /\ Reply(r, 200, NoID)
  /\ pending' = pending \cup {r}
  /\ UNCHANGED data

\* db.UpdateApplication is not awaited either: 200 before the UPDATE runs.
PatchApplication(r) ==
  /\ Running(r, "PatchApplication")
  /\ Reply(r, 200, NoID)
  /\ pending' = pending \cup {r}
  /\ UNCHANGED data

\* A mutated form: the inputs of a PATCH may name another owner.
UpdateApplicationAndOwner(id, r) ==
  \E u \in Users :
    applications' = [a \in DOMAIN applications |->
                       IF a = id THEN [userID |-> u, by |-> r]
                                 ELSE applications[a]]

UpdateApplication(id, r) ==
  applications' = [a \in DOMAIN applications |->
                     IF a = id THEN [applications[a] EXCEPT !.by = r]
                               ELSE applications[a]]

\* The un-awaited UPDATE ends.  Its failure is an unhandled rejection that
\* the uncaughtException listener logs.
SettleUpdate(r) ==
  /\ r \in pending
  /\ pending' = pending \ {r}
  /\ UpdateApplication(request[r].number, r) \/ UNCHANGED applications
  /\ UNCHANGED <<stages, nextApplicationID, nextStageID, request>>

\* A mutated form: the number of deleted rows is not looked at.
RemoveStageUnchecked(r) ==
  /\ stages' = [s \in DOMAIN stages \ {request[r].number} |-> stages[s]]
  /\ AnswerWrite(r, 200, NoID)
  /\ UNCHANGED <<applications, nextApplicationID, nextStageID, pending>>

\* db.DeleteStage(id), the query of both DELETE routes: no row, 500.
RemoveStage(r) ==
  /\ stages' = [s \in DOMAIN stages \ {request[r].number} |-> stages[s]]
  /\ IF request[r].number \in DOMAIN stages
     THEN AnswerWrite(r, 200, NoID)
     ELSE Reply(r, 500, NoID)
  /\ UNCHANGED <<applications, nextApplicationID, nextStageID, pending>>

\* The handler hands the application's id to db.DeleteStage.
DeleteApplication(r) == Running(r, "DeleteApplication") /\ RemoveStage(r)

-----------------------------------------------------------------------------
(* StagesHandler and SpecificStageHandler. *)

ListStages(r) ==
  /\ Running(r, "ListStages")
  /\ Reply(r, 200, NoID)
  /\ UNCHANGED <<data, pending>>

\* A mutated form: a stage takes the lowest number no row has.
CreateStageReusingNumbers(r) ==
  /\ Running(r, "CreateStage")
  /\ \E n \in 1..nextStageID :
       /\ n \notin DOMAIN stages
       /\ \A m \in 1..(n - 1) : m \in DOMAIN stages
       /\ stages' = [s \in DOMAIN stages \cup {n} |->
                       IF s = n
                       THEN [applicationID |-> request[r].number, by |-> r]
                       ELSE stages[s]]
       /\ nextStageID' = IF n = nextStageID THEN n + 1 ELSE nextStageID
       /\ AnswerWrite(r, 201, n)
  /\ UNCHANGED <<applications, nextApplicationID, pending>>

\* The foreign key refuses a stage of an application that does not exist; the
\* sequence has moved on by then.
InsertStage(applicationID, r) ==
  /\ nextStageID' = nextStageID + 1
  /\ stages' =
       IF applicationID \in DOMAIN applications
       THEN [s \in DOMAIN stages \cup {nextStageID} |->
               IF s = nextStageID
               THEN [applicationID |-> applicationID, by |-> r]
               ELSE stages[s]]
       ELSE stages

CreateStage(r) ==
  /\ Running(r, "CreateStage")
  /\ InsertStage(request[r].number, r)
  /\ IF request[r].number \in DOMAIN applications
     THEN AnswerWrite(r, 201, nextStageID)
     ELSE Reply(r, 500, NoID)
  /\ UNCHANGED <<applications, nextApplicationID, pending>>

\* The row is the one the GetStage middleware read.
GetStage(r) ==
  /\ Running(r, "GetStage")
  /\ Reply(r, 200, request[r].number)
  /\ UNCHANGED <<data, pending>>

\* A mutated form: the UPDATE is not awaited, and may fail after the answer.
PatchStageUnawaited(r) ==
  /\ Running(r, "PatchStage")
  /\ Reply(r, 200, request[r].number)
  /\ UNCHANGED <<data, pending>>

UpdateStage(id, r) ==
  stages' = [s \in DOMAIN stages |->
               IF s = id THEN [stages[s] EXCEPT !.by = r] ELSE stages[s]]

\* An UPDATE of a row that is gone answers 200 too, without a body.
PatchStage(r) ==
  /\ Running(r, "PatchStage")
  /\ UpdateStage(request[r].number, r)
  /\ AnswerWrite(r, 200, IF request[r].number \in DOMAIN stages
                         THEN request[r].number ELSE NoID)
  /\ UNCHANGED <<applications, nextApplicationID, nextStageID, pending>>

DeleteStage(r) == Running(r, "DeleteStage") /\ RemoveStage(r)

-----------------------------------------------------------------------------
Middleware(r) ==
  GetUser(r) \/ CheckApplication(r) \/ CheckStage(r) \/ QueryFails(r)

Handler(r) ==
  \/ MissingUserID(r) \/ RejectInputs(r)
  \/ ListApplications(r) \/ CreateApplication(r)
  \/ GetApplication(r) \/ PatchApplication(r) \/ DeleteApplication(r)
  \/ ListStages(r) \/ CreateStage(r)
  \/ GetStage(r) \/ PatchStage(r) \/ DeleteStage(r)

Serve(r) == Middleware(r) \/ Handler(r)

\* Every request is answered and no query runs.
Quiet ==
  /\ \A r \in Requests : request[r].at = "done"
  /\ pending = {}
  /\ UNCHANGED vars

Next ==
  \/ \E r \in Requests : Arrive(r) \/ Serve(r) \/ SettleUpdate(r)
  \/ Quiet

\* Every query that was sent ends, with a result or an error, and the event
\* loop then runs the code that waits for it.  No client has to send anything.
Fairness == \A r \in Requests : WF_vars(Serve(r)) /\ WF_vars(SettleUpdate(r))

Spec     == Init /\ [][Next]_vars
FairSpec == Spec /\ Fairness

-----------------------------------------------------------------------------
(* Properties. *)

\* Every variable has its type; a row's number has left the sequence, and the
\* foreign key of every stage holds (schema.sql).
TypeOK ==
  /\ nextApplicationID \in Nat \ {0}
  /\ nextStageID \in Nat \ {0}
  /\ DOMAIN applications \subseteq 1..(nextApplicationID - 1)
  /\ DOMAIN stages \subseteq 1..(nextStageID - 1)
  /\ applications \in
       [DOMAIN applications -> [userID : Nat \ {NoID}, by : Authors]]
  /\ stages \in
       [DOMAIN stages -> [applicationID : DOMAIN applications, by : Authors]]
  /\ request \in [Requests -> RequestStates]
  /\ pending \subseteq Requests

Did(r, op, status) ==
  request[r].at = "done" /\ request[r].op = op /\ request[r].status = status

Deleted(r) == Did(r, "DeleteStage", 200) \/ Did(r, "DeleteApplication", 200)

\* The user whose inputs a row holds; user 1 owns what schema.sql inserts.
AuthorOf(by) == IF by = Seed THEN 1 ELSE request[by].user

\* A request that passed IsCreator still belongs to the owner of what it
\* names when its handler runs, queries later: what the middleware read is
\* not stale in a way that matters.
ChecksStillHold ==
  \A r \in Requests :
    request[r].at = "handler" =>
      /\ request[r].op \in ApplicationRoutes =>
           /\ request[r].number \in DOMAIN applications
           /\ applications[request[r].number].userID = request[r].user
      /\ /\ request[r].op \in StageRoutes
         /\ request[r].number \in DOMAIN stages
         => StageOwner(request[r].number) = request[r].user

\* A stage holds inputs of the owner of its application only; so does an
\* application, except that its first row is written by whoever created it.
RowsWrittenByOwner ==
  /\ \A s \in DOMAIN stages : AuthorOf(stages[s].by) = StageOwner(s)
  /\ \A a \in DOMAIN applications :
       \/ AuthorOf(applications[a].by) = applications[a].userID
       \/ /\ applications[a].by \in Requests
          /\ request[applications[a].by].op = "CreateApplication"

\* A request answered 400, 401 or 403 has written no row and has no UPDATE
\* under way.
RefusedRequestsWriteNothing ==
  \A r \in Requests :
    request[r].status \in {400, 401, 403} =>
      /\ r \notin pending
      /\ \A a \in DOMAIN applications : applications[a].by # r
      /\ \A s \in DOMAIN stages : stages[s].by # r

\* Of the requests that delete one number at most one is answered 200,
\* however they interleave and whatever is created in between.
DeletedOnce ==
  \A r, q \in Requests :
    /\ r # q
    /\ Deleted(r)
    /\ Deleted(q)
    => request[r].number # request[q].number

\* The number a 201 returned is no other creation's, and for as long as it
\* has a row that row has the parent the creator asked for; an application is
\* never lost.
CreationsKept ==
  \A r \in Requests :
    /\ Did(r, "CreateApplication", 201) =>
         /\ request[r].row \in DOMAIN applications
         /\ applications[request[r].row].userID = request[r].number
         /\ \A q \in Requests \ {r} :
              Did(q, "CreateApplication", 201) =>
                request[q].row # request[r].row
    /\ Did(r, "CreateStage", 201) =>
         /\ request[r].row \in DOMAIN stages =>
              stages[request[r].row].applicationID = request[r].number
         /\ \A q \in Requests \ {r} :
              Did(q, "CreateStage", 201) => request[q].row # request[r].row

\* After a stage's PATCH is answered 200 its row, if it is still there, holds
\* that PATCH's inputs or those of another PATCH: an acknowledged update is
\* not undone by what was written before it.
AcknowledgedStagePatchLands ==
  \A r \in Requests :
    Did(r, "PatchStage", 200) /\ request[r].number \in DOMAIN stages =>
      \E q \in Requests : /\ stages[request[r].number].by = q
                          /\ request[q].op = "PatchStage"

\* Whatever query fails and whatever the other requests do, a request that
\* has arrived is answered, and the UPDATE it may have left behind ends.
EveryRequestSettles ==
  \A r \in Requests :
    request[r].at # "new" ~> request[r].status # 0 /\ r \notin pending

TrackedApplications ==
  [a \in DOMAIN applications |-> [userID |-> applications[a].userID,
                                  author |-> AuthorOf(applications[a].by)]]

TrackedStages ==
  [s \in DOMAIN stages |-> [applicationID |-> stages[s].applicationID,
                            author |-> AuthorOf(stages[s].by)]]

TableOf == INSTANCE Tracker WITH
             applications     <- TrackedApplications,
             stages           <- TrackedStages,
             usedApplications <- 1..(nextApplicationID - 1),
             usedStages       <- 1..(nextStageID - 1)

\* The tables change as Tracker says: one row at a time, by a user who may
\* change it at the moment of the write and not only at that of the check.
ImplementsTracker == TableOf!Spec

-----------------------------------------------------------------------------
(* What makes the properties above inductive. *)

\* A request goes through the check of its own route only.
RoutesFollowed ==
  \A r \in Requests :
    /\ request[r].at = "GetApplication" => request[r].op \in ApplicationRoutes
    /\ request[r].at = "GetStage" => request[r].op \in StageRoutes

\* The author of a row is the seed or a request that is answered.
AuthorsAnswered ==
  /\ \A a \in DOMAIN applications :
       applications[a].by # Seed => request[applications[a].by].at = "done"
  /\ \A s \in DOMAIN stages :
       stages[s].by # Seed => request[stages[s].by].at = "done"

\* An UPDATE that still runs belongs to the owner of its application.
UpdatesAuthorised ==
  \A r \in pending :
    /\ Did(r, "PatchApplication", 200)
    /\ request[r].number \in DOMAIN applications
    /\ applications[request[r].number].userID = request[r].user

\* The numbers requests have seen in a table, or were given, lie behind the
\* sequence: no later row takes them.
NumbersSpent ==
  \A r \in Requests :
    /\ request[r].at = "handler" /\ request[r].op \in StageRoutes =>
         request[r].number < nextStageID
    /\ Did(r, "PatchStage", 200) => request[r].number < nextStageID
    /\ Deleted(r) => /\ request[r].number < nextStageID
                     /\ request[r].number \notin DOMAIN stages
    /\ Did(r, "CreateApplication", 201) =>
         request[r].row < nextApplicationID
    /\ Did(r, "CreateStage", 201) => request[r].row < nextStageID

IInv ==
  /\ TypeOK
  /\ RoutesFollowed
  /\ AuthorsAnswered
  /\ UpdatesAuthorised
  /\ NumbersSpent
  /\ ChecksStillHold
  /\ RowsWrittenByOwner
  /\ RefusedRequestsWriteNothing
  /\ CreationsKept
  /\ AcknowledgedStagePatchLands

-----------------------------------------------------------------------------
(* What the documentation says and the code does not do. *)

\* README.md: DELETE /v1/applications/{ApplicationID} deletes an application
\* with 200; store.ts says with its stages.
DeletedApplicationIsGone ==
  \A r \in Requests :
    Did(r, "DeleteApplication", 200) =>
      request[r].number \notin DOMAIN applications
=============================================================================
