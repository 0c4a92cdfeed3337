------------------------- MODULE ApplicationsProofs -------------------------
(***************************************************************************)
(* Proofs about Applications, for any set of requests, callers, numbers    *)
(* and operations.                                                         *)
(***************************************************************************)
EXTENDS Applications, TLAPS

(* Typing *)

USE DEF NoID, ApplicationOwner, RejectInputs, RejectApplicationInputs,
        RejectStageInputs, InsertApplication, UpdateApplication, InsertStage,
        UpdateStage

Statuses      == {0, 200, 201, 400, 401, 403, 500}
Places        == {"new", "GetUser", "GetApplication", "GetStage", "handler", "done"}
Ops           == Operations \cup {"none"}
People        == Callers \cup {NoID}
NumbersOrNone == Numbers \cup {NoID}

LEMMA Fields ==
  RequestStates = [at : Places, op : Ops, user : People, number : NumbersOrNone,
                   status : Statuses, row : Nat]
BY DEF RequestStates, Places, Ops, People, NumbersOrNone, Statuses

LEMMA UnsentTyped == Unsent \in RequestStates
BY DEF Unsent, RequestStates

\* The initial rows of schema.sql have their types.
LEMMA InitTyped == Init => TypeOK
<1> SUFFICES ASSUME Init PROVE TypeOK
  OBVIOUS
<1>1. Seed \in Authors
  BY DEF Authors
<1>3. applications \in [{1} -> [userID : Nat \ {NoID}, by : Authors]]
  BY <1>1 DEF Init
<1>4. stages \in [{1} -> [applicationID : {1}, by : Authors]]
  BY <1>1 DEF Init
<1> QED
  BY <1>3, <1>4, UnsentTyped DEF Init, TypeOK

\* A step that does nothing to a request but answer it, or send it on to the
\* next place of the chain, keeps the requests typed.
LEMMA ReplyTyped ==
  ASSUME request \in [Requests -> RequestStates],
         NEW r \in Requests, NEW status \in Statuses, NEW row \in Nat,
         Reply(r, status, row)
  PROVE  request' \in [Requests -> RequestStates]
<1> DEFINE arrived  == [request[r] EXCEPT !.at = "done"]
           judged   == [arrived EXCEPT !.status = status]
           answered == [judged EXCEPT !.row = row]
<1>1. request[r] \in RequestStates
  OBVIOUS
<1>2. arrived \in RequestStates
  BY <1>1 DEF RequestStates
<1>3. judged \in RequestStates
  <2> HIDE DEF arrived
  <2> QED
    BY <1>2 DEF RequestStates, Statuses
<1>4. answered \in RequestStates
  <2> HIDE DEF judged
  <2> QED
    BY <1>3 DEF RequestStates
<1>5. request' = [request EXCEPT ![r] = answered]
  BY DEF Reply
<1> QED
  BY <1>4, <1>5

LEMMA GotoTyped ==
  ASSUME request \in [Requests -> RequestStates],
         NEW r \in Requests,
         NEW place \in {"new", "GetUser", "GetApplication", "GetStage",
                        "handler", "done"},
         Goto(r, place)
  PROVE  request' \in [Requests -> RequestStates]
BY DEF Goto, RequestStates

LEMMA StepTyped == TypeOK /\ [Next]_vars => TypeOK'
<1> SUFFICES ASSUME TypeOK, [Next]_vars PROVE TypeOK'
  OBVIOUS
<1> USE DEF TypeOK
<1>a. ASSUME NEW r \in Requests, UNCHANGED <<data, pending>>,
             request' \in [Requests -> RequestStates]
      PROVE  TypeOK'
  BY <1>a DEF data
<1>1. ASSUME NEW r \in Requests, Arrive(r) PROVE TypeOK'
  <2>1. request' \in [Requests -> RequestStates]
    <3>1. PICK op \in Operations, user \in Callers \cup {NoID}, n \in Numbers :
            request' = [request EXCEPT ![r] = [Unsent EXCEPT !.at = "GetUser",
                                                             !.op = op,
                                                             !.user = user,
                                                             !.number = n]]
      BY <1>1 DEF Arrive
    <3>2. [Unsent EXCEPT !.at = "GetUser", !.op = op, !.user = user,
                         !.number = n] \in RequestStates
      BY Fields, UnsentTyped DEF Places, Ops, People, NumbersOrNone
    <3> QED
      BY <3>1, <3>2
  <2> QED
    BY <1>1, <1>a, <2>1 DEF Arrive
<1>2. ASSUME NEW r \in Requests, GetUser(r) PROVE TypeOK'
  <2>1. AfterGetUser(request[r].op) \in
          {"GetApplication", "GetStage", "handler"}
    BY DEF AfterGetUser
  <2>2. request' \in [Requests -> RequestStates]
    BY <1>2, <2>1, ReplyTyped, GotoTyped DEF GetUser, Statuses
  <2> QED
    BY <1>2, <1>a, <2>2 DEF GetUser
<1>b. ASSUME NEW r \in Requests, NEW creatorID, IsCreator(r, creatorID)
      PROVE  request' \in [Requests -> RequestStates]
  BY <1>b, ReplyTyped, GotoTyped DEF IsCreator, Statuses
<1>3. ASSUME NEW r \in Requests, CheckApplication(r) PROVE TypeOK'
  <2>1. request' \in [Requests -> RequestStates]
    BY <1>3, <1>b, ReplyTyped DEF CheckApplication, Statuses
  <2> QED
    BY <1>3, <1>a, <2>1 DEF CheckApplication
<1>4. ASSUME NEW r \in Requests, CheckStage(r) PROVE TypeOK'
  <2>1. request' \in [Requests -> RequestStates]
    BY <1>4, <1>b, ReplyTyped DEF CheckStage, Statuses
  <2> QED
    BY <1>4, <1>a, <2>1 DEF CheckStage
<1>5. ASSUME NEW r \in Requests, QueryFails(r) PROVE TypeOK'
  <2>1. request' \in [Requests -> RequestStates]
    BY <1>5, ReplyTyped DEF QueryFails, Statuses
  <2>2. /\ nextApplicationID' \in {nextApplicationID, nextApplicationID + 1}
        /\ nextStageID' \in {nextStageID, nextStageID + 1}
        /\ UNCHANGED <<applications, stages, pending>>
    BY <1>5 DEF QueryFails
  <2>3. /\ DOMAIN applications \subseteq 1..(nextApplicationID' - 1)
        /\ DOMAIN stages \subseteq 1..(nextStageID' - 1)
    BY <2>2
  <2>4. nextApplicationID' \in Nat \ {0} /\ nextStageID' \in Nat \ {0}
    BY <2>2
  <2> QED
    BY <2>1, <2>2, <2>3, <2>4
<1>6. ASSUME NEW r \in Requests,
             \/ MissingUserID(r) \/ RejectInputs(r) \/ ListApplications(r)
             \/ GetApplication(r) \/ ListStages(r) \/ GetStage(r)
      PROVE  TypeOK'
  <2>1. request[r].number \in Nat
    BY ConstantsAssumption DEF RequestStates
  <2>2. request' \in [Requests -> RequestStates]
    BY <1>6, <2>1, ReplyTyped
    DEF MissingUserID, RejectInputs, ListApplications, GetApplication,
        ListStages, GetStage, Statuses
  <2> QED
    BY <1>6, <1>a, <2>2
    DEF MissingUserID, RejectInputs, ListApplications, GetApplication,
        ListStages, GetStage
<1>c. ASSUME NEW r \in Requests, NEW status \in Statuses, NEW row \in Nat,
             AnswerWrite(r, status, row)
      PROVE  request' \in [Requests -> RequestStates]
  BY <1>c, ReplyTyped DEF AnswerWrite, Statuses
<1>7. ASSUME NEW r \in Requests, CreateApplication(r) PROVE TypeOK'
  <2> DEFINE n == nextApplicationID
  <2>1. request' \in [Requests -> RequestStates]
    BY <1>7, <1>c DEF CreateApplication, Statuses
  <2>2. request[r].number \in Nat \ {NoID}
    BY <1>7, ConstantsAssumption
    DEF CreateApplication, Running, CollectionRoutes, RequestStates
  <2>3. DOMAIN applications' = DOMAIN applications \cup {n}
    BY <1>7 DEF CreateApplication
  <2>4. applications' \in
          [DOMAIN applications' -> [userID : Nat \ {NoID}, by : Authors]]
    BY <1>7, <2>2, <2>3 DEF CreateApplication, Authors
  <2>5. stages \in [DOMAIN stages ->
                      [applicationID : DOMAIN applications', by : Authors]]
    BY <2>3
  <2>6. DOMAIN applications' \subseteq 1..(nextApplicationID' - 1)
    BY <1>7, <2>3 DEF CreateApplication, Init
  <2> QED
    BY <1>7, <2>1, <2>4, <2>5, <2>6 DEF CreateApplication
<1>8. ASSUME NEW r \in Requests, PatchApplication(r) PROVE TypeOK'
  <2>1. request' \in [Requests -> RequestStates]
    BY <1>8, ReplyTyped DEF PatchApplication, Statuses
  <2> QED
    BY <1>8, <2>1 DEF PatchApplication, data
<1>9. ASSUME NEW r \in Requests, SettleUpdate(r) PROVE TypeOK'
  <2>1. r \in Authors
    BY DEF Authors
  <2>2. /\ DOMAIN applications' = DOMAIN applications
        /\ applications' \in
             [DOMAIN applications -> [userID : Nat \ {NoID}, by : Authors]]
    BY <1>9, <2>1 DEF SettleUpdate
  <2> QED
    BY <1>9, <2>2 DEF SettleUpdate
<1>10. ASSUME NEW r \in Requests, DeleteApplication(r) \/ DeleteStage(r)
       PROVE  TypeOK'
  <2>1. RemoveStage(r)
    BY <1>10 DEF DeleteApplication, DeleteStage
  <2>2. request' \in [Requests -> RequestStates]
    BY <2>1, <1>c, ReplyTyped DEF RemoveStage, Statuses
  <2>3. /\ DOMAIN stages' \subseteq DOMAIN stages
        /\ stages' \in [DOMAIN stages' ->
                          [applicationID : DOMAIN applications, by : Authors]]
    BY <2>1 DEF RemoveStage
  <2> QED
    BY <2>1, <2>2, <2>3 DEF RemoveStage
<1>11. ASSUME NEW r \in Requests, CreateStage(r) PROVE TypeOK'
  <2>1. CASE request[r].number \in DOMAIN applications
    <3>1. request' \in [Requests -> RequestStates]
      BY <1>11, <2>1, <1>c DEF CreateStage, Statuses
    <3>2. DOMAIN stages' = DOMAIN stages \cup {nextStageID}
      BY <1>11, <2>1 DEF CreateStage
    <3>3. stages' \in [DOMAIN stages' ->
                         [applicationID : DOMAIN applications, by : Authors]]
      BY <1>11, <2>1, <3>2 DEF CreateStage, Authors
    <3>4. DOMAIN stages' \subseteq 1..(nextStageID' - 1)
      BY <1>11, <3>2 DEF CreateStage
    <3> QED
      BY <1>11, <3>1, <3>3, <3>4 DEF CreateStage
  <2>2. CASE request[r].number \notin DOMAIN applications
    <3>1. request' \in [Requests -> RequestStates]
      BY <1>11, <2>2, ReplyTyped DEF CreateStage, Statuses
    <3>2. DOMAIN stages \subseteq 1..(nextStageID' - 1)
      BY <1>11 DEF CreateStage
    <3> QED
      BY <1>11, <2>2, <3>1, <3>2 DEF CreateStage
  <2> QED
    BY <2>1, <2>2
<1>12. ASSUME NEW r \in Requests, PatchStage(r) PROVE TypeOK'
  <2>1. request' \in [Requests -> RequestStates]
    <3>1. request[r].number \in Nat
      BY ConstantsAssumption DEF RequestStates
    <3> QED
      BY <1>12, <3>1, <1>c DEF PatchStage, Statuses
  <2>2. r \in Authors
    BY DEF Authors
  <2>3. /\ DOMAIN stages' = DOMAIN stages
        /\ stages' \in [DOMAIN stages ->
                          [applicationID : DOMAIN applications, by : Authors]]
    BY <1>12, <2>2 DEF PatchStage
  <2> QED
    BY <1>12, <2>1, <2>3 DEF PatchStage
<1>13. CASE UNCHANGED vars
  BY <1>13 DEF vars
<1> QED
  BY <1>1, <1>2, <1>3, <1>4, <1>5, <1>6, <1>7, <1>8, <1>9, <1>10, <1>11,
     <1>12, <1>13
  DEF Next, Serve, Middleware, Handler, Quiet

\* Every variable keeps its type, every row's number has left its sequence
\* and every stage belongs to an application that exists.
THEOREM Typing == Spec => []TypeOK
BY InitTyped, StepTyped, PTL DEF Spec

-----------------------------------------------------------------------------
(* The shapes of a step of the server. *)

Reads == {"ListApplications", "GetApplication", "ListStages", "GetStage"}

\* The tables stay as they are; a failed INSERT may have spent a number.
TablesSame ==
  /\ UNCHANGED <<applications, stages, pending>>
  /\ nextApplicationID' \in {nextApplicationID, nextApplicationID + 1}
  /\ nextStageID' \in {nextStageID, nextStageID + 1}
  /\ UNCHANGED nextApplicationID \/ UNCHANGED nextStageID

\* r is answered without a write: an error, or what a read found.
Answered(r) ==
  \E status \in Statuses \ {0, 201}, row \in Nat :
    /\ Reply(r, status, row)
    /\ status = 200 => request[r].op \in Reads

\* r comes through the middleware to the next place of its chain.
Advanced(r) ==
  \/ request[r].at = "GetUser" /\ Goto(r, AfterGetUser(request[r].op))
  \/ /\ request[r].at = "GetApplication"
     /\ request[r].number \in DOMAIN applications
     /\ applications[request[r].number].userID = request[r].user
     /\ Goto(r, "handler")
  \/ /\ request[r].at = "GetStage"
     /\ request[r].number \in DOMAIN stages
     /\ StageOwner(request[r].number) = request[r].user
     /\ Goto(r, "handler")

Writes(r) ==
  \/ CreateApplication(r) \/ PatchApplication(r) \/ DeleteApplication(r)
  \/ CreateStage(r) \/ PatchStage(r) \/ DeleteStage(r)

\* Every step of the middleware or a handler is one of these.
LEMMA ServeShapes ==
  ASSUME TypeOK, NEW r \in Requests, Serve(r)
  PROVE  (TablesSame /\ (Answered(r) \/ Advanced(r))) \/ Writes(r)
<1> USE DEF TypeOK
<1>0. UNCHANGED <<data, pending>> => TablesSame
  BY DEF data, TablesSame
<1>a. ASSUME NEW status \in {400, 401, 403, 500}, NEW row \in Nat,
             Reply(r, status, row)
      PROVE  Answered(r)
  BY <1>a DEF Answered, Statuses
<1>1. CASE GetUser(r)
  <2>1. Answered(r) \/ Advanced(r)
    BY <1>1, <1>a DEF GetUser, Advanced
  <2> QED
    BY <1>1, <1>0, <2>1 DEF GetUser
<1>2. CASE CheckApplication(r)
  <2>1. Answered(r) \/ Advanced(r)
    BY <1>2, <1>a DEF CheckApplication, IsCreator, Advanced
  <2> QED
    BY <1>2, <1>0, <2>1 DEF CheckApplication
<1>3. CASE CheckStage(r)
  <2>1. Answered(r) \/ Advanced(r)
    BY <1>3, <1>a DEF CheckStage, IsCreator, Advanced
  <2> QED
    BY <1>3, <1>0, <2>1 DEF CheckStage
<1>4. CASE QueryFails(r)
  <2>1. TablesSame
    BY <1>4 DEF QueryFails, TablesSame
  <2> QED
    BY <1>4, <1>a, <2>1 DEF QueryFails
<1>5. CASE MissingUserID(r) \/ RejectInputs(r)
  BY <1>5, <1>0, <1>a DEF MissingUserID, RejectInputs
<1>6. CASE ListApplications(r) \/ GetApplication(r) \/ ListStages(r)
           \/ GetStage(r)
  <2>1. request[r].number \in Nat
    BY ConstantsAssumption DEF RequestStates
  <2>2. PICK row \in Nat : Reply(r, 200, row)
    BY <1>6, <2>1
    DEF ListApplications, GetApplication, ListStages, GetStage
  <2>3. request[r].op \in Reads
    BY <1>6 DEF ListApplications, GetApplication, ListStages, GetStage,
                Running, Reads
  <2>4. Answered(r)
    BY <2>2, <2>3 DEF Answered, Statuses
  <2>5. UNCHANGED <<data, pending>>
    BY <1>6 DEF ListApplications, GetApplication, ListStages, GetStage
  <2> QED
    BY <1>0, <2>4, <2>5
<1> QED
  BY <1>1, <1>2, <1>3, <1>4, <1>5, <1>6
  DEF Serve, Middleware, Handler, Writes

\* What a request asks for never changes once it is served, and no step of
\* one request is seen in another.
LEMMA ServeFrame ==
  ASSUME TypeOK, NEW r \in Requests, Serve(r)
  PROVE  /\ request[r].at \notin {"new", "done"}
         /\ request[r].op \in Operations \cup {"none"}
         /\ \A q \in Requests :
              /\ request'[q].op = request[q].op
              /\ request'[q].user = request[q].user
              /\ request'[q].number = request[q].number
              /\ q # r => request'[q] = request[q]
<1> USE DEF TypeOK
<1>1. request[r].at \notin {"new", "done"}
  BY DEF Serve, Middleware, Handler, GetUser, CheckApplication, CheckStage,
         QueryFails, AwaitsQuery, MissingUserID, RejectInputs, Running,
         ListApplications, CreateApplication, GetApplication,
         PatchApplication, DeleteApplication, ListStages, CreateStage,
         GetStage, PatchStage, DeleteStage
<1>2. \/ \E place : Goto(r, place)
      \/ \E status, row : Reply(r, status, row)
  <2>1. CASE Answered(r) \/ Advanced(r)
    BY <2>1 DEF Answered, Advanced
  <2>2. CASE Writes(r)
    BY <2>2 DEF Writes, CreateApplication, PatchApplication,
                DeleteApplication, CreateStage, PatchStage, DeleteStage,
                RemoveStage, AnswerWrite
  <2> QED
    BY <2>1, <2>2, ServeShapes
<1>3. request[r].op \in Operations \cup {"none"}
  BY DEF RequestStates
<1>4. ASSUME NEW place, Goto(r, place), NEW q \in Requests
      PROVE  /\ request'[q].op = request[q].op
             /\ request'[q].user = request[q].user
             /\ request'[q].number = request[q].number
             /\ q # r => request'[q] = request[q]
  BY <1>4 DEF Goto, RequestStates
<1>5. ASSUME NEW status, NEW row, Reply(r, status, row), NEW q \in Requests
      PROVE  /\ request'[q].op = request[q].op
             /\ request'[q].user = request[q].user
             /\ request'[q].number = request[q].number
             /\ q # r => request'[q] = request[q]
  BY <1>5 DEF Reply, RequestStates
<1> QED
  BY <1>1, <1>2, <1>3, <1>4, <1>5

LEMMA AnsweredFacts ==
  ASSUME TypeOK, NEW r \in Requests, Answered(r)
  PROVE  /\ request'[r].at = "done"
         /\ request'[r].status # 201
         /\ request'[r].status = 200 => request[r].op \in Reads
BY DEF TypeOK, Answered, Reply, RequestStates

LEMMA AdvancedFacts ==
  ASSUME TypeOK, NEW r \in Requests, Advanced(r)
  PROVE  /\ request'[r].at \in {"GetApplication", "GetStage", "handler"}
         /\ request'[r].status = request[r].status
         /\ request'[r].row = request[r].row
<1>1. AfterGetUser(request[r].op) \in {"GetApplication", "GetStage", "handler"}
  BY DEF AfterGetUser
<1> QED
  BY <1>1 DEF TypeOK, Advanced, Goto, RequestStates

LEMMA ArriveFacts ==
  ASSUME TypeOK, NEW r \in Requests, Arrive(r)
  PROVE  /\ request[r].at = "new"
         /\ UNCHANGED <<applications, stages, nextApplicationID, nextStageID,
                        pending>>
         /\ request'[r].at = "GetUser"
         /\ request'[r].status = 0
         /\ \A q \in Requests \ {r} : request'[q] = request[q]
BY DEF TypeOK, Arrive, Unsent, data

LEMMA SettleFacts ==
  ASSUME TypeOK, NEW r \in Requests, SettleUpdate(r)
  PROVE  /\ r \in pending
         /\ pending' = pending \ {r}
         /\ UNCHANGED <<stages, nextApplicationID, nextStageID, request>>
         /\ DOMAIN applications' = DOMAIN applications
         /\ \A a \in DOMAIN applications :
              /\ applications'[a].userID = applications[a].userID
              /\ \/ applications'[a].by = applications[a].by
                 \/ /\ a = request[r].number
                    /\ applications'[a].by = r
<1>1. \A a \in DOMAIN applications :
        applications[a] \in [userID : Nat \ {NoID}, by : Authors]
  BY DEF TypeOK
<1>2. CASE UNCHANGED applications
  BY <1>2 DEF SettleUpdate
<1>3. CASE applications' = [a \in DOMAIN applications |->
             IF a = request[r].number
             THEN [applications[a] EXCEPT !.by = r]
             ELSE applications[a]]
  BY <1>1, <1>3 DEF SettleUpdate
<1> QED
  BY <1>2, <1>3 DEF SettleUpdate

\* What each of the writes does, apart from the sequences.
LEMMA WriteAnswers ==
  ASSUME TypeOK, NEW r \in Requests, Writes(r)
  PROVE  /\ request[r].at = "handler"
         /\ request'[r].at = "done"
         /\ request'[r].status \in {200, 201, 500}
<1>1. /\ request \in [Requests -> RequestStates]
      /\ request[r].at = "handler"
  BY DEF TypeOK, Writes, CreateApplication, PatchApplication, DeleteApplication,
         CreateStage, PatchStage, DeleteStage, RemoveStage, Running
<1>2. ASSUME NEW status, NEW row, Reply(r, status, row)
      PROVE  request'[r].at = "done" /\ request'[r].status = status
  BY <1>1, <1>2 DEF Reply, RequestStates
<1>3. ASSUME NEW status, NEW row, AnswerWrite(r, status, row), status \in {200, 201, 500}
      PROVE  request'[r].at = "done" /\ request'[r].status \in {200, 201, 500}
  BY <1>2, <1>3 DEF AnswerWrite
<1>a. RemoveStage(r) => request'[r].at = "done" /\ request'[r].status \in {200, 201, 500}
  BY <1>2, <1>3 DEF RemoveStage
<1>4. CASE CreateApplication(r)
  BY <1>1, <1>3, <1>4 DEF CreateApplication
<1>5. CASE PatchApplication(r)
  BY <1>1, <1>2, <1>5 DEF PatchApplication
<1>6. CASE DeleteApplication(r)
  BY <1>1, <1>a, <1>6 DEF DeleteApplication
<1>7. CASE CreateStage(r)
  BY <1>1, <1>2, <1>3, <1>7 DEF CreateStage
<1>8. CASE PatchStage(r)
  BY <1>1, <1>3, <1>8 DEF PatchStage
<1>9. CASE DeleteStage(r)
  BY <1>1, <1>a, <1>9 DEF DeleteStage
<1> QED
  BY <1>4, <1>5, <1>6, <1>7, <1>8, <1>9 DEF Writes

\* The requests' own places.
LEMMA RoutesStep == IInv /\ [Next]_vars => RoutesFollowed'
<1> SUFFICES ASSUME IInv, [Next]_vars PROVE RoutesFollowed'
  OBVIOUS
<1> USE DEF IInv, RoutesFollowed
<1>1. ASSUME NEW r \in Requests, Arrive(r) PROVE RoutesFollowed'
  BY <1>1, ArriveFacts
<1>2. ASSUME NEW r \in Requests, Serve(r) PROVE RoutesFollowed'
  <2>1. /\ request'[r].op = request[r].op
        /\ \A q \in Requests \ {r} : request'[q] = request[q]
    BY <1>2, ServeFrame
  <2>2. CASE Answered(r) \/ Writes(r)
    BY <2>1, <2>2, AnsweredFacts, WriteAnswers
  <2>3. CASE Advanced(r)
    BY <2>1, <2>3
    DEF Advanced, Goto, AfterGetUser, TypeOK, RequestStates
  <2> QED
    BY <1>2, <2>2, <2>3, ServeShapes
<1>3. ASSUME NEW r \in Requests, SettleUpdate(r) PROVE RoutesFollowed'
  BY <1>3, SettleFacts
<1>4. CASE UNCHANGED vars
  BY <1>4 DEF vars
<1> QED
  BY <1>1, <1>2, <1>3, <1>4 DEF Next, Quiet

\* Rows are written by a request in the step that answers it, or by an UPDATE
\* that was left running by a request answered before.
LEMMA AuthorsStep == IInv /\ [Next]_vars => AuthorsAnswered'
<1> SUFFICES ASSUME IInv, [Next]_vars PROVE AuthorsAnswered'
  OBVIOUS
<1> USE DEF IInv, AuthorsAnswered
<1>a. /\ \A a \in DOMAIN applications : applications[a].by \in Authors
      /\ \A s \in DOMAIN stages : stages[s].by \in Authors
      /\ \A a \in DOMAIN applications :
           applications[a] \in [userID : Nat \ {NoID}, by : Authors]
      /\ \A s \in DOMAIN stages :
           stages[s] \in [applicationID : DOMAIN applications, by : Authors]
  BY DEF TypeOK
<1>1. ASSUME NEW r \in Requests, Arrive(r) PROVE AuthorsAnswered'
  BY <1>1, <1>a, ArriveFacts DEF Authors
<1>2. ASSUME NEW r \in Requests, Serve(r) PROVE AuthorsAnswered'
  <2>1. /\ request[r].at # "done"
        /\ \A q \in Requests \ {r} : request'[q] = request[q]
    BY <1>2, ServeFrame
  <2>2. CASE TablesSame
    BY <2>1, <2>2, <1>a DEF TablesSame, Authors
  <2>3. CASE Writes(r)
    <3>0. request'[r].at = "done"
      BY <2>3, WriteAnswers
    <3>1. CASE CreateApplication(r)
      BY <3>0, <3>1, <2>1, <1>a DEF CreateApplication, Authors
    <3>2. CASE PatchApplication(r)
      BY <3>0, <3>2, <2>1, <1>a DEF PatchApplication, data, Authors
    <3>3. CASE DeleteApplication(r) \/ DeleteStage(r)
      BY <3>0, <3>3, <2>1, <1>a
      DEF DeleteApplication, DeleteStage, RemoveStage, Authors
    <3>4. CASE CreateStage(r)
      BY <3>0, <3>4, <2>1, <1>a DEF CreateStage, Authors
    <3>5. CASE PatchStage(r)
      BY <3>0, <3>5, <2>1, <1>a DEF PatchStage, Authors
    <3> QED
      BY <2>3, <3>1, <3>2, <3>3, <3>4, <3>5 DEF Writes
  <2> QED
    BY <1>2, <2>2, <2>3, ServeShapes
<1>3. ASSUME NEW r \in Requests, SettleUpdate(r) PROVE AuthorsAnswered'
  <2>1. request[r].at = "done"
    BY <1>3, SettleFacts DEF UpdatesAuthorised, Did
  <2> QED
    BY <1>3, <2>1, SettleFacts
<1>4. CASE UNCHANGED vars
  BY <1>4 DEF vars
<1> QED
  BY <1>1, <1>2, <1>3, <1>4 DEF Next, Quiet

\* An owner never changes and an application never vanishes, so what is
\* known of an application stays known.
LEMMA ApplicationsStay ==
  ASSUME IInv, [Next]_vars
  PROVE  \A a \in DOMAIN applications :
           /\ a \in DOMAIN applications'
           /\ applications'[a].userID = applications[a].userID
<1> USE DEF IInv
<1>1. ASSUME NEW r \in Requests, Arrive(r)
      PROVE  UNCHANGED applications
  BY <1>1, ArriveFacts
<1>2. ASSUME NEW r \in Requests, Serve(r)
      PROVE  CreateApplication(r) \/ UNCHANGED applications
  BY <1>2, ServeShapes
  DEF TablesSame, Writes, PatchApplication, DeleteApplication, CreateStage,
      PatchStage, DeleteStage, RemoveStage, data
<1>3. ASSUME NEW r \in Requests, CreateApplication(r), NEW a \in DOMAIN applications
      PROVE  a \in DOMAIN applications' /\ applications'[a] = applications[a]
  BY <1>3 DEF CreateApplication, TypeOK
<1>4. ASSUME NEW r \in Requests, SettleUpdate(r), NEW a \in DOMAIN applications
      PROVE  /\ a \in DOMAIN applications'
             /\ applications'[a].userID = applications[a].userID
  BY <1>4, SettleFacts
<1> QED
  BY <1>1, <1>2, <1>3, <1>4 DEF Next, Quiet, vars

\* Nor does a stage ever get another parent.
LEMMA StagesStay ==
  ASSUME IInv, [Next]_vars
  PROVE  /\ nextStageID' >= nextStageID
         /\ nextApplicationID' >= nextApplicationID
         /\ \A s \in DOMAIN stages' :
              \/ /\ s \in DOMAIN stages
                 /\ stages'[s].applicationID = stages[s].applicationID
              \/ s >= nextStageID
<1> USE DEF IInv
<1>0. /\ \A s \in DOMAIN stages :
           stages[s] \in [applicationID : DOMAIN applications, by : Authors]
      /\ nextStageID \in Nat
      /\ nextApplicationID \in Nat
  BY DEF TypeOK
<1>1. ASSUME NEW r \in Requests, Arrive(r)
      PROVE  UNCHANGED <<stages, nextStageID, nextApplicationID>>
  BY <1>1, ArriveFacts
<1>2. ASSUME NEW r \in Requests, SettleUpdate(r)
      PROVE  UNCHANGED <<stages, nextStageID, nextApplicationID>>
  BY <1>2, SettleFacts
<1>3. ASSUME NEW r \in Requests, TablesSame
      PROVE  /\ UNCHANGED stages
             /\ nextStageID' >= nextStageID
             /\ nextApplicationID' >= nextApplicationID
  BY <1>3, <1>0 DEF TablesSame
<1>4. ASSUME NEW r \in Requests, Writes(r)
      PROVE  /\ nextStageID' >= nextStageID
             /\ nextApplicationID' >= nextApplicationID
             /\ \A s \in DOMAIN stages' :
                  \/ /\ s \in DOMAIN stages
                     /\ stages'[s].applicationID = stages[s].applicationID
                  \/ s >= nextStageID
  <2>1. CASE CreateApplication(r) \/ PatchApplication(r)
    BY <1>0, <2>1 DEF CreateApplication, PatchApplication, data
  <2>2. CASE DeleteApplication(r) \/ DeleteStage(r)
    BY <1>0, <2>2 DEF DeleteApplication, DeleteStage, RemoveStage
  <2>3. CASE CreateStage(r)
    BY <1>0, <2>3 DEF CreateStage
  <2>4. CASE PatchStage(r)
    BY <1>0, <2>4 DEF PatchStage
  <2> QED
    BY <1>4, <2>1, <2>2, <2>3, <2>4 DEF Writes
<1>5. CASE UNCHANGED vars
  BY <1>0, <1>5 DEF vars
<1> QED
  <2>1. ASSUME UNCHANGED stages
        PROVE  \A s \in DOMAIN stages' :
                 /\ s \in DOMAIN stages
                 /\ stages'[s].applicationID = stages[s].applicationID
    BY <2>1
  <2> QED
    BY <2>1, <1>0, <1>1, <1>2, <1>3, <1>4, <1>5, ServeShapes
    DEF Next, Quiet

LEMMA UpdatesStep == IInv /\ [Next]_vars => UpdatesAuthorised'
<1> SUFFICES ASSUME IInv, [Next]_vars PROVE UpdatesAuthorised'
  OBVIOUS
<1> USE DEF IInv, UpdatesAuthorised
<1>0. /\ pending \subseteq Requests
      /\ \A p \in pending : request[p].at = "done"
  BY DEF TypeOK, Did
<1>a. ASSUME NEW p \in pending, request'[p] = request[p]
      PROVE  /\ Did(p, "PatchApplication", 200)'
             /\ request'[p].number \in DOMAIN applications'
             /\ applications'[request'[p].number].userID = request'[p].user
  BY <1>a, ApplicationsStay DEF Did
<1>1. ASSUME NEW r \in Requests, Arrive(r) PROVE UpdatesAuthorised'
  BY <1>0, <1>1, <1>a, ArriveFacts
<1>2. ASSUME NEW r \in Requests, Serve(r) PROVE UpdatesAuthorised'
  <2>1. \A p \in pending : request'[p] = request[p]
    BY <1>0, <1>2, ServeFrame
  <2>2. CASE PatchApplication(r)
    <3>1. pending' = pending \cup {r}
      BY <2>2 DEF PatchApplication
    <3>2. /\ Did(r, "PatchApplication", 200)'
          /\ request'[r].number = request[r].number
          /\ request'[r].user = request[r].user
      BY <2>2 DEF PatchApplication, Reply, Running, Did, TypeOK,
                  RequestStates
    <3>3. /\ request[r].number \in DOMAIN applications
          /\ applications[request[r].number].userID = request[r].user
      BY <2>2 DEF PatchApplication, Running, ChecksStillHold,
                  ApplicationRoutes
    <3>4. /\ request'[r].number \in DOMAIN applications'
          /\ applications'[request'[r].number].userID = request'[r].user
      BY <3>2, <3>3, ApplicationsStay
    <3> QED
      BY <2>1, <3>1, <3>2, <3>4, <1>a
  <2>3. CASE ~PatchApplication(r)
    <3>1. pending' = pending
      BY <1>2, <2>3, ServeShapes
      DEF TablesSame, Writes, CreateApplication, DeleteApplication,
          CreateStage, PatchStage, DeleteStage, RemoveStage
    <3> QED
      BY <2>1, <3>1, <1>a
  <2> QED
    BY <2>2, <2>3
<1>3. ASSUME NEW r \in Requests, SettleUpdate(r) PROVE UpdatesAuthorised'
  BY <1>0, <1>3, <1>a, SettleFacts
<1>4. CASE UNCHANGED vars
  BY <1>4, <1>a DEF vars
<1> QED
  BY <1>1, <1>2, <1>3, <1>4 DEF Next, Quiet

\* The heart of it: what IsCreator saw stays true until the handler runs.
LEMMA ChecksStep == IInv /\ [Next]_vars => ChecksStillHold'
<1> SUFFICES ASSUME IInv, [Next]_vars,
                    NEW q \in Requests, request'[q].at = "handler"
             PROVE  /\ request'[q].op \in ApplicationRoutes =>
                         /\ request'[q].number \in DOMAIN applications'
                         /\ applications'[request'[q].number].userID =
                              request'[q].user
                    /\ /\ request'[q].op \in StageRoutes
                       /\ request'[q].number \in DOMAIN stages'
                       => applications'[stages'[request'[q].number].applicationID].userID
                            = request'[q].user
  BY DEF ChecksStillHold, StageOwner
<1> USE DEF IInv
<1> DEFINE n == request[q].number
           u == request[q].user
           Allowed ==
             /\ request[q].op \in ApplicationRoutes =>
                  n \in DOMAIN applications /\ applications[n].userID = u
             /\ request[q].op \in StageRoutes =>
                  /\ n < nextStageID
                  /\ n \in DOMAIN stages => StageOwner(n) = u
\* What was allowed before the step is allowed after it.
<1>1. ASSUME Allowed,
             /\ request'[q].op = request[q].op
             /\ request'[q].number = n
             /\ request'[q].user = u
      PROVE  /\ request'[q].op \in ApplicationRoutes =>
                  /\ n \in DOMAIN applications'
                  /\ applications'[n].userID = u
             /\ /\ request'[q].op \in StageRoutes
                /\ n \in DOMAIN stages'
                => applications'[stages'[n].applicationID].userID = u
  <2>1. ASSUME request[q].op \in StageRoutes, n \in DOMAIN stages'
        PROVE  applications'[stages'[n].applicationID].userID = u
    <3>1. /\ n \in DOMAIN stages
          /\ stages'[n].applicationID = stages[n].applicationID
      <4>1. n < nextStageID /\ n \in Nat /\ nextStageID \in Nat
        BY <1>1, <2>1, ConstantsAssumption DEF TypeOK, RequestStates
      <4> QED
        BY <2>1, <4>1, StagesStay
    <3>2. stages[n].applicationID \in DOMAIN applications
      BY <3>1 DEF TypeOK
    <3> QED
      BY <1>1, <2>1, <3>1, <3>2, ApplicationsStay DEF StageOwner
  <2> QED
    BY <1>1, <2>1, ApplicationsStay
<1>2. CASE request'[q] = request[q]
  <2>1. Allowed
    BY <1>2 DEF ChecksStillHold, NumbersSpent
  <2> HIDE DEF Allowed
  <2> QED
    BY <1>1, <1>2, <2>1
<1>3. CASE request'[q] # request[q]
  <2>1. Serve(q) /\ Advanced(q)
    <3>1. ~ \E r \in Requests : Arrive(r) /\ request'[r].at = "handler"
      BY ArriveFacts
    <3>2. PICK r \in Requests : Serve(r)
      BY <1>3, <3>1, ArriveFacts, SettleFacts DEF Next, Quiet, vars
    <3>3. r = q
      BY <1>3, <3>2, ServeFrame
    <3> QED
      BY <3>2, <3>3, ServeShapes, AnsweredFacts, WriteAnswers
  <2>2. /\ request'[q].op = request[q].op
        /\ request'[q].number = n
        /\ request'[q].user = u
    BY <2>1, ServeFrame
  <2>3. Allowed
    <3>1. CASE request[q].at = "GetUser"
      <4>1. request'[q].at = AfterGetUser(request[q].op)
        BY <2>1, <3>1 DEF Advanced, Goto, TypeOK, RequestStates
      <4>2. request[q].op \notin ApplicationRoutes \cup StageRoutes
        BY <4>1 DEF AfterGetUser, ApplicationRoutes, StageRoutes
      <4> QED
        BY <4>2
    <3>2. CASE request[q].at = "GetApplication"
      <4>1. request[q].op \in ApplicationRoutes
        BY <3>2 DEF RoutesFollowed
      <4> QED
        BY <2>1, <3>2, <4>1 DEF Advanced, ApplicationRoutes, StageRoutes
    <3>3. CASE request[q].at = "GetStage"
      <4>1. request[q].op \in StageRoutes
        BY <3>3 DEF RoutesFollowed
      <4>2. n \in DOMAIN stages /\ StageOwner(n) = u
        BY <2>1, <3>3 DEF Advanced
      <4>3. n < nextStageID
        BY <4>2 DEF TypeOK
      <4> QED
        BY <4>1, <4>2, <4>3 DEF ApplicationRoutes, StageRoutes
    <3> QED
      BY <2>1, <3>1, <3>2, <3>3 DEF Advanced
  <2> HIDE DEF Allowed
  <2> QED
    BY <1>1, <2>2, <2>3
<1> QED
  BY <1>2, <1>3

\* What a step of r leaves of another request, answered or not: everything.
LEMMA OthersStay ==
  ASSUME IInv, [Next]_vars, NEW q \in Requests, request'[q] # request[q]
  PROVE  \/ Arrive(q)
         \/ Serve(q) /\ TablesSame /\ Answered(q)
         \/ Serve(q) /\ TablesSame /\ Advanced(q)
         \/ Serve(q) /\ Writes(q)
<1> USE DEF IInv
<1>1. CASE \E r \in Requests : Arrive(r)
  BY <1>1, ArriveFacts
<1>2. CASE \E r \in Requests : Serve(r)
  BY <1>2, ServeFrame, ServeShapes
<1>3. CASE \E r \in Requests : SettleUpdate(r)
  BY <1>3, SettleFacts
<1>4. CASE UNCHANGED vars
  BY <1>4 DEF vars
<1> QED
  BY <1>1, <1>2, <1>3, <1>4 DEF Next, Quiet

LEMMA NumbersStep == IInv /\ [Next]_vars => NumbersSpent'
<1> SUFFICES ASSUME IInv, [Next]_vars, NEW q \in Requests
    PROVE  /\ request'[q].at = "handler" /\ request'[q].op \in StageRoutes =>
                request'[q].number < nextStageID'
           /\ Did(q, "PatchStage", 200)' => request'[q].number < nextStageID'
           /\ Deleted(q)' => /\ request'[q].number < nextStageID'
                             /\ request'[q].number \notin DOMAIN stages'
           /\ Did(q, "CreateApplication", 201)' =>
                request'[q].row < nextApplicationID'
           /\ Did(q, "CreateStage", 201)' => request'[q].row < nextStageID'
  BY DEF NumbersSpent
<1> USE DEF IInv
<1>0. /\ nextStageID \in Nat /\ nextApplicationID \in Nat
      /\ request[q].number \in Nat /\ request[q].row \in Nat
      /\ nextStageID' >= nextStageID
      /\ nextApplicationID' >= nextApplicationID
      /\ nextStageID' \in Nat /\ nextApplicationID' \in Nat
  BY StagesStay, StepTyped, ConstantsAssumption DEF TypeOK, RequestStates
<1>1. CASE request'[q] = request[q]
  <2>1. Deleted(q) => request[q].number \notin DOMAIN stages'
    BY <1>0, StagesStay DEF NumbersSpent
  <2> QED
    BY <1>0, <1>1, <2>1 DEF NumbersSpent, Did, Deleted
<1>2. CASE Arrive(q)
  BY <1>2, ArriveFacts DEF Did, Deleted
<1>3. ASSUME Serve(q), TablesSame, Answered(q)
      PROVE  /\ request'[q].at = "done"
             /\ request'[q].status = 201 => FALSE
             /\ request'[q].status = 200 => request'[q].op \in Reads
  BY <1>3, AnsweredFacts, ServeFrame
<1>4. ASSUME Serve(q), TablesSame, Advanced(q),
             request'[q].at = "handler", request'[q].op \in StageRoutes
      PROVE  request'[q].number < nextStageID'
  <2>1. /\ request'[q].op = request[q].op
        /\ request'[q].number = request[q].number
    BY <1>4, ServeFrame
  <2>2. request[q].at # "GetUser"
    BY <1>4, <2>1
    DEF Advanced, Goto, AfterGetUser, TypeOK, RequestStates, StageRoutes,
        ApplicationRoutes
  <2>3. request[q].at # "GetApplication"
    BY <1>4, <2>1 DEF RoutesFollowed, StageRoutes, ApplicationRoutes
  <2>4. request[q].number \in DOMAIN stages
    BY <1>4, <2>2, <2>3 DEF Advanced
  <2> QED
    BY <1>0, <2>1, <2>4 DEF TypeOK
<1>5. ASSUME Serve(q), Writes(q)
      PROVE  /\ Did(q, "PatchStage", 200)' =>
                  request'[q].number < nextStageID'
             /\ Deleted(q)' => /\ request'[q].number < nextStageID'
                               /\ request'[q].number \notin DOMAIN stages'
             /\ Did(q, "CreateApplication", 201)' =>
                  request'[q].row < nextApplicationID'
             /\ Did(q, "CreateStage", 201)' => request'[q].row < nextStageID'
  <2>1. /\ request'[q].op = request[q].op
        /\ request'[q].number = request[q].number
    BY <1>5, ServeFrame
  <2>2. CASE CreateApplication(q)
    <3>1. request[q].op = "CreateApplication"
      BY <2>2 DEF CreateApplication, Running
    <3>2. request'[q].status = 201 => request'[q].row = nextApplicationID
      BY <2>2 DEF CreateApplication, AnswerWrite, Reply, TypeOK,
                  RequestStates
    <3>3. nextApplicationID' = nextApplicationID + 1
      BY <2>2 DEF CreateApplication
    <3> QED
      BY <1>0, <2>1, <3>1, <3>2, <3>3 DEF Did, Deleted
  <2>3. CASE PatchApplication(q)
    <3>1. request[q].op = "PatchApplication"
      BY <2>3 DEF PatchApplication, Running
    <3> QED
      BY <2>1, <3>1 DEF Did, Deleted
  <2>4. CASE DeleteApplication(q) \/ DeleteStage(q)
    <3>1. request[q].op \in {"DeleteApplication", "DeleteStage"}
      BY <2>4 DEF DeleteApplication, DeleteStage, Running
    <3>2. request[q].number \notin DOMAIN stages'
      BY <2>4 DEF DeleteApplication, DeleteStage, RemoveStage
    <3>3. request'[q].status = 200 => request[q].number \in DOMAIN stages
      BY <2>4 DEF DeleteApplication, DeleteStage, RemoveStage, Reply, TypeOK,
                  RequestStates
    <3>4. request'[q].status = 200 => request[q].number < nextStageID
      BY <1>0, <3>3 DEF TypeOK
    <3> QED
      BY <1>0, <2>1, <3>1, <3>2, <3>4 DEF Did, Deleted
  <2>5. CASE CreateStage(q)
    <3>1. request[q].op = "CreateStage"
      BY <2>5 DEF CreateStage, Running
    <3>2. request'[q].status = 201 => request'[q].row = nextStageID
      BY <2>5 DEF CreateStage, AnswerWrite, Reply, TypeOK, RequestStates
    <3>3. nextStageID' = nextStageID + 1
      BY <2>5 DEF CreateStage
    <3> QED
      BY <1>0, <2>1, <3>1, <3>2, <3>3 DEF Did, Deleted
  <2>6. CASE PatchStage(q)
    <3>1. request[q].op = "PatchStage" /\ request[q].at = "handler"
      BY <2>6 DEF PatchStage, Running
    <3>2. request[q].number < nextStageID
      BY <3>1 DEF NumbersSpent, StageRoutes
    <3> QED
      BY <1>0, <2>1, <3>1, <3>2 DEF Did, Deleted
  <2> QED
    BY <1>5, <2>2, <2>3, <2>4, <2>5, <2>6 DEF Writes
<1>6. CASE Serve(q) /\ TablesSame /\ Answered(q)
  BY <1>3, <1>6 DEF Did, Deleted, Reads
<1>7. CASE Serve(q) /\ TablesSame /\ Advanced(q)
  <2>1. request'[q].at # "done"
    BY <1>7, AdvancedFacts
  <2> QED
    BY <1>4, <1>7, <2>1 DEF Did, Deleted
<1>8. CASE Serve(q) /\ Writes(q)
  <2>1. request'[q].at # "handler"
    BY <1>8, WriteAnswers
  <2> QED
    BY <1>5, <1>8, <2>1
<1> QED
  BY <1>1, <1>2, <1>6, <1>7, <1>8, OthersStay

LEMMA RowsStep == IInv /\ [Next]_vars => RowsWrittenByOwner'
<1> SUFFICES ASSUME IInv, [Next]_vars PROVE RowsWrittenByOwner'
  OBVIOUS
<1> USE DEF IInv
<1> DEFINE Author(by) == IF by = Seed THEN 1 ELSE request'[by].user
           StageFine(s) ==
             Author(stages'[s].by) =
               applications'[stages'[s].applicationID].userID
           ApplicationFine(a) ==
             \/ Author(applications'[a].by) = applications'[a].userID
             \/ /\ applications'[a].by \in Requests
                /\ request'[applications'[a].by].op = "CreateApplication"
<1>a. /\ \A a \in DOMAIN applications :
           applications[a] \in [userID : Nat \ {NoID}, by : Authors]
      /\ \A s \in DOMAIN stages :
           stages[s] \in [applicationID : DOMAIN applications, by : Authors]
  BY DEF TypeOK
\* Authors are answered, and an answered request does not change.
<1>b. ASSUME NEW q \in Requests, request[q].at = "done"
      PROVE  request'[q] = request[q]
  BY <1>b, OthersStay, ArriveFacts, ServeFrame
<1>c. ASSUME NEW s \in DOMAIN stages, s \in DOMAIN stages',
             stages'[s] = stages[s]
      PROVE  StageFine(s)
  <2>1. Author(stages[s].by) = AuthorOf(stages[s].by)
    BY <1>a, <1>b DEF AuthorsAnswered, AuthorOf, Authors
  <2> QED
    BY <1>a, <1>c, <2>1, ApplicationsStay DEF RowsWrittenByOwner, StageOwner
<1>d. ASSUME NEW a \in DOMAIN applications,
             applications'[a].by = applications[a].by
      PROVE  ApplicationFine(a)
  <2>1. Author(applications[a].by) = AuthorOf(applications[a].by)
    BY <1>a, <1>b DEF AuthorsAnswered, AuthorOf, Authors
  <2>2. applications[a].by \in Requests =>
          request'[applications[a].by].op = request[applications[a].by].op
    BY <1>b, ConstantsAssumption DEF AuthorsAnswered
  <2> QED
    BY <1>d, <2>1, <2>2, ApplicationsStay DEF RowsWrittenByOwner
<1>1. \A s \in DOMAIN stages' : StageFine(s)
  <2> SUFFICES ASSUME NEW s \in DOMAIN stages' PROVE StageFine(s)
    OBVIOUS
  <2>1. CASE s \in DOMAIN stages /\ stages'[s] = stages[s]
    BY <1>c, <2>1
  <2>2. CASE ~(s \in DOMAIN stages /\ stages'[s] = stages[s])
    <3>1. PICK r \in Requests : Serve(r) /\ (CreateStage(r) \/ PatchStage(r))
      <4>1. ASSUME NEW r \in Requests, TablesSame \/ Arrive(r) \/ SettleUpdate(r)
            PROVE  FALSE
        BY <2>2, <4>1, ArriveFacts, SettleFacts DEF TablesSame
      <4>2. ~UNCHANGED vars
        BY <2>2 DEF vars
      <4>3. ASSUME NEW r \in Requests,
                   \/ CreateApplication(r) \/ PatchApplication(r)
                   \/ DeleteApplication(r) \/ DeleteStage(r)
            PROVE  FALSE
        BY <2>2, <4>3 DEF CreateApplication, PatchApplication, data,
             DeleteApplication, DeleteStage, RemoveStage
      <4> QED
        BY <4>1, <4>2, <4>3, ServeShapes DEF Next, Quiet, Writes
    <3>2. request'[r].user = request[r].user /\ r # Seed
      BY <3>1, ServeFrame, ConstantsAssumption
    <3>3. CASE CreateStage(r)
      <4>1. /\ request[r].number \in DOMAIN applications
            /\ applications[request[r].number].userID = request[r].user
        BY <3>3 DEF CreateStage, Running, ChecksStillHold, ApplicationRoutes
      <4>2. stages'[s].by = r /\ stages'[s].applicationID = request[r].number
        BY <2>2, <3>3, <4>1 DEF CreateStage
      <4> QED
        BY <3>2, <4>1, <4>2, ApplicationsStay
    <3>4. CASE PatchStage(r)
      <4>1. s \in DOMAIN stages /\ s = request[r].number
        BY <2>2, <3>4 DEF PatchStage
      <4>2. /\ stages'[s].by = r
            /\ stages'[s].applicationID = stages[s].applicationID
        BY <1>a, <3>4, <4>1 DEF PatchStage
      <4>3. applications[stages[s].applicationID].userID = request[r].user
        BY <3>4, <4>1
        DEF PatchStage, Running, ChecksStillHold, StageRoutes, StageOwner
      <4> QED
        BY <1>a, <3>2, <4>1, <4>2, <4>3, ApplicationsStay
    <3> QED
      BY <3>1, <3>3, <3>4
  <2> QED
    BY <2>1, <2>2
<1>2. \A a \in DOMAIN applications' : ApplicationFine(a)
  <2> SUFFICES ASSUME NEW a \in DOMAIN applications' PROVE ApplicationFine(a)
    OBVIOUS
  <2>1. CASE a \in DOMAIN applications
               /\ applications'[a].by = applications[a].by
    BY <1>d, <2>1
  <2>2. CASE ~(a \in DOMAIN applications
                 /\ applications'[a].by = applications[a].by)
    <3>1. PICK r \in Requests : CreateApplication(r) \/ SettleUpdate(r)
      <4>1. ASSUME NEW r \in Requests, TablesSame \/ Arrive(r)
            PROVE  FALSE
        BY <2>2, <4>1, ArriveFacts DEF TablesSame
      <4>2. ~UNCHANGED vars
        BY <2>2 DEF vars
      <4>3. ASSUME NEW r \in Requests,
                   \/ CreateStage(r) \/ PatchStage(r) \/ PatchApplication(r)
                   \/ DeleteApplication(r) \/ DeleteStage(r)
            PROVE  FALSE
        BY <2>2, <4>3 DEF CreateStage, PatchStage, PatchApplication, data,
             DeleteApplication, DeleteStage, RemoveStage
      <4> QED
        BY <4>1, <4>2, <4>3, ServeShapes DEF Next, Quiet, Writes
    <3>2. CASE CreateApplication(r)
      <4>1. applications'[a].by = r
        BY <2>2, <3>2 DEF CreateApplication
      <4>2. request[r].op = "CreateApplication"
        BY <3>2 DEF CreateApplication, Running
      <4>3. request'[r].op = request[r].op
        BY <3>2, ServeFrame DEF Serve, Handler
      <4> QED
        BY <4>1, <4>2, <4>3
    <3>3. CASE SettleUpdate(r)
      <4>1. /\ a \in DOMAIN applications
            /\ a = request[r].number
            /\ applications'[a].by = r
            /\ applications'[a].userID = applications[a].userID
            /\ request' = request
        BY <2>2, <3>3, SettleFacts
      <4>2. applications[a].userID = request[r].user
        BY <3>3, <4>1, SettleFacts DEF UpdatesAuthorised
      <4> QED
        BY <4>1, <4>2, ConstantsAssumption
    <3> QED
      BY <3>1, <3>2, <3>3
  <2> QED
    BY <2>1, <2>2
<1> QED
  BY <1>1, <1>2 DEF RowsWrittenByOwner, AuthorOf, StageOwner

\* A row of the next state is written by its old author, by a request that
\* this step answers 200, 201 or 500, or by an UPDATE of an answered PATCH.
LEMMA AuthorsOfStep ==
  ASSUME IInv, [Next]_vars, NEW q \in Requests,
         \/ q \in pending'
         \/ \E a \in DOMAIN applications' : applications'[a].by = q
         \/ \E s \in DOMAIN stages' : stages'[s].by = q
  PROVE  \/ q \in pending
         \/ \E a \in DOMAIN applications : applications[a].by = q
         \/ \E s \in DOMAIN stages : stages[s].by = q
         \/ Serve(q) /\ Writes(q)
<1> USE DEF IInv
<1>0. /\ \A s \in DOMAIN stages :
           stages[s] \in [applicationID : DOMAIN applications, by : Authors]
  BY DEF TypeOK
<1>1. CASE \E r \in Requests : Arrive(r)
  BY <1>1, ArriveFacts
<1>2. CASE \E r \in Requests : Serve(r)
  <2>1. PICK r \in Requests : Serve(r)
    BY <1>2
  <2>2. CASE TablesSame
    BY <2>2 DEF TablesSame
  <2>3. CASE Writes(r) /\ r # q
    BY <1>0, <2>3
    DEF Writes, CreateApplication, PatchApplication, DeleteApplication,
        CreateStage, PatchStage, DeleteStage, RemoveStage, data
  <2> QED
    BY <2>1, <2>2, <2>3, ServeShapes
<1>3. CASE \E r \in Requests : SettleUpdate(r)
  BY <1>3, SettleFacts
<1>4. CASE UNCHANGED vars
  BY <1>4 DEF vars
<1> QED
  BY <1>1, <1>2, <1>3, <1>4 DEF Next, Quiet

LEMMA RefusedStep == IInv /\ [Next]_vars => RefusedRequestsWriteNothing'
<1> SUFFICES ASSUME IInv, [Next]_vars, NEW q \in Requests,
                    \/ q \in pending'
                    \/ \E a \in DOMAIN applications' : applications'[a].by = q
                    \/ \E s \in DOMAIN stages' : stages'[s].by = q
             PROVE  request'[q].status \notin {400, 401, 403}
  BY DEF RefusedRequestsWriteNothing
<1> USE DEF IInv
<1>1. CASE Serve(q) /\ Writes(q)
  BY <1>1, WriteAnswers
<1>2. CASE \/ q \in pending
           \/ \E a \in DOMAIN applications : applications[a].by = q
           \/ \E s \in DOMAIN stages : stages[s].by = q
  <2>1. request[q].at = "done"
    BY <1>2, ConstantsAssumption DEF AuthorsAnswered, UpdatesAuthorised, Did
  <2>2. request'[q] = request[q]
    BY <2>1, OthersStay, ArriveFacts, ServeFrame
  <2> QED
    BY <1>2, <2>2 DEF RefusedRequestsWriteNothing
<1> QED
  BY <1>1, <1>2, AuthorsOfStep

\* A request is answered 201 in the step that writes its row.
LEMMA CreationsStep == IInv /\ [Next]_vars => CreationsKept'
<1> SUFFICES ASSUME IInv, [Next]_vars PROVE CreationsKept'
  OBVIOUS
<1> USE DEF IInv
<1> DEFINE MadeApplication(q) == Did(q, "CreateApplication", 201)
           MadeStage(q) == Did(q, "CreateStage", 201)
<1>0. /\ nextStageID \in Nat /\ nextApplicationID \in Nat
      /\ \A q \in Requests : request[q].row \in Nat
  BY DEF TypeOK, RequestStates
<1>1. ASSUME NEW q \in Requests, MadeApplication(q)', request'[q] # request[q]
      PROVE  /\ CreateApplication(q)
             /\ request'[q].row = nextApplicationID
             /\ request'[q].number = request[q].number
  <2>1. Serve(q) /\ Writes(q) /\ request'[q].op = request[q].op
    BY <1>1, OthersStay, ArriveFacts, AnsweredFacts, AdvancedFacts,
       ServeFrame DEF Did
  <2>2. CreateApplication(q)
    BY <1>1, <2>1
    DEF Did, Writes, PatchApplication, DeleteApplication, CreateStage,
        PatchStage, DeleteStage, Running
  <2>3. request'[q].row = nextApplicationID
    BY <1>1, <2>2 DEF CreateApplication, AnswerWrite, Reply, Did, TypeOK,
                      RequestStates
  <2> QED
    BY <2>1, <2>2, <2>3, ServeFrame
<1>2. ASSUME NEW q \in Requests, MadeStage(q)', request'[q] # request[q]
      PROVE  /\ CreateStage(q)
             /\ request'[q].row = nextStageID
             /\ request'[q].number = request[q].number
  <2>1. Serve(q) /\ Writes(q) /\ request'[q].op = request[q].op
    BY <1>2, OthersStay, ArriveFacts, AnsweredFacts, AdvancedFacts,
       ServeFrame DEF Did
  <2>2. CreateStage(q)
    BY <1>2, <2>1
    DEF Did, Writes, PatchApplication, DeleteApplication, CreateApplication,
        PatchStage, DeleteStage, Running
  <2>3. request'[q].row = nextStageID
    BY <1>2, <2>2 DEF CreateStage, AnswerWrite, Reply, Did, TypeOK,
                      RequestStates
  <2> QED
    BY <2>1, <2>2, <2>3, ServeFrame
\* Two requests are never answered by one step.
<1>3. ASSUME NEW q \in Requests, NEW p \in Requests, p # q,
             request'[q] # request[q]
      PROVE  request'[p] = request[p]
  BY <1>3, OthersStay, ArriveFacts, ServeFrame
<1>4. ASSUME NEW q \in Requests, MadeApplication(q)'
      PROVE  /\ request'[q].row \in DOMAIN applications'
             /\ applications'[request'[q].row].userID = request'[q].number
  <2>1. CASE request'[q] = request[q]
    <3>1. /\ request[q].row \in DOMAIN applications
          /\ applications[request[q].row].userID = request[q].number
      BY <1>4, <2>1 DEF CreationsKept, Did
    <3> QED
      BY <2>1, <3>1, ApplicationsStay
  <2>2. CASE request'[q] # request[q]
    <3>1. /\ CreateApplication(q)
          /\ request'[q].row = nextApplicationID
          /\ request'[q].number = request[q].number
      BY <1>1, <1>4, <2>2
    <3> QED
      BY <3>1 DEF CreateApplication
  <2> QED
    BY <2>1, <2>2
<1>5. ASSUME NEW q \in Requests, NEW p \in Requests, p # q,
             MadeApplication(q)', MadeApplication(p)'
      PROVE  request'[p].row # request'[q].row
  <2>1. ASSUME NEW x \in Requests, MadeApplication(x)', request'[x] = request[x]
        PROVE  request'[x].row < nextApplicationID
    BY <2>1 DEF NumbersSpent, Did
  <2>2. CASE request'[q] = request[q] /\ request'[p] = request[p]
    BY <1>5, <2>2 DEF CreationsKept, Did
  <2>3. CASE request'[q] # request[q]
    BY <1>0, <1>1, <1>3, <1>5, <2>1, <2>3
  <2>4. CASE request'[p] # request[p]
    BY <1>0, <1>1, <1>3, <1>5, <2>1, <2>4
  <2> QED
    BY <2>2, <2>3, <2>4
<1>6. ASSUME NEW q \in Requests, MadeStage(q)',
             request'[q].row \in DOMAIN stages'
      PROVE  stages'[request'[q].row].applicationID = request'[q].number
  <2>1. CASE request'[q] = request[q]
    <3>1. request[q].row < nextStageID
      BY <1>6, <2>1 DEF NumbersSpent, Did
    <3>2. /\ request[q].row \in DOMAIN stages
          /\ stages'[request[q].row].applicationID =
               stages[request[q].row].applicationID
      BY <1>0, <1>6, <2>1, <3>1, StagesStay
    <3>3. stages[request[q].row].applicationID = request[q].number
      BY <1>6, <2>1, <3>2 DEF CreationsKept, Did
    <3> QED
      BY <2>1, <3>2, <3>3
  <2>2. CASE request'[q] # request[q]
    <3>1. /\ CreateStage(q)
          /\ request'[q].row = nextStageID
          /\ request'[q].number = request[q].number
      BY <1>2, <1>6, <2>2
    <3>2. nextStageID \notin DOMAIN stages
      BY DEF TypeOK
    <3> QED
      BY <1>6, <3>1, <3>2 DEF CreateStage
  <2> QED
    BY <2>1, <2>2
<1>7. ASSUME NEW q \in Requests, NEW p \in Requests, p # q,
             MadeStage(q)', MadeStage(p)'
      PROVE  request'[p].row # request'[q].row
  <2>1. ASSUME NEW x \in Requests, MadeStage(x)', request'[x] = request[x]
        PROVE  request'[x].row < nextStageID
    BY <2>1 DEF NumbersSpent, Did
  <2>2. CASE request'[q] = request[q] /\ request'[p] = request[p]
    BY <1>7, <2>2 DEF CreationsKept, Did
  <2>3. CASE request'[q] # request[q]
    BY <1>0, <1>2, <1>3, <1>7, <2>1, <2>3
  <2>4. CASE request'[p] # request[p]
    BY <1>0, <1>2, <1>3, <1>7, <2>1, <2>4
  <2> QED
    BY <2>2, <2>3, <2>4
<1> QED
  BY <1>4, <1>5, <1>6, <1>7 DEF CreationsKept

LEMMA PatchLandsStep == IInv /\ [Next]_vars => AcknowledgedStagePatchLands'
<1> SUFFICES ASSUME IInv, [Next]_vars, NEW q \in Requests,
                    Did(q, "PatchStage", 200)',
                    request'[q].number \in DOMAIN stages'
             PROVE  \E p \in Requests :
                      /\ stages'[request'[q].number].by = p
                      /\ request'[p].op = "PatchStage"
  BY DEF AcknowledgedStagePatchLands
<1> USE DEF IInv
<1> DEFINE n == request'[q].number
<1>0. \A s \in DOMAIN stages :
        stages[s] \in [applicationID : DOMAIN applications, by : Authors]
  BY DEF TypeOK
\* The row was there before the step, or q itself updates it now.
<1>1. CASE request'[q] # request[q]
  <2>1. Serve(q) /\ Writes(q) /\ request'[q].op = request[q].op
           /\ request'[q].number = request[q].number
    BY <1>1, OthersStay, ArriveFacts, AnsweredFacts, AdvancedFacts,
       ServeFrame DEF Did, Reads
  <2>2. PatchStage(q)
    BY <2>1
    DEF Did, Writes, CreateApplication, PatchApplication, DeleteApplication,
        CreateStage, DeleteStage, Running
  <2>3. stages'[n].by = q
    BY <1>0, <2>1, <2>2 DEF PatchStage
  <2> QED
    BY <2>3 DEF Did
<1>2. CASE request'[q] = request[q]
  <2>1. n < nextStageID /\ Did(q, "PatchStage", 200)
    BY <1>2 DEF NumbersSpent, Did
  <2>2. n \in DOMAIN stages
    <3>1. n \in Nat /\ nextStageID \in Nat
      BY <1>2, ConstantsAssumption DEF TypeOK, RequestStates
    <3> QED
      BY <2>1, <3>1, StagesStay
  <2>3. PICK p \in Requests : /\ stages[n].by = p
                              /\ request[p].op = "PatchStage"
    BY <1>2, <2>1, <2>2 DEF AcknowledgedStagePatchLands
  <2>4. CASE stages'[n].by = p
    <3>1. request[p].at = "done"
      BY <2>2, <2>3, ConstantsAssumption DEF AuthorsAnswered
    <3>2. request'[p] = request[p]
      BY <3>1, OthersStay, ArriveFacts, ServeFrame
    <3> QED
      BY <2>3, <2>4, <3>2
  <2>5. CASE stages'[n].by # p
    <3>1. PICK r \in Requests : PatchStage(r)
      <4>1. ASSUME NEW r \in Requests, TablesSame \/ Arrive(r) \/ SettleUpdate(r)
            PROVE  FALSE
        BY <2>3, <2>5, <4>1, ArriveFacts, SettleFacts DEF TablesSame
      <4>2. ~UNCHANGED vars
        BY <2>3, <2>5 DEF vars
      <4>3. ASSUME NEW r \in Requests,
                   \/ CreateApplication(r) \/ PatchApplication(r)
                   \/ DeleteApplication(r) \/ DeleteStage(r)
            PROVE  FALSE
        BY <2>3, <2>5, <4>3 DEF CreateApplication, PatchApplication, data,
             DeleteApplication, DeleteStage, RemoveStage
      <4>4. ASSUME NEW r \in Requests, CreateStage(r)
            PROVE  FALSE
        <5>1. n # nextStageID
          BY <2>2 DEF TypeOK
        <5> QED
          BY <2>2, <2>3, <2>5, <4>4, <5>1 DEF CreateStage
      <4> QED
        BY <4>1, <4>2, <4>3, <4>4, ServeShapes DEF Next, Quiet, Writes
    <3>2. stages'[n].by = r
      BY <1>0, <2>2, <2>3, <2>5, <3>1 DEF PatchStage
    <3>3. request'[r].op = "PatchStage"
      BY <3>1, ServeFrame DEF Serve, Handler, PatchStage, Running
    <3> QED
      BY <3>2, <3>3
  <2> QED
    BY <2>4, <2>5
<1> QED
  BY <1>1, <1>2

-----------------------------------------------------------------------------
(* The theorems. *)

LEMMA InitInductive == Init => IInv
<1> SUFFICES ASSUME Init PROVE IInv
  OBVIOUS
<1>1. TypeOK
  BY InitTyped
<1>2. \A r \in Requests : request[r] = Unsent
  BY DEF Init
<1>3. /\ applications[1].by = Seed /\ applications[1].userID = 1
      /\ stages[1].by = Seed /\ stages[1].applicationID = 1
      /\ DOMAIN applications = {1} /\ DOMAIN stages = {1}
      /\ pending = {}
  BY DEF Init
<1>4. RoutesFollowed /\ NumbersSpent /\ ChecksStillHold /\ CreationsKept
        /\ AcknowledgedStagePatchLands /\ RefusedRequestsWriteNothing
  BY <1>2 DEF RoutesFollowed, NumbersSpent, ChecksStillHold, CreationsKept,
              AcknowledgedStagePatchLands, RefusedRequestsWriteNothing,
              Unsent, Did, Deleted
<1>5. AuthorsAnswered /\ UpdatesAuthorised /\ RowsWrittenByOwner
  BY <1>3 DEF AuthorsAnswered, UpdatesAuthorised, RowsWrittenByOwner,
              AuthorOf, StageOwner
<1> QED
  BY <1>1, <1>4, <1>5 DEF IInv

LEMMA StepInductive == IInv /\ [Next]_vars => IInv'
BY StepTyped, RoutesStep, AuthorsStep, UpdatesStep, NumbersStep, ChecksStep,
   RowsStep, RefusedStep, CreationsStep, PatchLandsStep DEF IInv

\* The inductive invariant of the service.
THEOREM Inductive == Spec => []IInv
BY InitInductive, StepInductive, PTL DEF Spec

\* What IsCreator saw still holds when the handler runs.
THEOREM ChecksHold == Spec => []ChecksStillHold
<1>1. IInv => ChecksStillHold
  BY DEF IInv
<1> QED
  BY <1>1, Inductive, PTL

\* Rows hold what the owner of their application wrote, and nobody else.
THEOREM OwnersWrite == Spec => []RowsWrittenByOwner
<1>1. IInv => RowsWrittenByOwner
  BY DEF IInv
<1> QED
  BY <1>1, Inductive, PTL

\* A request that was refused has no effect, then or later.
THEOREM RefusalsAreHarmless == Spec => []RefusedRequestsWriteNothing
<1>1. IInv => RefusedRequestsWriteNothing
  BY DEF IInv
<1> QED
  BY <1>1, Inductive, PTL

\* The number of an acknowledged creation is its own, and an application it
\* names is never lost.
THEOREM CreationsAreKept == Spec => []CreationsKept
<1>1. IInv => CreationsKept
  BY DEF IInv
<1> QED
  BY <1>1, Inductive, PTL

\* An acknowledged PATCH of a stage is not undone by an earlier write.
THEOREM StagePatchesLand == Spec => []AcknowledgedStagePatchLands
<1>1. IInv => AcknowledgedStagePatchLands
  BY DEF IInv
<1> QED
  BY <1>1, Inductive, PTL

\* A number is deleted with 200 by one request at most.
LEMMA DeletedOnceStep == IInv /\ DeletedOnce /\ [Next]_vars => DeletedOnce'
<1> SUFFICES ASSUME IInv, DeletedOnce, [Next]_vars,
                    NEW r \in Requests, NEW q \in Requests, r # q,
                    Deleted(r)', Deleted(q)'
             PROVE  request'[r].number # request'[q].number
  BY DEF DeletedOnce
<1> USE DEF IInv
\* Whoever is answered by this step has found the row.
<1>1. ASSUME NEW x \in Requests, Deleted(x)', request'[x] # request[x]
      PROVE  /\ request[x].number \in DOMAIN stages
             /\ request'[x].number = request[x].number
  <2>1. Serve(x) /\ Writes(x) /\ request'[x].op = request[x].op
          /\ request'[x].number = request[x].number
    BY <1>1, OthersStay, ArriveFacts, AnsweredFacts, AdvancedFacts,
       ServeFrame DEF Deleted, Did, Reads
  <2>2. RemoveStage(x)
    BY <1>1, <2>1
    DEF Deleted, Did, Writes, CreateApplication, PatchApplication,
        CreateStage, PatchStage, DeleteApplication, DeleteStage, Running
  <2>3. request[x].number \in DOMAIN stages
    BY <1>1, <2>2 DEF RemoveStage, Reply, Deleted, Did, TypeOK,
                      RequestStates
  <2> QED
    BY <2>1, <2>3
\* Whoever was answered before has left no row behind.
<1>2. ASSUME NEW x \in Requests, Deleted(x)', request'[x] = request[x]
      PROVE  Deleted(x) /\ request[x].number \notin DOMAIN stages
  BY <1>2 DEF Deleted, Did, NumbersSpent
<1>3. request'[r] = request[r] \/ request'[q] = request[q]
  BY OthersStay, ArriveFacts, ServeFrame
<1>4. CASE request'[r] = request[r] /\ request'[q] = request[q]
  BY <1>2, <1>4 DEF DeletedOnce
<1> QED
  BY <1>1, <1>2, <1>3, <1>4

\* No number is deleted twice.
THEOREM OneDeletion == Spec => []DeletedOnce
<1>1. Init => DeletedOnce
  BY DEF Init, DeletedOnce, Deleted, Did, Unsent
<1> QED
  BY <1>1, DeletedOnceStep, Inductive, PTL DEF Spec

-----------------------------------------------------------------------------
(* The refinement: the tables implement Tracker. *)

\* A row's author is known for good, so a table that stays is tracked alike.
LEMMA AuthorsKnown ==
  ASSUME IInv, [Next]_vars
  PROVE  /\ \A a \in DOMAIN applications :
              AuthorOf(applications[a].by) =
                IF applications[a].by = Seed THEN 1
                ELSE request'[applications[a].by].user
         /\ \A s \in DOMAIN stages :
              AuthorOf(stages[s].by) =
                IF stages[s].by = Seed THEN 1
                ELSE request'[stages[s].by].user
<1> USE DEF IInv
<1>1. ASSUME NEW q \in Requests, request[q].at = "done"
      PROVE  request'[q] = request[q]
  BY <1>1, OthersStay, ArriveFacts, ServeFrame
<1>2. /\ \A a \in DOMAIN applications : applications[a].by \in Authors
      /\ \A s \in DOMAIN stages : stages[s].by \in Authors
  BY DEF TypeOK
<1> QED
  BY <1>1, <1>2 DEF AuthorsAnswered, AuthorOf, Authors

LEMMA TrackedTogether ==
  ASSUME IInv, [Next]_vars
  PROVE  /\ UNCHANGED applications => UNCHANGED TrackedApplications
         /\ UNCHANGED stages => UNCHANGED TrackedStages
BY AuthorsKnown DEF TrackedApplications, TrackedStages, AuthorOf

\* The callers who come through GetUser are registered.
RegisteredOnly ==
  \A r \in Requests :
    \/ request[r].at \in {"GetApplication", "GetStage", "handler"}
    \/ Did(r, "PatchApplication", 200)
    => request[r].user \in Users

LEMMA RegisteredStep == IInv /\ RegisteredOnly /\ [Next]_vars
                          => RegisteredOnly'
<1> SUFFICES ASSUME IInv, RegisteredOnly, [Next]_vars, NEW q \in Requests,
                    \/ request'[q].at \in
                         {"GetApplication", "GetStage", "handler"}
                    \/ Did(q, "PatchApplication", 200)'
             PROVE  request'[q].user \in Users
  BY DEF RegisteredOnly
<1> USE DEF IInv
<1>1. CASE request'[q] = request[q]
  BY <1>1 DEF RegisteredOnly, Did
<1>2. CASE request'[q] # request[q]
  <2>1. Serve(q) /\ request'[q].user = request[q].user
    BY <1>2, OthersStay, ArriveFacts, ServeFrame DEF Did
  <2>2. CASE request[q].at \in {"GetApplication", "GetStage", "handler"}
    BY <2>1, <2>2 DEF RegisteredOnly
  <2>3. CASE request[q].at = "GetUser"
    <3>1. GetUser(q) \/ QueryFails(q)
      BY <2>1, <2>3
      DEF Serve, Middleware, Handler, CheckApplication, CheckStage,
          MissingUserID, RejectInputs, Running, ListApplications,
          CreateApplication, GetApplication, PatchApplication,
          DeleteApplication, ListStages, CreateStage, GetStage, PatchStage,
          DeleteStage
    <3>2. ASSUME NEW status \in {400, 401, 500}, Reply(q, status, NoID)
          PROVE  FALSE
      BY <3>2 DEF Reply, Did, TypeOK, RequestStates
    <3>3. request[q].user \in Users
      BY <3>1, <3>2 DEF GetUser, QueryFails
    <3> QED
      BY <2>1, <3>3
  <2>4. request[q].at \in {"GetUser", "GetApplication", "GetStage", "handler"}
    BY <2>1, ServeFrame DEF TypeOK, RequestStates
  <2> QED
    BY <2>2, <2>3, <2>4
<1> QED
  BY <1>1, <1>2

LEMMA SpentNumber ==
  ASSUME NEW n \in Nat \ {0}
  PROVE  /\ 1..((n + 1) - 1) = 1..(n - 1) \cup {n}
         /\ n \notin 1..(n - 1)
         /\ n \in 1..((n + 1) - 1)
OBVIOUS

\* A step implements a step of Tracker, or nothing of it.
LEMMA TrackerStep ==
  ASSUME IInv, RegisteredOnly, [Next]_vars
  PROVE  [TableOf!Next]_(TableOf!vars)
<1> USE DEF IInv
<1> DEFINE A == TrackedApplications
           S == TrackedStages
           UA == 1..(nextApplicationID - 1)
           US == 1..(nextStageID - 1)
           Author(by) == IF by = Seed THEN 1 ELSE request'[by].user
<1>t. /\ DOMAIN A = DOMAIN applications
      /\ DOMAIN S = DOMAIN stages
      /\ \A a \in DOMAIN applications :
           A[a] = [userID |-> applications[a].userID,
                   author |-> AuthorOf(applications[a].by)]
      /\ \A s \in DOMAIN stages :
           S[s] = [applicationID |-> stages[s].applicationID,
                   author |-> AuthorOf(stages[s].by)]
  BY DEF TrackedApplications, TrackedStages
<1>u. /\ A' = [a \in DOMAIN applications' |->
                 [userID |-> applications'[a].userID,
                  author |-> Author(applications'[a].by)]]
      /\ S' = [s \in DOMAIN stages' |->
                 [applicationID |-> stages'[s].applicationID,
                  author |-> Author(stages'[s].by)]]
  BY DEF TrackedApplications, TrackedStages, AuthorOf
<1>v. /\ \A a \in DOMAIN applications :
           AuthorOf(applications[a].by) = Author(applications[a].by)
      /\ \A s \in DOMAIN stages :
           AuthorOf(stages[s].by) = Author(stages[s].by)
  BY AuthorsKnown
<1>w. /\ nextApplicationID \in Nat \ {0} /\ nextStageID \in Nat \ {0}
      /\ DOMAIN applications \subseteq UA /\ DOMAIN stages \subseteq US
      /\ \A s \in DOMAIN stages :
           /\ stages[s].applicationID \in DOMAIN applications
           /\ stages[s] \in [applicationID : DOMAIN applications, by : Authors]
      /\ \A a \in DOMAIN applications :
           applications[a] \in [userID : Nat \ {NoID}, by : Authors]
  BY DEF TypeOK
<1>x. UNCHANGED <<A, S, UA, US>> => UNCHANGED TableOf!vars
  BY DEF TableOf!vars
<1> HIDE DEF A, S
<1>1. ASSUME UNCHANGED <<applications, stages>>,
             nextApplicationID' = nextApplicationID + 1,
             UNCHANGED nextStageID
      PROVE  TableOf!Next
  <2>1. TableOf!SkipApplication(nextApplicationID)
    BY <1>1, <1>w, TrackedTogether, SpentNumber DEF TableOf!SkipApplication
  <2>2. nextApplicationID \in UA'
    BY <1>1, <1>w, SpentNumber
  <2> QED
    BY <2>1, <2>2 DEF TableOf!Next
<1>2. ASSUME UNCHANGED <<applications, stages>>,
             nextStageID' = nextStageID + 1,
             UNCHANGED nextApplicationID
      PROVE  TableOf!Next
  <2>1. TableOf!SkipStage(nextStageID)
    BY <1>2, <1>w, TrackedTogether, SpentNumber DEF TableOf!SkipStage
  <2>2. nextStageID \in US'
    BY <1>2, <1>w, SpentNumber
  <2> QED
    BY <2>1, <2>2 DEF TableOf!Next
<1>3. ASSUME UNCHANGED <<applications, stages, nextApplicationID, nextStageID>>
      PROVE  UNCHANGED TableOf!vars
  BY <1>3, <1>x, TrackedTogether DEF A, S
<1>4. ASSUME NEW r \in Requests, CreateApplication(r), Serve(r)
      PROVE  TableOf!Next
  <2> DEFINE n == nextApplicationID
             u == request[r].user
  <2>1. u \in Users /\ request'[r].user = u /\ r # Seed
    BY <1>4, ServeFrame, ConstantsAssumption
    DEF RegisteredOnly, CreateApplication, Running
  <2>2. n \notin UA /\ UA' = UA \cup {n}
    BY <1>4, <1>w, SpentNumber DEF CreateApplication
  <2>3. DOMAIN A' = DOMAIN A \cup {n}
    BY <1>4, <1>t, <1>u DEF CreateApplication
  <2>4. A'[n].author = u
    BY <1>4, <1>u, <2>1, <2>3 DEF CreateApplication
  <2>5. \A x \in (DOMAIN A \cap DOMAIN A') \ {n} : A'[x] = A[x]
    BY <1>4, <1>t, <1>u, <1>v DEF CreateApplication
  <2>6. UNCHANGED <<S, US>>
    BY <1>4, TrackedTogether DEF CreateApplication, S
  <2>7. TableOf!AddApplication(u, n)
    BY <2>2, <2>3, <2>4, <2>5, <2>6
    DEF TableOf!AddApplication, TableOf!SameBut, A, S
  <2>8. n \in DOMAIN A'
    BY <2>3
  <2> QED
    BY <2>1, <2>7, <2>8 DEF TableOf!Next, A
<1>5. ASSUME NEW r \in Requests, SettleUpdate(r)
      PROVE  TableOf!Next \/ UNCHANGED TableOf!vars
  <2> DEFINE n == request[r].number
             u == request[r].user
  <2>1. UNCHANGED <<stages, nextApplicationID, nextStageID, request>>
    BY <1>5 DEF SettleUpdate
  <2>2. CASE UNCHANGED applications
    BY <1>3, <2>1, <2>2
  <2>3. CASE applications' = [a \in DOMAIN applications |->
               IF a = n THEN [applications[a] EXCEPT !.by = r]
               ELSE applications[a]]
    <3>1. n \in DOMAIN applications /\ applications[n].userID = u /\ u \in Users
      BY <1>5 DEF SettleUpdate, UpdatesAuthorised, RegisteredOnly
    <3>2. A' = [A EXCEPT ![n].author = u]
      <4>1. r # Seed
        BY ConstantsAssumption
      <4>2. DOMAIN A' = DOMAIN A
        BY <1>t, <1>u, <2>3
      <4>3. A'[n] = [A[n] EXCEPT !.author = u]
        BY <1>t, <1>u, <1>w, <2>1, <2>3, <3>1, <4>1
      <4>4. \A x \in DOMAIN A \ {n} : A'[x] = A[x]
        BY <1>t, <1>u, <1>v, <2>3
      <4> QED
        BY <1>t, <1>u, <4>2, <4>3, <4>4 DEF A
    <3>3. TableOf!Owns(u, n)
      BY <1>t, <3>1 DEF TableOf!Owns, A
    <3>4. UNCHANGED <<S, UA, US>>
      BY <2>1, TrackedTogether DEF S
    <3>5. TableOf!EditApplication(u, n)
      BY <3>2, <3>3, <3>4 DEF TableOf!EditApplication, A, S
    <3> QED
      BY <1>t, <3>1, <3>5 DEF TableOf!Next, A
  <2> QED
    BY <1>5, <2>2, <2>3 DEF SettleUpdate
<1>6. ASSUME NEW r \in Requests, RemoveStage(r), request[r].at = "handler",
             request[r].op \in {"DeleteStage", "DeleteApplication"}
      PROVE  TableOf!Next \/ UNCHANGED TableOf!vars
  <2> DEFINE n == request[r].number
             u == request[r].user
  <2>1. UNCHANGED <<applications, nextApplicationID, nextStageID>>
    BY <1>6 DEF RemoveStage
  <2>2. CASE n \notin DOMAIN stages
    <3>1. stages' = stages
      BY <1>6, <2>2 DEF RemoveStage, TypeOK
    <3> QED
      BY <1>3, <2>1, <3>1
  <2>3. CASE n \in DOMAIN stages
    <3>1. u \in Users
      BY <1>6 DEF RegisteredOnly
    <3>2. \/ StageOwner(n) = u
          \/ n \in DOMAIN applications /\ applications[n].userID = u
      BY <1>6, <2>3 DEF ChecksStillHold, StageRoutes, ApplicationRoutes
    <3>3. TableOf!OwnsStage(u, n) \/ TableOf!Owns(u, n)
      BY <1>t, <1>w, <2>3, <3>2
      DEF TableOf!OwnsStage, TableOf!Owns, StageOwner, A, S
    <3>4. S' = [x \in DOMAIN S \ {n} |-> S[x]]
      BY <1>6, <1>t, <1>u, <1>v DEF RemoveStage
    <3>5. UNCHANGED <<A, UA, US>>
      BY <2>1, TrackedTogether DEF A
    <3>6. TableOf!DropStage(u, n)
      BY <1>t, <2>3, <3>3, <3>4, <3>5 DEF TableOf!DropStage, A, S
    <3> QED
      BY <1>t, <2>3, <3>1, <3>6 DEF TableOf!Next, S
  <2> QED
    BY <2>2, <2>3
<1>7. ASSUME NEW r \in Requests, CreateStage(r), Serve(r)
      PROVE  TableOf!Next
  <2> DEFINE n == nextStageID
             u == request[r].user
  <2>1. u \in Users /\ request'[r].user = u /\ r # Seed
    BY <1>7, ServeFrame, ConstantsAssumption
    DEF RegisteredOnly, CreateStage, Running
  <2>2. /\ request[r].number \in DOMAIN applications
        /\ applications[request[r].number].userID = u
    BY <1>7 DEF CreateStage, Running, ChecksStillHold, ApplicationRoutes
  <2>3. n \notin US /\ US' = US \cup {n}
    BY <1>7, <1>w, SpentNumber DEF CreateStage
  <2>4. DOMAIN S' = DOMAIN S \cup {n}
    BY <1>7, <1>t, <1>u, <2>2 DEF CreateStage
  <2>5. S'[n].author = u /\ S'[n].applicationID = request[r].number
    BY <1>7, <1>u, <2>1, <2>2, <2>4 DEF CreateStage
  <2>6. \A x \in (DOMAIN S \cap DOMAIN S') \ {n} : S'[x] = S[x]
    BY <1>7, <1>t, <1>u, <1>v, <2>2 DEF CreateStage
  <2>7. UNCHANGED <<A, UA>>
    BY <1>7, TrackedTogether DEF CreateStage, A
  <2>8. TableOf!Owns(u, S'[n].applicationID)
    BY <1>t, <2>2, <2>5 DEF TableOf!Owns, A
  <2>9. TableOf!AddStage(u, n)
    BY <2>3, <2>4, <2>5, <2>6, <2>7, <2>8
    DEF TableOf!AddStage, TableOf!SameBut, A, S
  <2>10. n \in DOMAIN S'
    BY <2>4
  <2> QED
    BY <2>1, <2>9, <2>10 DEF TableOf!Next, S
<1>8. ASSUME NEW r \in Requests, PatchStage(r), Serve(r)
      PROVE  TableOf!Next \/ UNCHANGED TableOf!vars
  <2> DEFINE n == request[r].number
             u == request[r].user
  <2>1. UNCHANGED <<applications, nextApplicationID, nextStageID>>
    BY <1>8 DEF PatchStage
  <2>2. CASE n \notin DOMAIN stages
    <3>1. stages' = stages
      BY <1>8, <2>2 DEF PatchStage, TypeOK
    <3> QED
      BY <1>3, <2>1, <3>1
  <2>3. CASE n \in DOMAIN stages
    <3>1. u \in Users /\ request'[r].user = u /\ r # Seed
      BY <1>8, ServeFrame, ConstantsAssumption
      DEF RegisteredOnly, PatchStage, Running
    <3>2. StageOwner(n) = u
      BY <1>8, <2>3 DEF PatchStage, Running, ChecksStillHold, StageRoutes
    <3>3. TableOf!OwnsStage(u, n)
      BY <1>t, <1>w, <2>3, <3>2
      DEF TableOf!OwnsStage, TableOf!Owns, StageOwner, A, S
    <3>4. S' = [S EXCEPT ![n].author = u]
      <4>1. DOMAIN S' = DOMAIN S
        BY <1>8, <1>t, <1>u DEF PatchStage
      <4>2. S'[n] = [S[n] EXCEPT !.author = u]
        <5>1. /\ n \in DOMAIN stages'
              /\ stages'[n].applicationID = stages[n].applicationID
              /\ stages'[n].by = r
          BY <1>8, <1>w, <2>3 DEF PatchStage
        <5>2. S'[n] = [applicationID |-> stages[n].applicationID,
                       author |-> Author(r)]
          BY <1>u, <5>1
        <5>3. Author(r) = u
          BY <3>1
        <5> QED
          BY <1>t, <2>3, <5>2, <5>3
      <4>3. \A x \in DOMAIN S \ {n} : S'[x] = S[x]
        BY <1>8, <1>t, <1>u, <1>v DEF PatchStage
      <4> QED
        BY <1>t, <1>u, <4>1, <4>2, <4>3 DEF S
    <3>5. UNCHANGED <<A, UA, US>>
      BY <2>1, TrackedTogether DEF A
    <3>6. TableOf!EditStage(u, n)
      BY <3>3, <3>4, <3>5 DEF TableOf!EditStage, A, S
    <3> QED
      BY <1>t, <2>3, <3>1, <3>6 DEF TableOf!Next, S
  <2> QED
    BY <2>2, <2>3
<1>9. ASSUME NEW r \in Requests, Serve(r)
      PROVE  TableOf!Next \/ UNCHANGED TableOf!vars
  <2>1. CASE TablesSame
    BY <2>1, <1>1, <1>2, <1>3 DEF TablesSame
  <2>2. CASE PatchApplication(r)
    BY <2>2, <1>3 DEF PatchApplication, data
  <2>3. CASE DeleteApplication(r) \/ DeleteStage(r)
    BY <2>3, <1>6 DEF DeleteApplication, DeleteStage, Running
  <2> QED
    BY <1>4, <1>7, <1>8, <1>9, <2>1, <2>2, <2>3, ServeShapes DEF Writes
<1>10. ASSUME NEW r \in Requests, Arrive(r)
       PROVE  UNCHANGED TableOf!vars
  BY <1>3, <1>10, ArriveFacts
<1>11. CASE UNCHANGED vars
  BY <1>3, <1>11 DEF vars
<1> QED
  BY <1>5, <1>9, <1>10, <1>11 DEF Next, Quiet

LEMMA TrackerInit == Init => TableOf!Init
<1> SUFFICES ASSUME Init PROVE TableOf!Init
  OBVIOUS
<1>1. TrackedApplications = [a \in {1} |-> [userID |-> 1, author |-> 1]]
  BY DEF Init, TrackedApplications, AuthorOf
<1>2. TrackedStages = [s \in {1} |-> [applicationID |-> 1, author |-> 1]]
  BY DEF Init, TrackedStages, AuthorOf
<1>3. 1..(nextApplicationID - 1) = {1} /\ 1..(nextStageID - 1) = {1}
  BY DEF Init
<1> QED
  BY <1>1, <1>2, <1>3 DEF TableOf!Init

\* For any number of requests and users, the service's tables behave as
\* Tracker: the check made one query before a write is as good as one made
\* with it.
THEOREM Refinement == Spec => ImplementsTracker
<1>1. Init => RegisteredOnly
  BY DEF Init, RegisteredOnly, Unsent, Did
<1>2. Spec => [](IInv /\ RegisteredOnly)
  BY <1>1, RegisteredStep, Inductive, PTL DEF Spec
<1>3. IInv /\ RegisteredOnly /\ [Next]_vars => [TableOf!Next]_(TableOf!vars)
  BY TrackerStep
<1> QED
  BY <1>2, <1>3, TrackerInit, PTL DEF Spec, ImplementsTracker, TableOf!Spec
=============================================================================
