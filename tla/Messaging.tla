------------------------------ MODULE Messaging ------------------------------
(***************************************************************************)
(* The messaging service: an Express server whose channels and messages    *)
(* are MongoDB documents.  A handler reads a document, checks it, and      *)
(* writes; other requests run while it awaits.                             *)
(*                                                                         *)
(* An action is one query with the code up to the next.  The first action  *)
(* of a request is its arrival too: GetUser and queryUserProfile only read *)
(* table users, which this service never writes, so they are no steps of   *)
(* their own.  Requests that only read are left out.                       *)
(*                                                                         *)
(* What Mongoose sends for save() (external): $set of what was assigned;   *)
(* for a push onto members a $push, which advances the version __v; for an *)
(* assignment to members a $set for which __v must be as it was read.      *)
(***************************************************************************)
EXTENDS Naturals

CONSTANTS
  Requests,                 \* the requests, with three that are over:
  Founded, Joined, Posted,  \* a private channel, a member, a message
  Users,                    \* ids with a row in table users
  Founder, Guest,           \* of whom two made the past requests
  Admin,                    \* the creator of the general channel
  Names,                    \* names of channels
  GeneralName, FoundedName,
  General,                  \* the id of the general channel
  NoChannel, NoMessage, NoName, NoUser

Past == {Founded, Joined, Posted}

ASSUME MessagingAssumption ==
  /\ Past \subseteq Requests /\ General \notin Requests
  /\ Founded # Joined /\ Founded # Posted /\ Joined # Posted
  /\ {Founder, Guest} \subseteq Users /\ Admin \notin Users /\ NoUser \notin Users
  /\ {GeneralName, FoundedName} \subseteq Names /\ NoName \notin Names
  /\ GeneralName # FoundedName

VARIABLES
  channels,  \* channel id -> document, or NoChannel
  messages,  \* message id -> document, or NoMessage
  request,
  pending    \* PatchMessage requests whose save still runs

vars == <<channels, messages, request, pending>>

\* An object id is named by the request that made the object; a member is an
\* element of the array, with an id of its own: the request that added it.
ChannelIDs == Requests \cup {General}

Channels ==
  [name : Names, creator : Users \cup {Admin}, private : BOOLEAN,
   members : SUBSET Requests, version : Nat,
   editor : Requests \cup {General}]        \* the last to save it

Messages == [channel : ChannelIDs, editor : Requests]

ASSUME DocumentsAssumption == NoChannel \notin Channels /\ NoMessage \notin Messages

RequestStates ==
  [at      : {"new", "write", "messages", "done"},
   op      : {"none", "CreateChannel", "PatchChannel", "DeleteChannel",
              "PostMessage", "PatchMessage", "DeleteMessage", "AddMember",
              "RemoveMember"},
   user    : Users \cup {NoUser},
   target  : ChannelIDs,                    \* the channel or message named
   member  : Users \cup {NoUser},           \* the user added or removed
   name    : Names \cup {NoName},
   private : BOOLEAN,
   listed  : BOOLEAN,                       \* a new channel lists its creator
   members : SUBSET Requests,               \* the channel as it was read
   version : Nat,
   status  : {0, 200, 201, 400, 401, 403, 500}]

\* A request nobody has sent yet, and one that is over.
Unsent == [at |-> "new", op |-> "none", user |-> NoUser, target |-> General,
           member |-> NoUser, name |-> NoName, private |-> FALSE,
           listed |-> FALSE, members |-> {}, version |-> 0, status |-> 0]

Over(op, u, c, m, n) ==
  [Unsent EXCEPT !.at = "done", !.op = op, !.user = u, !.target = c,
                 !.member = m, !.name = n, !.status = 201]

Init ==
  /\ channels = [c \in ChannelIDs |->
       CASE c = General -> [name |-> GeneralName, creator |-> Admin,
              private |-> FALSE, members |-> {}, version |-> 0, editor |-> General]
         [] c = Founded -> [name |-> FoundedName, creator |-> Founder,
              private |-> TRUE, members |-> {Founded, Joined}, version |-> 1,
              editor |-> Joined]
         [] OTHER -> NoChannel]
  /\ messages = [m \in Requests |->
       IF m = Posted THEN [channel |-> Founded, editor |-> Posted] ELSE NoMessage]
  /\ request = [r \in Requests |->
       CASE r = Founded ->
              [Over("CreateChannel", Founder, General, NoUser, FoundedName)
                 EXCEPT !.private = TRUE, !.listed = TRUE]
         [] r = Joined  -> Over("AddMember", Founder, Founded, Guest, NoName)
         [] r = Posted  -> Over("PostMessage", Guest, Founded, NoUser, NoName)
         [] OTHER -> Unsent]
  /\ pending = {}

-----------------------------------------------------------------------------
Exists(c)  == channels[c] # NoChannel
HasName(n) == \E c \in ChannelIDs : Exists(c) /\ channels[c].name = n

\* The user in an element of a members array.
MemberOf(e) ==
  IF request[e].op = "AddMember" THEN request[e].member ELSE request[e].user

IsMember(u, members) == \E e \in members : MemberOf(e) = u

\* A mutated form: everybody may post.
isAuthorizedAll(u, c) == TRUE

isAuthorized(u, c) == ~channels[c].private \/ IsMember(u, channels[c].members)

\* A mutated form: everybody counts as the creator.
isCreatorOfAll(u, c) == TRUE

isCreator(u, c) == channels[c].creator = u

At(r, op, place) == request[r].at = place /\ request[r].op = op

\* A request whose body and documents are `fields' goes on to its write ...
Proceed(r, fields) == request' = [request EXCEPT ![r] = [fields EXCEPT !.at = "write"]]

\* ... or is answered at once.
Answer(r, fields, status) ==
  request' = [request EXCEPT ![r] = [fields EXCEPT !.at = "done", !.status = status]]

\* The first answer is the one that is sent.
Reply(r, status) ==
  request' = [request EXCEPT ![r].at = "done", ![r].status = IF @ = 0 THEN status ELSE @]

Sent(op, u, c) == [Unsent EXCEPT !.op = op, !.user = u, !.target = c]

\* A write took effect, and its answer may be lost.
Acknowledge(r, status) == Reply(r, status) \/ Reply(r, 500)

-----------------------------------------------------------------------------
\* GetUser finds no user for the header, or the path or body lacks an id or a
\* name: no document is read.
TurnAway(r) ==
  /\ request[r].at = "new"
  /\ \E status \in {400, 401, 500} : Answer(r, Unsent, status)
  /\ UNCHANGED <<channels, messages, pending>>

(* ChannelHandler.post: a name is looked up, then the channel created. *)

FindName(r) ==
  /\ request[r].at = "new"
  /\ \E u \in Users, n \in Names, private, listed \in BOOLEAN :
       /\ listed => private   \* members has the creator if private === true
       /\ LET fields == [Sent("CreateChannel", u, General) EXCEPT
                           !.name = n, !.private = private, !.listed = listed]
          IN \/ HasName(n) /\ Answer(r, fields, 400)
             \/ ~HasName(n) /\ Proceed(r, fields)
             \/ Answer(r, fields, 500)
  /\ UNCHANGED <<channels, messages, pending>>

\* A mutated form: the lookup alone keeps names apart.
NameIsFreeUnchecked(r) == TRUE

\* The unique index on name: a channel that has it is the one being renamed.
NameIsFree(r) ==
  \A c \in ChannelIDs : Exists(c) /\ channels[c].name = request[r].name =>
    request[r].op = "PatchChannel" /\ request[r].target = c

CreateChannel(r) ==
  /\ At(r, "CreateChannel", "write")
  /\ \/ /\ NameIsFree(r)
        /\ channels' = [channels EXCEPT ![r] =
             [name |-> request[r].name, creator |-> request[r].user,
              private |-> request[r].private, version |-> 0, editor |-> r,
              members |-> IF request[r].listed THEN {r} ELSE {}]]
        /\ Acknowledge(r, 201)
     \/ UNCHANGED channels /\ Reply(r, 500)
  /\ UNCHANGED <<messages, pending>>

-----------------------------------------------------------------------------
(* The handlers below begin with getChannel. *)

\* getChannel for request r of user u: the query fails, or there is none.
NoSuchChannel(r, fields) ==
  \/ ~Exists(fields.target) /\ Answer(r, fields, 400)
  \/ Answer(r, fields, 500)

GetChannelToPost(r) ==
  /\ request[r].at = "new"
  /\ \E u \in Users, c \in ChannelIDs :
       LET fields == Sent("PostMessage", u, c) IN
         \/ NoSuchChannel(r, fields)
         \/ Exists(c) /\ IF isAuthorized(u, c) THEN Proceed(r, fields)
                                               ELSE Answer(r, fields, 403)
  /\ UNCHANGED <<channels, messages, pending>>

\* MessageModel.create: there is no check that the channel still exists.
PostMessage(r) ==
  /\ At(r, "PostMessage", "write")
  /\ \/ /\ messages' = [messages EXCEPT ![r] =
             [channel |-> request[r].target, editor |-> r]]
        /\ Acknowledge(r, 201)
     \/ UNCHANGED messages /\ Reply(r, 500)
  /\ UNCHANGED <<channels, pending>>

\* PATCH and DELETE of a channel: not of `general', and by the creator.
GetChannelToChange(r) ==
  /\ request[r].at = "new"
  /\ \E u \in Users, c \in ChannelIDs, op \in {"PatchChannel", "DeleteChannel"},
        n \in Names \cup {NoName} :
       LET fields == [Sent(op, u, c) EXCEPT !.name = n] IN
         /\ op = "DeleteChannel" => n = NoName
         /\ \/ NoSuchChannel(r, fields)
            \/ /\ Exists(c)
               /\ IF channels[c].name = GeneralName THEN Answer(r, fields, 400)
                  ELSE IF ~isCreator(u, c) THEN Answer(r, fields, 403)
                  ELSE \/ Proceed(r, fields)
                       \* neither name nor description: 400 is sent, and the
                       \* handler does not return
                       \/ /\ op = "PatchChannel" /\ n = NoName
                          /\ Proceed(r, [fields EXCEPT !.status = 400])
  /\ UNCHANGED <<channels, messages, pending>>

\* save(): fails if the channel is gone or its new name is taken.  The
\* description is compared, not assigned.
SaveChannel(r) ==
  /\ At(r, "PatchChannel", "write")
  /\ LET c == request[r].target IN
       \/ /\ Exists(c) /\ NameIsFree(r)
          /\ channels' = [channels EXCEPT ![c].editor = r,
               ![c].name = IF request[r].name = NoName THEN @ ELSE request[r].name]
          /\ Acknowledge(r, 200)
       \/ UNCHANGED channels /\ Reply(r, 500)
  /\ UNCHANGED <<messages, pending>>

\* The transaction's operations do not take part in it: two steps, and the
\* second may fail alone.
DeleteChannel(r) ==
  /\ At(r, "DeleteChannel", "write")
  /\ \/ /\ channels' = [channels EXCEPT ![request[r].target] = NoChannel]
        /\ \/ request' = [request EXCEPT ![r].at = "messages"]
           \/ Reply(r, 500)
     \/ UNCHANGED channels /\ Reply(r, 500)
  /\ UNCHANGED <<messages, pending>>

DeleteMessages(r) ==
  /\ At(r, "DeleteChannel", "messages")
  /\ \/ /\ messages' = [m \in Requests |->
             IF messages[m] # NoMessage /\ messages[m].channel = request[r].target
             THEN NoMessage ELSE messages[m]]
        /\ Acknowledge(r, 200)
     \/ UNCHANGED messages /\ Reply(r, 500)
  /\ UNCHANGED <<channels, pending>>

-----------------------------------------------------------------------------
(* MembersHandler. *)

\* A mutated form: 400 to a member that is there already, and no return.
GetChannelToAddAnyway(r) ==
  /\ request[r].at = "new"
  /\ \E u, m \in Users, c \in ChannelIDs :
       LET fields == [Sent("AddMember", u, c) EXCEPT !.member = m] IN
         /\ Exists(c) /\ isCreator(u, c) /\ channels[c].private
         /\ Proceed(r, [fields EXCEPT
              !.status = IF IsMember(m, channels[c].members) THEN 400 ELSE 0])
  /\ UNCHANGED <<channels, messages, pending>>

\* 400 also if there is no such user or the email is not that user's.
GetChannelToAdd(r) ==
  /\ request[r].at = "new"
  /\ \E u, m \in Users, c \in ChannelIDs :
       LET fields == [Sent("AddMember", u, c) EXCEPT !.member = m] IN
         \/ NoSuchChannel(r, fields)
         \/ Exists(c) /\
              IF ~isCreator(u, c) THEN Answer(r, fields, 403)
              ELSE IF ~channels[c].private \/ IsMember(m, channels[c].members)
              THEN Answer(r, fields, 400)
              ELSE Proceed(r, fields) \/ Answer(r, fields, 400)
  /\ UNCHANGED <<channels, messages, pending>>

\* members.push(newMember) and save(): a $push.
PushMember(r) ==
  /\ At(r, "AddMember", "write")
  /\ LET c == request[r].target IN
       \/ /\ Exists(c)
          /\ channels' = [channels EXCEPT ![c].members = @ \cup {r},
               ![c].version = @ + 1, ![c].editor = r]
          /\ Acknowledge(r, 201)
       \/ UNCHANGED channels /\ Reply(r, 500)
  /\ UNCHANGED <<messages, pending>>

GetChannelToRemove(r) ==
  /\ request[r].at = "new"
  /\ \E u, m \in Users, c \in ChannelIDs :
       LET fields == [Sent("RemoveMember", u, c) EXCEPT !.member = m] IN
         \/ NoSuchChannel(r, fields)
         \/ Exists(c) /\
              IF ~isCreator(u, c) THEN Answer(r, fields, 403)
              ELSE IF \/ ~channels[c].private \/ m = channels[c].creator
                      \/ ~IsMember(m, channels[c].members)
              THEN Answer(r, fields, 400)
              ELSE Proceed(r, [fields EXCEPT !.members = channels[c].members,
                                             !.version = channels[c].version])
  /\ UNCHANGED <<channels, messages, pending>>

\* A mutated form: the array is set whatever was pushed meanwhile.
SameVersionUnchecked(r) == Exists(request[r].target)

SameVersion(r) ==
  Exists(request[r].target) /\ channels[request[r].target].version = request[r].version

\* channel.members = members and save(): a $set, guarded by the version.
SetMembers(r) ==
  /\ At(r, "RemoveMember", "write")
  /\ LET c == request[r].target IN
       \/ /\ SameVersion(r)
          /\ channels' = [channels EXCEPT
               ![c].members = {e \in request[r].members : MemberOf(e) # request[r].member},
               ![c].version = @ + 1, ![c].editor = r]
          /\ Acknowledge(r, 200)
       \/ UNCHANGED channels /\ Reply(r, 500)
  /\ UNCHANGED <<messages, pending>>

-----------------------------------------------------------------------------
(* Messages: GetMessage, IsCreator, then the handler. *)

NoSuchMessage(r, fields) ==
  \/ messages[fields.target] = NoMessage /\ Answer(r, fields, 401)
  \/ Answer(r, fields, 500)

\* next(403) uses up Express's stack, so the next() after it finds no handler.
IsMessageCreator(u, m) == messages[m] # NoMessage /\ request[m].user = u

\* A mutated form: 400 to an edit without a body, and no return.
GetMessageToChangeAnyway(r) ==
  /\ request[r].at = "new"
  /\ \E m \in Requests : messages[m] # NoMessage /\
       Answer(r, Sent("PatchMessage", request[m].user, m), 400)
  /\ pending' = pending \cup {r}
  /\ UNCHANGED <<channels, messages>>

\* Nothing is awaited between the answer to a PATCH and the start of its save.
GetMessageToChange(r) ==
  /\ request[r].at = "new"
  /\ \E u \in Users, m \in Requests, op \in {"PatchMessage", "DeleteMessage"} :
       LET fields == Sent(op, u, m)
           mine   == IsMessageCreator(u, m)
       IN \/ /\ \/ NoSuchMessage(r, fields)
                \/ messages[m] # NoMessage /\ ~mine /\ Answer(r, fields, 403)
                \/ mine /\ op = "PatchMessage" /\ Answer(r, fields, 400)
                \/ mine /\ op = "DeleteMessage" /\ Proceed(r, fields)
             /\ UNCHANGED pending
          \/ /\ mine /\ op = "PatchMessage"
             /\ Answer(r, fields, 200)
             /\ pending' = pending \cup {r}
  /\ UNCHANGED <<channels, messages>>

\* A mutated form: the save stores the message whether or not it is there.
SaveMessageWhole(r) ==
  /\ r \in pending
  /\ pending' = pending \ {r}
  /\ messages' = [messages EXCEPT ![request[r].target] =
       [channel |-> request[request[r].target].target, editor |-> r]]
  /\ UNCHANGED <<channels, request>>

\* The save of a PATCH ends; if it failed, or the message is gone, nobody
\* is told.
SaveMessage(r) ==
  /\ r \in pending
  /\ pending' = pending \ {r}
  /\ \/ /\ messages[request[r].target] # NoMessage
        /\ messages' = [messages EXCEPT ![request[r].target].editor = r]
     \/ UNCHANGED messages
  /\ UNCHANGED <<channels, request>>

DeleteMessage(r) ==
  /\ At(r, "DeleteMessage", "write")
  /\ \/ /\ messages' = [messages EXCEPT ![request[r].target] = NoMessage]
        /\ Acknowledge(r, 200)
     \/ UNCHANGED messages /\ Reply(r, 500)
  /\ UNCHANGED <<channels, pending>>

-----------------------------------------------------------------------------
\* Nothing is left to do.
Quiet ==
  /\ pending = {}
  /\ \A r \in Requests : request[r].at = "done"
  /\ UNCHANGED vars

Next ==
  \/ \E r \in Requests :
       \/ TurnAway(r)
       \/ FindName(r) \/ CreateChannel(r)
       \/ GetChannelToPost(r) \/ PostMessage(r)
       \/ GetChannelToChange(r) \/ SaveChannel(r)
       \/ DeleteChannel(r) \/ DeleteMessages(r)
       \/ GetChannelToAdd(r) \/ PushMember(r)
       \/ GetChannelToRemove(r) \/ SetMembers(r)
       \/ GetMessageToChange(r) \/ SaveMessage(r) \/ DeleteMessage(r)
  \/ Quiet

Spec == Init /\ [][Next]_vars

-----------------------------------------------------------------------------
(* Properties. *)

\* Documents and requests have their types, and what is still being saved is
\* an edit that was answered 200.
TypeOK ==
  /\ \A c \in ChannelIDs : Exists(c) => channels[c] \in Channels
  /\ \A m \in Requests : messages[m] # NoMessage => messages[m] \in Messages
  /\ request \in [Requests -> RequestStates]
  /\ \A r \in pending : At(r, "PatchMessage", "done") /\ request[r].status = 200

\* No two channels have one name, though creates and renames look the name up,
\* if at all, some time before they write (channel.ts:54, 182).
NamesUnique ==
  \A c, d \in ChannelIDs :
    Exists(c) /\ Exists(d) /\ channels[c].name = channels[d].name => c = d

\* r is an answered request of `op' on c; a 500 may have had its effect.
Done(r, op, c) ==
  /\ request[r].op = op /\ request[r].target = c
  /\ request[r].at \in {"messages", "done"} /\ request[r].status \in {0, 200, 500}

\* Whoever last saved a channel or message created it, and one that is gone
\* was deleted by its creator, or with its channel (channel.ts:171, 217, 266,
\* 317, utils.ts:112): between the check and the write nothing changes that.
OnlyCreatorsChange ==
  /\ \A c \in Requests : Exists(c) =>
       request[channels[c].editor].user = channels[c].creator
  /\ \A c \in Requests : At(c, "CreateChannel", "done") /\ request[c].status = 201 =>
       \/ Exists(c)
       \/ \E r \in Requests : Done(r, "DeleteChannel", c) /\ request[r].user = request[c].user
  /\ \A m \in Requests : messages[m] # NoMessage =>
       request[messages[m].editor].user = request[m].user
  /\ \A m \in Requests : At(m, "PostMessage", "done") /\ request[m].status = 201 =>
       \/ messages[m] # NoMessage
       \/ \E r \in Requests : Done(r, "DeleteMessage", m) /\ request[r].user = request[m].user
       \/ \E r \in Requests : Done(r, "DeleteChannel", request[m].target)

\* A request answered 400, 401 or 403 saved nothing; but for a PATCH of a
\* channel with nothing to change, whose handler goes on (channel.ts:179).
RefusedRequestsWriteNothing ==
  \A r \in Requests :
    /\ request[r].at = "done" /\ request[r].status \in {400, 401, 403}
    /\ ~(request[r].op = "PatchChannel" /\ request[r].name = NoName)
    => /\ messages[r] = NoMessage /\ ~Exists(r)
       /\ \A c \in ChannelIDs : Exists(c) => channels[c].editor # r /\ r \notin channels[c].members
       /\ \A m \in Requests : messages[m] # NoMessage => messages[m].editor # r

\* A member that was stored, by AddMember or as the creator of a new channel,
\* stays until a RemoveMember of that user: one that read the array before the
\* push does not write the push away (channel.ts:297, 348).
MembersStay ==
  \A r \in Requests, c \in ChannelIDs :
    /\ Exists(c)
    /\ \/ request[r].op = "AddMember" /\ request[r].status = 201 /\ request[r].target = c
       \/ r = c /\ request[r].listed
    => \/ r \in channels[c].members
       \/ \E q \in Requests : Done(q, "RemoveMember", c) /\ request[q].member = MemberOf(r)

\* The author of a message in a private channel is one of its members, or was
\* until a RemoveMember (channel.ts:129).
AuthorsWereMembers ==
  \A m \in Requests : messages[m] # NoMessage =>
    LET c == messages[m].channel IN
      Exists(c) /\ channels[c].private =>
        \/ IsMember(request[m].user, channels[c].members)
        \/ \E q \in Requests : /\ Done(q, "RemoveMember", c)
                               /\ request[q].member = request[m].user

\* "Delete messages associated with channel" (channel.ts:227): a message has
\* its channel, unless the messages of that channel are just being deleted.
MessagesHaveTheirChannel ==
  \A m \in Requests : messages[m] # NoMessage =>
    LET c == messages[m].channel IN
      Exists(c) \/ \E r \in Requests : At(r, "DeleteChannel", "messages") /\ request[r].target = c

\* The user whose request last saved channel c.
SavedBy(c) ==
  IF channels[c].editor = General THEN Admin ELSE request[channels[c].editor].user

\* What there is of channels and messages.  Whoever last saved one stands for
\* the one who created it, and users stand for the elements of members.
StoredChannels ==
  [c \in {d \in ChannelIDs : Exists(d)} |->
     [name    |-> channels[c].name,    creator |-> SavedBy(c),
      private |-> channels[c].private,
      members |-> {MemberOf(e) : e \in channels[c].members}]]

StoredMessages ==
  [m \in {n \in Requests : messages[n] # NoMessage} |->
     [channel |-> messages[m].channel, author |-> request[messages[m].editor].user]]

UsedChannels == {c \in ChannelIDs : c = General \/ At(c, "CreateChannel", "done")}
UsedMessages == {m \in Requests : At(m, "PostMessage", "done")}

Talk == INSTANCE Conversations WITH
          channels     <- StoredChannels,
          messages     <- StoredMessages,
          usedChannels <- UsedChannels,
          usedMessages <- UsedMessages

\* Channels and messages change as Conversations says: one at a time, by a user
\* who may change them at the moment of the write, no save bringing back what
\* was deleted after it was read (channel.ts:190, 301, 351, message.ts:32).
ImplementsConversations == Talk!Spec
=============================================================================
