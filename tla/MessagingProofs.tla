--------------------------- MODULE MessagingProofs ---------------------------
(***************************************************************************)
(* Proofs about Messaging, for any set of requests, users and names.       *)
(***************************************************************************)
EXTENDS Messaging, TLAPS

Typed ==
  /\ channels \in [ChannelIDs -> Channels \cup {NoChannel}]
  /\ messages \in [Requests -> Messages \cup {NoMessage}]
  /\ request \in [Requests -> RequestStates]
  /\ pending \subseteq Requests

\* Nobody is the creator of the general channel: it stays as it is.
GeneralKept ==
  channels[General] = [name |-> GeneralName, creator |-> Admin, private |-> FALSE,
                       members |-> {}, version |-> 0, editor |-> General]

\* A document is what the request made of it that it is named by.
ChannelsMade ==
  \A c \in Requests : Exists(c) =>
    /\ At(c, "CreateChannel", "done") /\ request[c].status \in {201, 500}
    /\ channels[c].creator = request[c].user
    /\ channels[c].private = request[c].private

MessagesMade ==
  \A m \in Requests : messages[m] # NoMessage =>
    /\ At(m, "PostMessage", "done") /\ request[m].status \in {201, 500}
    /\ messages[m].channel = request[m].target

\* What was created or posted, be it deleted by now.
Founding(c) == c = General \/ (c \in Requests /\ At(c, "CreateChannel", "done"))
CreatedBy(u, c) == c \in Requests /\ At(c, "CreateChannel", "done") /\ request[c].user = u
PostedBy(u, m)  == m \in Requests /\ At(m, "PostMessage", "done") /\ request[m].user = u

OfMembers  == {"AddMember", "RemoveMember"}
OfCreators == {"PatchChannel", "DeleteChannel", "AddMember", "RemoveMember"}

Unfinished(r) == request[r].at \in {"write", "messages"}

\* What a request knows once its checks are behind it.
EntitledAt(r) ==
  /\ request[r].at = "messages" => request[r].op = "DeleteChannel"
  /\ Unfinished(r) =>
       /\ request[r].op \in OfCreators \cup {"CreateChannel", "PostMessage", "DeleteMessage"}
       /\ \/ request[r].status = 0
          \/ /\ request[r].op = "PatchChannel" /\ request[r].name = NoName
             /\ request[r].status = 400
       /\ request[r].op = "CreateChannel" =>
            request[r].user \in Users /\ request[r].name \in Names
       /\ request[r].op \in OfCreators => CreatedBy(request[r].user, request[r].target)
       /\ request[r].op = "DeleteMessage" => PostedBy(request[r].user, request[r].target)
       /\ request[r].op = "PostMessage" => Founding(request[r].target)
  /\ request[r].op = "AddMember" /\ request[r].status = 201 => Founding(request[r].target)
  /\ r \in pending => /\ At(r, "PatchMessage", "done") /\ request[r].status = 200
                      /\ PostedBy(request[r].user, request[r].target)

Entitled == \A r \in Requests : EntitledAt(r)

\* The version says whether the members are still those a request has read.
SnapshotOf(r) ==
  LET c == request[r].target IN
    At(r, "RemoveMember", "write") /\ Exists(c) =>
      /\ request[r].version <= channels[c].version
      /\ request[r].version = channels[c].version =>
           request[r].members = channels[c].members

Snapshots == \A r \in Requests : SnapshotOf(r)

\* r was answered, and not told to have been refused.
Settled(r) ==
  /\ r \in Requests /\ request[r].at = "done"
  /\ \/ request[r].status \notin {400, 401, 403}
     \/ request[r].op = "PatchChannel" /\ request[r].name = NoName

\* What is stored was stored by requests that are settled, of the creator.
Editors ==
  /\ \A c \in Requests : Exists(c) =>
       /\ Settled(channels[c].editor)
       /\ request[channels[c].editor].user = channels[c].creator
       /\ \A e \in channels[c].members : Settled(e)
  /\ \A m \in Requests : messages[m] # NoMessage =>
       /\ Settled(messages[m].editor)
       /\ request[messages[m].editor].user = request[m].user
       /\ Founding(messages[m].channel)

\* Who is gone was deleted by whom it takes.
Deletions ==
  /\ \A c \in Requests : At(c, "CreateChannel", "done") /\ request[c].status = 201 =>
       \/ Exists(c)
       \/ \E r \in Requests : Done(r, "DeleteChannel", c) /\ request[r].user = request[c].user
  /\ \A m \in Requests : At(m, "PostMessage", "done") /\ request[m].status = 201 =>
       \/ messages[m] # NoMessage
       \/ \E r \in Requests : Done(r, "DeleteMessage", m) /\ request[r].user = request[m].user
       \/ \E r \in Requests : Done(r, "DeleteChannel", request[m].target)

\* u is a member of channel c, or was until a RemoveMember; or needs not be.
MayHavePosted(u, c) ==
  Exists(c) /\ channels[c].private =>
    \/ IsMember(u, channels[c].members)
    \/ \E q \in Requests : Done(q, "RemoveMember", c) /\ request[q].member = u

\* Authors are members from the check on.
AuthorsAreMembers ==
  /\ \A r \in Requests : At(r, "PostMessage", "write") =>
       MayHavePosted(request[r].user, request[r].target)
  /\ \A m \in Requests : messages[m] # NoMessage =>
       MayHavePosted(request[m].user, messages[m].channel)

\* What a request knows of users, what one that changes members has found, and
\* how far a deletion is.
RuledAt(r) ==
  /\ Unfinished(r) => request[r].user \in Users
  /\ At(r, "CreateChannel", "write") /\ request[r].listed = TRUE => request[r].private = TRUE
  /\ request[r].at = "write" /\ request[r].op \in OfMembers =>
       request[r].member \in Users /\ request[request[r].target].private = TRUE
  /\ At(r, "RemoveMember", "write") => request[r].member # request[r].user
  /\ request[r].at = "messages" => ~Exists(request[r].target)

Ruled == \A r \in Requests : RuledAt(r)

IInv ==
  /\ Typed /\ GeneralKept /\ ChannelsMade /\ MessagesMade /\ Entitled /\ Snapshots
  /\ Editors /\ Deletions /\ NamesUnique /\ MembersStay /\ AuthorsAreMembers
-----------------------------------------------------------------------------
(* The shapes of a step: what becomes of request r, of the channels and of *)
(* the messages.                                                           *)

Frame(r) ==
  /\ request' \in [Requests -> RequestStates]
  /\ \A q \in Requests \ {r} : request'[q] = request[q]
  /\ request[r].at # "done"

Keeps(r) ==
  /\ request'[r].op = request[r].op /\ request'[r].user = request[r].user
  /\ request'[r].target = request[r].target /\ request'[r].member = request[r].member
  /\ request'[r].name = request[r].name /\ request'[r].private = request[r].private
  /\ request'[r].listed = request[r].listed /\ request'[r].members = request[r].members
  /\ request'[r].version = request[r].version

Ends(r, code) ==
  /\ Frame(r) /\ Keeps(r)
  /\ request'[r].at = "done"
  /\ request'[r].status = IF request[r].status = 0 THEN code ELSE request[r].status

Writes(r, op, code) ==
  /\ At(r, op, "write") /\ (Ends(r, code) \/ Ends(r, 500))
  /\ UNCHANGED pending

Only(c) ==
  /\ channels' \in [ChannelIDs -> Channels \cup {NoChannel}]
  /\ \A d \in ChannelIDs \ {c} : channels'[d] = channels[d]

OnlyMessage(m) ==
  /\ messages' \in [Requests -> Messages \cup {NoMessage}]
  /\ \A n \in Requests \ {m} : messages'[n] = messages[n]

OldMembers(c) ==
  /\ channels'[c].members = channels[c].members
  /\ channels'[c].version = channels[c].version

\* Channel c is saved by r.
Saved(r, c) ==
  /\ Exists(c) /\ Only(c) /\ channels'[c] \in Channels
  /\ channels'[c].creator = channels[c].creator
  /\ channels'[c].private = channels[c].private
  /\ channels'[c].editor = r
  /\ UNCHANGED messages

\* What a request just read entitles it to write what its record g says.
Checked(g) ==
  /\ g.op \in OfCreators \cup {"CreateChannel", "PostMessage", "DeleteMessage"}
  /\ g.status = 0 \/ (g.op = "PatchChannel" /\ g.name = NoName /\ g.status = 400)
  /\ g.user \in Users
  /\ g.op = "CreateChannel" => /\ g.name \in Names
                               /\ g.listed = TRUE => g.private = TRUE
  /\ g.op \in OfMembers => /\ Exists(g.target) /\ channels[g.target].private = TRUE
                           /\ g.member \in Users
  /\ g.op = "RemoveMember" => g.member # g.user
  /\ g.op \in OfCreators => CreatedBy(g.user, g.target)
  /\ g.op = "DeleteMessage" => PostedBy(g.user, g.target)
  /\ g.op = "PostMessage" => Founding(g.target) /\ MayHavePosted(g.user, g.target)
  /\ g.op = "RemoveMember" => /\ g.version = channels[g.target].version
                              /\ g.members = channels[g.target].members

Grounds(g) ==
  /\ g.at \in {"write", "done"}
  /\ g.at = "done" => \/ g.status \in {400, 401, 403, 500}
                      \/ g.op = "PatchMessage" /\ g.status = 200
  /\ g.at = "write" => Checked(g)

Asks(r) ==
  /\ Frame(r) /\ request[r].at = "new" /\ Grounds(request'[r])
  /\ \/ UNCHANGED pending
     \/ /\ pending' = pending \cup {r}
        /\ request'[r].at = "done" /\ request'[r].status = 200
        /\ request'[r].op = "PatchMessage"
        /\ PostedBy(request'[r].user, request'[r].target)
  /\ UNCHANGED <<channels, messages>>

Fails(r) ==
  /\ Unfinished(r) /\ Ends(r, 500)
  /\ UNCHANGED <<channels, messages, pending>>

Makes(r) ==
  /\ Writes(r, "CreateChannel", 201)
  /\ NameIsFree(r) /\ Only(r) /\ channels'[r] \in Channels
  /\ channels'[r].name = request[r].name /\ channels'[r].creator = request[r].user
  /\ channels'[r].private = request[r].private /\ channels'[r].editor = r
  /\ channels'[r].members = IF request[r].listed THEN {r} ELSE {}
  /\ UNCHANGED messages

Renames(r) ==
  /\ Writes(r, "PatchChannel", 200)
  /\ NameIsFree(r) /\ Saved(r, request[r].target) /\ OldMembers(request[r].target)
  /\ channels'[request[r].target].name =
       IF request[r].name = NoName THEN channels[request[r].target].name ELSE request[r].name

Pushes(r) ==
  /\ Writes(r, "AddMember", 201)
  /\ Saved(r, request[r].target)
  /\ channels'[request[r].target].name = channels[request[r].target].name
  /\ channels'[request[r].target].members = channels[request[r].target].members \cup {r}
  /\ channels'[request[r].target].version = channels[request[r].target].version + 1

Sets(r) ==
  /\ Writes(r, "RemoveMember", 200)
  /\ SameVersion(r) /\ Saved(r, request[r].target)
  /\ channels'[request[r].target].name = channels[request[r].target].name
  /\ channels'[request[r].target].members =
       {e \in request[r].members : MemberOf(e) # request[r].member}
  /\ channels'[request[r].target].version = channels[request[r].target].version + 1

Deletes(r) ==
  /\ At(r, "DeleteChannel", "write")
  /\ Only(request[r].target) /\ channels'[request[r].target] = NoChannel
  /\ \/ /\ Frame(r) /\ Keeps(r) /\ request'[r].at = "messages"
        /\ request'[r].status = request[r].status
     \/ Ends(r, 500)
  /\ UNCHANGED <<messages, pending>>

Purges(r) ==
  /\ At(r, "DeleteChannel", "messages") /\ (Ends(r, 200) \/ Ends(r, 500))
  /\ messages' \in [Requests -> Messages \cup {NoMessage}]
  /\ \A m \in Requests : messages'[m] =
       IF messages[m] # NoMessage /\ messages[m].channel = request[r].target
       THEN NoMessage ELSE messages[m]
  /\ UNCHANGED <<channels, pending>>

Posts(r) ==
  /\ Writes(r, "PostMessage", 201)
  /\ OnlyMessage(r)
  /\ messages'[r] = [channel |-> request[r].target, editor |-> r]
  /\ UNCHANGED channels

Unposts(r) ==
  /\ Writes(r, "DeleteMessage", 200)
  /\ OnlyMessage(request[r].target) /\ messages'[request[r].target] = NoMessage
  /\ UNCHANGED channels

Saves(r) ==
  /\ r \in pending /\ pending' = pending \ {r}
  /\ \/ UNCHANGED messages
     \/ /\ messages[request[r].target] # NoMessage /\ OnlyMessage(request[r].target)
        /\ messages'[request[r].target] =
             [channel |-> messages[request[r].target].channel, editor |-> r]
  /\ UNCHANGED <<channels, request>>

Steps(r) ==
  \/ Asks(r) \/ Fails(r) \/ Makes(r) \/ Renames(r) \/ Pushes(r) \/ Sets(r)
  \/ Deletes(r) \/ Purges(r) \/ Posts(r) \/ Unposts(r) \/ Saves(r)

-----------------------------------------------------------------------------
(* Every step has one of the shapes. *)

\* The fields of a request, as sets that stay folded.
Places  == {"new", "write", "messages", "done"}
Ops     == {"none", "CreateChannel", "PatchChannel", "DeleteChannel",
            "PostMessage", "PatchMessage", "DeleteMessage", "AddMember",
            "RemoveMember"}
Callers == Users \cup {NoUser}
Titles  == Names \cup {NoName}
Lists   == SUBSET Requests
Codes   == {0, 200, 201, 400, 401, 403, 500}

LEMMA Fields ==
  RequestStates = [at : Places, op : Ops, user : Callers, target : ChannelIDs,
                   member : Callers, name : Titles, private : BOOLEAN,
                   listed : BOOLEAN, members : Lists, version : Nat, status : Codes]
BY DEF RequestStates, Places, Ops, Callers, Titles, Lists, Codes

LEMMA ReplyEnds ==
  ASSUME Typed, NEW r \in Requests, request[r].at # "done",
         NEW code \in Codes, Reply(r, code)
  PROVE  Ends(r, code)
<1>1. request \in [Requests -> RequestStates] /\ "done" \in Places
  BY DEF Typed, Places
<1>2. PICK c \in Codes : c = IF request[r].status = 0 THEN code ELSE request[r].status
  BY <1>1, Fields
<1>3. PICK f : f = [request[r] EXCEPT !.at = "done", !.status = c]
  OBVIOUS
<1>4. f \in RequestStates /\ f.at = "done" /\ f.status = c
  BY <1>1, <1>3, Fields
<1>5. /\ f.op = request[r].op /\ f.user = request[r].user
      /\ f.target = request[r].target /\ f.member = request[r].member
      /\ f.name = request[r].name /\ f.private = request[r].private
      /\ f.listed = request[r].listed /\ f.members = request[r].members
      /\ f.version = request[r].version
  BY <1>1, <1>3, Fields
<1>6. request' = [request EXCEPT ![r] = f]
  BY <1>1, <1>2, <1>3 DEF Reply
<1>7. Frame(r) /\ request'[r] = f
  BY <1>1, <1>4, <1>6 DEF Frame
<1> QED
  BY <1>2, <1>4, <1>5, <1>7 DEF Ends, Keeps

\* A request arrives with the fields f and is at place.
LEMMA ArrivalFrame ==
  ASSUME Typed, NEW r \in Requests, request[r].at # "done",
         NEW f \in RequestStates, NEW place \in Places, NEW code \in Codes,
         request' = [request EXCEPT ![r] = [f EXCEPT !.at = place, !.status = code]]
  PROVE  /\ Frame(r)
         /\ request'[r].at = place /\ request'[r].status = code
         /\ request'[r].op = f.op /\ request'[r].user = f.user
         /\ request'[r].target = f.target /\ request'[r].name = f.name
         /\ request'[r].members = f.members /\ request'[r].version = f.version
         /\ request'[r].member = f.member /\ request'[r].private = f.private
         /\ request'[r].listed = f.listed
<1>1. request \in [Requests -> RequestStates]
  BY DEF Typed
<1>2. [f EXCEPT !.at = place, !.status = code] \in RequestStates
  BY Fields
<1> QED
  BY <1>1, <1>2, Fields DEF Frame

LEMMA AnswerFrame ==
  ASSUME Typed, NEW r \in Requests, request[r].at # "done",
         NEW f \in RequestStates, NEW code \in Codes, Answer(r, f, code)
  PROVE  /\ Frame(r)
         /\ request'[r].at = "done" /\ request'[r].status = code
         /\ request'[r].op = f.op /\ request'[r].user = f.user
         /\ request'[r].target = f.target
<1>1. "done" \in Places
  BY DEF Places
<1> QED
  BY <1>1, ArrivalFrame DEF Answer

LEMMA ProceedFrame ==
  ASSUME Typed, NEW r \in Requests, request[r].at # "done",
         NEW f \in RequestStates, Proceed(r, f)
  PROVE  /\ Frame(r)
         /\ request'[r].at = "write" /\ request'[r].status = f.status
         /\ request'[r].op = f.op /\ request'[r].user = f.user
         /\ request'[r].target = f.target /\ request'[r].name = f.name
         /\ request'[r].members = f.members /\ request'[r].version = f.version
         /\ request'[r].member = f.member /\ request'[r].private = f.private
         /\ request'[r].listed = f.listed
<1>1. request \in [Requests -> RequestStates] /\ "write" \in Places
  BY DEF Typed, Places
<1>2. [f EXCEPT !.at = "write"] \in RequestStates
  BY <1>1, Fields
<1> QED
  BY <1>1, <1>2, Fields DEF Proceed, Frame

LEMMA SentFields ==
  ASSUME NEW op \in Ops, NEW u \in Users, NEW c \in ChannelIDs
  PROVE  /\ Sent(op, u, c) \in RequestStates
         /\ Sent(op, u, c).op = op /\ Sent(op, u, c).user = u
         /\ Sent(op, u, c).target = c /\ Sent(op, u, c).status = 0
<1>1. /\ "new" \in Places /\ "none" \in Ops /\ NoUser \in Callers /\ General \in ChannelIDs
      /\ NoName \in Titles /\ {} \in Lists /\ 0 \in Nat /\ 0 \in Codes
      /\ u \in Callers /\ FALSE \in BOOLEAN
  BY DEF Places, Ops, Callers, ChannelIDs, Titles, Lists, Codes
<1>2. Unsent \in RequestStates /\ Unsent.status = 0
  BY <1>1, Fields DEF Unsent
<1> QED
  BY <1>1, <1>2, Fields DEF Sent

LEMMA AnswersWith ==
  ASSUME Typed, NEW r \in Requests, request[r].at = "new",
         NEW f \in RequestStates, NEW code \in {400, 401, 403, 500}, Answer(r, f, code),
         UNCHANGED <<channels, messages, pending>>
  PROVE  Asks(r)
<1>1. code \in Codes
  BY DEF Codes
<1> QED
  BY <1>1, AnswerFrame DEF Asks, Grounds

LEMMA ProceedsWith ==
  ASSUME Typed, NEW r \in Requests, request[r].at = "new",
         NEW f \in RequestStates, Checked(f), Proceed(r, f),
         UNCHANGED <<channels, messages, pending>>
  PROVE  Asks(r)
<1>1. /\ Frame(r)
      /\ request'[r].at = "write" /\ request'[r].status = f.status
      /\ request'[r].op = f.op /\ request'[r].user = f.user
      /\ request'[r].target = f.target /\ request'[r].name = f.name
      /\ request'[r].members = f.members /\ request'[r].version = f.version
      /\ request'[r].member = f.member /\ request'[r].private = f.private
      /\ request'[r].listed = f.listed
  BY ProceedFrame
<1>2. Checked(request'[r])
  BY <1>1 DEF Checked
<1> QED
  BY <1>1, <1>2 DEF Asks, Grounds

LEMMA NoSuchChannelAsks ==
  ASSUME Typed, NEW r \in Requests, request[r].at = "new",
         NEW f \in RequestStates, NoSuchChannel(r, f),
         UNCHANGED <<channels, messages, pending>>
  PROVE  Asks(r)
BY AnswersWith DEF NoSuchChannel

\* Only for a user who created it is one the creator of a channel.
LEMMA CreatorsChannel ==
  ASSUME IInv, NEW u \in Users, NEW c \in ChannelIDs, Exists(c), isCreator(u, c)
  PROVE  CreatedBy(u, c)
BY MessagingAssumption
DEF IInv, GeneralKept, ChannelsMade, isCreator, CreatedBy, At, ChannelIDs

LEMMA PrivateOrNot ==
  ASSUME IInv, NEW c \in ChannelIDs, Exists(c)
  PROVE  channels[c].private \in BOOLEAN
BY DEF IInv, Typed, Exists, Channels

LEMMA FindNameAsks ==
  ASSUME IInv, NEW r \in Requests, FindName(r)
  PROVE  Asks(r)
<1>1. Typed /\ request[r].at = "new" /\ UNCHANGED <<channels, messages, pending>>
  BY DEF IInv, FindName
<1>2. PICK u \in Users, n \in Names, private, listed \in BOOLEAN :
        /\ listed => private
        /\ LET fields == [Sent("CreateChannel", u, General) EXCEPT
                            !.name = n, !.private = private, !.listed = listed]
           IN \/ HasName(n) /\ Answer(r, fields, 400)
              \/ ~HasName(n) /\ Proceed(r, fields)
              \/ Answer(r, fields, 500)
  BY DEF FindName
<1>3. PICK f : f = [Sent("CreateChannel", u, General) EXCEPT
                      !.name = n, !.private = private, !.listed = listed]
  OBVIOUS
<1>4. "CreateChannel" \in Ops /\ General \in ChannelIDs /\ n \in Titles
  BY DEF Ops, ChannelIDs, Titles
<1>5. /\ f \in RequestStates /\ f.op = "CreateChannel" /\ f.user = u /\ f.name = n
      /\ f.status = 0 /\ f.private = private /\ f.listed = listed
  <2>1. PICK g : g = Sent("CreateChannel", u, General)
    OBVIOUS
  <2>2. g \in RequestStates /\ g.op = "CreateChannel" /\ g.user = u /\ g.status = 0
    BY <1>4, <2>1, SentFields
  <2> QED
    BY <1>3, <1>4, <2>1, <2>2, Fields
<1>6. Checked(f)
  <2>1. f.listed = TRUE => f.private = TRUE
    BY <1>2, <1>5
  <2> QED
    BY <1>5, <2>1 DEF Checked, OfCreators, OfMembers
<1>7. Answer(r, f, 400) \/ Proceed(r, f) \/ Answer(r, f, 500)
  BY <1>2, <1>3
<1> QED
  BY <1>1, <1>5, <1>6, <1>7, AnswersWith, ProceedsWith

LEMMA GetChannelToPostAsks ==
  ASSUME IInv, NEW r \in Requests, GetChannelToPost(r)
  PROVE  Asks(r)
<1>1. Typed /\ request[r].at = "new" /\ UNCHANGED <<channels, messages, pending>>
  BY DEF IInv, GetChannelToPost
<1>2. PICK u \in Users, c \in ChannelIDs :
        LET f == Sent("PostMessage", u, c) IN
          \/ NoSuchChannel(r, f)
          \/ Answer(r, f, 403)
          \/ Exists(c) /\ isAuthorized(u, c) /\ Proceed(r, f)
  BY DEF GetChannelToPost
<1>3. LET f == Sent("PostMessage", u, c) IN
        /\ f \in RequestStates /\ f.op = "PostMessage" /\ f.user = u /\ f.target = c
        /\ f.status = 0
  BY SentFields DEF Ops
<1>4. ASSUME Exists(c), isAuthorized(u, c) PROVE Checked(Sent("PostMessage", u, c))
  <2>1. Founding(c)
    BY <1>4 DEF Founding, IInv, ChannelsMade, ChannelIDs
  <2>2. MayHavePosted(u, c)
    BY <1>4 DEF MayHavePosted, isAuthorized
  <2> QED
    BY <1>3, <2>1, <2>2 DEF Checked, OfCreators, OfMembers
<1> QED
  BY <1>1, <1>2, <1>3, <1>4, AnswersWith, ProceedsWith, NoSuchChannelAsks

LEMMA GetChannelToChangeAsks ==
  ASSUME IInv, NEW r \in Requests, GetChannelToChange(r)
  PROVE  Asks(r)
<1>1. Typed /\ request[r].at = "new" /\ UNCHANGED <<channels, messages, pending>>
  BY DEF IInv, GetChannelToChange
<1>2. PICK u \in Users, c \in ChannelIDs, op \in {"PatchChannel", "DeleteChannel"},
           n \in Names \cup {NoName} :
        LET fields == [Sent(op, u, c) EXCEPT !.name = n] IN
          /\ op = "DeleteChannel" => n = NoName
          /\ \/ NoSuchChannel(r, fields)
             \/ /\ Exists(c)
                /\ IF channels[c].name = GeneralName THEN Answer(r, fields, 400)
                   ELSE IF ~isCreator(u, c) THEN Answer(r, fields, 403)
                   ELSE \/ Proceed(r, fields)
                        \/ /\ op = "PatchChannel" /\ n = NoName
                           /\ Proceed(r, [fields EXCEPT !.status = 400])
  BY DEF GetChannelToChange
<1>3. PICK f : f = [Sent(op, u, c) EXCEPT !.name = n]
  OBVIOUS
<1>4. PICK h : h = [f EXCEPT !.status = 400]
  OBVIOUS
<1>5. op \in Ops /\ n \in Titles /\ 400 \in Codes
  BY DEF Ops, Titles, Codes
<1>6. /\ f \in RequestStates /\ f.op = op /\ f.user = u /\ f.target = c
      /\ f.name = n /\ f.status = 0
  <2>1. PICK g : g = Sent(op, u, c)
    OBVIOUS
  <2>2. g \in RequestStates /\ g.op = op /\ g.user = u /\ g.target = c /\ g.status = 0
    BY <1>5, <2>1, SentFields
  <2> QED
    BY <1>3, <1>5, <2>1, <2>2, Fields
<1>7. /\ h \in RequestStates /\ h.op = op /\ h.user = u /\ h.target = c
      /\ h.name = n /\ h.status = 400
  BY <1>4, <1>5, <1>6, Fields
<1>8. ASSUME Exists(c), isCreator(u, c)
      PROVE  Checked(f) /\ (op = "PatchChannel" /\ n = NoName => Checked(h))
  BY <1>6, <1>7, <1>8, CreatorsChannel DEF Checked, OfCreators, OfMembers
<1>9. \/ NoSuchChannel(r, f) \/ Answer(r, f, 400) \/ Answer(r, f, 403)
      \/ /\ Exists(c) /\ isCreator(u, c)
         /\ Proceed(r, f) \/ (op = "PatchChannel" /\ n = NoName /\ Proceed(r, h))
  BY <1>2, <1>3, <1>4
<1> QED
  BY <1>1, <1>6, <1>7, <1>8, <1>9, AnswersWith, ProceedsWith, NoSuchChannelAsks

LEMMA GetChannelToAddAsks ==
  ASSUME IInv, NEW r \in Requests, GetChannelToAdd(r)
  PROVE  Asks(r)
<1>1. Typed /\ request[r].at = "new" /\ UNCHANGED <<channels, messages, pending>>
  BY DEF IInv, GetChannelToAdd
<1>2. PICK u, m \in Users, c \in ChannelIDs :
        LET fields == [Sent("AddMember", u, c) EXCEPT !.member = m] IN
          \/ NoSuchChannel(r, fields)
          \/ Exists(c) /\
               IF ~isCreator(u, c) THEN Answer(r, fields, 403)
               ELSE IF ~channels[c].private \/ IsMember(m, channels[c].members)
               THEN Answer(r, fields, 400)
               ELSE Proceed(r, fields) \/ Answer(r, fields, 400)
  BY DEF GetChannelToAdd
<1>3. PICK f : f = [Sent("AddMember", u, c) EXCEPT !.member = m]
  OBVIOUS
<1>4. "AddMember" \in Ops /\ m \in Callers
  BY DEF Ops, Callers
<1>5. /\ f \in RequestStates /\ f.op = "AddMember" /\ f.user = u /\ f.target = c
      /\ f.status = 0 /\ f.member = m
  <2>1. PICK g : g = Sent("AddMember", u, c)
    OBVIOUS
  <2>2. /\ g \in RequestStates /\ g.op = "AddMember" /\ g.user = u
        /\ g.target = c /\ g.status = 0
    BY <1>4, <2>1, SentFields
  <2> QED
    BY <1>3, <1>4, <2>1, <2>2, Fields
<1>6. ASSUME Exists(c), isCreator(u, c), channels[c].private PROVE Checked(f)
  <2>1. channels[c].private = TRUE
    BY <1>6, PrivateOrNot
  <2> QED
    BY <1>5, <1>6, <2>1, CreatorsChannel DEF Checked, OfCreators, OfMembers
<1>7. \/ NoSuchChannel(r, f) \/ Answer(r, f, 400) \/ Answer(r, f, 403)
      \/ Exists(c) /\ isCreator(u, c) /\ channels[c].private /\ Proceed(r, f)
  BY <1>2, <1>3
<1> QED
  BY <1>1, <1>5, <1>6, <1>7, AnswersWith, ProceedsWith, NoSuchChannelAsks

LEMMA GetChannelToRemoveAsks ==
  ASSUME IInv, NEW r \in Requests, GetChannelToRemove(r)
  PROVE  Asks(r)
<1>1. Typed /\ request[r].at = "new" /\ UNCHANGED <<channels, messages, pending>>
  BY DEF IInv, GetChannelToRemove
<1>2. PICK u, m \in Users, c \in ChannelIDs :
        LET fields == [Sent("RemoveMember", u, c) EXCEPT !.member = m] IN
          \/ NoSuchChannel(r, fields)
          \/ Exists(c) /\
               IF ~isCreator(u, c) THEN Answer(r, fields, 403)
               ELSE IF \/ ~channels[c].private \/ m = channels[c].creator
                       \/ ~IsMember(m, channels[c].members)
               THEN Answer(r, fields, 400)
               ELSE Proceed(r, [fields EXCEPT !.members = channels[c].members,
                                              !.version = channels[c].version])
  BY DEF GetChannelToRemove
<1>3. PICK f : f = [Sent("RemoveMember", u, c) EXCEPT !.member = m]
  OBVIOUS
<1>4. PICK h : h = [f EXCEPT !.members = channels[c].members,
                             !.version = channels[c].version]
  OBVIOUS
<1>5. "RemoveMember" \in Ops /\ m \in Callers
  BY DEF Ops, Callers
<1>6. /\ f \in RequestStates /\ f.op = "RemoveMember" /\ f.user = u /\ f.target = c
      /\ f.status = 0 /\ f.member = m
  <2>1. PICK g : g = Sent("RemoveMember", u, c)
    OBVIOUS
  <2>2. /\ g \in RequestStates /\ g.op = "RemoveMember" /\ g.user = u
        /\ g.target = c /\ g.status = 0
    BY <1>5, <2>1, SentFields
  <2> QED
    BY <1>3, <1>5, <2>1, <2>2, Fields
<1>7. ASSUME Exists(c), isCreator(u, c), channels[c].private, m # channels[c].creator
      PROVE  h \in RequestStates /\ Checked(h)
  <2>1. channels[c].members \in Lists /\ channels[c].version \in Nat
    BY <1>1, <1>7 DEF Typed, Exists, Channels, Lists
  <2>2. /\ h \in RequestStates /\ h.op = "RemoveMember" /\ h.user = u /\ h.target = c
        /\ h.status = 0 /\ h.member = m
        /\ h.members = channels[c].members /\ h.version = channels[c].version
    BY <1>4, <1>6, <2>1, Fields
  <2>3. channels[c].private = TRUE /\ m # u
    BY <1>7, PrivateOrNot DEF isCreator
  <2> QED
    BY <1>7, <2>2, <2>3, CreatorsChannel DEF Checked, OfCreators, OfMembers
<1>8. \/ NoSuchChannel(r, f) \/ Answer(r, f, 400) \/ Answer(r, f, 403)
      \/ /\ Exists(c) /\ isCreator(u, c)
         /\ channels[c].private /\ m # channels[c].creator /\ Proceed(r, h)
  BY <1>2, <1>3, <1>4
<1> QED
  BY <1>1, <1>6, <1>7, <1>8, AnswersWith, ProceedsWith, NoSuchChannelAsks

LEMMA GetMessageToChangeAsks ==
  ASSUME IInv, NEW r \in Requests, GetMessageToChange(r)
  PROVE  Asks(r)
<1>1. Typed /\ request[r].at = "new" /\ UNCHANGED <<channels, messages>>
  BY DEF IInv, GetMessageToChange
<1>2. PICK u \in Users, m \in Requests, op \in {"PatchMessage", "DeleteMessage"} :
        LET fields == Sent(op, u, m)
            mine   == IsMessageCreator(u, m)
        IN \/ /\ \/ NoSuchMessage(r, fields)
                 \/ messages[m] # NoMessage /\ ~mine /\ Answer(r, fields, 403)
                 \/ mine /\ op = "PatchMessage" /\ Answer(r, fields, 400)
                 \/ mine /\ op = "DeleteMessage" /\ Proceed(r, fields)
              /\ UNCHANGED pending
           \/ /\ mine /\ op = "PatchMessage"
              /\ Answer(r, fields, 200)
              /\ pending' = pending \cup {r}
  BY DEF GetMessageToChange
<1>3. PICK f : f = Sent(op, u, m)
  OBVIOUS
<1>4. f \in RequestStates /\ f.op = op /\ f.user = u /\ f.target = m /\ f.status = 0
  BY <1>3, SentFields DEF Ops, ChannelIDs
<1>5. IsMessageCreator(u, m) => PostedBy(u, m)
  BY DEF IsMessageCreator, IInv, MessagesMade, PostedBy
<1>6. \/ /\ \/ \E code \in {400, 401, 403, 500} : Answer(r, f, code)
            \/ IsMessageCreator(u, m) /\ op = "DeleteMessage" /\ Proceed(r, f)
         /\ UNCHANGED pending
      \/ /\ IsMessageCreator(u, m) /\ op = "PatchMessage"
         /\ Answer(r, f, 200) /\ pending' = pending \cup {r}
  BY <1>2, <1>3 DEF NoSuchMessage
<1>7. IsMessageCreator(u, m) /\ op = "DeleteMessage" => Checked(f)
  BY <1>4, <1>5 DEF Checked, OfCreators, OfMembers
<1>8. CASE /\ IsMessageCreator(u, m) /\ op = "PatchMessage"
           /\ Answer(r, f, 200) /\ pending' = pending \cup {r}
  <2>1. 200 \in Codes
    BY DEF Codes
  <2>2. /\ Frame(r) /\ request'[r].at = "done" /\ request'[r].status = 200
        /\ request'[r].op = op /\ request'[r].user = u /\ request'[r].target = m
    BY <1>1, <1>4, <1>8, <2>1, AnswerFrame
  <2> QED
    BY <1>1, <1>5, <1>8, <2>2 DEF Asks, Grounds
<1> QED
  BY <1>1, <1>4, <1>6, <1>7, <1>8, AnswersWith, ProceedsWith

LEMMA TurnAwayAsks ==
  ASSUME IInv, NEW r \in Requests, TurnAway(r)
  PROVE  Asks(r)
<1>1. Unsent \in RequestStates
  BY DEF Unsent, RequestStates, ChannelIDs
<1> QED
  BY <1>1, AnswersWith DEF TurnAway, IInv

\* A write that is answered with code, or with 500 as if it had not happened.
LEMMA AcknowledgeWrites ==
  ASSUME Typed, NEW r \in Requests, NEW op, At(r, op, "write"),
         NEW code \in Codes, Acknowledge(r, code), UNCHANGED pending
  PROVE  Writes(r, op, code)
<1>1. 500 \in Codes /\ request[r].at # "done"
  BY DEF Codes, At
<1> QED
  BY <1>1, ReplyEnds DEF Acknowledge, Writes

LEMMA FailsShape ==
  ASSUME Typed, NEW r \in Requests, Unfinished(r), Reply(r, 500),
         UNCHANGED <<channels, messages, pending>>
  PROVE  Fails(r)
<1>1. 500 \in Codes /\ request[r].at # "done"
  BY DEF Codes, Unfinished
<1> QED
  BY <1>1, ReplyEnds DEF Fails

LEMMA SavedShape ==
  ASSUME Typed, NEW r \in Requests, NEW c \in ChannelIDs, Exists(c),
         NEW doc \in Channels, doc.creator = channels[c].creator,
         doc.private = channels[c].private, doc.editor = r,
         channels' = [channels EXCEPT ![c] = doc], UNCHANGED messages
  PROVE  Saved(r, c) /\ channels'[c] = doc
BY DEF Typed, Saved, Only

LEMMA CreateShape ==
  ASSUME IInv, NEW r \in Requests, CreateChannel(r)
  PROVE  Makes(r) \/ Fails(r)
<1>1. Typed /\ At(r, "CreateChannel", "write") /\ UNCHANGED <<messages, pending>>
  BY DEF IInv, CreateChannel
<1>2. CASE UNCHANGED channels /\ Reply(r, 500)
  BY <1>1, <1>2, FailsShape DEF At, Unfinished
<1>3. CASE /\ NameIsFree(r) /\ Acknowledge(r, 201)
           /\ channels' = [channels EXCEPT ![r] =
                [name |-> request[r].name, creator |-> request[r].user,
                 private |-> request[r].private, version |-> 0, editor |-> r,
                 members |-> IF request[r].listed THEN {r} ELSE {}]]
  <2>1. Writes(r, "CreateChannel", 201)
    BY <1>1, <1>3, AcknowledgeWrites DEF Codes
  <2>2. PICK doc : doc =
          [name |-> request[r].name, creator |-> request[r].user,
           private |-> request[r].private, version |-> 0, editor |-> r,
           members |-> IF request[r].listed THEN {r} ELSE {}]
    OBVIOUS
  <2>3. request[r].name \in Names /\ request[r].user \in Users
    BY <1>1 DEF IInv, Entitled, EntitledAt, At, Unfinished
  <2>4. request[r].private \in BOOLEAN
    BY <1>1, Fields DEF Typed
  <2>5. PICK ms \in SUBSET Requests : ms = IF request[r].listed THEN {r} ELSE {}
    OBVIOUS
  <2>6. doc \in Channels
    BY <2>2, <2>3, <2>4, <2>5 DEF Channels
  <2>7. /\ doc.name = request[r].name /\ doc.creator = request[r].user
        /\ doc.private = request[r].private /\ doc.editor = r
        /\ doc.members = IF request[r].listed THEN {r} ELSE {}
    BY <2>2
  <2>8. channels'[r] = doc /\ Only(r)
    BY <1>1, <1>3, <2>2, <2>6 DEF Typed, Only, ChannelIDs
  <2> QED
    BY <1>1, <1>3, <2>1, <2>6, <2>7, <2>8 DEF Makes
<1> QED
  BY <1>2, <1>3 DEF CreateChannel

LEMMA SaveChannelShape ==
  ASSUME IInv, NEW r \in Requests, SaveChannel(r)
  PROVE  Renames(r) \/ Fails(r)
<1>1. Typed /\ At(r, "PatchChannel", "write") /\ UNCHANGED <<messages, pending>>
  BY DEF IInv, SaveChannel
<1>2. CASE UNCHANGED channels /\ Reply(r, 500)
  BY <1>1, <1>2, FailsShape DEF At, Unfinished
<1>3. PICK c \in ChannelIDs : c = request[r].target
  BY <1>1, Fields DEF Typed
<1>4. CASE /\ Exists(c) /\ NameIsFree(r) /\ Acknowledge(r, 200)
           /\ channels' = [channels EXCEPT ![c].editor = r,
                ![c].name = IF request[r].name = NoName THEN @ ELSE request[r].name]
  <2>1. Writes(r, "PatchChannel", 200) /\ Exists(c)
    BY <1>1, <1>4, AcknowledgeWrites DEF Codes
  <2>2. /\ channels[c] \in Channels /\ channels[c].members \in SUBSET Requests
        /\ channels[c].version \in Nat /\ channels[c].name \in Names
    BY <1>1, <1>4 DEF Typed, Exists, Channels
  <2>3. request[r].name \in Titles
    BY <1>1, Fields DEF Typed
  <2>4. PICK name \in Names : name =
          IF request[r].name = NoName THEN channels[c].name ELSE request[r].name
    BY <2>2, <2>3 DEF Titles
  <2>5. PICK doc : doc = [channels[c] EXCEPT !.editor = r, !.name = name]
    OBVIOUS
  <2>6. /\ doc \in Channels /\ doc.editor = r /\ doc.name = name
        /\ doc.creator = channels[c].creator /\ doc.private = channels[c].private
        /\ doc.members = channels[c].members /\ doc.version = channels[c].version
    BY <2>2, <2>5 DEF Channels
  <2>7. channels' = [channels EXCEPT ![c] = doc]
    BY <1>1, <1>4, <2>4, <2>5 DEF Typed
  <2>8. Saved(r, c) /\ channels'[c] = doc
    BY <1>1, <2>1, <2>6, <2>7, SavedShape
  <2> QED
    BY <1>3, <1>4, <2>1, <2>4, <2>6, <2>8 DEF Renames, OldMembers
<1> QED
  BY <1>2, <1>3, <1>4 DEF SaveChannel

LEMMA PushShape ==
  ASSUME IInv, NEW r \in Requests, PushMember(r)
  PROVE  Pushes(r) \/ Fails(r)
<1>1. Typed /\ At(r, "AddMember", "write") /\ UNCHANGED <<messages, pending>>
  BY DEF IInv, PushMember
<1>2. CASE UNCHANGED channels /\ Reply(r, 500)
  BY <1>1, <1>2, FailsShape DEF At, Unfinished
<1>3. PICK c \in ChannelIDs : c = request[r].target
  BY <1>1, Fields DEF Typed
<1>4. CASE /\ Exists(c) /\ Acknowledge(r, 201)
           /\ channels' = [channels EXCEPT ![c].members = @ \cup {r},
                ![c].version = @ + 1, ![c].editor = r]
  <2>1. Writes(r, "AddMember", 201) /\ Exists(c)
    BY <1>1, <1>4, AcknowledgeWrites DEF Codes
  <2>2. /\ channels[c] \in Channels /\ channels[c].members \in SUBSET Requests
        /\ channels[c].version \in Nat /\ channels[c].name \in Names
    BY <1>1, <1>4 DEF Typed, Exists, Channels
  <2>3. PICK ms \in SUBSET Requests : ms = channels[c].members \cup {r}
    BY <2>2
  <2>4. PICK v \in Nat : v = channels[c].version + 1
    BY <2>2
  <2>5. PICK doc : doc = [channels[c] EXCEPT !.members = ms, !.version = v, !.editor = r]
    OBVIOUS
  <2>6. /\ doc \in Channels /\ doc.editor = r /\ doc.name = channels[c].name
        /\ doc.creator = channels[c].creator /\ doc.private = channels[c].private
        /\ doc.members = ms /\ doc.version = v
    BY <2>2, <2>5 DEF Channels
  <2>7. channels' = [channels EXCEPT ![c] = doc]
    BY <1>1, <1>4, <2>3, <2>4, <2>5 DEF Typed
  <2>8. Saved(r, c) /\ channels'[c] = doc
    BY <1>1, <2>1, <2>6, <2>7, SavedShape
  <2> QED
    BY <1>3, <2>1, <2>3, <2>4, <2>6, <2>8 DEF Pushes
<1> QED
  BY <1>2, <1>3, <1>4 DEF PushMember

LEMMA SetShape ==
  ASSUME IInv, NEW r \in Requests, SetMembers(r)
  PROVE  Sets(r) \/ Fails(r)
<1>1. Typed /\ At(r, "RemoveMember", "write") /\ UNCHANGED <<messages, pending>>
  BY DEF IInv, SetMembers
<1>2. CASE UNCHANGED channels /\ Reply(r, 500)
  BY <1>1, <1>2, FailsShape DEF At, Unfinished
<1>3. PICK c \in ChannelIDs : c = request[r].target
  BY <1>1, Fields DEF Typed
<1>4. CASE /\ SameVersion(r) /\ Acknowledge(r, 200)
           /\ channels' = [channels EXCEPT
                ![c].members = {e \in request[r].members : MemberOf(e) # request[r].member},
                ![c].version = @ + 1, ![c].editor = r]
  <2>1. Writes(r, "RemoveMember", 200) /\ Exists(c)
    <3>1. 200 \in Codes /\ Acknowledge(r, 200) /\ SameVersion(r)
      BY <1>4 DEF Codes
    <3>2. Writes(r, "RemoveMember", 200)
      BY <1>1, <3>1, AcknowledgeWrites
    <3> QED
      BY <1>3, <3>1, <3>2 DEF SameVersion
  <2>2. /\ channels[c] \in Channels /\ channels[c].members \in SUBSET Requests
        /\ channels[c].version \in Nat /\ channels[c].name \in Names
    BY <1>1, <2>1 DEF Typed, Exists, Channels
  <2>3. request[r].members \in SUBSET Requests
    BY <1>1, Fields DEF Typed, Lists
  <2>4. PICK ms \in SUBSET Requests :
          ms = {e \in request[r].members : MemberOf(e) # request[r].member}
    BY <2>3
  <2>5. PICK v \in Nat : v = channels[c].version + 1
    BY <2>2
  <2>6. PICK doc : doc = [channels[c] EXCEPT !.members = ms, !.version = v, !.editor = r]
    OBVIOUS
  <2>7. /\ doc \in Channels /\ doc.editor = r /\ doc.name = channels[c].name
        /\ doc.creator = channels[c].creator /\ doc.private = channels[c].private
        /\ doc.members = ms /\ doc.version = v
    BY <2>2, <2>6 DEF Channels
  <2>8. channels' = [channels EXCEPT ![c] = doc]
    BY <1>1, <1>4, <2>4, <2>5, <2>6 DEF Typed
  <2>9. Saved(r, c) /\ channels'[c] = doc
    BY <1>1, <2>1, <2>7, <2>8, SavedShape
  <2> QED
    BY <1>3, <1>4, <2>1, <2>4, <2>5, <2>7, <2>9 DEF Sets
<1> QED
  BY <1>2, <1>3, <1>4 DEF SetMembers

LEMMA DeleteShape ==
  ASSUME IInv, NEW r \in Requests, DeleteChannel(r)
  PROVE  Deletes(r) \/ Fails(r)
<1>1. /\ Typed /\ At(r, "DeleteChannel", "write") /\ UNCHANGED <<messages, pending>>
      /\ request[r].target \in ChannelIDs
  BY Fields DEF IInv, Typed, DeleteChannel
<1>2. CASE UNCHANGED channels /\ Reply(r, 500)
  BY <1>1, <1>2, FailsShape DEF At, Unfinished
<1>3. CASE channels' = [channels EXCEPT ![request[r].target] = NoChannel]
  <2>1. Only(request[r].target) /\ channels'[request[r].target] = NoChannel
    BY <1>1, <1>3 DEF Typed, Only
  <2>2. CASE Reply(r, 500)
    BY <1>1, <2>1, <2>2, ReplyEnds DEF At, Deletes, Codes
  <2>3. CASE request' = [request EXCEPT ![r].at = "messages"]
    <3>1. request \in [Requests -> RequestStates] /\ "messages" \in Places
      BY <1>1 DEF Typed, Places
    <3>2. /\ Frame(r) /\ Keeps(r) /\ request'[r].at = "messages"
          /\ request'[r].status = request[r].status
      BY <1>1, <2>3, <3>1, Fields DEF At, Frame, Keeps
    <3> QED
      BY <1>1, <2>1, <3>2 DEF Deletes
  <2> QED
    BY <1>2, <1>3, <2>2, <2>3 DEF DeleteChannel
<1> QED
  BY <1>2, <1>3 DEF DeleteChannel

LEMMA PurgeShape ==
  ASSUME IInv, NEW r \in Requests, DeleteMessages(r)
  PROVE  Purges(r) \/ Fails(r)
<1>1. /\ Typed /\ At(r, "DeleteChannel", "messages") /\ UNCHANGED <<channels, pending>>
      /\ 200 \in Codes /\ 500 \in Codes
  BY DEF IInv, DeleteMessages, Codes
<1>2. CASE UNCHANGED messages /\ Reply(r, 500)
  BY <1>1, <1>2, FailsShape DEF At, Unfinished
<1>3. CASE ~(UNCHANGED messages /\ Reply(r, 500))
  <2>1. \A m \in Requests : messages[m] \in Messages \cup {NoMessage}
    BY <1>1 DEF Typed
  <2> QED
    BY <1>1, <1>3, <2>1, ReplyEnds DEF DeleteMessages, Acknowledge, At, Purges
<1> QED
  BY <1>2, <1>3

LEMMA PostShape ==
  ASSUME IInv, NEW r \in Requests, PostMessage(r)
  PROVE  Posts(r) \/ Fails(r)
<1>1. Typed /\ At(r, "PostMessage", "write") /\ UNCHANGED <<channels, pending>>
  BY DEF IInv, PostMessage
<1>2. CASE UNCHANGED messages /\ Reply(r, 500)
  BY <1>1, <1>2, FailsShape DEF At, Unfinished
<1>3. CASE /\ messages' = [messages EXCEPT ![r] = [channel |-> request[r].target, editor |-> r]]
           /\ Acknowledge(r, 201)
  <2>1. Writes(r, "PostMessage", 201)
    BY <1>1, <1>3, AcknowledgeWrites DEF Codes
  <2>2. [channel |-> request[r].target, editor |-> r] \in Messages
    BY <1>1, Fields DEF Typed, Messages
  <2> QED
    BY <1>1, <1>3, <2>1, <2>2 DEF Typed, Posts, OnlyMessage
<1> QED
  BY <1>2, <1>3 DEF PostMessage

LEMMA UnpostShape ==
  ASSUME IInv, NEW r \in Requests, DeleteMessage(r)
  PROVE  Unposts(r) \/ Fails(r)
<1>1. Typed /\ At(r, "DeleteMessage", "write") /\ UNCHANGED <<channels, pending>>
  BY DEF IInv, DeleteMessage
<1>2. request[r].target \in Requests
  BY <1>1 DEF IInv, Entitled, EntitledAt, At, Unfinished, PostedBy
<1>3. CASE UNCHANGED messages /\ Reply(r, 500)
  BY <1>1, <1>3, FailsShape DEF At, Unfinished
<1>4. CASE /\ messages' = [messages EXCEPT ![request[r].target] = NoMessage]
           /\ Acknowledge(r, 200)
  <2>1. Writes(r, "DeleteMessage", 200)
    BY <1>1, <1>4, AcknowledgeWrites DEF Codes
  <2> QED
    BY <1>1, <1>2, <1>4, <2>1 DEF Typed, Unposts, OnlyMessage
<1> QED
  BY <1>3, <1>4 DEF DeleteMessage

LEMMA SaveMessageShape ==
  ASSUME IInv, NEW r \in Requests, SaveMessage(r)
  PROVE  Saves(r)
<1>1. Typed /\ r \in pending /\ request[r].target \in Requests
  BY DEF IInv, SaveMessage, Entitled, EntitledAt, PostedBy
<1>2. CASE /\ messages[request[r].target] # NoMessage
           /\ messages' = [messages EXCEPT ![request[r].target].editor = r]
  <2>1. PICK m \in Requests : m = request[r].target
    BY <1>1
  <2>2. messages[m] \in Messages /\ messages \in [Requests -> Messages \cup {NoMessage}]
    BY <1>1, <1>2, <2>1 DEF Typed
  <2>3. [messages[m] EXCEPT !.editor = r] = [channel |-> messages[m].channel, editor |-> r]
    BY <2>2 DEF Messages
  <2>4. messages' = [messages EXCEPT ![m] = [messages[m] EXCEPT !.editor = r]]
    BY <1>2, <2>1, <2>2
  <2>5. [channel |-> messages[m].channel, editor |-> r] \in Messages
    BY <2>2 DEF Messages
  <2> QED
    BY <1>2, <2>1, <2>2, <2>3, <2>4, <2>5 DEF SaveMessage, Saves, OnlyMessage
<1> QED
  BY <1>2 DEF SaveMessage, Saves

LEMMA StepShape ==
  ASSUME IInv, [Next]_vars
  PROVE  (\E r \in Requests : Steps(r)) \/ UNCHANGED vars
BY TurnAwayAsks, FindNameAsks, GetChannelToPostAsks, GetChannelToChangeAsks,
   GetChannelToAddAsks, GetChannelToRemoveAsks, GetMessageToChangeAsks,
   CreateShape, SaveChannelShape, PushShape, SetShape, DeleteShape, PurgeShape,
   PostShape, UnpostShape, SaveMessageShape
DEF Next, Quiet, Steps
-----------------------------------------------------------------------------
(* What each shape preserves. *)

LEMMA OthersStay ==
  ASSUME NEW r \in Requests, Steps(r)
  PROVE  \A q \in Requests \ {r} : request'[q] = request[q]
BY DEF Steps, Asks, Fails, Makes, Renames, Pushes, Sets, Deletes, Purges, Posts,
       Unposts, Saves, Writes, Ends, Frame

\* A step that neither answers the check nor saves ends its request, or goes on
\* to delete the messages of a channel.
LEMMA StepEnds ==
  ASSUME NEW r \in Requests, Steps(r)
  PROVE  Asks(r) \/ Saves(r) \/ Deletes(r) \/ \E code : Ends(r, code)
<1>1. ASSUME NEW op, NEW code, Writes(r, op, code) PROVE \E c : Ends(r, c)
  BY <1>1 DEF Writes
<1>2. CASE Fails(r) \/ Purges(r)
  BY <1>2 DEF Fails, Purges
<1>3. CASE Makes(r)
  BY <1>1, <1>3 DEF Makes
<1>4. CASE Renames(r)
  BY <1>1, <1>4 DEF Renames
<1>5. CASE Pushes(r)
  BY <1>1, <1>5 DEF Pushes
<1>6. CASE Sets(r)
  BY <1>1, <1>6 DEF Sets
<1>7. CASE Posts(r)
  BY <1>1, <1>7 DEF Posts
<1>8. CASE Unposts(r)
  BY <1>1, <1>8 DEF Unposts
<1> QED
  BY <1>2, <1>3, <1>4, <1>5, <1>6, <1>7, <1>8 DEF Steps

LEMMA DoneStays ==
  ASSUME NEW r \in Requests, Steps(r), NEW q \in Requests, request[q].at = "done"
  PROVE  request'[q] = request[q]
BY DEF Steps, Asks, Fails, Makes, Renames, Pushes, Sets, Deletes, Purges, Posts,
       Unposts, Saves, Writes, Ends, Frame

LEMMA KnownStays ==
  ASSUME NEW r \in Requests, Steps(r)
  PROVE  /\ \A c : Founding(c) => Founding(c)'
         /\ \A u, c : CreatedBy(u, c) => CreatedBy(u, c)'
         /\ \A u, m : PostedBy(u, m) => PostedBy(u, m)'
         /\ \A q \in Requests : Settled(q) => Settled(q)'
BY DoneStays DEF Founding, CreatedBy, PostedBy, Settled, At

\* The channels a request writes to are not the general one.
LEMMA TargetsOwn ==
  ASSUME IInv, NEW r \in Requests, Renames(r) \/ Pushes(r) \/ Sets(r) \/ Deletes(r)
  PROVE  CreatedBy(request[r].user, request[r].target)
BY DEF IInv, Entitled, EntitledAt, Unfinished, OfCreators, At, Renames, Pushes,
       Sets, Deletes, Writes

LEMMA StepTyped ==
  ASSUME IInv, NEW r \in Requests, Steps(r)
  PROVE  Typed'
<1>1. Typed
  BY DEF IInv
<1>2. request' \in [Requests -> RequestStates]
  <2>1. ASSUME NEW code, Ends(r, code) PROVE Frame(r)
    BY <2>1 DEF Ends
  <2>2. Deletes(r) => Frame(r)
    BY <2>1 DEF Deletes
  <2>3. Asks(r) => Frame(r)
    BY DEF Asks
  <2>4. Saves(r) => UNCHANGED request
    BY DEF Saves
  <2> QED
    BY <1>1, <2>1, <2>2, <2>3, <2>4, StepEnds DEF Typed, Frame
<1>3. pending' \subseteq Requests
  BY <1>1 DEF Typed, Steps, Asks, Fails, Makes, Renames, Pushes, Sets, Deletes,
              Purges, Posts, Unposts, Saves, Writes
<1>4. channels' \in [ChannelIDs -> Channels \cup {NoChannel}]
  BY <1>1 DEF Typed, Steps, Asks, Fails, Makes, Renames, Pushes, Sets, Deletes,
              Purges, Posts, Unposts, Saves, Saved, Only
<1>5. messages' \in [Requests -> Messages \cup {NoMessage}]
  BY <1>1 DEF Typed, Steps, Asks, Fails, Makes, Renames, Pushes, Sets, Deletes,
              Purges, Posts, Unposts, Saves, Saved, OnlyMessage
<1> QED
  BY <1>2, <1>3, <1>4, <1>5 DEF Typed

\* Where a channel comes from.
LEMMA ChannelsFrom ==
  ASSUME IInv, NEW r \in Requests, Steps(r), NEW c \in ChannelIDs, Exists(c)'
  PROVE  \/ Makes(r) /\ c = r /\ ~Exists(c)
         \/ /\ Exists(c)
            /\ channels'[c].creator = channels[c].creator
            /\ channels'[c].private = channels[c].private
            /\ \/ channels'[c] = channels[c]
               \/ /\ Renames(r) \/ Pushes(r) \/ Sets(r)
                  /\ c = request[r].target
<1>1. CASE UNCHANGED channels
  BY <1>1 DEF Exists
<1>2. CASE Makes(r)
  <2>1. ~Exists(r)
    BY <1>2 DEF IInv, ChannelsMade, Makes, Writes, At
  <2> QED
    BY <1>2, <2>1 DEF Makes, Only, Exists
<1>3. CASE Renames(r) \/ Pushes(r) \/ Sets(r)
  BY <1>3 DEF Renames, Pushes, Sets, Saved, Only, Exists
<1>4. CASE Deletes(r)
  BY <1>4 DEF Deletes, Only, Exists
<1> QED
  BY <1>1, <1>2, <1>3, <1>4 DEF Steps, Asks, Fails, Purges, Posts, Unposts, Saves

\* Where a message comes from.
LEMMA MessagesFrom ==
  ASSUME IInv, NEW r \in Requests, Steps(r), NEW m \in Requests, messages'[m] # NoMessage
  PROVE  \/ /\ Posts(r) /\ m = r /\ messages[m] = NoMessage
            /\ messages'[m].channel = request[r].target /\ messages'[m].editor = r
         \/ /\ messages[m] # NoMessage
            /\ messages'[m].channel = messages[m].channel
            /\ \/ messages'[m].editor = messages[m].editor
               \/ Saves(r) /\ m = request[r].target /\ messages'[m].editor = r
<1>1. CASE UNCHANGED messages
  BY <1>1
<1>2. CASE Posts(r)
  <2>1. messages[r] = NoMessage
    BY <1>2 DEF IInv, MessagesMade, Posts, Writes, At
  <2> QED
    BY <1>2, <2>1 DEF Posts, OnlyMessage
<1>3. CASE Purges(r)
  BY <1>3 DEF Purges
<1>4. CASE Unposts(r)
  BY <1>4 DEF Unposts, OnlyMessage
<1>5. CASE Saves(r)
  BY <1>5 DEF Saves, OnlyMessage
<1> QED
  BY <1>1, <1>2, <1>3, <1>4, <1>5
  DEF Steps, Asks, Fails, Makes, Renames, Pushes, Sets, Deletes, Saved

LEMMA StepGeneralKept ==
  ASSUME IInv, NEW r \in Requests, Steps(r)
  PROVE  GeneralKept'
<1>1. CASE UNCHANGED channels
  BY <1>1 DEF IInv, GeneralKept
<1>2. CASE Renames(r) \/ Pushes(r) \/ Sets(r) \/ Deletes(r) \/ Makes(r)
  <2>1. PICK c \in Requests : Only(c)
    BY <1>2, TargetsOwn DEF CreatedBy, Renames, Pushes, Sets, Deletes, Makes, Saved
  <2>2. channels'[General] = channels[General]
    BY <2>1, MessagingAssumption DEF Only, ChannelIDs
  <2> QED
    BY <2>2 DEF IInv, GeneralKept
<1> QED
  BY <1>1, <1>2 DEF Steps, Asks, Fails, Purges, Posts, Unposts, Saves

\* How a write is answered.
LEMMA WriteEnds ==
  ASSUME IInv, NEW r \in Requests, NEW op \in Ops, NEW code, Writes(r, op, code)
  PROVE  /\ request'[r].at = "done" /\ Keeps(r)
         /\ op # "PatchChannel" => request'[r].status \in {code, 500}
         /\ op = "PatchChannel" =>
              \/ request'[r].status \in {code, 500}
              \/ request'[r].name = NoName /\ request'[r].status = 400
BY DEF IInv, Entitled, EntitledAt, At, Unfinished, Writes, Ends, Keeps

LEMMA StepMade ==
  ASSUME IInv, NEW r \in Requests, Steps(r)
  PROVE  ChannelsMade' /\ MessagesMade'
<1>1. ASSUME NEW c \in Requests, Exists(c)'
      PROVE  /\ At(c, "CreateChannel", "done")' /\ request'[c].status \in {201, 500}
             /\ channels'[c].creator = request'[c].user
             /\ channels'[c].private = request'[c].private
  <2>1. CASE Makes(r) /\ c = r
    <3>1. /\ Writes(r, "CreateChannel", 201) /\ request[r].op = "CreateChannel"
          /\ channels'[r].creator = request[r].user
          /\ channels'[r].private = request[r].private
      BY <2>1 DEF Makes, Writes, At
    <3>2. /\ request'[r].at = "done" /\ Keeps(r) /\ request'[r].status \in {201, 500}
      BY <3>1, WriteEnds DEF Ops
    <3> QED
      BY <2>1, <3>1, <3>2 DEF Keeps, At
  <2>2. CASE /\ Exists(c)
             /\ channels'[c].creator = channels[c].creator
             /\ channels'[c].private = channels[c].private
    BY <2>2, DoneStays DEF IInv, ChannelsMade, At
  <2>3. c \in ChannelIDs
    BY DEF ChannelIDs
  <2> QED
    BY <1>1, <2>1, <2>2, <2>3, ChannelsFrom
<1>2. ASSUME NEW m \in Requests, messages'[m] # NoMessage
      PROVE  /\ At(m, "PostMessage", "done")' /\ request'[m].status \in {201, 500}
             /\ messages'[m].channel = request'[m].target
  <2>1. CASE Posts(r) /\ m = r /\ messages'[m].channel = request[r].target
    <3>1. Writes(r, "PostMessage", 201) /\ request[r].op = "PostMessage"
      BY <2>1 DEF Posts, Writes, At
    <3>2. /\ request'[r].at = "done" /\ Keeps(r) /\ request'[r].status \in {201, 500}
      BY <3>1, WriteEnds DEF Ops
    <3> QED
      BY <2>1, <3>1, <3>2 DEF Keeps, At
  <2>2. CASE messages[m] # NoMessage /\ messages'[m].channel = messages[m].channel
    BY <2>2, DoneStays DEF IInv, MessagesMade, At
  <2> QED
    BY <1>2, <2>1, <2>2, MessagesFrom
<1> QED
  BY <1>1, <1>2 DEF ChannelsMade, MessagesMade

LEMMA OwnEntitled ==
  ASSUME IInv, NEW r \in Requests, Steps(r)
  PROVE  EntitledAt(r)'
<1>1. EntitledAt(r)
  BY DEF IInv, Entitled
<1>2. request[r].at # "done" => r \notin pending
  BY <1>1 DEF EntitledAt, At
<1>3. CASE Asks(r)
  <2>1. CASE request'[r].at = "write"
    <3>1. Checked(request'[r]) /\ r \notin pending'
      BY <1>2, <1>3, <2>1 DEF Asks, Grounds, Frame
    <3> QED
      BY <2>1, <3>1, KnownStays DEF Checked, EntitledAt, Unfinished, OfCreators
  <2>2. CASE request'[r].at = "done"
    <3>1. ~(request'[r].op = "AddMember" /\ request'[r].status = 201)
      BY <1>3, <2>2 DEF Asks, Grounds
    <3>2. r \in pending' =>
            /\ request'[r].op = "PatchMessage" /\ request'[r].status = 200
            /\ PostedBy(request'[r].user, request'[r].target)
      BY <1>2, <1>3, <2>2 DEF Asks, Frame
    <3> QED
      BY <2>2, <3>1, <3>2, KnownStays DEF EntitledAt, Unfinished, At
  <2> QED
    BY <1>3, <2>1, <2>2 DEF Asks, Grounds
<1>4. ASSUME Unfinished(r), Frame(r), Keeps(r), UNCHANGED pending,
             \/ request'[r].at = "done"
             \/ /\ request'[r].at = "messages" /\ request[r].op = "DeleteChannel"
                /\ request'[r].status = request[r].status
      PROVE  EntitledAt(r)'
  <2>1. r \notin pending'
    BY <1>2, <1>4 DEF Frame
  <2>2. request[r].op = "AddMember" => Founding(request[r].target)
    BY <1>1, <1>4 DEF EntitledAt, OfCreators, CreatedBy, Founding
  <2>3. CASE request'[r].at = "done"
    BY <1>4, <2>1, <2>2, <2>3, KnownStays DEF EntitledAt, Unfinished, Keeps
  <2>4. CASE /\ request'[r].at = "messages" /\ request[r].op = "DeleteChannel"
             /\ request'[r].status = request[r].status
    <3>1. /\ request[r].status = 0 /\ request'[r].op = "DeleteChannel"
          /\ CreatedBy(request[r].user, request[r].target)
      BY <1>1, <1>4, <2>4 DEF EntitledAt, OfCreators, Keeps
    <3> QED
      BY <1>4, <2>1, <2>4, <3>1, KnownStays DEF EntitledAt, Unfinished, OfCreators, Keeps
  <2> QED
    BY <1>4, <2>3, <2>4
<1>5. CASE Fails(r) \/ Makes(r) \/ Renames(r) \/ Pushes(r) \/ Sets(r) \/ Deletes(r)
           \/ Purges(r) \/ Posts(r) \/ Unposts(r)
  BY <1>4, <1>5 DEF Fails, Makes, Renames, Pushes, Sets, Deletes, Purges, Posts,
     Unposts, Writes, Ends, At, Unfinished
<1>6. CASE Saves(r)
  <2>1. request'[r] = request[r] /\ r \notin pending'
    BY <1>6 DEF Saves
  <2> QED
    BY <1>1, <2>1, KnownStays DEF EntitledAt, Unfinished, At
<1> QED
  BY <1>3, <1>5, <1>6 DEF Steps

LEMMA StepEntitled ==
  ASSUME IInv, NEW r \in Requests, Steps(r)
  PROVE  Entitled'
<1>1. \A q \in Requests : EntitledAt(q)
  BY DEF IInv, Entitled
<1>2. ASSUME NEW q \in Requests, q # r PROVE EntitledAt(q)'
  <2>1. request'[q] = request[q]
    BY <1>2, OthersStay
  <2>2. pending' \in {pending, pending \cup {r}, pending \ {r}}
    BY DEF Steps, Asks, Fails, Makes, Renames, Pushes, Sets, Deletes, Purges,
           Posts, Unposts, Saves, Writes
  <2>3. q \in pending' => q \in pending
    BY <1>2, <2>2
  <2> QED
    BY <1>1, <2>1, <2>3, KnownStays DEF EntitledAt, Unfinished, At
<1> QED
  BY <1>2, OwnEntitled DEF Entitled

\* A request that is over, or about to delete messages, has gone on if it is r.
LEMMA DoneLasts ==
  ASSUME IInv, NEW r \in Requests, Steps(r), NEW q \in Requests, NEW op, NEW c,
         Done(q, op, c)
  PROVE  Done(q, op, c)' /\ request'[q].user = request[q].user
         /\ request'[q].member = request[q].member
<1>1. CASE request'[q] = request[q]
  BY <1>1 DEF Done
<1>2. CASE q = r /\ request[r].at = "messages"
  <2>1. request[r].op = "DeleteChannel" /\ request[r].status = 0
    BY <1>2 DEF IInv, Entitled, EntitledAt, Unfinished
  <2>2. Ends(r, 200) \/ Ends(r, 500) \/ request'[r] = request[r]
    BY <1>2 DEF Steps, Asks, Fails, Makes, Renames, Pushes, Sets, Deletes, Purges,
       Posts, Unposts, Saves, Writes, At
  <2> QED
    BY <1>1, <1>2, <2>1, <2>2 DEF Done, Ends, Keeps
<1> QED
  BY <1>1, <1>2, DoneStays, OthersStay DEF Done

LEMMA StepSnapshots ==
  ASSUME IInv, NEW r \in Requests, Steps(r)
  PROVE  Snapshots'
<1> SUFFICES ASSUME NEW q \in Requests, NEW c, c = request'[q].target,
                    At(q, "RemoveMember", "write")', Exists(c)'
             PROVE  /\ request'[q].version <= channels'[c].version
                    /\ request'[q].version = channels'[c].version =>
                         request'[q].members = channels'[c].members
  BY DEF Snapshots, SnapshotOf
<1>1. CASE q = r
  <2>1. request'[r].op = "RemoveMember" /\ request'[r].at = "write"
    BY <1>1 DEF At
  <2>2. ~Saves(r)
    BY <2>1 DEF Saves, IInv, Entitled, EntitledAt, At
  <2>3. Asks(r)
    BY <2>1, <2>2 DEF Steps, Fails, Makes, Renames, Pushes, Sets, Deletes, Purges,
       Posts, Unposts, Writes, Ends
  <2>4. Checked(request'[r]) /\ UNCHANGED channels
    BY <2>1, <2>3 DEF Asks, Grounds
  <2>5. /\ request'[r].version = channels[c].version /\ CreatedBy(request'[r].user, c)
        /\ request'[r].members = channels[c].members
    BY <1>1, <2>1, <2>4 DEF Checked, OfCreators
  <2>6. channels'[c].version \in Nat
    <3>1. c \in ChannelIDs /\ channels[c] # NoChannel
      BY <2>4, <2>5 DEF CreatedBy, ChannelIDs, Exists
    <3> QED
      BY <2>4, <3>1 DEF IInv, Typed, Channels
  <2> QED
    BY <1>1, <2>4, <2>5, <2>6
<1>2. CASE q # r
  <2>1. request'[q] = request[q] /\ At(q, "RemoveMember", "write")
    BY <1>2, OthersStay DEF At
  <2>2. CreatedBy(request[q].user, c)
    BY <2>1 DEF IInv, Entitled, EntitledAt, OfCreators, Unfinished, At
  <2>3. c \in ChannelIDs /\ ~(Makes(r) /\ c = r)
    BY <2>2 DEF CreatedBy, ChannelIDs, Makes, Writes, At
  <2>4. Exists(c)
    BY <2>3, ChannelsFrom
  <2>5. /\ request[q].version <= channels[c].version
        /\ request[q].version = channels[c].version => request[q].members = channels[c].members
    BY <2>1, <2>4 DEF IInv, Snapshots, SnapshotOf
  <2>6. channels[c].version \in Nat /\ request[q].version \in Nat
    BY <2>3, <2>4, Fields DEF IInv, Typed, Exists, Channels
  <2>7. \/ /\ channels'[c].version = channels[c].version
           /\ channels'[c].members = channels[c].members
        \/ channels'[c].version = channels[c].version + 1
    BY <2>3, ChannelsFrom DEF Renames, Pushes, Sets, OldMembers
  <2> QED
    BY <2>1, <2>5, <2>6, <2>7
<1> QED
  BY <1>1, <1>2

LEMMA StepEditors ==
  ASSUME IInv, NEW r \in Requests, Steps(r)
  PROVE  Editors'
<1>1. ASSUME NEW op \in Ops, NEW code \in {200, 201}, Writes(r, op, code)
      PROVE  Settled(r)' /\ request'[r].user = request[r].user
  <2>1. request'[r].at = "done" /\ Keeps(r)
    BY <1>1, WriteEnds
  <2>2. CASE op = "PatchChannel"
    <3>1. request'[r].op = "PatchChannel"
      BY <1>1, <2>1, <2>2 DEF Writes, At, Keeps
    <3> QED
      BY <1>1, <2>1, <2>2, <3>1, WriteEnds DEF Settled, Keeps
  <2>3. CASE op # "PatchChannel"
    BY <1>1, <2>1, <2>3, WriteEnds DEF Settled, Keeps
  <2> QED
    BY <2>2, <2>3
<1>2. ASSUME NEW c \in Requests, Exists(c)'
      PROVE  /\ Settled(channels[c].editor)'
             /\ request'[channels'[c].editor].user = channels'[c].creator
             /\ \A e \in channels'[c].members : Settled(e)'
  <2>1. CASE Makes(r) /\ c = r
    <3>1. Settled(r)' /\ request'[r].user = request[r].user
      BY <1>1, <2>1 DEF Makes, Ops
    <3> QED
      BY <2>1, <3>1 DEF Makes
  <2>2. CASE Exists(c) /\ channels'[c] = channels[c]
    <3>1. /\ Settled(channels[c].editor) /\ \A e \in channels[c].members : Settled(e)
          /\ request[channels[c].editor].user = channels[c].creator
      BY <2>2 DEF IInv, Editors
    <3>2. \A e : Settled(e) => Settled(e)' /\ request'[e] = request[e]
      BY DoneStays, KnownStays DEF Settled
    <3> QED
      BY <2>2, <3>1, <3>2
  <2>3. CASE /\ Exists(c) /\ channels'[c].creator = channels[c].creator
             /\ Renames(r) \/ Pushes(r) \/ Sets(r)
             /\ c = request[r].target
    <3>1. Settled(r)' /\ request'[r].user = request[r].user
      BY <1>1, <2>3 DEF Renames, Pushes, Sets, Ops
    <3>2. channels'[c].editor = r
      BY <2>3 DEF Renames, Pushes, Sets, Saved
    <3>3. request[r].user = channels[c].creator
      BY <2>3, TargetsOwn DEF IInv, ChannelsMade, CreatedBy
    <3>4. channels'[c].members \subseteq channels[c].members \cup {r}
      <4>1. CASE Sets(r)
        <5>1. request[r].members = channels[c].members
          BY <2>3, <4>1 DEF IInv, Snapshots, SnapshotOf, Sets, Writes, SameVersion
        <5> QED
          BY <2>3, <4>1, <5>1 DEF Sets
      <4> QED
        BY <2>3, <4>1 DEF Renames, Pushes, OldMembers
    <3>5. \A e \in channels[c].members : Settled(e)'
      BY <2>3, KnownStays DEF IInv, Editors, Settled
    <3> QED
      BY <2>3, <3>1, <3>2, <3>3, <3>4, <3>5
  <2>4. c \in ChannelIDs
    BY DEF ChannelIDs
  <2> QED
    BY <1>2, <2>1, <2>2, <2>3, <2>4, ChannelsFrom
<1>3. ASSUME NEW m \in Requests, messages'[m] # NoMessage
      PROVE  /\ Settled(messages[m].editor)'
             /\ request'[messages'[m].editor].user = request'[m].user
             /\ Founding(messages[m].channel)'
  <2>1. CASE /\ Posts(r) /\ m = r
             /\ messages'[m].channel = request[r].target /\ messages'[m].editor = r
    <3>1. Settled(r)'
      BY <1>1, <2>1 DEF Posts, Ops
    <3>2. Founding(request[r].target)
      BY <2>1 DEF Posts, Writes, At, IInv, Entitled, EntitledAt, Unfinished
    <3> QED
      BY <2>1, <3>1, <3>2, KnownStays
  <2>2. ASSUME messages[m] # NoMessage, messages'[m].channel = messages[m].channel
        PROVE  /\ Founding(messages[m].channel)' /\ request'[m] = request[m]
               /\ request[messages[m].editor].user = request[m].user
               /\ Settled(messages[m].editor)
    BY <2>2, KnownStays, DoneStays DEF IInv, Editors, MessagesMade, At
  <2>3. CASE messages[m] # NoMessage /\ messages'[m].channel = messages[m].channel
             /\ messages'[m].editor = messages[m].editor
    <3>1. \A e : Settled(e) => Settled(e)' /\ request'[e] = request[e]
      BY DoneStays, KnownStays DEF Settled
    <3> QED
      BY <2>2, <2>3, <3>1
  <2>4. CASE /\ messages[m] # NoMessage /\ messages'[m].channel = messages[m].channel
             /\ Saves(r) /\ m = request[r].target /\ messages'[m].editor = r
    <3>1. /\ At(r, "PatchMessage", "done") /\ request[r].status = 200
          /\ request[m].user = request[r].user /\ UNCHANGED request
      BY <2>4 DEF Saves, IInv, Entitled, EntitledAt, PostedBy
    <3>2. Settled(r)'
      BY <3>1 DEF Settled, At
    <3> QED
      BY <2>2, <2>4, <3>1, <3>2
  <2> QED
    BY <1>3, <2>1, <2>3, <2>4, MessagesFrom
<1> QED
  BY <1>2, <1>3 DEF Editors

LEMMA StepNamesUnique ==
  ASSUME IInv, NEW r \in Requests, Steps(r)
  PROVE  NamesUnique'
<1> DEFINE Named(c) ==
      /\ channels'[c].name = request[r].name /\ NameIsFree(r)
      /\ \/ request[r].op = "CreateChannel" /\ c = r
         \/ request[r].op = "PatchChannel" /\ c = request[r].target
<1>1. ASSUME NEW c \in ChannelIDs, Exists(c)'
      PROVE  \/ Exists(c) /\ channels'[c].name = channels[c].name
             \/ Named(c)
  <2>1. CASE Makes(r) /\ c = r
    BY <2>1 DEF Makes, Writes, At
  <2>2. CASE Exists(c) /\ channels'[c] = channels[c]
    BY <2>2
  <2>3. CASE Exists(c) /\ Renames(r) /\ c = request[r].target
    BY <2>3 DEF Renames, Writes, At
  <2>4. CASE Exists(c) /\ (Pushes(r) \/ Sets(r)) /\ c = request[r].target
    BY <2>4 DEF Pushes, Sets
  <2> QED
    BY <1>1, <2>1, <2>2, <2>3, <2>4, ChannelsFrom
<1>2. ASSUME NEW c \in ChannelIDs, NEW d \in ChannelIDs, Exists(d), Named(c),
             channels[d].name = request[r].name
      PROVE  c = d
  BY <1>2 DEF NameIsFree
<1> HIDE DEF Named
<1> SUFFICES ASSUME NEW c \in ChannelIDs, NEW d \in ChannelIDs,
                    Exists(c)', Exists(d)', channels'[c].name = channels'[d].name
             PROVE  c = d
  BY DEF NamesUnique
<1>3. CASE Named(c) /\ Named(d)
  BY <1>3 DEF Named
<1>4. CASE Named(c) /\ ~Named(d)
  <2>1. Exists(d) /\ channels[d].name = request[r].name
    BY <1>1, <1>4 DEF Named
  <2> QED
    BY <1>2, <1>4, <2>1
<1>5. CASE ~Named(c) /\ Named(d)
  <2>1. Exists(c) /\ channels[c].name = request[r].name
    BY <1>1, <1>5 DEF Named
  <2> QED
    BY <1>2, <1>5, <2>1
<1>6. CASE ~Named(c) /\ ~Named(d)
  BY <1>1, <1>6 DEF IInv, NamesUnique
<1> QED
  BY <1>3, <1>4, <1>5, <1>6

\* What r has just become by finishing.
LEMMA JustCreated ==
  ASSUME IInv, NEW r \in Requests, Steps(r), NEW q \in Requests,
         request[q].at # "done", request'[q].at = "done", request'[q].status = 201
  PROVE  /\ q = r /\ Keeps(r)
         /\ \/ Makes(r) /\ request'[r].op = "CreateChannel"
            \/ Pushes(r) /\ request'[r].op = "AddMember"
            \/ Posts(r) /\ request'[r].op = "PostMessage"
<1>1. q = r
  BY OthersStay
<1>2. ~Asks(r) /\ ~Saves(r)
  BY <1>1 DEF Asks, Grounds, Saves
<1>3. Unfinished(r)
  BY <1>2 DEF Steps, Fails, Makes, Renames, Pushes, Sets, Deletes, Purges, Posts,
     Unposts, Writes, At, Unfinished
<1>4. request[r].status \in {0, 400}
  BY <1>3 DEF IInv, Entitled, EntitledAt
<1>5. ASSUME NEW code, Ends(r, code) PROVE code = 201 /\ Keeps(r)
  BY <1>1, <1>4, <1>5 DEF Ends
<1>6. ASSUME NEW op, NEW code, Writes(r, op, code)
      PROVE  code = 201 /\ Keeps(r) /\ request'[r].op = op
  <2>1. Ends(r, code) \/ Ends(r, 500)
    BY <1>6 DEF Writes
  <2>2. code = 201 /\ Keeps(r)
    BY <1>5, <2>1
  <2> QED
    BY <1>6, <2>2 DEF Writes, At, Keeps
<1>7. ~Fails(r) /\ ~Purges(r)
  BY <1>5 DEF Fails, Purges
<1>8. ~Deletes(r)
  BY <1>1, <1>4, <1>5 DEF Deletes
<1>9. ~Renames(r) /\ ~Sets(r) /\ ~Unposts(r)
  BY <1>6 DEF Renames, Sets, Unposts
<1>10. CASE Makes(r)
  BY <1>1, <1>6, <1>10 DEF Makes
<1>11. CASE Pushes(r)
  BY <1>1, <1>6, <1>11 DEF Pushes
<1>12. CASE Posts(r)
  BY <1>1, <1>6, <1>12 DEF Posts
<1> QED
  BY <1>2, <1>7, <1>8, <1>9, <1>10, <1>11, <1>12 DEF Steps

\* Where a channel goes.
LEMMA ChannelsGo ==
  ASSUME IInv, NEW r \in Requests, Steps(r), NEW c \in ChannelIDs, Exists(c), ~Exists(c)'
  PROVE  /\ Deletes(r) /\ c = request[r].target
         /\ Done(r, "DeleteChannel", c)' /\ request'[r].user = request[r].user
<1>1. Deletes(r) /\ c = request[r].target
  BY DocumentsAssumption DEF Steps, Asks, Fails, Makes, Renames, Pushes, Sets, Deletes,
     Purges, Posts, Unposts, Saves, Saved, Only, Exists
<1>2. request[r].status = 0
  BY <1>1 DEF Deletes, At, IInv, Entitled, EntitledAt, Unfinished
<1> QED
  BY <1>1, <1>2 DEF Deletes, Ends, Keeps, At, Done

\* Where a message goes.
LEMMA MessagesGo ==
  ASSUME IInv, NEW r \in Requests, Steps(r), NEW m \in Requests,
         messages[m] # NoMessage, messages'[m] = NoMessage
  PROVE  \/ /\ Unposts(r) /\ m = request[r].target
            /\ Done(r, "DeleteMessage", m)' /\ request'[r].user = request[r].user
         \/ /\ Purges(r) /\ Done(r, "DeleteChannel", request[m].target)'
<1>1. \/ Unposts(r) /\ m = request[r].target
      \/ Purges(r) /\ messages[m].channel = request[r].target
  <2>1. CASE UNCHANGED messages
    BY <2>1
  <2>2. CASE Posts(r)
    <3>1. messages'[r] \in Messages
      BY <2>2, Fields DEF Posts, Writes, Messages, IInv, Typed
    <3> QED
      BY <2>2, <3>1, DocumentsAssumption DEF Posts, OnlyMessage
  <2>3. CASE Purges(r)
    BY <2>3 DEF Purges
  <2>4. CASE Unposts(r)
    BY <2>4 DEF Unposts, OnlyMessage
  <2>5. CASE Saves(r)
    <3>1. CASE m = request[r].target /\ messages' # messages
      <4>1. messages[m] \in Messages
        BY DEF IInv, Typed
      <4>2. messages'[m] \in Messages
        BY <2>5, <3>1, <4>1 DEF Saves, Messages
      <4> QED
        BY <4>2, DocumentsAssumption
    <3> QED
      BY <2>5, <3>1 DEF Saves, OnlyMessage
  <2> QED
    BY <2>1, <2>2, <2>3, <2>4, <2>5
    DEF Steps, Asks, Fails, Makes, Renames, Pushes, Sets, Deletes, Saved
<1>2. CASE Unposts(r) /\ m = request[r].target
  <2>1. Writes(r, "DeleteMessage", 200) /\ request[r].op = "DeleteMessage"
    BY <1>2 DEF Unposts, Writes, At
  <2>2. request'[r].at = "done" /\ Keeps(r) /\ request'[r].status \in {200, 500}
    BY <2>1, WriteEnds DEF Ops
  <2> QED
    BY <1>2, <2>1, <2>2 DEF Keeps, Done
<1>3. CASE Purges(r) /\ messages[m].channel = request[r].target
  <2>1. request[m].target = request[r].target
    BY <1>3 DEF IInv, MessagesMade
  <2>2. request[r].status = 0 /\ request[r].op = "DeleteChannel"
    BY <1>3 DEF Purges, At, IInv, Entitled, EntitledAt, Unfinished
  <2>3. request'[m] = request[m]
    BY DoneStays DEF IInv, MessagesMade, At
  <2> QED
    BY <1>3, <2>1, <2>2, <2>3 DEF Purges, Ends, Keeps, Done
<1> QED
  BY <1>1, <1>2, <1>3

LEMMA StepDeletions ==
  ASSUME IInv, NEW r \in Requests, Steps(r)
  PROVE  Deletions'
<1>1. ASSUME NEW c \in Requests, At(c, "CreateChannel", "done")', request'[c].status = 201
      PROVE  \/ Exists(c)'
             \/ \E q \in Requests : /\ Done(q, "DeleteChannel", c)'
                                    /\ request'[q].user = request'[c].user
  <2>1. CASE request[c].at # "done"
    <3>1. request'[c].at = "done" /\ request'[c].op = "CreateChannel"
      BY <1>1 DEF At
    <3>2. c = r /\ Makes(r)
      BY <1>1, <2>1, <3>1, JustCreated
    <3> QED
      BY <3>2, DocumentsAssumption DEF Makes, Exists
  <2>2. CASE request[c].at = "done"
    <3>1. request'[c] = request[c] /\ CreatedBy(request[c].user, c)
      BY <1>1, <2>2, DoneStays DEF At, CreatedBy
    <3>2. CASE Exists(c) /\ ~Exists(c)'
      <4>1. c \in ChannelIDs
        BY DEF ChannelIDs
      <4>2. /\ Deletes(r) /\ c = request[r].target
            /\ Done(r, "DeleteChannel", c)' /\ request'[r].user = request[r].user
        BY <3>2, <4>1, ChannelsGo
      <4>3. request[r].user = request[c].user
        BY <4>2, TargetsOwn DEF CreatedBy
      <4> QED
        BY <3>1, <4>2, <4>3
    <3>3. CASE ~Exists(c)
      <4>1. PICK q \in Requests :
              Done(q, "DeleteChannel", c) /\ request[q].user = request[c].user
        BY <1>1, <3>1, <3>3 DEF IInv, Deletions, At
      <4>2. Done(q, "DeleteChannel", c)' /\ request'[q].user = request[q].user
        BY <4>1, DoneLasts
      <4> QED
        BY <3>1, <4>1, <4>2
    <3> QED
      BY <3>2, <3>3
  <2> QED
    BY <2>1, <2>2
<1>2. ASSUME NEW m \in Requests, At(m, "PostMessage", "done")', request'[m].status = 201
      PROVE  \/ messages'[m] # NoMessage
             \/ \E q \in Requests : /\ Done(q, "DeleteMessage", m)'
                                    /\ request'[q].user = request'[m].user
             \/ \E q \in Requests : Done(q, "DeleteChannel", request[m].target)'
  <2>1. CASE request[m].at # "done"
    <3>1. request'[m].at = "done" /\ request'[m].op = "PostMessage"
      BY <1>2 DEF At
    <3>2. m = r /\ Posts(r)
      BY <1>2, <2>1, <3>1, JustCreated
    <3>3. messages'[r] \in Messages
      BY <3>2, Fields DEF Posts, Writes, Messages, IInv, Typed
    <3> QED
      BY <3>2, <3>3, DocumentsAssumption
  <2>2. CASE request[m].at = "done"
    <3>1. request'[m] = request[m] /\ PostedBy(request[m].user, m)
      BY <1>2, <2>2, DoneStays DEF At, PostedBy
    <3>2. CASE messages[m] # NoMessage /\ messages'[m] = NoMessage
      <4>1. Unposts(r) /\ m = request[r].target => request[r].user = request[m].user
        BY DEF Unposts, Writes, At, IInv, Entitled, EntitledAt, Unfinished, PostedBy
      <4> QED
        BY <3>1, <3>2, <4>1, MessagesGo
    <3>3. CASE messages[m] = NoMessage
      <4>1. CASE \E q \in Requests :
                   Done(q, "DeleteMessage", m) /\ request[q].user = request[m].user
        BY <3>1, <4>1, DoneLasts
      <4>2. CASE \E q \in Requests : Done(q, "DeleteChannel", request[m].target)
        <5>1. PICK q \in Requests : Done(q, "DeleteChannel", request[m].target)
          BY <4>2
        <5>2. Done(q, "DeleteChannel", request[m].target)'
          BY <3>1, <5>1, DoneLasts DEF Done
        <5> QED
          BY <5>2
      <4> QED
        BY <1>2, <3>1, <3>3, <4>1, <4>2 DEF IInv, Deletions, At
    <3> QED
      BY <3>2, <3>3
  <2> QED
    BY <2>1, <2>2
<1> QED
  BY <1>1, <1>2 DEF Deletions

\* A member stays through a step, unless the step is its removal.
LEMMA MemberKept ==
  ASSUME IInv, NEW r \in Requests, Steps(r), NEW c \in ChannelIDs, Exists(c), Exists(c)',
         NEW e \in channels[c].members
  PROVE  \/ e \in channels'[c].members
         \/ Done(r, "RemoveMember", c)' /\ request'[r].member = MemberOf(e)
<1>1. CASE channels'[c] = channels[c]
  BY <1>1
<1>2. CASE (Renames(r) \/ Pushes(r)) /\ c = request[r].target
  BY <1>2 DEF Renames, Pushes, OldMembers
<1>3. CASE Sets(r) /\ c = request[r].target
  <2>1. request[r].members = channels[c].members
    <3>1. CreatedBy(request[r].user, c)
      BY <1>3, TargetsOwn
    <3> QED
      BY <1>3, <3>1 DEF Sets, Writes, SameVersion, IInv, Snapshots, SnapshotOf
  <2>2. \/ e \in channels'[c].members
        \/ MemberOf(e) = request[r].member
    BY <1>3, <2>1 DEF Sets
  <2>3. /\ Keeps(r) /\ request[r].op = "RemoveMember"
        /\ request'[r].at = "done" /\ request'[r].status \in {200, 500}
    <3>1. Writes(r, "RemoveMember", 200) /\ request[r].op = "RemoveMember"
      BY <1>3 DEF Sets, Writes, At
    <3> QED
      BY <3>1, WriteEnds DEF Ops
  <2>4. Done(r, "RemoveMember", c)' /\ request'[r].member = request[r].member
    BY <1>3, <2>3 DEF Done, Keeps
  <2> QED
    BY <2>2, <2>4
<1> QED
  BY <1>1, <1>2, <1>3, ChannelsFrom DEF Makes, Exists

LEMMA StepMembersStay ==
  ASSUME IInv, NEW r \in Requests, Steps(r)
  PROVE  MembersStay'
<1> DEFINE Listed(q, c) ==
      \/ request[q].op = "AddMember" /\ request[q].status = 201 /\ request[q].target = c
      \/ q = c /\ request[q].listed
<1>1. ASSUME NEW q \in Requests, NEW c \in ChannelIDs, Exists(c)', Listed(q, c)',
             request'[q] = request[q]
      PROVE  \/ q \in channels'[c].members
             \/ \E w \in Requests : /\ Done(w, "RemoveMember", c)'
                                    /\ request'[w].member = MemberOf(q)
  <2>1. Listed(q, c)
    BY <1>1
  <2>2. Exists(c)
    <3>1. SUFFICES ASSUME Makes(r), c = r PROVE FALSE
      BY <1>1, ChannelsFrom
    <3>2. request[r].at = "write" /\ request'[r].at = "done"
      BY <3>1 DEF Makes, Writes, At, Ends
    <3>3. q # r
      BY <1>1, <3>2
    <3>4. Founding(r)
      BY <2>1, <3>1, <3>3 DEF IInv, Entitled, EntitledAt
    <3> QED
      BY <3>2, <3>4, MessagingAssumption DEF Founding, At
  <2>3. CASE q \in channels[c].members
    BY <1>1, <2>2, <2>3, MemberKept
  <2>4. CASE \E w \in Requests : Done(w, "RemoveMember", c) /\ request[w].member = MemberOf(q)
    <3>1. PICK w \in Requests : Done(w, "RemoveMember", c) /\ request[w].member = MemberOf(q)
      BY <2>4
    <3>2. Done(w, "RemoveMember", c)' /\ request'[w].member = request[w].member
      BY <3>1, DoneLasts
    <3> QED
      BY <3>1, <3>2
  <2> QED
    BY <2>1, <2>2, <2>3, <2>4 DEF IInv, MembersStay
<1>2. ASSUME NEW c \in ChannelIDs, Exists(c)', Listed(r, c)', request'[r] # request[r]
      PROVE  r \in channels'[c].members
  <2>1. request[r].at # "done"
    BY <1>2, DoneStays
  <2>2. CASE /\ request'[r].op = "AddMember" /\ request'[r].status = 201
             /\ request'[r].target = c
    <3>1. request'[r].at = "done"
      <4>1. CASE Asks(r)
        BY <2>2, <4>1 DEF Asks, Grounds, Checked
      <4>2. ~Saves(r)
        BY <1>2 DEF Saves
      <4>3. ASSUME Deletes(r) PROVE FALSE
        BY <2>2, <4>3 DEF Deletes, Ends, Keeps, At
      <4>4. ASSUME NEW code, Ends(r, code) PROVE request'[r].at = "done"
        BY <4>4 DEF Ends
      <4> QED
        BY <4>1, <4>2, <4>3, <4>4, StepEnds
    <3>2. Pushes(r) /\ Keeps(r)
      BY <2>1, <2>2, <3>1, JustCreated
    <3> QED
      BY <2>2, <3>2 DEF Pushes, Keeps
  <2>3. CASE r = c /\ request'[r].listed
    <3>1. ~Exists(r)
      BY <2>1 DEF IInv, ChannelsMade, At
    <3>2. Makes(r) /\ Keeps(r)
      BY <1>2, <2>3, <3>1, ChannelsFrom DEF Makes, Writes, Ends
    <3> QED
      BY <2>3, <3>2 DEF Makes, Keeps
  <2> QED
    BY <1>2, <2>2, <2>3
<1>3. ASSUME NEW q \in Requests, NEW c \in ChannelIDs, Exists(c)', Listed(q, c)'
      PROVE  \/ q \in channels'[c].members
             \/ \E w \in Requests : /\ Done(w, "RemoveMember", c)'
                                    /\ request'[w].member = MemberOf(q)'
  <2>1. CASE request'[q] = request[q]
    <3>1. MemberOf(q)' = MemberOf(q)
      BY <2>1 DEF MemberOf
    <3> QED
      BY <1>1, <1>3, <2>1, <3>1
  <2>2. CASE request'[q] # request[q]
    <3>1. q = r
      BY <2>2, OthersStay
    <3> QED
      BY <1>2, <1>3, <2>2, <3>1
  <2> QED
    BY <2>1, <2>2
<1> QED
  BY <1>3 DEF MembersStay

\* Who may post in a channel that was made stays entitled to have posted.
LEMMA MayStay ==
  ASSUME IInv, NEW r \in Requests, Steps(r), NEW u, NEW c, Founding(c), MayHavePosted(u, c)
  PROVE  MayHavePosted(u, c)'
<1> SUFFICES ASSUME Exists(c)', channels'[c].private
             PROVE  \/ \E e \in channels'[c].members : MemberOf(e)' = u
                    \/ \E q \in Requests :
                         Done(q, "RemoveMember", c)' /\ request'[q].member = u
  BY DEF MayHavePosted, IsMember
<1>1. c \in ChannelIDs /\ ~(Makes(r) /\ c = r)
  BY MessagingAssumption DEF Founding, ChannelIDs, Makes, Writes, At
<1>2. Exists(c) /\ channels[c].private
  BY <1>1, ChannelsFrom
<1>3. c \in Requests
  BY <1>2 DEF Founding, IInv, GeneralKept
<1>4. CASE IsMember(u, channels[c].members)
  <2>1. PICK e \in channels[c].members : MemberOf(e) = u
    BY <1>4 DEF IsMember
  <2>2. request'[e] = request[e]
    BY <1>2, <1>3, DoneStays DEF IInv, Editors, Settled
  <2>3. MemberOf(e)' = u
    BY <2>1, <2>2 DEF MemberOf
  <2>4. \/ e \in channels'[c].members
        \/ Done(r, "RemoveMember", c)' /\ request'[r].member = MemberOf(e)
    BY <1>1, <1>2, MemberKept
  <2> QED
    BY <2>1, <2>3, <2>4
<1>5. CASE \E q \in Requests : Done(q, "RemoveMember", c) /\ request[q].member = u
  <2>1. PICK q \in Requests : Done(q, "RemoveMember", c) /\ request[q].member = u
    BY <1>5
  <2>2. Done(q, "RemoveMember", c)' /\ request'[q].member = request[q].member
    BY <2>1, DoneLasts
  <2> QED
    BY <2>1, <2>2
<1> QED
  BY <1>2, <1>4, <1>5 DEF MayHavePosted

LEMMA StepAuthors ==
  ASSUME IInv, NEW r \in Requests, Steps(r)
  PROVE  AuthorsAreMembers'
<1>1. ASSUME NEW q \in Requests, At(q, "PostMessage", "write")'
      PROVE  MayHavePosted(request[q].user, request[q].target)'
  <2>1. request'[q].at = "write" /\ request'[q].op = "PostMessage"
    BY <1>1 DEF At
  <2>2. CASE request'[q] = request[q]
    <3>1. At(q, "PostMessage", "write") /\ Founding(request[q].target)
      BY <2>1, <2>2 DEF At, IInv, Entitled, EntitledAt, Unfinished
    <3>2. MayHavePosted(request[q].user, request[q].target)
      BY <3>1 DEF IInv, AuthorsAreMembers
    <3>3. PICK u, c : u = request[q].user /\ c = request[q].target
      OBVIOUS
    <3>4. MayHavePosted(u, c)'
      BY <3>1, <3>2, <3>3, MayStay
    <3> QED
      BY <2>2, <3>3, <3>4
  <2>3. CASE request'[q] # request[q]
    <3>1. q = r
      BY <2>3, OthersStay
    <3>2. Asks(r)
      BY <2>1, <2>3, <3>1 DEF Steps, Fails, Makes, Renames, Pushes, Sets, Deletes, Purges,
         Posts, Unposts, Saves, Writes, Ends
    <3>3. PICK u, c : u = request'[q].user /\ c = request'[q].target
      OBVIOUS
    <3>4. Founding(c) /\ MayHavePosted(u, c)
      BY <2>1, <3>1, <3>2, <3>3 DEF Asks, Grounds, Checked
    <3>5. MayHavePosted(u, c)'
      BY <3>4, MayStay
    <3> QED
      BY <3>3, <3>5
  <2> QED
    BY <2>2, <2>3
<1>2. ASSUME NEW m \in Requests, messages'[m] # NoMessage
      PROVE  MayHavePosted(request[m].user, messages[m].channel)'
  <2>1. PICK u, c : u = request'[m].user /\ c = messages'[m].channel
    OBVIOUS
  <2>2. CASE Posts(r) /\ m = r /\ messages'[m].channel = request[r].target
    <3>1. request'[r].user = request[r].user /\ At(r, "PostMessage", "write")
      BY <2>2 DEF Posts, Writes, Ends, Keeps
    <3>2. Founding(c) /\ MayHavePosted(u, c)
      BY <2>1, <2>2, <3>1
      DEF IInv, Entitled, EntitledAt, AuthorsAreMembers, At, Unfinished
    <3> QED
      BY <2>1, <3>2, MayStay
  <2>3. CASE messages[m] # NoMessage /\ messages'[m].channel = messages[m].channel
    <3>1. request'[m] = request[m]
      BY <2>3, DoneStays DEF IInv, MessagesMade, At
    <3>2. Founding(c) /\ MayHavePosted(u, c)
      BY <2>1, <2>3, <3>1 DEF IInv, Editors, AuthorsAreMembers
    <3> QED
      BY <2>1, <3>2, MayStay
  <2> QED
    BY <1>2, <2>2, <2>3, MessagesFrom
<1> QED
  BY <1>1, <1>2 DEF AuthorsAreMembers
-----------------------------------------------------------------------------
(* The invariant holds. *)

LEMMA UnsentFields ==
  /\ Unsent \in RequestStates
  /\ Unsent.at = "new" /\ Unsent.op = "none" /\ Unsent.status = 0
  /\ ~Unsent.listed /\ ~Unsent.private
<1>1. /\ "new" \in Places /\ "none" \in Ops /\ NoUser \in Callers /\ General \in ChannelIDs
      /\ NoName \in Titles /\ {} \in Lists /\ 0 \in Nat /\ 0 \in Codes /\ FALSE \in BOOLEAN
  BY DEF Places, Ops, Callers, ChannelIDs, Titles, Lists, Codes
<1> QED
  BY <1>1, Fields DEF Unsent

LEMMA OverFields ==
  ASSUME NEW op \in Ops, NEW u \in Users, NEW c \in ChannelIDs, NEW m \in Callers,
         NEW n \in Titles
  PROVE  /\ Over(op, u, c, m, n) \in RequestStates
         /\ Over(op, u, c, m, n).at = "done" /\ Over(op, u, c, m, n).op = op
         /\ Over(op, u, c, m, n).user = u /\ Over(op, u, c, m, n).target = c
         /\ Over(op, u, c, m, n).member = m /\ Over(op, u, c, m, n).status = 201
         /\ ~Over(op, u, c, m, n).listed /\ ~Over(op, u, c, m, n).private
<1>1. "done" \in Places /\ u \in Callers /\ 201 \in Codes
  BY DEF Places, Callers, Codes
<1>2. PICK b : b = Unsent
  OBVIOUS
<1>3. PICK f : f = [b EXCEPT !.at = "done", !.op = op, !.user = u, !.target = c,
                             !.member = m, !.name = n, !.status = 201]
  OBVIOUS
<1>4. b \in RequestStates /\ ~b.listed /\ ~b.private
  BY <1>2, UnsentFields
<1>5. /\ f \in RequestStates /\ f.at = "done" /\ f.op = op /\ f.user = u
      /\ f.target = c /\ f.member = m /\ f.status = 201
  BY <1>1, <1>3, <1>4, Fields
<1>6. f.listed = b.listed /\ f.private = b.private
  BY <1>3, <1>4, Fields
<1>7. f = Over(op, u, c, m, n)
  BY <1>2, <1>3 DEF Over
<1> QED
  BY <1>4, <1>5, <1>6, <1>7

\* The requests that are over when the model starts.
LEMMA InitRequests ==
  ASSUME Init
  PROVE  /\ request \in [Requests -> RequestStates]
         /\ /\ At(Founded, "CreateChannel", "done") /\ request[Founded].user = Founder
            /\ request[Founded].private = TRUE /\ request[Founded].listed = TRUE
            /\ request[Founded].status = 201
         /\ /\ At(Joined, "AddMember", "done") /\ request[Joined].user = Founder
            /\ request[Joined].target = Founded /\ request[Joined].member = Guest
            /\ request[Joined].status = 201 /\ ~request[Joined].listed
         /\ /\ At(Posted, "PostMessage", "done") /\ request[Posted].user = Guest
            /\ request[Posted].target = Founded /\ request[Posted].status = 201
            /\ ~request[Posted].listed
         /\ \A r \in Requests \ Past : request[r] = Unsent
<1>1. /\ "CreateChannel" \in Ops /\ "AddMember" \in Ops /\ "PostMessage" \in Ops
      /\ General \in ChannelIDs /\ Founded \in ChannelIDs /\ Founder \in Users /\ Guest \in Users
      /\ Guest \in Callers /\ NoUser \in Callers /\ FoundedName \in Titles /\ NoName \in Titles
  BY MessagingAssumption DEF Ops, ChannelIDs, Callers, Titles, Past
<1> DEFINE f == Over("CreateChannel", Founder, General, NoUser, FoundedName)
           g == [f EXCEPT !.private = TRUE, !.listed = TRUE]
           j == Over("AddMember", Founder, Founded, Guest, NoName)
           p == Over("PostMessage", Guest, Founded, NoUser, NoName)
<1>2. /\ f \in RequestStates /\ f.at = "done" /\ f.op = "CreateChannel" /\ f.user = Founder
      /\ f.status = 201
  BY <1>1, OverFields
<1>3. /\ g \in RequestStates /\ g.at = "done" /\ g.op = "CreateChannel" /\ g.user = Founder
      /\ g.status = 201 /\ g.private = TRUE /\ g.listed = TRUE
  <2> HIDE DEF f
  <2> QED
    BY <1>2, Fields
<1>4. /\ j \in RequestStates /\ j.at = "done" /\ j.op = "AddMember" /\ j.user = Founder
      /\ j.target = Founded /\ j.member = Guest /\ j.status = 201 /\ ~j.listed
  BY <1>1, OverFields
<1>5. /\ p \in RequestStates /\ p.at = "done" /\ p.op = "PostMessage" /\ p.user = Guest
      /\ p.target = Founded /\ p.status = 201 /\ ~p.listed
  BY <1>1, OverFields
<1>6. request = [r \in Requests |-> CASE r = Founded -> g [] r = Joined -> j
                                      [] r = Posted -> p [] OTHER -> Unsent]
  BY DEF Init
<1> HIDE DEF f, g, j, p
<1> QED
  BY <1>3, <1>4, <1>5, <1>6, UnsentFields, MessagingAssumption DEF At, Past

LEMMA InitDocuments ==
  ASSUME Init
  PROVE  /\ channels \in [ChannelIDs -> Channels \cup {NoChannel}]
         /\ GeneralKept
         /\ /\ channels[Founded].name = FoundedName /\ channels[Founded].creator = Founder
            /\ channels[Founded].private = TRUE /\ channels[Founded].members = {Founded, Joined}
            /\ channels[Founded].editor = Joined /\ Exists(Founded)
         /\ \A c \in Requests \ {Founded} : ~Exists(c)
         /\ messages \in [Requests -> Messages \cup {NoMessage}]
         /\ messages[Posted].channel = Founded /\ messages[Posted].editor = Posted
         /\ messages[Posted] # NoMessage
         /\ \A m \in Requests \ {Posted} : messages[m] = NoMessage
<1> DEFINE g == [name |-> GeneralName, creator |-> Admin, private |-> FALSE,
                 members |-> {}, version |-> 0, editor |-> General]
           f == [name |-> FoundedName, creator |-> Founder, private |-> TRUE,
                 members |-> {Founded, Joined}, version |-> 1, editor |-> Joined]
           p == [channel |-> Founded, editor |-> Posted]
<1>1. g \in Channels /\ f \in Channels /\ p \in Messages
  BY MessagingAssumption DEF Channels, Messages, ChannelIDs, Past
<1>2. /\ f.name = FoundedName /\ f.creator = Founder /\ f.private = TRUE
      /\ f.members = {Founded, Joined} /\ f.editor = Joined
      /\ p.channel = Founded /\ p.editor = Posted
  OBVIOUS
<1>3. /\ channels = [c \in ChannelIDs |-> CASE c = General -> g [] c = Founded -> f
                                            [] OTHER -> NoChannel]
      /\ messages = [m \in Requests |-> IF m = Posted THEN p ELSE NoMessage]
  BY DEF Init
<1>4. GeneralKept <=> channels[General] = g
  BY DEF GeneralKept
<1> HIDE DEF g, f, p
<1> QED
  BY <1>1, <1>2, <1>3, <1>4, MessagingAssumption, DocumentsAssumption
  DEF ChannelIDs, Exists, Past

LEMMA InitIInv ==
  ASSUME Init PROVE IInv
<1>1. Typed
  BY InitRequests, InitDocuments DEF Typed, Init
<1>2. /\ Past \subseteq Requests /\ General \notin Requests /\ Founded # Joined
      /\ Founded # Posted /\ Joined # Posted /\ GeneralName # FoundedName
  BY MessagingAssumption
<1>3. \A r \in Requests : \/ r \in Past
                          \/ request[r].at = "new" /\ request[r].op = "none"
                             /\ request[r].status = 0 /\ ~request[r].listed
  <2>1. \A r \in Requests \ Past : request[r] = Unsent
    BY InitRequests
  <2> QED
    BY <2>1, UnsentFields
<1>a. \A r \in Requests : request[r].at \in {"new", "done"} /\ r \notin pending
  <2>1. \A r \in Past : request[r].at = "done"
    BY InitRequests DEF At, Past
  <2>2. pending = {}
    BY DEF Init
  <2> QED
    BY <1>3, <2>1, <2>2
<1>4. ChannelsMade /\ MessagesMade
  <2>1. /\ \A c \in Requests : Exists(c) => c = Founded
        /\ \A m \in Requests : messages[m] # NoMessage => m = Posted
    BY InitDocuments
  <2>2. /\ At(Founded, "CreateChannel", "done") /\ request[Founded].status = 201
        /\ channels[Founded].creator = request[Founded].user
        /\ channels[Founded].private = request[Founded].private
    BY InitRequests, InitDocuments
  <2>3. /\ At(Posted, "PostMessage", "done") /\ request[Posted].status = 201
        /\ messages[Posted].channel = request[Posted].target
    BY InitRequests, InitDocuments
  <2> QED
    BY <2>1, <2>2, <2>3 DEF ChannelsMade, MessagesMade
<1>5. Entitled
  <2>2. \A r \in Requests : request[r].op = "AddMember" => r = Joined
    BY <1>2, <1>3, InitRequests DEF At, Past
  <2>3. Founding(request[Joined].target)
    BY <1>2, InitRequests DEF Founding, Past
  <2> QED
    BY <1>a, <2>2, <2>3 DEF Entitled, EntitledAt, Unfinished
<1>6. Snapshots
  BY <1>a DEF Snapshots, SnapshotOf, At
<1>7. Editors
  BY <1>2, InitRequests, InitDocuments DEF Editors, Settled, Founding, At, Past
<1>8. Deletions
  BY <1>2, <1>3, InitRequests, InitDocuments DEF Deletions, At, Past
<1>9. NamesUnique
  BY <1>2, InitDocuments DEF NamesUnique, GeneralKept, ChannelIDs
<1>10. MembersStay
  BY <1>2, <1>3, InitRequests, InitDocuments DEF MembersStay, ChannelIDs, At, Past, GeneralKept
<1>11. AuthorsAreMembers
  <2>1. MemberOf(Joined) = Guest
    BY InitRequests DEF MemberOf, At
  <2> QED
    BY <1>2, <1>3, <2>1, InitRequests, InitDocuments
    DEF AuthorsAreMembers, MayHavePosted, IsMember, At, Past
<1> QED
  BY <1>1, <1>4, <1>5, <1>6, <1>7, <1>8, <1>9, <1>10, <1>11, InitDocuments DEF IInv

LEMMA StutterIInv ==
  ASSUME IInv, UNCHANGED vars PROVE IInv'
<1>1. /\ channels' = channels /\ messages' = messages /\ request' = request
      /\ pending' = pending
  BY DEF vars
<1>2. Typed' /\ GeneralKept'
  BY <1>1 DEF IInv, Typed, GeneralKept
<1>3. ChannelsMade' /\ MessagesMade'
  BY <1>1 DEF IInv, ChannelsMade, MessagesMade, At, Exists
<1>4. Entitled'
  <2>1. /\ \A c : Founding(c)' <=> Founding(c)
        /\ \A u, c : CreatedBy(u, c)' <=> CreatedBy(u, c)
        /\ \A u, m : PostedBy(u, m)' <=> PostedBy(u, m)
    BY <1>1 DEF Founding, CreatedBy, PostedBy, At
  <2> QED
    BY <1>1, <2>1 DEF IInv, Entitled, EntitledAt, Unfinished, At
<1>5. Snapshots'
  BY <1>1 DEF IInv, Snapshots, SnapshotOf, At, Exists
<1>6. Editors'
  <2>1. /\ \A r : Settled(r)' <=> Settled(r)
        /\ \A c : Founding(c)' <=> Founding(c)
    BY <1>1 DEF Settled, Founding, At
  <2> QED
    BY <1>1, <2>1 DEF IInv, Editors, Exists
<1>7. Deletions'
  BY <1>1 DEF IInv, Deletions, Done, At, Exists
<1>8. NamesUnique'
  BY <1>1 DEF IInv, NamesUnique, Exists
<1>9. MembersStay'
  BY <1>1 DEF IInv, MembersStay, MemberOf, Done, At, Exists
<1>10. AuthorsAreMembers'
  BY <1>1 DEF IInv, AuthorsAreMembers, MayHavePosted, IsMember, MemberOf, Done, At, Exists
<1> QED
  BY <1>2, <1>3, <1>4, <1>5, <1>6, <1>7, <1>8, <1>9, <1>10 DEF IInv

LEMMA StepRuled ==
  ASSUME IInv, Ruled, NEW r \in Requests, Steps(r)
  PROVE  Ruled'
<1>1. ASSUME NEW q \in Requests, q # r PROVE RuledAt(q)'
  <2>1. request'[q] = request[q] /\ RuledAt(q)
    BY <1>1, OthersStay DEF Ruled
  <2>2. CASE request[q].at = "write" /\ request[q].op \in OfMembers
    <3>1. CreatedBy(request[q].user, request[q].target)
      BY <2>2 DEF IInv, Entitled, EntitledAt, Unfinished, OfCreators, OfMembers
    <3>2. request'[request[q].target] = request[request[q].target]
      BY <3>1, DoneStays DEF CreatedBy, At
    <3> QED
      BY <2>1, <2>2, <3>2 DEF RuledAt, Unfinished, At
  <2>3. CASE request[q].at = "messages"
    <3>1. CreatedBy(request[q].user, request[q].target)
      BY <2>3 DEF IInv, Entitled, EntitledAt, Unfinished, OfCreators
    <3>2. request[q].target \in ChannelIDs /\ ~(Makes(r) /\ request[q].target = r)
      BY <3>1 DEF CreatedBy, ChannelIDs, At, Makes, Writes
    <3>3. PICK c \in ChannelIDs : c = request[q].target
      BY <3>2
    <3>4. ~Exists(c)'
      BY <2>1, <2>3, <3>2, <3>3, ChannelsFrom DEF RuledAt
    <3> QED
      BY <2>1, <2>3, <3>3, <3>4 DEF RuledAt, Unfinished, At, Exists
  <2> QED
    BY <2>1, <2>2, <2>3 DEF RuledAt, Unfinished, At
<1>2. ASSUME request'[r].at = "done" PROVE RuledAt(r)'
  BY <1>2 DEF RuledAt, Unfinished, At
<1>3. ASSUME Asks(r), request'[r].at = "write" PROVE RuledAt(r)'
  <2>1. Checked(request'[r]) /\ UNCHANGED channels
    BY <1>3 DEF Asks, Grounds
  <2>2. CASE request'[r].op \in OfMembers
    <3>1. PICK c \in Requests : /\ c = request'[r].target /\ At(c, "CreateChannel", "done")
                               /\ Exists(c) /\ channels[c].private = TRUE
      BY <2>1, <2>2 DEF Checked, CreatedBy, OfCreators, OfMembers
    <3>2. request'[c].private = TRUE
      BY <3>1, DoneStays DEF IInv, ChannelsMade, At
    <3> QED
      BY <1>3, <2>1, <2>2, <3>1, <3>2 DEF RuledAt, Checked, Unfinished, At
  <2>3. CASE request'[r].op \notin OfMembers
    BY <1>3, <2>1, <2>3 DEF RuledAt, Checked, Unfinished, At, OfMembers
  <2> QED
    BY <2>2, <2>3
<1>4. ASSUME Deletes(r), request'[r].at = "messages" PROVE RuledAt(r)'
  <2>1. /\ Keeps(r) /\ request[r].user \in Users
        /\ channels'[request'[r].target] = NoChannel
    BY <1>4 DEF Deletes, Ends, Keeps, Ruled, RuledAt, Unfinished, At
  <2> QED
    BY <1>4, <2>1 DEF RuledAt, Unfinished, At, Keeps, Exists
<1>5. CASE Saves(r)
  <2>1. request' = request /\ request[r].at = "done"
    BY <1>5 DEF Saves, IInv, Entitled, EntitledAt, At
  <2> QED
    BY <1>1, <1>2, <2>1 DEF Ruled
<1>6. CASE Deletes(r)
  BY <1>1, <1>2, <1>4, <1>6 DEF Deletes, Ends, Ruled
<1>7. CASE Asks(r)
  BY <1>1, <1>2, <1>3, <1>7 DEF Asks, Grounds, Ruled
<1>8. ASSUME NEW code, Ends(r, code) PROVE Ruled'
  BY <1>1, <1>2, <1>8 DEF Ends, Ruled
<1> QED
  BY <1>5, <1>6, <1>7, <1>8, StepEnds

LEMMA StepIInv ==
  ASSUME IInv, [Next]_vars PROVE IInv'
<1>1. CASE UNCHANGED vars
  BY <1>1, StutterIInv
<1>2. ASSUME NEW r \in Requests, Steps(r) PROVE IInv'
  BY <1>2, StepTyped, StepGeneralKept, StepMade, StepEntitled, StepSnapshots, StepEditors,
     StepDeletions, StepNamesUnique, StepMembersStay, StepAuthors DEF IInv
<1> QED
  BY <1>1, <1>2, StepShape

\* What the other theorems rest on: documents are what settled requests of the
\* entitled users made of them, and a version tells whether the members a
\* RemoveMember has read are still those stored (channel.ts, message.ts).
THEOREM Inductive == Spec => []IInv
<1>1. Init => IInv
  BY InitIInv
<1>2. IInv /\ [Next]_vars => IInv'
  BY StepIInv
<1> QED
  BY <1>1, <1>2, PTL DEF Spec

\* Documents and requests have their types, and what is saved after its answer
\* is an edit answered 200 (messages.ts, message.ts).
THEOREM Typing == Spec => []TypeOK
<1>1. IInv => TypeOK
  BY DEF IInv, Typed, TypeOK, Exists, Entitled, EntitledAt
<1> QED
  BY <1>1, Inductive, PTL

\* Creates and renames that looked their name up some time before they write
\* never give one name to two channels (channel.ts:54, 182).
THEOREM OneNameEach == Spec => []NamesUnique
<1>1. IInv => NamesUnique
  BY DEF IInv
<1> QED
  BY <1>1, Inductive, PTL

\* Only its creator saves or deletes a channel or a message, whatever runs
\* between the check and the write (channel.ts:171, 217, utils.ts:112).
THEOREM CreatorsChange == Spec => []OnlyCreatorsChange
<1>1. IInv => OnlyCreatorsChange
  BY DEF IInv, Editors, Deletions, OnlyCreatorsChange
<1> QED
  BY <1>1, Inductive, PTL

\* A request that was refused left nothing behind, at any later time
\* (channel.ts:62, 129, 171, 273, 324, utils.ts:112).
THEOREM RefusalsWriteNothing == Spec => []RefusedRequestsWriteNothing
<1>1. ASSUME IInv, NEW r \in Requests,
             request[r].at = "done", request[r].status \in {400, 401, 403},
             ~(request[r].op = "PatchChannel" /\ request[r].name = NoName)
      PROVE  /\ messages[r] = NoMessage /\ ~Exists(r)
             /\ \A c \in ChannelIDs : Exists(c) =>
                  channels[c].editor # r /\ r \notin channels[c].members
             /\ \A m \in Requests : messages[m] # NoMessage => messages[m].editor # r
  <2>1. ~Settled(r) /\ request[r].status \notin {201, 500}
    BY <1>1 DEF Settled
  <2>2. messages[r] = NoMessage /\ ~Exists(r)
    BY <1>1, <2>1 DEF IInv, ChannelsMade, MessagesMade
  <2>3. \A c \in Requests : Exists(c) =>
          channels[c].editor # r /\ r \notin channels[c].members
    BY <1>1, <2>1 DEF IInv, Editors
  <2>4. channels[General].editor # r /\ r \notin channels[General].members
    BY <1>1, MessagingAssumption DEF IInv, GeneralKept
  <2>5. \A m \in Requests : messages[m] # NoMessage => messages[m].editor # r
    BY <1>1, <2>1 DEF IInv, Editors
  <2> QED
    BY <2>2, <2>3, <2>4, <2>5 DEF ChannelIDs
<1>2. IInv => RefusedRequestsWriteNothing
  BY <1>1 DEF RefusedRequestsWriteNothing
<1> QED
  BY <1>2, Inductive, PTL

\* A member that was stored stays until somebody removes that user: a
\* RemoveMember that read the array before a push fails (channel.ts:297, 348).
THEOREM MembersKept == Spec => []MembersStay
<1>1. IInv => MembersStay
  BY DEF IInv
<1> QED
  BY <1>1, Inductive, PTL

\* Whoever wrote a message in a private channel is or was a member of it, with
\* the check and the write two queries apart (channel.ts:129).
THEOREM AuthorsWereIn == Spec => []AuthorsWereMembers
<1>1. IInv => AuthorsWereMembers
  BY DEF IInv, AuthorsAreMembers, MayHavePosted, AuthorsWereMembers
<1> QED
  BY <1>1, Inductive, PTL

\* Requests that are about to write were sent by users, the channels whose
\* members they change are private, and nobody removes themselves.
THEOREM RulesKept == Spec => []Ruled
<1>1. Init => Ruled
  <2> SUFFICES ASSUME Init, NEW r \in Requests PROVE RuledAt(r)
    BY DEF Ruled
  <2>1. request[r].at \in {"new", "done"}
    BY InitRequests, UnsentFields DEF At, Past
  <2> QED
    BY <2>1 DEF RuledAt, Unfinished, At
<1>2. IInv /\ Ruled /\ [Next]_vars => Ruled'
  <2>1. ASSUME Ruled, UNCHANGED vars PROVE Ruled'
    BY <2>1 DEF Ruled, RuledAt, Unfinished, At, Exists, vars
  <2> QED
    BY <2>1, StepRuled, StepShape
<1> QED
  BY <1>1, <1>2, Inductive, PTL DEF Spec
=============================================================================
