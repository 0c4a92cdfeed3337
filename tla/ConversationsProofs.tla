------------------------- MODULE ConversationsProofs -------------------------
(***************************************************************************)
(* Messaging implements Conversations, for any set of requests, users and  *)
(* names: every step with a shape of MessagingProofs is a step there, or   *)
(* changes nothing.                                                        *)
(***************************************************************************)
EXTENDS MessagingProofs

\* The entries of the tables that Conversations speaks of.
Who(c) == {MemberOf(e) : e \in channels[c].members}

Row(c) == [name    |-> channels[c].name,    creator |-> SavedBy(c),
           private |-> channels[c].private, members |-> Who(c)]

Author(m) == request[messages[m].editor].user

Item(m) == [channel |-> messages[m].channel, author |-> Author(m)]

LEMMA Rows ==
  /\ DOMAIN StoredChannels = {c \in ChannelIDs : Exists(c)}
  /\ \A c \in DOMAIN StoredChannels : StoredChannels[c] = Row(c)
  /\ StoredChannels = [c \in DOMAIN StoredChannels |-> StoredChannels[c]]
BY DEF StoredChannels, Row, Who

LEMMA NextRows ==
  /\ DOMAIN StoredChannels' = {c \in ChannelIDs : Exists(c)'}
  /\ \A c \in DOMAIN StoredChannels' : StoredChannels'[c] = Row(c)'
  /\ StoredChannels' = [c \in DOMAIN StoredChannels' |-> StoredChannels'[c]]
BY DEF StoredChannels, Row, Who

LEMMA Items ==
  /\ DOMAIN StoredMessages = {m \in Requests : messages[m] # NoMessage}
  /\ \A m \in DOMAIN StoredMessages : StoredMessages[m] = Item(m)
  /\ StoredMessages = [m \in DOMAIN StoredMessages |-> StoredMessages[m]]
  /\ \A m \in DOMAIN StoredMessages : /\ StoredMessages[m].channel = messages[m].channel
                                       /\ StoredMessages[m].author = Author(m)
BY DEF StoredMessages, Item, Author

LEMMA NextItems ==
  /\ DOMAIN StoredMessages' = {m \in Requests : messages'[m] # NoMessage}
  /\ \A m \in DOMAIN StoredMessages' : StoredMessages'[m] = Item(m)'
  /\ StoredMessages' = [m \in DOMAIN StoredMessages' |-> StoredMessages'[m]]
  /\ \A m \in DOMAIN StoredMessages' : /\ StoredMessages'[m].channel = messages'[m].channel
                                        /\ StoredMessages'[m].author = Author(m)'
BY DEF StoredMessages, Item, Author
-----------------------------------------------------------------------------
(* What a step makes of an entry.                                          *)

LEMMA MemberOfStays ==
  ASSUME IInv, NEW r \in Requests, Steps(r), NEW c \in ChannelIDs, Exists(c),
         NEW e \in channels[c].members
  PROVE  MemberOf(e)' = MemberOf(e)
<1>1. c # General
  BY DEF IInv, GeneralKept
<1>2. Settled(e)
  BY <1>1 DEF IInv, Editors, ChannelIDs
<1>3. request'[e] = request[e]
  BY <1>2, DoneStays DEF Settled
<1> QED
  BY <1>3 DEF MemberOf

LEMMA SavedByCreator ==
  ASSUME IInv, NEW c \in Requests, Exists(c)
  PROVE  SavedBy(c) = channels[c].creator
BY MessagingAssumption DEF IInv, Editors, Settled, SavedBy

\* A channel nobody saves stays as it is.
LEMMA RowStays ==
  ASSUME IInv, NEW r \in Requests, Steps(r), NEW c \in ChannelIDs, Exists(c),
         channels'[c] = channels[c]
  PROVE  Row(c)' = Row(c)
<1>1. Who(c)' = Who(c)
  BY MemberOfStays DEF Who
<1>2. SavedBy(c)' = SavedBy(c)
  <2>1. channels[c].editor = General \/ Settled(channels[c].editor)
    BY DEF IInv, Editors, GeneralKept, ChannelIDs
  <2>2. channels[c].editor = General \/ request'[channels[c].editor] = request[channels[c].editor]
    BY <2>1, DoneStays DEF Settled
  <2> QED
    BY <2>2 DEF SavedBy
<1> QED
  BY <1>1, <1>2 DEF Row

\* A channel that is saved is saved by the user who saved it last.
LEMMA RowSaved ==
  ASSUME IInv, NEW r \in Requests, Renames(r) \/ Pushes(r) \/ Sets(r),
         NEW c, c = request[r].target
  PROVE  /\ c \in Requests /\ Exists(c) /\ Exists(c)'
         /\ SavedBy(c) = request[r].user /\ SavedBy(c)' = request[r].user
         /\ channels'[c].private = channels[c].private
         /\ request'[r].at = "done" /\ Keeps(r) /\ UNCHANGED messages /\ Only(c)
<1>1. c \in Requests /\ request[r].user = request[c].user
  BY TargetsOwn DEF CreatedBy
<1>2. Saved(r, c) /\ \E op, code : Writes(r, op, code)
  BY DEF Renames, Pushes, Sets
<1>3. Exists(c) /\ Exists(c)' /\ channels'[c].private = channels[c].private
      /\ UNCHANGED messages /\ Only(c) /\ channels'[c].editor = r
  BY <1>2, DocumentsAssumption DEF Saved, Exists
<1>4. request'[r].at = "done" /\ Keeps(r)
  BY <1>2 DEF Writes, Ends
<1>5. SavedBy(c)' = request[r].user
  BY <1>3, <1>4, MessagingAssumption DEF SavedBy, Keeps
<1>6. SavedBy(c) = request[r].user
  BY <1>1, <1>3, SavedByCreator DEF IInv, ChannelsMade
<1> QED
  BY <1>1, <1>3, <1>4, <1>5, <1>6

\* A message that stays has the channel and the author it had.
LEMMA ItemStays ==
  ASSUME IInv, NEW r \in Requests, Steps(r), NEW m \in Requests,
         messages[m] # NoMessage, messages'[m] # NoMessage
  PROVE  Item(m)' = Item(m)
<1>1. /\ messages'[m].channel = messages[m].channel
      /\ \/ messages'[m].editor = messages[m].editor
         \/ Saves(r) /\ m = request[r].target /\ messages'[m].editor = r
  BY MessagesFrom
<1>2. Settled(messages[m].editor) /\ Author(m) = request[m].user
  BY DEF IInv, Editors, Author
<1>3. CASE messages'[m].editor = messages[m].editor
  BY <1>1, <1>2, <1>3, DoneStays DEF Settled, Item, Author
<1>4. CASE Saves(r) /\ m = request[r].target /\ messages'[m].editor = r
  <2>1. request[m].user = request[r].user /\ UNCHANGED request
    BY <1>4 DEF Saves, IInv, Entitled, EntitledAt, PostedBy
  <2> QED
    BY <1>1, <1>2, <1>4, <2>1 DEF Item, Author
<1> QED
  BY <1>1, <1>3, <1>4

LEMMA ChannelsIdle ==
  ASSUME IInv, NEW r \in Requests, Steps(r), UNCHANGED channels
  PROVE  UNCHANGED StoredChannels
<1>1. DOMAIN StoredChannels' = DOMAIN StoredChannels
  BY Rows, NextRows DEF Exists
<1>2. ASSUME NEW c \in DOMAIN StoredChannels PROVE StoredChannels'[c] = StoredChannels[c]
  BY <1>1, <1>2, Rows, NextRows, RowStays
<1> QED
  BY <1>1, <1>2, Rows, NextRows

LEMMA MessagesIdle ==
  ASSUME IInv, NEW r \in Requests, Steps(r),
         \A m \in Requests : messages'[m] = NoMessage <=> messages[m] = NoMessage
  PROVE  UNCHANGED StoredMessages
<1>1. DOMAIN StoredMessages' = DOMAIN StoredMessages
  BY Items, NextItems
<1>2. ASSUME NEW m \in DOMAIN StoredMessages PROVE StoredMessages'[m] = StoredMessages[m]
  BY <1>1, <1>2, Items, NextItems, ItemStays
<1> QED
  BY <1>1, <1>2, Items, NextItems

\* An id is used up when the request it is named by is over.
LEMMA UsedNext ==
  ASSUME IInv, NEW r \in Requests, Steps(r)
  PROVE  /\ UsedChannels' = IF At(r, "CreateChannel", "done")' THEN UsedChannels \cup {r}
                            ELSE UsedChannels
         /\ UsedMessages' = IF At(r, "PostMessage", "done")' THEN UsedMessages \cup {r}
                            ELSE UsedMessages
<1>1. ASSUME NEW q \in Requests, NEW op, q # r
      PROVE  At(q, op, "done")' <=> At(q, op, "done")
  BY <1>1, OthersStay DEF At
<1>2. ASSUME NEW op, At(r, op, "done") PROVE At(r, op, "done")'
  BY <1>2, DoneStays DEF At
<1>3. r # General
  BY MessagingAssumption
<1> QED
  BY <1>1, <1>2, <1>3 DEF UsedChannels, UsedMessages, ChannelIDs

-----------------------------------------------------------------------------
(* Every step of Messaging is a step of Conversations, or none.            *)

\* A step that changes no document leaves everything as it is, but for the id
\* that a refusal uses up.
LEMMA IdleStep ==
  ASSUME IInv, NEW r \in Requests, Steps(r), UNCHANGED <<StoredChannels, StoredMessages>>
  PROVE  [Talk!Next]_(Talk!vars)
<1>1. CASE At(r, "CreateChannel", "done")'
  <2>1. UsedChannels' = UsedChannels \cup {r} /\ UNCHANGED UsedMessages
    BY <1>1, UsedNext DEF At
  <2>2. Talk!SpendChannel(r) /\ r \in UsedChannels'
    BY <2>1 DEF Talk!SpendChannel
  <2> QED
    BY <2>2 DEF Talk!Next
<1>2. CASE At(r, "PostMessage", "done")'
  <2>1. UsedMessages' = UsedMessages \cup {r} /\ UNCHANGED UsedChannels
    BY <1>2, UsedNext DEF At
  <2>2. Talk!SpendMessage(r) /\ r \in UsedMessages'
    BY <2>1 DEF Talk!SpendMessage
  <2> QED
    BY <2>2 DEF Talk!Next
<1>3. CASE ~At(r, "CreateChannel", "done")' /\ ~At(r, "PostMessage", "done")'
  BY <1>3, UsedNext DEF Talk!vars
<1> QED
  BY <1>1, <1>2, <1>3

\* A step that ends a request of another kind uses no id up.
LEMMA UsedIdle ==
  ASSUME IInv, NEW r \in Requests, Steps(r),
         request'[r].op \notin {"CreateChannel", "PostMessage"}
  PROVE  UNCHANGED <<UsedChannels, UsedMessages>>
BY UsedNext DEF At

LEMMA CreateStep ==
  ASSUME IInv, Ruled, NEW r \in Requests, Makes(r)
  PROVE  [Talk!Next]_(Talk!vars)
<1>s. Steps(r)
  BY DEF Steps
<1>1. /\ Writes(r, "CreateChannel", 201) /\ At(r, "CreateChannel", "write")
      /\ Only(r) /\ channels'[r] \in Channels /\ UNCHANGED messages
  BY DEF Makes, Writes
<1>2. /\ Keeps(r) /\ At(r, "CreateChannel", "done")'
      /\ request[r].user \in Users /\ (request[r].listed = TRUE => request[r].private = TRUE)
  BY <1>1 DEF Writes, Ends, Keeps, At, Ruled, RuledAt, Unfinished
<1>3. /\ UsedChannels' = UsedChannels \cup {r} /\ UNCHANGED UsedMessages
      /\ UNCHANGED StoredMessages
  BY <1>s, <1>1, <1>2, UsedNext, MessagesIdle DEF At
<1>4. r \notin UsedChannels /\ ~Exists(r) /\ Exists(r)' /\ r \in ChannelIDs
  BY <1>1, MessagingAssumption, DocumentsAssumption
  DEF UsedChannels, At, IInv, ChannelsMade, Exists, ChannelIDs
<1>5. DOMAIN StoredChannels' = DOMAIN StoredChannels \cup {r}
  BY <1>1, <1>4, Rows, NextRows DEF Only, Exists
<1>6. ASSUME NEW c \in DOMAIN StoredChannels PROVE StoredChannels'[c] = StoredChannels[c]
  <2>1. c \in ChannelIDs /\ Exists(c) /\ channels'[c] = channels[c]
    BY <1>1, <1>4, <1>6, Rows DEF Only
  <2> QED
    BY <1>s, <1>5, <2>1, Rows, NextRows, RowStays
<1>7. StoredChannels'[r] = Row(r)'
  BY <1>5, NextRows
<1>8. /\ StoredChannels'[r].name = request[r].name
      /\ StoredChannels'[r].creator = request[r].user
      /\ StoredChannels'[r].private = request[r].private
      /\ StoredChannels'[r].members = Who(r)'
  <2>1. SavedBy(r)' = request[r].user
    BY <1>2, MessagingAssumption DEF SavedBy, Makes, Keeps
  <2> QED
    BY <1>7, <2>1 DEF Row, Makes
<1>9. Who(r)' \in IF request[r].private THEN SUBSET {request[r].user} ELSE {{}}
  <2>1. channels'[r].members = IF request[r].listed THEN {r} ELSE {}
    BY DEF Makes
  <2>2. request[r].listed \in BOOLEAN /\ request[r].private \in BOOLEAN
    BY Fields DEF IInv, Typed
  <2>3. CASE request[r].listed
    <3>1. MemberOf(r)' = request[r].user
      BY <1>2 DEF MemberOf, At, Keeps
    <3>2. Who(r)' = {request[r].user}
      BY <2>1, <2>3, <3>1 DEF Who
    <3> QED
      BY <1>2, <2>2, <2>3, <3>2
  <2>4. CASE ~request[r].listed
    BY <2>1, <2>2, <2>4 DEF Who
  <2> QED
    BY <2>3, <2>4
<1>10. Talk!IsFree(request[r].name, r)
  <2>1. \A d \in ChannelIDs : Exists(d) => channels[d].name # request[r].name
    BY <1>1 DEF Makes, NameIsFree, At
  <2> QED
    BY <2>1, Rows DEF Talk!IsFree, Row
<1>11. Talk!Create(request[r].user, r)
  BY <1>3, <1>4, <1>5, <1>6, <1>8, <1>9, <1>10 DEF Talk!Create
<1> QED
  BY <1>2, <1>5, <1>11 DEF Talk!Next

\* A channel is saved, and no other changes.
LEMMA OneRow ==
  ASSUME IInv, NEW r \in Requests, Renames(r) \/ Pushes(r) \/ Sets(r),
         NEW c, c = request[r].target, NEW row, Row(c)' = row
  PROVE  /\ StoredChannels' = [StoredChannels EXCEPT ![c] = row]
         /\ c \in DOMAIN StoredChannels /\ StoredChannels[c] = Row(c)
         /\ UNCHANGED <<StoredMessages, UsedChannels, UsedMessages>>
<1>s. Steps(r)
  BY DEF Steps
<1>1. /\ c \in Requests /\ Exists(c) /\ Exists(c)' /\ UNCHANGED messages /\ Only(c) /\ Keeps(r)
  BY RowSaved
<1>2. c \in ChannelIDs
  BY <1>1 DEF ChannelIDs
<1>3. /\ c \in DOMAIN StoredChannels /\ DOMAIN StoredChannels' = DOMAIN StoredChannels
      /\ StoredChannels[c] = Row(c) /\ StoredChannels'[c] = row
  BY <1>1, <1>2, Rows, NextRows DEF Only, Exists
<1>4. ASSUME NEW d \in DOMAIN StoredChannels, d # c
      PROVE  StoredChannels'[d] = StoredChannels[d]
  <2>1. d \in ChannelIDs /\ Exists(d) /\ channels'[d] = channels[d]
    BY <1>1, <1>4, Rows DEF Only
  <2> QED
    BY <1>s, <1>3, <1>4, <2>1, Rows, NextRows, RowStays
<1>5. StoredChannels' = [StoredChannels EXCEPT ![c] = row]
  BY <1>3, <1>4, Rows, NextRows
<1>6. request'[r].op \notin {"CreateChannel", "PostMessage"}
  BY <1>1 DEF Renames, Pushes, Sets, Writes, At, Keeps
<1> QED
  BY <1>s, <1>1, <1>3, <1>5, <1>6, UsedIdle, MessagesIdle

LEMMA RenameStep ==
  ASSUME IInv, Ruled, NEW r \in Requests, Renames(r)
  PROVE  [Talk!Next]_(Talk!vars)
<1>s. Steps(r)
  BY DEF Steps
<1>1. PICK c : c = request[r].target
  OBVIOUS
<1>2. /\ c \in Requests /\ Exists(c)
      /\ SavedBy(c) = request[r].user /\ SavedBy(c)' = request[r].user
      /\ channels'[c].private = channels[c].private
  BY <1>1, RowSaved
<1>3. c \in ChannelIDs
  BY <1>2 DEF ChannelIDs
<1>4. Who(c)' = Who(c)
  BY <1>s, <1>1, <1>2, <1>3, MemberOfStays DEF Who, Renames, OldMembers
<1>5. PICK n : n = channels'[c].name
  OBVIOUS
<1>6. Row(c)' = [Row(c) EXCEPT !.name = n]
  BY <1>2, <1>4, <1>5 DEF Row
<1>7. /\ StoredChannels' = [StoredChannels EXCEPT ![c] = [Row(c) EXCEPT !.name = n]]
      /\ c \in DOMAIN StoredChannels /\ StoredChannels[c] = Row(c)
      /\ UNCHANGED <<StoredMessages, UsedChannels, UsedMessages>>
  BY <1>1, <1>6, OneRow
<1>8. n = IF request[r].name = NoName THEN channels[c].name ELSE request[r].name
  BY <1>1, <1>5 DEF Renames
<1>9. CASE n = channels[c].name
  <2>1. [Row(c) EXCEPT !.name = n] = Row(c)
    BY <1>9 DEF Row
  <2>2. UNCHANGED StoredChannels
    BY <1>7, <2>1, Rows
  <2> QED
    BY <1>7, <2>2 DEF Talk!vars
<1>10. CASE n # channels[c].name
  <2>1. n = request[r].name /\ n \in Names
    BY <1>8, <1>10, Fields DEF IInv, Typed, Titles
  <2>2. Talk!IsFree(n, c)
    <3>1. \A d \in ChannelIDs : Exists(d) /\ channels[d].name = n => d = c
      BY <1>1, <2>1 DEF Renames, NameIsFree
    <3> QED
      BY <3>1, Rows DEF Talk!IsFree, Row
  <2>3. Talk!IsCreator(request[r].user, c)
    BY <1>2, <1>7 DEF Talk!IsCreator, Row
  <2>4. request[r].user \in Users
    BY DEF Renames, Writes, At, Ruled, RuledAt, Unfinished
  <2>5. StoredChannels' = [StoredChannels EXCEPT ![c].name = n]
    BY <1>7
  <2>6. Talk!Rename(request[r].user, c, n)
    BY <1>7, <2>2, <2>3, <2>5 DEF Talk!Rename
  <2> QED
    BY <1>7, <2>1, <2>4, <2>6 DEF Talk!Next
<1> QED
  BY <1>9, <1>10

LEMMA AddStep ==
  ASSUME IInv, Ruled, NEW r \in Requests, Pushes(r)
  PROVE  [Talk!Next]_(Talk!vars)
<1>s. Steps(r)
  BY DEF Steps
<1>1. PICK c : c = request[r].target
  OBVIOUS
<1>2. /\ c \in Requests /\ Exists(c) /\ Keeps(r)
      /\ SavedBy(c) = request[r].user /\ SavedBy(c)' = request[r].user
      /\ channels'[c].private = channels[c].private /\ channels'[c].name = channels[c].name
      /\ channels'[c].members = channels[c].members \cup {r}
  BY <1>1, RowSaved DEF Pushes
<1>3. c \in ChannelIDs
  BY <1>2 DEF ChannelIDs
<1>4. /\ request[r].user \in Users /\ request[r].member \in Users
      /\ request[c].private = TRUE /\ request[r].op = "AddMember"
  BY <1>1 DEF Pushes, Writes, At, Ruled, RuledAt, Unfinished, OfMembers
<1>5. PICK m \in Users : m = request[r].member
  BY <1>4
<1>6. Who(c)' = Who(c) \cup {m}
  <2>1. MemberOf(r)' = m
    BY <1>2, <1>4, <1>5 DEF MemberOf, Keeps
  <2>2. \A e \in channels[c].members : MemberOf(e)' = MemberOf(e)
    BY <1>s, <1>2, <1>3, MemberOfStays
  <2> QED
    BY <1>2, <2>1, <2>2 DEF Who
<1>7. Row(c)' = [Row(c) EXCEPT !.members = Who(c) \cup {m}]
  BY <1>2, <1>6 DEF Row
<1>8. /\ StoredChannels' = [StoredChannels EXCEPT ![c] = [Row(c) EXCEPT !.members = Who(c) \cup {m}]]
      /\ c \in DOMAIN StoredChannels /\ StoredChannels[c] = Row(c)
      /\ UNCHANGED <<StoredMessages, UsedChannels, UsedMessages>>
  BY <1>1, <1>7, OneRow
<1>9. /\ StoredChannels[c].members = Who(c) /\ StoredChannels[c].creator = request[r].user
      /\ StoredChannels[c].private
  BY <1>2, <1>4, <1>8 DEF Row, IInv, ChannelsMade
<1>10. StoredChannels' = [StoredChannels EXCEPT ![c].members = @ \cup {m}]
  BY <1>8, <1>9
<1>11. Talk!AddMember(request[r].user, c, m)
  BY <1>8, <1>9, <1>10 DEF Talk!AddMember, Talk!IsCreator
<1> QED
  BY <1>4, <1>8, <1>11 DEF Talk!Next

LEMMA RemoveStep ==
  ASSUME IInv, Ruled, NEW r \in Requests, Sets(r)
  PROVE  [Talk!Next]_(Talk!vars)
<1>s. Steps(r)
  BY DEF Steps
<1>1. PICK c : c = request[r].target
  OBVIOUS
<1>2. /\ c \in Requests /\ Exists(c)
      /\ SavedBy(c) = request[r].user /\ SavedBy(c)' = request[r].user
      /\ channels'[c].private = channels[c].private /\ channels'[c].name = channels[c].name
  BY <1>1, RowSaved DEF Sets
<1>3. c \in ChannelIDs
  BY <1>2 DEF ChannelIDs
<1>4. /\ request[r].user \in Users /\ request[r].member \in Users
      /\ request[c].private = TRUE /\ request[r].member # request[r].user
  BY <1>1 DEF Sets, Writes, At, Ruled, RuledAt, Unfinished, OfMembers
<1>5. PICK m \in Users : m = request[r].member
  BY <1>4
<1>6. Who(c)' = Who(c) \ {m}
  <2>1. request[r].members = channels[c].members
    BY <1>1, <1>2 DEF Sets, Writes, SameVersion, IInv, Snapshots, SnapshotOf
  <2>2. channels'[c].members = {e \in channels[c].members : MemberOf(e) # m}
    BY <1>1, <1>5, <2>1 DEF Sets
  <2>3. \A e \in channels[c].members : MemberOf(e)' = MemberOf(e)
    BY <1>s, <1>2, <1>3, MemberOfStays
  <2> QED
    BY <2>2, <2>3 DEF Who
<1>7. Row(c)' = [Row(c) EXCEPT !.members = Who(c) \ {m}]
  BY <1>2, <1>6 DEF Row
<1>8. /\ StoredChannels' = [StoredChannels EXCEPT ![c] = [Row(c) EXCEPT !.members = Who(c) \ {m}]]
      /\ c \in DOMAIN StoredChannels /\ StoredChannels[c] = Row(c)
      /\ UNCHANGED <<StoredMessages, UsedChannels, UsedMessages>>
  BY <1>1, <1>7, OneRow
<1>9. /\ StoredChannels[c].members = Who(c) /\ StoredChannels[c].creator = request[r].user
      /\ StoredChannels[c].private
  BY <1>2, <1>4, <1>8 DEF Row, IInv, ChannelsMade
<1>10. StoredChannels' = [StoredChannels EXCEPT ![c].members = @ \ {m}]
  BY <1>8, <1>9
<1>11. Talk!RemoveMember(request[r].user, c, m)
  BY <1>4, <1>5, <1>8, <1>9, <1>10 DEF Talk!RemoveMember, Talk!IsCreator
<1> QED
  BY <1>4, <1>8, <1>11 DEF Talk!Next

LEMMA DeleteStep ==
  ASSUME IInv, Ruled, NEW r \in Requests, Deletes(r)
  PROVE  [Talk!Next]_(Talk!vars)
<1>s. Steps(r)
  BY DEF Steps
<1>1. PICK c \in Requests :
        /\ c = request[r].target /\ request[c].user = request[r].user
        /\ Only(c) /\ channels'[c] = NoChannel
  BY TargetsOwn DEF CreatedBy, Deletes
<1>2. /\ request[r].user \in Users /\ UNCHANGED messages
      /\ request'[r].op = "DeleteChannel"
  BY DEF Deletes, Ends, Keeps, At, Ruled, RuledAt, Unfinished
<1>3. UNCHANGED <<StoredMessages, UsedChannels, UsedMessages>>
  BY <1>s, <1>2, UsedIdle, MessagesIdle
<1>4. c \in ChannelIDs
  BY DEF ChannelIDs
<1>5. DOMAIN StoredChannels' = DOMAIN StoredChannels \ {c}
  BY <1>1, <1>4, Rows, NextRows DEF Only, Exists
<1>6. ASSUME NEW d \in DOMAIN StoredChannels \ {c} PROVE StoredChannels'[d] = StoredChannels[d]
  <2>1. d \in ChannelIDs /\ Exists(d) /\ channels'[d] = channels[d]
    BY <1>1, <1>6, Rows DEF Only
  <2> QED
    BY <1>s, <1>5, <2>1, Rows, NextRows, RowStays
<1>7. StoredChannels' = [d \in DOMAIN StoredChannels \ {c} |-> StoredChannels[d]]
  BY <1>5, <1>6, NextRows
<1>8. CASE Exists(c)
  <2>1. c \in DOMAIN StoredChannels /\ StoredChannels[c] = Row(c)
    BY <1>4, <1>8, Rows
  <2>2. StoredChannels[c].creator = request[r].user
    BY <1>1, <1>8, <2>1, SavedByCreator DEF Row, IInv, ChannelsMade
  <2>3. Talk!Delete(request[r].user, c)
    BY <1>3, <1>7, <2>1, <2>2 DEF Talk!Delete, Talk!IsCreator
  <2> QED
    BY <1>2, <2>1, <2>3 DEF Talk!Next
<1>9. CASE ~Exists(c)
  <2>1. UNCHANGED StoredChannels
    BY <1>7, <1>9, Rows
  <2> QED
    BY <1>3, <2>1 DEF Talk!vars
<1> QED
  BY <1>8, <1>9

\* Messages go, and those that are left stay as they are.
LEMMA FewerItems ==
  ASSUME IInv, NEW r \in Requests, Steps(r),
         NEW gone, \A m \in Requests :
           messages'[m] # NoMessage <=> messages[m] # NoMessage /\ m \notin gone
  PROVE  StoredMessages' = [m \in DOMAIN StoredMessages \ gone |-> StoredMessages[m]]
<1>1. DOMAIN StoredMessages' = DOMAIN StoredMessages \ gone
  BY Items, NextItems
<1>2. ASSUME NEW m \in DOMAIN StoredMessages \ gone
      PROVE  StoredMessages'[m] = StoredMessages[m]
  <2>1. m \in Requests /\ messages[m] # NoMessage /\ messages'[m] # NoMessage
    BY <1>2, Items
  <2> QED
    BY <1>1, <2>1, Items, NextItems, ItemStays
<1> QED
  BY <1>1, <1>2, NextItems

LEMMA PurgeStep ==
  ASSUME IInv, Ruled, NEW r \in Requests, Purges(r)
  PROVE  [Talk!Next]_(Talk!vars)
<1>s. Steps(r)
  BY DEF Steps
<1>1. PICK c \in Requests : c = request[r].target /\ At(c, "CreateChannel", "done") /\ ~Exists(c)
  BY DEF Purges, At, IInv, Entitled, EntitledAt, Unfinished, OfCreators, CreatedBy,
         Ruled, RuledAt
<1>2. UNCHANGED channels /\ request'[r].op = "DeleteChannel"
  BY DEF Purges, Ends, Keeps, At
<1>3. UNCHANGED <<StoredChannels, UsedChannels, UsedMessages>>
  BY <1>s, <1>2, UsedIdle, ChannelsIdle
<1> DEFINE gone == {m \in Requests : messages[m].channel = c}
<1>4. \A m \in Requests :
        messages'[m] # NoMessage <=> messages[m] # NoMessage /\ m \notin gone
  BY <1>1 DEF Purges
<1>5. StoredMessages' = [m \in DOMAIN StoredMessages \ gone |-> StoredMessages[m]]
  BY <1>s, <1>4, FewerItems
<1>6. DOMAIN StoredMessages \ gone =
        {n \in DOMAIN StoredMessages : StoredMessages[n].channel # c}
  BY Items
<1>7. c \in UsedChannels /\ c \notin DOMAIN StoredChannels
  BY <1>1, Rows DEF UsedChannels, ChannelIDs
<1> HIDE DEF gone
<1>8. Talk!Purge(c)
  BY <1>3, <1>5, <1>6, <1>7 DEF Talk!Purge
<1> QED
  BY <1>7, <1>8 DEF Talk!Next

LEMMA PostStep ==
  ASSUME IInv, Ruled, NEW r \in Requests, Posts(r)
  PROVE  [Talk!Next]_(Talk!vars)
<1>s. Steps(r)
  BY DEF Steps
<1>1. /\ Writes(r, "PostMessage", 201) /\ At(r, "PostMessage", "write")
      /\ OnlyMessage(r) /\ UNCHANGED channels
      /\ messages'[r] = [channel |-> request[r].target, editor |-> r]
  BY DEF Posts, Writes
<1>2. Keeps(r) /\ At(r, "PostMessage", "done")' /\ request[r].user \in Users
  BY <1>1 DEF Writes, Ends, Keeps, At, Ruled, RuledAt, Unfinished
<1>3. /\ UsedMessages' = UsedMessages \cup {r} /\ UNCHANGED UsedChannels
      /\ UNCHANGED StoredChannels
  BY <1>s, <1>1, <1>2, UsedNext, ChannelsIdle DEF At
<1>4. messages[r] = NoMessage /\ messages'[r] # NoMessage /\ r \notin UsedMessages
  <2>1. messages'[r] \in Messages
    BY <1>1, Fields DEF Messages, IInv, Typed
  <2> QED
    BY <1>1, <2>1, DocumentsAssumption DEF UsedMessages, At, IInv, MessagesMade
<1>5. DOMAIN StoredMessages' = DOMAIN StoredMessages \cup {r}
  BY <1>1, <1>4, Items, NextItems DEF OnlyMessage
<1>6. ASSUME NEW m \in DOMAIN StoredMessages PROVE StoredMessages'[m] = StoredMessages[m]
  <2>1. m \in Requests /\ messages[m] # NoMessage /\ messages'[m] # NoMessage
    BY <1>5, <1>6, Items, NextItems
  <2> QED
    BY <1>s, <1>5, <2>1, Items, NextItems, ItemStays
<1>7. StoredMessages'[r].channel = request[r].target /\ StoredMessages'[r].author = request[r].user
  BY <1>1, <1>2, <1>5, NextItems DEF Author, Keeps
<1>8. request[r].target \in UsedChannels
  BY <1>1 DEF At, IInv, Entitled, EntitledAt, Unfinished, Founding, UsedChannels, ChannelIDs
<1>9. Talk!Post(request[r].user, r)
  BY <1>3, <1>4, <1>5, <1>6, <1>7, <1>8 DEF Talk!Post
<1> QED
  BY <1>2, <1>5, <1>9 DEF Talk!Next

LEMMA UnpostStep ==
  ASSUME IInv, Ruled, NEW r \in Requests, Unposts(r)
  PROVE  [Talk!Next]_(Talk!vars)
<1>s. Steps(r)
  BY DEF Steps
<1>1. /\ Writes(r, "DeleteMessage", 200) /\ At(r, "DeleteMessage", "write")
      /\ OnlyMessage(request[r].target) /\ messages'[request[r].target] = NoMessage
      /\ UNCHANGED channels
  BY DEF Unposts, Writes
<1>2. request'[r].op = "DeleteMessage" /\ request[r].user \in Users
  BY <1>1 DEF Writes, Ends, Keeps, At, Ruled, RuledAt, Unfinished
<1>3. UNCHANGED <<StoredChannels, UsedChannels, UsedMessages>>
  BY <1>s, <1>1, <1>2, UsedIdle, ChannelsIdle
<1>4. PICK m \in Requests : m = request[r].target /\ request[m].user = request[r].user
  BY <1>1 DEF IInv, Entitled, EntitledAt, At, Unfinished, PostedBy
<1>5. \A n \in Requests : messages'[n] # NoMessage <=> messages[n] # NoMessage /\ n \notin {m}
  BY <1>1, <1>4 DEF OnlyMessage
<1>6. StoredMessages' = [n \in DOMAIN StoredMessages \ {m} |-> StoredMessages[n]]
  BY <1>s, <1>5, FewerItems
<1>7. CASE messages[m] # NoMessage
  <2>1. m \in DOMAIN StoredMessages /\ StoredMessages[m].author = request[r].user
    BY <1>4, <1>7, Items DEF Author, IInv, Editors
  <2>2. Talk!Unpost(request[r].user, m)
    BY <1>3, <1>6, <2>1 DEF Talk!Unpost
  <2> QED
    BY <1>2, <2>1, <2>2 DEF Talk!Next
<1>8. CASE messages[m] = NoMessage
  <2>1. UNCHANGED StoredMessages
    BY <1>6, <1>8, Items
  <2> QED
    BY <1>3, <2>1 DEF Talk!vars
<1> QED
  BY <1>7, <1>8

LEMMA SaveStep ==
  ASSUME IInv, NEW r \in Requests, Saves(r)
  PROVE  [Talk!Next]_(Talk!vars)
<1>s. Steps(r)
  BY DEF Steps
<1>1. \A m \in Requests : messages'[m] = NoMessage <=> messages[m] = NoMessage
  <2>1. CASE UNCHANGED messages
    BY <2>1
  <2>2. CASE messages' # messages
    <3>1. PICK m : /\ m = request[r].target /\ messages[m] # NoMessage /\ OnlyMessage(m)
                   /\ messages'[m] = [channel |-> messages[m].channel, editor |-> r]
      BY <2>2 DEF Saves
    <3>2. m \in Requests
      BY <3>1 DEF Saves, IInv, Entitled, EntitledAt, PostedBy
    <3>3. messages'[m] \in Messages
      BY <3>1, <3>2 DEF IInv, Typed, Messages
    <3> QED
      BY <3>1, <3>2, <3>3, DocumentsAssumption DEF OnlyMessage
  <2> QED
    BY <2>1, <2>2
<1> QED
  BY <1>s, <1>1, IdleStep, MessagesIdle, ChannelsIdle DEF Saves

LEMMA ReadStep ==
  ASSUME IInv, NEW r \in Requests, Asks(r) \/ Fails(r)
  PROVE  [Talk!Next]_(Talk!vars)
<1>1. Steps(r) /\ UNCHANGED channels /\ UNCHANGED messages
  BY DEF Steps, Asks, Fails
<1> QED
  BY <1>1, IdleStep, MessagesIdle, ChannelsIdle

LEMMA QuietStep == UNCHANGED vars => [Talk!Next]_(Talk!vars)
<1> SUFFICES ASSUME UNCHANGED vars PROVE UNCHANGED Talk!vars
  OBVIOUS
<1>1. UNCHANGED channels /\ UNCHANGED messages /\ UNCHANGED request
  BY DEF vars
<1>2. UNCHANGED StoredChannels
  BY <1>1 DEF StoredChannels, SavedBy, MemberOf, Exists
<1>3. UNCHANGED StoredMessages
  BY <1>1 DEF StoredMessages
<1>4. UNCHANGED UsedChannels /\ UNCHANGED UsedMessages
  BY <1>1 DEF UsedChannels, UsedMessages, At
<1> QED
  BY <1>2, <1>3, <1>4 DEF Talk!vars

LEMMA TalkInit == Init => Talk!Init
<1> SUFFICES ASSUME Init PROVE Talk!Init
  OBVIOUS
<1>1. /\ Past \subseteq Requests /\ General \notin Requests /\ Founded # Joined
      /\ Founded # Posted /\ Joined # Posted /\ GeneralName # FoundedName
  BY MessagingAssumption
<1>2. /\ channels[General].name = GeneralName /\ channels[Founded].name = FoundedName
      /\ \A c \in ChannelIDs : Exists(c) <=> c \in {General, Founded}
      /\ \A m \in Requests : messages[m] # NoMessage <=> m = Posted
      /\ messages[Posted].channel = Founded
  <2>1. /\ channels[General].name = GeneralName /\ channels[Founded].name = FoundedName
        /\ messages[Posted].channel = Founded
    BY InitDocuments DEF GeneralKept
  <2>2. Exists(General) /\ Exists(Founded) /\ messages[Posted] # NoMessage
    <3>1. [name |-> GeneralName, creator |-> Admin, private |-> FALSE, members |-> {},
           version |-> 0, editor |-> General] \in Channels
      BY MessagingAssumption DEF Channels
    <3> QED
      BY <3>1, InitDocuments, DocumentsAssumption DEF GeneralKept, Exists
  <2> QED
    BY <1>1, <2>1, <2>2, InitDocuments DEF ChannelIDs
<1>3. \A r \in Requests : /\ At(r, "CreateChannel", "done") <=> r = Founded
                          /\ At(r, "PostMessage", "done") <=> r = Posted
  <2>1. \A r \in Requests \ Past : request[r].at = "new"
    BY InitRequests, UnsentFields
  <2> QED
    BY <2>1, InitRequests DEF At, Past
<1>4. UsedChannels = DOMAIN StoredChannels
  BY <1>1, <1>2, <1>3, Rows DEF UsedChannels, ChannelIDs, Past
<1>5. UsedMessages = DOMAIN StoredMessages
  BY <1>2, <1>3, Items DEF UsedMessages
<1>6. \A c \in DOMAIN StoredChannels : Talk!IsFree(StoredChannels[c].name, c)
  <2>1. \A c \in DOMAIN StoredChannels :
          c \in {General, Founded} /\ StoredChannels[c].name = channels[c].name
    BY <1>2, Rows DEF Row
  <2> QED
    BY <1>1, <1>2, <2>1 DEF Talk!IsFree
<1>7. \A m \in DOMAIN StoredMessages : StoredMessages[m].channel \in UsedChannels
  BY <1>1, <1>2, <1>3, Items DEF UsedChannels, ChannelIDs, Past
<1> QED
  BY <1>4, <1>5, <1>6, <1>7 DEF Talk!Init

\* Channels and messages change one at a time, by a user who may change them at
\* that moment, whatever requests run between its checks and its write; nothing
\* deleted comes back, and no save writes away what another request saved but
\* what it changes itself (channel.ts:190, 301, 351, message.ts:32).
THEOREM Refinement == Spec => ImplementsConversations
<1>1. ASSUME IInv, Ruled, NEW r \in Requests, Steps(r) PROVE [Talk!Next]_(Talk!vars)
  BY <1>1, ReadStep, CreateStep, RenameStep, AddStep, RemoveStep, DeleteStep, PurgeStep,
     PostStep, UnpostStep, SaveStep DEF Steps
<1>2. IInv /\ Ruled /\ [Next]_vars => [Talk!Next]_(Talk!vars)
  BY <1>1, QuietStep, StepShape
<1> QED
  BY <1>2, TalkInit, Inductive, RulesKept, PTL DEF Spec, ImplementsConversations, Talk!Spec

=============================================================================
