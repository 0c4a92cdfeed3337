--------------------------- MODULE Conversations ---------------------------
(***************************************************************************)
(* What the messaging service promises about channels and messages,        *)
(* whatever queries, checks and interleavings it takes: every change is    *)
(* one atomic change, made by a user who may make it at that very moment,  *)
(* an id names one channel or message for ever, and a change of a channel  *)
(* leaves the rest of it as it is, other members' memberships included.    *)
(*                                                                         *)
(* A message may outlive its channel, and be posted after its deletion.    *)
(***************************************************************************)
CONSTANTS
  Users,
  Names     \* names of channels

VARIABLES
  channels,      \* id -> [name, creator, private, members]
  messages,      \* id -> [channel, author]
  usedChannels,
  usedMessages   \* the ids that were used up, by documents and by refusals

vars == <<channels, messages, usedChannels, usedMessages>>

IsFree(n, c) == \A d \in DOMAIN channels \ {c} : channels[d].name # n

\* Some channels and messages are there already.
Init ==
  /\ usedChannels = DOMAIN channels
  /\ usedMessages = DOMAIN messages
  /\ \A c \in DOMAIN channels : IsFree(channels[c].name, c)
  /\ \A m \in DOMAIN messages : messages[m].channel \in usedChannels

IsCreator(u, c) == c \in DOMAIN channels /\ channels[c].creator = u

\* Any user creates a channel, under a fresh id and a free name; a private one
\* may have its creator as its first member.
Create(u, c) ==
  /\ c \notin usedChannels
  /\ DOMAIN channels' = DOMAIN channels \cup {c}
  /\ \A d \in DOMAIN channels : channels'[d] = channels[d]
  /\ IsFree(channels'[c].name, c)
  /\ channels'[c].creator = u
  /\ channels'[c].members \in IF channels'[c].private THEN SUBSET {u} ELSE {{}}
  /\ usedChannels' = usedChannels \cup {c}
  /\ UNCHANGED <<messages, usedMessages>>

Rename(u, c, n) ==
  /\ IsCreator(u, c) /\ IsFree(n, c)
  /\ channels' = [channels EXCEPT ![c].name = n]
  /\ UNCHANGED <<messages, usedChannels, usedMessages>>

AddMember(u, c, m) ==
  /\ IsCreator(u, c) /\ channels[c].private
  /\ channels' = [channels EXCEPT ![c].members = @ \cup {m}]
  /\ UNCHANGED <<messages, usedChannels, usedMessages>>

\* Creators do not remove themselves.
RemoveMember(u, c, m) ==
  /\ IsCreator(u, c) /\ channels[c].private /\ m # u
  /\ channels' = [channels EXCEPT ![c].members = @ \ {m}]
  /\ UNCHANGED <<messages, usedChannels, usedMessages>>

Delete(u, c) ==
  /\ IsCreator(u, c)
  /\ channels' = [d \in DOMAIN channels \ {c} |-> channels[d]]
  /\ UNCHANGED <<messages, usedChannels, usedMessages>>

\* The messages of a channel go some time after the channel.
Purge(c) ==
  /\ c \notin DOMAIN channels
  /\ messages' = [m \in {n \in DOMAIN messages : messages[n].channel # c} |-> messages[m]]
  /\ UNCHANGED <<channels, usedChannels, usedMessages>>

\* A user posts in a channel that is or was there.
Post(u, m) ==
  /\ m \notin usedMessages
  /\ DOMAIN messages' = DOMAIN messages \cup {m}
  /\ \A n \in DOMAIN messages : messages'[n] = messages[n]
  /\ messages'[m].channel \in usedChannels
  /\ messages'[m].author = u
  /\ usedMessages' = usedMessages \cup {m}
  /\ UNCHANGED <<channels, usedChannels>>

Unpost(u, m) ==
  /\ m \in DOMAIN messages /\ messages[m].author = u
  /\ messages' = [n \in DOMAIN messages \ {m} |-> messages[n]]
  /\ UNCHANGED <<channels, usedChannels, usedMessages>>

\* A request to create or to post that is refused, or fails, uses its id up.
SpendChannel(c) ==
  /\ usedChannels' = usedChannels \cup {c}
  /\ UNCHANGED <<channels, messages, usedMessages>>

SpendMessage(m) ==
  /\ usedMessages' = usedMessages \cup {m}
  /\ UNCHANGED <<channels, messages, usedChannels>>

Next ==
  \/ \E u \in Users :
       \/ \E c \in DOMAIN channels' : Create(u, c)
       \/ \E c \in DOMAIN channels :
            \/ \E n \in Names : Rename(u, c, n)
            \/ \E m \in Users : AddMember(u, c, m) \/ RemoveMember(u, c, m)
            \/ Delete(u, c)
       \/ \E m \in DOMAIN messages' : Post(u, m)
       \/ \E m \in DOMAIN messages : Unpost(u, m)
  \/ \E c \in usedChannels : Purge(c)
  \/ \E c \in usedChannels' : SpendChannel(c)
  \/ \E m \in usedMessages' : SpendMessage(m)

Spec == Init /\ [][Next]_vars
=============================================================================
