\* Two new requests about a channel with two members and a message.
CONSTANTS
  r1 = r1
  r2 = r2
  Founded = founded
  Joined = joined
  Posted = posted
  Founder = founder
  Guest = guest
  carl = carl
  Admin = admin
  GeneralName = generalName
  FoundedName = foundedName
  other = other
  General = general
  NoChannel = NoChannel
  NoMessage = NoMessage
  NoName = NoName
  NoUser = NoUser
  Requests <- TwoNew
  Users <- ThreeUsers
  Names <- ThreeNames
SYMMETRY NewSymmetry
SPECIFICATION Spec
INVARIANTS
  TypeOK
  NamesUnique
  OnlyCreatorsChange
  RefusedRequestsWriteNothing
  MembersStay
  AuthorsWereMembers
PROPERTY ImplementsConversations
