\* Heads of up to four tokens with one property of an image of each kind.
CONSTANTS
  Empty = Empty
  Junk = junk
  Fields <- Titles
  Fallbacks <- Titles
  TextProperties <- TextProps
  NumProperties <- NumProps
  Numbers = {7}
  MaxTokens = 4
CHECK_DEADLOCK FALSE
SPECIFICATION Spec
INVARIANTS
  TypeOK
  OpenGraphWins
  ImagesKeepTheirProperties
  DroppedForOrphans
