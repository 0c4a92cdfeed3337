------------------------------ MODULE Summary ------------------------------
(***************************************************************************)
(* The page summary service (servers/summary): a request names a page, the *)
(* handler fetches it and reads its HTML token by token up to the end of   *)
(* the head.  What a token does depends on those before it: a property of  *)
(* an image belongs to the image last seen, and a fallback counts only     *)
(* while there is nothing better.                                          *)
(*                                                                         *)
(* The texts of a page are values, by what Atoi and toAbsoluteURL make of  *)
(* them; the sizes of an icon are left out.                                *)
(***************************************************************************)
EXTENDS Naturals, Sequences, FiniteSets

CONSTANTS
  Fields,          \* Title, Description and the like
  Fallbacks,       \* those that <title> or another meta tag may fill
  TextProperties,  \* secure_url, type and alt of an image
  NumProperties,   \* its width and height
  Empty,           \* "", and 0 for a number
  Junk,            \* a text that is neither a reference nor a number
  Numbers,         \* texts that are both
  MaxTokens        \* bound: tokens of a head

ASSUME SummaryAssumption ==
  /\ Fallbacks \subseteq Fields /\ TextProperties \cap NumProperties = {}
  /\ {Empty, Junk} \cap Numbers = {} /\ Empty # Junk /\ MaxTokens \in Nat

VARIABLES
  answer,  \* "none", the status, or "dropped": a panic
  body,    \* "none", "open" or "closed": what was fetched
  read,    \* the tokens of the head read so far
  fields, images, icon   \* PageSummary

page == <<fields, images, icon>>
vars == <<answer, body, read, fields, images, icon>>

Values     == Numbers \cup {Empty, Junk}
Properties == TextProperties \cup NumProperties

\* An absolute URL, unless an error left it empty.
toAbsoluteURL(ref) == IF ref \in {Empty, Junk} THEN Empty ELSE [absolute |-> ref]

\* Atoi, whose error leaves the number it had.
Atoi(value, number) == IF value \in Numbers THEN value ELSE number

\* What the handler looks for in a head.
Tokens ==
  [kind : {"field"}, name : Fields, value : Values]
    \cup [kind : {"fallback"}, name : Fallbacks, value : Values]
    \cup [kind : {"image"}, value : Values]
    \cup [kind : {"property"}, name : Properties, value : Values]
    \cup [kind : {"icon"}, value : Values]

NewImage(value) ==
  [url |-> toAbsoluteURL(value), properties |-> [p \in Properties |-> Empty]]

Init ==
  /\ answer = "none" /\ body = "none" /\ read = <<>>
  /\ fields = [f \in Fields |-> Empty] /\ images = <<>> /\ icon = Empty

-----------------------------------------------------------------------------
\* No url, no answer from the page: there is no body to close.
Refuse ==
  /\ answer = "none" /\ body = "none"
  /\ answer' = "400"
  /\ UNCHANGED <<body, read, page>>

\* fetchHTML, of an error page or of something that is not HTML.
FetchOther ==
  /\ answer = "none" /\ body = "none"
  /\ body' = "open" /\ answer' = "400"
  /\ UNCHANGED <<read, page>>

FetchHTML ==
  /\ answer = "none" /\ body = "none"
  /\ body' = "open"
  /\ UNCHANGED <<answer, read, page>>

Reading == answer = "none" /\ body = "open"

\* The next token is one of kind.
Token(kind, token) ==
  /\ Reading /\ Len(read) < MaxTokens
  /\ token.kind = kind
  /\ read' = Append(read, token)

\* og:title, og:type, author, ...: the last one counts.
SetField(token) ==
  /\ Token("field", token)
  /\ fields' = [fields EXCEPT ![token.name] = token.value]
  /\ UNCHANGED <<answer, body, images, icon>>

\* A mutated form: what was found before is overwritten.
Overwrite(token) ==
  /\ Token("fallback", token)
  /\ fields' = [fields EXCEPT ![token.name] = token.value]
  /\ UNCHANGED <<answer, body, images, icon>>

\* <title> and the meta description do not override.
SetFallback(token) ==
  /\ Token("fallback", token)
  /\ fields' = [fields EXCEPT ![token.name] = IF @ = Empty THEN token.value ELSE @]
  /\ UNCHANGED <<answer, body, images, icon>>

\* A mutated form: without a URL there is no image.
AddResolvedImage(token) ==
  /\ Token("image", token)
  /\ images' = IF toAbsoluteURL(token.value) = Empty THEN images
               ELSE Append(images, NewImage(token.value))
  /\ UNCHANGED <<answer, body, fields, icon>>

AddImage(token) ==
  /\ Token("image", token)
  /\ images' = Append(images, NewImage(token.value))
  /\ UNCHANGED <<answer, body, fields, icon>>

\* A mutated form: the error of Atoi is ignored.
UncheckedValue(token, old) == token.value

PropertyValue(token, old) ==
  IF token.name \in NumProperties THEN Atoi(token.value, old) ELSE token.value

\* A mutated form: the image a property is set in is the first one.
FirstImage == 1

LatestImage == Len(images)

SetProperty(token) ==
  /\ Token("property", token) /\ images # <<>>
  /\ images' = [images EXCEPT ![LatestImage].properties[token.name] =
                  PropertyValue(token, @)]
  /\ UNCHANGED <<answer, body, fields, icon>>

\* Images[len(Images)-1] of no image: a panic.
MissImage(token) ==
  /\ Token("property", token) /\ images = <<>>
  /\ answer' = "dropped"
  /\ UNCHANGED <<body, page>>

SetIcon(token) ==
  /\ Token("icon", token)
  /\ icon' = toAbsoluteURL(token.value)
  /\ UNCHANGED <<answer, body, fields, images>>

\* </head>, or the end of the page.
EndHead ==
  /\ Reading
  /\ answer' = "200" /\ body' = "closed"
  /\ UNCHANGED <<read, page>>

\* The error of a broken connection, or of a token that is too long.
FailToken ==
  /\ Reading
  /\ answer' = "500"
  /\ UNCHANGED <<body, read, page>>

Next ==
  \/ Refuse \/ FetchOther \/ FetchHTML \/ EndHead \/ FailToken
  \/ \E token \in Tokens :
       \/ SetField(token) \/ SetFallback(token) \/ AddImage(token)
       \/ SetProperty(token) \/ MissImage(token) \/ SetIcon(token)

Spec == Init /\ [][Next]_vars

-----------------------------------------------------------------------------
(* Properties. *)

TypeOK ==
  /\ answer \in {"none", "200", "400", "500", "dropped"} /\ body \in {"none", "open", "closed"}
  /\ read \in Seq(Tokens)
  /\ fields \in [Fields -> Values]
  /\ \A i \in DOMAIN images : \A p \in NumProperties :
       images[i].properties[p] \in Numbers \cup {Empty}
  /\ icon \in {toAbsoluteURL(v) : v \in Values}

\* Positions of the tokens of this kind and name.
At(kind, name) == {i \in DOMAIN read : read[i].kind = kind /\ read[i].name = name}

Images == {i \in DOMAIN read : read[i].kind = "image"}

Latest(S) == CHOOSE i \in S : \A j \in S : j <= i

Earliest(S) == CHOOSE i \in S : \A j \in S : i <= j

\* What a head says of field f, read as a whole: what the last tag of the field
\* says; if that is nothing, what the first fallback after it says.
Specified(f) ==
  LET last  == Latest({0} \cup At("field", f))
      after == {i \in At("fallback", f) : i > last /\ read[i].value # Empty}
  IN IF last > 0 /\ read[last].value # Empty THEN read[last].value
     ELSE IF after # {} THEN read[Earliest(after)].value ELSE Empty

\* Open Graph's title and description win wherever they are in the head, and an
\* empty one makes room for the fallback again ("Don't override og:title",
\* "Don't override og:description", summary.go:127, 176).
OpenGraphWins == \A f \in Fields : fields[f] = Specified(f)

\* The tags of property p that belong to the og:image at i: between it and the
\* next; of a number only those that are one.
Mine(i, p) ==
  {j \in At("property", p) :
     /\ i < j /\ \A h \in Images : h <= i \/ j < h
     /\ p \in NumProperties => read[j].value \in Numbers}

Place(i) == Cardinality({h \in Images : h <= i})

\* Every og:image of the head is an image, in this order, and its properties are
\* what the last of its tags says (summary.go:193-213).
ImagesKeepTheirProperties ==
  /\ Len(images) = Cardinality(Images)
  /\ \A i \in Images :
       /\ images[Place(i)].url = toAbsoluteURL(read[i].value)
       /\ \A p \in Properties :
            images[Place(i)].properties[p] =
              IF Mine(i, p) = {} THEN Empty ELSE read[Latest(Mine(i, p))].value

\* The handler panics on no head but one with a property before its first image;
\* an image whose URL is of no use is still one (summary.go:188-195).
DroppedForOrphans ==
  answer = "dropped" =>
    Images = {} /\ \E i \in DOMAIN read : read[i].kind = "property"
=============================================================================
