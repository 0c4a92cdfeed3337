---------------------------- MODULE SummaryProofs ----------------------------
(***************************************************************************)
(* Proofs about Summary, for any fields, properties, texts and length of a *)
(* head.                                                                   *)
(***************************************************************************)
EXTENDS Summary, FiniteSetTheorems, TLAPS

References == {toAbsoluteURL(v) : v \in Values}

Pictures == [url : References, properties : [Properties -> Values]]

Typed ==
  /\ answer \in {"none", "200", "400", "500", "dropped"} /\ body \in {"none", "open", "closed"}
  /\ read \in Seq(Tokens)
  /\ fields \in [Fields -> Values]
  /\ images \in Seq(Pictures)
  /\ \A i \in 1..Len(images) : \A p \in NumProperties :
       images[i].properties[p] \in Numbers \cup {Empty}
  /\ icon \in References

\* The fallbacks for f that count after the tag of f at l.
After(f, l) == {i \in At("fallback", f) : i > l /\ read[i].value # Empty}

\* Specified, with the tags it chooses named: that they exist is known because
\* the last and the first of a set are kept up tag by tag.
FieldSettled(f) ==
  \E l \in {0} \cup At("field", f) :
    /\ \A j \in At("field", f) : j <= l
    /\ \/ l > 0 /\ read[l].value # Empty /\ fields[f] = read[l].value
       \/ /\ l = 0 \/ read[l].value = Empty
          /\ \/ After(f, l) = {} /\ fields[f] = Empty
             \/ \E e \in After(f, l) : /\ \A j \in After(f, l) : e <= j
                                       /\ fields[f] = read[e].value

\* What a picture has for p is what the last tag of it says.
PropertySettled(i, p) ==
  \/ Mine(i, p) = {} /\ images[Place(i)].properties[p] = Empty
  \/ \E e \in Mine(i, p) : /\ \A j \in Mine(i, p) : j <= e
                           /\ images[Place(i)].properties[p] = read[e].value

ImageSettled(i) ==
  /\ images[Place(i)].url = toAbsoluteURL(read[i].value)
  /\ \A p \in Properties : PropertySettled(i, p)

IInv ==
  /\ Typed
  /\ \A f \in Fields : FieldSettled(f)
  /\ Len(images) = Cardinality(Images)
  /\ \A i \in Images : ImageSettled(i)
  /\ DroppedForOrphans
-----------------------------------------------------------------------------
(* The last and the first of a set of positions.                           *)

LEMMA LatestIs ==
  ASSUME NEW S \in SUBSET Nat, NEW m \in S, \A j \in S : j <= m
  PROVE  Latest(S) = m
<1>1. Latest(S) \in S /\ \A j \in S : j <= Latest(S)
  BY DEF Latest
<1>2. Latest(S) \in Nat /\ m \in Nat /\ Latest(S) <= m /\ m <= Latest(S)
  BY <1>1
<1> QED
  BY <1>2

LEMMA EarliestIs ==
  ASSUME NEW S \in SUBSET Nat, NEW m \in S, \A j \in S : m <= j
  PROVE  Earliest(S) = m
<1>1. Earliest(S) \in S /\ \A j \in S : Earliest(S) <= j
  BY DEF Earliest
<1>2. Earliest(S) \in Nat /\ m \in Nat /\ Earliest(S) <= m /\ m <= Earliest(S)
  BY <1>1
<1> QED
  BY <1>2

LEMMA TokenFields ==
  ASSUME NEW token \in Tokens
  PROVE  /\ token.value \in Values
         /\ token.kind = "field" => token.name \in Fields
         /\ token.kind = "fallback" => token.name \in Fallbacks
         /\ token.kind = "property" => token.name \in Properties
BY DEF Tokens

LEMMA Positions ==
  ASSUME Typed
  PROVE  /\ Images \subseteq 1..Len(read) /\ IsFiniteSet(Images) /\ Cardinality(Images) \in Nat
         /\ \A k, name : At(k, name) \subseteq 1..Len(read)
         /\ DOMAIN read = 1..Len(read) /\ Len(read) \in Nat
<1>1. DOMAIN read = 1..Len(read) /\ Len(read) \in Nat
  BY DEF Typed
<1>2. Images \subseteq 1..Len(read) /\ \A k, name : At(k, name) \subseteq 1..Len(read)
  BY <1>1 DEF Images, At
<1>3. IsFiniteSet(1..Len(read))
  BY <1>1, FS_Interval
<1> QED
  BY <1>1, <1>2, <1>3, FS_Subset, FS_CardinalityType

\* The places of the pictures are in the order of their tags.
LEMMA Places ==
  ASSUME Typed, NEW i \in Images
  PROVE  /\ Place(i) \in 1..Cardinality(Images)
         /\ (\A h \in Images : h <= i) => Place(i) = Cardinality(Images)
         /\ \A h \in Images : h > i => Place(i) < Cardinality(Images)
<1> DEFINE S == {h \in Images : h <= i}
<1>1. /\ Images \subseteq 1..Len(read) /\ IsFiniteSet(Images) /\ Cardinality(Images) \in Nat
      /\ i \in Nat
  BY Positions
<1>2. IsFiniteSet(S) /\ Cardinality(S) \in Nat /\ Cardinality(S) <= Cardinality(Images)
  BY <1>1, FS_Subset, FS_CardinalityType
<1>3. Cardinality(S) # 0
  <2>1. i \in S
    BY <1>1
  <2> QED
    BY <1>2, <2>1, FS_EmptySet
<1>4. ASSUME \A h \in Images : h <= i PROVE S = Images
  BY <1>4
<1>5. ASSUME NEW h \in Images, h > i PROVE Cardinality(S) < Cardinality(Images)
  <2>1. h \notin S /\ h \in Nat
    BY <1>1, <1>5
  <2>2. S \subseteq Images /\ S # Images
    BY <2>1
  <2>3. Cardinality(S) # Cardinality(Images)
    BY <1>1, <2>2, FS_Subset
  <2> QED
    BY <1>1, <1>2, <2>3
<1>6. Place(i) = Cardinality(S)
  BY DEF Place
<1> HIDE DEF S
<1> QED
  BY <1>1, <1>2, <1>3, <1>4, <1>5, <1>6
-----------------------------------------------------------------------------
(* The head grows by a token, at position n.                               *)

Grows(token) == read' = Append(read, token)

LEMMA Growth ==
  ASSUME Typed, NEW token \in Tokens, Grows(token),
         NEW n, n = Len(read) + 1
  PROVE  /\ n \in Nat /\ n > 0 /\ read' \in Seq(Tokens) /\ read'[n] = token
         /\ \A i \in 1..Len(read) : i < n /\ i \in Nat /\ read'[i] = read[i]
         /\ DOMAIN read' = DOMAIN read \cup {n} /\ DOMAIN read = 1..Len(read)
BY DEF Typed, Grows

LEMMA GrowthAt ==
  ASSUME Typed, NEW token \in Tokens, Grows(token),
         NEW n, n = Len(read) + 1, NEW k, NEW name
  PROVE  /\ token.kind = k /\ token.name = name => At(k, name)' = At(k, name) \cup {n}
         /\ token.kind # k \/ token.name # name => At(k, name)' = At(k, name)
<1>1. /\ DOMAIN read' = DOMAIN read \cup {n} /\ read'[n] = token
      /\ \A i \in DOMAIN read : read'[i] = read[i]
  BY Growth
<1> QED
  BY <1>1 DEF At

LEMMA GrowthImages ==
  ASSUME Typed, NEW token \in Tokens, Grows(token),
         NEW n, n = Len(read) + 1
  PROVE  /\ token.kind = "image" => Images' = Images \cup {n}
         /\ token.kind # "image" => Images' = Images
<1>1. /\ DOMAIN read' = DOMAIN read \cup {n} /\ read'[n] = token
      /\ \A i \in DOMAIN read : read'[i] = read[i]
  BY Growth
<1> QED
  BY <1>1 DEF Images

\* Tokens other than those that f is read from.
LEMMA OtherTokens ==
  ASSUME Typed, NEW token \in Tokens, Grows(token),
         NEW f \in Fields, FieldSettled(f), fields'[f] = fields[f],
         token.kind \notin {"field", "fallback"} \/ token.name # f
  PROVE  FieldSettled(f)'
<1>1. PICK n : n = Len(read) + 1
  OBVIOUS
<1>2. At("field", f)' = At("field", f) /\ At("fallback", f)' = At("fallback", f)
  BY <1>1, GrowthAt
<1>3. \A i \in 1..Len(read) : read'[i] = read[i]
  BY <1>1, Growth
<1>4. At("field", f) \subseteq 1..Len(read) /\ At("fallback", f) \subseteq 1..Len(read)
  BY Positions
<1>5. \A l : After(f, l)' = After(f, l) /\ After(f, l) \subseteq 1..Len(read)
  BY <1>2, <1>3, <1>4 DEF After
<1>6. PICK l \in {0} \cup At("field", f) :
        /\ \A j \in At("field", f) : j <= l
        /\ \/ l > 0 /\ read[l].value # Empty /\ fields[f] = read[l].value
           \/ /\ l = 0 \/ read[l].value = Empty
              /\ \/ After(f, l) = {} /\ fields[f] = Empty
                 \/ \E e \in After(f, l) : /\ \A j \in After(f, l) : e <= j
                                           /\ fields[f] = read[e].value
  BY DEF FieldSettled
<1>7. l = 0 \/ read'[l] = read[l]
  BY <1>3, <1>4, <1>6
<1>8. \A e \in After(f, l) : read'[e] = read[e]
  BY <1>3, <1>5
<1>9. l \in {0} \cup At("field", f)' /\ \A j \in At("field", f)' : j <= l
  BY <1>2, <1>6
<1>10. \/ l > 0 /\ read'[l].value # Empty /\ fields'[f] = read'[l].value
       \/ /\ l = 0 \/ read'[l].value = Empty
          /\ \/ After(f, l)' = {} /\ fields'[f] = Empty
             \/ \E e \in After(f, l)' : /\ \A j \in After(f, l)' : e <= j
                                        /\ fields'[f] = read'[e].value
  <2>1. CASE l > 0 /\ read[l].value # Empty /\ fields[f] = read[l].value
    BY <1>7, <2>1
  <2>2. CASE /\ l = 0 \/ read[l].value = Empty
             /\ \/ After(f, l) = {} /\ fields[f] = Empty
                \/ \E e \in After(f, l) : /\ \A j \in After(f, l) : e <= j
                                          /\ fields[f] = read[e].value
    BY <1>5, <1>7, <1>8, <2>2
  <2> QED
    BY <1>6, <2>1, <2>2
<1> QED
  BY <1>9, <1>10 DEF FieldSettled

LEMMA FieldToken ==
  ASSUME Typed, NEW token \in Tokens, Grows(token), token.kind = "field",
         NEW f \in Fields, token.name = f, fields'[f] = token.value
  PROVE  FieldSettled(f)'
<1>1. PICK n : n = Len(read) + 1
  OBVIOUS
<1>2. /\ n \in Nat /\ n > 0 /\ read'[n] = token /\ \A i \in 1..Len(read) : i < n
      /\ At("field", f)' = At("field", f) \cup {n} /\ At("fallback", f)' = At("fallback", f)
  <2>1. At("field", f)' = At("field", f) \cup {n}
    BY <1>1, GrowthAt
  <2>2. At("fallback", f)' = At("fallback", f)
    BY <1>1, GrowthAt
  <2> QED
    BY <1>1, <2>1, <2>2, Growth
<1>3. At("field", f) \subseteq 1..Len(read) /\ At("fallback", f) \subseteq 1..Len(read)
  BY Positions
<1>4. n \in At("field", f)' /\ \A j \in At("field", f)' : j <= n
  BY <1>2, <1>3
<1>5. After(f, n)' = {}
  BY <1>2, <1>3 DEF After
<1> QED
  BY <1>2, <1>4, <1>5 DEF FieldSettled

LEMMA FallbackToken ==
  ASSUME Typed, NEW token \in Tokens, Grows(token), token.kind = "fallback",
         NEW f \in Fields, token.name = f, FieldSettled(f),
         fields'[f] = IF fields[f] = Empty THEN token.value ELSE fields[f]
  PROVE  FieldSettled(f)'
<1>1. PICK n : n = Len(read) + 1
  OBVIOUS
<1>2. /\ n \in Nat /\ n > 0 /\ read'[n] = token
      /\ At("field", f)' = At("field", f) /\ At("fallback", f)' = At("fallback", f) \cup {n}
      /\ \A i \in 1..Len(read) : i < n /\ i \in Nat /\ read'[i] = read[i]
  <2>1. At("field", f)' = At("field", f)
    BY <1>1, GrowthAt
  <2>2. At("fallback", f)' = At("fallback", f) \cup {n}
    BY <1>1, GrowthAt
  <2> QED
    BY <1>1, <2>1, <2>2, Growth
<1>3. At("field", f) \subseteq 1..Len(read) /\ At("fallback", f) \subseteq 1..Len(read)
  BY Positions
<1>4. PICK l \in {0} \cup At("field", f) :
        /\ \A j \in At("field", f) : j <= l
        /\ \/ l > 0 /\ read[l].value # Empty /\ fields[f] = read[l].value
           \/ /\ l = 0 \/ read[l].value = Empty
              /\ \/ After(f, l) = {} /\ fields[f] = Empty
                 \/ \E e \in After(f, l) : /\ \A j \in After(f, l) : e <= j
                                           /\ fields[f] = read[e].value
  BY DEF FieldSettled
<1>5. /\ l = 0 \/ read'[l] = read[l]
      /\ l < n /\ l \in Nat
      /\ l \in {0} \cup At("field", f)' /\ \A j \in At("field", f)' : j <= l
  BY <1>2, <1>3, <1>4
<1>6. After(f, l)' = After(f, l) \cup (IF token.value = Empty THEN {} ELSE {n})
  BY <1>2, <1>3, <1>5 DEF After
<1>7. /\ After(f, l) \subseteq 1..Len(read)
      /\ \A e \in After(f, l) : read[e].value # Empty /\ read'[e] = read[e] /\ e <= n
  BY <1>2, <1>3 DEF After
<1>8. CASE l > 0 /\ read[l].value # Empty /\ fields[f] = read[l].value
  <2>1. read'[l] = read[l]
    BY <1>5, <1>8
  <2>2. fields'[f] = fields[f]
    BY <1>8
  <2>3. l > 0 /\ read'[l].value # Empty /\ fields'[f] = read'[l].value
    BY <1>8, <2>1, <2>2
  <2> QED
    BY <1>5, <2>3 DEF FieldSettled
<1>9. CASE /\ l = 0 \/ read[l].value = Empty
           /\ After(f, l) = {} /\ fields[f] = Empty
  <2>1. l = 0 \/ read'[l].value = Empty
    BY <1>5, <1>9
  <2>2. fields'[f] = token.value
    BY <1>9
  <2>3. \/ After(f, l)' = {} /\ fields'[f] = Empty
        \/ \E e \in After(f, l)' : /\ \A j \in After(f, l)' : e <= j
                                   /\ fields'[f] = read'[e].value
    <3>1. CASE token.value = Empty
      BY <1>6, <1>9, <2>2, <3>1
    <3>2. CASE token.value # Empty
      <4>1. After(f, l)' = {n} /\ fields'[f] = read'[n].value
        BY <1>2, <1>6, <1>9, <2>2, <3>2
      <4>2. n \in After(f, l)' /\ \A j \in After(f, l)' : n <= j
        BY <1>2, <4>1
      <4> QED
        BY <4>1, <4>2
    <3> QED
      BY <3>1, <3>2
  <2> QED
    BY <1>5, <2>1, <2>3 DEF FieldSettled
<1>10. CASE /\ l = 0 \/ read[l].value = Empty
            /\ \E e \in After(f, l) : /\ \A j \in After(f, l) : e <= j
                                      /\ fields[f] = read[e].value
  <2>1. PICK e \in After(f, l) : (\A j \in After(f, l) : e <= j) /\ fields[f] = read[e].value
    BY <1>10
  <2>2. fields'[f] = read'[e].value
    BY <1>7, <2>1
  <2>3. e \in After(f, l)' /\ \A j \in After(f, l)' : e <= j
    BY <1>6, <1>7, <2>1
  <2>4. l = 0 \/ read'[l].value = Empty
    BY <1>5, <1>10
  <2> QED
    BY <1>5, <2>2, <2>3, <2>4 DEF FieldSettled
<1> QED
  BY <1>4, <1>8, <1>9, <1>10
-----------------------------------------------------------------------------
(* Images keep their places and their tags.                                *)

LEMMA PlaceKept ==
  ASSUME Typed, NEW token \in Tokens, Grows(token), NEW i \in Images
  PROVE  Place(i)' = Place(i)
<1>1. PICK n : n = Len(read) + 1
  OBVIOUS
<1>2. i < n /\ i \in Nat /\ n \in Nat
  BY <1>1, Positions, Growth
<1>3. Images' = Images \/ Images' = Images \cup {n}
  BY <1>1, GrowthImages
<1>4. {h \in Images' : h <= i} = {h \in Images : h <= i}
  BY <1>2, <1>3
<1> QED
  BY <1>4 DEF Place

\* A tag belongs to image i if it is of p, legal, and i is the last one.
Adds(token, i, p) ==
  /\ token.kind = "property" /\ token.name = p
  /\ \A h \in Images : h <= i
  /\ p \in NumProperties => token.value \in Numbers

LEMMA MineGrows ==
  ASSUME Typed, NEW token \in Tokens, Grows(token), NEW i \in Images, NEW p,
         NEW n, n = Len(read) + 1
  PROVE  /\ Adds(token, i, p) => Mine(i, p)' = Mine(i, p) \cup {n}
         /\ ~Adds(token, i, p) => Mine(i, p)' = Mine(i, p)
<1>1. /\ n \in Nat /\ read'[n] = token
      /\ \A j \in 1..Len(read) : j < n /\ j \in Nat /\ read'[j] = read[j]
  BY Growth
<1>2. Images \subseteq 1..Len(read) /\ At("property", p) \subseteq 1..Len(read)
  BY Positions
<1>3. Images' = Images \/ (token.kind = "image" /\ Images' = Images \cup {n})
  BY GrowthImages
<1>4. /\ token.kind = "property" /\ token.name = p =>
           At("property", p)' = At("property", p) \cup {n}
      /\ token.kind # "property" \/ token.name # p =>
           At("property", p)' = At("property", p)
  BY GrowthAt
<1>5. ASSUME NEW j \in At("property", p) PROVE j \in Mine(i, p)' <=> j \in Mine(i, p)
  <2>1. j \in At("property", p)' /\ read'[j] = read[j] /\ j < n
    BY <1>1, <1>2, <1>4
  <2>2. (\A h \in Images' : h <= i \/ j < h) <=> \A h \in Images : h <= i \/ j < h
    BY <1>3, <2>1
  <2> QED
    BY <2>1, <2>2 DEF Mine
<1>6. n \notin At("property", p)
  BY <1>1, <1>2
<1>7. CASE token.kind = "property" /\ token.name = p
  <2>1. At("property", p)' = At("property", p) \cup {n} /\ Images' = Images
    BY <1>3, <1>4, <1>7
  <2>2. (\A h \in Images : h <= i \/ n < h) <=> \A h \in Images : h <= i
    BY <1>1, <1>2
  <2>3. n \in Mine(i, p)' <=> Adds(token, i, p)
    BY <1>1, <1>2, <1>7, <2>1, <2>2 DEF Mine, Adds
  <2>4. Mine(i, p)' \subseteq At("property", p) \cup {n} /\ Mine(i, p) \subseteq At("property", p)
    BY <2>1 DEF Mine
  <2> QED
    BY <1>5, <1>6, <2>3, <2>4
<1>8. CASE token.kind # "property" \/ token.name # p
  <2>1. ~Adds(token, i, p)
    BY <1>8 DEF Adds
  <2>2. Mine(i, p)' \subseteq At("property", p) /\ Mine(i, p) \subseteq At("property", p)
    BY <1>4, <1>8 DEF Mine
  <2> QED
    BY <1>5, <2>1, <2>2
<1> QED
  BY <1>7, <1>8

\* Image i has the properties it had, and no tag more.
LEMMA SettledStays ==
  ASSUME Typed, NEW token \in Tokens, Grows(token), NEW i \in Images, NEW p \in Properties,
         PropertySettled(i, p), ~Adds(token, i, p),
         images'[Place(i)].properties[p] = images[Place(i)].properties[p]
  PROVE  PropertySettled(i, p)'
<1>1. PICK n : n = Len(read) + 1
  OBVIOUS
<1>2. Mine(i, p)' = Mine(i, p) /\ Place(i)' = Place(i)
  BY <1>1, MineGrows, PlaceKept
<1>3. Mine(i, p) \subseteq 1..Len(read)
  BY Positions DEF Mine
<1>4. \A e \in Mine(i, p) : read'[e] = read[e]
  BY <1>1, <1>3, Growth
<1> QED
  BY <1>2, <1>4 DEF PropertySettled

LEMMA SettledGrows ==
  ASSUME Typed, NEW token \in Tokens, Grows(token), NEW i \in Images, NEW p \in Properties,
         Adds(token, i, p), images'[Place(i)].properties[p] = token.value
  PROVE  PropertySettled(i, p)'
<1>1. PICK n : n = Len(read) + 1
  OBVIOUS
<1>2. Mine(i, p)' = Mine(i, p) \cup {n} /\ Place(i)' = Place(i)
  BY <1>1, MineGrows, PlaceKept
<1>3. n \in Nat /\ read'[n] = token /\ \A j \in 1..Len(read) : j < n
  BY <1>1, Growth
<1>4. Mine(i, p) \subseteq 1..Len(read)
  BY Positions DEF Mine
<1>5. n \in Mine(i, p)' /\ \A j \in Mine(i, p)' : j <= n
  BY <1>2, <1>3, <1>4
<1> QED
  BY <1>2, <1>3, <1>5 DEF PropertySettled

ImagesSettled == Len(images) = Cardinality(Images) /\ \A i \in Images : ImageSettled(i)

LEMMA OtherThanImages ==
  ASSUME Typed, ImagesSettled, NEW token \in Tokens, Grows(token),
         token.kind \notin {"image", "property"}, images' = images
  PROVE  ImagesSettled'
<1>1. PICK n : n = Len(read) + 1
  OBVIOUS
<1>2. Images' = Images /\ Images \subseteq 1..Len(read)
  BY <1>1, GrowthImages, Positions
<1>3. ASSUME NEW i \in Images PROVE ImageSettled(i)'
  <2>1. read'[i] = read[i] /\ Place(i)' = Place(i)
    BY <1>1, <1>2, Growth, PlaceKept
  <2>2. ImageSettled(i)
    BY DEF ImagesSettled
  <2>3. ASSUME NEW p \in Properties PROVE PropertySettled(i, p)'
    <3>1. ~Adds(token, i, p) /\ PropertySettled(i, p)
      BY <2>2 DEF Adds, ImageSettled
    <3> QED
      BY <3>1, SettledStays
  <2> QED
    BY <2>1, <2>2, <2>3 DEF ImageSettled
<1> QED
  BY <1>2, <1>3 DEF ImagesSettled

LEMMA ImageToken ==
  ASSUME Typed, ImagesSettled, NEW token \in Tokens, Grows(token), token.kind = "image",
         images' = Append(images, NewImage(token.value))
  PROVE  ImagesSettled'
<1>1. PICK n : n = Len(read) + 1
  OBVIOUS
<1>2. PICK new : new = NewImage(token.value)
  OBVIOUS
<1>3. /\ new.url = toAbsoluteURL(token.value)
      /\ \A p \in Properties : new.properties[p] = Empty
  BY <1>2 DEF NewImage
<1>4. /\ Len(images') = Len(images) + 1 /\ images'[Len(images) + 1] = new
      /\ \A k \in 1..Len(images) : images'[k] = images[k]
  BY <1>2 DEF Typed
<1>5. /\ Images' = Images \cup {n} /\ Images \subseteq 1..Len(read)
      /\ IsFiniteSet(Images) /\ n \in Nat /\ n \notin Images
      /\ \A i \in Images : i < n /\ i \in Nat
  BY <1>1, GrowthImages, Positions, Growth
<1>6. Cardinality(Images') = Cardinality(Images) + 1
  BY <1>5, FS_AddElement
<1>7. ASSUME NEW i \in Images PROVE ImageSettled(i)'
  <2>1. read'[i] = read[i] /\ Place(i)' = Place(i)
    BY <1>1, <1>5, Growth, PlaceKept
  <2>2. ImageSettled(i)
    BY DEF ImagesSettled
  <2>3. images'[Place(i)] = images[Place(i)]
    BY <1>4, Places DEF ImagesSettled
  <2>4. ASSUME NEW p \in Properties PROVE PropertySettled(i, p)'
    <3>1. ~Adds(token, i, p) /\ PropertySettled(i, p)
      BY <2>2 DEF Adds, ImageSettled
    <3> QED
      BY <2>3, <3>1, SettledStays
  <2> QED
    BY <2>1, <2>2, <2>3, <2>4 DEF ImageSettled
<1>8. ImageSettled(n)'
  <2>1. {h \in Images' : h <= n} = Images'
    <3>1. \A h \in Images' : h <= n
      BY <1>5
    <3> QED
      BY <3>1
  <2>2. Place(n)' = Len(images) + 1
    BY <1>6, <2>1 DEF Place, ImagesSettled
  <2>3. read'[n] = token
    BY <1>1, Growth
  <2>4. ASSUME NEW p \in Properties PROVE Mine(n, p)' = {}
    <3>1. At("property", p)' = At("property", p) /\ At("property", p) \subseteq 1..Len(read)
      BY <1>1, GrowthAt, Positions
    <3>2. \A j \in 1..Len(read) : j < n /\ j \in Nat
      BY <1>1, Growth
    <3> QED
      BY <1>5, <3>1, <3>2 DEF Mine
  <2> QED
    BY <1>3, <1>4, <2>2, <2>3, <2>4 DEF ImageSettled, PropertySettled
<1>9. Len(images') = Cardinality(Images')
  BY <1>4, <1>6 DEF ImagesSettled
<1> QED
  BY <1>5, <1>7, <1>8, <1>9 DEF ImagesSettled

LEMMA PropertyToken ==
  ASSUME Typed, ImagesSettled, NEW token \in Tokens, Grows(token),
         token.kind = "property", images # <<>>,
         images' = [images EXCEPT ![LatestImage].properties[token.name] =
                      PropertyValue(token, @)]
  PROVE  ImagesSettled'
<1>1. PICK n : n = Len(read) + 1
  OBVIOUS
<1>2. Images' = Images /\ Images \subseteq 1..Len(read)
  BY <1>1, GrowthImages, Positions
<1> DEFINE k == Len(images)
<1>3. k \in DOMAIN images /\ images[k] \in Pictures
  BY DEF Typed
<1>4. /\ Len(images') = k
      /\ \A l \in 1..k : l # k => images'[l] = images[l]
      /\ images'[k] = [images[k] EXCEPT !.properties[token.name] = PropertyValue(token, @)]
  BY <1>3 DEF LatestImage, Typed
<1>5. /\ images'[k].url = images[k].url
      /\ \A p \in Properties : p # token.name =>
           images'[k].properties[p] = images[k].properties[p]
      /\ images'[k].properties[token.name] =
           PropertyValue(token, images[k].properties[token.name])
  BY <1>3, <1>4, TokenFields DEF Pictures
<1>6. ASSUME NEW i \in Images PROVE ImageSettled(i)'
  <2>1. read'[i] = read[i] /\ Place(i)' = Place(i)
    BY <1>1, <1>2, Growth, PlaceKept
  <2>2. ImageSettled(i)
    BY DEF ImagesSettled
  <2>3. CASE \E h \in Images : h > i
    <3>1. images'[Place(i)] = images[Place(i)]
      BY <1>4, <2>3, Places DEF ImagesSettled
    <3>2. \A p : ~Adds(token, i, p)
      BY <1>2, <2>3 DEF Adds
    <3> QED
      BY <2>1, <2>2, <3>1, <3>2, SettledStays DEF ImageSettled
  <2>4. CASE \A h \in Images : h <= i
    <3>1. Place(i) = k
      BY <2>4, Places DEF ImagesSettled
    <3>2. ASSUME NEW p \in Properties PROVE PropertySettled(i, p)'
      <4>1. CASE Adds(token, i, p)
        <5>1. images'[Place(i)].properties[p] = token.value
          BY <1>5, <3>1, <4>1 DEF Adds, PropertyValue, Atoi
        <5> QED
          BY <4>1, <5>1, SettledGrows
      <4>2. CASE ~Adds(token, i, p)
        <5>1. images'[Place(i)].properties[p] = images[Place(i)].properties[p]
          BY <1>5, <2>4, <3>1, <4>2 DEF Adds, PropertyValue, Atoi
        <5> QED
          BY <2>2, <4>2, <5>1, SettledStays DEF ImageSettled
      <4> QED
        BY <4>1, <4>2
    <3> QED
      BY <1>5, <2>1, <2>2, <3>1, <3>2 DEF ImageSettled
  <2> QED
    BY <1>2, <2>3, <2>4
<1> QED
  BY <1>2, <1>4, <1>6 DEF ImagesSettled
-----------------------------------------------------------------------------
(* The invariant holds.                                                    *)

LEMMA ValueTypes ==
  ASSUME NEW token \in Tokens, token.kind = "property", NEW old \in Values
  PROVE  /\ PropertyValue(token, old) \in Values
         /\ token.name \in NumProperties /\ old \in Numbers \cup {Empty} =>
              PropertyValue(token, old) \in Numbers \cup {Empty}
BY TokenFields DEF PropertyValue, Atoi

\* A token of every kind: what becomes of the types.
LEMMA StepTyped ==
  ASSUME IInv, [Next]_vars
  PROVE  Typed'
<1>1. Typed /\ Fallbacks \subseteq Fields
  BY SummaryAssumption DEF IInv
<1>2. CASE Refuse \/ FetchOther \/ FetchHTML \/ EndHead \/ FailToken \/ UNCHANGED vars
  BY <1>1, <1>2 DEF Typed, Refuse, FetchOther, FetchHTML, EndHead, FailToken, page, vars
<1>3. ASSUME NEW token \in Tokens, Grows(token) PROVE read' \in Seq(Tokens)
  BY <1>1, <1>3 DEF Typed, Grows
<1>4. ASSUME NEW token \in Tokens, SetField(token) PROVE Typed'
  <2>1. read' \in Seq(Tokens)
    BY <1>3, <1>4 DEF SetField, Token, Grows
  <2>2. token.value \in Values /\ token.name \in Fields
    BY <1>4, TokenFields DEF SetField, Token
  <2>3. fields' \in [Fields -> Values]
    BY <1>1, <1>4, <2>2 DEF SetField, Typed
  <2> QED
    BY <1>1, <1>4, <2>1, <2>3 DEF SetField, Typed
<1>5. ASSUME NEW token \in Tokens, SetFallback(token) PROVE Typed'
  <2>1. read' \in Seq(Tokens)
    BY <1>3, <1>5 DEF SetFallback, Token, Grows
  <2>2. token.value \in Values /\ token.name \in Fields
    BY <1>1, <1>5, TokenFields DEF SetFallback, Token
  <2>3. fields' \in [Fields -> Values]
    BY <1>1, <1>5, <2>2 DEF SetFallback, Typed
  <2> QED
    BY <1>1, <1>5, <2>1, <2>3 DEF SetFallback, Typed
<1>6. ASSUME NEW token \in Tokens, AddImage(token) PROVE Typed'
  <2>1. read' \in Seq(Tokens)
    BY <1>3, <1>6 DEF AddImage, Token, Grows
  <2>2. PICK new : new = NewImage(token.value)
    OBVIOUS
  <2>3. new \in Pictures /\ \A p \in NumProperties : new.properties[p] = Empty
    <3>1. token.value \in Values /\ Empty \in Values
      BY TokenFields DEF Values
    <3> QED
      BY <2>2, <3>1 DEF NewImage, Pictures, References, Properties
  <2>4. images' = Append(images, new)
    BY <1>6, <2>2 DEF AddImage
  <2>5. /\ images' \in Seq(Pictures) /\ Len(images') = Len(images) + 1
        /\ \A i \in 1..Len(images) : images'[i] = images[i]
        /\ images'[Len(images) + 1] = new
    BY <1>1, <2>3, <2>4 DEF Typed
  <2>6. \A i \in 1..Len(images') : \A p \in NumProperties :
          images'[i].properties[p] \in Numbers \cup {Empty}
    <3>1. Len(images) \in Nat
      BY <1>1 DEF Typed
    <3>2. \A i \in 1..Len(images') : i \in 1..Len(images) \/ i = Len(images) + 1
      BY <2>5, <3>1
    <3> QED
      BY <1>1, <2>3, <2>5, <3>2 DEF Typed
  <2> QED
    BY <1>1, <1>6, <2>1, <2>5, <2>6 DEF AddImage, Typed
<1>7. ASSUME NEW token \in Tokens, SetProperty(token) PROVE Typed'
  <2>1. read' \in Seq(Tokens)
    BY <1>3, <1>7 DEF SetProperty, Token, Grows
  <2> DEFINE k == Len(images)
             old == images[k]
  <2>2. /\ token.kind = "property" /\ token.name \in Properties
        /\ k \in DOMAIN images /\ old \in Pictures
        /\ old.properties[token.name] \in Values
    <3>1. token.kind = "property" /\ images # <<>>
      BY <1>7 DEF SetProperty, Token
    <3>2. token.name \in Properties
      BY <3>1, TokenFields
    <3>3. k \in DOMAIN images /\ old \in Pictures
      BY <1>1, <3>1 DEF Typed
    <3> QED
      BY <3>1, <3>2, <3>3 DEF Pictures
  <2>3. PICK v : v = PropertyValue(token, old.properties[token.name])
    OBVIOUS
  <2>4. PICK new : new = [old EXCEPT !.properties[token.name] = v]
    OBVIOUS
  <2>5. images' = [images EXCEPT ![k] = new]
    BY <1>7, <2>3, <2>4 DEF SetProperty, LatestImage
  <2>6. /\ v \in Values
        /\ token.name \in NumProperties => v \in Numbers \cup {Empty}
    BY <1>1, <2>2, <2>3, ValueTypes DEF Typed
  <2>7. /\ new \in Pictures /\ new.properties[token.name] = v
        /\ \A p \in Properties \ {token.name} : new.properties[p] = old.properties[p]
    BY <2>2, <2>4, <2>6 DEF Pictures
  <2>8. /\ images' \in Seq(Pictures) /\ Len(images') = k /\ images'[k] = new
        /\ \A i \in 1..k \ {k} : images'[i] = images[i]
    BY <1>1, <2>2, <2>5, <2>7 DEF Typed
  <2>9. \A p \in NumProperties : new.properties[p] \in Numbers \cup {Empty}
    BY <1>1, <2>2, <2>6, <2>7 DEF Typed, Properties
  <2>10. \A i \in 1..Len(images') : \A p \in NumProperties :
           images'[i].properties[p] \in Numbers \cup {Empty}
    <3> HIDE DEF k
    <3> QED
      BY <1>1, <2>8, <2>9 DEF Typed, k
  <2> QED
    BY <1>1, <1>7, <2>1, <2>8, <2>10 DEF SetProperty, Typed
<1>8. ASSUME NEW token \in Tokens, MissImage(token) PROVE Typed'
  BY <1>1, <1>3, <1>8 DEF MissImage, Token, Grows, Typed, page
<1>9. ASSUME NEW token \in Tokens, SetIcon(token) PROVE Typed'
  <2>1. read' \in Seq(Tokens)
    BY <1>3, <1>9 DEF SetIcon, Token, Grows
  <2>2. icon' \in References
    BY <1>9, TokenFields DEF SetIcon, References
  <2> QED
    BY <1>1, <1>9, <2>1, <2>2 DEF SetIcon, Typed
<1> QED
  BY <1>2, <1>4, <1>5, <1>6, <1>7, <1>8, <1>9 DEF Next

\* Fields, images and the panic, after a token.
LEMMA TokenStep ==
  ASSUME IInv, NEW token \in Tokens,
         \/ SetField(token) \/ SetFallback(token) \/ AddImage(token)
         \/ SetProperty(token) \/ MissImage(token) \/ SetIcon(token)
  PROVE  (\A f \in Fields : FieldSettled(f))' /\ ImagesSettled' /\ DroppedForOrphans'
<1>1. Grows(token) /\ Typed /\ ImagesSettled /\ answer = "none"
  BY DEF SetField, SetFallback, AddImage, SetProperty, MissImage, SetIcon, Token, Grows,
         IInv, ImagesSettled, Reading
<1>2. \A f \in Fields : FieldSettled(f)
  BY DEF IInv
<1>3. fields \in [Fields -> Values]
  BY <1>1 DEF Typed
<1>4. CASE SetField(token)
  <2>1. /\ token.kind = "field" /\ images' = images /\ answer' = answer
        /\ fields'[token.name] = token.value
        /\ \A f \in Fields \ {token.name} : fields'[f] = fields[f]
    BY <1>3, <1>4, TokenFields DEF SetField, Token
  <2>2. ASSUME NEW f \in Fields PROVE FieldSettled(f)'
    <3>1. CASE f = token.name
      BY <1>1, <2>1, <3>1, FieldToken
    <3>2. CASE f # token.name
      BY <1>1, <1>2, <2>1, <3>2, OtherTokens
    <3> QED
      BY <3>1, <3>2
  <2>3. ImagesSettled'
    BY <1>1, <2>1, OtherThanImages
  <2> QED
    BY <1>1, <2>1, <2>2, <2>3 DEF DroppedForOrphans
<1>5. CASE SetFallback(token)
  <2>1. /\ token.kind = "fallback" /\ images' = images /\ answer' = answer
        /\ fields'[token.name] =
             IF fields[token.name] = Empty THEN token.value ELSE fields[token.name]
        /\ \A f \in Fields \ {token.name} : fields'[f] = fields[f]
    BY <1>3, <1>5, TokenFields, SummaryAssumption DEF SetFallback, Token
  <2>2. ASSUME NEW f \in Fields PROVE FieldSettled(f)'
    <3>1. CASE f = token.name
      BY <1>1, <1>2, <2>1, <3>1, FallbackToken
    <3>2. CASE f # token.name
      BY <1>1, <1>2, <2>1, <3>2, OtherTokens
    <3> QED
      BY <3>1, <3>2
  <2>3. ImagesSettled'
    BY <1>1, <2>1, OtherThanImages
  <2> QED
    BY <1>1, <2>1, <2>2, <2>3 DEF DroppedForOrphans
<1>6. ASSUME fields' = fields, token.kind \notin {"field", "fallback"}
      PROVE  \A f \in Fields : FieldSettled(f)'
  BY <1>1, <1>2, <1>6, OtherTokens
<1>7. CASE AddImage(token)
  <2>1. /\ token.kind = "image" /\ fields' = fields /\ answer' = answer
        /\ images' = Append(images, NewImage(token.value))
    BY <1>7 DEF AddImage, Token
  <2>2. ImagesSettled'
    BY <1>1, <2>1, ImageToken
  <2>3. \A f \in Fields : FieldSettled(f)'
    BY <1>6, <1>7 DEF AddImage, Token
  <2> QED
    BY <1>1, <2>1, <2>2, <2>3 DEF DroppedForOrphans
<1>8. CASE SetProperty(token)
  <2>1. ImagesSettled'
    BY <1>1, <1>8, PropertyToken DEF SetProperty, Token
  <2>2. \A f \in Fields : FieldSettled(f)'
    BY <1>6, <1>8 DEF SetProperty, Token
  <2> QED
    BY <1>1, <1>8, <2>1, <2>2 DEF SetProperty, DroppedForOrphans
<1>9. CASE SetIcon(token)
  <2>1. token.kind = "icon" /\ fields' = fields /\ answer' = answer /\ images' = images
    BY <1>9 DEF SetIcon, Token
  <2>2. ImagesSettled'
    BY <1>1, <2>1, OtherThanImages
  <2>3. \A f \in Fields : FieldSettled(f)'
    BY <1>6, <2>1
  <2> QED
    BY <1>1, <2>1, <2>2, <2>3 DEF DroppedForOrphans
<1>10. CASE MissImage(token)
  <2>1. /\ token.kind = "property" /\ fields' = fields /\ images' = images
        /\ images = <<>>
    BY <1>10 DEF MissImage, Token, page
  <2>2. PICK n : n = Len(read) + 1
    OBVIOUS
  <2>3. Images = {} /\ Images' = {}
    <3>1. Cardinality(Images) = 0
      BY <1>1, <2>1 DEF ImagesSettled
    <3>2. Images = {}
      BY <1>1, <3>1, Positions, FS_EmptySet
    <3> QED
      BY <1>1, <2>1, <2>2, <3>2, GrowthImages
  <2>4. ImagesSettled'
    BY <1>1, <2>1, <2>3 DEF ImagesSettled
  <2>5. DroppedForOrphans'
    <3>1. n \in DOMAIN read' /\ read'[n].kind = "property"
      BY <1>1, <2>1, <2>2, Growth
    <3> QED
      BY <2>3, <3>1 DEF DroppedForOrphans
  <2>6. \A f \in Fields : FieldSettled(f)'
    BY <1>6, <2>1
  <2> QED
    BY <2>4, <2>5, <2>6
<1> QED
  BY <1>4, <1>5, <1>7, <1>8, <1>9, <1>10

LEMMA StepIInv ==
  ASSUME IInv, [Next]_vars
  PROVE  IInv'
<1>1. CASE Refuse \/ FetchOther \/ FetchHTML \/ EndHead \/ FailToken \/ UNCHANGED vars
  <2>1. /\ read' = read /\ fields' = fields /\ images' = images
        /\ answer' = "dropped" => answer = "dropped"
    BY <1>1 DEF Refuse, FetchOther, FetchHTML, EndHead, FailToken, page, vars
  <2>2. /\ \A f \in Fields : FieldSettled(f)' <=> FieldSettled(f)
        /\ \A i : ImageSettled(i)' <=> ImageSettled(i)
        /\ Images' = Images
    BY <2>1 DEF FieldSettled, After, At, Images, ImageSettled, PropertySettled, Mine, Place
  <2>3. DroppedForOrphans'
    BY <2>1, <2>2 DEF IInv, DroppedForOrphans
  <2> QED
    BY <2>1, <2>2, <2>3, StepTyped DEF IInv
<1>2. ASSUME NEW token \in Tokens,
             \/ SetField(token) \/ SetFallback(token) \/ AddImage(token)
             \/ SetProperty(token) \/ MissImage(token) \/ SetIcon(token)
      PROVE  IInv'
  BY <1>2, TokenStep, StepTyped DEF IInv, ImagesSettled
<1> QED
  BY <1>1, <1>2 DEF Next

LEMMA InitIInv ==
  ASSUME Init PROVE IInv
<1>1. Empty \in Values /\ toAbsoluteURL(Empty) = Empty
  BY DEF Values, toAbsoluteURL
<1>2. Typed
  BY <1>1 DEF Init, Typed, References
<1>3. Images = {} /\ \A k, name : At(k, name) = {}
  BY DEF Init, Images, At
<1>4. ASSUME NEW f \in Fields PROVE FieldSettled(f)
  BY <1>3 DEF Init, FieldSettled, After
<1>5. Len(images) = Cardinality(Images)
  BY <1>3, FS_EmptySet DEF Init
<1> QED
  BY <1>2, <1>3, <1>4, <1>5 DEF IInv, DroppedForOrphans, Init

\* What the other theorems rest on: tag by tag, a field and a picture have what
\* the last tag of them says, or the first fallback (summary.go:111-148).
THEOREM Inductive == Spec => []IInv
<1>1. Init => IInv
  BY InitIInv
<1>2. IInv /\ [Next]_vars => IInv'
  BY StepIInv
<1> QED
  BY <1>1, <1>2, PTL DEF Spec

\* Every part of a summary has its type, and a width or height is a number
\* whatever the page says it is (summary.go:200-209).
THEOREM Typing == Spec => []TypeOK
<1>1. IInv => TypeOK
  BY DEF IInv, Typed, TypeOK, References
<1> QED
  BY <1>1, Inductive, PTL

\* The handler panics on no head but one whose first image comes after a
\* property of an image (summary.go:195).
THEOREM OrphansOnly == Spec => []DroppedForOrphans
<1>1. IInv => DroppedForOrphans
  BY DEF IInv
<1> QED
  BY <1>1, Inductive, PTL

\* A title or description is Open Graph's wherever it is in the head, and the
\* first fallback that says something if it says nothing (summary.go:126, 164).
THEOREM OpenGraphFirst == Spec => []OpenGraphWins
<1>1. ASSUME IInv, NEW f \in Fields PROVE fields[f] = Specified(f)
  <2>1. FieldSettled(f) /\ Typed
    BY <1>1 DEF IInv
  <2>2. PICK l \in {0} \cup At("field", f) :
          /\ \A j \in At("field", f) : j <= l
          /\ \/ l > 0 /\ read[l].value # Empty /\ fields[f] = read[l].value
             \/ /\ l = 0 \/ read[l].value = Empty
                /\ \/ After(f, l) = {} /\ fields[f] = Empty
                   \/ \E e \in After(f, l) : /\ \A j \in After(f, l) : e <= j
                                             /\ fields[f] = read[e].value
    BY <2>1 DEF FieldSettled
  <2>3. At("field", f) \subseteq 1..Len(read) /\ At("fallback", f) \subseteq 1..Len(read)
    BY <2>1, Positions
  <2>4. {0} \cup At("field", f) \in SUBSET Nat /\ After(f, l) \in SUBSET Nat
    BY <2>3 DEF After
  <2>5. l = Latest({0} \cup At("field", f))
    <3>1. \A j \in {0} \cup At("field", f) : j <= l
      BY <2>2, <2>4
    <3> QED
      BY <2>4, <3>1, LatestIs
  <2>6. Specified(f) =
          IF l > 0 /\ read[l].value # Empty THEN read[l].value
          ELSE IF After(f, l) # {} THEN read[Earliest(After(f, l))].value ELSE Empty
    BY <2>5 DEF Specified, After
  <2>7. ASSUME NEW e \in After(f, l), \A j \in After(f, l) : e <= j
        PROVE  Earliest(After(f, l)) = e
    BY <2>4, <2>7, EarliestIs
  <2> QED
    BY <2>2, <2>6, <2>7
<1>2. IInv => OpenGraphWins
  BY <1>1 DEF OpenGraphWins
<1> QED
  BY <1>2, Inductive, PTL

\* The images of a summary are those of the head, in its order, and none has a
\* property that belongs to another (summary.go:188-213).
THEOREM ImagesKeep == Spec => []ImagesKeepTheirProperties
<1>1. ASSUME IInv, NEW i \in Images, NEW p \in Properties
      PROVE  images[Place(i)].properties[p] =
               IF Mine(i, p) = {} THEN Empty ELSE read[Latest(Mine(i, p))].value
  <2>1. PropertySettled(i, p) /\ Typed
    BY <1>1 DEF IInv, ImageSettled
  <2>2. Mine(i, p) \in SUBSET Nat
    <3>1. At("property", p) \subseteq 1..Len(read)
      BY <2>1, Positions
    <3> QED
      BY <3>1 DEF Mine
  <2>3. ASSUME NEW e \in Mine(i, p), \A j \in Mine(i, p) : j <= e
        PROVE  Latest(Mine(i, p)) = e
    BY <2>2, <2>3, LatestIs
  <2> QED
    BY <2>1, <2>3 DEF PropertySettled
<1>2. IInv => ImagesKeepTheirProperties
  BY <1>1 DEF IInv, ImageSettled, ImagesKeepTheirProperties
<1> QED
  BY <1>2, Inductive, PTL
=============================================================================
