---------------------------- MODULE ClientProofs ----------------------------
(***************************************************************************)
(* Proofs about Client, for any number of tabs, users, sessions, slots,    *)
(* rows and inputs.                                                        *)
(*                                                                         *)
(* The inductive invariant has two layers.  Sound holds of every instance: *)
(* what each fetch is at each of its stages, who waits for it, and that    *)
(* every row something refers to exists.  Honest is about whose session    *)
(* and whose rows the fetches and the tabs are about, and needs a user who *)
(* waits for the answer of a sign-in or a sign-out: AskedOnce.             *)
(***************************************************************************)
EXTENDS Client, FiniteSetTheorems, TLAPS

-----------------------------------------------------------------------------
(* Types. *)

Tokens == SessionIDs \cup {NoToken}
People == Users \cup {Nobody}

AppOps  == {"Me", "SignIn", "SignOut"}
PageOps == {"List", "Stages", "Create", "Patch"}

Fetches ==
  [at : {"idle", "sent", "served", "body"}, op : AppOps \cup PageOps \cup {"none"},
   tab : Tabs \cup {NoTab}, reader : {"nobody", "app", "page"}, token : Tokens,
   user : People, number : 0..MaxRows, item : Items, values : Values,
   edited : SUBSET Fields, ok : BOOLEAN, session : Tokens, who : People,
   rows : Shown]

ApplicationRows == [userID : Users, author : Users, values : Values]
StageRows       == [applicationID : Numbers, author : Users, values : Values]
Edits == [number : Numbers, user : Users, values : Values, edited : SUBSET Fields]

-----------------------------------------------------------------------------
(* Sound. *)

\* The stages of a fetch: who waits for it, and what it is bound to carry.
Shaped(f) ==
  /\ f.reader # "nobody" => f.at # "idle" /\ f.tab \in Tabs
  /\ f.reader = "app" => f.op \in AppOps
  /\ f.reader = "page" => f.op \in PageOps
  /\ f.at \in {"served", "body"} => f.reader # "nobody"
  /\ f.at = "body" => f.op = "SignIn" /\ f.ok = TRUE
  /\ f.at = "sent" /\ f.op \in {"SignIn", "Create", "Patch"} => f.user \in Users
  /\ f.at \in {"served", "body"} /\ f.op \in {"Me", "SignIn"} /\ f.ok = TRUE
       => f.who \in Users

FetchKnown(f) ==
  /\ f.op = "Patch" => Exists(f.item)
  /\ \A i \in DOMAIN f.rows : Exists(i)

Routed(x) == x.user = Nobody <=> x.view = "public"

TabKnown(x) ==
  /\ \A i \in DOMAIN x.seen : Exists(i)
  /\ x.item.number # 0 => Exists(x.item)

\* F may be what the slots hold.
Fetching(F) ==
  /\ F \in [Slots -> Fetches]
  /\ \A s \in Slots : Shaped(F[s]) /\ FetchKnown(F[s])

\* x may be what a tab is.
TabFine(x) == x \in TabStates /\ Routed(x) /\ TabKnown(x)

SessionsOK ==
  /\ owner \in [SessionIDs -> People]
  /\ live \subseteq SessionIDs
  /\ \A id \in live : owner[id] # Nobody

TablesOK ==
  /\ \E n \in 0..MaxRows : applications \in [1..n -> ApplicationRows]
  /\ \E n \in 0..MaxRows : stages \in [1..n -> StageRows]
  /\ updates \subseteq Edits
  /\ \A u \in updates : Owns(u.user, u.number)

BrowserOK ==
  /\ token \in Tokens
  /\ tab \in [Tabs -> TabStates]
  /\ \A t \in Tabs : Routed(tab[t]) /\ TabKnown(tab[t])
  /\ Fetching(fetch)
  /\ \A s \in Slots : fetch[s].reader = "page" => tab[fetch[s].tab].user # Nobody

Sound == SessionsOK /\ TablesOK /\ BrowserOK

-----------------------------------------------------------------------------
(* Honest. *)

AskedOnce == ~(Sessions \subseteq Repeated)

ItemOwned(u, i) ==
  Owns(u, IF i.kind = "application" THEN i.number ELSE stages[i.number].applicationID)

Holds(id, u) == id \in SessionIDs /\ owner[id] = u

\* A tab that is x shows its user what is the user's.
Sees(x) ==
  /\ x.user # Nobody => Holds(x.authToken, x.user)
  /\ x.number # 0 => Owns(x.user, x.number)
  /\ \A i \in DOMAIN x.seen :
       ItemOwned(x.user, i) /\ (x.view = "dashboard" => i.kind = "application")

\* What a tab that is x waits for in f.
ReadsMe(f, x) ==
  /\ x.user = Nobody /\ x.page = "signedInMain"
  /\ f.at = "sent" => f.token = x.authToken
  /\ f.at = "served" /\ f.ok = TRUE => Holds(x.authToken, f.who)

ReadsSignIn(f, x) ==
  /\ x.user = Nobody
  /\ f.at = "served" /\ f.ok = TRUE => Holds(f.session, f.who)
  /\ f.at = "body" => Holds(x.authToken, f.who)

ReadsList(f, x) ==
  /\ f.at = "sent" => f.user = x.user
  /\ \A i \in DOMAIN f.rows : i.kind = "application" /\ ItemOwned(x.user, i)

ReadsStages(f, x) ==
  /\ x.view = "application"
  /\ f.at = "sent" => f.number = x.number
  /\ \A i \in DOMAIN f.rows : i.kind = "stage" /\ ItemOwned(x.user, i)

Reads(f, x) ==
  /\ f.op = "Me" => ReadsMe(f, x)
  /\ f.op = "SignIn" => ReadsSignIn(f, x)
  /\ f.op = "SignOut" => x.user # Nobody
  /\ f.op = "List" => ReadsList(f, x)
  /\ f.op = "Stages" => ReadsStages(f, x)

\* App waits for one fetch of a tab at a time.
OneApp(F) ==
  \A s \in Slots, r \in Slots :
    F[s].reader = "app" /\ F[r].reader = "app" /\ F[s].tab = F[r].tab => s = r

Honest ==
  /\ \A t \in Tabs : Sees(tab[t])
  /\ \A s \in Slots :
       fetch[s].reader # "nobody" => Reads(fetch[s], tab[fetch[s].tab])
  /\ OneApp(fetch)

-----------------------------------------------------------------------------
(* Records. *)

\* What a page may hold of rows is a function from items to values.
LEMMA ShownIs ==
  ASSUME NEW h \in Shown
  PROVE  /\ DOMAIN h \subseteq Items
         /\ \A i \in DOMAIN h : h[i] \in Values
  BY DEF Shown

LEMMA IsShown ==
  ASSUME NEW I \in SUBSET Items, NEW h \in [I -> Values]
  PROVE  h \in Shown
  BY DEF Shown

LEMMA Nothings ==
  /\ Nobody \in People /\ NoToken \in Tokens /\ NoTab \in Tabs \cup {NoTab}
  /\ Nobody \notin Users
  /\ Blank \in Values
  /\ \A n \in 0..MaxRows : Application(n) \in Items /\ Stage(n) \in Items
  /\ 0 \in 0..MaxRows
  /\ Application(0) \in Items
  /\ Nothing \in Shown /\ DOMAIN Nothing = {}
<1>1. Nothing \in [{} -> Values] /\ DOMAIN Nothing = {}
  BY DEF Nothing
<1>2. Nothing \in Shown
  BY <1>1, IsShown, {} \in SUBSET Items
<1>3. Blank \in Values
  BY ClientAssumption DEF Blank, Values
<1>4. \A n \in 0..MaxRows : Application(n) \in Items /\ Stage(n) \in Items
  BY DEF Application, Stage, Items
<1>5. 0 \in 0..MaxRows
  BY ClientAssumption
<1> QED
  BY <1>1, <1>2, <1>3, <1>4, <1>5, ClientAssumption DEF Nobody, People, Tokens

\* The fields of a fetch and of a tab, each with its type.
LEMMA FetchFields ==
  ASSUME NEW f \in Fetches
  PROVE  /\ f.at \in {"idle", "sent", "served", "body"}
         /\ f.op \in AppOps \cup PageOps \cup {"none"}
         /\ f.tab \in Tabs \cup {NoTab} /\ f.reader \in {"nobody", "app", "page"}
         /\ f.token \in Tokens /\ f.user \in People /\ f.number \in 0..MaxRows
         /\ f.item \in Items /\ f.values \in Values /\ f.edited \in SUBSET Fields
         /\ f.ok \in BOOLEAN /\ f.session \in Tokens /\ f.who \in People
         /\ f.rows \in Shown
  BY DEF Fetches

LEMMA TabFields ==
  ASSUME NEW x \in TabStates
  PROVE  /\ x.view \in {"public", "dashboard", "application", "form"}
         /\ x.page \in {"signIn", "signedInMain"} /\ x.authToken \in Tokens
         /\ x.user \in People /\ x.number \in 0..MaxRows
         /\ x.ready \in SUBSET {"List", "Stages"} /\ x.seen \in Shown
         /\ x.item \in Items /\ x.values \in Values /\ x.edited \in SUBSET Fields
  BY DEF TabStates, Tokens, People

LEMMA IdleFields ==
  /\ Idle \in Fetches
  /\ Idle.at = "idle" /\ Idle.op = "none" /\ Idle.tab = NoTab
  /\ Idle.reader = "nobody" /\ Idle.ok = FALSE /\ Idle.rows = Nothing
  BY Nothings DEF Idle, Fetches

LEMMA IdleFine == Shaped(Idle) /\ FetchKnown(Idle)
  BY IdleFields, Nothings DEF Shaped, FetchKnown

PublicOf(authToken, page) ==
  [Public EXCEPT !.authToken = authToken, !.page = page]

LEMMA PublicFields ==
  ASSUME NEW authToken \in Tokens, NEW page \in {"signIn", "signedInMain"},
         NEW x, x = PublicOf(authToken, page)
  PROVE  /\ x \in TabStates
         /\ x.view = "public" /\ x.page = page /\ x.authToken = authToken
         /\ x.user = Nobody /\ x.number = 0 /\ x.seen = Nothing
         /\ x.item = Application(0)
  BY Nothings DEF PublicOf, Public, TabStates, Tokens, People

LEMMA PublicAlone == 
  /\ Public \in TabStates
  /\ Public.view = "public" /\ Public.user = Nobody /\ Public.number = 0
  /\ Public.seen = Nothing /\ Public.item = Application(0)
  BY Nothings DEF Public, TabStates, Tokens, People

\* A fetch nobody waits for any more.
LEMMA Unread ==
  ASSUME NEW f \in Fetches, NEW g, g = [f EXCEPT !.tab = NoTab, !.reader = "nobody"]
  PROVE  /\ g \in Fetches
         /\ g.tab = NoTab /\ g.reader = "nobody" /\ g.at = f.at /\ g.op = f.op
         /\ g.user = f.user /\ g.item = f.item /\ g.rows = f.rows /\ g.ok = f.ok
         /\ g.who = f.who
  BY DEF Fetches

\* The dashboard and the page of application n, as ToDashboard and ToApplication
\* leave the tab.
PageOf(fields, v, n) ==
  [fields EXCEPT !.view = v, !.number = n, !.ready = {}, !.seen = Nothing,
                 !.item = Application(0), !.values = Blank, !.edited = {}]

LEMMA FreshPage ==
  ASSUME NEW fields \in TabStates, NEW v \in {"dashboard", "application"},
         NEW n \in 0..MaxRows,
         NEW x, x = PageOf(fields, v, n)
  PROVE  /\ x \in TabStates
         /\ x.view = v /\ x.number = n /\ x.seen = Nothing
         /\ x.item = Application(0) /\ x.user = fields.user
         /\ x.authToken = fields.authToken /\ x.page = fields.page
  BY Nothings DEF PageOf, TabStates

\* A request of tab t as it is sent.
Sending(r, t, op, reader) ==
  /\ r \in Fetches
  /\ r.at = "sent" /\ r.op = op /\ r.tab = t /\ r.reader = reader
  /\ DOMAIN r.rows = {}

LEMMA PlainRequest ==
  ASSUME token \in Tokens, NEW t \in Tabs, NEW op \in AppOps \cup PageOps,
         NEW reader \in {"app", "page"}, NEW r, r = Request(t, op, reader)
  PROVE  Sending(r, t, op, reader) /\ r.token = token
  BY Nothings DEF Request, Idle, Sending, Fetches

LEMMA ListRequest ==
  ASSUME token \in Tokens, NEW t \in Tabs, NEW u \in People, NEW r, r = List(t, u)
  PROVE  Sending(r, t, "List", "page") /\ r.user = u
  BY Nothings DEF List, Request, Idle, Sending, Fetches, PageOps

LEMMA StagesRequest ==
  ASSUME token \in Tokens, NEW t \in Tabs, NEW n \in 0..MaxRows, NEW r,
         r = ListStages(t, n)
  PROVE  Sending(r, t, "Stages", "page") /\ r.number = n
  BY Nothings DEF ListStages, Request, Idle, Sending, Fetches, PageOps

LEMMA SignInRequest ==
  ASSUME token \in Tokens, NEW t \in Tabs, NEW u \in Users, NEW r,
         r = [Request(t, "SignIn", "app") EXCEPT !.user = u, !.token = NoToken]
  PROVE  Sending(r, t, "SignIn", "app") /\ r.user = u
  BY Nothings DEF Request, Idle, Sending, Fetches, AppOps, People

SaveOf(t, op, form, values) ==
  [Request(t, op, "page")
     EXCEPT !.user = form.user, !.number = form.number, !.item = form.item,
            !.values = values, !.edited = form.edited]

LEMMA SaveRequest ==
  ASSUME token \in Tokens, NEW t \in Tabs, NEW op \in Saves, NEW form \in TabStates,
         NEW values \in Values, NEW r, r = SaveOf(t, op, form, values)
  PROVE  Sending(r, t, op, "page") /\ r.user = form.user /\ r.item = form.item
<1>1. /\ form.user \in People /\ form.number \in 0..MaxRows /\ form.item \in Items
      /\ form.edited \in SUBSET Fields
  BY TabFields
<1>2. op \in PageOps
  BY DEF PageOps, Saves
<1>3. PICK q : q = Request(t, op, "page")
  OBVIOUS
<1>4. Sending(q, t, op, "page")
  BY <1>2, <1>3, PlainRequest
<1>5. PICK g : g = [q EXCEPT !.user = form.user, !.number = form.number,
                             !.item = form.item, !.values = values,
                             !.edited = form.edited]
  OBVIOUS
<1>6. g \in Fetches /\ g.user = form.user /\ g.item = form.item
  BY <1>1, <1>4, <1>5 DEF Sending, Fetches
<1>7. /\ g.at = q.at /\ g.op = q.op /\ g.tab = q.tab /\ g.reader = q.reader
      /\ g.rows = q.rows
  BY <1>4, <1>5 DEF Sending, Fetches
<1>8. r = g
  BY <1>3, <1>5 DEF SaveOf
<1> QED
  BY <1>4, <1>6, <1>7, <1>8 DEF Sending

LEMMA SendingFine ==
  ASSUME NEW t \in Tabs, NEW op, NEW reader, NEW r, Sending(r, t, op, reader),
         \/ reader = "app" /\ op \in AppOps
         \/ reader = "page" /\ op \in PageOps,
         op \in {"SignIn", "Create", "Patch"} => r.user \in Users,
         op = "Patch" => Exists(r.item)
  PROVE  r \in Fetches /\ Shaped(r) /\ FetchKnown(r)
  BY DEF Sending, Shaped, FetchKnown

-----------------------------------------------------------------------------
(* What the operations do to the slots. *)

\* G keeps a fetch of F or lets nobody wait for it.
Fewer(F, G) == \A s \in Slots : G[s] = F[s] \/ G[s].reader = "nobody"

LEMMA UnreadFine ==
  ASSUME NEW f \in Fetches, f.at = "sent", Shaped(f), FetchKnown(f),
         NEW g, g = [f EXCEPT !.tab = NoTab, !.reader = "nobody"]
  PROVE  g \in Fetches /\ Shaped(g) /\ FetchKnown(g) /\ g.reader = "nobody"
<1>1. /\ g \in Fetches
      /\ g.tab = NoTab /\ g.reader = "nobody" /\ g.at = f.at /\ g.op = f.op
      /\ g.user = f.user /\ g.item = f.item /\ g.rows = f.rows /\ g.ok = f.ok
      /\ g.who = f.who
  BY Unread
<1>2. Shaped(g)
  BY <1>1 DEF Shaped
<1>3. FetchKnown(g)
  BY <1>1 DEF FetchKnown
<1> QED
  BY <1>1, <1>2, <1>3

LEMMA Unmounted ==
  ASSUME NEW F, Fetching(F), NEW t \in Tabs, NEW G, G = Unmount(t, F)
  PROVE  /\ Fetching(G)
         /\ Fewer(F, G)
         /\ \A s \in Slots : G[s].reader = "page" => G[s].tab # t
<1> SUFFICES ASSUME NEW s \in Slots
             PROVE  /\ G[s] \in Fetches /\ Shaped(G[s]) /\ FetchKnown(G[s])
                    /\ G[s] = F[s] \/ G[s].reader = "nobody"
                    /\ G[s].reader = "page" => G[s].tab # t
  <2>1. G = [s \in Slots |-> G[s]]
    BY DEF Unmount
  <2> QED
    BY <2>1 DEF Fetching, Fewer
<1>1. F[s] \in Fetches /\ Shaped(F[s]) /\ FetchKnown(F[s])
  BY DEF Fetching
<1>2. \/ (F[s].tab # t \/ F[s].reader # "page") /\ G[s] = F[s]
      \/ F[s].at = "sent" /\ G[s] = [F[s] EXCEPT !.tab = NoTab, !.reader = "nobody"]
      \/ G[s] = Idle
  BY DEF Unmount
<1>3. CASE (F[s].tab # t \/ F[s].reader # "page") /\ G[s] = F[s]
  BY <1>1, <1>3
<1>4. CASE F[s].at = "sent" /\ G[s] = [F[s] EXCEPT !.tab = NoTab, !.reader = "nobody"]
  <2>1. /\ G[s] \in Fetches /\ Shaped(G[s]) /\ FetchKnown(G[s])
        /\ G[s].reader = "nobody"
    BY <1>1, <1>4, UnreadFine
  <2> QED
    BY <2>1
<1>5. CASE G[s] = Idle
  BY <1>5, IdleFields, IdleFine
<1> QED
  BY <1>2, <1>3, <1>4, <1>5

LEMMA Abandoned ==
  ASSUME Fetching(fetch), NEW t \in Tabs, NEW G, G = Abandon(t)
  PROVE  /\ Fetching(G)
         /\ Fewer(fetch, G)
         /\ \A s \in Slots : G[s].reader # "nobody" => G[s].tab # t
<1> SUFFICES ASSUME NEW s \in Slots
             PROVE  /\ G[s] \in Fetches /\ Shaped(G[s]) /\ FetchKnown(G[s])
                    /\ G[s] = fetch[s] \/ G[s].reader = "nobody"
                    /\ G[s].reader # "nobody" => G[s].tab # t
  <2>1. G = [s \in Slots |-> G[s]]
    BY DEF Abandon
  <2> QED
    BY <2>1 DEF Fetching, Fewer
<1>1. fetch[s] \in Fetches /\ Shaped(fetch[s]) /\ FetchKnown(fetch[s])
  BY DEF Fetching
<1>2. \/ fetch[s].tab # t /\ G[s] = fetch[s]
      \/ /\ fetch[s].at = "sent"
         /\ G[s] = [fetch[s] EXCEPT !.tab = NoTab, !.reader = "nobody"]
      \/ G[s] = Idle
  BY DEF Abandon
<1>3. CASE fetch[s].tab # t /\ G[s] = fetch[s]
  BY <1>1, <1>3
<1>4. CASE /\ fetch[s].at = "sent"
           /\ G[s] = [fetch[s] EXCEPT !.tab = NoTab, !.reader = "nobody"]
  <2>1. /\ G[s] \in Fetches /\ Shaped(G[s]) /\ FetchKnown(G[s])
        /\ G[s].reader = "nobody"
    BY <1>1, <1>4, UnreadFine
  <2> QED
    BY <2>1
<1>5. CASE G[s] = Idle
  BY <1>5, IdleFields, IdleFine
<1> QED
  BY <1>2, <1>3, <1>4, <1>5

LEMMA Cleared ==
  ASSUME NEW F, Fetching(F), NEW s \in Slots, NEW G, G = [F EXCEPT ![s] = Idle]
  PROVE  /\ Fetching(G) /\ Fewer(F, G)
         /\ G[s] = Idle
         /\ \A r \in Slots \ {s} : G[r] = F[r]
<1>1. Idle \in Fetches /\ Shaped(Idle) /\ FetchKnown(Idle) /\ Idle.reader = "nobody"
  BY IdleFields, IdleFine
<1>2. G \in [Slots -> Fetches]
  BY <1>1 DEF Fetching
<1>3. \A r \in Slots : G[r] = IF r = s THEN Idle ELSE F[r]
  BY DEF Fetching
<1> QED
  BY <1>1, <1>2, <1>3 DEF Fetching, Fewer

\* Send takes a free slot, whichever it is.
LEMMA SentTo ==
  ASSUME NEW F, Fetching(F), Free(F) # {},
         NEW r \in Fetches, Shaped(r), FetchKnown(r), NEW G, G = Send(F, r)
  PROVE  /\ Fetching(G)
         /\ \E k \in Free(F) :
              /\ Free(G) = IF r.at = "idle" THEN Free(F) ELSE Free(F) \ {k}
              /\ G[k] = r
              /\ \A s \in Slots \ {k} : G[s] = F[s]
<1>1. PICK k \in Free(F) : k = CHOOSE s \in Free(F) : TRUE
  OBVIOUS
<1>2. k \in Slots /\ F[k].at = "idle"
  BY DEF Free
<1>3. G = [F EXCEPT ![k] = r]
  BY <1>1 DEF Send
<1>4. G \in [Slots -> Fetches]
  BY <1>2, <1>3 DEF Fetching
<1>5. \A s \in Slots : G[s] = IF s = k THEN r ELSE F[s]
  BY <1>2, <1>3 DEF Fetching
<1>6. Fetching(G)
  BY <1>4, <1>5 DEF Fetching
<1>7. Free(G) = IF r.at = "idle" THEN Free(F) ELSE Free(F) \ {k}
  BY <1>2, <1>5 DEF Free
<1> QED
  BY <1>2, <1>5, <1>6, <1>7

LEMMA SentTwo ==
  ASSUME NEW F, Fetching(F), Cardinality(Free(F)) >= 2,
         NEW r1 \in Fetches, Shaped(r1), FetchKnown(r1),
         NEW r2 \in Fetches, Shaped(r2), FetchKnown(r2),
         NEW G, G = Send(Send(F, r1), r2)
  PROVE  /\ Fetching(G)
         /\ \A s \in Slots : G[s] = F[s] \/ G[s] = r1 \/ G[s] = r2
<1>1. Free(F) # {}
  BY FS_EmptySet
<1>2. PICK H : H = Send(F, r1)
  OBVIOUS
<1>3. Fetching(H)
  BY <1>1, <1>2, SentTo
<1>4. PICK k \in Free(F) : /\ Free(H) = IF r1.at = "idle" THEN Free(F) ELSE Free(F) \ {k}
                           /\ H[k] = r1
                           /\ \A s \in Slots \ {k} : H[s] = F[s]
  BY <1>1, <1>2, SentTo
<1>5. Free(H) # {}
  <2>1. SUFFICES ASSUME Free(H) = {} PROVE FALSE
    OBVIOUS
  <2>2. Free(F) = {k}
    BY <1>1, <1>4, <2>1
  <2>3. Cardinality(Free(F)) = 1
    BY <2>2, FS_Singleton
  <2> QED
    BY <2>3
<1>6. G = Send(H, r2)
  BY <1>2
<1>7. Fetching(G)
  BY <1>3, <1>5, <1>6, SentTo
<1>8. PICK j \in Free(H) : G[j] = r2 /\ \A s \in Slots \ {j} : G[s] = H[s]
  BY <1>3, <1>5, <1>6, SentTo
<1> QED
  BY <1>4, <1>7, <1>8

-----------------------------------------------------------------------------
(* Steps of the browser: tab t becomes x, and the slots F. *)

Becomes(t, x, F) ==
  /\ \A r \in Tabs : tab'[r] = IF r = t THEN x ELSE tab[r]
  /\ tab' \in [Tabs -> TabStates]
  /\ fetch' = F
  /\ UNCHANGED server

\* What the step changes is what tab t waits for.
Only(t, F) ==
  \A s \in Slots : F[s].reader # "nobody" /\ F[s].tab # t => F[s] = fetch[s]

LEMMA TablesKeep ==
  ASSUME UNCHANGED server, NEW F, NEW x
  PROVE  /\ Fetching(F) => Fetching(F)'
         /\ TabKnown(x) => TabKnown(x)'
  BY DEF server, Fetching, FetchKnown, TabKnown, Exists

LEMMA ServerKeeps ==
  ASSUME SessionsOK, TablesOK, UNCHANGED server
  PROVE  SessionsOK' /\ TablesOK'
  BY DEF server, SessionsOK, TablesOK, Owns

LEMMA FetchingMoves ==
  ASSUME NEW F, Fetching(F)', fetch' = F
  PROVE  Fetching(fetch)'
  BY DEF Fetching, FetchKnown, Exists

LEMMA BrowserStep ==
  ASSUME Sound, token' \in Tokens, NEW t \in Tabs,
         NEW x, TabFine(x), NEW F, Fetching(F), Becomes(t, x, F), Only(t, F),
         x.user = Nobody => \A s \in Slots : F[s].reader = "page" => F[s].tab # t
  PROVE  Sound'
<1> USE DEF Sound, Becomes
<1>1. SessionsOK' /\ TablesOK'
  BY ServerKeeps
<1>2. Fetching(fetch)'
  BY TablesKeep, FetchingMoves
<1>3. ASSUME NEW r \in Tabs PROVE Routed(tab'[r]) /\ TabKnown(tab[r])'
  <2>1. PICK y : y = tab'[r]
    OBVIOUS
  <2>2. Routed(y) /\ TabKnown(y)
    BY <2>1 DEF BrowserOK, TabFine
  <2>3. TabKnown(y)'
    BY <2>2, TablesKeep
  <2>4. TabKnown(tab[r])'
    BY <2>1, <2>3 DEF TabKnown, Exists
  <2> QED
    BY <2>1, <2>2, <2>4
<1>4. ASSUME NEW s \in Slots, F[s].reader = "page"
      PROVE  tab'[F[s].tab].user # Nobody
  <2>1. F[s].tab \in Tabs
    BY <1>4 DEF Fetching, Shaped
  <2>2. CASE F[s].tab = t
    BY <1>4, <2>1, <2>2
  <2>3. CASE F[s].tab # t
    <3>1. F[s] = fetch[s]
      BY <1>4, <2>3 DEF Only
    <3>2. tab[F[s].tab].user # Nobody
      BY <1>4, <3>1 DEF BrowserOK
    <3> QED
      BY <2>1, <2>3, <3>2
  <2> QED
    BY <2>2, <2>3
<1>5. \A r \in Tabs : Routed(tab'[r]) /\ TabKnown(tab[r])'
  BY <1>3
<1>6. \A s \in Slots : fetch'[s].reader = "page" => tab'[fetch'[s].tab].user # Nobody
  BY <1>4
<1>7. BrowserOK'
  BY <1>2, <1>5, <1>6 DEF BrowserOK
<1> QED
  BY <1>1, <1>7

\* Tab t comes to page v, number n, with F under way: it is x then, and the slots
\* hold G, which is F with the fetches of the page.
Arrives(t, fields, v, n, F, x, G) ==
  /\ Becomes(t, x, G) /\ Fetching(G) /\ TabFine(x)
  /\ x.view = v /\ x.number = n /\ x.seen = Nothing
  /\ x.user = fields.user /\ x.authToken = fields.authToken
  /\ \A s \in Slots :
       \/ G[s] = F[s]
       \/ Sending(G[s], t, "List", "page") /\ G[s].user = fields.user
       \/ v = "application" /\ Sending(G[s], t, "Stages", "page") /\ G[s].number = n

LEMMA TabMoves ==
  ASSUME tab \in [Tabs -> TabStates], NEW t \in Tabs, NEW x \in TabStates,
         NEW F, tab' = [tab EXCEPT ![t] = x], fetch' = F, UNCHANGED server
  PROVE  Becomes(t, x, F)
  BY DEF Becomes

LEMMA Known0 ==
  ASSUME NEW x, x.seen = Nothing, x.item = Application(0)
  PROVE  TabKnown(x)
<1>1. DOMAIN x.seen = {} /\ x.item.number = 0
  BY Nothings DEF Application
<1> QED
  BY <1>1 DEF TabKnown

LEMMA ListFine ==
  ASSUME token \in Tokens, NEW t \in Tabs, NEW u \in Users, NEW r, r = List(t, u)
  PROVE  /\ r \in Fetches /\ Shaped(r) /\ FetchKnown(r)
         /\ Sending(r, t, "List", "page") /\ r.user = u
<1>1. Sending(r, t, "List", "page") /\ r.user = u
  BY ListRequest DEF People
<1> QED
  BY <1>1, SendingFine DEF PageOps

LEMMA StagesFine ==
  ASSUME token \in Tokens, NEW t \in Tabs, NEW n \in 0..MaxRows, NEW r,
         r = ListStages(t, n)
  PROVE  /\ r \in Fetches /\ Shaped(r) /\ FetchKnown(r)
         /\ Sending(r, t, "Stages", "page") /\ r.number = n
<1>1. Sending(r, t, "Stages", "page") /\ r.number = n
  BY StagesRequest
<1> QED
  BY <1>1, SendingFine DEF PageOps

LEMMA AtDashboard ==
  ASSUME tab \in [Tabs -> TabStates], token \in Tokens, NEW t \in Tabs,
         NEW fields \in TabStates, fields.user # Nobody, NEW F, Fetching(F),
         ToDashboard(t, fields, F), UNCHANGED server
  PROVE  \E x, G : Arrives(t, fields, "dashboard", 0, F, x, G)
<1>1. PICK x : x = PageOf(fields, "dashboard", 0)
  OBVIOUS
<1>2. PICK r : r = List(t, fields.user)
  OBVIOUS
<1>3. PICK G : G = Send(F, r)
  OBVIOUS
<1>4. tab' = [tab EXCEPT ![t] = x] /\ fetch' = G /\ Free(F) # {}
  BY <1>1, <1>2, <1>3 DEF ToDashboard, PageOf
<1>5. /\ x \in TabStates
      /\ x.view = "dashboard" /\ x.number = 0 /\ x.seen = Nothing
      /\ x.item = Application(0) /\ x.user = fields.user
      /\ x.authToken = fields.authToken
  BY <1>1, FreshPage, Nothings
<1>6. fields.user \in Users
  BY TabFields DEF People
<1>7. /\ r \in Fetches /\ Shaped(r) /\ FetchKnown(r)
      /\ Sending(r, t, "List", "page") /\ r.user = fields.user
  BY <1>2, <1>6, ListFine
<1>8. Fetching(G) /\ \A s \in Slots : G[s] = F[s] \/ G[s] = r
  BY <1>3, <1>4, <1>7, SentTo
<1>9. Becomes(t, x, G)
  BY <1>4, <1>5, TabMoves
<1>10. TabFine(x)
  BY <1>5, Known0 DEF TabFine, Routed
<1> QED
  BY <1>5, <1>7, <1>8, <1>9, <1>10 DEF Arrives

LEMMA AtApplication ==
  ASSUME tab \in [Tabs -> TabStates], token \in Tokens, NEW t \in Tabs,
         NEW fields \in TabStates, fields.user # Nobody, NEW n \in 0..MaxRows,
         NEW F, Fetching(F), ToApplication(t, fields, n, F), UNCHANGED server
  PROVE  \E x, G : Arrives(t, fields, "application", n, F, x, G)
<1>1. PICK x : x = PageOf(fields, "application", n)
  OBVIOUS
<1>2. PICK r1, r2 : r1 = List(t, fields.user) /\ r2 = ListStages(t, n)
  OBVIOUS
<1>3. PICK G : G = Send(Send(F, r1), r2)
  OBVIOUS
<1>4. tab' = [tab EXCEPT ![t] = x] /\ fetch' = G /\ Cardinality(Free(F)) >= 2
  BY <1>1, <1>2, <1>3 DEF ToApplication, PageOf
<1>5. /\ x \in TabStates
      /\ x.view = "application" /\ x.number = n /\ x.seen = Nothing
      /\ x.item = Application(0) /\ x.user = fields.user
      /\ x.authToken = fields.authToken
  BY <1>1, FreshPage
<1>6. fields.user \in Users
  BY TabFields DEF People
<1>7. /\ r1 \in Fetches /\ Shaped(r1) /\ FetchKnown(r1)
      /\ Sending(r1, t, "List", "page") /\ r1.user = fields.user
  BY <1>2, <1>6, ListFine
<1>8. /\ r2 \in Fetches /\ Shaped(r2) /\ FetchKnown(r2)
      /\ Sending(r2, t, "Stages", "page") /\ r2.number = n
  BY <1>2, StagesFine
<1>9. Fetching(G) /\ \A s \in Slots : G[s] = F[s] \/ G[s] = r1 \/ G[s] = r2
  BY <1>3, <1>4, <1>7, <1>8, SentTwo
<1>10. Becomes(t, x, G)
  BY <1>4, <1>5, TabMoves
<1>11. TabFine(x)
  BY <1>5, Known0 DEF TabFine, Routed
<1> QED
  BY <1>5, <1>7, <1>8, <1>9, <1>10, <1>11 DEF Arrives

LEMMA ArrivesSound ==
  ASSUME Sound, token' \in Tokens, NEW t \in Tabs, NEW fields, fields.user # Nobody,
         NEW v, NEW n, NEW F, Only(t, F), NEW x, NEW G,
         Arrives(t, fields, v, n, F, x, G)
  PROVE  Sound'
<1>1. Only(t, G)
  BY DEF Only, Arrives, Sending
<1> QED
  BY <1>1, BrowserStep DEF Arrives

\* F is what is left of the fetches of tab t.
LEMMA FewerOnly ==
  ASSUME NEW t, NEW F, Fewer(fetch, F)
  PROVE  Only(t, F)
  BY DEF Fewer, Only

-----------------------------------------------------------------------------
(* What each action of a tab does, in these terms. *)

\* G is F with r in a slot that was free.
Asks(r, F, G) ==
  \E k \in Slots : F[k].at = "idle" /\ G[k] = r /\ \A s \in Slots \ {k} : G[s] = F[s]

\* Loaded, the tab waits for the answer to users/me at most.
Loads(t, x, H, G) ==
  /\ Becomes(t, x, G) /\ Fetching(G) /\ TabFine(x)
  /\ x.user = Nobody /\ x.number = 0 /\ x.seen = Nothing
  /\ Fewer(fetch, H) /\ Fetching(H)
  /\ \A s \in Slots : H[s].reader # "nobody" => H[s].tab # t
  /\ \/ G = H
     \/ /\ x.page = "signedInMain"
        /\ \E r : Sending(r, t, "Me", "app") /\ r.token = x.authToken /\ Asks(r, H, G)

LEMMA LoadShape ==
  ASSUME Sound, NEW t \in Tabs, Load(t)
  PROVE  token' \in Tokens /\ \E x, H, G : Loads(t, x, H, G)
<1> DEFINE page == IF token = NoToken THEN "signIn" ELSE "signedInMain"
<1>1. token \in Tokens /\ tab \in [Tabs -> TabStates] /\ Fetching(fetch)
  BY DEF Sound, BrowserOK
<1>2. PICK x : x = PublicOf(token, page)
  OBVIOUS
<1>3. PICK H : H = Abandon(t)
  OBVIOUS
<1>4. PICK r : r = Request(t, "Me", "app")
  OBVIOUS
<1>5. PICK G : G = fetch'
  OBVIOUS
<1>6. /\ tab' = [tab EXCEPT ![t] = x]
      /\ \/ token = NoToken /\ G = H
         \/ token # NoToken /\ Free(H) # {} /\ G = Send(H, r)
      /\ token' = token /\ UNCHANGED server
  BY <1>2, <1>3, <1>4, <1>5 DEF Load, LoadAs, PublicOf
<1>7. /\ x \in TabStates /\ x.view = "public" /\ x.page = page
      /\ x.authToken = token /\ x.user = Nobody /\ x.number = 0
      /\ x.seen = Nothing /\ x.item = Application(0)
  BY <1>1, <1>2, PublicFields
<1>8. /\ Fetching(H) /\ Fewer(fetch, H)
      /\ \A s \in Slots : H[s].reader # "nobody" => H[s].tab # t
  BY <1>1, <1>3, Abandoned
<1>9. /\ Sending(r, t, "Me", "app") /\ r.token = token
      /\ r \in Fetches /\ Shaped(r) /\ FetchKnown(r)
  <2>1. Sending(r, t, "Me", "app") /\ r.token = token
    BY <1>1, <1>4, PlainRequest DEF AppOps
  <2> QED
    BY <2>1, SendingFine DEF AppOps
<1>10. Becomes(t, x, G)
  BY <1>1, <1>5, <1>6, <1>7, TabMoves
<1>11. TabFine(x)
  BY <1>7, Known0 DEF TabFine, Routed
<1>12. Fetching(G) /\ (G = H \/ (x.page = "signedInMain" /\ Asks(r, H, G)))
  <2>1. CASE G = H
    BY <2>1, <1>8
  <2>2. CASE token # NoToken /\ Free(H) # {} /\ G = Send(H, r)
    <3>1. /\ Fetching(G)
          /\ \E k \in Free(H) : G[k] = r /\ \A s \in Slots \ {k} : G[s] = H[s]
      BY <1>8, <1>9, <2>2, SentTo
    <3>2. Asks(r, H, G)
      BY <3>1 DEF Asks, Free
    <3> QED
      BY <3>1, <3>2, <2>2, <1>7
  <2> QED
    BY <1>6, <2>1, <2>2
<1>13. Loads(t, x, H, G)
  BY <1>7, <1>8, <1>9, <1>10, <1>11, <1>12 DEF Loads
<1> QED
  BY <1>1, <1>6, <1>13

\* Tab t stays as it is and App sends r.
AppAsks(t, op, r, G) ==
  /\ Becomes(t, tab[t], G) /\ Fetching(G) /\ TabFine(tab[t])
  /\ Sending(r, t, op, "app") /\ Asks(r, fetch, G)

LEMMA AppAsksShape ==
  ASSUME Sound, NEW t \in Tabs, NEW op \in AppOps, NEW r, Sending(r, t, op, "app"),
         op = "SignIn" => r.user \in Users,
         Free(fetch) # {}, fetch' = Send(fetch, r), UNCHANGED <<browser, server>>
  PROVE  token' \in Tokens /\ \E G : AppAsks(t, op, r, G)
<1>1. token \in Tokens /\ tab \in [Tabs -> TabStates] /\ Fetching(fetch)
  BY DEF Sound, BrowserOK
<1>2. PICK G : G = Send(fetch, r)
  OBVIOUS
<1>3. r \in Fetches /\ Shaped(r) /\ FetchKnown(r)
  BY SendingFine DEF AppOps
<1>4. /\ Fetching(G)
      /\ \E k \in Free(fetch) : G[k] = r /\ \A s \in Slots \ {k} : G[s] = fetch[s]
  BY <1>1, <1>2, <1>3, SentTo
<1>5. Asks(r, fetch, G)
  BY <1>4 DEF Asks, Free
<1>6. Becomes(t, tab[t], G)
  BY <1>1, <1>2 DEF Becomes, browser
<1>7. TabFine(tab[t])
  BY <1>1 DEF Sound, BrowserOK, TabFine
<1> QED
  BY <1>1, <1>4, <1>5, <1>6, <1>7 DEF AppAsks, browser

LEMMA SubmitFormShape ==
  ASSUME Sound, NEW t \in Tabs, SubmitForm(t)
  PROVE  /\ tab[t].view = "public" /\ tab[t].page = "signIn" /\ MayAsk(t, Sessions)
         /\ token' \in Tokens
         /\ \E r, G : AppAsks(t, "SignIn", r, G)
<1>1. PICK u \in Users :
        fetch' = Send(fetch, [Request(t, "SignIn", "app")
                                EXCEPT !.user = u, !.token = NoToken])
  BY DEF SubmitForm
<1>2. PICK r : r = [Request(t, "SignIn", "app") EXCEPT !.user = u, !.token = NoToken]
  OBVIOUS
<1>3. token \in Tokens
  BY DEF Sound, BrowserOK
<1>4. Sending(r, t, "SignIn", "app") /\ r.user = u
  BY <1>2, <1>3, SignInRequest
<1>5. fetch' = Send(fetch, r)
  BY <1>1, <1>2
<1>6. Free(fetch) # {} /\ UNCHANGED <<browser, server>>
  BY DEF SubmitForm, MayAsk
<1>7. token' \in Tokens /\ \E G : AppAsks(t, "SignIn", r, G)
  BY <1>4, <1>5, <1>6, AppAsksShape DEF AppOps
<1> QED
  BY <1>7 DEF SubmitForm

LEMMA ClickSignOutShape ==
  ASSUME Sound, NEW t \in Tabs, ClickSignOut(t)
  PROVE  /\ tab[t].user # Nobody /\ MayAsk(t, Sessions)
         /\ token' \in Tokens
         /\ \E r, G : AppAsks(t, "SignOut", r, G)
<1>1. PICK r : r = Request(t, "SignOut", "app")
  OBVIOUS
<1>2. token \in Tokens
  BY DEF Sound, BrowserOK
<1>3. Sending(r, t, "SignOut", "app")
  BY <1>1, <1>2, PlainRequest DEF AppOps
<1>4. Free(fetch) # {} /\ fetch' = Send(fetch, r) /\ UNCHANGED <<browser, server>>
  BY <1>1 DEF ClickSignOut, MayAsk
<1>5. token' \in Tokens /\ \E G : AppAsks(t, "SignOut", r, G)
  BY <1>3, <1>4, AppAsksShape DEF AppOps
<1> QED
  BY <1>5 DEF ClickSignOut

LEMMA LoadSound ==
  ASSUME Sound, NEW t \in Tabs, Load(t)
  PROVE  Sound'
<1>1. PICK x, H, G : Loads(t, x, H, G)
  BY LoadShape
<1>2. Only(t, G)
  BY <1>1 DEF Loads, Asks, Only, Fewer, Sending
<1>3. \A s \in Slots : G[s].reader = "page" => G[s].tab # t
  BY <1>1 DEF Loads, Asks, Sending
<1> QED
  BY <1>1, <1>2, <1>3, BrowserStep, LoadShape DEF Loads

LEMMA AppAsksSound ==
  ASSUME Sound, token' \in Tokens, NEW t \in Tabs, NEW op, NEW r, NEW G,
         AppAsks(t, op, r, G)
  PROVE  Sound'
<1>1. Only(t, G)
  BY DEF AppAsks, Asks, Only, Sending
<1>2. ASSUME tab[t].user = Nobody, NEW s \in Slots, G[s].reader = "page"
      PROVE  G[s].tab # t
  <2>1. G[s] = fetch[s]
    BY <1>2 DEF AppAsks, Asks, Sending
  <2> QED
    BY <1>2, <2>1 DEF Sound, BrowserOK
<1>3. tab[t].user = Nobody => \A s \in Slots : G[s].reader = "page" => G[s].tab # t
  BY <1>2
<1> QED
  BY <1>1, <1>3, BrowserStep DEF AppAsks

\* Tab t leaves its page for page v, number n, with what App waits for.
Turns(t, v, n, x, G) ==
  \E F : /\ Arrives(t, tab[t], v, n, F, x, G)
         /\ Fetching(F) /\ Fewer(fetch, F)
         /\ \A s \in Slots : F[s].reader = "page" => F[s].tab # t

LEMMA TurnsSound ==
  ASSUME Sound, token' \in Tokens, NEW t \in Tabs, tab[t].user # Nobody,
         NEW v, NEW n, NEW x, NEW G, Turns(t, v, n, x, G)
  PROVE  Sound'
  BY FewerOnly, ArrivesSound DEF Turns

LEMMA FewerTwice ==
  ASSUME NEW F, NEW G, NEW H, Fewer(F, G), Fewer(G, H)
  PROVE  Fewer(F, H)
  BY DEF Fewer

LEMMA TurnsToDashboard ==
  ASSUME Sound, NEW t \in Tabs, tab[t].user # Nobody,
         NEW H, Fetching(H), Fewer(fetch, H),
         ToDashboard(t, tab[t], Unmount(t, H)), UNCHANGED server
  PROVE  \E x, G : Turns(t, "dashboard", 0, x, G)
<1>1. token \in Tokens /\ tab \in [Tabs -> TabStates]
  BY DEF Sound, BrowserOK
<1>2. PICK F : F = Unmount(t, H)
  OBVIOUS
<1>3. /\ Fetching(F) /\ Fewer(fetch, F)
      /\ \A s \in Slots : F[s].reader = "page" => F[s].tab # t
  BY <1>2, Unmounted, FewerTwice
<1>4. ToDashboard(t, tab[t], F)
  BY <1>2
<1>5. PICK x, G : Arrives(t, tab[t], "dashboard", 0, F, x, G)
  BY <1>1, <1>3, <1>4, AtDashboard
<1> QED
  BY <1>3, <1>5 DEF Turns

LEMMA TurnsToApplication ==
  ASSUME Sound, NEW t \in Tabs, tab[t].user # Nobody, NEW n \in 0..MaxRows,
         NEW H, Fetching(H), Fewer(fetch, H),
         ToApplication(t, tab[t], n, Unmount(t, H)), UNCHANGED server
  PROVE  \E x, G : Turns(t, "application", n, x, G)
<1>1. token \in Tokens /\ tab \in [Tabs -> TabStates]
  BY DEF Sound, BrowserOK
<1>2. PICK F : F = Unmount(t, H)
  OBVIOUS
<1>3. /\ Fetching(F) /\ Fewer(fetch, F)
      /\ \A s \in Slots : F[s].reader = "page" => F[s].tab # t
  BY <1>2, Unmounted, FewerTwice
<1>4. ToApplication(t, tab[t], n, F)
  BY <1>2
<1>5. PICK x, G : Arrives(t, tab[t], "application", n, F, x, G)
  BY <1>1, <1>3, <1>4, AtApplication
<1> QED
  BY <1>3, <1>5 DEF Turns

\* A page of a user is turned: to the dashboard, or to an application the tab
\* has been at or shows.
TurnsOwn(t, x, G) ==
  /\ tab[t].user # Nobody
  /\ \/ Turns(t, "dashboard", 0, x, G)
     \/ Turns(t, "application", tab[t].number, x, G)
     \/ /\ tab[t].view = "dashboard"
        /\ \E i \in DOMAIN tab[t].seen : Turns(t, "application", i.number, x, G)

LEMMA BackShape ==
  ASSUME Sound, NEW t \in Tabs, Back(t)
  PROVE  token' \in Tokens /\ \E x, G : TurnsOwn(t, x, G)
<1>1. /\ token \in Tokens /\ Fetching(fetch) /\ Routed(tab[t])
      /\ tab[t].number \in 0..MaxRows
  BY TabFields DEF Sound, BrowserOK
<1>2. token' = token /\ UNCHANGED server
  BY DEF Back
<1>3. Fewer(fetch, fetch)
  BY DEF Fewer
<1>4. tab[t].user # Nobody
  BY <1>1 DEF Back, Routed
<1>5. \/ ToDashboard(t, tab[t], Unmount(t, fetch))
      \/ ToApplication(t, tab[t], tab[t].number, Unmount(t, fetch))
  BY DEF Back
<1>6. \E x, G : TurnsOwn(t, x, G)
  <2>1. CASE ToDashboard(t, tab[t], Unmount(t, fetch))
    BY <1>1, <1>2, <1>3, <1>4, <2>1, TurnsToDashboard DEF TurnsOwn
  <2>2. CASE ToApplication(t, tab[t], tab[t].number, Unmount(t, fetch))
    BY <1>1, <1>2, <1>3, <1>4, <2>2, TurnsToApplication DEF TurnsOwn
  <2> QED
    BY <1>5, <2>1, <2>2
<1> QED
  BY <1>1, <1>2, <1>6

LEMMA OpenApplicationShape ==
  ASSUME Sound, NEW t \in Tabs, OpenApplication(t)
  PROVE  token' \in Tokens /\ \E x, G : TurnsOwn(t, x, G)
<1>1. /\ token \in Tokens /\ Fetching(fetch) /\ Routed(tab[t])
      /\ tab[t].seen \in Shown
  BY TabFields DEF Sound, BrowserOK
<1>2. token' = token /\ UNCHANGED server
  BY DEF OpenApplication
<1>3. Fewer(fetch, fetch)
  BY DEF Fewer
<1>4. tab[t].user # Nobody
  BY <1>1 DEF OpenApplication, Routed
<1>5. PICK i \in DOMAIN tab[t].seen : ToApplication(t, tab[t], i.number, Unmount(t, fetch))
  BY DEF OpenApplication
<1>6. i.number \in 0..MaxRows
  BY <1>1, ShownIs DEF Items
<1>7. \E x, G : Turns(t, "application", i.number, x, G)
  BY <1>1, <1>2, <1>3, <1>4, <1>5, <1>6, TurnsToApplication
<1> QED
  BY <1>1, <1>2, <1>4, <1>7 DEF TurnsOwn, OpenApplication

LEMMA SavedShape ==
  ASSUME Sound, NEW s \in Slots, Saved(s)
  PROVE  /\ token' \in Tokens
         /\ \E t \in Tabs : \E x, G : TurnsOwn(t, x, G)
<1>1. PICK t : t = fetch[s].tab
  OBVIOUS
<1>2. token \in Tokens /\ Fetching(fetch)
  BY DEF Sound, BrowserOK
<1>3. fetch[s].reader = "page" /\ t \in Tabs
  <2>1. fetch[s].at = "served" /\ fetch[s].op \in Saves
    BY DEF Saved
  <2>2. fetch[s] \in Fetches /\ Shaped(fetch[s])
    BY <1>2 DEF Fetching
  <2> QED
    BY <1>1, <2>1, <2>2, FetchFields DEF Shaped, Saves, AppOps
<1>4. tab[t].user # Nobody /\ tab[t].number \in 0..MaxRows
  BY <1>1, <1>3, TabFields DEF Sound, BrowserOK
<1>5. PICK H : H = [fetch EXCEPT ![s] = Idle]
  OBVIOUS
<1>6. Fetching(H) /\ Fewer(fetch, H)
  BY <1>2, <1>5, Cleared
<1>7. token' = token /\ UNCHANGED server
  BY DEF Saved
<1>8. \/ ToDashboard(t, tab[t], Unmount(t, H))
      \/ ToApplication(t, tab[t], tab[t].number, Unmount(t, H))
  BY <1>1, <1>5 DEF Saved
<1>9. \E x, G : TurnsOwn(t, x, G)
  <2>1. CASE ToDashboard(t, tab[t], Unmount(t, H))
    BY <1>3, <1>4, <1>6, <1>7, <2>1, TurnsToDashboard DEF TurnsOwn
  <2>2. CASE ToApplication(t, tab[t], tab[t].number, Unmount(t, H))
    BY <1>3, <1>4, <1>6, <1>7, <2>2, TurnsToApplication DEF TurnsOwn
  <2> QED
    BY <1>8, <2>1, <2>2
<1> QED
  BY <1>2, <1>3, <1>7, <1>9

LEMMA TurnsOwnSound ==
  ASSUME Sound, token' \in Tokens, NEW t \in Tabs, NEW x, NEW G, TurnsOwn(t, x, G)
  PROVE  Sound'
  BY TurnsSound DEF TurnsOwn

\* Tab t opens a form.
Opens(t, x, G) ==
  /\ Becomes(t, x, G) /\ Fetching(G) /\ TabFine(x) /\ Fewer(fetch, G)
  /\ \A s \in Slots : G[s].reader = "page" => G[s].tab # t
  /\ x.user = tab[t].user /\ x.user # Nobody /\ x.authToken = tab[t].authToken
  /\ x.number = tab[t].number /\ x.seen = Nothing

\* A tab with the form of item i.
FormOf(y, i, values) ==
  [y EXCEPT !.view = "form", !.item = i, !.seen = Nothing, !.ready = {},
            !.values = values]

LEMMA FormFields ==
  ASSUME NEW y \in TabStates, NEW i \in Items, NEW values \in Values,
         NEW x, x = FormOf(y, i, values)
  PROVE  /\ x \in TabStates
         /\ x.view = "form" /\ x.item = i /\ x.seen = Nothing /\ x.user = y.user
         /\ x.authToken = y.authToken /\ x.number = y.number
  BY Nothings DEF FormOf, TabStates

LEMMA OpenFormShape ==
  ASSUME Sound, NEW t \in Tabs, OpenForm(t)
  PROVE  token' \in Tokens /\ \E x, G : Opens(t, x, G)
<1>1. /\ token \in Tokens /\ Fetching(fetch) /\ Routed(tab[t]) /\ TabKnown(tab[t])
      /\ tab \in [Tabs -> TabStates] /\ tab[t] \in TabStates
      /\ tab[t].seen \in Shown
  BY TabFields DEF Sound, BrowserOK
<1>2. PICK i \in Items :
        /\ \/ /\ tab[t].view = "application"
              /\ i \in DOMAIN tab[t].seen /\ i.kind = "application" => i.number = tab[t].number
              /\ i \in DOMAIN tab[t].seen \cup {Stage(0)}
           \/ tab[t].view = "dashboard" /\ i = Application(0)
        /\ tab' = [tab EXCEPT ![t].view = "form", ![t].item = i, ![t].seen = Nothing, ![t].ready = {},
             ![t].values = IF i.number = 0 THEN Blank ELSE tab[t].seen[i]]
  BY DEF OpenForm
<1>3. PICK G : G = Unmount(t, fetch)
  OBVIOUS
<1>4. /\ Fetching(G) /\ Fewer(fetch, G)
      /\ \A s \in Slots : G[s].reader = "page" => G[s].tab # t
  BY <1>1, <1>3, Unmounted
<1>5. PICK values : values = IF i.number = 0 THEN Blank ELSE tab[t].seen[i]
  OBVIOUS
<1>6. PICK x : x = tab'[t]
  OBVIOUS
<1>7. i.number # 0 => i \in DOMAIN tab[t].seen
  BY <1>2 DEF Stage, Application
<1>8. values \in Values
  BY <1>1, <1>5, <1>7, ShownIs, Nothings
<1>9. x = FormOf(tab[t], i, values)
  BY <1>1, <1>2, <1>5, <1>6 DEF FormOf
<1>10. /\ x \in TabStates
       /\ x.view = "form" /\ x.item = i /\ x.seen = Nothing /\ x.user = tab[t].user
       /\ x.authToken = tab[t].authToken /\ x.number = tab[t].number
  BY <1>1, <1>8, <1>9, FormFields
<1>11. token' = token /\ UNCHANGED server /\ fetch' = G
  BY <1>3 DEF OpenForm
<1>12. \A r \in Tabs : tab'[r] = IF r = t THEN x ELSE tab[r]
  BY <1>1, <1>2, <1>6
<1>13. tab' \in [Tabs -> TabStates]
  <2>1. tab' = [r \in Tabs |-> tab'[r]]
    BY <1>1, <1>2
  <2> QED
    BY <1>1, <1>10, <1>12, <2>1
<1>14. Becomes(t, x, G)
  BY <1>11, <1>12, <1>13 DEF Becomes
<1>15. x.user # Nobody
  BY <1>1, <1>2, <1>10 DEF Routed
<1>16. TabFine(x)
  <2>1. TabKnown(x)
    BY <1>1, <1>7, <1>10, Nothings DEF TabKnown
  <2> QED
    BY <1>10, <1>15, <2>1 DEF TabFine, Routed
<1> QED
  BY <1>1, <1>4, <1>10, <1>11, <1>14, <1>15, <1>16 DEF Opens

LEMMA OpensSound ==
  ASSUME Sound, token' \in Tokens, NEW t \in Tabs, NEW x, NEW G, Opens(t, x, G)
  PROVE  Sound'
  BY FewerOnly, BrowserStep DEF Opens

\* Tab t sends its form.
Submits(t, x, op, r, G) ==
  /\ Becomes(t, x, G) /\ Fetching(G) /\ TabFine(x)
  /\ op \in Saves /\ Sending(r, t, op, "page") /\ Asks(r, fetch, G)
  /\ x.user = tab[t].user /\ x.user # Nobody /\ x.authToken = tab[t].authToken
  /\ tab[t].view = "form" /\ x.view = "form"
  /\ x.number = tab[t].number /\ x.seen = tab[t].seen

EditedOf(y, values, edited) == [y EXCEPT !.values = values, !.edited = edited]

LEMMA EditedFields ==
  ASSUME NEW y \in TabStates, NEW values \in Values, NEW edited \in SUBSET Fields,
         NEW x, x = EditedOf(y, values, edited)
  PROVE  /\ x \in TabStates
         /\ x.view = y.view /\ x.item = y.item /\ x.seen = y.seen /\ x.user = y.user
         /\ x.authToken = y.authToken /\ x.number = y.number
  BY DEF EditedOf, TabStates

LEMMA handleSubmitShape ==
  ASSUME Sound, NEW t \in Tabs, handleSubmit(t)
  PROVE  token' \in Tokens /\ \E x, op, r, G : Submits(t, x, op, r, G)
<1>1. /\ token \in Tokens /\ Fetching(fetch) /\ Routed(tab[t]) /\ TabKnown(tab[t])
      /\ tab \in [Tabs -> TabStates] /\ tab[t] \in TabStates
      /\ tab[t].edited \in SUBSET Fields /\ tab[t].user \in People
  BY TabFields DEF Sound, BrowserOK
<1>2. PICK values \in Values :
        LET form == [tab[t] EXCEPT !.values = values,
                       !.edited = @ \cup {f \in Fields : values[f] # tab[t].values[f]}]
            op == IF form.item.number = 0 THEN "Create" ELSE "Patch"
        IN /\ tab' = [tab EXCEPT ![t] = form]
           /\ fetch' = Send(fetch, [Request(t, op, "page")
                EXCEPT !.user = form.user, !.number = form.number, !.item = form.item,
                       !.values = values, !.edited = form.edited])
  BY DEF handleSubmit
<1>3. PICK edited : edited = tab[t].edited \cup {f \in Fields : values[f] # tab[t].values[f]}
  OBVIOUS
<1>4. edited \in SUBSET Fields
  BY <1>1, <1>3
<1>5. PICK x : x = [tab[t] EXCEPT !.values = values,
                      !.edited = @ \cup {f \in Fields : values[f] # tab[t].values[f]}]
  OBVIOUS
<1>6. x = EditedOf(tab[t], values, edited)
  BY <1>1, <1>3, <1>5 DEF EditedOf
<1>7. /\ x \in TabStates
      /\ x.view = tab[t].view /\ x.item = tab[t].item /\ x.seen = tab[t].seen
      /\ x.user = tab[t].user /\ x.authToken = tab[t].authToken
      /\ x.number = tab[t].number
  BY <1>1, <1>4, <1>6, EditedFields
<1>8. PICK op : op = IF x.item.number = 0 THEN "Create" ELSE "Patch"
  OBVIOUS
<1>9. PICK r : r = SaveOf(t, op, x, values)
  OBVIOUS
<1>10. tab' = [tab EXCEPT ![t] = x] /\ fetch' = Send(fetch, r)
  BY <1>2, <1>5, <1>8, <1>9 DEF SaveOf
<1>11. op \in Saves
  BY <1>8 DEF Saves
<1>12. Sending(r, t, op, "page") /\ r.user = x.user /\ r.item = x.item
  BY <1>1, <1>7, <1>9, <1>11, SaveRequest
<1>13. x.user # Nobody /\ x.user \in Users
  BY <1>1, <1>7 DEF handleSubmit, Routed, People
<1>14. TabKnown(x)
  BY <1>1, <1>7 DEF TabKnown
<1>15. r \in Fetches /\ Shaped(r) /\ FetchKnown(r)
  <2>1. op = "Patch" => Exists(r.item)
    BY <1>8, <1>12, <1>14 DEF TabKnown
  <2> QED
    BY <1>11, <1>12, <1>13, <2>1, SendingFine DEF PageOps, Saves
<1>16. Free(fetch) # {} /\ token' = token /\ UNCHANGED server
  BY DEF handleSubmit, MayAsk
<1>17. PICK G : G = Send(fetch, r)
  OBVIOUS
<1>18. /\ Fetching(G)
       /\ \E k \in Free(fetch) : G[k] = r /\ \A s \in Slots \ {k} : G[s] = fetch[s]
  BY <1>1, <1>15, <1>16, <1>17, SentTo
<1>19. Asks(r, fetch, G)
  BY <1>18 DEF Asks, Free
<1>20. Becomes(t, x, G)
  BY <1>1, <1>7, <1>10, <1>16, <1>17, TabMoves
<1>21. TabFine(x)
  BY <1>1, <1>7, <1>14 DEF TabFine, Routed
<1>22. Submits(t, x, op, r, G)
  BY <1>7, <1>11, <1>12, <1>13, <1>18, <1>19, <1>20, <1>21 DEF Submits, handleSubmit
<1> QED
  BY <1>1, <1>16, <1>22

LEMMA SubmitsSound ==
  ASSUME Sound, token' \in Tokens, NEW t \in Tabs, NEW x, NEW op, NEW r, NEW G,
         Submits(t, x, op, r, G)
  PROVE  Sound'
<1>1. Only(t, G)
  BY DEF Submits, Asks, Only, Sending
<1> QED
  BY <1>1, BrowserStep DEF Submits

-----------------------------------------------------------------------------
(* What the answer in slot s does. *)

\* Whose answer is read.
LEMMA ReaderOf ==
  ASSUME Sound, NEW s \in Slots, fetch[s].reader # "nobody"
  PROVE  /\ fetch[s] \in Fetches /\ Shaped(fetch[s]) /\ FetchKnown(fetch[s])
         /\ fetch[s].tab \in Tabs
         /\ fetch[s].op \in AppOps => fetch[s].reader = "app"
         /\ fetch[s].op \in PageOps => fetch[s].reader = "page"
<1>1. fetch[s] \in Fetches /\ Shaped(fetch[s]) /\ FetchKnown(fetch[s])
  BY DEF Sound, BrowserOK, Fetching
<1> QED
  BY <1>1, FetchFields DEF Shaped, AppOps, PageOps

LEMMA TabOf ==
  ASSUME Sound, NEW t \in Tabs
  PROVE  /\ token \in Tokens /\ Fetching(fetch) /\ tab \in [Tabs -> TabStates]
         /\ tab[t] \in TabStates /\ Routed(tab[t]) /\ TabKnown(tab[t])
         /\ TabFine(tab[t])
  BY DEF Sound, BrowserOK, TabFine

BodyOf(f) == [f EXCEPT !.at = "body", !.session = NoToken]

LEMMA BodyFields ==
  ASSUME NEW f \in Fetches, NEW g, g = BodyOf(f)
  PROVE  /\ g \in Fetches
         /\ g.at = "body" /\ g.op = f.op /\ g.tab = f.tab /\ g.reader = f.reader
         /\ g.ok = f.ok /\ g.who = f.who /\ g.rows = f.rows /\ g.item = f.item
  BY Nothings DEF BodyOf, Fetches

EnteredOf(y, id) == [y EXCEPT !.authToken = id, !.page = "signedInMain"]

LEMMA EnteredFields ==
  ASSUME NEW y \in TabStates, NEW id \in Tokens, NEW x, x = EnteredOf(y, id)
  PROVE  /\ x \in TabStates /\ x.authToken = id
         /\ x.view = y.view /\ x.user = y.user /\ x.number = y.number
         /\ x.seen = y.seen /\ x.item = y.item
  BY DEF EnteredOf, TabStates, Tokens

\* The token of a sign-in is there, its body not yet.
Enters(s, t, x, G) ==
  /\ Becomes(t, x, G) /\ Fetching(G) /\ TabFine(x)
  /\ fetch[s].reader = "app" /\ fetch[s].op = "SignIn" /\ fetch[s].tab = t
  /\ fetch[s].at = "served" /\ fetch[s].ok = TRUE
  /\ \A r \in Slots \ {s} : G[r] = fetch[r]
  /\ G[s].at = "body" /\ G[s].op = "SignIn" /\ G[s].tab = t /\ G[s].reader = "app"
  /\ G[s].who = fetch[s].who
  /\ x.authToken = fetch[s].session /\ x.view = tab[t].view
  /\ x.user = tab[t].user /\ x.number = tab[t].number /\ x.seen = tab[t].seen

LEMMA SignedInShape ==
  ASSUME Sound, NEW s \in Slots, SignedIn(s)
  PROVE  token' \in Tokens /\ \E t \in Tabs : \E x, G : Enters(s, t, x, G)
<1>1. /\ fetch[s].at = "served" /\ fetch[s].op = "SignIn"
      /\ fetch[s].reader # "nobody" /\ fetch[s].ok
  BY DEF SignedIn, Answered
<1>2. PICK t : t = fetch[s].tab
  OBVIOUS
<1>3. /\ fetch[s] \in Fetches /\ Shaped(fetch[s]) /\ FetchKnown(fetch[s])
      /\ t \in Tabs /\ fetch[s].reader = "app"
  BY <1>1, <1>2, ReaderOf DEF AppOps
<1>4. fetch[s].ok = TRUE /\ fetch[s].session \in Tokens
  BY <1>1, <1>3, FetchFields
<1>5. /\ Fetching(fetch) /\ tab \in [Tabs -> TabStates]
      /\ tab[t] \in TabStates /\ Routed(tab[t]) /\ TabKnown(tab[t])
  BY <1>3, TabOf
<1>6. PICK x : x = EnteredOf(tab[t], fetch[s].session)
  OBVIOUS
<1>7. /\ x \in TabStates /\ x.authToken = fetch[s].session
      /\ x.view = tab[t].view /\ x.user = tab[t].user /\ x.number = tab[t].number
      /\ x.seen = tab[t].seen /\ x.item = tab[t].item
  BY <1>4, <1>5, <1>6, EnteredFields
<1>8. PICK g : g = BodyOf(fetch[s])
  OBVIOUS
<1>9. /\ g \in Fetches
      /\ g.at = "body" /\ g.op = fetch[s].op /\ g.tab = t /\ g.reader = fetch[s].reader
      /\ g.ok = fetch[s].ok /\ g.who = fetch[s].who /\ g.rows = fetch[s].rows
      /\ g.item = fetch[s].item
  BY <1>2, <1>3, <1>8, BodyFields
<1>10. Shaped(g) /\ FetchKnown(g)
  BY <1>1, <1>2, <1>3, <1>4, <1>9 DEF Shaped, FetchKnown
<1>11. PICK G : G = [fetch EXCEPT ![s] = g]
  OBVIOUS
<1>12. fetch' = G
  <2>1. fetch' = [fetch EXCEPT ![s].at = "body", ![s].session = NoToken]
    BY DEF SignedIn
  <2> QED
    BY <1>5, <1>8, <1>11, <2>1 DEF BodyOf, Fetching
<1>13. \A r \in Slots : G[r] = IF r = s THEN g ELSE fetch[r]
  BY <1>5, <1>11 DEF Fetching
<1>14. Fetching(G)
  BY <1>5, <1>9, <1>10, <1>11, <1>13 DEF Fetching
<1>15. /\ \A r \in Tabs : tab'[r] = IF r = t THEN x ELSE tab[r]
       /\ tab' = [r \in Tabs |-> tab'[r]]
  <2>1. tab' = [tab EXCEPT ![t].authToken = fetch[s].session,
                           ![t].page = "signedInMain"]
    BY <1>2 DEF SignedIn
  <2> QED
    BY <1>3, <1>5, <1>6, <2>1 DEF EnteredOf
<1>16. tab' \in [Tabs -> TabStates]
  BY <1>5, <1>7, <1>15
<1>17. Becomes(t, x, G)
  BY <1>12, <1>15, <1>16 DEF Becomes, SignedIn
<1>18. TabFine(x)
  BY <1>5, <1>7 DEF TabFine, Routed, TabKnown
<1>19. token' \in Tokens
  BY <1>4 DEF SignedIn
<1>20. Enters(s, t, x, G)
  BY <1>1, <1>2, <1>3, <1>4, <1>7, <1>9, <1>13, <1>14, <1>17, <1>18 DEF Enters
<1> QED
  BY <1>3, <1>19, <1>20

LEMMA EntersSound ==
  ASSUME Sound, token' \in Tokens, NEW s \in Slots, NEW t \in Tabs, NEW x, NEW G,
         Enters(s, t, x, G)
  PROVE  Sound'
<1>1. Only(t, G)
  BY DEF Enters, Only
<1>2. ASSUME x.user = Nobody, NEW r \in Slots, G[r].reader = "page"
      PROVE  G[r].tab # t
  <2>1. G[r] = fetch[r]
    BY <1>2 DEF Enters
  <2>2. tab[t].user = Nobody
    BY <1>2 DEF Enters
  <2>3. fetch[r].reader = "page" => tab[fetch[r].tab].user # Nobody
    BY DEF Sound, BrowserOK
  <2> QED
    BY <1>2, <2>1, <2>2, <2>3
<1>3. x.user = Nobody => \A r \in Slots : G[r].reader = "page" => G[r].tab # t
  BY <1>2
<1> QED
  BY <1>1, <1>3, BrowserStep DEF Enters

UserOf(y, u) == [y EXCEPT !.user = u]

LEMMA UserFields ==
  ASSUME NEW y \in TabStates, NEW u \in Users, NEW x, x = UserOf(y, u)
  PROVE  /\ x \in TabStates /\ x.user = u /\ x.user # Nobody
         /\ x.view = y.view /\ x.authToken = y.authToken /\ x.number = y.number
         /\ x.seen = y.seen /\ x.item = y.item
  BY Nothings DEF UserOf, TabStates

\* The user is there: the one the body is about.
Welcomes(s, t, x, G) ==
  /\ fetch[s].reader = "app" /\ fetch[s].tab = t
  /\ \/ fetch[s].at = "body"
     \/ fetch[s].at = "served" /\ fetch[s].op = "Me" /\ fetch[s].ok = TRUE
  /\ fetch[s].who \in Users
  /\ \E fields, F :
       /\ fields.user = fetch[s].who /\ fields.authToken = tab[t].authToken
       /\ Fewer(fetch, F) /\ Fetching(F)
       /\ F[s] = Idle /\ \A r \in Slots \ {s} : F[r] = fetch[r]
       /\ \/ Arrives(t, fields, "dashboard", 0, F, x, G)
          \/ /\ tab[t].user # Nobody
             /\ Becomes(t, x, G) /\ Fetching(G) /\ TabFine(x) /\ Fewer(fetch, G)
             /\ x.user = fields.user

LEMMA SetUserShape ==
  ASSUME Sound, NEW s \in Slots, SetUser(s)
  PROVE  token' \in Tokens /\ \E t \in Tabs : \E x, G : Welcomes(s, t, x, G)
<1>1. /\ fetch[s] \in Fetches /\ Shaped(fetch[s])
      /\ fetch[s].at \in {"served", "body"} /\ fetch[s].reader # "nobody"
  <2>1. fetch[s] \in Fetches /\ Shaped(fetch[s])
    BY DEF Sound, BrowserOK, Fetching
  <2> QED
    BY <2>1 DEF SetUser, Answered, Shaped
<1>2. fetch[s].ok \in BOOLEAN
  BY <1>1, FetchFields
<1>3. \/ fetch[s].at = "body" /\ fetch[s].op = "SignIn" /\ fetch[s].ok = TRUE
      \/ fetch[s].at = "served" /\ fetch[s].op = "Me" /\ fetch[s].ok = TRUE
  BY <1>1, <1>2 DEF SetUser, Answered, Shaped
<1>4. PICK t : t = fetch[s].tab
  OBVIOUS
<1>5. t \in Tabs /\ fetch[s].reader = "app" /\ fetch[s].who \in Users
  BY <1>1, <1>3, <1>4, ReaderOf DEF Shaped, AppOps
<1>6. /\ token \in Tokens /\ Fetching(fetch) /\ tab \in [Tabs -> TabStates]
      /\ tab[t] \in TabStates /\ Routed(tab[t]) /\ TabKnown(tab[t])
  BY <1>5, TabOf
<1>7. PICK fields : fields = UserOf(tab[t], fetch[s].who)
  OBVIOUS
<1>8. /\ fields \in TabStates /\ fields.user = fetch[s].who /\ fields.user # Nobody
      /\ fields.view = tab[t].view /\ fields.authToken = tab[t].authToken
      /\ fields.seen = tab[t].seen /\ fields.item = tab[t].item
  BY <1>5, <1>6, <1>7, UserFields
<1>9. PICK F : F = [fetch EXCEPT ![s] = Idle]
  OBVIOUS
<1>10. /\ Fetching(F) /\ Fewer(fetch, F)
       /\ F[s] = Idle /\ \A r \in Slots \ {s} : F[r] = fetch[r]
  <2>1. Fetching(F) /\ Fewer(fetch, F) /\ F[s] = Idle
    BY <1>6, <1>9, Cleared
  <2>2. \A r \in Slots \ {s} : F[r] = fetch[r]
    BY <1>6, <1>9 DEF Fetching
  <2> QED
    BY <2>1, <2>2
<1>11. /\ IF tab[t].user = Nobody THEN ToDashboard(t, fields, F)
          ELSE tab' = [tab EXCEPT ![t] = fields] /\ fetch' = F
       /\ token' = token /\ UNCHANGED server
  BY <1>4, <1>7, <1>9 DEF SetUser, UserOf
<1>12. \E x, G : Welcomes(s, t, x, G)
  <2>1. CASE tab[t].user = Nobody
    <3>1. PICK x, G : Arrives(t, fields, "dashboard", 0, F, x, G)
      BY <1>5, <1>6, <1>8, <1>10, <1>11, <2>1, AtDashboard
    <3>2. Welcomes(s, t, x, G)
      BY <1>3, <1>4, <1>5, <1>8, <1>10, <3>1 DEF Welcomes
    <3> QED
      BY <3>2
  <2>2. CASE tab[t].user # Nobody
    <3>1. Becomes(t, fields, F)
      BY <1>5, <1>6, <1>8, <1>11, <2>2, TabMoves
    <3>2. TabFine(fields)
      BY <1>6, <1>8, <2>2 DEF TabFine, Routed, TabKnown
    <3>3. Welcomes(s, t, fields, F)
      BY <1>3, <1>4, <1>5, <1>8, <1>10, <2>2, <3>1, <3>2 DEF Welcomes
    <3> QED
      BY <3>3
  <2> QED
    BY <2>1, <2>2
<1> QED
  BY <1>5, <1>6, <1>11, <1>12

LEMMA WelcomesSound ==
  ASSUME Sound, token' \in Tokens, NEW s \in Slots, NEW t \in Tabs, NEW x, NEW G,
         Welcomes(s, t, x, G)
  PROVE  Sound'
<1>1. PICK fields, F :
        /\ fields.user = fetch[s].who
        /\ Fewer(fetch, F)
        /\ \/ Arrives(t, fields, "dashboard", 0, F, x, G)
           \/ /\ Becomes(t, x, G) /\ Fetching(G) /\ TabFine(x) /\ Fewer(fetch, G)
              /\ x.user = fields.user
  BY DEF Welcomes
<1>2. fields.user # Nobody
  BY <1>1, Nothings DEF Welcomes
<1>3. CASE Arrives(t, fields, "dashboard", 0, F, x, G)
  BY <1>1, <1>2, <1>3, FewerOnly, ArrivesSound
<1>4. CASE /\ Becomes(t, x, G) /\ Fetching(G) /\ TabFine(x) /\ Fewer(fetch, G)
           /\ x.user = fields.user
  BY <1>2, <1>4, FewerOnly, BrowserStep
<1> QED
  BY <1>1, <1>3, <1>4

\* Tab t is signed out by the answer in s.
Leaves(s, t, x, G) ==
  /\ fetch[s].reader = "app" /\ fetch[s].tab = t
  /\ Becomes(t, x, G) /\ Fetching(G) /\ TabFine(x) /\ Fewer(fetch, G)
  /\ G[s].reader = "nobody"
  /\ \A r \in Slots : G[r].reader = "page" => G[r].tab # t
  /\ x.user = Nobody /\ x.number = 0 /\ x.seen = Nothing

LEMMA LeavesShape ==
  ASSUME Sound, NEW s \in Slots,
         Answered(s, "Me") \/ Answered(s, "SignOut"),
         SignedOut(fetch[s].tab, [fetch EXCEPT ![s] = Idle]), UNCHANGED server
  PROVE  token' \in Tokens /\ \E t \in Tabs : \E x, G : Leaves(s, t, x, G)
<1>1. PICK t : t = fetch[s].tab
  OBVIOUS
<1>2. t \in Tabs /\ fetch[s].reader = "app"
  BY <1>1, ReaderOf DEF Answered, AppOps
<1>3. Fetching(fetch) /\ tab \in [Tabs -> TabStates]
  BY <1>2, TabOf
<1>4. PICK F : F = [fetch EXCEPT ![s] = Idle]
  OBVIOUS
<1>5. Fetching(F) /\ Fewer(fetch, F) /\ F[s] = Idle
  BY <1>3, <1>4, Cleared
<1>6. PICK G : G = Unmount(t, F)
  OBVIOUS
<1>7. /\ Fetching(G) /\ Fewer(F, G)
      /\ \A r \in Slots : G[r].reader = "page" => G[r].tab # t
  BY <1>2, <1>5, <1>6, Unmounted
<1>8. token' = NoToken /\ tab' = [tab EXCEPT ![t] = Public] /\ fetch' = G
  BY <1>1, <1>4, <1>6 DEF SignedOut
<1>9. Becomes(t, Public, G)
  BY <1>2, <1>3, <1>8, PublicAlone, TabMoves
<1>10. TabFine(Public)
  BY PublicAlone, Known0 DEF TabFine, Routed
<1>11. G[s].reader = "nobody"
  BY <1>5, <1>7, IdleFields DEF Fewer
<1>12. Leaves(s, t, Public, G)
  BY <1>1, <1>2, <1>5, <1>7, <1>9, <1>10, <1>11, PublicAlone, FewerTwice DEF Leaves
<1> QED
  BY <1>2, <1>8, <1>12, Nothings

LEMMA LeavesSound ==
  ASSUME Sound, token' \in Tokens, NEW s \in Slots, NEW t \in Tabs, NEW x, NEW G,
         Leaves(s, t, x, G)
  PROVE  Sound'
  BY FewerOnly, BrowserStep DEF Leaves

\* Tab t keeps the rows it is sent in s.
Shows(s, t, x, G) ==
  /\ fetch[s].reader = "page" /\ fetch[s].tab = t
  /\ fetch[s].at = "served" /\ fetch[s].op \in {"List", "Stages"}
  /\ Becomes(t, x, G) /\ Fetching(G) /\ TabFine(x) /\ Fewer(fetch, G)
  /\ x.user = tab[t].user /\ x.authToken = tab[t].authToken
  /\ x.view = tab[t].view /\ x.number = tab[t].number
  /\ DOMAIN x.seen = DOMAIN tab[t].seen \cup DOMAIN fetch[s].rows

ShownOf(y, ready, seen) == [y EXCEPT !.ready = ready, !.seen = seen]

LEMMA ShownFields ==
  ASSUME NEW y \in TabStates, NEW ready \in SUBSET {"List", "Stages"},
         NEW seen \in Shown, NEW x, x = ShownOf(y, ready, seen)
  PROVE  /\ x \in TabStates /\ x.seen = seen
         /\ x.view = y.view /\ x.user = y.user /\ x.authToken = y.authToken
         /\ x.number = y.number /\ x.item = y.item
  BY DEF ShownOf, TabStates

LEMMA LoadedShape ==
  ASSUME Sound, NEW s \in Slots, Loaded(s)
  PROVE  token' \in Tokens /\ \E t \in Tabs : \E x, G : Shows(s, t, x, G)
<1>1. /\ fetch[s].at = "served" /\ fetch[s].op \in {"List", "Stages"}
      /\ fetch[s].reader # "nobody"
  BY DEF Loaded, Sound, BrowserOK, Fetching, Shaped
<1>2. PICK t : t = fetch[s].tab
  OBVIOUS
<1>3. /\ fetch[s] \in Fetches /\ FetchKnown(fetch[s])
      /\ t \in Tabs /\ fetch[s].reader = "page"
  BY <1>1, <1>2, ReaderOf DEF PageOps
<1>4. /\ token \in Tokens /\ Fetching(fetch) /\ tab \in [Tabs -> TabStates]
      /\ tab[t] \in TabStates /\ Routed(tab[t]) /\ TabKnown(tab[t])
  BY <1>3, TabOf
<1>5. PICK rows, old : rows = fetch[s].rows /\ old = tab[t].seen
  OBVIOUS
<1>6. rows \in Shown /\ old \in Shown
  BY <1>3, <1>4, <1>5, FetchFields, TabFields
<1>7. PICK seen : seen = [i \in DOMAIN old \cup DOMAIN rows |->
                            IF i \in DOMAIN rows THEN rows[i] ELSE old[i]]
  OBVIOUS
<1>8. seen \in Shown /\ DOMAIN seen = DOMAIN old \cup DOMAIN rows
  <2>1. /\ DOMAIN old \subseteq Items /\ \A i \in DOMAIN old : old[i] \in Values
        /\ DOMAIN rows \subseteq Items /\ \A i \in DOMAIN rows : rows[i] \in Values
    BY <1>6, ShownIs
  <2>2. seen \in [DOMAIN old \cup DOMAIN rows -> Values]
    BY <1>7, <2>1
  <2>3. DOMAIN old \cup DOMAIN rows \in SUBSET Items
    BY <2>1
  <2> QED
    BY <2>2, <2>3, IsShown
<1>9. PICK ready : ready = tab[t].ready \cup {fetch[s].op}
  OBVIOUS
<1>10. ready \in SUBSET {"List", "Stages"}
  BY <1>1, <1>4, <1>9, TabFields
<1>11. PICK x : x = ShownOf(tab[t], ready, seen)
  OBVIOUS
<1>12. /\ x \in TabStates /\ x.seen = seen
       /\ x.view = tab[t].view /\ x.user = tab[t].user
       /\ x.authToken = tab[t].authToken /\ x.number = tab[t].number
       /\ x.item = tab[t].item
  BY <1>4, <1>8, <1>10, <1>11, ShownFields
<1>13. /\ \A r \in Tabs : tab'[r] = IF r = t THEN x ELSE tab[r]
       /\ tab' = [r \in Tabs |-> tab'[r]]
  <2>1. tab' = [tab EXCEPT ![t].ready = @ \cup {fetch[s].op}, ![t].seen = seen]
    BY <1>2, <1>5, <1>7 DEF Loaded
  <2> QED
    BY <1>3, <1>4, <1>9, <1>11, <2>1 DEF ShownOf
<1>14. tab' \in [Tabs -> TabStates]
  BY <1>4, <1>12, <1>13
<1>15. PICK G : G = [fetch EXCEPT ![s] = Idle]
  OBVIOUS
<1>16. Fetching(G) /\ Fewer(fetch, G)
  BY <1>4, <1>15, Cleared
<1>17. fetch' = G /\ token' = token /\ UNCHANGED server
  BY <1>15 DEF Loaded
<1>18. Becomes(t, x, G)
  BY <1>13, <1>14, <1>17 DEF Becomes
<1>19. TabFine(x)
  <2>1. TabKnown(x)
    BY <1>3, <1>4, <1>5, <1>8, <1>12 DEF TabKnown, FetchKnown
  <2> QED
    BY <1>4, <1>12, <2>1 DEF TabFine, Routed
<1>20. Shows(s, t, x, G)
  BY <1>1, <1>2, <1>3, <1>5, <1>8, <1>12, <1>16, <1>18, <1>19 DEF Shows
<1> QED
  BY <1>3, <1>4, <1>17, <1>20

LEMMA ShowsSound ==
  ASSUME Sound, token' \in Tokens, NEW s \in Slots, NEW t \in Tabs, NEW x, NEW G,
         Shows(s, t, x, G)
  PROVE  Sound'
<1>1. x.user # Nobody
  BY DEF Shows, Sound, BrowserOK
<1> QED
  BY <1>1, FewerOnly, BrowserStep DEF Shows

-----------------------------------------------------------------------------
(* Steps of the servers. *)

\* Rows stay and stay whose they are; so does a session that was drawn.
Grown ==
  /\ DOMAIN applications \subseteq DOMAIN applications'
  /\ \A n \in DOMAIN applications : applications'[n].userID = applications[n].userID
  /\ DOMAIN stages \subseteq DOMAIN stages'
  /\ \A n \in DOMAIN stages : stages'[n].applicationID = stages[n].applicationID
  /\ \A id \in SessionIDs : owner[id] # Nobody => owner'[id] = owner[id]

\* The slots become G, where fetches stay as they are or are put aside, or have
\* their answer.
Replies(G) ==
  /\ fetch' = G /\ G \in [Slots -> Fetches]
  /\ \A s \in Slots :
       \/ G[s] = fetch[s]
       \/ /\ Shaped(G[s]) /\ FetchKnown(G[s])'
          /\ G[s].reader # "nobody" =>
               G[s].reader = fetch[s].reader /\ G[s].tab = fetch[s].tab

LEMMA ExistsStays ==
  ASSUME Grown, NEW i, Exists(i)
  PROVE  Exists(i)'
  BY DEF Grown, Exists

LEMMA ServerStep ==
  ASSUME Sound, Grown, SessionsOK', TablesOK', UNCHANGED browser,
         NEW G, Replies(G)
  PROVE  Sound'
<1>1. /\ token \in Tokens /\ tab \in [Tabs -> TabStates]
      /\ \A t \in Tabs : Routed(tab[t]) /\ TabKnown(tab[t])
      /\ Fetching(fetch)
      /\ \A s \in Slots : fetch[s].reader = "page" => tab[fetch[s].tab].user # Nobody
  BY DEF Sound, BrowserOK
<1>2. token' = token /\ tab' = tab
  BY DEF browser
<1>3. ASSUME NEW t \in Tabs PROVE TabKnown(tab[t])'
  <2>1. PICK x : x = tab[t]
    OBVIOUS
  <2>2. TabKnown(x)'
    BY <1>1, <2>1, ExistsStays DEF TabKnown
  <2> QED
    BY <1>2, <2>1, <2>2 DEF TabKnown, Exists
<1>4. ASSUME NEW s \in Slots PROVE Shaped(G[s]) /\ FetchKnown(G[s])'
  <2>1. CASE G[s] = fetch[s]
    <3>1. Shaped(G[s]) /\ FetchKnown(G[s])
      BY <1>1, <2>1 DEF Fetching
    <3> QED
      BY <3>1, ExistsStays DEF FetchKnown
  <2>2. CASE Shaped(G[s]) /\ FetchKnown(G[s])'
    BY <2>2
  <2> QED
    BY <2>1, <2>2 DEF Replies
<1>5. Fetching(G)'
  BY <1>4 DEF Replies, Fetching
<1>6. Fetching(fetch)'
  BY <1>5, FetchingMoves DEF Replies
<1>7. \A s \in Slots : G[s].reader = "page" => tab[G[s].tab].user # Nobody
  BY <1>1 DEF Replies
<1>8. \A t \in Tabs : Routed(tab[t])' /\ TabKnown(tab[t])'
  BY <1>1, <1>2, <1>3
<1>9. \A s \in Slots : fetch'[s].reader = "page" => tab'[fetch'[s].tab].user # Nobody
  BY <1>2, <1>7 DEF Replies
<1>10. BrowserOK'
  BY <1>1, <1>2, <1>6, <1>8, <1>9 DEF BrowserOK
<1> QED
  BY <1>10 DEF Sound

\* Slot s has answer a, if anybody waits for it.
Answers(s, a, G) ==
  /\ fetch' = G /\ G \in [Slots -> Fetches]
  /\ \A r \in Slots \ {s} : G[r] = fetch[r]
  /\ \/ fetch[s].reader = "nobody" /\ G[s] = Idle
     \/ /\ fetch[s].reader # "nobody"
        /\ G[s].at = "served" /\ G[s].op = fetch[s].op /\ G[s].tab = fetch[s].tab
        /\ G[s].reader = fetch[s].reader /\ G[s].item = fetch[s].item
        /\ G[s].ok = a.ok /\ G[s].who = a.who /\ G[s].rows = a.rows
        /\ G[s].session = a.session

AnswerOf(a, f) ==
  [a EXCEPT !.at = "served", !.op = f.op, !.tab = f.tab, !.reader = f.reader,
            !.item = f.item]

LEMMA AnswerFields ==
  ASSUME NEW a \in Fetches, NEW f \in Fetches, NEW g, g = AnswerOf(a, f)
  PROVE  /\ g \in Fetches
         /\ g.at = "served" /\ g.op = f.op /\ g.tab = f.tab /\ g.reader = f.reader
         /\ g.item = f.item /\ g.ok = a.ok /\ g.who = a.who /\ g.rows = a.rows
         /\ g.session = a.session
  BY DEF AnswerOf, Fetches

LEMMA AnswerIs ==
  ASSUME Sound, NEW s \in Slots, NEW a \in Fetches, Answer(s, a)
  PROVE  \E G : Answers(s, a, G)
<1>1. fetch \in [Slots -> Fetches] /\ fetch[s] \in Fetches
  BY DEF Sound, BrowserOK, Fetching
<1>2. PICK g : g = AnswerOf(a, fetch[s])
  OBVIOUS
<1>3. /\ g \in Fetches
      /\ g.at = "served" /\ g.op = fetch[s].op /\ g.tab = fetch[s].tab
      /\ g.reader = fetch[s].reader /\ g.item = fetch[s].item
      /\ g.ok = a.ok /\ g.who = a.who /\ g.rows = a.rows /\ g.session = a.session
  BY <1>1, <1>2, AnswerFields
<1>4. PICK h : h = IF fetch[s].reader = "nobody" THEN Idle ELSE g
  OBVIOUS
<1>5. h \in Fetches
  BY <1>3, <1>4, IdleFields
<1>6. PICK G : G = [fetch EXCEPT ![s] = h]
  OBVIOUS
<1>7. fetch' = G
  BY <1>1, <1>2, <1>4, <1>6 DEF Answer, AnswerOf
<1>8. /\ G \in [Slots -> Fetches] /\ G[s] = h
      /\ \A r \in Slots \ {s} : G[r] = fetch[r]
  BY <1>1, <1>5, <1>6
<1>9. Answers(s, a, G)
  BY <1>3, <1>4, <1>7, <1>8 DEF Answers
<1> QED
  BY <1>9

\* Slot s, which was sent, is served with answer a.
Serves(s, a, G) ==
  /\ fetch[s].at = "sent" /\ a \in Fetches /\ Answers(s, a, G)
  /\ UNCHANGED browser
  /\ Grown /\ SessionsOK' /\ TablesOK'
  /\ fetch[s].op \in {"Me", "SignIn"} /\ a.ok = TRUE => a.who \in Users
  /\ \A i \in DOMAIN a.rows : Exists(i)

LEMMA ServesSound ==
  ASSUME Sound, NEW s \in Slots, NEW a, NEW G, Serves(s, a, G)
  PROVE  Sound'
<1>1. fetch[s] \in Fetches /\ Shaped(fetch[s]) /\ FetchKnown(fetch[s])
  BY DEF Sound, BrowserOK, Fetching
<1>2. CASE fetch[s].reader = "nobody" /\ G[s] = Idle
  <2>1. Shaped(Idle) /\ FetchKnown(Idle)' /\ Idle.reader = "nobody"
    BY IdleFields, IdleFine, Nothings DEF FetchKnown
  <2>2. Replies(G)
    BY <1>2, <2>1 DEF Serves, Answers, Replies
  <2> QED
    BY <2>2, ServerStep DEF Serves
<1>3. CASE /\ fetch[s].reader # "nobody"
           /\ G[s].at = "served" /\ G[s].op = fetch[s].op /\ G[s].tab = fetch[s].tab
           /\ G[s].reader = fetch[s].reader /\ G[s].item = fetch[s].item
           /\ G[s].ok = a.ok /\ G[s].who = a.who /\ G[s].rows = a.rows
  <2>1. Shaped(G[s])
    BY <1>1, <1>3 DEF Shaped, Serves
  <2>2. FetchKnown(G[s])'
    BY <1>1, <1>3, ExistsStays DEF FetchKnown, Serves
  <2>3. Replies(G)
    BY <1>3, <2>1, <2>2 DEF Serves, Answers, Replies
  <2> QED
    BY <2>3, ServerStep DEF Serves
<1> QED
  BY <1>2, <1>3 DEF Serves, Answers

\* The answers.
LEMMA PlainAnswers ==
  /\ OK \in Fetches /\ OK.ok = TRUE /\ DOMAIN OK.rows = {}
  /\ Idle \in Fetches /\ Idle.ok = FALSE /\ DOMAIN Idle.rows = {}
  BY IdleFields, Nothings DEF OK, Idle, Fetches

OKFor(id, u) == [OK EXCEPT !.session = id, !.who = u]

LEMMA SignInAnswer ==
  ASSUME NEW id \in SessionIDs, NEW u \in Users
  PROVE  /\ OKFor(id, u) \in Fetches /\ OKFor(id, u).ok = TRUE
         /\ DOMAIN OKFor(id, u).rows = {}
         /\ OKFor(id, u).session = id /\ OKFor(id, u).who = u
  BY Nothings DEF OKFor, OK, Idle, Fetches, Tokens, People

LEMMA MeAnswer ==
  ASSUME NEW u \in Users, NEW a, a = [OK EXCEPT !.who = u]
  PROVE  a \in Fetches /\ a.ok = TRUE /\ DOMAIN a.rows = {} /\ a.who = u
  BY Nothings DEF OK, Idle, Fetches, People

LEMMA RowsAnswer ==
  ASSUME NEW rows \in Shown, NEW a, a = [OK EXCEPT !.rows = rows]
  PROVE  a \in Fetches /\ a.ok = TRUE /\ a.rows = rows
  BY Nothings DEF OK, Idle, Fetches

\* X-User is a user, who has a session.
LEMMA CallerIs ==
  ASSUME SessionsOK, NEW s
  PROVE  /\ Caller(s) \in People
         /\ Caller(s) # Nobody =>
              /\ fetch[s].token \in SessionIDs /\ owner[fetch[s].token] = Caller(s)
              /\ Caller(s) \in Users
  BY Nothings DEF SessionsOK, Caller, People

LEMMA Stays ==
  ASSUME SessionsOK, TablesOK, UNCHANGED server
  PROVE  Grown /\ SessionsOK' /\ TablesOK'
  BY ServerKeeps DEF server, Grown

\* What the answer says of the server.
Tells(s, a) ==
  /\ fetch[s].op = "Me" /\ a.ok = TRUE => Holds(fetch[s].token, a.who)
  /\ fetch[s].op = "SignIn" /\ a.ok = TRUE => Holds(a.session, a.who)'
  /\ fetch[s].op = "List" => \A i \in DOMAIN a.rows :
       i.kind = "application" /\ ItemOwned(fetch[s].user, i)
  /\ fetch[s].op = "Stages" => \A i \in DOMAIN a.rows :
       i.kind = "stage" /\ stages[i.number].applicationID = fetch[s].number

LEMMA SoundServer ==
  ASSUME Sound, NEW s \in Slots
  PROVE  /\ SessionsOK /\ TablesOK /\ fetch[s] \in Fetches /\ Shaped(fetch[s])
         /\ FetchKnown(fetch[s])
  BY DEF Sound, BrowserOK, Fetching

LEMMA RefuseShape ==
  ASSUME Sound, NEW s \in Slots, Refuse(s)
  PROVE  \E a, G : Serves(s, a, G) /\ Tells(s, a)
<1>1. SessionsOK /\ TablesOK
  BY SoundServer
<1>2. PICK G : Answers(s, Idle, G)
  BY PlainAnswers, AnswerIs DEF Refuse
<1>3. Grown /\ SessionsOK' /\ TablesOK'
  BY <1>1, Stays DEF Refuse
<1>4. Serves(s, Idle, G)
  BY <1>2, <1>3, PlainAnswers DEF Serves, Refuse, Sent
<1>5. Tells(s, Idle)
  BY PlainAnswers DEF Tells, Refuse, Sent
<1> QED
  BY <1>4, <1>5

LEMMA ServeMeShape ==
  ASSUME Sound, NEW s \in Slots, ServeMe(s)
  PROVE  \E a, G : Serves(s, a, G) /\ Tells(s, a)
<1>1. SessionsOK /\ TablesOK
  BY SoundServer
<1>2. PICK u : u = Caller(s)
  OBVIOUS
<1>3. u \in Users /\ fetch[s].token \in SessionIDs /\ owner[fetch[s].token] = u
  BY <1>1, <1>2, CallerIs DEF ServeMe
<1>4. PICK a : a = [OK EXCEPT !.who = u]
  OBVIOUS
<1>5. a \in Fetches /\ a.ok = TRUE /\ DOMAIN a.rows = {} /\ a.who = u
  BY <1>3, <1>4, MeAnswer
<1>6. Answer(s, a)
  BY <1>2, <1>4 DEF ServeMe
<1>7. PICK G : Answers(s, a, G)
  BY <1>5, <1>6, AnswerIs
<1>8. Grown /\ SessionsOK' /\ TablesOK'
  BY <1>1, Stays DEF ServeMe
<1>9. Serves(s, a, G)
  BY <1>3, <1>5, <1>7, <1>8 DEF Serves, ServeMe, Sent
<1>10. Tells(s, a)
  BY <1>3, <1>5 DEF Tells, ServeMe, Sent, Holds
<1> QED
  BY <1>9, <1>10

LEMMA ServeSignInShape ==
  ASSUME Sound, NEW s \in Slots, ServeSignIn(s)
  PROVE  \E a, G : Serves(s, a, G) /\ Tells(s, a)
<1>1. /\ SessionsOK /\ TablesOK /\ fetch[s] \in Fetches /\ Shaped(fetch[s])
  BY SoundServer
<1>2. PICK id \in SessionIDs :
        /\ owner[id] = Nobody
        /\ owner' = [owner EXCEPT ![id] = fetch[s].user]
        /\ live' = live \cup {id}
        /\ Answer(s, [OK EXCEPT !.session = id, !.who = fetch[s].user])
  BY DEF ServeSignIn
<1>3. PICK u : u = fetch[s].user
  OBVIOUS
<1>4. u \in Users
  BY <1>1, <1>3 DEF ServeSignIn, Sent, Shaped
<1>5. PICK a : a = OKFor(id, u)
  OBVIOUS
<1>6. a \in Fetches /\ a.ok = TRUE /\ DOMAIN a.rows = {} /\ a.session = id /\ a.who = u
  BY <1>4, <1>5, SignInAnswer
<1>7. Answer(s, a)
  BY <1>2, <1>3, <1>5 DEF OKFor
<1>8. PICK G : Answers(s, a, G)
  BY <1>6, <1>7, AnswerIs
<1>9. UNCHANGED <<browser, applications, stages, updates>>
  BY DEF ServeSignIn
<1>10. SessionsOK' /\ owner'[id] = u
       /\ \A i \in SessionIDs : owner[i] # Nobody => owner'[i] = owner[i]
  BY <1>1, <1>2, <1>3, <1>4, Nothings DEF SessionsOK, People
<1>11. Grown /\ TablesOK'
  BY <1>1, <1>9, <1>10 DEF Grown, TablesOK, Owns
<1>12. Serves(s, a, G)
  BY <1>4, <1>6, <1>8, <1>9, <1>10, <1>11 DEF Serves, ServeSignIn, Sent
<1>13. Tells(s, a)
  BY <1>2, <1>6, <1>10 DEF Tells, ServeSignIn, Sent, Holds
<1> QED
  BY <1>12, <1>13

LEMMA ServeSignOutShape ==
  ASSUME Sound, NEW s \in Slots, ServeSignOut(s)
  PROVE  \E a, G : Serves(s, a, G) /\ Tells(s, a)
<1>1. SessionsOK /\ TablesOK
  BY SoundServer
<1>2. PICK G : Answers(s, OK, G)
  BY PlainAnswers, AnswerIs DEF ServeSignOut, Accept
<1>3. /\ UNCHANGED <<browser, owner, applications, stages, updates>>
      /\ live' \subseteq live
  BY DEF ServeSignOut
<1>4. Grown /\ SessionsOK' /\ TablesOK'
  BY <1>1, <1>3 DEF Grown, SessionsOK, TablesOK, Owns
<1>5. Serves(s, OK, G)
  BY <1>2, <1>3, <1>4, PlainAnswers DEF Serves, ServeSignOut, Sent
<1>6. Tells(s, OK)
  BY PlainAnswers DEF Tells, ServeSignOut, Sent
<1> QED
  BY <1>5, <1>6

LEMMA ServeListShape ==
  ASSUME Sound, NEW s \in Slots, ServeList(s)
  PROVE  \E a, G : Serves(s, a, G) /\ Tells(s, a)
<1>1. /\ SessionsOK /\ TablesOK /\ fetch[s] \in Fetches
  BY SoundServer
<1>2. PICK items : items = {Application(n) : n \in {m \in DOMAIN applications : Owns(ListedUser(s), m)}}
  OBVIOUS
<1>3. PICK rows : rows = [i \in items |-> applications[i.number].values]
  OBVIOUS
<1>4. PICK m \in 0..MaxRows : applications \in [1..m -> ApplicationRows]
  BY <1>1 DEF TablesOK
<1>5. \A i \in items : /\ i \in Items /\ i.kind = "application"
                       /\ i.number \in DOMAIN applications
                       /\ Owns(fetch[s].user, i.number)
  BY <1>2, <1>4, ClientAssumption DEF Application, Items, ListedUser
<1>6. rows \in Shown /\ DOMAIN rows = items
  <2>1. \A i \in items : applications[i.number].values \in Values
    BY <1>4, <1>5 DEF ApplicationRows
  <2>2. items \in SUBSET Items /\ rows \in [items -> Values]
    BY <1>3, <1>5, <2>1
  <2> QED
    BY <2>2, IsShown
<1>7. PICK a : a = [OK EXCEPT !.rows = rows]
  OBVIOUS
<1>8. a \in Fetches /\ a.ok = TRUE /\ a.rows = rows
  BY <1>6, <1>7, RowsAnswer
<1>9. Answer(s, a)
  BY <1>2, <1>3, <1>7 DEF ServeList
<1>10. PICK G : Answers(s, a, G)
  BY <1>8, <1>9, AnswerIs
<1>11. Grown /\ SessionsOK' /\ TablesOK'
  BY <1>1, Stays DEF ServeList
<1>12. \A i \in DOMAIN a.rows : Exists(i) /\ i.kind = "application" /\ ItemOwned(fetch[s].user, i)
  BY <1>5, <1>6, <1>8 DEF Exists, ItemOwned
<1>13. Serves(s, a, G)
  BY <1>8, <1>10, <1>11, <1>12 DEF Serves, ServeList, Sent
<1>14. Tells(s, a)
  BY <1>12 DEF Tells, ServeList, Sent
<1> QED
  BY <1>13, <1>14

LEMMA ServeStagesShape ==
  ASSUME Sound, NEW s \in Slots, ServeStages(s)
  PROVE  \E a, G : Serves(s, a, G) /\ Tells(s, a)
<1>1. /\ SessionsOK /\ TablesOK /\ fetch[s] \in Fetches
  BY SoundServer
<1>2. PICK items : items = {Stage(n) : n \in {m \in DOMAIN stages : stages[m].applicationID = fetch[s].number}}
  OBVIOUS
<1>3. PICK rows : rows = [i \in items |-> stages[i.number].values]
  OBVIOUS
<1>4. PICK m \in 0..MaxRows : stages \in [1..m -> StageRows]
  BY <1>1 DEF TablesOK
<1>5. \A i \in items : /\ i \in Items /\ i.kind = "stage"
                       /\ i.number \in DOMAIN stages
                       /\ stages[i.number].applicationID = fetch[s].number
  BY <1>2, <1>4, ClientAssumption DEF Stage, Items
<1>6. rows \in Shown /\ DOMAIN rows = items
  <2>1. \A i \in items : stages[i.number].values \in Values
    BY <1>4, <1>5 DEF StageRows
  <2>2. items \in SUBSET Items /\ rows \in [items -> Values]
    BY <1>3, <1>5, <2>1
  <2> QED
    BY <2>2, IsShown
<1>7. PICK a : a = [OK EXCEPT !.rows = rows]
  OBVIOUS
<1>8. a \in Fetches /\ a.ok = TRUE /\ a.rows = rows
  BY <1>6, <1>7, RowsAnswer
<1>9. Answer(s, a)
  BY <1>2, <1>3, <1>7 DEF ServeStages
<1>10. PICK G : Answers(s, a, G)
  BY <1>8, <1>9, AnswerIs
<1>11. Grown /\ SessionsOK' /\ TablesOK'
  BY <1>1, Stays DEF ServeStages
<1>12. \A i \in DOMAIN a.rows :
         /\ Exists(i) /\ i.kind = "stage"
         /\ stages[i.number].applicationID = fetch[s].number
  BY <1>5, <1>6, <1>8 DEF Exists
<1>13. Serves(s, a, G)
  BY <1>8, <1>10, <1>11, <1>12 DEF Serves, ServeStages, Sent
<1>14. Tells(s, a)
  BY <1>12 DEF Tells, ServeStages, Sent
<1> QED
  BY <1>13, <1>14

\* A row is appended to a table.
LEMMA Inserted ==
  ASSUME NEW R, NEW n \in Nat, NEW table \in [1..n -> R], NEW row \in R
  PROVE  /\ Insert(table, row) \in [1..(n + 1) -> R]
         /\ Insert(table, row)[n + 1] = row
         /\ \A m \in 1..n : Insert(table, row)[m] = table[m]
         /\ Cardinality(DOMAIN table) = n
<1>1. Cardinality(1..n) = n
  BY FS_Interval
<1>2. DOMAIN table = 1..n /\ Cardinality(DOMAIN table) = n
  BY <1>1
<1>3. Insert(table, row) = [m \in (1..n) \cup {n + 1} |-> IF m = n + 1 THEN row ELSE table[m]]
  BY <1>2 DEF Insert
<1>4. (1..n) \cup {n + 1} = 1..(n + 1)
  OBVIOUS
<1> QED
  BY <1>2, <1>3, <1>4

\* The rows are those of Tracker: one more, by a user, for an application of hers.
CreatesApplication(u) ==
  /\ u \in Users /\ UNCHANGED stages
  /\ \E n \in 0..MaxRows, m \in 0..MaxRows :
       /\ m = n + 1 /\ DOMAIN applications = 1..n /\ DOMAIN applications' = 1..m
       /\ applications'[m].author = u
       /\ \A i \in 1..n : applications'[i] = applications[i]

CreatesStage(u) ==
  /\ u \in Users /\ UNCHANGED applications
  /\ \E n \in 0..MaxRows, m \in 0..MaxRows :
       /\ m = n + 1 /\ DOMAIN stages = 1..n /\ DOMAIN stages' = 1..m
       /\ stages'[m].author = u /\ Owns(u, stages'[m].applicationID)
       /\ \A i \in 1..n : stages'[i] = stages[i]

LEMMA ServeCreateShape ==
  ASSUME Sound, NEW s \in Slots, ServeCreate(s)
  PROVE  /\ \E a, G : Serves(s, a, G) /\ Tells(s, a)
         /\ CreatesApplication(Caller(s)) \/ CreatesStage(Caller(s))
<1>1. SessionsOK /\ TablesOK /\ fetch[s] \in Fetches /\ Shaped(fetch[s])
  BY SoundServer
<1>2. /\ fetch[s].at = "sent" /\ fetch[s].op = "Create"
      /\ UNCHANGED <<browser, owner, live, updates>>
  BY DEF ServeCreate, Sent
<1>3. /\ fetch[s].user \in Users /\ fetch[s].number \in 0..MaxRows
      /\ fetch[s].values \in Values
  BY <1>1, <1>2, FetchFields DEF Shaped
<1>4. PICK u : u = Caller(s)
  OBVIOUS
<1>5. u \in Users
  BY <1>1, <1>4, CallerIs DEF ServeCreate
<1>6. PICK n \in 0..MaxRows : applications \in [1..n -> ApplicationRows]
  BY <1>1 DEF TablesOK
<1>7. PICK k \in 0..MaxRows : stages \in [1..k -> StageRows]
  BY <1>1 DEF TablesOK
<1>8. MaxRows \in Nat
  BY ClientAssumption
<1>9. PICK G : Answers(s, OK, G)
  BY PlainAnswers, AnswerIs DEF ServeCreate, Accept
<1>10. /\ Grown /\ TablesOK'
       /\ CreatesApplication(u) \/ CreatesStage(u)
  <2>1. CASE /\ Cardinality(DOMAIN applications) < MaxRows
             /\ applications' = Insert(applications,
                  [userID |-> fetch[s].user, author |-> Caller(s), values |-> fetch[s].values])
             /\ UNCHANGED stages
    <3>1. PICK row : row = [userID |-> fetch[s].user, author |-> u, values |-> fetch[s].values]
      OBVIOUS
    <3>2. row \in ApplicationRows /\ row.author = u
      BY <1>3, <1>5, <3>1 DEF ApplicationRows
    <3>3. PICK new : new = Insert(applications, row)
      OBVIOUS
    <3>4. /\ new \in [1..(n + 1) -> ApplicationRows] /\ new[n + 1] = row
          /\ \A m \in 1..n : new[m] = applications[m]
          /\ Cardinality(DOMAIN applications) = n
      <4>1. n \in Nat
        BY <1>8
      <4>2. /\ Insert(applications, row) \in [1..(n + 1) -> ApplicationRows]
            /\ Insert(applications, row)[n + 1] = row
            /\ \A m \in 1..n : Insert(applications, row)[m] = applications[m]
            /\ Cardinality(DOMAIN applications) = n
        BY <1>6, <3>2, <4>1, Inserted
      <4> QED
        BY <3>3, <4>2
    <3>5. applications' = new
      BY <1>4, <2>1, <3>1, <3>3
    <3>6. n + 1 \in 0..MaxRows
      BY <1>8, <2>1, <3>4
    <3>7. Grown
      <4>1. DOMAIN applications = 1..n /\ DOMAIN applications' = 1..(n + 1)
        BY <1>6, <3>4, <3>5
      <4>2. 1..n \subseteq 1..(n + 1)
        BY <1>8
      <4>3. \A m \in 1..n : applications'[m].userID = applications[m].userID
        BY <3>4, <3>5
      <4>4. stages' = stages /\ owner' = owner
        BY <1>2, <2>1
      <4> QED
        BY <4>1, <4>2, <4>3, <4>4 DEF Grown
    <3>8. /\ \E m \in 0..MaxRows : applications' \in [1..m -> ApplicationRows]
          /\ \E m \in 0..MaxRows : stages' \in [1..m -> StageRows]
      BY <1>7, <2>1, <3>4, <3>5, <3>6
    <3>9. TablesOK'
      BY <1>1, <1>2, <3>7, <3>8 DEF TablesOK, Grown, Owns
    <3>10. CreatesApplication(u)
      BY <1>5, <1>6, <2>1, <3>2, <3>4, <3>5, <3>6 DEF CreatesApplication
    <3> QED
      BY <3>7, <3>9, <3>10
  <2>2. CASE /\ Cardinality(DOMAIN stages) < MaxRows
             /\ Owns(Caller(s), fetch[s].number)
             /\ stages' = Insert(stages,
                  [applicationID |-> fetch[s].number, author |-> Caller(s), values |-> fetch[s].values])
             /\ UNCHANGED applications
    <3>1. PICK row : row = [applicationID |-> fetch[s].number, author |-> u, values |-> fetch[s].values]
      OBVIOUS
    <3>2. fetch[s].number \in Numbers
      BY <1>3, <1>6, <1>8, <2>2 DEF Owns, Numbers
    <3>3. /\ row \in StageRows /\ row.author = u
          /\ row.applicationID = fetch[s].number
      BY <1>3, <1>5, <3>1, <3>2 DEF StageRows
    <3>4. PICK new : new = Insert(stages, row)
      OBVIOUS
    <3>5. /\ new \in [1..(k + 1) -> StageRows] /\ new[k + 1] = row
          /\ \A m \in 1..k : new[m] = stages[m]
          /\ Cardinality(DOMAIN stages) = k
      <4>1. k \in Nat
        BY <1>8
      <4>2. /\ Insert(stages, row) \in [1..(k + 1) -> StageRows]
            /\ Insert(stages, row)[k + 1] = row
            /\ \A m \in 1..k : Insert(stages, row)[m] = stages[m]
            /\ Cardinality(DOMAIN stages) = k
        BY <1>7, <3>3, <4>1, Inserted
      <4> QED
        BY <3>4, <4>2
    <3>6. stages' = new
      BY <1>4, <2>2, <3>1, <3>4
    <3>7. k + 1 \in 0..MaxRows
      BY <1>8, <2>2, <3>5
    <3>8. Grown
      <4>1. DOMAIN stages = 1..k /\ DOMAIN stages' = 1..(k + 1)
        BY <1>7, <3>5, <3>6
      <4>2. 1..k \subseteq 1..(k + 1)
        BY <1>8
      <4>3. \A m \in 1..k : stages'[m].applicationID = stages[m].applicationID
        BY <3>5, <3>6
      <4>4. applications' = applications /\ owner' = owner
        BY <1>2, <2>2
      <4> QED
        BY <4>1, <4>2, <4>3, <4>4 DEF Grown
    <3>9. /\ \E m \in 0..MaxRows : applications' \in [1..m -> ApplicationRows]
          /\ \E m \in 0..MaxRows : stages' \in [1..m -> StageRows]
      BY <1>6, <2>2, <3>5, <3>6, <3>7
    <3>10. TablesOK'
      BY <1>1, <1>2, <3>8, <3>9 DEF TablesOK, Grown, Owns
    <3>11. CreatesStage(u)
      BY <1>4, <1>5, <1>7, <2>2, <3>3, <3>5, <3>6, <3>7 DEF CreatesStage
    <3> QED
      BY <3>8, <3>10, <3>11
  <2> QED
    BY <2>1, <2>2 DEF ServeCreate
<1>11. SessionsOK'
  BY <1>1, <1>2 DEF SessionsOK
<1>12. Serves(s, OK, G)
  BY <1>2, <1>9, <1>10, <1>11, PlainAnswers DEF Serves
<1>13. Tells(s, OK)
  BY <1>2, PlainAnswers DEF Tells
<1> QED
  BY <1>4, <1>10, <1>12, <1>13

\* The author of row n of a table changes to u.
EditsStage(u) ==
  /\ u \in Users /\ UNCHANGED applications
  /\ \E n \in DOMAIN stages :
       /\ Owns(u, stages[n].applicationID)
       /\ DOMAIN stages' = DOMAIN stages
       /\ stages'[n].author = u /\ stages'[n].applicationID = stages[n].applicationID
       /\ \A i \in DOMAIN stages \ {n} : stages'[i] = stages[i]

EditsApplication(u) ==
  /\ u \in Users /\ UNCHANGED stages
  /\ \E n \in DOMAIN applications :
       /\ Owns(u, n)
       /\ DOMAIN applications' = DOMAIN applications
       /\ applications'[n].author = u /\ applications'[n].userID = applications[n].userID
       /\ \A i \in DOMAIN applications \ {n} : applications'[i] = applications[i]

StageOf(row, u, values) == [row EXCEPT !.author = u, !.values = values]

LEMMA StageEdited ==
  ASSUME NEW row \in StageRows, NEW u \in Users, NEW values \in Values,
         NEW new, new = StageOf(row, u, values)
  PROVE  new \in StageRows /\ new.author = u /\ new.applicationID = row.applicationID
  BY DEF StageOf, StageRows

LEMMA ApplicationEdited ==
  ASSUME NEW row \in ApplicationRows, NEW u \in Users, NEW values \in Values,
         NEW new, new = StageOf(row, u, values)
  PROVE  new \in ApplicationRows /\ new.author = u /\ new.userID = row.userID
  BY DEF StageOf, ApplicationRows

LEMMA ServePatchShape ==
  ASSUME Sound, NEW s \in Slots, ServePatch(s)
  PROVE  /\ \E a, G : Serves(s, a, G) /\ Tells(s, a)
         /\ UNCHANGED <<applications, stages>> \/ EditsStage(Caller(s))
<1>1. /\ SessionsOK /\ TablesOK /\ fetch[s] \in Fetches /\ Shaped(fetch[s])
      /\ FetchKnown(fetch[s])
  BY SoundServer
<1>2. /\ fetch[s].at = "sent" /\ fetch[s].op = "Patch"
      /\ UNCHANGED <<browser, owner, live, applications>>
  BY DEF ServePatch, Sent
<1>3. /\ fetch[s].item \in Items /\ fetch[s].values \in Values
      /\ fetch[s].edited \in SUBSET Fields /\ Exists(fetch[s].item)
  BY <1>1, <1>2, FetchFields DEF FetchKnown
<1>4. PICK u : u = Caller(s)
  OBVIOUS
<1>5. PICK n : n = fetch[s].item.number
  OBVIOUS
<1>6. PICK m \in 0..MaxRows : applications \in [1..m -> ApplicationRows]
  BY <1>1 DEF TablesOK
<1>7. PICK k \in 0..MaxRows : stages \in [1..k -> StageRows]
  BY <1>1 DEF TablesOK
<1>8. MaxRows \in Nat
  BY ClientAssumption
<1>9. PICK G : Answers(s, OK, G)
  BY PlainAnswers, AnswerIs DEF ServePatch, Accept
<1>10. Owns(u, Parent(fetch[s].item, fetch[s].number))
  BY <1>4 DEF ServePatch, MayEdit
<1>11. u \in Users
  <2>1. PICK j \in DOMAIN applications : applications[j].userID = u
    BY <1>10 DEF Owns
  <2> QED
    BY <1>6, <2>1 DEF ApplicationRows
<1>12. /\ Grown /\ TablesOK'
       /\ UNCHANGED <<applications, stages>> \/ EditsStage(u)
  <2>1. CASE /\ fetch[s].item.kind = "application"
             /\ updates' = updates \cup {[number |-> n, user |-> Caller(s),
                  values |-> fetch[s].values, edited |-> fetch[s].edited]}
             /\ UNCHANGED stages
    <3>1. PICK e : e = [number |-> n, user |-> u, values |-> fetch[s].values,
                        edited |-> fetch[s].edited]
      OBVIOUS
    <3>2. Owns(u, n) /\ n \in Numbers
      BY <1>3, <1>5, <1>6, <1>8, <1>10, <2>1 DEF Parent, Exists, Numbers
    <3>3. e \in Edits /\ e.user = u /\ e.number = n
      BY <1>3, <1>11, <3>1, <3>2 DEF Edits
    <3>4. updates' = updates \cup {e}
      BY <1>4, <2>1, <3>1
    <3>5. updates' \subseteq Edits /\ \A v \in updates' : Owns(v.user, v.number)
      BY <1>1, <3>2, <3>3, <3>4 DEF TablesOK
    <3>6. Grown
      BY <1>2, <2>1 DEF Grown
    <3>7. TablesOK'
      BY <1>2, <1>6, <1>7, <2>1, <3>5 DEF TablesOK, Owns
    <3> QED
      BY <1>2, <2>1, <3>6, <3>7
  <2>2. CASE /\ fetch[s].item.kind = "stage"
             /\ stages' = [stages EXCEPT ![n].author = Caller(s), ![n].values = fetch[s].values]
             /\ UNCHANGED updates
    <3>1. n \in 1..k
      BY <1>3, <1>5, <1>7, <2>2 DEF Exists
    <3>2. Owns(u, stages[n].applicationID)
      <4>1. Parent(fetch[s].item, fetch[s].number) = stages[n].applicationID
        BY <1>5, <1>7, <1>8, <2>2, <3>1 DEF Parent
      <4> QED
        BY <1>10, <4>1
    <3>3. PICK row : row = StageOf(stages[n], u, fetch[s].values)
      OBVIOUS
    <3>4. row \in StageRows /\ row.author = u /\ row.applicationID = stages[n].applicationID
      BY <1>3, <1>7, <1>11, <3>1, <3>3, StageEdited
    <3>5. /\ stages' = [i \in 1..k |-> stages'[i]]
          /\ stages'[n] = row /\ \A i \in (1..k) \ {n} : stages'[i] = stages[i]
      BY <1>4, <1>7, <2>2, <3>1, <3>3 DEF StageOf
    <3>6. stages' \in [1..k -> StageRows]
      BY <1>7, <3>4, <3>5
    <3>7. Grown
      BY <1>2, <1>7, <3>4, <3>5 DEF Grown
    <3>8. TablesOK'
      BY <1>1, <1>2, <1>6, <1>7, <2>2, <3>6 DEF TablesOK, Owns
    <3>9. EditsStage(u)
      BY <1>2, <1>7, <1>11, <3>1, <3>2, <3>4, <3>5 DEF EditsStage
    <3> QED
      BY <3>7, <3>8, <3>9
  <2> QED
    BY <1>5, <2>1, <2>2 DEF ServePatch
<1>13. SessionsOK'
  BY <1>1, <1>2 DEF SessionsOK
<1>14. Serves(s, OK, G)
  BY <1>2, <1>9, <1>12, <1>13, PlainAnswers DEF Serves
<1>15. Tells(s, OK)
  BY <1>2, PlainAnswers DEF Tells
<1> QED
  BY <1>4, <1>12, <1>14, <1>15

\* Nothing is answered.
Quiet == UNCHANGED <<browser, fetch>> /\ Grown /\ SessionsOK' /\ TablesOK'

LEMMA ExpireShape ==
  ASSUME Sound, Expire
  PROVE  Quiet /\ UNCHANGED <<applications, stages>>
<1>1. SessionsOK /\ TablesOK
  BY DEF Sound
<1>2. /\ UNCHANGED <<browser, fetch, owner, applications, stages, updates>>
      /\ live' \subseteq live
  BY DEF Expire
<1>3. Grown
  BY <1>2 DEF Grown
<1>4. SessionsOK' /\ TablesOK'
  BY <1>1, <1>2 DEF SessionsOK, TablesOK, Owns
<1> QED
  BY <1>2, <1>3, <1>4 DEF Quiet

LEMMA UpdateShape ==
  ASSUME Sound, Update
  PROVE  /\ Quiet
         /\ \/ UNCHANGED <<applications, stages>>
            \/ \E e \in updates : EditsApplication(e.user)
<1>1. SessionsOK /\ TablesOK
  BY DEF Sound
<1>2. PICK e \in updates :
        /\ updates' = updates \ {e}
        /\ \/ applications' = [applications EXCEPT ![e.number].author = e.user,
                                                   ![e.number].values = e.values]
           \/ UNCHANGED applications
        /\ UNCHANGED <<browser, fetch, owner, live, stages>>
  BY DEF Update
<1>3. /\ e.user \in Users /\ e.values \in Values /\ Owns(e.user, e.number)
  BY <1>1 DEF TablesOK, Edits
<1>4. PICK m \in 0..MaxRows : applications \in [1..m -> ApplicationRows]
  BY <1>1 DEF TablesOK
<1>5. e.number \in 1..m
  BY <1>3, <1>4 DEF Owns
<1>6. SessionsOK'
  BY <1>1, <1>2 DEF SessionsOK
<1>7. /\ Grown
      /\ \E j \in 0..MaxRows : applications' \in [1..j -> ApplicationRows]
      /\ \/ UNCHANGED <<applications, stages>>
         \/ EditsApplication(e.user)
  <2>1. CASE applications' = [applications EXCEPT ![e.number].author = e.user,
                                                  ![e.number].values = e.values]
    <3>1. PICK row : row = StageOf(applications[e.number], e.user, e.values)
      OBVIOUS
    <3>2. row \in ApplicationRows /\ row.author = e.user
          /\ row.userID = applications[e.number].userID
      BY <1>3, <1>4, <1>5, <3>1, ApplicationEdited
    <3>3. /\ applications' = [i \in 1..m |-> applications'[i]]
          /\ applications'[e.number] = row
          /\ \A i \in (1..m) \ {e.number} : applications'[i] = applications[i]
      BY <1>4, <1>5, <2>1, <3>1 DEF StageOf
    <3>4. applications' \in [1..m -> ApplicationRows]
      BY <1>4, <3>2, <3>3
    <3>5. Grown
      BY <1>2, <1>4, <3>2, <3>3 DEF Grown
    <3>6. EditsApplication(e.user)
      BY <1>2, <1>3, <1>4, <1>5, <3>2, <3>3 DEF EditsApplication
    <3> QED
      BY <3>4, <3>5, <3>6
  <2>2. CASE UNCHANGED applications
    <3>1. Grown
      BY <1>2, <2>2 DEF Grown
    <3> QED
      BY <1>2, <1>4, <2>2, <3>1
  <2> QED
    BY <1>2, <2>1, <2>2
<1>8. \A v \in updates' : Owns(v.user, v.number)'
  BY <1>1, <1>2, <1>7 DEF TablesOK, Grown, Owns
<1>9. TablesOK'
  BY <1>1, <1>2, <1>7, <1>8 DEF TablesOK, Owns
<1> QED
  BY <1>2, <1>6, <1>7, <1>9 DEF Quiet

LEMMA QuietSound ==
  ASSUME Sound, Quiet
  PROVE  Sound'
<1>1. Replies(fetch)
  BY DEF Replies, Quiet, Sound, BrowserOK, Fetching
<1> QED
  BY <1>1, ServerStep DEF Quiet

LEMMA NoEffectSound ==
  ASSUME Sound, NEW s \in Slots, NoEffect(s)
  PROVE  Sound'
<1>1. SessionsOK /\ TablesOK /\ Fetching(fetch)
  BY DEF Sound, BrowserOK
<1>2. Grown /\ SessionsOK' /\ TablesOK'
  BY <1>1, Stays DEF NoEffect
<1>3. PICK G : G = [fetch EXCEPT ![s] = Idle]
  OBVIOUS
<1>4. Fetching(G) /\ G[s] = Idle
  BY <1>1, <1>3, Cleared
<1>5. \A r \in Slots \ {s} : G[r] = fetch[r]
  BY <1>1, <1>3 DEF Fetching
<1>6. Shaped(Idle) /\ FetchKnown(Idle)' /\ Idle.reader = "nobody"
  BY IdleFields, IdleFine, Nothings DEF FetchKnown
<1>7. Replies(G)
  BY <1>3, <1>4, <1>5, <1>6 DEF Replies, NoEffect, Fetching
<1> QED
  BY <1>2, <1>7, ServerStep DEF NoEffect

-----------------------------------------------------------------------------
(* Sound is inductive. *)

LEMMA SoundInit ==
  ASSUME Init
  PROVE  Sound
<1> USE DEF Init
<1>1. SessionsOK
  BY Nothings DEF SessionsOK, People
<1>2. TablesOK
  <2>1. \A R : Nothing \in [1..0 -> R]
    BY DEF Nothing
  <2>2. 0 \in 0..MaxRows
    BY Nothings
  <2> QED
    BY <2>1, <2>2 DEF TablesOK
<1>3. BrowserOK
  <2>1. Fetching(fetch) /\ \A s \in Slots : fetch[s].reader = "nobody"
    BY IdleFields, IdleFine DEF Fetching
  <2>2. tab \in [Tabs -> TabStates] /\ \A t \in Tabs : Routed(tab[t]) /\ TabKnown(tab[t])
    BY PublicAlone, Known0 DEF Routed
  <2> QED
    BY <2>1, <2>2, Nothings DEF BrowserOK
<1> QED
  BY <1>1, <1>2, <1>3 DEF Sound

LEMMA ClickSound ==
  ASSUME Sound, NEW t \in Tabs, Click(t)
  PROVE  Sound'
<1>1. CASE Load(t)
  BY <1>1, LoadSound
<1>2. CASE SubmitForm(t)
  BY <1>2, SubmitFormShape, AppAsksSound
<1>3. CASE ClickSignOut(t)
  BY <1>3, ClickSignOutShape, AppAsksSound
<1>4. CASE Back(t)
  BY <1>4, BackShape, TurnsOwnSound
<1>5. CASE OpenApplication(t)
  BY <1>5, OpenApplicationShape, TurnsOwnSound
<1>6. CASE OpenForm(t)
  BY <1>6, OpenFormShape, OpensSound
<1>7. CASE handleSubmit(t)
  BY <1>7, handleSubmitShape, SubmitsSound
<1> QED
  BY <1>1, <1>2, <1>3, <1>4, <1>5, <1>6, <1>7 DEF Click

LEMMA ReceiveSound ==
  ASSUME Sound, NEW s \in Slots, Receive(s)
  PROVE  Sound'
<1>1. CASE SignedIn(s)
  BY <1>1, SignedInShape, EntersSound
<1>2. CASE SetUser(s)
  BY <1>2, SetUserShape, WelcomesSound
<1>3. CASE NotVerified(s)
  BY <1>3, LeavesShape, LeavesSound DEF NotVerified
<1>4. CASE SignOutAnswered(s)
  BY <1>4, LeavesShape, LeavesSound DEF SignOutAnswered
<1>5. CASE NoEffect(s)
  BY <1>5, NoEffectSound
<1>6. CASE Loaded(s)
  BY <1>6, LoadedShape, ShowsSound
<1>7. CASE Saved(s)
  BY <1>7, SavedShape, TurnsOwnSound
<1> QED
  BY <1>1, <1>2, <1>3, <1>4, <1>5, <1>6, <1>7 DEF Receive

LEMMA ServeShape ==
  ASSUME Sound, NEW s \in Slots, Serve(s)
  PROVE  \E a, G : Serves(s, a, G) /\ Tells(s, a)
  BY RefuseShape, ServeSignInShape, ServeMeShape, ServeSignOutShape,
     ServeListShape, ServeStagesShape, ServeCreateShape, ServePatchShape DEF Serve

LEMMA SoundNext ==
  ASSUME Sound, [Next]_vars
  PROVE  Sound'
<1>1. ASSUME NEW t \in Tabs, Click(t) PROVE Sound'
  BY <1>1, ClickSound
<1>2. ASSUME NEW s \in Slots, Receive(s) PROVE Sound'
  BY <1>2, ReceiveSound
<1>3. ASSUME NEW s \in Slots, Serve(s) PROVE Sound'
  BY <1>3, ServeShape, ServesSound
<1>4. CASE Expire
  BY <1>4, ExpireShape, QuietSound
<1>5. CASE Update
  BY <1>5, UpdateShape, QuietSound
<1>6. CASE UNCHANGED vars
  <2>1. UNCHANGED <<browser, fetch>> /\ UNCHANGED server
    BY <1>6 DEF vars, browser, server
  <2>2. SessionsOK /\ TablesOK
    BY DEF Sound
  <2>3. Quiet
    BY <2>1, <2>2, Stays DEF Quiet
  <2> QED
    BY <2>3, QuietSound
<1> QED
  BY <1>1, <1>2, <1>3, <1>4, <1>5, <1>6 DEF Next

-----------------------------------------------------------------------------
(* Rows change as in Tracker. *)

LEMMA Creation ==
  ASSUME NEW u, CreatesApplication(u)
  PROVE  Rows!Next
<1>1. PICK n \in 0..MaxRows, m \in 0..MaxRows :
        /\ m = n + 1 /\ DOMAIN applications = 1..n /\ DOMAIN applications' = 1..m
        /\ applications'[m].author = u
        /\ \A i \in 1..n : applications'[i] = applications[i]
  BY DEF CreatesApplication
<1>2. n \in Nat /\ m \in Nat
  BY ClientAssumption
<1>3. m \notin 1..n /\ 1..m = (1..n) \cup {m} /\ m \in 1..m
  BY <1>1, <1>2
<1>4. UNCHANGED stages /\ u \in Users
  BY DEF CreatesApplication
<1>5. Rows!AddApplication(u, m)
  BY <1>1, <1>3, <1>4 DEF Rows!AddApplication, Rows!SameBut
<1> QED
  BY <1>1, <1>3, <1>4, <1>5 DEF Rows!Next

LEMMA StageCreation ==
  ASSUME NEW u, CreatesStage(u)
  PROVE  Rows!Next
<1>1. PICK n \in 0..MaxRows, m \in 0..MaxRows :
        /\ m = n + 1 /\ DOMAIN stages = 1..n /\ DOMAIN stages' = 1..m
        /\ stages'[m].author = u /\ Owns(u, stages'[m].applicationID)
        /\ \A i \in 1..n : stages'[i] = stages[i]
  BY DEF CreatesStage
<1>2. n \in Nat /\ m \in Nat
  BY ClientAssumption
<1>3. m \notin 1..n /\ 1..m = (1..n) \cup {m} /\ m \in 1..m
  BY <1>1, <1>2
<1>4. UNCHANGED applications /\ u \in Users
  BY DEF CreatesStage
<1>5. Rows!AddStage(u, m)
  BY <1>1, <1>3, <1>4 DEF Rows!AddStage, Rows!SameBut, Rows!Owns, Owns
<1> QED
  BY <1>1, <1>3, <1>4, <1>5 DEF Rows!Next

LEMMA Edit ==
  ASSUME NEW u, EditsApplication(u)
  PROVE  Rows!Next
<1>1. PICK n \in DOMAIN applications :
        /\ Owns(u, n)
        /\ DOMAIN applications' = DOMAIN applications
        /\ applications'[n].author = u /\ applications'[n].userID = applications[n].userID
        /\ \A i \in DOMAIN applications \ {n} : applications'[i] = applications[i]
  BY DEF EditsApplication
<1>2. UNCHANGED stages /\ u \in Users
  BY DEF EditsApplication
<1>3. Rows!EditApplication(u, n)
  BY <1>1, <1>2 DEF Rows!EditApplication, Rows!Owns, Owns
<1> QED
  BY <1>1, <1>2, <1>3 DEF Rows!Next

LEMMA StageEdit ==
  ASSUME NEW u, EditsStage(u)
  PROVE  Rows!Next
<1>1. PICK n \in DOMAIN stages :
        /\ Owns(u, stages[n].applicationID)
        /\ DOMAIN stages' = DOMAIN stages
        /\ stages'[n].author = u /\ stages'[n].applicationID = stages[n].applicationID
        /\ \A i \in DOMAIN stages \ {n} : stages'[i] = stages[i]
  BY DEF EditsStage
<1>2. UNCHANGED applications /\ u \in Users
  BY DEF EditsStage
<1>3. Rows!EditStage(u, n)
  BY <1>1, <1>2 DEF Rows!EditStage, Rows!OwnsStage, Rows!Owns, Owns
<1> QED
  BY <1>1, <1>2, <1>3 DEF Rows!Next

LEMMA RowsStep ==
  ASSUME Sound, [Next]_vars
  PROVE  [Rows!Next]_Rows!vars
<1>1. CASE UNCHANGED <<applications, stages>>
  BY <1>1 DEF Rows!vars
<1>2. ASSUME NEW t \in Tabs, Click(t) PROVE UNCHANGED <<applications, stages>>
  BY <1>2 DEF Click, Load, LoadAs, SubmitForm, ClickSignOut, Back, OpenApplication,
              OpenForm, handleSubmit, server
<1>3. ASSUME NEW s \in Slots, Receive(s) PROVE UNCHANGED <<applications, stages>>
  BY <1>3 DEF Receive, SignedIn, SetUser, NotVerified, SignOutAnswered, NoEffect,
              Loaded, Saved, server
<1>4. ASSUME NEW s \in Slots, Serve(s)
      PROVE  UNCHANGED <<applications, stages>> \/ Rows!Next
  <2>1. CASE ServeCreate(s)
    BY <2>1, ServeCreateShape, Creation, StageCreation
  <2>2. CASE ServePatch(s)
    BY <2>2, ServePatchShape, StageEdit
  <2>3. CASE \/ Refuse(s) \/ ServeSignIn(s) \/ ServeMe(s) \/ ServeSignOut(s)
             \/ ServeList(s) \/ ServeStages(s)
    BY <2>3 DEF Refuse, ServeSignIn, ServeMe, ServeSignOut, ServeList, ServeStages, server
  <2> QED
    BY <1>4, <2>1, <2>2, <2>3 DEF Serve
<1>5. CASE Expire
  BY <1>5, <1>1, ExpireShape
<1>6. CASE Update
  BY <1>6, <1>1, UpdateShape, Edit
<1>7. CASE UNCHANGED vars
  BY <1>7, <1>1 DEF vars
<1> QED
  BY <1>1, <1>2, <1>3, <1>4, <1>5, <1>6, <1>7 DEF Next

-----------------------------------------------------------------------------
(* What holds of every instance. *)

\* Whatever the users press and however late answers come, each fetch under way is
\* of a known kind and stage, and all that tabs and fetches refer to is there.
THEOREM Inductive == Spec => []Sound
<1>1. Init => Sound
  BY SoundInit
<1>2. Sound /\ [Next]_vars => Sound'
  BY SoundNext
<1> QED
  BY <1>1, <1>2, PTL DEF Spec

\* A tab shows the pages of a user while it has one, and rows that exist (App.js:153-171).
THEOREM Typing == Spec => []TypeOK
<1>1. Sound => TypeOK
  <2> SUFFICES ASSUME Sound PROVE TypeOK
    OBVIOUS
  <2>1. /\ token \in SessionIDs \cup {NoToken}
        /\ tab \in [Tabs -> TabStates]
    BY DEF Sound, BrowserOK, Tokens
  <2>2. ASSUME NEW t \in Tabs
        PROVE  /\ tab[t].user # Nobody <=> tab[t].view \in {"dashboard", "application", "form"}
               /\ \A i \in DOMAIN tab[t].seen : Exists(i)
    <3>1. Routed(tab[t]) /\ TabKnown(tab[t]) /\ tab[t] \in TabStates
      BY TabOf
    <3>2. tab[t].view \in {"public", "dashboard", "application", "form"}
      BY <3>1, TabFields
    <3> QED
      BY <3>1, <3>2 DEF Routed, TabKnown
  <2>3. ASSUME NEW s \in Slots, fetch[s].op = "Patch" PROVE Exists(fetch[s].item)
    BY <2>3 DEF Sound, BrowserOK, Fetching, FetchKnown
  <2>4. /\ live \subseteq {s \in SessionIDs : owner[s] # Nobody}
        /\ \A u \in updates : u.number \in DOMAIN applications
    BY DEF Sound, SessionsOK, TablesOK, Owns
  <2> QED
    BY <2>1, <2>2, <2>3, <2>4 DEF TypeOK
<1> QED
  BY <1>1, Inductive, PTL

\* With tabs that keep forms while the token changes hands and sessions end, every
\* change of a row is one of Tracker's (AddEditApplicationPage.js:43,
\* applications.ts:65).
THEOREM RowsChange == Spec => RowsChangeAsInTracker
<1>1. Sound /\ [Next]_vars => [Rows!Next]_Rows!vars
  BY RowsStep
<1> QED
  BY <1>1, Inductive, PTL DEF Spec, RowsChangeAsInTracker

-----------------------------------------------------------------------------
(* Honest, of an instance with users who wait for sign-ins and sign-outs. *)

LEMMA HoldsStays ==
  ASSUME Grown, NEW id, NEW u, u # Nobody, Holds(id, u)
  PROVE  Holds(id, u)'
  BY DEF Grown, Holds

LEMMA OwnsStays ==
  ASSUME Grown, NEW u, NEW n, Owns(u, n)
  PROVE  Owns(u, n)'
  BY DEF Grown, Owns

LEMMA ItemOwnedStays ==
  ASSUME Grown, NEW u, NEW i, Exists(i), ItemOwned(u, i)
  PROVE  ItemOwned(u, i)'
<1>1. CASE i.kind = "application"
  BY <1>1, OwnsStays DEF ItemOwned
<1>2. CASE i.kind # "application"
  <2>1. i.number \in DOMAIN stages /\ Owns(u, stages[i.number].applicationID)
    BY <1>2 DEF Exists, ItemOwned
  <2>2. Owns(u, stages[i.number].applicationID)' 
    BY <2>1 DEF Grown, Owns
  <2> QED
    BY <1>2, <2>2 DEF ItemOwned
<1> QED
  BY <1>1, <1>2

LEMMA SeesStays ==
  ASSUME Grown, NEW x, TabKnown(x), Sees(x)
  PROVE  Sees(x)'
<1>1. x.user # Nobody => Holds(x.authToken, x.user)'
  BY HoldsStays DEF Sees
<1>2. x.number # 0 => Owns(x.user, x.number)'
  BY OwnsStays DEF Sees
<1>3. \A i \in DOMAIN x.seen :
        ItemOwned(x.user, i)' /\ (x.view = "dashboard" => i.kind = "application")
  BY ItemOwnedStays DEF Sees, TabKnown
<1> QED
  BY <1>1, <1>2, <1>3 DEF Sees

LEMMA ReadsStays ==
  ASSUME Grown, NEW f, Shaped(f), FetchKnown(f), NEW x, Reads(f, x)
  PROVE  Reads(f, x)'
<1>1. CASE f.op = "Me"
  <2>1. f.at = "served" /\ f.ok = TRUE => Holds(x.authToken, f.who)'
    BY <1>1, HoldsStays, Nothings DEF Reads, ReadsMe, Shaped
  <2> QED
    BY <1>1, <2>1 DEF Reads, ReadsMe
<1>2. CASE f.op = "SignIn"
  <2>1. f.at = "served" /\ f.ok = TRUE => Holds(f.session, f.who)'
    BY <1>2, HoldsStays, Nothings DEF Reads, ReadsSignIn, Shaped
  <2>2. f.at = "body" => Holds(x.authToken, f.who)'
    BY <1>2, HoldsStays, Nothings DEF Reads, ReadsSignIn, Shaped
  <2> QED
    BY <1>2, <2>1, <2>2 DEF Reads, ReadsSignIn
<1>3. CASE f.op = "List"
  <2>1. \A i \in DOMAIN f.rows : i.kind = "application" /\ ItemOwned(x.user, i)'
    BY <1>3, ItemOwnedStays DEF Reads, ReadsList, FetchKnown
  <2> QED
    BY <1>3, <2>1 DEF Reads, ReadsList
<1>4. CASE f.op = "Stages"
  <2>1. \A i \in DOMAIN f.rows : i.kind = "stage" /\ ItemOwned(x.user, i)'
    BY <1>4, ItemOwnedStays DEF Reads, ReadsStages, FetchKnown
  <2> QED
    BY <1>4, <2>1 DEF Reads, ReadsStages
<1>5. CASE f.op \notin {"Me", "SignIn", "List", "Stages"}
  BY <1>5 DEF Reads
<1> QED
  BY <1>1, <1>2, <1>3, <1>4, <1>5

LEMMA HonestOf ==
  ASSUME Sound, Honest, NEW s \in Slots, fetch[s].reader # "nobody",
         NEW t, fetch[s].tab = t
  PROVE  /\ Reads(fetch[s], tab[t]) /\ Shaped(fetch[s]) /\ FetchKnown(fetch[s])
         /\ fetch[s] \in Fetches
         /\ t \in Tabs
         /\ fetch[s].reader = "page" => tab[t].user # Nobody
         /\ fetch[s].reader \in {"app", "page"}
  BY ReaderOf, FetchFields DEF Honest, Sound, BrowserOK

\* A tab of a user has App wait for a sign-out at most, and one of nobody has no
\* page wait.
LEMMA OfAUser ==
  ASSUME Sound, Honest, NEW s \in Slots, NEW t, fetch[s].tab = t,
         fetch[s].reader = "app", tab[t].user # Nobody
  PROVE  fetch[s].op = "SignOut"
  BY HonestOf DEF Reads, ReadsMe, ReadsSignIn, Shaped, AppOps

LEMMA BrowserHonest ==
  ASSUME Sound, Honest, NEW t \in Tabs, NEW x, TabFine(x), Sees(x),
         NEW G, Fetching(G), Becomes(t, x, G), Only(t, G), OneApp(G),
         \A s \in Slots : G[s].reader # "nobody" /\ G[s].tab = t => Reads(G[s], x)
  PROVE  Honest'
<1>1. Grown
  BY Stays DEF Becomes, Sound
<1>2. ASSUME NEW r \in Tabs PROVE Sees(tab[r])'
  <2>1. PICK y : y = tab'[r]
    OBVIOUS
  <2>2. Sees(y) /\ TabKnown(y)
    BY <2>1, TabOf DEF Becomes, Honest, TabFine
  <2>3. Sees(y)'
    BY <1>1, <2>2, SeesStays
  <2> QED
    BY <2>1, <2>3 DEF Sees, Holds, Owns, ItemOwned
<1>3. ASSUME NEW s \in Slots, G[s].reader # "nobody"
      PROVE  Reads(fetch[s], tab[fetch[s].tab])'
  <2>1. PICK f, y : f = G[s] /\ y = tab'[f.tab]
    OBVIOUS
  <2>2. Shaped(f) /\ FetchKnown(f) /\ f.tab \in Tabs
    BY <1>3, <2>1 DEF Fetching, Shaped
  <2>3. Reads(f, y)
    <3>1. CASE f.tab = t
      BY <1>3, <2>1, <2>2, <3>1 DEF Becomes
    <3>2. CASE f.tab # t
      <4>1. f = fetch[s] /\ y = tab[f.tab]
        BY <1>3, <2>1, <2>2, <3>2 DEF Only, Becomes
      <4> QED
        BY <1>3, <2>1, <4>1 DEF Honest
    <3> QED
      BY <3>1, <3>2
  <2>4. Reads(f, y)'
    BY <1>1, <2>2, <2>3, ReadsStays
  <2>5. f = fetch'[s] /\ y = tab'[fetch'[s].tab]
    BY <2>1 DEF Becomes
  <2> QED
    BY <2>4, <2>5 DEF Reads, ReadsMe, ReadsSignIn, ReadsList, ReadsStages,
                      Holds, Owns, ItemOwned
<1>4. \A s \in Slots : fetch'[s].reader # "nobody" => Reads(fetch[s], tab[fetch[s].tab])'
  BY <1>3 DEF Becomes
<1>5. OneApp(fetch)'
  BY DEF OneApp, Becomes
<1> QED
  BY <1>2, <1>4, <1>5 DEF Honest

LEMMA FewerOneApp ==
  ASSUME NEW F, OneApp(F), NEW G, Fewer(F, G)
  PROVE  OneApp(G)
  BY DEF OneApp, Fewer

LEMMA AsksOneApp ==
  ASSUME NEW F, OneApp(F), NEW r, NEW G, Asks(r, F, G),
         \A s \in Slots : F[s].reader = "app" => F[s].tab # r.tab
  PROVE  OneApp(G)
  BY DEF OneApp, Asks

LEMMA LoadHonest ==
  ASSUME Sound, Honest, NEW t \in Tabs, Load(t)
  PROVE  Honest'
<1>1. PICK x, H, G : Loads(t, x, H, G)
  BY LoadShape
<1>2. /\ Becomes(t, x, G) /\ Fetching(G) /\ TabFine(x)
      /\ x.user = Nobody /\ x.number = 0 /\ x.seen = Nothing
      /\ Fewer(fetch, H)
      /\ \A s \in Slots : H[s].reader # "nobody" => H[s].tab # t
  BY <1>1 DEF Loads
<1>3. Sees(x)
  BY <1>2, Nothings DEF Sees
<1>4. Only(t, G)
  BY <1>1 DEF Loads, Asks, Only, Fewer, Sending
<1>5. OneApp(H)
  BY <1>2, FewerOneApp DEF Honest
<1>6. CASE G = H
  BY <1>2, <1>3, <1>4, <1>5, <1>6, BrowserHonest
<1>7. CASE /\ x.page = "signedInMain"
           /\ \E r : Sending(r, t, "Me", "app") /\ r.token = x.authToken /\ Asks(r, H, G)
  <2>1. PICK r : Sending(r, t, "Me", "app") /\ r.token = x.authToken /\ Asks(r, H, G)
    BY <1>7
  <2>2. OneApp(G)
    BY <1>2, <1>5, <2>1, AsksOneApp DEF Sending
  <2>3. Reads(r, x)
    BY <1>2, <1>7, <2>1 DEF Reads, ReadsMe, Sending
  <2>4. \A s \in Slots : G[s].reader # "nobody" /\ G[s].tab = t => Reads(G[s], x)
    BY <1>2, <2>1, <2>3 DEF Asks
  <2> QED
    BY <1>2, <1>3, <1>4, <2>2, <2>4, BrowserHonest
<1> QED
  BY <1>1, <1>6, <1>7 DEF Loads

LEMMA AppAsksHonest ==
  ASSUME Sound, Honest, NEW t \in Tabs, NEW op, NEW r, NEW G, AppAsks(t, op, r, G),
         Reads(r, tab[t]),
         \A s \in Slots : fetch[s].reader = "app" => fetch[s].tab # t
  PROVE  Honest'
<1>1. /\ Becomes(t, tab[t], G) /\ Fetching(G) /\ TabFine(tab[t])
      /\ Sending(r, t, op, "app") /\ Asks(r, fetch, G)
  BY DEF AppAsks
<1>2. OneApp(G)
  BY <1>1, AsksOneApp DEF Sending, Honest
<1>3. Only(t, G)
  BY <1>1 DEF Asks, Only, Sending
<1>4. \A s \in Slots : G[s].reader # "nobody" /\ G[s].tab = t => Reads(G[s], tab[t])
  BY <1>1, HonestOf DEF Asks
<1>5. Sees(tab[t])
  BY DEF Honest
<1> QED
  BY <1>1, <1>2, <1>3, <1>4, <1>5, BrowserHonest

LEMMA SubmitFormHonest ==
  ASSUME AskedOnce, Sound, Honest, NEW t \in Tabs, SubmitForm(t)
  PROVE  Honest'
<1>1. PICK r, G : AppAsks(t, "SignIn", r, G)
  BY SubmitFormShape
<1>2. /\ tab[t].view = "public" /\ tab[t].page = "signIn"
      /\ \A s \in Slots : fetch[s].tab = t => fetch[s].op \notin Sessions
  BY SubmitFormShape DEF MayAsk, AskedOnce
<1>3. tab[t].user = Nobody
  BY <1>2, TabOf DEF Routed
<1>4. ASSUME NEW s \in Slots, fetch[s].reader = "app", fetch[s].tab = t PROVE FALSE
  <2>1. Reads(fetch[s], tab[t]) /\ fetch[s].op \in AppOps
    BY <1>4, HonestOf DEF Shaped
  <2>2. fetch[s].op = "Me"
    BY <1>2, <1>4, <2>1 DEF AppOps, Sessions
  <2> QED
    BY <1>2, <2>1, <2>2 DEF Reads, ReadsMe
<1>5. Reads(r, tab[t])
  BY <1>1, <1>3 DEF AppAsks, Sending, Reads, ReadsSignIn
<1> QED
  BY <1>1, <1>4, <1>5, AppAsksHonest

LEMMA ClickSignOutHonest ==
  ASSUME AskedOnce, Sound, Honest, NEW t \in Tabs, ClickSignOut(t)
  PROVE  Honest'
<1>1. PICK r, G : AppAsks(t, "SignOut", r, G)
  BY ClickSignOutShape
<1>2. /\ tab[t].user # Nobody
      /\ \A s \in Slots : fetch[s].tab = t => fetch[s].op \notin Sessions
  BY ClickSignOutShape DEF MayAsk, AskedOnce
<1>3. ASSUME NEW s \in Slots, fetch[s].reader = "app", fetch[s].tab = t PROVE FALSE
  <2>1. fetch[s].op = "SignOut"
    BY <1>2, <1>3, OfAUser
  <2> QED
    BY <1>2, <1>3, <2>1 DEF Sessions
<1>4. Reads(r, tab[t])
  BY <1>1, <1>2 DEF AppAsks, Sending, Reads
<1> QED
  BY <1>1, <1>3, <1>4, AppAsksHonest

\* A page of a user is turned.
LEMMA TurnsHonest ==
  ASSUME Sound, Honest, NEW t \in Tabs, tab[t].user # Nobody,
         NEW v, NEW n, n # 0 => Owns(tab[t].user, n),
         NEW x, NEW G, Turns(t, v, n, x, G)
  PROVE  Honest'
<1>1. PICK F : /\ Arrives(t, tab[t], v, n, F, x, G)
               /\ Fetching(F) /\ Fewer(fetch, F)
               /\ \A s \in Slots : F[s].reader = "page" => F[s].tab # t
  BY DEF Turns
<1>2. /\ Becomes(t, x, G) /\ Fetching(G) /\ TabFine(x)
      /\ x.view = v /\ x.number = n /\ x.seen = Nothing
      /\ x.user = tab[t].user /\ x.authToken = tab[t].authToken
      /\ \A s \in Slots :
           \/ G[s] = F[s]
           \/ Sending(G[s], t, "List", "page") /\ G[s].user = tab[t].user
           \/ v = "application" /\ Sending(G[s], t, "Stages", "page") /\ G[s].number = n
  BY <1>1 DEF Arrives
<1>3. Only(t, G)
  BY <1>1, <1>2, FewerOnly DEF Only, Sending
<1>4. OneApp(G)
  <2>1. OneApp(F)
    BY <1>1, FewerOneApp DEF Honest
  <2>2. \A s \in Slots : G[s].reader = "app" => G[s] = F[s]
    BY <1>2 DEF Sending
  <2> QED
    BY <2>1, <2>2 DEF OneApp
<1>5. Sees(x)
  BY <1>2, Nothings DEF Sees, Honest
<1>6. ASSUME NEW s \in Slots, G[s].reader # "nobody", G[s].tab = t
      PROVE  Reads(G[s], x)
  <2>1. CASE G[s] = F[s]
    <3>1. G[s] = fetch[s]
      BY <1>1, <1>6, <2>1 DEF Fewer
    <3>2. fetch[s].reader = "app"
      BY <1>1, <1>6, <2>1, <3>1, HonestOf
    <3>3. fetch[s].op = "SignOut"
      BY <1>6, <3>1, <3>2, OfAUser
    <3> QED
      BY <1>2, <3>1, <3>3 DEF Reads
  <2>2. CASE Sending(G[s], t, "List", "page") /\ G[s].user = tab[t].user
    BY <1>2, <2>2 DEF Reads, ReadsList, Sending
  <2>3. CASE v = "application" /\ Sending(G[s], t, "Stages", "page") /\ G[s].number = n
    BY <1>2, <2>3 DEF Reads, ReadsStages, Sending
  <2> QED
    BY <1>2, <2>1, <2>2, <2>3
<1> QED
  BY <1>2, <1>3, <1>4, <1>5, <1>6, BrowserHonest

LEMMA TurnsOwnHonest ==
  ASSUME Sound, Honest, NEW t \in Tabs, NEW x, NEW G, TurnsOwn(t, x, G)
  PROVE  Honest'
<1>1. tab[t].user # Nobody /\ Sees(tab[t])
  BY DEF TurnsOwn, Honest
<1>2. CASE Turns(t, "dashboard", 0, x, G)
  BY <1>1, <1>2, TurnsHonest
<1>3. CASE Turns(t, "application", tab[t].number, x, G)
  <2>1. tab[t].number # 0 => Owns(tab[t].user, tab[t].number)
    BY <1>1 DEF Sees
  <2> QED
    BY <1>1, <1>3, <2>1, TurnsHonest
<1>4. CASE /\ tab[t].view = "dashboard"
           /\ \E i \in DOMAIN tab[t].seen : Turns(t, "application", i.number, x, G)
  <2>1. PICK i \in DOMAIN tab[t].seen : Turns(t, "application", i.number, x, G)
    BY <1>4
  <2>2. Owns(tab[t].user, i.number)
    BY <1>1, <1>4 DEF Sees, ItemOwned
  <2> QED
    BY <1>1, <2>1, <2>2, TurnsHonest
<1> QED
  BY <1>2, <1>3, <1>4 DEF TurnsOwn

LEMMA OpensHonest ==
  ASSUME Sound, Honest, NEW t \in Tabs, NEW x, NEW G, Opens(t, x, G)
  PROVE  Honest'
<1>1. /\ Becomes(t, x, G) /\ Fetching(G) /\ TabFine(x) /\ Fewer(fetch, G)
      /\ \A s \in Slots : G[s].reader = "page" => G[s].tab # t
      /\ x.user = tab[t].user /\ x.user # Nobody /\ x.authToken = tab[t].authToken
      /\ x.number = tab[t].number /\ x.seen = Nothing
  BY DEF Opens
<1>2. Only(t, G) /\ OneApp(G)
  BY <1>1, FewerOnly, FewerOneApp DEF Honest
<1>3. Sees(x)
  BY <1>1, Nothings DEF Sees, Honest
<1>4. ASSUME NEW s \in Slots, G[s].reader # "nobody", G[s].tab = t
      PROVE  Reads(G[s], x)
  <2>1. G[s] = fetch[s]
    BY <1>1, <1>4 DEF Fewer
  <2>2. fetch[s].reader = "app"
    BY <1>1, <1>4, <2>1, HonestOf
  <2>3. fetch[s].op = "SignOut"
    BY <1>1, <1>4, <2>1, <2>2, OfAUser
  <2> QED
    BY <1>1, <2>1, <2>3 DEF Reads
<1> QED
  BY <1>1, <1>2, <1>3, <1>4, BrowserHonest

LEMMA SubmitsHonest ==
  ASSUME Sound, Honest, NEW t \in Tabs, NEW x, NEW op, NEW r, NEW G,
         Submits(t, x, op, r, G)
  PROVE  Honest'
<1>1. /\ Becomes(t, x, G) /\ Fetching(G) /\ TabFine(x)
      /\ op \in Saves /\ Sending(r, t, op, "page") /\ Asks(r, fetch, G)
      /\ x.user = tab[t].user /\ x.user # Nobody /\ x.authToken = tab[t].authToken
      /\ tab[t].view = "form" /\ x.view = "form"
      /\ x.number = tab[t].number /\ x.seen = tab[t].seen
  BY DEF Submits
<1>2. Only(t, G)
  BY <1>1 DEF Asks, Only, Sending
<1>3. OneApp(G)
  <2>1. \A s \in Slots : G[s].reader = "app" => G[s] = fetch[s]
    BY <1>1 DEF Asks, Sending
  <2> QED
    BY <2>1 DEF OneApp, Honest
<1>4. Sees(x)
  BY <1>1 DEF Sees, Honest
<1>5. ASSUME NEW s \in Slots, G[s].reader # "nobody", G[s].tab = t
      PROVE  Reads(G[s], x)
  <2>1. CASE G[s] = r
    BY <1>1, <2>1 DEF Reads, Sending, Saves
  <2>2. CASE G[s] = fetch[s]
    <3>1. Reads(fetch[s], tab[t]) /\ tab[t].user # Nobody
      BY <1>1, <1>5, <2>2, HonestOf
    <3> QED
      BY <1>1, <2>2, <3>1 DEF Reads, ReadsMe, ReadsSignIn, ReadsList, ReadsStages
  <2> QED
    BY <1>1, <2>1, <2>2 DEF Asks
<1> QED
  BY <1>1, <1>2, <1>3, <1>4, <1>5, BrowserHonest

\* Nothing else is under way for App of the tab it waits for.
LEMMA Alone ==
  ASSUME Sound, Honest, NEW s \in Slots, NEW t, fetch[s].reader = "app",
         fetch[s].tab = t, NEW r \in Slots \ {s}, fetch[r].reader # "nobody",
         fetch[r].tab = t
  PROVE  fetch[r].reader = "page" /\ tab[t].user # Nobody
<1>1. fetch[r].reader # "app"
  BY DEF Honest, OneApp
<1> QED
  BY <1>1, HonestOf

LEMMA EntersHonest ==
  ASSUME Sound, Honest, NEW s \in Slots, NEW t \in Tabs, NEW x, NEW G,
         Enters(s, t, x, G)
  PROVE  Honest'
<1>1. /\ Becomes(t, x, G) /\ Fetching(G) /\ TabFine(x)
      /\ fetch[s].reader = "app" /\ fetch[s].op = "SignIn" /\ fetch[s].tab = t
      /\ fetch[s].at = "served" /\ fetch[s].ok = TRUE
      /\ \A r \in Slots \ {s} : G[r] = fetch[r]
      /\ G[s].at = "body" /\ G[s].op = "SignIn" /\ G[s].tab = t /\ G[s].reader = "app"
      /\ G[s].who = fetch[s].who
      /\ x.authToken = fetch[s].session /\ x.view = tab[t].view
      /\ x.user = tab[t].user /\ x.number = tab[t].number /\ x.seen = tab[t].seen
  BY DEF Enters
<1>2. x.user = Nobody /\ Holds(x.authToken, fetch[s].who)
  BY <1>1, HonestOf DEF Reads, ReadsSignIn
<1>3. Only(t, G)
  BY <1>1 DEF Only
<1>4. OneApp(G)
  <2>1. \A r \in Slots : G[r].reader = fetch[r].reader /\ G[r].tab = fetch[r].tab
    BY <1>1
  <2> QED
    BY <2>1 DEF OneApp, Honest
<1>5. Sees(x)
  BY <1>1, <1>2 DEF Sees, Honest
<1>6. ASSUME NEW r \in Slots, G[r].reader # "nobody", G[r].tab = t
      PROVE  Reads(G[r], x)
  <2>1. CASE r = s
    BY <1>1, <1>2, <2>1 DEF Reads, ReadsSignIn
  <2>2. CASE r # s
    <3>1. fetch[r].reader # "nobody" /\ fetch[r].tab = t
      BY <1>1, <1>6, <2>2
    <3>2. tab[t].user # Nobody
      BY <1>1, <2>2, <3>1, Alone
    <3> QED
      BY <1>1, <1>2, <3>2
  <2> QED
    BY <2>1, <2>2
<1> QED
  BY <1>1, <1>3, <1>4, <1>5, <1>6, BrowserHonest

LEMMA WelcomesHonest ==
  ASSUME Sound, Honest, NEW s \in Slots, NEW t \in Tabs, NEW x, NEW G,
         Welcomes(s, t, x, G)
  PROVE  Honest'
<1>1. /\ fetch[s].reader = "app" /\ fetch[s].tab = t
      /\ \/ fetch[s].at = "body"
         \/ fetch[s].at = "served" /\ fetch[s].op = "Me" /\ fetch[s].ok = TRUE
      /\ fetch[s].who \in Users
  BY DEF Welcomes
<1>2. tab[t].user = Nobody /\ Holds(tab[t].authToken, fetch[s].who)
  BY <1>1, HonestOf DEF Reads, ReadsMe, ReadsSignIn, Shaped
<1>3. PICK fields, F :
        /\ fields.user = fetch[s].who /\ fields.authToken = tab[t].authToken
        /\ Fewer(fetch, F) /\ Fetching(F)
        /\ F[s] = Idle /\ \A r \in Slots \ {s} : F[r] = fetch[r]
        /\ Arrives(t, fields, "dashboard", 0, F, x, G)
  BY <1>2 DEF Welcomes
<1>4. /\ Becomes(t, x, G) /\ Fetching(G) /\ TabFine(x)
      /\ x.view = "dashboard" /\ x.number = 0 /\ x.seen = Nothing
      /\ x.user = fetch[s].who /\ x.authToken = tab[t].authToken
      /\ \A r \in Slots :
           \/ G[r] = F[r]
           \/ Sending(G[r], t, "List", "page") /\ G[r].user = fetch[s].who
  BY <1>3 DEF Arrives
<1>5. Only(t, G)
  <2>1. Only(t, F)
    BY <1>3, FewerOnly
  <2>2. \A r \in Slots : G[r] = F[r] \/ G[r].tab = t
    BY <1>4 DEF Sending
  <2> QED
    BY <2>1, <2>2 DEF Only
<1>6. OneApp(G)
  <2>1. OneApp(F)
    BY <1>3, FewerOneApp DEF Honest
  <2>2. \A r \in Slots : G[r].reader = "app" => G[r] = F[r]
    BY <1>4 DEF Sending
  <2> QED
    BY <2>1, <2>2 DEF OneApp
<1>7. Sees(x)
  BY <1>2, <1>4, Nothings DEF Sees
<1>8. ASSUME NEW r \in Slots, G[r].reader # "nobody", G[r].tab = t
      PROVE  Reads(G[r], x)
  <2>1. CASE G[r] = F[r]
    <3>1. r # s
      BY <1>3, <1>8, <2>1, IdleFields
    <3>2. G[r] = fetch[r]
      BY <1>3, <2>1, <3>1
    <3> QED
      BY <1>1, <1>2, <1>8, <3>1, <3>2, Alone
  <2>2. CASE Sending(G[r], t, "List", "page") /\ G[r].user = fetch[s].who
    BY <1>4, <2>2 DEF Reads, ReadsList, Sending
  <2> QED
    BY <1>4, <2>1, <2>2
<1> QED
  BY <1>4, <1>5, <1>6, <1>7, <1>8, BrowserHonest

LEMMA LeavesHonest ==
  ASSUME Sound, Honest, NEW s \in Slots, NEW t \in Tabs, NEW x, NEW G,
         Leaves(s, t, x, G)
  PROVE  Honest'
<1>1. /\ fetch[s].reader = "app" /\ fetch[s].tab = t
      /\ Becomes(t, x, G) /\ Fetching(G) /\ TabFine(x) /\ Fewer(fetch, G)
      /\ G[s].reader = "nobody"
      /\ \A r \in Slots : G[r].reader = "page" => G[r].tab # t
      /\ x.user = Nobody /\ x.number = 0 /\ x.seen = Nothing
  BY DEF Leaves
<1>2. Only(t, G) /\ OneApp(G)
  BY <1>1, FewerOnly, FewerOneApp DEF Honest
<1>3. Sees(x)
  BY <1>1, Nothings DEF Sees
<1>4. ASSUME NEW r \in Slots, G[r].reader # "nobody", G[r].tab = t
      PROVE  FALSE
  <2>1. r # s /\ G[r] = fetch[r]
    BY <1>1, <1>4 DEF Fewer
  <2>2. fetch[r].reader = "page"
    BY <1>1, <1>4, <2>1, Alone
  <2> QED
    BY <1>1, <1>4, <2>1, <2>2
<1> QED
  BY <1>1, <1>2, <1>3, <1>4, BrowserHonest

LEMMA ShowsHonest ==
  ASSUME Sound, Honest, NEW s \in Slots, NEW t \in Tabs, NEW x, NEW G,
         Shows(s, t, x, G)
  PROVE  Honest'
<1>1. /\ fetch[s].reader = "page" /\ fetch[s].tab = t
      /\ fetch[s].op \in {"List", "Stages"}
      /\ Becomes(t, x, G) /\ Fetching(G) /\ TabFine(x) /\ Fewer(fetch, G)
      /\ x.user = tab[t].user /\ x.authToken = tab[t].authToken
      /\ x.view = tab[t].view /\ x.number = tab[t].number
      /\ DOMAIN x.seen = DOMAIN tab[t].seen \cup DOMAIN fetch[s].rows
  BY DEF Shows
<1>2. Reads(fetch[s], tab[t]) /\ tab[t].user # Nobody /\ Sees(tab[t])
  BY <1>1, HonestOf DEF Honest
<1>3. Only(t, G) /\ OneApp(G)
  BY <1>1, FewerOnly, FewerOneApp DEF Honest
<1>4. Sees(x)
  <2>1. ASSUME NEW i \in DOMAIN fetch[s].rows
        PROVE  ItemOwned(x.user, i) /\ (x.view = "dashboard" => i.kind = "application")
    BY <1>1, <1>2 DEF Reads, ReadsList, ReadsStages
  <2> QED
    BY <1>1, <1>2, <2>1 DEF Sees
<1>5. ASSUME NEW r \in Slots, G[r].reader # "nobody", G[r].tab = t
      PROVE  Reads(G[r], x)
  <2>1. G[r] = fetch[r]
    BY <1>1, <1>5 DEF Fewer
  <2>2. Reads(fetch[r], tab[t])
    BY <1>5, <2>1, HonestOf
  <2> QED
    BY <1>1, <1>2, <2>1, <2>2 DEF Reads, ReadsMe, ReadsSignIn, ReadsList, ReadsStages
<1> QED
  BY <1>1, <1>3, <1>4, <1>5, BrowserHonest

LEMMA ServerHonest ==
  ASSUME Sound, Honest, Grown, UNCHANGED browser, NEW G, fetch' = G,
         \A s \in Slots : G[s].reader # "nobody" =>
           /\ G[s].reader = fetch[s].reader /\ G[s].tab = fetch[s].tab
           /\ G[s] = fetch[s] \/ Reads(G[s], tab[fetch[s].tab])'
  PROVE  Honest'
<1>1. token' = token /\ tab' = tab
  BY DEF browser
<1>2. ASSUME NEW r \in Tabs PROVE Sees(tab[r])'
  <2>1. PICK y : y = tab[r]
    OBVIOUS
  <2>2. Sees(y) /\ TabKnown(y)
    BY <2>1, TabOf DEF Honest
  <2>3. Sees(y)'
    BY <2>2, SeesStays
  <2> QED
    BY <1>1, <2>1, <2>3 DEF Sees, Holds, Owns, ItemOwned
<1>3. ASSUME NEW s \in Slots, G[s].reader # "nobody"
      PROVE  Reads(fetch[s], tab[fetch[s].tab])'
  <2>1. PICK f, y : f = G[s] /\ y = tab[f.tab]
    OBVIOUS
  <2>2. Reads(f, y)'
    <3>1. CASE f = fetch[s]
      <4>1. Shaped(f) /\ FetchKnown(f) /\ Reads(f, y)
        BY <1>3, <2>1, <3>1, HonestOf
      <4> QED
        BY <4>1, ReadsStays
    <3>2. CASE Reads(G[s], tab[fetch[s].tab])'
      BY <1>1, <1>3, <2>1, <3>2 DEF Reads, ReadsMe, ReadsSignIn, ReadsList, ReadsStages,
                              Holds, Owns, ItemOwned
    <3> QED
      BY <1>3, <2>1, <3>1, <3>2
  <2>3. f = fetch'[s] /\ y = tab'[fetch'[s].tab]
    BY <1>1, <2>1
  <2>4. (fetch[s].op = "Me" => ReadsMe(fetch[s], tab[fetch[s].tab]))'
    BY <2>2, <2>3 DEF Reads, ReadsMe, Holds
  <2>5. (fetch[s].op = "SignIn" => ReadsSignIn(fetch[s], tab[fetch[s].tab]))'
    BY <2>2, <2>3 DEF Reads, ReadsSignIn, Holds
  <2>6. (fetch[s].op = "SignOut" => tab[fetch[s].tab].user # Nobody)'
    BY <2>2, <2>3 DEF Reads
  <2>7. (fetch[s].op = "List" => ReadsList(fetch[s], tab[fetch[s].tab]))'
    BY <2>2, <2>3 DEF Reads, ReadsList, Owns, ItemOwned
  <2>8. (fetch[s].op = "Stages" => ReadsStages(fetch[s], tab[fetch[s].tab]))'
    BY <2>2, <2>3 DEF Reads, ReadsStages, Owns, ItemOwned
  <2> QED
    BY <2>4, <2>5, <2>6, <2>7, <2>8 DEF Reads
<1>4. OneApp(fetch)'
  BY DEF OneApp, Honest
<1> QED
  BY <1>2, <1>3, <1>4 DEF Honest

LEMMA ServesHonest ==
  ASSUME Sound, Honest, NEW s \in Slots, NEW a, NEW G, Serves(s, a, G), Tells(s, a)
  PROVE  Honest'
<1>1. /\ fetch[s].at = "sent" /\ Answers(s, a, G)
      /\ UNCHANGED browser /\ Grown /\ TablesOK /\ SessionsOK
      /\ fetch[s].op \in {"Me", "SignIn"} /\ a.ok = TRUE => a.who \in Users
      /\ \A i \in DOMAIN a.rows : Exists(i)
  BY DEF Serves, Sound
<1>2. CASE fetch[s].reader = "nobody" /\ G[s] = Idle
  <2>1. \A r \in Slots : G[r].reader # "nobody" => G[r] = fetch[r]
    BY <1>1, <1>2, IdleFields DEF Answers
  <2> QED
    BY <1>1, <2>1, ServerHonest DEF Answers
<1>3. CASE /\ fetch[s].reader # "nobody"
           /\ G[s].at = "served" /\ G[s].op = fetch[s].op /\ G[s].tab = fetch[s].tab
           /\ G[s].reader = fetch[s].reader
           /\ G[s].ok = a.ok /\ G[s].who = a.who /\ G[s].rows = a.rows
           /\ G[s].session = a.session
  <2>1. PICK f, g, x : f = fetch[s] /\ g = G[s] /\ x = tab[f.tab]
    OBVIOUS
  <2>2. Reads(f, x) /\ Sees(x)
    BY <1>3, <2>1, HonestOf DEF Honest
  <2>3. Reads(g, x)'
    <3>1. CASE g.op = "Me"
      <4>1. x.user = Nobody /\ x.page = "signedInMain" /\ f.token = x.authToken
        BY <1>1, <1>3, <2>1, <2>2, <3>1 DEF Reads, ReadsMe
      <4>2. ASSUME g.ok = TRUE PROVE Holds(x.authToken, g.who)'
        <5>1. Holds(x.authToken, g.who) /\ g.who \in Users
          BY <1>1, <1>3, <2>1, <3>1, <4>1, <4>2 DEF Tells
        <5> QED
          BY <1>1, <5>1, HoldsStays, Nothings
      <4> QED
        BY <1>3, <2>1, <3>1, <4>1, <4>2 DEF Reads, ReadsMe
    <3>2. CASE g.op = "SignIn"
      <4>1. x.user = Nobody
        BY <1>3, <2>1, <2>2, <3>2 DEF Reads, ReadsSignIn
      <4>2. g.ok = TRUE => Holds(g.session, g.who)'
        BY <1>3, <2>1, <3>2 DEF Tells, Holds
      <4> QED
        BY <1>3, <2>1, <3>2, <4>1, <4>2 DEF Reads, ReadsSignIn
    <3>3. CASE g.op = "SignOut"
      BY <1>3, <2>1, <2>2, <3>3 DEF Reads
    <3>4. CASE g.op = "List"
      <4>1. f.user = x.user
        BY <1>1, <1>3, <2>1, <2>2, <3>4 DEF Reads, ReadsList
      <4>2. \A i \in DOMAIN g.rows :
              Exists(i) /\ i.kind = "application" /\ ItemOwned(x.user, i)
        BY <1>1, <1>3, <2>1, <3>4, <4>1 DEF Tells
      <4>3. \A i \in DOMAIN g.rows : i.kind = "application" /\ ItemOwned(x.user, i)'
        BY <1>1, <4>2, ItemOwnedStays
      <4> QED
        BY <1>3, <2>1, <3>4, <4>3 DEF Reads, ReadsList
    <3>5. CASE g.op = "Stages"
      <4>1. x.view = "application" /\ f.number = x.number
        BY <1>1, <1>3, <2>1, <2>2, <3>5 DEF Reads, ReadsStages
      <4>2. ASSUME NEW i \in DOMAIN g.rows
            PROVE  i.kind = "stage" /\ ItemOwned(x.user, i)'
        <5>1. /\ Exists(i) /\ i.kind = "stage"
              /\ stages[i.number].applicationID = x.number
          BY <1>1, <1>3, <2>1, <3>5, <4>1, <4>2 DEF Tells
        <5>2. PICK k \in 0..MaxRows : stages \in [1..k -> StageRows]
          BY <1>1 DEF TablesOK
        <5>3. stages[i.number] \in StageRows
          BY <5>1, <5>2 DEF Exists
        <5>4. x.number # 0
          BY <5>1, <5>3, ClientAssumption DEF StageRows, Numbers
        <5>5. ItemOwned(x.user, i)
          BY <2>2, <5>1, <5>4 DEF ItemOwned, Sees
        <5> QED
          BY <1>1, <5>1, <5>5, ItemOwnedStays
      <4> QED
        BY <1>3, <2>1, <3>5, <4>1, <4>2 DEF Reads, ReadsStages
    <3>6. CASE g.op \notin {"Me", "SignIn", "SignOut", "List", "Stages"}
      BY <3>6 DEF Reads
    <3> QED
      BY <3>1, <3>2, <3>3, <3>4, <3>5, <3>6
  <2>4. Reads(G[s], tab[fetch[s].tab])'
    <3>1. tab' = tab /\ fetch' = G
      BY <1>1 DEF browser, Answers
    <3>2. g = G[s] /\ x = tab'[fetch'[s].tab]
      BY <1>3, <2>1, <3>1
    <3> QED
      BY <2>3, <3>2 DEF Reads, ReadsMe, ReadsSignIn, ReadsList, ReadsStages,
                        Holds, Owns, ItemOwned
  <2>5. \A r \in Slots : G[r].reader # "nobody" =>
          /\ G[r].reader = fetch[r].reader /\ G[r].tab = fetch[r].tab
          /\ G[r] = fetch[r] \/ Reads(G[r], tab[fetch[r].tab])'
    BY <1>1, <1>3, <2>4 DEF Answers
  <2> QED
    BY <1>1, <2>5, ServerHonest DEF Answers
<1> QED
  BY <1>1, <1>2, <1>3 DEF Answers

LEMMA QuietHonest ==
  ASSUME Sound, Honest, Quiet
  PROVE  Honest'
<1>1. fetch' = fetch /\ UNCHANGED browser /\ Grown
  BY DEF Quiet
<1> QED
  BY <1>1, ServerHonest

LEMMA NoEffectHonest ==
  ASSUME Sound, Honest, NEW s \in Slots, NoEffect(s)
  PROVE  Honest'
<1>1. Grown /\ UNCHANGED browser
  BY Stays DEF NoEffect, Sound
<1>2. PICK G : G = [fetch EXCEPT ![s] = Idle]
  OBVIOUS
<1>3. Fewer(fetch, G)
  BY <1>2, Cleared DEF Sound, BrowserOK
<1>4. fetch' = G
  BY <1>2 DEF NoEffect
<1> QED
  BY <1>1, <1>3, <1>4, ServerHonest DEF Fewer

LEMMA HonestInit ==
  ASSUME Init
  PROVE  Honest
<1>1. \A t \in Tabs : tab[t] = Public
  BY DEF Init
<1>2. \A s \in Slots : fetch[s].reader = "nobody"
  BY IdleFields DEF Init
<1>3. Sees(Public)
  BY PublicAlone, Nothings DEF Sees
<1> QED
  BY <1>1, <1>2, <1>3 DEF Honest, OneApp

LEMMA HonestNext ==
  ASSUME AskedOnce, Sound, Honest, [Next]_vars
  PROVE  Honest'
<1>1. ASSUME NEW t \in Tabs, Click(t) PROVE Honest'
  <2>1. CASE Load(t)
    BY <2>1, LoadHonest
  <2>2. CASE SubmitForm(t)
    BY <2>2, SubmitFormHonest
  <2>3. CASE ClickSignOut(t)
    BY <2>3, ClickSignOutHonest
  <2>4. CASE Back(t)
    BY <2>4, BackShape, TurnsOwnHonest
  <2>5. CASE OpenApplication(t)
    BY <2>5, OpenApplicationShape, TurnsOwnHonest
  <2>6. CASE OpenForm(t)
    BY <2>6, OpenFormShape, OpensHonest
  <2>7. CASE handleSubmit(t)
    BY <2>7, handleSubmitShape, SubmitsHonest
  <2> QED
    BY <1>1, <2>1, <2>2, <2>3, <2>4, <2>5, <2>6, <2>7 DEF Click
<1>2. ASSUME NEW s \in Slots, Receive(s) PROVE Honest'
  <2>1. CASE SignedIn(s)
    BY <2>1, SignedInShape, EntersHonest
  <2>2. CASE SetUser(s)
    BY <2>2, SetUserShape, WelcomesHonest
  <2>3. CASE NotVerified(s)
    BY <2>3, LeavesShape, LeavesHonest DEF NotVerified
  <2>4. CASE SignOutAnswered(s)
    BY <2>4, LeavesShape, LeavesHonest DEF SignOutAnswered
  <2>5. CASE NoEffect(s)
    BY <2>5, NoEffectHonest
  <2>6. CASE Loaded(s)
    BY <2>6, LoadedShape, ShowsHonest
  <2>7. CASE Saved(s)
    BY <2>7, SavedShape, TurnsOwnHonest
  <2> QED
    BY <1>2, <2>1, <2>2, <2>3, <2>4, <2>5, <2>6, <2>7 DEF Receive
<1>3. ASSUME NEW s \in Slots, Serve(s) PROVE Honest'
  BY <1>3, ServeShape, ServesHonest
<1>4. CASE Expire
  BY <1>4, ExpireShape, QuietHonest
<1>5. CASE Update
  BY <1>5, UpdateShape, QuietHonest
<1>6. CASE UNCHANGED vars
  <2>1. UNCHANGED <<browser, fetch>> /\ UNCHANGED server
    BY <1>6 DEF vars, browser, server
  <2>2. Quiet
    BY <2>1, Stays DEF Quiet, Sound
  <2> QED
    BY <2>2, QuietHonest
<1> QED
  BY <1>1, <1>2, <1>3, <1>4, <1>5, <1>6 DEF Next

\* Users who wait for the answer to a sign-in or a sign-out before they press such
\* a button again see their session and their rows, however late other answers come
\* and whatever other tabs do.
THEOREM HonestInductive == AskedOnce => (Spec => []Honest)
<1> SUFFICES ASSUME AskedOnce PROVE Spec => []Honest
  OBVIOUS
<1>1. Init => Honest
  BY HonestInit
<1>2. Sound /\ Honest /\ [Next]_vars => Honest'
  BY HonestNext
<1> QED
  BY <1>1, <1>2, Inductive, PTL DEF Spec

\* The user a tab shows is the one of the token it was given (App.js:32, 88,
\* SignIn.js:71-76).
THEOREM TabsShow == AskedOnce => (Spec => []TabsShowTheirSession)
<1>1. Honest => TabsShowTheirSession
  BY ClientAssumption DEF Honest, Sees, Holds, TabsShowTheirSession
<1> QED
  BY <1>1, HonestInductive, PTL

\* The rows a tab shows are its user's, also while another user's token is in
\* localStorage (DashboardPage.js:15-26).
THEOREM PagesShow == AskedOnce => (Spec => []PagesShowTheUsersRows)
<1>1. Honest => PagesShowTheUsersRows
  BY DEF Honest, Sees, ItemOwned, PagesShowTheUsersRows
<1> QED
  BY <1>1, HonestInductive, PTL

=============================================================================
