# JobTracker: specifications

TLA+ specifications of JobTracker, a web application in which students keep
track of job applications and their stages. They are written from the code; the
paths below are relative to the repository.

## The system

```
 browser ──HTTPS──► gateway (Go)
 (React)              ├─ /v1/users, /v1/sessions   own handlers ─► Postgres users, usersignins
                      │                                         └► Redis sessions
                      └─ /v1/applications, /v1/stages
                            director: session ─► X-User, choice of a host
                                 └──HTTP──► applications service (Express) ─► Postgres applications, stages
 not deployed: messaging service (Express, MongoDB), page summary service (Go)
```

| component | source | state it keeps | operations | what is hard about it | what makes it correct |
|---|---|---|---|---|---|
| applications service | `servers/applications/src` | tables `applications`, `stages` and their serial sequences; `res.locals` per request | list, create, read, patch, delete for applications and stages, behind `GetUser`, `GetApplication` / `GetStage`, `IsCreator` | every `await` lets other requests run: an owner is checked by one query and the row written by a later one; an update that is not awaited; queries that fail before or after they took effect | only owners write, at the moment of the write too; refused requests write nothing; numbers name one row for ever; acknowledged writes are there; every request is answered |
| gateway sessions | `servers/gateway/sessions` | an entry with a time to live per session id | `BeginSession`, `GetState`, `EndSession` over `RedisStore` or `MemStore` | every read renews the entry, while another call ends the session; lost answers | a session that is over never comes back; an abandoned one expires |
| gateway director | `CustomDirector` in `servers/gateway/main.go` | a mutex and an `int32` counter per service; the request's headers | one call per proxied request | a mutex held over a Redis call and over panics; a counter that wraps; a client's own `X-User` | `X-User` is that of a live session; hosts take turns; nobody is blocked for ever |
| gateway account handlers | `servers/gateway/handlers/auth.go`, `models/users` | table `users`, `usersignins`; sessions | sign up, sign in, sign out, read and patch a user | lookups before an insert; two stores without a transaction; ignored errors | one account per email (as stored) and per username; a session belongs to the credentials that began it; only the user changes a profile |
| CORS middleware | `servers/gateway/handlers/cors.go` | none | five headers, `OPTIONS` | – | – |
| messaging service | `servers/messaging/src` | channels, members, messages in MongoDB | CRUD on channels, members, messages | membership checked on a copy read earlier; a transaction that is given no session; a save that is not awaited | names are unique; only creators change a channel or message; no save writes away a member or brings back what was deleted; no message without its channel |
| page summary service | `servers/summary` | the summary of the page being read | `extractSummary` of a fetched page | meta tags in any order, some empty or of no use | each image property belongs to the image before it; Open Graph wins over its fallbacks |
| web client | `clients/src` | token in `localStorage`, shared by all tabs; per tab the current user, page and form | load, sign in/up/out, dashboard, application page, forms | answers come late, to a tab that is elsewhere by then, while other tabs sign in and out; forms send whole rows read earlier | a tab shows the user of its session and that user's rows; an edit changes only what the user edited |
| schemas | `servers/db` | – | – | – | seed rows are the initial state; `schema_normalized.sql` is used by nothing |
| `gateway/indexes`, build, deployment | | | | | no behaviour to model |

## The modules

| module | what it is |
|---|---|
| `Applications` | the applications service over its two tables, one action per query |
| `Tracker` | what it promises: atomic changes of one row by a user entitled to make them at that moment |
| `ApplicationsProofs` | the theorems about `Applications` |
| `MCApplications` | its instances |
| `SessionStore` | what the gateway expects of a session store: begun once, over for good |
| `Sessions` | what the two stores have in common: calls, `BeginSession`, `EndSession`, time |
| `RedisStore`, `MemStore` | `Sessions` with the `Get` of either store, command by command |
| `RedisStoreProofs` | the theorems about `RedisStore` |
| `MCRedisStore`, `MCMemStore` | their instances |
| `Director`, `DirectorProofs`, `MCDirector` | the gateway's director, the theorems about it, its instance |
| `Accounts`, `AccountsProofs`, `MCAccounts` | the gateway's handlers over users and sessions; their use of sessions implements `SessionStore` |
| `Messaging`, `MessagingProofs`, `MCMessaging` | the messaging service's writing routes over its documents |
| `Conversations` | what it promises: atomic changes of one channel or message by a user entitled to make them at that moment |
| `ConversationsProofs` | `Messaging` implements it |
| `Client`, `ClientProofs`, `MCClient` | the web client's tabs over the services as `Tracker` and `SessionStore` describe them; it changes rows as `Tracker` does |
| `Summary`, `SummaryProofs`, `MCSummary` | the page summary service, a token at a time |

Definitions named "a mutated form" are plausible bugs in the definition that
follows them. No specification uses them; a property is trusted only if
replacing the definition by its mutated form violates it (`PROJECT.json`,
"mutants").

### Applications

A request is a record: where it is in the middleware chain, its route, the user
id in `X-User` (`NoID`: no header, or one without an id), the number in its path
or `userid` parameter, and the answer. Express and its promises are
single-threaded, and each middleware awaits at most one query, so the unit of
interleaving is one query with the code up to the next: `GetUser`,
`CheckApplication` or `CheckStage` (each with `IsCreator`), then one action per
handler. Row contents are abstracted to `by`, the request whose inputs the row
holds; `ToApplicationInputs` / `ToStageInputs` accept or refuse. Tables are
functions over the ids they have; `nextApplicationID`, `nextStageID` are the
sequences, which a failed insert may advance. Rows are what `schema.sql` seeds.

- A query may fail with or without effect (lost answer). After an `await` the
  error is a 500 or 400 through `errorMiddleware`.
- `SpecificApplicationHandler.patch` does not await `db.UpdateApplication`:
  `PatchApplication` answers and puts the request in `pending`;
  `UpdateApplication` runs at any later time, or `SettleUpdate` drops it
  (the rejection ends in the `uncaughtException` listener and the process lives).
- `SpecificApplicationHandler.delete` calls `db.DeleteStage` with the
  application's id: `DeleteApplication` removes the stage of that number. The
  `Tracker` names this (`DropStage`) so that the rest can be stated exactly.
- `IsCreator` does not return after `next(403)`; it then calls `next()` a second
  time. In Express 4.17 the chain's index is used up by then and the final handler
  leaves a sent answer alone, so the 403 stands. The model has the 403.
- Owners: `POST /v1/applications?userid=n` stores `n` unchecked, so any user may
  create an application for any owner. `RowsWrittenByOwner` and
  `Tracker!AddApplication` say so.
- No crash action: a request does one write, and a crash after it is a lost
  answer, which the model has.

### Sessions, RedisStore, MemStore

A call of the package is a record with its place, the id it carries and the
outcome. `ttl` counts ticks. `RedisStore.Get` sends `GET` and `EXPIRE` in a
pipeline that is not a transaction: actions `Get`, `Expire`, `PipelineFails`.
`MemStore.Get` reads the cache and sets the entry again: `Get`, `ResetTTL`.
Ids come from 32 random bytes, so no id is drawn twice. `EndSession` and `Get`
are called with ids some answer carried (`Held`), which other clients cannot
make up since ids are signed.

### Director

One action per statement that touches shared state: `Lock` (with the deletion of
the client's `X-User`), `GetState` (with the new `X-User`), `ChooseHost` (reads
`counter`), `AdvanceCounter` (writes it and unlocks). `Panic` stands for the
deferred `Unlock` and net/http's recovery; a negative remainder panics too, and
`LostOnlyAfterWrap` says that nothing else loses a request but an id too short. `MaxInt32` is 2^31-1 in the code.
`%` is Go's, with the sign of the dividend. Sessions end meanwhile, and `alive`
never grows: requests come with sessions that have begun before.

### Accounts

One action per query of either store. A session is named by the request that
began it. `LookUpEmail` and `LookUpUserName` go on when the query fails, as the
code ignores their error; the unique constraints are the guard of `InsertUser`;
a refused insert uses up an id. `BeginSession` serves sign-up and sign-in.
`GetState` has every check of `SpecificUserHandler` before its query in the
code's order. A session id too short to slice makes `ValidateID` panic; that is
in `Director` and left out here.

### Messaging

A document is a record that is read by one action and written by a later one.
Channels and messages are named by the request that makes them, elements of
`members` by the request that pushes them, so that a user can be there twice, as
in the array. Three past requests set the scene: a private channel was founded,
a member joined, and the member posted a message. `GetUser` and
`queryUserProfile` only read `users`, which nothing changes here, and are no
steps of their own; requests that only read are left out.

- Mongoose's `save()` is external and modelled by what it sends: `$set` of what
  was assigned, which fails if the document is gone; `$push` for a pushed
  member, which advances `__v`; for the assigned array of `MembersHandler.delete`
  a `$set` that requires the `__v` that was read (`SameVersion`).
- `SpecificMessageHandler.patch` does not await `save()`: it answers 200, and
  `SaveMessage` ends the save at any later time, or drops it.
- `withTransaction` gets operations without its session: `DeleteChannel` and
  `DeleteMessages` are two steps, and either may fail alone.
- `SpecificChannelHandler.patch` answers 400 to a body with nothing in it and
  goes on to save: `GetChannelToChange` and `SaveChannel` do so too, the first
  answer stands, and `RefusedRequestsWriteNothing` excepts this case.
- `private` that is the text `"true"` makes a private channel without its
  creator as a member (`private` without `listed`).
- `Conversations` knows no documents, versions or requests: a channel has a set of
  users as its members, and `AddMember`, `RemoveMember`, `Rename` change just that of
  the stored channel. The mapping takes the user who last saved a channel or message
  for its creator (`SavedBy`), so that a save by anybody else is no step of
  `Conversations`; elements of `members` become users (`MemberOf`); an id is used up
  once its request is over, refused or not. Messages may outlive their channel there
  (`orphan_messages`), and who may post is left to `AuthorsWereMembers`.

### Client

The servers are atomic here, as `Tracker` and `SessionStore` describe them, but
for the `UPDATE` of an application, which runs after its answer or is lost
(`updates`). What is modelled in full is the time between a click and what its
answer does.

- `fetch` holds the requests under way; a slot says which tab asked, under which
  token, and who reads the answer. App is always there; a page is deaf once React
  has unmounted it (`Unmount`); a load of the tab drops every answer (`Abandon`).
  A write that was sent reaches the server in any case.
- `SignedIn` and `SetUser` are the two halves of a sign-in: the token is stored
  with the headers, the user with the body. `SetUser` serves `users/me` too. The
  page `signedInMain` has no form; so a tab whose user is still being fetched
  cannot sign in. `/` and `/signin` are one view, `public`.
- `Load` is `App`'s constructor with `getCurrentUser`, `NotVerified` the refusal
  of `users/me`, which empties `localStorage` for all tabs.
- A page is fetched when it is entered (`ToDashboard`, `ToApplication`); a form
  takes its values from the page, so no page is kept behind it. `Back` is the
  browser's, to the page before.
- `handleSubmit` includes the `handleChange`s before it: the values are chosen
  when they are sent, and `edited` remembers which inputs differ from those read.
- Values of a field are numbered; what matters is which edits a row holds.
- `Repeated` lists the operations that a tab asks for again before the answer has
  come. Saves are in it; sign-ins and sign-outs are not: with those
  `TabsShowTheirSession` does not hold (see "Observed").
- Sessions are drawn once (`owner`) and end by `DELETE` or by `Expire`. This
  browser is the only client. The tables are empty at first, so that
  `RowsChangeAsInTracker` is about steps, `[][Rows!Next]_Rows!vars`.

### Summary

One request. A token is what the handler looks for: a field that the last tag
sets (`SetField`), a fallback (`<title>`, the meta description), an image, one of
its properties, an icon. The tokenizer reads what is in `<title>` as raw text, so
that the tag and its text are one token. Texts are `Numbers` (also references),
`Junk` (neither), and `Empty`. Keywords and other fields are the same kind of
assignment; the sizes of an icon are left out. `read` is the history the
properties compare with; `body` says whether what was fetched has been closed.

## The runs

| run | instance | what it shows |
|---|---|---|
| `applications` | 3 writing requests, 2 users, numbers 1–2; 723,589 states | `ChecksStillHold`, `RowsWrittenByOwner`, `DeletedOnce`, `CreationsKept`, `AcknowledgedStagePatchLands`, the inductive invariant `IInv`, and the refinement of `Tracker` |
| `requests` | 2 requests of all routes, 2 users and a session whose user has no row, numbers 0–2; 200,277 states | `TypeOK`, `RefusedRequestsWriteNothing`, and under fairness `EveryRequestSettles` |
| `redis_sessions` | 4 calls, 4 ids, duration 2 ticks; 350,497 states | `EndedSessionsStayEnded`, refinement of `SessionStore`, and under fairness `SessionsExpire` |
| `director` | 3 requests, 2 sessions, 3 hosts, a counter of two bits; 175,856 states | `XUserIsHonest`, `RoundRobin`, `LostOnlyAfterWrap`, mutual exclusion in `TypeOK`, and under fairness `EveryRequestLeaves` |
| `accounts` | 3 requests, 3 sign-up bodies that conflict in email or in username; 97,904 states | `UniqueAccounts`, `SessionsBelongToCredentials`, `ProfilesWrittenByOwner`, `RefusedRequestsWriteNothing`, refinement of `SessionStore` |
| `messaging` | 2 new requests, 3 past ones, 3 users, 3 names; 182,723 states | `NamesUnique`, `OnlyCreatorsChange`, `RefusedRequestsWriteNothing`, `MembersStay`, `AuthorsWereMembers`, refinement of `Conversations` |
| `client` | 2 tabs, 2 users, 2 sessions, 2 fetches at a time, 1 row of each table; 1,003,809 states | `TabsShowTheirSession`, `PagesShowTheUsersRows`, `RowsChangeAsInTracker` |
| `summary` | heads of up to 4 tokens, one property of an image of each kind; 130,836 states | `OpenGraphWins`, `ImagesKeepTheirProperties`, `DroppedForOrphans` |
| `deleted_application` | violation | `DELETE /v1/applications/n` answers 200 and deletes stage `n` |
| `mem_sessions` | violation | in `MemStore` a `Get` brings a deleted session back |
| `orphan_messages` | violation | a channel is deleted and its messages are left |
| `lost_edits` | violation | a save writes fields that its user did not touch |

Why the bounds are enough. The races of the services are between a check and a
write of one request and a write of another, with a third that created or
deleted the row: three requests (four calls for sessions: begin, end, and two
overlapping reads). A number that names nothing, one that names a seed row and
one that a run creates are all among `Numbers` with 0–2. The two-request run
takes every route, and every route's errors, against every other. With three
hosts and a two-bit counter, whose values are -2 to 1, the third request meets -2,
whose remainder is negative. `messaging` has two new requests, as each of its hazards is a race of two
writes to documents that the three past requests made. In
`client` the races are of two fetches, of one tab or of two, with a change of
session between: two users and two sessions let the token in `localStorage` be
another user's than the tab's. Edits of different fields make more states than
that run can hold; `lost_edits` has them, for one user. In `summary` four tokens
are two images with a property each, or a field, its fallback, and both again. Symmetry over requests is used where only safety is checked
(`applications`, `accounts`, `messaging`: the new requests); nothing orders requests
there. `client` uses it for tabs, sessions and slots: `Send` takes a free slot by
`CHOOSE`, and no action or property tells slots apart.

Fairness. `requests`: weak fairness of the server's and database's steps of a
request that has arrived (pg rejects the query when the connection ends, so a
query always ends), none of clients. `redis_sessions`: weak fairness of `Tick`
(time passes) and of a pipeline that was sent (go-redis has read timeouts), none
of calls. `director`: weak fairness of the steps under the mutex and strong
fairness of `Lock`, as `sync.Mutex` hands over to a waiter of more than 1 ms.
`SessionsExpire` speaks of finitely many calls: a session somebody keeps using is
renewed for ever, as it should be.

Deadlock is checked in every run but `summary`, where the one request ends;
`Quiet` (or its like) is the step of a system in which everything is over, and in
`client` somebody can always load a page.

## The proofs

### Applications

`ApplicationsProofs` proves, for any sets of requests, callers, users and
numbers that satisfy `ConstantsAssumption`:

- `Typing`, `Inductive`: `TypeOK` and `IInv` are invariants;
- `ChecksHold`, `OwnersWrite`, `RefusalsAreHarmless`, `CreationsAreKept`,
  `StagePatchesLand`, `OneDeletion`: the safety properties of the runs;
- `Refinement`: `Spec => ImplementsTracker`.

TLC finds each inductive invariant `IInv` below to hold on its component's
instance too (that of `Director` with the `Nat` in `TurnIs` cut short).

The argument. What a middleware has checked can only go stale if a row changes
owner or its number is given to another row. Applications are never deleted and
no action writes `userID` or `applicationID` of an existing row
(`ApplicationsStay`, `StagesStay`), and a number once seen lies behind its
sequence (`NumbersSpent`), so a deleted stage's number is not used again. That is
why `IInv` has, besides the safety properties, `RoutesFollowed` (a request is at
the check of its own route), `AuthorsAnswered` (a row's author is done, so its
record does not change any more), `UpdatesAuthorised` (the un-awaited updates are
the owner's still) and `NumbersSpent`. There is one lemma per conjunct
(`RoutesStep` … `PatchLandsStep`), with one step per action. `DeletedOnce`
follows from `IInv` but is not part of it. `Refinement` needs one fact more, that
callers past `GetUser` are registered (`RegisteredOnly`), and maps each action to
one step of `Tracker` or a stutter (`TrackerStep`).

### Director

For any requests and sessions, any number of hosts and an integer of any width.
`Typing` has mutual exclusion in it: `MutexHeld` says that the mutex is the set of
requests inside, which has one element at most. `XUser` needs `XUserKept`: the
header is empty once the client's is deleted, and what `GetState` writes stays.
For the counter, `CounterKnown` relates three things: until it wraps it is the
number of routed requests, and the hosts before `counter % Hosts` have had one
more than the others (`TurnIs`); after it has wrapped, it is stuck at a value with
a negative remainder, or at -2^31 if that is a multiple of `Hosts`, and then for
one request more. `ModOfNext` is the arithmetic. `TakingTurns` and
`LossesAfterWrap` follow.

### RedisStore

`EndedStayEnded` is inductive together with two facts: the id of a call has been
drawn (`SidsIssued`), and a call that has begun carries one (`SidsCarried`). An
`EXPIRE` renews what is live and does not create an entry, which is what makes the
pipeline harmless without a transaction (and what `MemStore` lacks). `Refinement`
maps every command to a step of `SessionStore` or a stutter.

### Accounts

For any finite set of requests. Every step has one of nine shapes (`Arrives`,
`Passes`, `Adds`, …), and the invariants are about the shapes. `UniqueAccounts`
rests on the guard of the `INSERT`, not on the lookups. That an id is given once
needs `TypeOK` and a count: each request draws one id at most (`IDsSuffice`), so the
sequence stays in `UserIDs`. `SessionsMatch` needs `Authenticated` (who is about to
begin a session has matched a row, and rows keep email and password), `OwnersWrite`
needs `PatchesOwn` and `AuthorsSettled`: the author of a row is past the point at
which a request takes a user. `SessionsRefined` maps the steps to `SessionStore`.
`RowsAssumption` says that the value for "no row" is no row.

### Messaging

Again by shapes (`Makes`, `Renames`, `Pushes`, `Sets`, `Deletes`, …), which
`StepShape` derives from the actions. What lies between check and write:

- `Entitled`: whoever is about to write has been checked, and what the check found
  cannot change, as the creator of a channel or message is that of the request it
  is named by (`ChannelsMade`, `MessagesMade`), deleted or not;
- `Snapshots`: a `RemoveMember` that read version n has the members of version n,
  so a `$set` guarded by the version removes exactly one user. `MembersKept` is not
  inductive without it, and the mutated form without the guard breaks it;
- `Editors`, `Deletions`: whatever is stored was stored by a settled request of the
  creator, and what is gone was deleted by one. `Settled` leaves out refused
  requests but the `PATCH` with nothing in it;
- `GeneralKept`: nobody is the creator of the general channel;
- `AuthorsAreMembers` for messages that are about to be written as well.

`Refinement` in `ConversationsProofs` maps every shape to one step of `Conversations`
or a stutter. It needs a second invariant, `Ruled` (`RulesKept`): writes are those of
users, only a private channel gets members, nobody removes themselves, and the channel
is gone when its messages are deleted. `Editors` makes the user who last saved a
channel its creator, `Snapshots` makes a `$set` of the array the removal of one user
from the members as they are then, and `ItemStays`, `RowStays` say that what a step
does not write keeps its users. That nothing comes back is part of it: an id is used
up before its document can go, and `Create` and `Post` take fresh ones.

`DocumentsAssumption` says that the values for "no document" are no documents,
`MessagingAssumption` that the past requests and the two names are distinct.

### Summary

For heads of any length. `Specified` and `Mine` choose the last or first of a set
of positions; that the choice exists would need induction over the head. It is
avoided: `FieldSettled` and `PropertySettled` name the tag that counts, and a
token either leaves it or takes its place. `Places` counts images (`Place(i)` is
the number of images up to i), so that the property is set in the picture of the
last `og:image`.

### Client

For any number of tabs, users, sessions, slots, rows and inputs. The invariant has
two layers. `Sound` holds of every instance: a fetch that somebody waits for has a
tab, App waits for sign-ins, sign-outs and users/me and a page for the others, a
page waits only in a tab with a user, a `body` is that of a sign-in that succeeded,
and what tabs, fetches and pending `UPDATE`s refer to is there, and in the
last case owned. `Typing` and the refinement `RowsChange` follow from it, so they hold
however often buttons are pressed.

`TabsShow` and `PagesShow` need `AskedOnce`, the condition that the comment of
`TabsShowTheirSession` gives and `client.cfg` meets: a user waits for a sign-in or
sign-out to be answered before pressing such a button again. Then `Honest` is
inductive: App waits for one fetch of a tab at a time (`OneApp`), and what it or a
page waits for (`Reads`) is about the session and the user that the tab has by then.
For a sign-in that is the session of the answer until its headers are there, and the
tab's own token until the body is; for a list it is the user it was asked for, not
the caller. Everything else is that answers only find what is still there:
sessions keep their users and rows their owners (`Grown`), and a page that is left
takes its fetches with it (`Unmounted`, `Abandoned`). Every step has one of a few
shapes (`Loads`, `AppAsks`, `Turns`, `Opens`, `Submits`, `Enters`, `Welcomes`,
`Leaves`, `Shows`, `Serves`, `Quiet`), derived once and used for both layers.

### Only model-checked

Liveness under fairness (`EveryRequestSettles`, `SessionsExpire`,
`EveryRequestLeaves`), which the provers cannot do.

## Observed and not run

Besides the violations above.

Services: an application's `PATCH` answers 200 before its `UPDATE`, which may then
fail unnoticed (`handlers/applications.ts:65`; `store.ts:24` promises the row);
the director's counter wraps, and with more than one host every request from then
on, or from the one after, meets a negative index and panics before the counter
moves (`main.go:65`; the exception in `LostOnlyAfterWrap`); two accounts can have
one address, as `ToUser` stores the text that was sent, trimmed, and not the
"parsed, clean email address" of its comment (`user.go:103-104`); `GET` of an application does not await its query
(`handlers/applications.ts:54`) and answers 200 with a promise, printed as `{}`
(`GetApplication` carries no row in the model); `PATCH` of a stage that is deleted
between check and `UPDATE` answers 200 with an empty body (`postgresstore.ts:290`);
two `AddMember` requests put a user into a channel twice, though each looks first
(messaging `channel.ts:285`); the description in a `PATCH` of a channel is
compared instead of assigned (`channel.ts:185`); `ValidateID` (`sessionid.go:68`) slices before it
looks at the length and panics, where its comment promises an error (an action of
`Director`); a `PATCH` of a user with names that are not letters is stored, where
`auth_test.go:546-549` expects 400; a PATCH body that cannot be decoded erases
both names (`auth.go:157`); `LogSignIn` scans four columns into the wrong fields
and so always returns an error, which its caller ignores; the applications service
answers 400 and 403 where the README lists 401 and 404; `DELETE
/v1/sessions/mine` never answers 404.

Web client: a sign-out pressed twice takes the token of a sign-in between its two
answers (`App.js:102`), and the bodies of two overlapping sign-ins may come in
another order than their headers; a refused `users/me` in one tab empties the token
another tab has just stored (`App.js:43`), and that other tab then gets 401s;
a failed fetch of `users/me`, or a body that does not come, leaves "Error,
invalid path reached" (`Auth.js:19`); a list that is refused leaves the page
loading for ever (`ApplicationPage.js:43`, `69`); a form submitted twice creates
two rows (`AddEditApplicationPage.js:43`); an application is created for the tab's
user under the token of another (`RowsChangeAsInTracker` allows it, as the
service does); after a save "redirect back to application page" goes to the
dashboard (`AddEditApplicationPage.js:58`).

Page summary: an image property before any image panics (`summary.go:195`); the
fetched body is closed after a summary only (`summary.go:65`); the first of an
icon's `sizes` is taken as its height (`summary.go:246`).

## Not modelled

- Contents of rows, passwords (equal or not), HMAC signatures, JSON, SQL text,
  timestamps: no property is about them.
- TLS, CORS headers, start-up and configuration, logging, Docker files.
- `PostgresStore.DeleteApplication` (applications) and `PostgresStore.Delete`
  (users): no handler calls them.
- Web client: look and layout, validation of inputs, the service worker (never
  registered, `index.js:12`), generated assets; the browser's history beyond the page before.
- CORS, start-up, `gateway/indexes`, the seed script, build and deployment have no
  state to speak of: one line each in `PROJECT.json`.

## Plan

1. *(done)* `Applications`, `Tracker`, `ApplicationsProofs`.
2. *(done)* `SessionStore`, `Sessions`, `RedisStore`, `MemStore`.
3. *(done)* `Director`. 4. *(done)* `Accounts`.
5. *(done)* `Messaging`, `Conversations`; left: three new requests.
6. *(done)* `Summary`. 7. *(done)* `Client`; left: clients beside this browser,
   requests of two tabs with two fields each and two users.
8. `JobTracker`: director, sessions and applications composed, so that a row's
   author is the user of a session. `Client` shows this for atomic services.
9. Proofs: *(done)* `Applications`, `RedisStore`, `Director`, `Accounts`,
   `Messaging` with its refinement, `Summary`, `Client`.
