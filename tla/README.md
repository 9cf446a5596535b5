# A TLA+ model of the Sawamura server

The server (`src/src/`, NestJS) is the back end of a messenger: accounts and
logins, group and private rooms, notifications, short posts ("whinnies") and an
administrators' dashboard.  It answers HTTP requests and socket.io messages,
runs two Bull queues and three cron jobs in one Node process, and keeps its
state in Postgres (Prisma), Redis, Dropbox and a graph database.

Node runs one handler at a time, but every `await` lets another one in, and
hardly any handler runs in a transaction from its first read to its last write.
So most of what can go wrong here is of one kind: *a handler acts on what it
read, and by then it has changed*.  The modules take each handler apart at its
awaits, let handlers, jobs, crashes and lost answers interleave, and ask
which promises of the code survive.  Where a promise does not survive every
interleaving, the property says exactly which ones it is lost in.

Thirteen modules model the server.  Three more are abstract specifications: what a
login is (`Sessions`, implemented by `RefreshTokens`), what a queue does with a job
(`JobQueue`, by `Notifications` and by `Images`) and what an order of roles is
(`RoleList`, by `RoleOrder`).  Eleven `MC*` modules and twelve `.cfg` files
instantiate them; eight `*_proofs` modules prove 52 theorems, which state all but
one of the properties the runs check, that of liveness.

## 1. The system and its parts

| Part | State it keeps | Operations | Talks to | Hard because of |
|---|---|---|---|---|
| Security stamps (`auth.service.ts`, `users.service.ts`, `security.guard.ts`) | `users.security_stamp`; Redis sorted set of verified stamps | verify (every guarded request), renew (password, reset, roles), sweep (cron) | Postgres, Redis | two stores with no common transaction; crash between the two writes |
| Refresh tokens (`auth.service.ts`) | `refresh_tokens` rows | login, rotate, revoke, expire | Postgres | only the first read is in the transaction; lost answers |
| Socket authentication (`ws-auth/`) | Redis sorted set of sockets; fields on the socket | connect, disconnect, guard, `authenticate` message, other messages, renewal job (cron) | Redis, socket.io, gateways | a socket's messages and its disconnect race with its `authenticate`; the set outlives socket and process; the renewal job fails |
| Roles (`roles/`) | `roles` rows with a place each | create, update, delete, sort, broadcast | Postgres, dashboards | range shifts; broadcasts after the commit |
| Group rooms and messages (`rooms.service.ts`, `rooms.gateway.ts`) | rooms, members with a role, messages, `lastActivatedAt` | 9 handlers that change something | Postgres, Dropbox, sockets of the members | rights are checked before the transaction, rooms are read again after it |
| Notifications (`notifications/`) | rows; Bull queue | create, update, delete; event on completion | Postgres, Bull, sockets | three jobs at once; jobs that run twice after a stop |
| Accounts (`auth`, `oauth`, `verification-tokens`) | users' address, link tokens, provider logins | register, verify and change address, reset, link, unlink, login with provider | Postgres, mail, providers | no transaction: look at the token, take effect, revoke it |
| Images (`rooms.consumer.ts`, `auth.service.ts`, `rooms.service.ts`) | path in the row, file, cached link, queue | update, delete, get the link | Dropbox, Bull, cache, Postgres | three stores; jobs overlap; stop in between |
| Whinnies, relationships, graph (`whinnies`, `profile-users`) | rows; a mirror of them in a graph | create, delete, react, follow | Postgres, graph | mirror calls nobody waits for; cascades |
| Private rooms (`rooms.service.ts`, `auth.service.ts`) | rooms of two users, their memberships | find or create; dropped with an account | Postgres | find-or-create without an index; an account goes in two statements |
| Users' roles (`users.service.ts`, `auth.service.ts`) | `user_roles` rows; the stamp and the roles in access tokens | change, delete a role or the user, issue a token | Postgres, Redis | reads before the transaction; one write inside it that is not part of it |
| Lists (`common/services.ts` and eight handlers) | none on the server; the client passes on where it is | next page, by ids to leave out, by cursor, by offset | Postgres | rows come, go and move between two pages |
| The rest | none, or read only | dashboard, app ping, mail, PDF, themes, validation, guards that look at one request | | |

`PROJECT.json` lists all 25 components with their files, and 40 hazards, each at
the line where it bites, with the properties that would notice.

How the parts interact: the guards of Security stamps and Socket authentication
stand before every other handler; a renewal of the stamp is part of resetting a
password (Accounts) and of changing roles; rooms and notifications are sent to
the sockets that Socket authentication keeps; deleting an account cascades into
the rows of every part.  These meet in state one module owns and the others do
not write, so each module has the few steps of its neighbours it can feel as
actions of its own (`DeleteAccount` in SecurityStamps and Accounts, `DeleteOwner`
in Images, the renewal in `Handle` of Accounts) and leaves out the rest.  Where
two parts meet in one step it is composed: `AccountRows` instantiates
`PrivateRooms` and `UserRoles` over one table of users and one set of handlers,
and its `DeleteUser` is the conjunction of what the deletion does to either.

## 2. How the modules are written

* One action per database, Redis, Dropbox or graph call of a handler, with the
  checks the code makes before it in the guard and the assignments it makes
  until the next `await` in the primed variables.  A handler's place and the
  values it holds in local variables are a record in `call` / `request` / `job`.
* What Postgres promises (unique and foreign keys, cascades; the isolation level
  a transaction asks for) is in guards and effects.
* A statement that fails is an action (`Throw`, `Fail`, `MirrorFails`, a disjunct of
  the step) wherever a handler has written something before or goes on after the
  error, and is part of the step that refuses where the two end alike; elsewhere the
  handler only ends.  An error that nobody catches, in a handler of a queue's or a
  socket's events, stops the process.  A failed statement of Postgres or Redis
  has written nothing; a failed request to Dropbox may have done what it was asked.
* History variables (`mixed`, `contested`, `crossed`, `revokedAt`, ...) record
  facts no variable of the code holds.  No guard of an action reads one.
* Contents are left out unless a property tells them apart: a room's name,
  theme and so on are one `version` number, a stamp or a token is a number, a
  file is its name.
* An operator under a `Mutant` comment is its neighbour with one plausible
  mistake, kept to show that a property notices it (section 4).  No specification
  uses one.

### SecurityStamps

`verifySecurityStamp` looks the stamp up in the sorted set (`VerifyCached`),
counts rows (`VerifyCount`), adds it with an expiry (`VerifyCache`).  A renewal
reads the row (`RenewRead`, `RenewRefused`), and then `updatePassword` writes the
row and removes the old stamp, `updateSecurityStamp` and `changeRoles` do the
opposite (`RenewWrite`, `RenewRemove`, in the order `FirstStep` gives).
`TaskSecurityStamp` is the half-hourly sweep; `VerifyFails`, `RenewRefused` and
`TaskFails` are a store that fails at any of these, `Crash` stops everything between
any two of them, `Restart` starts over; `DeleteAccount` drops the row and leaves
the set alone.  `Tick` is bounded by `Latency`: a call lasts no longer.

### WsAuth

A socket connects and is listed (`HandleConnection`), leaves (`HandleDisconnect`), or is
disconnected by the guard, which knows no expiry other than a missing one
(`GuardDisconnects`).  An `authenticate` message waits for the stamp's guard
(`AuthenticateMessage`, `AuthenticateRefused`), and then its handler replaces user and
expiry and lists the socket anew (`AuthenticateValid`, in which Redis may fail after
the fields were written), or forgets the user (`AuthenticateInvalid`);
`AuthenticateReply` is the rest.  `ActMessage`, `ActRefused` and `ActWrites` are
`createMessage` of the rooms' gateway, the handler that reads `client.user` again after
each await.  `Stop` stops the process: the sorted set stays.

The cron job is `JobRange` alone: its query fails every time (section 5).  The code
after it (taking the due sockets out, asking them, `setTimeout` and the disconnect) is
never run, so there is nothing of it here.  `due`, `slipped` and `loose` are history:
when the newest token was to be renewed, whose newest token Redis did not take, and
which sockets left in a way that may leave their entry.

### RoleOrder

`Commit` is one SERIALIZABLE transaction (`Create`, `Update`, `Delete`, `Sort`; each
with the range shift of the code), `Fetch` the interceptor's read of the list
afterwards (`FetchFails` if it fails: the change stays and nobody is told), `Emit` its
broadcast, `Search` a dashboard's own request.

`RoleList` says what the places are for: a *list*, to whose end a role is added, in
which one is moved to a place, and which one leaves.  There are no numbers in it and
no range is shifted.  `RoleOrder` implements it under `ListOf`, the list that a table of
places stands for: `Create` appends, `Delete` takes out the role at its place, `Sort`
inserts at the new place what it took from the old one, `Fetch` and `Search` copy the
list, `Emit` shows a copy.  `PlacesAreDense` says that the table is such a list,
`ImplementsList` that a new role goes last, that a change takes out or moves no other
role than its own, and that what dashboards show was the list at some moment.
`OneRoleMovesAtATime` (but for one role, a step keeps the order of those that stay) is
what a dashboard's user would notice of that; it is proved, and no run checks it.

### RefreshTokens

`RefreshRead`, `RefreshCreate`, `RefreshRevoke`, `RefreshAnswer` are the statements of
`refreshToken`; `LogoutRead`, `LogoutRevoke` those of `revoke`.  `Throw` fails one in
the middle (the transaction rolls back nothing that was written, since writes go
through `this.prisma`), `RefreshAnswerLost` loses the answer, `Crash` stops all.

`Sessions` is what all that is for: a login opens a session with exactly one token
to go on with, a refresh replaces it by a younger one in *one* step, a logout
takes it for good.  `RefreshTokens` implements it under the mapping at its end: a
session is a family, its phase comes from `ended` and `contested`, and its token
(`Live`) is the oldest one that was not revoked, so the step that rotates is
`RefreshRevoke` and not `RefreshCreate`, whose token has reached nobody yet.  A family
becomes `torn` when calls overlap on a token of it or a refresh stops between its
writes; of a torn session `Sessions` promises nothing, and that it is torn only
then is what `OneLiveToken` and `LogoutEndsFamily` are about.

### RoomMembers

One group room.  A handler begins with a read and a check of rights (the `...Read`
actions), writes (`CreateRoom`, `MemberWrite`, `UpdateRoomWrite`, `DeleteRoomWrite`,
`Commit`, `DeleteMessageWrite`), reads the room again (`Fetch`) and sends it to the
members (`Emit`).  A message is uploaded
(`FilesUpload`), stamped with its `createdAt` (`Stamp`) and committed (`Commit`).
`Emit` to no receivers goes to everybody, as socket.io does.  All users have a
socket connected.  `updateMessage` changes nothing and has no step.  `MaxWrite`
bounds the changes and messages together: after as many no handler begins, so
that three changes, or two messages and a change, fit into one instance.

### Notifications

`CreateNotification`, `UpdateNotification` and `DeleteNotification` put a job on the
queue; `Begin` (a worker takes it and its transaction reads the row), `Apply` (the
transaction commits), `Throw`, `Complete`, `OnQueueCompleted` (the client is told),
`Crash` and `Requeue` (Bull runs a stalled job once more).  The client is not told
of the deletion of a row that was still Queued.

`JobQueue` is what the code relies on when it hands a job over and does not wait: jobs
are taken in the order they were added, by one worker each; a job that ended, well or
not, is not run again; a stop cuts off those that run, and each of these is run
once more, ahead of those that wait, and not a third time.  `Notifications` and `Images`
both implement it.  Here a job has ended for the queue once it is marked completed,
though `OnQueueCompleted` has still to tell the client: a stop in between loses that
event and does not repeat the job.

### Accounts

`GetTokenActive` presents a token, which then takes effect (`ConfirmEmail`,
`ResetPassword` with `Stamp`, `CountDuplicate` and `LinkProvider`), is found again
(`FindToken`) and revoked (`RevokeToken`).  `Register`, `RequestVerifyEmail`,
`ForgotPassword` and `UpdateEmailWrite` go on to create a token and mail it (`Issue`),
`LinkToken` creates one that is not mailed.  A
login with a provider is `Login`, `FindByProvider`, `CreateUser`.  `UnlinkProvider`,
`DeleteAccount`, `Expire` and `Crash` may come at any time.

`Fail` fails the statement a handler is at, whatever the state of its token, and
`Stamp` may fail as well: `resetPassword` renews the stamp and revokes the token side
by side, so either may be done when the other is not, and a renewal that is not
done yet goes on after the caller has got its error.  What a token has been through
is recorded with it: `stamped` (a stamp was renewed after it took effect), `answered`
(a call with it ended without an error).

### Images

Jobs of a room's image (`UpdateRoomImage`, `DeleteRoomImage`, `Begin`, `Complete`,
`Requeue`) and requests for a user's (`UpdateUserImage`) share the steps `Upload`,
`Del` (the cached link), `Unlink` (the file), `Update` (the row), `Remove`, `Clear`.
`Fail` fails the statement at hand: a `room.update` after the file was deleted, an
upload or a deletion that Dropbox did all the same.  The history `clean` is lost when
a removal overlaps another change or ends with its file deleted and the row as it
was, and is found again when a change that is alone writes the row.  A
getter reads the path (`ReadRoomPath`, `ReadUserPath`) and fetches and caches the
link (`Wrap`).  Whose image it is, is chosen in `Init`.  The jobs of a room's image are
those of `JobQueue`; a user's image, which its request changes itself, has none.

### Social

`CreateRead`/`CreateWrite`, `DeleteRead`/`DeleteWrite`, `ReactRead`/`ReactWrite`,
`FollowRead`/`FollowWrite`, `Throw`, and `Mirror` or `MirrorFails` for the call to the
graph.  `Owns` and `Touches` say what a call to the graph is about.  `Thread` is
what a deletion cascades to.  The graph module is a package outside the
repository; an upsert makes what it names and a delete takes what it names.

### PrivateRooms, UserRoles, AccountRows

`GetRoomPrivate` and `CreateRoom` look for a room, with the two different queries
of the code: `RoomsOfBoth` (both have a membership) and `RoomsWithin` (nobody else
has one, which is so of a room nobody is left in).  `Create` makes the room with both
members; `DropRooms` and `DeleteUser` are the two statements of `deleteAccount`, and
a call that throws or a stop in between is `Throw`.  In `UserRoles` the statements of
`changeRoles` are `ChangeRead`, `ChangeCount`, `ChangeDelete`, `ChangeInsert`,
`ChangeStamp`, `ChangeCommit`: rows change at the commit, and until then the
transaction holds those it touched and others wait (`Held`); the stamp, which goes
through `this.prisma`, changes at once.  `TokenRead` and `GenerateAccessToken` are the
user's row and its role rows, which Prisma reads in two queries.  `DeleteRole` and
`LoseUser` cascade.  `AccountRows` composes both.

Reading the code for these showed: `createRoom` refuses *everybody* once a private
room without members exists (every one of its members is in any pair), and such a
room remains when two accounts are deleted around its creation; `getRoomPrivate` for
oneself finds any private room one has; `RolesService.delete` replaces nobody's
stamp, so tokens keep the name of a role that is gone; and a token issued between
the two writes of `changeRoles` carries the new stamp with the old roles, and counts
until the next renewal.

### Paging

One client reads one of eight lists from the first page to the first that is not
full.  `GetRooms` and `GetNotifications` leave out the ids that were shown, `GetMessages`,
`GetAll`, `GetReactions`, `SearchRelationships` and `SearchAdvanced` go on after a cursor,
`FindAll` skips as many rows as were shown.  Each is a query over the rows of that
moment.  Rows are a set, and of the values a list is ordered by only the order is
kept: `ahead[r]` are the rows ahead of `r`.  All but the reactions (ordered by id) are
ordered by moments and nothing else, so rows may share a place, and which of them a
query gives first is open each time: `FirstOf` is a set of possible first pages, and
`From` a set of what a query that begins at a cursor may select from (with the
other rows of its moment or without them; only what is behind a cursor that is
hidden, or nothing; nothing if it is gone).  `Skip` is the row that
`makePaginationCursor` leaves out.  A page is a set, and `twice` and `count` keep what a
sequence of everything shown would tell.  Between two pages rows are inserted
anywhere, deleted, hidden (they no longer match) and moved (`Placed`, among others of
their moment or not), as far as the list in hand allows.  `upset` records what
happened to the place where the client goes on, and `tied` the rows that shared the
moment there (`Torn`): these are the ones that two queries may put on either side of
it while nothing changes.

Reading the code showed: a hidden cursor makes `skip: 1` leave out the row behind
it; the room search has rooms without a message first (Postgres puts nulls there when
it sorts downwards); `RoomsService.searchAdvanced` sorts its answer by
`lodash.sortBy` with a third argument that function ignores, so the page comes
oldest first; the model's client goes on after the oldest all the same.

## 3. What the runs check

| Run | Instance | Distinct states | Shows |
|---|---|---|---|
| MCSecurityStamps | 1 request, 2 renewals, Ttl 1, period 2, latency 1, 3 stamps, time 4 | 2,121,524 | `RevokedStampsAreSwept`, `UndisturbedRenewalEvicts`, `OnlyRevokedRejected` |
| MCWsAuth | 2 sockets, 2 users, offset 1, period 1, token life 1, time 1 | 2,322,860 | `ConnectedAreListed`, `LeftEntriesExplained`, `WritesForChecked` |
| WsAuthInvalidDate | 1 socket, 1 user, offset 1, period 1, token lives 2 and 3, time 4 | | *violated*: `AskedInTime` |
| MCRoleOrder | 4 roles, 2 of them seeded, 2 requests | 85,278 | `PlacesAreDense`, `UncontestedListShown`, `ImplementsList` |
| MCRefreshTokens | 3 calls, 4 tokens | 724,397 | `OneLiveToken`, `LogoutEndsFamily`, `SessionSurvives`, `ImplementsSessions` |
| MCRoomMembers | 3 users, 2 handlers, 3 changes, 2 messages, 3 writes in all | 1,863,931 | `RemovedStaysRemoved`, `MessagesByMembers`, `UndisturbedChangeShown`, `ActivityIsNewest` |
| MCNotifications | 3 jobs, 2 workers, 2 rows, 1 stop, fair | 1,288,565 | `SeenHasMoment`, `StatusNotUndone`, `FirstMomentKept`, `CreatedOnce`, `SettledRowShown`, `JobsEnd`, `ImplementsQueue` |
| MCAccounts | 2 users, 2 addresses, 1 profile, 2 calls, 2 tokens | 1,761,473 | `SpentStaysSpent`, `WholeOrError`, `LinkedToOwner`, `ConfirmedWasMailed` |
| MCImages | 2 paths, 3 jobs, 1 getter, cache 1, latency 1, time 3, 1 stop | 1,947,240 | `RowNamesFile`, `LinkIsFresh`, `ImplementsQueue` |
| MCSocial | 2 users, 3 whinnies, 3 calls | 532,763 | `RepostsAreChecked`, `GraphAgrees` |
| MCAccountRows | 3 users, 2 roles, 3 calls, 3 rooms | 263,258 | `OnePrivateRoom`, `LeftBehindWasCreatedBetween`, `RefusedForARoom`, `UndisturbedRolesAreAsked`, `TokenHasRoles` |
| MCPaging | 2 rows and one more, pages of 1, 2 moves | 1,060,228 | `NothingTwice`, `NothingMissed` |

Every module has one type invariant, `TypeOK` or a longer name for it; where the
schema has foreign keys, it says as well that rows refer to rows.  It is a theorem of
every module (section 6).  TLC checked each of them before it was proved, on the
instances above; the runs leave them out, for they add nothing to the proofs.

The inductive invariants of section 6 were checked by TLC before they were proved,
those of Notifications, Images, WsAuth and Paging over all states of the instances
above (Paging with 3 rows, one more, pages of 2 and 1 move besides).

Why these bounds are enough.  The hazards are between two handlers, or a handler
and a job, at one row; a third actor is there where it is needed to disturb the
two (a second renewal after a first, a third user who is neither caller nor
target, a third job on one row).  Time runs at least as far as one cache life plus one
call plus one period of the job, so that lateness and its limit both occur; in
MCWsAuth, whose properties do not speak of lateness, as far as two tokens differ.
Counters are as large as the longest chain that matters: a token, its heir and
the heir's heir plus one created by an overlap; a message before and after
another; a whinny, what comments it, and what comments or reposts that.
Symmetry is over sets that only `\E` and `\A` range over; no run with a liveness
property uses it.  Every bound is a constant that a guard names (`Max...`), and a run ends
where it is reached, which is why deadlock is not checked: behaviours stop
because the bound does, and requests are never obliged to come.

Some larger instances that take longer than a run should were checked too, with
the same result: MCNotifications with 3 workers (2,745,787 states); MCAccountRows
with 4 calls, 1 role and 2 rooms (461,755); MCPaging with pages of 2: 2 rows,
one more and 2 moves (287,415), 3 rows, one more and 1 move (3,194,736), 2 rows, two
more and 1 move (4,572,320).

With one stop no job is cut off twice and given up, so `ImplementsQueue` was checked
with two as well: of Notifications with 1 row (2,758,928), of Images with 1 path and
no getter (203,588).

Fairness is assumed in MCNotifications only: weak fairness of `Progress`, that is, of
the steps of jobs taken together.  The code justifies it: a Bull worker polls as long
as the process lives, a promise of a database call settles by a result or an error
(`Apply` or `Throw`), Bull marks jobs and calls the completion handler, and its
stalled check puts back what a stopped process left.  Nothing is assumed of requests
or of stops, other than that the stops end.  Everything else is a safety property.

## 4. How the properties were chosen

They relate two stores, or a row to what a handler read earlier, or a client's
screen to the table; a step that restates one assignment has no property.
Many end in an "unless": the exception is the interleaving in which the code
loses the promise, stated as tightly as TLC would let it hold.  In short:

* A revoked stamp may still be accepted, by one request at most one call long that
  cached it again, for a cache life, until the next sweep (`RevokedStampsAreSwept`);
  a renewal that nothing overlapped evicts at once, in either order of its writes.
* Two live tokens in one login take two calls on one token at once, or a failure
  between the two writes of one refresh.
* A connected socket waits in the sorted set for the renewal of its newest token, be
  its messages refused or its token expired; what a socket leaves behind there it
  leaves by losing its user first, by an `authenticate` in hand, or by a stop; and a
  message is written for the user whose stamp was looked at, unless the socket took
  another one while the message was in hand.
* Somebody removed from a room returns only by a handler that read the row
  before; whoever's message gets in was a member when the handler looked.
* What a client shows, and `lastActivatedAt`, are right after handlers that did not
  overlap.
* A job that was put on a queue is not lost, and is run again only after a stop, once:
  that is `JobQueue`, of which each step of the detailed modules is one step or none.
* A notification's status and moments go back only by a job that read the row
  before another wrote it; a create job makes one row unless the process stops.
* A token that was used is not used again by a call that begins later; a link that
  was mailed to an earlier address confirms the present one (`updateEmail` keeps old
  tokens alive, `mixed` records it).
* Whichever statement of a call with such a token fails, the call did everything it
  was to do or ends in an error (and then the token may do it again).
* The row of an image names a file that is there whatever changes failed or were
  cut off, unless a removal overlapped, or deleted the file and not the path.
* A cached link outlives its file by one cache life, and only if a change was under
  way when it was fetched, or the image was removed.
* Two users have one private room, unless two creators looked before either
  created; a room loses a member only to a deletion it was created in the middle of.
* Roles and the roles in tokens are those that were asked for, unless handlers
  overlapped, or the token was issued between the two writes of one.
* Whoever reads a list to its end saw every row that was there all the time once,
  unless the cursor's row went, or the offset shifted, or the room moved, or the row
  has the moment of the one where the client went on.
* The rows behind the graph are right; what the graph has is right unless calls
  were swapped, lost, or left to a cascade it is not told of.

Each property of a passing run has a mutant in `PROJECT.json`: a definition of the
model with one bug a programmer might make (a dropped guard, a swapped order, an
off-by-one).  TLC finds the property violated with it.

## 5. What was found

`WsAuthGateway.taskAuthenticate` calls `zGetAndRemByExpires` without
`milliseconds` (`src/src/ws-auth/ws-auth.gateway.ts:109`), so the cutoff of
`ws-auth.service.ts:87` is `dayjs().subtract(undefined, 'milliseconds')`.  dayjs makes
that an Invalid Date, the range is `(NaN`, Redis refuses it, and no socket is
ever asked for a new token, against `src/README.md:76`.  Run `WsAuthInvalidDate`
shows it: a connected socket is overdue by more than a period and was not asked.
Nothing the code has after that query is ever run, and none of it is modelled; with
that call mended, WsAuth would need the removal, the asking and the timer.

## 6. What is proved

All theorems hold for every value of the constants that satisfies the module's
assumption on them, with any number of users, calls, tokens, rows and so on.  Each
`*_proofs` module states an inductive invariant, one lemma per action, and derives the
theorems.  Three of them extend, and prove about, a second module as well:
AccountRows_proofs RoleOrder, whose roles its users are given, RoomMembers_proofs
Images, the images of rooms among them, and Social_proofs Paging, which reads its
whinnies and relationships among other lists.  What two such modules would otherwise
have in common by name is called after the part: `OrderSpec`, `InitOrder`, `OrderTypeOK`;
`ImageSpec`, `InitImage`, `ImageTypeOK`; `PagingSpec`, `InitPaging`, `PagingTypeOK`.

| Module | Theorems | The inductive invariant, and why it is needed |
|---|---|---|
| SecurityStamps_proofs | `TypeCorrect`, `RevokedSwept`, `UndisturbedEvicts`, `NeverWronglyRefused` | `SweptInv`: a call is no older than `Latency`, a count that found its stamp valid is no later than the revocation (`RequestsInTime`), so no score exceeds revocation + latency + life (`ScoresBounded`); a sweep later than that takes the stamp.  `EvictInv`: while a renewal is alone it knows where both stores stand, and no check holds a count that could cache the stamp again.  `RefusedInv`: a stamp presented was issued, and a revoked one stays so |
| WsAuth_proofs | `TypeCorrect`, `EveryoneListed`, `LeftExplained`, `CheckedWrites` | `SetInv`: a socket that never connected is not listed (`FirstConnected`), and a message still before its handler when its socket left was in hand then (`LateRenewals`), so an entry it makes afterwards is accounted for.  `ActInv`: while a message is in hand and its socket took no other user, the socket shows the one that was checked (`ShowsChecked`) |
| RefreshTokens_proofs | `TypeCorrect`, `OneLive`, `LogoutEnds`, `LineageRecorded`, `SessionLives`, `SessionsImplemented` | `FamilyInv`: a family that is not contested is in the hands of one call, which has its token and its child and nothing else is left of it (`HandsAreFull`); children are nobody else's until the answer (`ChildrenAreFresh`); an ended family stays ended.  `SessionInv` adds that only families that exist are contested; each action is then a step of `Sessions` or a stutter: `Login` opens, `RefreshRevoke` rotates (the call has the only live token and its child is the next), `LogoutRevoke` ends, `Throw`, `Crash` and the reads that overlap tear |
| RoomMembers_proofs, on RoomMembers | `TypeCorrect`, `ChangeShown`, `ActivityNewest`, `RemovedStays`, `MessagesOfMembers` | `IInv`: what a handler checked still holds or was changed since (`Rights`, `Targets`); its message is its own; without a crossing the message being written is the newest (`Newest`); a handler that is alone sends the room as it is (`Alone`, `Fresh`, `Answered`) |
| RoomMembers_proofs, on Images | `ImageTypeCorrect`, `FileNamed`, `LinkFresh`, `ImageQueueImplemented` | `ImageInv`: a job that is alone is the only one; while no removal overlapped a change, what was uploaded stays and only the removal that will empty the row takes the row's file (`FilesInv`); whoever fetches a link to another image than the row's does it across a change, and read the path before the row left it (`GettersInv`); from its `del` to its write a job finds no link but those fetched across it, and no link outlives the row's leaving by more than a request and a cache life (`CacheInv`).  For the queue: how often a job has been run is what its place says (`CountedInv`), so that the one put back is run for the first time again, and the one given up for the second |
| Notifications_proofs | `TypeCorrect`, `SeenSince`, `NotUndone`, `FirstMoment`, `MadeOnce`, `SettledShown`, `QueueImplemented` | `IInv`: the queue holds each waiting job once (`QueueInv`); the clock counts the starts, so it stays in its bound (`ClockInv`); a row, and what a job read of one, has the moments of its status (`RowsInv`, `JobsInv`); what a running job read is the row, or an earlier state of it that was written since and whose moments the row still has (`ReadsInv`), so a write that undoes something overlapped; a job has made at most one row per run, none yet in the run under way (`CreatedInv`); what a job that is alone wrote is the row until it has told the client (`AloneInv`).  Of these the refinement needs `QueueInv` and `JobsInv`: the head of the queue is a job nobody runs, and a job's count of runs tells whether it was cut off before |
| Accounts_proofs | `TypeCorrect`, `UsedUpForGood`, `AllOrAnError`, `LinkedToTheOwner`, `ConfirmedByMail` | `IInv`: tokens are only ever used up, and what a handler holds of one stays true of it (`Good`: its place in the handler, what it has done of what its token is for, and that the token is spent once it goes on to answer (`Spent`), whether its login is there unless unlinked); every active token and every call that could still confirm an address was meant for the one that stands, if the user is not `mixed` (`TokenFits`, `CallFits`) |
| Social_proofs, on Social | `TypeCorrect`, `RepostsChecked`, `GraphCorrect` | `IInv`: a row is written once and then only removed, so what a handler found among the rows that had been there is as it was or gone (`Known`); a cascade is closed under `source`, so what remains still refers to rows (`Threads`).  `GraphInv`: of an item that is not mixed, what a pending call adds has a row and what it takes has none, only creates share it, and with no call about it graph and rows agree (`Mirrors`); a row's node is there, on its way, or lost with its edges (`Nodes`) |
| Social_proofs, on Paging | `PagingTypeCorrect`, `ShownOnce`, `ShownAll` | `PagingInv`: while the cursor stands in the list, what was shown is not behind it and what was there all the time and not shown is, but for what moved or is `tied` (`CursorInv`); whichever rows are before the offset were shown unless one was pulled there or is tied, and those shown are before it unless one was pushed out or is tied (`OffsetInv`).  They rest on lemmas about the first `n` rows of a weak order: a row placed in a gap keeps it one (`GapFits`, `PlacedWeak`), two choices of the first `n` differ in tied rows only (`TornApart`), the first `m` of what the first `n` leave are the next ones (`FirstThenFirst`), and the first row from a cursor on has its moment (`FirstHead`, `FromPlace`) |
| AccountRows_proofs, on AccountRows | `TypeCorrect`, `OneRoom`, `LeftBehind`, `Refused`, `RolesAsked`, `TokenRoles` | `RowsInv`: what creators counted is no more than was there (`CreatorsLooked`), a deletion under way has dropped the older rooms (`DroppersDropped`), a `changeRoles` that is alone computes with the rows as they are (`AloneIsAlone`), and a stamp is ahead of its rows only between the two writes (`StampedMeansBetween`) |
| AccountRows_proofs, on RoleOrder | `OrderTypeCorrect`, `DensePlaces`, `OneMoves`, `ListShown`, `ListImplemented` | `OrderInv`: the rows occupy 1..n for some n (`Numbered`), which each shift preserves; an uncontested request is the only one, so what it read is the list (`ShownInv`).  For the list: places that are dense stand for exactly one sequence (`ListIs`, `ListOfDense`), so it is enough that each role of the sequence `Append`, `RemoveAt` or `InsertAt` makes is at the place the shift gave it (`CreateAppends`, `DeleteRemoves`, `SortMoves`) |

`RemovedStays`, `MessagesOfMembers`, `NotUndone`, `FirstMoment` and `OneMoves` are about
steps (`[][...]_vars`); `SessionsImplemented`, `QueueImplemented`, `ImageQueueImplemented`
and `ListImplemented` are refinements; the others are invariants.  A refinement is
proved for initial states, and for one step: under the invariant every step of the
detailed module is a step of the abstract one or leaves all it speaks of as it was.
The abstract specifications have no fairness, so nothing is owed for liveness.
The properties that TLC checks on the small instances are the ones proved.
`LineageRecorded`, `OneMoves` and the type invariants are proved and not run.

Beyond the ranges of the numbers, Images assumes that null and the mark of a row
that is gone differ from each other and from every path.

Only model-checked: `JobsEnd`, which is liveness under fairness and out of the prover's
reach, as is anything about ENABLED.  No module declares a RECURSIVE operator: what
would recur over a sequence is said of sets (the pages of Paging, the cascade of
Social), because what a recursion computes for every argument takes induction over
data, which these provers do not do either.

## 7. What is not modelled, and why

* The mirroring of users in the graph (`auth.service.ts:198`, `215`).
* The code of the sockets' renewal job after its query, which always fails (section 5).
* In RefreshTokens, that deleting an account takes its tokens along.
* Themes: a further column of the row an image job writes, in the same statement.
* Handlers that read once (counts, single rows, dashboard, PDF; lists are in Paging),
  the app's ping and status job, the rendering of mails and themes, validation: they
  change nothing.
* Clients of Redis, Postgres, Dropbox, Bull, SendGrid, the graph: external.  Their
  commands are the atomic steps of the modules; Bull's workers, stalled jobs and
  completion are modelled as the code in `src/` uses them.
* Sending fails silently for a socket that left, so delivery is a single step; all
  users are connected in RoomMembers and Notifications.
* In Bull, a job that loses its lock while its process lives.

## 8. Plan

The order was: what guards everything first (SecurityStamps, RefreshTokens,
WsAuth), then the rows many handlers share (RoleOrder, RoomMembers), then the queues
(Notifications, Images), then Accounts and Social, then the rows that hang from an
account (PrivateRooms, UserRoles, AccountRows), the lists (Paging) and the abstract
specifications (Sessions, JobQueue, RoleList).  These are written, checked and proved
about.  What is left, most important first:

1. An abstract mirror for Social: the graph is some subset of what the rows were,
   in the absence of swaps.
2. Mirroring of users.

## 9. Running it

    tlc -workers 2 -config MCRoomMembers.cfg MCRoomMembers.tla
    tlapm RoomMembers_proofs.tla

`PROJECT.json` names module and `.cfg` of every run.  The longest runs take about three
minutes, the longest proof a few minutes.
