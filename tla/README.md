# A verification of the NPLN server's session services

This directory holds TLA+ models of the server in `src/`, the TLC configurations
that check them on small instances, and proofs that TLAPS checks for every value
of the constants. The server is a single Go process that lets game clients find
each other (matchmaking), share small documents while they play (gamesync), and
a number of services around that which keep little or no state.

## 1. Inventory

| Component | Source | State | Operations | Modelled |
|---|---|---|---|---|
| session registry | `session_registry.go` | `sessions`, `pooled`, one mutex shared by three services | `member`, `depart` | `SessionRegistry` |
| matchmaker | `matchmaking.go`, `session_service.go` | `tickets`, `ticketSessions`, `sessionsByPool` | Create-, Track-, CancelMatchmakingTicket | `Matchmaker` |
| game session service | `matchmaking.go`, `session_service.go` | creation tickets | Create-/TrackGameSessionCreationTicket, JoinGameSession, readers | `GameSessionService`; the pages of its listings in `PagedListing` |
| gamesync lifecycle | `gamesync.go`, `gamesync_store.go` | `sessions`, `nextSequence`, `streamCounts`, `disconnectTimers` | IssueToken, KeepUserSession (open, end), timers, `expireSession` | `GamesyncLifecycle`; the mutexes of all its calls in `GamesyncLocks` |
| gamesync document store | `gamesync_store.go`, `gamesync.go` | `documents`, `owners`, `deferments`, `globalValues`, `subscribers` | `initializeFixedData`, WriteDocuments, targets, publication, expiry | `GamesyncStore`; contents of `docs/__pus`, transforms and globals in `ParticipantState` |
| gamesync reads | `gamesync_reads.go` | none of its own | ReadDocuments, ListDocuments, snapshots | snapshots in `GamesyncStore`, pages in `PagedListing`, masks in `ParticipantState` |
| token services, accounts | `auth.go`, `token_jwt.go`, `nnex_token.go`, `subsdk_token.go`, `account_client.go` | a map from user to account id | mint and verify tokens | the signing key and its file in `SigningKey`; otherwise inputs of the models |
| certificate generation | `cert_gen.go` | two files | `ensureTlsCertificate`: inspect, sign, write, validate | `CertificateFiles` |
| NNCS, STUN, TURN, UDP observer | the files of those names | sockets and read loops | open, answer or record a datagram, close | opening, failure and closing in `ServerSockets`; the answers are not |
| TLS demultiplexer | `local.go` | two `chanListener` channels | accept, handshake, push, Accept | `TlsConnections` |
| probe recorder | `observability.go` | ids by remote address, event counter, log file | register, look up and forget a connection; record | `ProbeRecorder` |
| wiring | `main.go` | none | `buildServer` injects one registry into three services; `main` orders certificate, sockets and service | `SessionServices`, `ServerProcess` |
| datastore | `datastore.go` | one map under one mutex | create, get, search, delete | no |
| friends, UGC store, messaging | the files of those names | none | answer one request, or keep a stream alive | no |


`proto/` is generated and `client-patches/` patches the client; neither is part
of the server's behaviour.

### How the parts interact

* The matchmaker, the game session service and the gamesync server share one
  `sessionRegistry`, its mutex and its `*GameSession` objects. A public match
  session is in two maps at once, with a member list of its own in `pooled`.
* A client holds a place in a game session as a *user session* with a match
  token. `IssueToken` exchanges the token for a gamesync session; a
  `KeepUserSession` stream holds it; when the last stream ends a timer runs, and
  `expireSession` deletes the member's documents and calls `registry.depart`.
* Commits, joins and expiries are published to the streams of a game session
  under `publication`, a mutex that outlasts `gamesyncServer.mu`. The registry's
  mutex and each subscriber's are taken inside it, and `Send` waits for clients.
* A process makes sure of its certificate, opens its UDP sockets and then port
  443, and reads the signing key when it makes or checks the first token. What
  outlives it are three files: certificate, its key, signing key.
* A connection to port 443 gets an id from the recorder and is handed by ALPN to
  the gRPC or the REST server through a channel; the gRPC server finds the id
  again by the remote address.

### What is hard here

Go handlers run concurrently and take the mutexes more than once per call, so
what one section reads is old when the next one uses it: `IssueToken` checks the
membership and then remembers the session, `CreateMatchmakingTicket` checks the
friend room and stores a ticket that is placed much later, `WriteDocuments`
authorizes before it queues for the commit locks. Timers fire while they are
being stopped. Resource names and sequence numbers outlive what they name.
A message is sent to a client that may not read while two mutexes are held. A
process may end between any two steps of writing its files, and a second one may
be started over the same files and ports.
`PROJECT.json` lists 40 such hazards at their lines with the properties that
would catch them; those without a property say why.

### What makes each component correct

* registry, matchmaker, game session service: the three views of a session's
  members agree; capacity, one place per user, tombstones stay dead; a ticket is
  placed once; pools of a friend room hold only its members; old tokens stay bad.
* lifecycle: counts are exact; an open stream is never evicted; an unstreamed
  session is always on its way out and finally gone, registry included; sequence
  numbers are never shared.
* store: a batch is all or nothing; streams see commits in order and miss none;
  a document exists as long as its owner is a member; the seed never changes.
* participant state: connection numbers are given out once each and in order,
  by batches that commit; what a participant was told is what others read.
* listings: whatever comes and goes between two pages, a listing is complete,
  repeats nothing and, because names are finitely many, ends.
* mutexes: nobody waits in a circle; a client that does not read delays those
  who publish to it and never those who only read.
* server process: a token whose key is in the file stays good until a process
  that cannot read that file writes a key of its own over it; no leaf known to
  be bad is served; a supervised server comes up however the files were left.
* connections: each leaves the accepting goroutine, is known by one id and is
  forgotten when it ends; no event is in the log before one that it followed.

## 2. Modules

| Module | Models | State and actions against the code |
|---|---|---|
| `SessionRegistry` | the registry | `sessions`, `pooled`: the two maps; `issued` is a history variable, the user sessions named in replies; `clock` is the UnixNano reading in names. `AddPublicMatchMember`, `Depart` are `addPublicMatchMembers`, `depart`. |
| `Matchmaker` | tickets | One action per critical section: `AuthorizeMatchmakingTicket` and `StoreMatchmakingTicket` are Create, `TrackMatchmakingTicket` and `CompleteMatchmakingTicket` are Track. `handler` is what a goroutine carries from one to the other. |
| `GameSessionService` | rooms by ticket and by name | `creations`: the ticket map, `gs = 0` while PENDING. |
| `SessionServices` | the composition | The gamesync server appears as `Depart` of any user session ever issued, at any time. States the properties and the mapping to `GameRooms`. |
| `GameRooms` | abstract | A room is opened by one user, holds each user once and no more than its size, closes for good with its last user. |
| `GamesyncLifecycle` | one game session's gamesync sessions | Every critical section of IssueToken, KeepUserSession, the writers and the timer callbacks is an action; `timers` holds each live timer and running callback with the handle its closure captured. |
| `GamesyncLocks` | every mutex of the gamesync server | `plan` is what a handler has still to execute of the statements that can block: lock, read-lock, unlock, `Send`. A call is one of a few plans, its early returns among them. `writer`, `writing`, `readers`, `blocked` are `sync.RWMutex`, in which an announced writer keeps new readers out. |
| `GamesyncStore` | one game session's documents and streams | `mu`, `publication` are the mutexes held across steps; `batch` is WriteDocuments' private copies; `outbox` what is still to be sent; `view` the client's picture. |
| `ParticipantState` | the fields of `docs/__pus` and the global `__upcsidn` | `batch` is the batch that holds the locks, with its private copies of the writer's document and the global; one action per write operation or field transform. `drawn` and `told` are history: the numbers of the draws committed since the global was last cleared, and what each participant's last draw answered. |
| `PagedListing` | ListDocuments, QueryGameSessions, ListUserSessions | `matching` is what matches the request now, `listing` what a client has: its token and what it got. The server keeps nothing between pages. |
| `ObservedStore` | abstract | A store whose batches take effect at once and whose subscribers are shown each change in order. |
| `Processes`, `CertificateFiles`, `SigningKey`, `ServerSockets` | what server processes share | The certificate pair with each file truncated before it is written, the signing key with its `jwtOnce`, the ports with their owner and the read loops. `ReadSigningKeyFails`, `WriteSigningKeyFails` and `PairUnreadable` are the errors of the file calls. `suspect`, `durable`, `misread`, `replaced` are history: leaves that were bad when a process started, keys that signed while on disk, processes that made a key because they could not read the one in the file, keys those have written over. |
| `ServerProcess` | `main.go` | `stage` is where a process is between down and serving. Every error of the start ends it; it may crash at any step. |
| `ProbeRecorder`, `TlsConnections` | connections to port 443 | `stage` follows one connection through its goroutine and then its server's, `progress` one RPC from `TagRPC` through its handler to its end. Events are recorded by `Recorder`s: the goroutine of a connection, `Handler(r)` of each RPC, and `Sender(r)`, whoever sends on the stream of that RPC behind the mutex of its subscriber (`gamesync.go:53`). `pending` are the events of each that have their number and not yet the log's mutex, in the order of the numbers. `shared`, `used` are history. |
| `*Proofs` | proofs | Section 5. |
| `MC*` | TLC instances | capacities and symmetry |

Three abstractions recur. *Data*: users, sessions, documents are model values;
documents keep the field that names their writer and one value for the rest.
*Time*: a timer may fire at any moment after it is armed, whatever its delay.
*Names*: two critical sections that make names read different clock values;
that is an assumption (hazard `matchmaking.go:210`), not a fact.

The operators introduced by a comment `Fault:` are deliberate errors of the kind
the code could have. Putting one in the place of the definition that follows it
must make TLC report the property that `PROJECT.json` pairs with it under
`mutants`; that shows each property able to fail.

Choices a reader may question:

* The two critical sections of CreateGameSessionCreationTicket are one action:
  the first only draws a number for a name that is unique anyway.
* A creation request refused for its size bumps `nextSessionID` in the code;
  the number occurs only in names, so the model lets it be.
* `GamesyncStore` lets a session be issued to, and expire for, any user session
  at any time. That includes what `GamesyncLifecycle` rules out, so the store's
  properties do not depend on it. Preconditions, malformed fields and
  unauthorized targets are all `RefuseBatch`: any batch may fail at any point.
* `GamesyncLifecycle` lets `registered` only shrink. `StaleTokenRefused`,
  proved of the services, is why: a departed user session never returns.
* Publication goes to the subscribers in any order; the code sorts by name.
* A deferment is a set of deletions; its preconditions could only make
  `Leftovers` smaller, and everything in it is deleted by ownership anyway.

* The server takes any values from its clients; the properties of
  `ParticipantState` are about clients like the game. `ParticipantAssumption`
  says what that means: every operation of a batch is part of a draw, the chain
  load, maximum, increment by more than zero, store of `gamesync_test.go:472`,
  or it leaves the number field and the global alone, replaces or deletes the
  whole document, or clears the global. After a clear the numbers may start
  again, and so does the history of them. The fields that identify the writer,
  update times and deferments are reasons for `RefuseBatch` there.
* Maps in `ParticipantState` are one deep, so that paths have one or two steps;
  `setField` and `readField` treat every further step as the second.
* `PagedListing` takes "matches the request" as a set that any step may change.
  For documents it changes by commits, expiry and tokens, for rooms also by
  joins that fill them; no property here depends on which. The three listings
  differ in their default and maximum page size only, which are constants.
* A publication in `GamesyncLocks` has one change; further ones repeat the same
  statements under the same mutexes. What the mutexes protect is left out there:
  the other gamesync modules have it.
* `ServerProcess` has all processes serve at one `NPLN_LISTEN`; with two
  different ones `TokensOutliveRestart` would not hold, since port 443 is all
  that keeps two processes from writing the signing key at once.
* `nplnSigningKey` takes every error of `os.ReadFile` for a missing file
  (`token_jwt.go:51`), where `README.md:22` of the repository says that a key is
  generated when there is none. A process that cannot read a good file, because
  it has no descriptor left, say, works with a key of its own and writes it over
  the good one. That is in the model as `ReadSigningKeyFails`, one more trouble,
  and `TokensOutliveRestart` excepts exactly its effects: the process in
  question, and the key once it has been written over. Everything else that
  fails must not lose a token.
* Read errors of the UDP loops are not modelled, nor is a failing key
  generation, since `crypto/rand` ends the process rather than return an error.
  The standalone gRPC mode differs only in what is served once port 443 is open.
* RPC events have the `connection_id` of their transport and are recorded by
  many goroutines at once, each of which draws the number before it waits for
  the log's mutex. So the lines of one connection are in no order as a whole.
  `LinesInOrder` says what is left: a line never comes before the line of an
  event that led to its own. Numbers matter only by their order, and a goroutine
  knows no numbers but its own, so `pending` keeps them as a sequence. Between
  the begin and the end of an RPC its goroutine records headers, payloads,
  messages and errors, any number of each: all are `HandlerMessage`. The headers
  that come in before the begin are left out, being recorded by that goroutine
  in the same way.
* The program never calls `chanListener.Close`, so `TlsConnections` has no close
  race of `push`.

## 3. Runs

All runs stop with every reachable state of the instance explored; deadlock is
not checked because clients may fall silent and the bounds stop naming.

| Run | Instance | Asks |
|---|---|---|
| `session_services` | 2 users, a public configuration of capacity 1 and a friend configuration of 2, 2 tickets, 1 creation ticket with the default or a too large size, 4 names, 1 handler | Do the views of a session agree, is capacity kept, do stale room checks let anyone into a friend pool, is `GameRooms` implemented? 373,695 states |
| `lifecycle_one` | 1 member, 2 issuers, 2 streams, 1 writer, 3 timers, 3 numbers | Do timers, streams, renewals and writes interleave safely, and is the place given back? 163,945 states |
| `lifecycle_two` | 2 members, 1 issuer, 1 stream, 1 writer, 2 timers, 4 numbers, callbacks that start early | Numbers never shared; early callbacks evict nobody. 1,711,674 states |
| `store_documents` | 2 members, 1 connection, 2 writers, `__stu` and `p`, 1 value, batches of 1 | Documents end with their owner and survive their reader; types under deletion, overwriting and expiry. The connection is a reader and a mailbox only: there is no family of connection documents here, those are left to the theorems. 3,095,068 states |
| `store_streams` | 2 members, 1 stream, 1 writer, batches of 2, 2 contents | Streams see what `ObservedStore` promises. 2,483,527 states |
| `participant_state` | 2 users, 2 writers, integers −4 to 3, 2 fields (one a map of 2), 10 kinds of batches, 4 masks | Are numbers drawn once each, by committed batches only, and refused at the end of the range? Do reads show them? 563,000 states |
| `paged_listing` | 5 names, sizes 0, 1 and 9, default 2, maximum 3 | Is a listing exact and free of repetition, and does it end, while names come and go? 36,370 states |
| `gamesync_locks` | 2 callers, 1 stream, a window of 1 message | Can handlers wait in a circle? Who suffers from a client that does not read? 220,762 states |
| `server_process` | a supervised process with 7 sockets, another with 3 that regenerates the pair, 5 leaves, 4 keys, 3 troubles | Do crashes, failed reads and writes and second starts spoil tokens or certificates, or keep the server down? 418,646 states |
| `tls_connections` | 2 connections from one address, 2 RPCs on the first, channels of length 1 | Do ids, log lines and channels survive connections that overlap or share an address, and RPCs that record along with them? 195,455 states |
| `expiration_wins` | 1 of each | expected to fail: finding 1 |
| `monitoring_peers` | 1 of each | expected to fail: finding 2 |

Why the bounds are enough to mean something: with capacity 1 a public session is
full with its first user, the second overflows into another one, both empty and
leave tombstones; a friend's session takes two. Two tickets of one user and
cancelled ones occur; four names allow a room, a course pool of that room and a
user who leaves and comes back. What needs more of anything is left to the
theorems, which all the properties of that run have. Two issuers and two streams
on one id give every race of a renewal, a resumed stream and a late callback;
three timers are one more than can matter at once (one in the map, one fired and
stale, one departing). Two members suffice for ownership to move and come back,
and a connection for a mailbox of somebody who is no member. With integers
up to 3 the counter reaches its end after two draws and the next increment must be
refused; the ten batches include the draw, batches that overwrite, merge into,
transform and delete the same document, one whose second operation always fails
after its first has cleared the global, and one that clears it and commits. One
of the masks names a field and a field of that field. Five names with pages of one, two
and three allow a name to appear before and after the token and pages to be cut
short or to fit exactly.

In `gamesync_locks` two callers and a stream hold and want all four kinds of
mutexes at once: one publishes, one announces itself as a writer, one reads. A
window of one message is full after the first. Three troubles allow a crash
between the two files of a pair, a second start and one more failure before
`ComesUp` has to be met; the bound is also what says that trouble ends. Five
leaves and four keys are more than can be in use at once. Two connections of one
address overlap, follow each other and compete for one place in a channel. Two
RPCs, with two goroutines each, record beside each other and beside the end of
their transport, and go on after it.
Configs use symmetry except where liveness is checked.

Fairness (`FairSpec` of `GamesyncLifecycle`): a goroutine that is inside a
handler, past its first section, goes on (Go schedules runnable goroutines, and
both mutexes are handed over in FIFO order once starved), and an armed timer
fires and its callback runs. Clients are never assumed to do anything.
`MembershipReleased` is conditional on the client staying away. In
`PagedListing` it is the client that is fair: `ListingEnds` speaks of a client
that asks for the next page as long as it is given a token. It comes to an end
because names are finitely many (`IsFiniteSet(Name)` is an assumption of the
module): nothing in the code ends a listing in which names keep appearing after
every token.

`GamesyncLocks` is strongly fair to each handler: a mutex may be free and taken
again any number of times while a handler waits, but Go hands it to a waiter
that has starved for a millisecond. Clients need do nothing. `ReadersFinish`
holds without any assumption about them; `HandlersFinish` assumes that each
client reads, or is known to be gone, again and again. The code gives no
deadline to a `Send`, so without that a publisher may wait for ever.

`ServerProcess` is weakly fair to each process, which runs while it can, and to
the start of supervised ones. `TlsConnections` is weakly fair to the goroutine
of each connection, to its handshake deadline and to the accept loops of both
servers. Clients may fall silent, during the handshake too.

## 4. Findings

1. `gamesync_store.go:466` says expiration wins over stale credentials. The
   recheck asks only whether the id has a session. If the session expires and
   the id is issued a new one between authorization and commit, the old
   credentials are accepted and `docs/p/<old number>` is written.
2. `README.md:81` says both users of a monitoring document are active members.
   The store looks in its own session map, in which a user session that the
   registry has already departed can still be, or be again.

Both start from `IssueToken` checking the registry and remembering the session
in two sections with `expireSession` in between. `MembershipReleased` shows that
such a session does not last: its own timer removes it.

## 5. Proofs

`SessionServicesProofs` proves, for any users, configurations, capacities,
handlers and numbers of tickets, from the `ASSUME`s of the modules only:

| Theorem | Property |
|---|---|
| `TypeCorrect` | `TypeOK` |
| `RostersAgree` | `RosterAgrees` |
| `OneSlot` | `OneSlotPerUser` |
| `CapacityKept` | `CapacityRespected` |
| `TombstonesFinal` | `TombstoneFinal` |
| `StaleTokensStayRefused` | `StaleTokenRefused` |
| `FriendPoolsFromRooms` | `FriendPoolFromRoom` |
| `TicketsPlacedOnce` | `TicketPlacedOnce` |
| `RepeatedTicketsTakeNoSlot` | `RepeatedTicketTakesNoSlot` |
| `CreationsOpenOneRoom` | `CreationOpensOneRoom` |
| `ImplementsRooms` | `RoomsSpec` |

The argument. None of the properties is inductive. `RosterAgrees` needs user
session names to be fresh, or removing one by name would remove two; capacity
needs the count to be the number of members when a vacancy is decided. The
inductive invariant `ServicesInv` is `TypeOK` and, for each session, `Sound`:
its users are finite in number, counted by `count`, within `max`, distinct in
name and in user, all issued, and it is ACTIVE exactly when it has users; and
`PoolSound`: the matchmaker's list is the same set, of a pool of the same friend
room. Names are fresh because all lie at or below `clock`.
`StepOfRegistry` and `ShapeOfStep` reduce every step of the three services to
one of four shapes: the registry stays, a session is opened, a user enters one,
a user session departs. Each property is then proved per shape, not per handler.
`TicketInv` adds what a handler between two sections knows: whose ticket it
holds, and that the user of a ticket was once in the friend room it names.
`CreationInv` says that no two creation tickets name the same room and that all
the rooms they name are at or below `clock`, so a new name is nobody's.
`ImplementsRooms` maps the same four shapes to the steps of `GameRooms`.

`GamesyncLifecycleProofs` proves, for any users, goroutines and timers and
whether or not callbacks start early:

| Theorem | Property |
|---|---|
| `LifecycleTypes` | `TypeOK` |
| `StreamsCounted` | `StreamCountExact` |
| `StreamsKeepSessions` | `NoStreamEvicted` |
| `NoOrphans` | `NoOrphanDocuments` |
| `NumbersUnshared` | `SequenceNeverShared` |
| `CleanupStaysArmed` | `CleanupArmed`, assuming `PromptTimers = FALSE` |

The argument. `TypeOK` and `StreamCountExact` are inductive only together
(`CountInv`): an entry stays a natural number when a stream ends because it
counts that stream, and stays exact when `expireSession` deletes it because the
guard `<= 0` then means zero, hence no streams. `OnlyExpireEnds` says that no
other step ends a session. `SequenceNeverShared` is strengthened to
`NumbersOwned`: a number is claimed by a session, by a document or by a writer's
credentials, all claims to one number are one user's, and none exceeds
`nextSequence`. `CleanupArmed` needs `TimerInv`: a callback's handle is its own
timer, and no two ids name one timer, so stopping one id's timer never disarms
another. The first half is what an early callback breaks, whence the assumption.

`PagedListingProofs` proves, for any names, callers and page sizes,
`ListingTypes` (`TypeOK`), `ListingsExact` (`ListingExact`) and
`PagesAreDisjoint` (`PagesDisjoint`). `ListingExact` becomes inductive as
`ListingInv`: a listing that goes on has every name up to its token that has
matched all along, and nothing beyond the token. A page keeps this because what
it leaves out is greater than its last name, which is the next token.

`GamesyncStoreProofs` proves, for any members, connections, families of
documents, contents, writers and streams:

| Theorem | Property |
|---|---|
| `StoreTypes` | `TypeOK` |
| `MembersOwn` | `OwnersAreMembers` |
| `UserDocumentsFollowSessions` | `UserDocuments`: the documents `docs/__us` are those of the users with a session |
| `ViewsFollow` | `ViewsFollowStore` |
| `MapUntouchedWhileSending` | `MapStableWhileSending` |
| `FixedDataStays` | `FixedDataStable` |
| `MailStays` | `MailSurvivesRecipient` |
| `ImplementsObservedStore` | `ObservedSpec` |

The argument. `StoreInv` joins to the types what holds between critical
sections. The writer whose batch is under way has a session, because expiry
needs `publication` too. A batch's private copies differ from the store only in
what the batch itself changed (`BatchIsCopy`), so a commit is one change. The
user documents are the ones that rebuilding them from the sessions would give.
Nothing is unsent unless somebody holds `publication` (`UnsentUnderMutex`): that
is why what a stream has been shown, with what is still to be sent to it, is
always what it watches. The fixed data is drawn before anybody can look
(`FixedDrawn`), which is why `initializeFixedData` may write without
`publication`. The refinement maps a commit to one step of `ObservedStore` and
everything inside a batch to a stutter; `ViewsFollowStore` gives the views.

`ParticipantStateProofs` proves, for any users, writers, fields, masks and
batches of any length that satisfy `ParticipantAssumption`, and any largest
integer:

| Theorem | Property |
|---|---|
| `ParticipantTypes` | `TypeOK` |
| `CounterKeepsLastDraw` | `CounterIsLastDraw` |
| `NumbersAreNew` | `DrawsIncrease` |
| `ToldNumberIsRead` | `ToldIsStored` |
| `MaskedReadsAreExact` | `MaskedReadExact` |

The argument. A draw takes four operations, between which the number in the
document need be neither the one told nor the one in the counter, so
`ToldIsStored` says too little of a batch in the middle of one. The inductive
invariant `NumberInv` says
of the committed state that the history increases and ends with the counter
(`Counted`) and that a told number is stored (`Stored`), and of the private
copies of a batch that they are `Right`: what is left to do is the rest of a
request after some number of operations, and what then holds of the number
depends on where in a draw that is (`Progress`). After the load it is the
counter or, if there is none, anything; after the increment it is ahead of the
counter, because the overflow test lets no sum wrap; after the store it is the
counter. `DrawGoesOn` and `DrawEnds` are these steps, `OtherIsRight` the
operations that are part of no draw.

`MaskedReadExact` is about a fold over the mask. The induction this needs is made
with the least element of a set of naturals (`Least`, `Induction`), in place of
the library's theorem, which takes an operator: `CopyMaskedSteps` names the
results after each path of the mask, and the lemmas after it say what a path
that was copied, or not yet, reads as. A path below another one of the mask is
why the property excepts scalars whose fields the mask names: `setField` makes
such a scalar a map while it copies.

`GamesyncLocksProofs` proves `NobodyWaitsInACircle` (`NoCircularWait`) for any
callers and streams. The reason is the shape of the plans: between taking any
mutex but `publication` and releasing it a handler takes nothing, and it takes
`publication` once, before the others. `LocksInv` says that every plan, and what
is left of it, has this shape and that what a handler holds is what its plan
will release. So who holds an inner mutex waits for no handler, an announced
writer waits at most for readers who are inside, a kept-out reader for that
writer, and who waits for `publication` for somebody who is one of these: a
circle has nowhere to close.

`ServerProcessProofs` proves, for any processes, sockets, leaves, keys and
number of troubles, `ServerTypes` (`TypeOK`), `DurableTokens`
(`TokensOutliveRestart`) and `SoundLeafServed` (`ServesSoundLeaf`). Only who
serves uses the signing key, and who serves owns port 443: that port is the lock
of the key file, from the assumption that all processes share `NPLN_LISTEN`.
`KeyInv` adds what the one process behind that lock may find: while it writes,
the file holds no key, or one that it failed to read and has not opened for
writing yet (`misread`); the keys it overwrites when it opens the file are
`replaced` from then on. So a durable key that is not replaced is in the file,
and whoever has read the file has that key.
Nothing locks the certificate files. `CertificateInv` says instead that a leaf
which reaches the disk after a process started was signed after it started, and
so is not one that process holds suspect: whatever another process writes
between the check and the loading, what is loaded was checked or is new.

`TlsConnectionsProofs` proves, for any connections, addresses and lengths of the
channels, `ConnectionsTyped` (types, and that a connection is in one place of
one channel), `LogInOrder` (`LinesInOrder`), `OneId` (`OneIdPerConnection`) and
`AddressesGo` (`AddressesForgotten`), for any calls as well. A goroutine has at
most one event under way, because `record` returns before its next step: that is
`AtMostOne`, and it puts the lines of one goroutine in order. The channel lies
between the two goroutines of a connection, so those count as one. Across
goroutines `LogInv` says what each step of an RPC waited for: none of its events
is drawn before the ones that began its transport are written, and nobody sends
on its stream before the ones that began the RPC are. As long as the address of
a connection is not shared, the table has the connection's own id from
`Register` to its end; its RPCs take that id from the transport's context.

What is only model-checked is liveness under fairness (`MembershipReleased`,
`ListingEnds`, `ReadersFinish`, `HandlersFinish`, `ComesUp`,
`LeavesDemultiplexer`), which this prover does not do; every invariant, action
property and refinement that a run checks is a theorem. `ServerTypes`,
`ConnectionsTyped`, `TypeCorrect`, `LifecycleTypes`, `ListingTypes` and
`ParticipantTypes` state type invariants that the runs leave to the proofs. No
proof assumes anything but the `ASSUME`s of the modules, which TLC evaluates on
the instances, and the hypothesis about callbacks in `CleanupStaysArmed`.

## 6. Not modelled, and the plan

What is left, in order of importance:

1. Composition of the lifecycle with the registry in place of `registered`; the
   two now meet in `StaleTokenRefused`, which says that `registered` shrinks.
2. Names under a coarse clock, in the registry and in the datastore
   (`datastore.go:36`), where two calls within one reading share a name. The
   models assume that a name is new.
3. Friends, messaging, UGC store and datastore: each answers from its request,
   from another service or from one map within one critical section, so there is
   no interleaving to check; the routing of NNCS answers between the primary and
   the alternate socket is a function of the datagram.
4. `replay.go` and `matchmaking_values.go` keep nothing and decide nothing.

Left out for good: cryptography and token formats, the TURN library, UDP and TLS
I/O, logging, JSON encodings, generated code.
