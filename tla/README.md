# A verification project for thaumaste

thaumaste is a Matrix homeserver in Go: several server instances share one PostgreSQL database and
one Valkey, serve many tenants, and keep no state of their own that a restart may not lose. This
directory holds TLA+ models of the parts of it whose correctness depends on what happens at the same
time, on what is lost, and on what is retried; the TLC configurations that check them on small
instances; and TLAPS proofs for every value of the constants.

    tlc -config Stream.cfg MCStreamPositions.tla     # one run; the .cfg names the module's instance
    tlapm SessionsProofs.tla                         # the proofs of one component; every *Proofs module

## 1. The system

Paths are relative to `src/internal`.

| Component | State | Operations | Correct when |
|---|---|---|---|
| **Stream positions** `pkg/postgres/stream.go` | a PostgreSQL sequence, one row per instance in `stream_positions`; in memory `inFlight`, `fetching`, `finished`, `maxSeen`, `upTo` | `NewStream`, `Next`, `Release`, `Published`, `Current` | no event is committed at or below a position that has been published |
| **Transactions** `pkg/postgres/postgres.go` | the transaction in the context | `WithTx` (joins one it finds) | what is released or announced has been committed |
| **Event writes** `service/events`, `repository/{event,room,state,transaction,relation}` | events, state snapshots, one forward extremity per room, transactions of clients, `last_stream` | `Send`, `Redact`, `CreateRoom`, each under a gate, a lease, an advisory lock and a transaction | writes of a room are a chain, every event is authorised by the state before it, a retried send writes once |
| **Event authorisation** `entity/{authrules,powerlevels,state}.go` | none (pure) | `Authorise`, `SelectAuthEvents`, `CheckAuthEvents` | decides as the room version's rules do; nobody gains power that was not given |
| **Timeline and visibility** `service/timeline`, `entity/visibility.go`, `service/rooms/{read,relations}.go` | none: a filter made for each read | `VisibilityFor`, `Visible`, `MembershipAt`, `Messages`, `Context`, ... | a reader sees what he was entitled to see, and nothing else |
| **Rooms** `service/rooms` | memberships, aliases, visibility, rate limits | `Create`, `Join`, `Invite`, `Kick`, `Ban`, `Send`, ... | checks made before the lock still hold under it |
| **Sliding sync** `service/sync`, `repository/connection` | `sync_connections` (confirmed and pending generation with their cursors), `sync_connection_rooms` | `Sync`: resolve, attempt, stage, park | what the client is taken to have, it has; what is committed reaches it, once |
| **Legacy sync** `service/legacysync` | none: the cursors travel in `since` | `Sync` | as sliding sync, for a client that may replay any token |
| **Notifier** `pkg/notify`, `pkg/valkey` | waiters by key | `Notify`, `Wait`, `Run` | a lost wake-up only delays |
| **Serialiser** `pkg/serialiser` | a gate per key, per instance | `Do` | one at a time, and no gate is left behind |
| **To-device messages** `service/todevice` | messages by device and position, transactions | `Send`, `Since`, `DeleteUpTo`, sweep | delivered exactly once through crashes and retries |
| **Device keys, device lists** `service/{keys,devicelists}` | device, one-time and fallback keys; changes by position | `Upload`, `Claim`, `Record`, `ChangedSince` | a one-time key is handed out once; peers hear of changes |
| **Users, tokens, sessions** `service/{users,tokens}` | users, devices, access and refresh tokens, failed attempts | `Login`, `Refresh`, `Logout`, `Deactivate`, ... | a revoked or used token opens nothing; one session per device |
| **Account data, receipts, typing** `service/{accountdata,receipts,typing}` | one row (or Valkey key) per type, room, user | `Set`, `SetTag`, `Mark`, ... | the last write is the one every cursor ends at |
| **Tenants, signing keys** `service/tenants`, `pkg/keyseal` | tenants, key pairs | create, rotate, resolve by host | one current key per tenant |
| Directory, filters, presence, handlers, runtime, configuration | single rows, none | parse, look up, render, sweep | (no interaction of their own) |

How they interact: a write takes a position from its stream, commits, gives the position back and
then notifies; a sync request asks each stream how far it may read, reads up to there, stages what
it sends and, when there is nothing, waits for a notification or its deadline. Five streams exist
(events, account data, receipts, device lists, to-device), all instances of one `Stream` type. The
hard parts are therefore: positions drawn in one order and committed in another, across instances
and restarts (the streams); a protocol whose every SQL statement commits alone and whose responses
and requests may be lost, abandoned and repeated (sliding sync); three locks around one room write;
retries of sends; claims beside uploads; token rotation beside revocation; stores without a
transaction (Valkey) read beside stores with one. `PROJECT.json` lists each
hazard at its line.

## 2. Modules

| Module | What it is | Checked by |
|---|---|---|
| `PublishedStream` | abstract: what a stream promises to readers with a cursor | refined by `StreamPositions`, read by `SlidingSync` |
| `StreamPositions` | `stream.go`, with the nesting of `WithTx` and restarts | `Stream`, `StreamLive`, `StreamIdleWriter` |
| `SlidingSync` | one sliding sync connection, its handlers and its client | `Sync`, `SyncLive`, `SyncRaces`, `SyncTwoInstances` |
| `AuthRules` | operators: the authorisation of an event by a room's state | through `Rooms` |
| `RoomHistory` | abstract: one history per room, every event authorised by what came before | refined by `RoomWrites` |
| `RoomWrites` | the writes of one room, their three locks and their transaction | `Rooms`, `RoomsLive` |
| `RoomReads` | what a user is shown of a room's history: the filter, loaded beside `RoomWrites` | `Rooms` |
| `Sessions` | one user's devices and tokens under concurrent transactions | `Sessions` |
| `DeviceKeys` | one device's keys, the announcement of changes, a client that follows | `Keys` |
| `KeyStore` | abstract: the keys of a device, if every upload and every claim were one step | refined by `DeviceKeys` (a theorem) |
| `ToDevice`, `AccountData`, `Typing` | three stores with their writers and what readers ask of them | composed in `LegacySync` |
| `LegacySync` | the stateless `/sync` over those three stores, and its client | `LegacySync` |
| `StreamPositionsProofs`, `RoomWritesProofs`, `RoomMembersProofs`, `PowerLevelsProofs`, `SessionsProofs`, `DeviceKeysProofs`, `LegacySyncProofs`, `SlidingSyncProofs` | theorems, for every value of the constants | tlapm |
| `MCStreamPositions`, `MCSlidingSync`, `MCRoomWrites`, `MCSessions`, `MCDeviceKeys`, `MCLegacySync` | small instances | |

The promise of `PublishedStream` is that an answer lies below every undecided position, and that a
transaction commits at all of its positions or at none. `DeviceKeys` and `AccountData` assume no more of
the stream they read (and that a later answer may be less), so the streams are modelled once and their
readers against the abstraction. For `SlidingSync` this is proved in both directions (section 4): what it
reads is a `PublishedStream`, and its environment leaves out no step of one.

### StreamPositions

State. `seq` is the sequence's last value, `stored[i]` the row of instance `i` (0: none) and
`recent[i]` whether its `updated_at` is within `writerStaleAfter`. `inFlight`, `finished`, `maxSeen`
and `upTo` are the fields of `Stream`. The list `fetching` of markers is the set of the writers that
are drawing, each with its `marker`. `pc` follows each caller of `Next` from the marker to the end of
its `Release`; `query` is what a caller of `Published` has read before it takes the mutex. `early`,
`promised` and `sure` are history.

Actions. `Next` is `NextBegin`, `Nextval` (once per position: another session may draw in between)
and `NextRegister` or `NextFail`; `Commit` and `Rollback` settle the transaction; `Release` is the
locked part of `release` with `advance`; `Persist` and `PersistFail` are the upsert after it;
`Published` is `PublishedQuery` and `PublishedAnswer`; `GoStale` is the passing of
`writerStaleAfter`; `Restart` kills an instance and runs `NewStream`. Positions are absolute values:
the sign of a backfill stream is applied at the edges of the functions.

A *nested* writer releases before its transaction is decided: `WithTx` joins the transaction in the
context (`postgres.go:59`), so the `Release` deferred inside it runs first. These are `rooms.Create`
around `events.CreateRoom` and the device list changes inside `Login`, `Logout`, `LogoutAll` and
`DeleteDevices`. A *blind* query is one that did not find a recent row for every other instance. The
safety properties state what holds without those two. `StreamIdleWriter` shows what a blind query lets
through; a nested writer is part of `Stream`, whose properties except it.

Left out: a COMMIT that succeeds while its client sees an error; the database's own crash; a fresh
sequence (`FirstSeq = 0`), whose `last_value` is 1 before anything is issued: the runs and theorems
start from a sequence that has been used.

### SlidingSync

State. `conn` is the connection's row (`nid = 0`: none), `sentTo` and `staged` its confirmed and
pending room rows; `pc` and `sess` follow each handler, `ahead[h]` is who was at the
connection's gate on the instance of `h` before it and has not left: `h` is inside when nobody is; `client` is the position the client holds, the handler it
waits for, and what it has received. The events have a position, a room and a fate
(open, committed or neither); `published` is what `Published` answers, and `receded` (history) the
greatest answer that a later one fell behind. `dataAt` numbers the writes of
the user's account data, which stands for the extensions that keep a cursor.

Actions. `Send` draws a position, perhaps in vain; `Settle` ends a transaction at all of its positions;
`Publish` and `Recede` are later answers of `Published`, greater and less: what it answers is the least of
rows and watermarks of which some are counted only at times (`stream.go:75-95`). `Request` sends the client's position and arrives at the gate; `Open`, `Resolve` and
`UnknownPos` are `resolve` up to its first write; `Reset`, `Discard`, `Acknowledge` and `Stage` take one
step for each SQL statement, because none of them runs in a transaction; `StatementFails` is
`expectOne` or a duplicate key; `Attempt`, `Park`, `Wake` and `Expire` are the loop of `run`; `Reply` is
the response, which reaches the client if it still waits. The faults are `Cancel` (a handler ends
between any two statements: a cancelled context, a failed statement, a killed process), `GiveUp`,
`Forget` (the client starts over with the same `conn_id`), `Sweep` and `Recede`.

Choices. `attempt` is one step: it runs in one transaction, writes nothing, and everything it reads
about rooms is cut at the ceiling it reads first; what a statement sees beyond the ceiling only makes
a room due. A limited timeline counts as delivered (the rest is behind
`prev_batch`). A room a user may not see, leaves and bans, the list windows, `MaxRoomsPerSync`, and
to-device and e2ee are left out. `Wants` may hold FALSE, a request with the extension switched off; the
runs keep it on (section 3, what was seen without a run). `widen` is a request with a larger timeline limit or other required
state for every room. The gate is a Go channel, first come, first served, and one client's requests
are taken to arrive in the order they were sent; on two instances nothing orders them.

### AuthRules and RoomHistory

`AuthRules` is `Authorise` of `authrules.go` with the power levels of `powerlevels.go`, over the state it
looks at: memberships, join rule, power levels, and the history visibility, which the rules only carry along. A membership that was never set is "none"; a creator of
a version 12 room has a level above `MaxLevel`. Levels are not negative and every table names only
known users and types. The checks of the create event, of room ids and federation, of user-named state
keys, third-party invites and the selection of auth events are left out; `notifications` is one more
table like `events`. `RoomHistory` adds authorised events to the end of a history, one at a time.

### RoomWrites

State. The committed tables: `events` (each with the state `before` it, which is its snapshot),
`extremities`, `rows` of `room_memberships`, `lastStream`, `recorded` client transactions, `redactedBy`.
`locked`, `lease` and `gate[i]` name the holders of the advisory lock, of the lease in Valkey and of the
room's gate on instance `i`; `pc` and `sess` follow the handlers.

Actions. `Request` is what `service/rooms` reads and checks before it calls `Send`, without any lock
(`Prepared`: `Kick`, `Unban`, the member who vouches for a restricted join); `EnterGate`, `TakeLease`,
`LeaseTimesOut` and `Lock` are the way to the transaction in `write`; `Replay`, `Build` and `Write` are
what `redact` and `send` do in it; `Commit` or `Rollback` ends it; `Leave` gives lease and gate back and
answers. `Forget` is two statements on the membership row. The faults are `LeaseIsLost` and `Abort` (a
cancelled request, a lost connection, Valkey out of reach, a killed instance, whose lease may stay). A
client may issue any request again at any time, which is a retry; `SweepTransactions` drops any of the
recorded transactions.

Choices. The statements of a transaction take effect at its commit: only their own transaction sees
them before, and the lock keeps every other writer out. `Build` and `Write` are apart because the
mutants that lose the lock need what is read to grow old. The initial state is the room as `CreateRoom`
leaves it. The caller of a restricted join is taken to be in an allowed room. `Redactable` protects
events of the type `encryption`, of which the runs' requests write none. Relations, snapshots as
stored rows, depth limits, the rate limits before a send and the notifications after it are left out.

### RoomReads

`RoomReads` adds operators to `RoomWrites` and no step: a read changes nothing. `VisibilityChanges(v)` and
`MembershipChanges(u, m)` are the two lists of a filter, as `VisibilityFor` and both syncs load them, by two
statements that saw the events up to `v` and, later, up to `m`; `VisibilityBefore`, `MembershipBefore`,
`JoinedAtOrAfter`, `Allows`, `Visible`, `EverEntitled` and `MembershipAt` are the functions of
`entity/visibility.go` of these names. `Entitled` is the reference: it asks the states before and after the
event, and those since, and no list. The property has the second statement happen now, at any moment of
the writes; an earlier second statement was covered when it happened, since nothing is ever taken away
from the events. The events asked about lie below `v`, as those of a sync do: it reads up to a ceiling
that is older than its filter. What the creation of the room set lies before all events of the model;
contents with an unknown setting, which are refused (`roomstate.go:106`) or taken for "shared", and events
that are not deliverable do not occur.

### Sessions

State. `devices`, `active` and `grants` are the committed rows: a grant is what a login or a refresh
hands out, an access token and a refresh token of one device, with the grant it was exchanged from.
`ended`, `withdrawn` and `spent` are the ids whose access token is revoked, whose refresh token is
revoked, and whose refresh token is used. `sess[h]` is a handler's transaction: what it has found, and
what it has changed but not committed. `closed` and `replaced` are history.

Actions. One per statement: `User` (`users.Get`, `Deactivate`, the credential), `Upsert` of the device,
`Mark` (`refresh.MarkUsed`), `List` and `NextDevice` for the requests that go through a list,
`FindAccess`/`EndAccess` and `FindRefresh`/`Withdraw` for the two revocations, `Drop` for the device
row, and `Commit`, which mints what is handed out. A revocation is two steps, because at READ COMMITTED
a statement sees the rows that were committed when it began, waits for those another transaction has
changed, and looks at those again but at no others. `Blockers` says whom a statement waits for;
`BreakDeadlock` is `deadlock_timeout`. `Refresh` is the check of the token before the transaction,
`Ask` every other request, `Refuse` a request that ends in an error, `Abort` the faults.

Left out: passwords and identity providers, the failed-attempt counter, expiry, registration,
user-interactive authentication, and logins without a refresh token (a client that never uses it).

### DeviceKeys

State. `deviceKeys`, `oneTime` (id, material, and the ordinal of the row) and `fallback` with its used
flag are the rows of one device and algorithm; `changes`, `issued`, `open` the device list stream;
`peer` is a client of another user with its cursor, its copy of the device keys and whether it knows
that the copy is outdated. `held`, `handed`, `served` and `confirmed` are history.

Actions. `Upload`, `Lock`, `Existing`, `Count`, `Commit` are `keys.Upload` up to the end of its
transaction, `NextPosition` and `Record` the device list change after it, `Answer` the response. `Claim`
chooses and locks a row (`FOR UPDATE SKIP LOCKED`), `Take` deletes it; without one `ClaimFallback` is
next. `Fail` ends a request between any two steps. `Follow` is `ChangedSince`, `Query` the query that
follows. Uploads may be repeated, with the same or with other keys. Left out: cross-signing,
signatures, who shares a room with whom, deletion of the device, several algorithms.

### ToDevice, AccountData, Typing, LegacySync

`ToDevice` is one receiving device's queue: `Send` looks for the transaction outside the transaction
that records it; `NextPosition` draws a position that no ceiling protects; `Commit` adds the message and
the record. `UpTo`, `Since` and `Cursor` are what a reader deletes, reads and goes on from. `queued` and
`offered` are history: a message is `behind` when it is committed at or below a cursor that had already
been handed out. `AccountData` has one row per type that every write overwrites, position included;
`Read` to `Commit` of an amendment of the tags is under the advisory lock, which a plain `Set` does not
take. `Typing` is Valkey: `Set`, `Increment` and `Store` are three commands that nothing joins, and every
key expires: an entry with its user's timeout (`EntryExpires`), a room's counter and the version 24 hours
after they were last written (`CounterExpires`, `VersionExpires`; `typing_valkey.go:16`), and a key that is
gone reads as 0. There is no clock: a key may expire at any moment, so every order of expiry and request is
covered, a Valkey that lost its data included. `missed` is history: the rooms whose last change a reader
may miss. It is told the versions the client goes on from (`Taken`): a counter stored at or below one of
them, a counter that expires above one of them, a failed command and the end of an entry's time put the
room into it, and a counter stored above all of them takes it out.

`LegacySync` instantiates the three. `Ask` sends the client's token, perhaps while an earlier request is
still being worked on; `Ceilings`, `Build` and `Commit` are the attempt, one transaction at READ
COMMITTED whose deletions others see at its end; `Park` goes back to another attempt with the same token
when there is nothing to say; `Deliver` hands over the answer the client waits for; `Lose` ends a
request anywhere. The server keeps nothing about the client, so there is nothing to restart. Left out:
rooms and timelines, receipts (kept like account data), device lists (`DeviceKeys` has them), filters,
and wake-ups: a parked request may try again at any time.

## 3. Runs

| Run | Instance | States | Shows |
|---|---|---|---|
| `Stream` | 2 instances, writers u, v (nested) on one and w on the other, 1 reader, 3 positions | 2.0 M | `StreamInv`, `WatermarkBelowHeld`, `SureAnswersHold`, refinement of `PublishedStream` |
| `StreamLive` | 1 instance each for 2 writers, up to 2 positions a call | (with liveness) | `CommittedIsAnswered` |
| `StreamIdleWriter` | 2 instances | counterexample | finding |
| `Sync` | 1 instance, 2 handlers, 2 rooms, 2 events, 1 account data write, 1 fault | 4.1 M | `NothingTrustedIsMissing`, `NoDataIsMissing`, `NothingComesTwice` |
| `SyncLive` | the same with 1 room, 1 event, 2 faults, up to 4 generations | 63 k | `CommittedIsDelivered` |
| `SyncRaces` | 2 instances, one handler each, 2 faults | 1.3 M | `OffersAreAhead`; `StatementFails` fires |
| `SyncTwoInstances` | 2 instances, one handler each | counterexample | finding |
| `Rooms` | 2 handlers on 2 instances, 2 users and an outsider, 12 requests, 3 positions, 2 faults, 1 sweep | 1.9 M | `LinearHistory`, `NothingLandsAfterAKick`, `ProjectionsAgree`, `RetriesAgree`, `NobodyRisesAboveTheGranter`, `ReadersSeeTheirHistory`, refinement of `RoomHistory` |
| `RoomsLive` | 3 handlers on 2 instances, 2 requests, 1 fault | 52 k | `WritesEnd` |
| `Sessions` | 2 devices, 2 handlers, 8 kinds of request and refreshes, 3 requests, 1 abort | 85 k (with liveness) | `SpentOnce`, `TheOldEnds`, `NothingComesBack`, `RequestsEnd` |
| `Keys` | 2 handlers, 3 uploads of 3 kinds, 3 claims, a cap of 2, 1 failure | 797 k | `HandedOutOnce`, `OneTimeKeysWithinTheCap`, `NothingAcceptedIsLost`, `UnusedFallbackIsUnused`, `StaleMeansNews` |
| `LegacySync` | 2 writers of each kind, 2 requests, 3 transactions of which 2 queue, 1 message an answer, 2 types, 2 rooms, 1 user, 2 writes, keys expiring at any moment | 1.8 M | `QueuedOnce`, `NoTagIsLost`, `DeletedWasReceived`, `ReceivedInOrder`, `AccountDataIsAhead`, `TypingIsAhead` |

**Bounds.** `MaxPos` stops the sequence and `MaxCount` limits a call of `Next`. Two writers on one
instance and one on another are what it takes to have a registration overtaken on one instance, a row
held back by the other, and a nested release beside a proper one; three positions let one be drawn,
one in flight and one finished at once. In `SlidingSync`, two events let one be published and one not,
two rooms let a response carry one and not the other, `MaxGen` and `MaxNid` allow an initial response,
an acknowledged one, an offer discarded and made again, and a second row after a sweep or an unknown
position. `MaxFaults` counts faults of every kind; the second handler is the request that overlaps
an abandoned one. The `Sync` runs may stop at `MaxGen` with every event settled, hence
`CHECK_DEADLOCK FALSE`. In `RoomWrites`, three positions are a
kick, what is sent beside it and the return; two faults leave a lease behind twice, or lose it and then
its holder; the requests cover each membership and each answer of the rules about the two users, one of
whom outranks the other until the power levels say otherwise, and open the room to the outsider or keep
it to those invited. The `Rooms` runs stop at `MaxPos`.
In `Sessions`, three requests are a login, what is done with it and what runs beside that: two of them
overlap in every order of their statements, deadlocks included. In `DeviceKeys`, three uploads replace the
device keys, collide on a key id, fill the cap and replenish, and three claims empty the device into its
fallback key; one failure falls between the commit and the announcement. In `LegacySync`, two writes are
two messages, two amendments, or one of each kind, in any order of drawing and committing; two requests
are one that was given up and one that repeats it; `Limit = 1` cuts an answer. (A single request with
three writes in one room has been run as well: 1.0 M states, no error.) These three runs stop at their
bounds on requests. What the bounds leave open is what the theorems of section 4 are for.

**The deep ones.** `WatermarkBelowHeld` is violated only through a position that is drawn and not
registered while a later one is released. `SureAnswersHold` relates an answer to commits at any later
time on any instance; `ImplementsPublishedStream` says the same as a refinement, so that readers can
be specified against the abstract stream. `NothingTrustedIsMissing` compares two generations of rooms in
the database with the client's own memory, after every statement of every handler. `NothingComesTwice` is
the other half: no event is sent again on a connection the client kept up with, unless what is published
went back behind the event. `LinearHistory` and
`ImplementsRoomHistory` hold of two writers that both passed the lease; `NothingLandsAfterAKick` is what
they mean to a reader, who goes by stream positions and not by the chain. `ReadersSeeTheirHistory` compares two ways to
decide: by two sorted lists of changes, read at different moments, and by the states of the room; the
boundary cases are events that change what they are judged by. `RetriesAgree` relates the
answers of any two attempts to what is stored, over aborts, lost answers and sweeps. `TheOldEnds` and
`NothingComesBack` say that no interleaving of statements leaves a token alive that was handed out before a
login, a logout or a change of password was asked for and belongs to a device it dealt with, and that no
refresh asked for after it is done presents one. They do not speak of what others hand out while it runs, nor of a
refresh that was checked before it committed: such tokens may stay (section "Seen while modelling").
`StaleMeansNews` relates a follower's copy to positions that are drawn, failed, and drawn again by the
repeated upload. `DeletedWasReceived` and `ReceivedInOrder` relate a queue that is deleted from to what
a client has received through answers lost and requests repeated; `AccountDataIsAhead` does so for rows
that are overwritten in another order than that of their positions, and `TypingIsAhead` for counters that
are put back, expire and start again: it names every way in which a change is missed, and says that none
outlasts the room's next announcement above the client's version. Three of these have exceptions that are
the code's own losses: `DeletedWasReceived` a message committed below a cursor that was handed out,
`QueuedOnce` (which is about retries that begin after the first attempt has queued) attempts that overlap,
and `TypingIsAhead` the rooms in `missed`. The sweep of old to-device messages is left out.

**Fairness.** `StreamLive`: goroutines run on; a transaction is decided (statement, lock and
idle-in-transaction timeouts end it, `config.go:56-66`); allocation does not fail for ever; readers
keep coming back (strong fairness, because restarts may interrupt them); time passes, so rows go
stale. `SyncLive`: the client keeps asking and keeps naming every room in some of its requests; a
handler that has its turn runs on and its deadline passes (`MaxTimeout` caps the timeout);
transactions are decided and the published position follows, which is what `CommittedIsAnswered`
shows. `CommittedIsDelivered` excuses a client that has run into `MaxGen`, the bound on
generations; without the fault bounds nothing of the sort limits the program.

`RoomsLive`: a handler that has what it waits for runs on; the gate and the advisory lock are given to
whoever waits for one that is given back again and again (a channel, PostgreSQL's lock queue). Nothing
is assumed of the lease, which may stay with a dead holder: `LockWait` ends the wait (`config.go:101`).
`Sessions`: a handler runs on; a statement that waits for rows gets them when their holder ends, or is
chosen to break the cycle it waits in (weak fairness of each handler's steps, and no more).

**Findings** (a run each, with the counterexample TLC prints):

- `StreamIdleWriter`: an instance without a recent row is ignored (`stream.go:24`), so its first write
  after five quiet minutes is unprotected against the other instances' answers.
- `SyncTwoInstances`: positions are reused after `Discard` and `Reset`; an abandoned request still running
  on another instance replaces the offer the client holds.

**Seen while modelling**, in the code or followed by the models, without a run of its own:

- *Streams.* `WithTx` joins the transaction it finds (`postgres.go:59`), so the `Release` deferred inside
  it precedes the commit: the event of a new room, and a device list change inside `Login`, `Logout` or
  `DeleteDevices`, may be committed behind an answer. A sequence nobody has drawn from reports a
  `last_value` of 1 (`stream.go:25`).
- *Sliding sync.* The cursors of disabled extensions move with every staged response
  (`extensions.go:12`), while `syncextensions_test.go:373` takes it for an error when "enabling the
  extension mid-connection lost" something; `SlidingSync` with `Wants = {TRUE, FALSE}` violates
  `NoDataIsMissing`. Room account data that the extension's room list filters out is dropped for good
  (`extensions.go:185`). `MaxRoomsPerSync` cuts before it is known which rooms are due (`lists.go:74`).
  When `Published` answers less than before, a room that is sent counts as sent up to the lesser
  position (`room.go:66`), and its next window brings what the client has: `NothingComesTwice` excepts the
  events at or below `receded`. Nothing is lost by it (`NothingTrustedIsMissing`).
- *Rooms.* A kick that was checked before a concurrent ban lifts the ban, because under the lock the
  rules decide alone and take it for an unban. A redaction retried under one transaction with another
  target marks that target as redacted by the first redaction (`events_impl.go:546`). `Forget` checks and
  sets in two statements (`membership.go:138`, `room_member_postgres.go:75`): a room joined in between is
  forgotten, though `membership_test.go:321` wants 400 for "forgetting a joined room". Rate limits are
  consumed one after another, and those before the one that refuses stay consumed (`rooms/limits.go:23`).
- *Timeline.* `Messages` and `Context` load the filter before the page (`rooms/read.go:26`, `:40`), in
  statements of their own: an event committed in between is judged by the settings and memberships of
  before, which `ReadersSeeTheirHistory` does not speak of. Both syncs read up to a ceiling that is older
  than their filter.
- *To-device.* A message committed late, below a cursor that was handed out, is deleted unread by the next
  request: `DeletedWasReceived` fails without its last disjunct. Two overlapping attempts of one
  transaction both queue their messages. A device deleted meanwhile fails the whole send.
- *Account data.* A `Set` of `m.tag`, which is not among the reserved types (`accountdata.go:35`), may be
  overwritten by an amendment under way.
- *Typing.* A change is missed when the version is taken between `Increment` and `Store`, when an earlier
  `Store` puts back a later one, and when an entry expires or the command after it fails. Both counters
  expire after 24 hours (`typing_valkey.go:16`, `:88`, `:92`): a client that was away for longer than the
  room's counter lives is never told of the last change, an explicit stop included, and after a day without
  typing the version starts again at 1, below the tokens handed out, so changes are not seen until a client
  has taken the new version. A room missed stays so until it is announced above the client's version.
- *Sessions.* A refresh beside a logout, and a login beside a logout, may leave a session whose device row
  is gone; two logins of one device at the same time leave two live sessions. A refresh and a logout
  take their locks in opposite orders (`users_impl.go:345`, `:389`) and PostgreSQL aborts one. A refresh
  whose answer is lost cannot be repeated. A failure recorded from an old read may undo a lockout
  (`auth_impl.go:91`).
- *Keys.* A claim of several keys that fails midway has handed out nothing of what it deleted. When the
  record of a device list change fails after the upload's commit, peers stay unaware unless the client
  uploads again, which it is told to by the error.

## 4. Proofs

Every invariant, every action property and every refinement that a passing run checks is a theorem, the
types of every module among them; so are some statements that no run checks. All theorems hold for every number of handlers, instances, devices, rooms, users and requests and every
bound, under the named assumptions of the modules (`FirstSeq` positive, numbers that are numbers, finite
devices and handlers in `Sessions` and a login for one device, key ids that name one key per upload, a room
in `LegacySync`). One module per component; each splits into one
lemma per action, or per kind of action, and under it one step per conjunct that the action can disturb.

**`StreamPositionsProofs`**: `StreamInvariant`, `WatermarkStaysBelowHeld`, `SureAnswersAreKept`,
`StreamImplementsPublishedStream`, `OneInstanceIsSafe`. `WatermarkBelowHeld` is not inductive: `Release` passes whatever is in
`finished` below `inFlight` and the markers, so one has to know that what a caller holds is in its
instance's lists (`ListsCoverTheCallers`), that a drawn position lies above its caller's marker and
the watermark at or below it (`MarkersSeparate`), and that `upTo` and `finished` never exceed
`maxSeen`, from which markers are taken (`Trailing`). `SureAnswersHold` needs in addition that a query
that found every row knows no more than the rows still say (`QueriesTrail`: rows only grow), that no
two callers hold one position (`WithinTheSequence`), and that the trusted answers stay below the
undecided positions (`SureBelowUndecided`). `StreamInv` is the conjunction. The two action properties
and the refinement follow from it: a commit decides positions above `sure`, a query's answer is below
every undecided position whether it is drawn on the reader's instance (its memory) or on another (its
row), and every other step stutters or issues. The step to a commit uses `early`: a nested writer's
positions are not undecided any more. That what a caller holds is uncommitted (`HeldAreUncommitted`) makes
the transaction commit as a whole. `OneInstanceIsSafe` is the other side of the finding `StreamIdleWriter`:
one instance alone, without nested writers, commits nothing at or behind any answer, because no query of
its readers is ever blind (`AloneInv`).

**`RoomWritesProofs`**: `LinearHistoryHolds`, `RetriesAgreeHolds`, `ImplementsRoomHistoryHolds`,
`WaitsInOrderHolds`, `StepsForwardHolds`, `TypeOKHolds`. The
invariant is `HistoryInv` (there is a last event, the only extremity, with the greatest position and
depth; every other event follows one), `RetryInv` (what is stored under a transaction in this era is
recorded, once), `LockInv` (whoever is in a transaction holds the advisory lock) and `HandlersInv` (what
a session has built, it has built upon the event that is still last). Nothing is said of gate or lease,
so these theorems hold whatever becomes of them. The last three need them (`LocksInv`): whoever is waited
for is nearer to its end than who waits, a handler that is done holds neither gate nor lock, and a handler
that has begun only comes nearer to its end. That is the safety half of `WritesEnd`: no two writes
wait for each other, whatever fails on the way, and what is left to TLC is that fairness brings them
to the end. The refinement maps a commit of something new to
`Accept` and every other step to a stutter.

**`RoomMembersProofs`**: `ProjectionsAgreeHolds`, `NothingLandsAfterAKickHolds`,
`ReadersSeeTheirHistoryHolds`, upon the same invariant.
`RowsInv`: a membership row says what the last event about its user says; `StateInv`: so does the state
after the last event; `SendersInv`: who sent an event had joined by the last event about them below its
position; `ReadsInv`: the state before any event says what the last changes below its position say, and
both orders are one. From it, a filter finds in its lists what the states hold (`FilterFinds`), and
whoever was ever joined since is so by one of the listed events (`JoinedSinceIs`).
**`PowerLevelsProofs`**: `NobodyRisesHolds`: `RulesBoundTheGrant` is about the rules alone, one
change of the levels; `LevelsInv` carries it to every event of the room.

**`SessionsProofs`**: `SpentOnceHolds`, `TheOldEndsHolds`, `NothingComesBackHolds`, `TypeOKHolds`. `HandlerInv` says, phase
by phase, what a transaction has covered: every grant that was there when the request was asked for, and
belongs to a device dealt with so far, is revoked by somebody's commit or by what the transaction
itself has changed or found. Uncommitted changes are locked, so no two handlers spend one token. The
property about committed states alone is not inductive, because it needs the found and locked rows.

**`DeviceKeysProofs`**: `HandedOutOnceHolds`, `OneTimeKeysWithinTheCapHolds`, `NothingAcceptedIsLostHolds`,
`UnusedFallbackIsUnusedHolds`, `StaleMeansNewsHolds`, `ImplementsKeyStoreHolds`, `TypeOKHolds`.
`NewsInv`: an undecided position lies above the follower's cursor, so a handler about to record holds news
in its hand, and one about to answer has left the follower `Informed`. `KeysInv`: rows that claims have
locked are there and distinct, what was handed out is not, no row has an ordinal beyond the last; and
what `Count` found to fit still fits at the commit, since only the holder of the lock adds keys.
`FateInv` follows each key of an upload upon it: found new under the lock, it has no row until the commit
writes it with its material (`AddedRow`); found held, or written, it stays among the rows or moves to
what was handed out (`Stays`). Upon these, `Commit` is the `Upload` of `KeyStore` (the new keys have ids
and ordinals of their own and fit), `Take` and `ClaimFallback` are its claims, and every other step is a
stutter.

**`LegacySyncProofs`**: `NoTagIsLostHolds`, `AccountDataIsAheadHolds`, `QueuedOnceHolds`,
`DeletedWasReceivedHolds`, `ReceivedInOrderHolds`, `TypingIsAheadHolds`, `TypeOKHolds`. `Shape` says what requests look
like: the one the client waits for was made with its present token. The three stores do not touch each
other, so each has an invariant beside it (`DataInv`, `QueueInv`, `TypingInv`), and all say the same: what
an answer under way lacks lies above the ceiling it carries, as what the client lacks lies above its
token. For typing (`SetterStep`): whatever is due to a reader that goes on from a version in `Taken` stays
due to it, or excused, over every command and every expiry. `CursorBounds` uses that a bounded set of numbers has a greatest element, which is proved from the
library's well-foundedness of the naturals.

**`SlidingSyncProofs`**: `TypesHold`, `OffersHold`, `GateHolds`, `NobodyOvertakesHolds`,
`ReadsAPublishedStreamHolds` and `EveryStreamStepIsThere` for any number of instances; `TrustedHolds`,
`DataHolds` and `TwiceHolds` for handlers of one instance (`OneInstance`), the second if every request has
the extension on (`AllWant`). `SyncTwoInstances` shows that the assumption is needed, and the second
one is the case described in section 3. The invariant has four layers. `TypeInv`: no room is recorded
beyond what any answer has ever reached (`Reached`), and no open position lies at or below it, so an event
that is settled later lies beyond all of it, though the published position has gone back since. `GateInv`: whoever is
at the gate is in a line, one of them inside, and whoever the client waits for at its end. `RowInv`:
what the handler inside knows of the row, statement by statement (`Served`), which holds because nobody
else writes to it; whoever is not inside has resolved nothing (`Untouched`). `ClientInv`: every handler
under way shows the position that the client holds, unless the client starts over. Upon these,
`EventsInv`, `DataInv` and `TwiceInv` say the same of events, account data and repetition: a part about
the client and the row (`HeldEvents`), and a part about the answer that the client waits for
(`AnswersComplete`), which becomes the first when the answer arrives. `KnownNext` and `AnsweringNext`
name the few steps that touch either.

The gate. `LineInv` says that those who are not idle on one instance stand in a line: of any two, one is
before the other, who is before them is a subset of who is before those behind, and they are finitely many.
So one is inside at a time, one whom nobody is before always exists (the least number of handlers before
one, by the well-foundedness of the naturals), and a cancelled handler leaves nobody stranded.

The composition. With `Reached` for its answers a connection's environment is a `PublishedStream`: every
step issues, decides, answers or stutters. Conversely, each step of a `PublishedStream` within `MaxPos` is
one of the environment's, whatever the connection is doing (`EveryStreamStepIsThere`); transactions of
several positions and positions drawn in vain are in `SlidingSync` for that reason. As `StreamPositions`
implements `PublishedStream` (from its `FirstSeq` on, with the answers and the transactions its section
names), the events a client is sent are as safe as those answers, and no further model of both is needed.

*Only model-checked*: liveness (fairness and ENABLED are beyond the prover), which is `CommittedIsAnswered`,
`CommittedIsDelivered`, `WritesEnd` and `RequestsEnd`. Nothing here needs
induction over data or a recursive operator.

## 5. Not modelled

More than 60 of the 81 thousand lines of Go that are not tests are generated database access under
`internal/db/postgres`: they have no behaviour but that of the statements which the repositories write with
them, and the statements are modelled where they matter. For that reason the models stand for a small
share of the lines. Without state of their own that interacts: cryptography (`keyseal`, signing),
canonical JSON, HTTP parsing and rendering, configuration and wiring, directory and presence, filters.
Tenants and their keys are single rows that an operator changes. Not yet modelled: paging and
relations of the timeline, receipts, the rooms of the legacy sync, third-party invites and room creation and
upgrade, the lockout after failed logins, expiry of tokens, cross-signing.

## 6. Plan

1. A timeline read after its filter (`Messages`, `Context`), relations and their bundles in `RoomReads`.
2. Receipts and rooms in `LegacySync`, with the limits and the gaps of a timeline.
3. What a connection does above a stream whose answers are not all safe (a nested writer, a blind query).
