# Verification of ntfy-rs

TLA+ models of the server in `src/src/`, TLC configurations that check them on
small instances, and theorems proved with TLAPS. `PROJECT.json` lists, for the
same modules, the components, runs, mutants, source lines, findings, hazards and
theorems.

## The system

ntfy-rs is a publish/subscribe server over HTTP. It runs on a multi-threaded
tokio runtime (`lib.rs:30-36`), so two handlers, or a handler and the manager,
interleave at every step that is not one SQLite statement or one call on one key
of a DashMap.

| Component | State | Operations | Hard behaviour |
|---|---|---|---|
| message store, `db/cache.rs` | table `messages`: time, expires, published | insert, insert_delayed, due_messages, mark_published, since_time, since_id, delete_expired | statements of several tasks interleave; times are whole seconds |
| publishing, `handlers/publish.rs`, `matrix.rs` | none of its own | stamp, (attachment), delay, persist, fan out, answer | crash or failure between any two steps |
| manager, `manager.rs` | its place in a tick | fire due messages, expire messages and attachments, prune topics | works on lists read earlier; failures are logged and skipped |
| topic map, `topic.rs` | map topic -> `Arc<Topic>`; a broadcast channel of 32 messages per topic | get_or_create, publish, subscribe, prune_stale | creation races, pruning races, lag |
| subscribing, `handlers/subscribe.rs`, `ws.rs` | per connection: receivers, cached messages | resolve since, subscribe, replay, stream, poll | cache read and subscription are two steps; several topics one after the other |
| visitors, `visitor.rs` | per address: token bucket, subscription count | increment, guard, decrement | who drops the guard, and whether it exists |
| schema, `db/schema.rs` | user_version, tables | five migrations | not transactional; cut anywhere |
| attachments, `publish.rs:140-198`, `db/attachments.rs`, `handlers/file.rs` | files and records | store under a cap, serve, expire | check-then-act, file and record apart, handler dropped in an await |
| life cycle, `lib.rs` | phase of each server, its manager, the port, the VAPID pair | start, start_async, shutdown, drain, start again | the manager may outlive the server; a start fails half-way; two servers make keys at once |
| users and access, `auth.rs`, `db/users.rs`, `handlers/account.rs`, `admin.rs` | users, tokens, ACLs | register, authenticate, authorize, administer | the handler acts on a copy of the user's row, later |
| upstream, e-mail, web push, `upstream.rs`, `email.rs`, `webpush.rs`, `db/webpush.rs` | table of push subscriptions, a list per task | subscribe, unsubscribe, fire-and-forget calls | browsers subscribe anew while a list is worked through; calls fail one by one |

They interact through three things: the store (all handlers and the manager), the
topic map with its channels (publishers and the manager send, subscribers
receive, the manager prunes), and the clock. What makes each correct:

- publishing and the manager: nothing is seen early, sent twice, sent and not
  stored, answered and lost; what is due is fired; nothing is forgotten before
  its retention is over;
- subscribing: what is sent after the subscription arrives or is lost to lag
  only, what was there before, and after what the client names, is replayed, and
  the stream moves on;
- topic map: all subscribers of a topic share the channel publishers use;
- visitors: the count follows the streams;
- schema: a server that is up has its schema, and rows survive the migration;
- attachments: a link that was given out serves the whole file until it expires,
  the file then goes; the storage cap is exceeded only by uploads that overlap;
- delays: whatever number the client sends, no message waits beyond the maximum;
- notifications: each receiver is called once for a message, nobody who left is
  called, a failing receiver costs the others nothing;
- life cycle: a start is answered; the keys of the database are the keys in use,
  unless two servers make keys at once;
- users: who acts is who the database said when the request was resolved, every use
  of a topic was allowed since the handler asked, administrators come from
  administrators.

Several of these the code does not keep in every case; the runs that show it are
listed under "Disagreements".

## Modules

| Module | Models | Uses |
|---|---|---|
| `Messages` | message ids and their topics | |
| `MessageStore` | the `messages` table and its statements | Messages |
| `Broadcast` | the bounded broadcast channels | Messages |
| `Delay` | parse_delay: the client's number in wrapping arithmetic | |
| `Fanout` | the write side: publish and Matrix handlers, manager, clock, crash and restart | MessageStore, Broadcast, Delay |
| `MessageLife` | abstract: the life of a message as seen from outside | |
| `Delivery` | the read side, composed with Fanout: clients that connect, poll, lag, leave and come back | Fanout |
| `Feed` | abstract: what a subscriber may rely on, a queue of its own for each topic | Messages |
| `Subscriptions` | topic map, streams and their guards, pruning | |
| `Schema` | opening and migrating the database; the web push rows the migration copies | |
| `Attachments` | uploads, their files and records, expiry by the manager, downloads | |
| `Notify` | push subscriptions and the tasks a fan-out spawns: poll forward, e-mail, web push; composed with Fanout | Fanout |
| `Lifecycle` | servers of one process that start, fail, serve, drain and stop; their managers, keys and port | |
| `Accounts` | users, tokens, rights; the middleware, authorize, and the account and admin handlers | |
| `FanoutProofs` | theorems about Fanout, its delays, and MessageLife | Fanout, TLAPS |
| `DeliveryProofs`, `NotifyProofs` | theorems about Delivery and Feed, and about Notify | FanoutProofs |
| `SubscriptionsProofs`, `SchemaProofs`, `AttachmentProofs`, `LifecycleProofs`, `AccountsProofs` | theorems about those modules | TLAPS |
| `MC...` | instances for TLC | |

Below some operators stands a *mutant* of it, a version with a plausible bug.
No specification uses them: they serve to see that each property of a passing run
is violated when the operator is replaced by the mutant.

### How state and actions correspond to the code

**Fanout.** `row[m]` is the row of message `m` and its `published` column;
`time` and `expires` are the message's fields, stamped before the row exists.
`chan[t]` is everything sent to topic `t` since the process started; a receiver is
a position on it, and the channel's capacity enters where a receiver reads
(`Lagged`, `Oldest`). A request is a member of `Msg`; `pc` is how far its handler
is: `Stamp` (`Message::new_message`, `now`), `ParseDelay` (a header that `Delay`
makes a delayed message of), `Persist` (`insert` or `insert_delayed`), `FanOut`, or `Refuse` (400 for
a delay too long, 500 for a failure of the store). Everything before the stamp
(rate limit, authorization, field parsing) changes nothing modelled. The manager
is one task: `ManagerTick` reads the clock and the due messages (or fails to),
`ManagerMark` / `ManagerMarkFails` and `ManagerSend` take them one by one in time
order, `ManagerExpire` deletes with the tick's own `now` (or fails to). `Crash`
empties what is in memory and leaves the store; `Restart` starts over.
`unfired`, `unmarked`, `fanouts` are history variables.

**Delivery.** A connection is `opening` while the handler runs: for each topic
`ResolveSince` (the cache read) and `Attach` (the receiver), in any order of the
topics, with any steps of the write side in between. since=<id> has a step more:
`SeekAnchor` is since_id's first statement, the anchor's time or the clock, and
rows may be published and deleted before the second. Then the connection is `live`:
`Replay` sends the cached messages in time order, `Recv` and `Lag` take from the
channels. With `poll=1` it is `polling`, and `AnswerPoll` answers with what was
cached when all topics are read. `Disconnect` is the end of the connection for any
reason. A client may connect with the id of any message it received. `floor`,
`readAt`, `joinedAt`, `got` and `skipped` are history variables. `floor` is the time
after which a client is owed all messages: one before the time it asked for, and for
since=<id> what `Owed` says, which looks at the times stamped on the messages and
never at the table, so that a query that finds the wrong anchor, or none where there
is one, falls below what is owed. `Feed` has none of this: `Joined` and `Queue` map a
connection to the topics it has joined and to what each of its receivers has still
to take. `Attach` joins a channel the map publishes to in one step: that topics
are created and pruned in between is left to `Subscriptions`.

**Subscriptions.** Topic objects are numbered; `inner` is the DashMap, `held` the
`Arc` of a handler, `rx` the receivers. get_or_create is three steps (`Lookup`,
`OrInsert`, `GetUnwrap`), prune_stale two phases (`PruneCheck` per topic,
`PruneRemove` per key). A channel is closed when neither map nor handler refers
to its object. A guard exists for a WebSocket once it is upgraded, for an event
stream only after all its channels closed: `Leave` takes the count down only with
a guard. `CutOff` streams are those no publish can reach, because the map holds
other objects than theirs; whether their channels are closed depends on the handlers
that still hold an `Arc`.

**Schema.** `Script` is the list of statements with the migration each belongs
to. `Open` reads user_version and starts at the first statement above it, each
step executes one statement, `Interrupt` ends the process anywhere.

**Attachments.** `file[u]` is the file of upload `u` on disk, `records` the rows.
A handler goes through `Stamp`, `CheckCap` (total_size), `BeginWrite`, `EndWrite`,
`Record`, `Answer`. It awaits only before and in the write, so only there can it be
dropped with its connection (`Cancel`); the blocking write goes on without it.
delete_expired is two statements (`SelectExpired`, `DeleteRecords`), then the
manager removes file by file; serve_file is `Lookup`, `CheckExpiry`, `ReadFile`.
`StoreFails`, `WriteFails`, `ExpireFails`, `RemoveFails` and `Crash` leave behind
what the code leaves behind. `leaked` and `overlap` are history variables; the
second is the most that was `UnderWay`, past the check and not recorded, when some
upload passed its check.
Errors of the disk while a file is read are left out.

**Delay.** `Half` stands for 2^63 and `Unit` for 1, 60, 3600 and 86400. `Parsed`
follows parse_delay: `Wrap` is what an i64 sum or product leaves in a release
build (no overflow checks; a debug build panics), `AsUnsigned` is `as u64`,
`Validate` is validate_delay.

**Notify.** `subs[t]` are the rows of topic `t`, each an endpoint and an id.
`Subscribe` is INSERT OR REPLACE on (topic, endpoint) with a new id,
`Unsubscribe` a DELETE by id. The fan-out of the publish handler spawns a poll, a
mail and a push task, that of the manager and of the Matrix gateway a poll
(`Spawn`, for the kinds the configuration asks for). A task reads its list once
(`Begin`) and makes its calls one by one (`Call`), in any order; the outcome is
only logged, and a crash loses the task. A call counts when it is tried. `latest`,
`silent`, `called`, `steady`, `parted` are history variables.

**Lifecycle.** A member of `Server` is one call of `start` (mode "thread") or
`start_async` ("task"). `phase` is how far run_server is, in the order of its
statements; every way to fail before the port is reported drops `startTx` or
sends an error on it. `Returns` is the end of run_server, and only that: its tasks go
on. A thread then drops its runtime (`DropRuntime`), which takes the connections and
the manager, but a manager that is firing its list not before the next await, which
is after the list; the tasks of `start_async` are their runtime's, and nothing stops
them. `Shutdown` only sends the signal, at any time after the answer; `Graceful` is
its arrival, `Drained` waits for the connections. `Fetch` and `Fire` are as much of
the manager as decides whose topic map gets a message. `raced` is a history
variable.

**Accounts.** A request is `resolved` by the middleware (`AuthenticateBasic`,
`AuthenticateToken`, `Anonymous`), which copies the user's id and role to `who`
and `as`. Every handler of `account.rs` and `admin.rs` is one action per
statement: administrators' handlers first `Locate` the user by name and write by
id in a later step; publishing and subscribing `Ask` for a set of rights and
`Authorize` them topic by topic. `Register` and `Expire` change the tables under
requests. `outdated` and `held` are history variables.

## Runs

| Run | Checks | Bounds |
|---|---|---|
| `fanout` | DelayedWithinMax, NeverEarly, FanOutAtMostOnce, FannedOutIsReplayable, AnsweredIsKept, FiredBeforeDeletion, DelayedIsFired, ImplementsMessageLife | 2 messages, 1 topic, retention 1, delays to 3 from numbers of 4 bits in units of 1 and 3, time to 5, 1 crash |
| `delivery` | TypeOK (the types of the write side among them), ReceivedIsPublic, LiveComplete, ReplayComplete, StreamMovesOn, ImplementsFeed | 2 messages on 1 of 2 topics, 1 client of both, capacity 1, retention 0, delays to 1, time to 2, 1 crash |
| `subscriptions` | TypeOK, UnwrapNeverPanics, SubscribersAreReached, CountCoversStreams, CutOffWebSocketCloses | 3 streams (2 WebSockets, one of them on 2 topics), 3 objects |
| `schema` | TypeOK, UninterruptedStartIsComplete, NoSubscriptionIsLost, StartEnds | databases of versions 0 to 5, 3 push subscriptions on 2 keys, 2 interruptions |
| `attachments` | TypeOK, LinkServes, RefusedOnlyWhenExpired, OnlyFailuresLeak, CapExceededByOverlapOnly, FileIsRemoved | 2 uploads of sizes 1 and 2 under a cap of 2, 1 download at a time, expiry 1, time to 4, 2 failures |
| `accounts` | TypeOK, IdentityIsRecent, UsesWereAllowed, AdminsComeFromAdmins | 2 requests, 2 users, 2 names, 2 passwords, 1 token, 2 topics, 3 writes |
| `notify` | CalledOnce, UnsubscribedIsSilent | 1 message, 2 browsers, 3 ids, 1 mailbox, delays to 1, time to 2, 1 crash |
| `lifecycle` | TypeOK, KeyIsKept, StartIsAnswered | 2 servers in every mix of modes, 1 delayed message |

What some of them excuse, and what shows it instead:

- FiredBeforeDeletion and DelayedIsFired excuse a message on which the manager
  failed (`unmarked`); that the tick that failed deletes it is `FanoutUnmarked.cfg`;
- ReplayComplete excuses what is sent between a cache read and the subscription, the
  gap of `subscribe.rs:167-170`, and takes since_id by what it does within the
  anchor's second, without the anchor row, and in other topics: `delivery_since_id`,
  `DeliveryMissingAnchor.cfg` and `DeliverySinceTopics.cfg`;
- CutOffWebSocketCloses is about streams cut off from all their topics; one cut off
  from some stays open and does not hear of those;
- UninterruptedStartIsComplete is about a start that nothing cut, and StartEnds
  excuses the one database no start gets through (`Stranded`): `schema_incomplete`,
  `SchemaDuplicates.cfg`, `SchemaStuck.cfg`;
- CapExceededByOverlapOnly bounds the excess, `AttachmentsCap.cfg` shows it;
- KeyIsKept excuses servers that got their keys while another was making some
  (`raced`): `LifecycleKeys.cfg`;
- IdentityIsRecent excuses a caller whose row changed while its request was under way
  (`outdated`), UsesWereAllowed a right withdrawn since the handler asked for it
  (`held`), AdminsComeFromAdmins the request under way of an administrator who is
  demoted (`AdminPresent`). The code acts on copies, and nothing in the
  repository promises that a change reaches requests under way; the properties say
  that this is all an old request can do.

Why the bounds are enough for the questions asked. Two messages are needed for an
order, for a list of due messages and for two handlers at once; with capacity 1
the second unread message already makes a receiver lag. A retention of 1 with
delays up to 3 has delays within the retention, at its end and beyond; time runs
to the point where a message delayed that long is deleted, and beyond the
maximum delay of an early one. Integers of 4 bits with a unit of 3 overflow in the
product, in the sum and in the difference. One crash may fall at
every step. On the read side a second client adds nothing: clients only read what
the write side wrote and do not see each other. With a retention of 0 a row
expires with its second: messages and anchors are deleted before, between and after
the two statements of since_id, and a delayed message the manager failed on is
dropped unfired, all within two seconds. In `Subscriptions` two streams
race to create a topic while the third holds or attaches to the object being
pruned, and three objects allow each topic to be created and one to be created
again. Two interruptions cut a migration and then the repair. In `Attachments` each upload fits
under the cap alone and the two do not, so every order of checks and records
matters; two failures may hit an upload and then its expiry. In `Accounts` two
requests are one that acts and one that changes what the first relies on, and
three writes are a token, its owner's deletion, and what the first request does
then. In `Notify` three ids let a browser subscribe, subscribe anew and come back;
messages share only the table, which their tasks only read. In `Lifecycle` two
servers meet at the keys, at the port and at the due message, one after the other
or at once.
Deadlock is not checked: all bounded instances stop, because clocks, requests,
streams, writes and interruptions are bounded.

### Disagreements

Runs that show a disagreement between the code and what the repository says of
it (each quoted in PROJECT.json, `findings`):

| Run | What is said | What happens |
|---|---|---|
| `fanout_dropped` | the manager will publish and fan out a delayed message when the time comes (`publish.rs:219`) | a delay longer than the cache duration: the row is deleted first |
| `delivery_since_id` | `since=<id>` returns messages since that id, exclusive (`SPEC.md:245`) | the whole second of the anchor is left out |
| `subscriptions_leak` | the count goes down when the client disconnects (`subscribe.rs:219`) | not for SSE and NDJSON |
| `schema_incomplete` | all pending migrations are applied (`schema.rs:6`) | not after an interrupted start: each migration stores version 5 |

Further ones, each a property under "What does not hold" in its module with a
configuration that refutes it (`tlc -config LifecycleStopped.cfg MCLifecycle`), beside
the runs:

| Configuration, property | What is said | What happens |
|---|---|---|
| `FanoutUnmarked.cfg`, DueIsNeverDropped | the manager fires messages whose time has arrived (`manager.rs:7`, `publish.rs:219`) | a tick that fails to fire a due message deletes it if it is past its retention |
| `DeliverySinceTopics.cfg`, SinceIdSpansTopics | messages since that id (`SPEC.md:245`), of a client of several topics | the anchor is looked up in each topic; in all but its own only the last 10 seconds are read (`cache.rs:116, 127`) |
| `DeliveryMissingAnchor.cfg`, MissingAnchorReplaysNothing | without the anchor since_id returns an empty list (`cache.rs:110-112`) | it returns the last 10 seconds (`cache.rs:127`) |
| `SchemaDuplicates.cfg`, EndpointOnce | subscribing again updates the row rather than creating a duplicate (`db/webpush.rs:41-43`) | after a start cut between migrations 4 and 5 the table has no UNIQUE constraint |
| `SchemaStuck.cfg`, StartServes | all pending migrations are applied (`schema.rs:6`) | from version 4, cut between DROP and RENAME: no later start gets through (`schema.rs:188-195`) |
| `AttachmentsCap.cfg`, CapIsKept | the total is the maximum used by all attachments (`config.rs:174`) | two uploads that both pass the check before either is recorded exceed it (`publish.rs:146-182`) |
| `LifecycleStopped.cfg`, StoppedTakesNothing | shutdown() stops the server (`lib.rs:38`) | its manager goes on, at least to the end of its list, and takes due messages from the server that serves (`lib.rs:251`) |
| `LifecycleKeys.cfg`, KeyIsStored | a pair is generated and persisted if none exists yet (`webpush.rs:64-65`) | two servers make one each, and one of them signs with a pair that is not in the database |

Disagreements visible in the models, without a configuration of their own:

- `ws.rs:190` says that a lagged client can reconnect with `?since=` to recover;
  the id it received last is past the gap.
- `topic.rs:92-93` says that prune_stale removes topics without subscribers; one
  that subscribed between the check and the removal is cut off
  (`SubscribersAreReached` and `CutOffWebSocketCloses` say what still holds).
- `SPEC.md:99` says that a delay beyond max_delay_secs is refused; a duration whose
  seconds overflow an i64 becomes an arbitrary instant (`publish.rs:391, 425`), as
  a rule in the past, so that the message is delivered at once. `MeantIsDone`
  says what holds without an overflow, `DelayedWithinMax` what holds with one.
- `README.md:112` says that shutdown() waits for the server to finish; it sends on
  a channel (`lib.rs:46-48`). The `main` of the binary returns right after it, and
  dropping the runtime cuts the connections that graceful shutdown waits for.
- `README.md:560` says that without a certificate a warning is logged and the
  server continues on HTTP only; run_select refuses (`lib.rs:304-309`), but after
  the caller was told that the server is up: in `Lifecycle` a server may be
  answered "ok" and end from "bound".
- `users.rs:54` and `SPEC.md:426` say that tokens are cascade-deleted with a user;
  the row is only marked deleted and no token goes. It does no harm, since the
  look-up of a token asks for `deleted = 0` (`IdentityIsRecent`).
- `README.md:624` says that e-mail for a delayed message is sent at delivery time;
  the manager spawns the poll forward only.
- `SPEC.md:473` describes `POST /v1/account/access`; the router has no such route
  (`router.rs:65-69`), so `Accounts` has none.

## Fairness

Only weak fairness, and only of what the program or its runtime does by itself:
a handler that has started goes on (tokio polls ready tasks), the manager's
interval keeps firing and its tick runs to the end, streams of connected clients
are polled, a blocking write ends, the start of a server runs on and, after a
crash, is repeated, time passes. Nothing is assumed of clients (they need not
leave, so a server that drains may drain for good), of the owner of a handle, of
failures, crashes, or of the choice between success and failure of a statement:
`DelayedIsFired` has a way out for messages the manager failed on.

## Proofs

For any sets of messages and topics, any durations, bounds and number of crashes,
under the assumptions `DurationAssumption` (durations are natural numbers, and a
handler comes from its stamp to its insert within `Hold`, which is at most the
cache duration; clocks and maxima fit their integer types), `DelayAssumption`,
`TopicOfAssumption` and `NoMsgAssumption`:

- `DelayIsBounded` and `MeantIsDone` (for integers of any
  width): whatever the client sends and whatever overflows, a delayed message gets
  a time in the future within the maximum; and where the time the client means
  fits the type all along, it is treated as the documentation says. The lemmas
  `WrapFits` and `ValidateExact` take the machine arithmetic away;
- `DelayedWithinMaxHolds`: no message ever waits longer than the maximum;
- `FanoutTypeCorrect`: the type invariant;
- `FanoutInvariant`: the inductive invariant `FanoutInv`. The safety properties
  are not inductive by themselves. `HandlerInv` ties each stage of a handler to
  its row and its sends (a row can be `delayed` only if its handler is done with
  it, so manager and handler never send the same message); `ManagerInv` says what
  the list fetched by a tick and the message in hand still are, although other
  tasks ran since; `TimeInv` orders times, retention and the clock; `TickInv`
  says that no message can slip in behind due_messages and be deleted by the same
  tick;
- from it `NeverEarlyHolds`, `FanOutAtMostOnceHolds`,
  `FannedOutIsReplayableHolds`, `AnsweredIsKeptHolds`, `FiredBeforeDeletionHolds`;
- `FanoutImplementsMessageLife`: every step of the write side is a step of
  MessageLife or leaves it alone, one lemma per kind of step. Insert accepts,
  mark reveals, a send announces, delete_expired forgets; a crash is a stutter.

For any clients, wishes, channel capacity and, as above, messages, topics and
crashes (module DeliveryProofs), under `WantsAssumption` (a client wants at least
one topic), `SinceTimesAssumption` and `NoTopicAssumption`:

- `DeliveryRefinesFanout`: clients change nothing on the write side;
- `DeliveryInvariant`: the inductive invariant `DeliveryInv`. `ChannelInv` says that
  channels hold what was sent to their topic and that no position is beyond an end;
  `ConnInv` how far a handler is; `SeekInv` that between the two statements of since_id
  what the first found is not later than what the client is owed, whatever was deleted
  since the anchor was received (`AnchorTimeIsOwed`). `LiveInv` extends LiveComplete to connections that
  are still opening, where a receiver waits at the place it was created at while
  other topics are read. `ReplayInv` extends ReplayComplete in the same way, and
  holds only together with `AboutToBeSent`: between the row and the send a message is
  in neither. The lemma `WriteStep` says what the write side may do to a reader: a
  channel grows by the message whose send is due, and a row becomes visible only with
  its send still to come;
- from it `DeliveryTypeCorrect`, `ReceivedIsPublicHolds`, `LiveCompleteHolds`,
  `ReplayCompleteHolds`;
- `DeliveryImplementsFeed`: every step of the composed system is a step of Feed or
  leaves it alone, one lemma per step. A position on the shared ring buffer is a
  queue (`QueueAppend`, `QueueTake`, `QueueRetained`): a send goes to the end of the
  queue of everyone who has joined, a receiver takes the head, `Lagged` keeps the last
  `Capacity` of it, and a cache read is for a topic not joined yet. The write side's
  steps come from `LifeStep`, the lemma under `FanoutImplementsMessageLife`: what Feed
  may show is what MessageLife has revealed.

For any streams, topics, visitors and objects (module SubscriptionsProofs), under
`SubscriptionsAssumption`:

- `MapInvariant`: the inductive invariant `MapInv`. `AgeInv` orders objects: what is
  old enough to be pruned is older than every look-up under way, so what a handler
  inserts is not what the pruner has collected; `PruneInv` says that what was
  collected is still in the map when it is removed; `ReachInv` that a reference or a
  receiver is to the object in the map or to a condemned one;
- from it `SubscriptionsTypeCorrect`, `UnwrapNeverPanicsHolds`,
  `SubscribersAreReachedHolds`;
- `CountCoversStreamsHolds`, by counting (`CountInv`): the streams of a visitor that
  count are always finitely many, since they come and go one at a time
  (`OneStreamMoves`).

For any push subscriptions, keys and interruptions (module SchemaProofs):

- `SchemaInvariant`: the inductive invariant `SchemaInv`. `VersionInv` ties the stored
  version to the statement the script is at; `CopyInv` says what the statements of
  migrate_v5 find (the rows are deleted only when every key was copied); `FirstStartInv`
  what a start that nothing interrupted has made so far, statement by statement;
- from it `SchemaTypeCorrect`, `NoSubscriptionIsLostHolds`,
  `UninterruptedStartIsCompleteHolds`.

For any uploads, downloads, sizes, limits and durations, under
`AttachmentAssumption` (numbers are natural, and a handler comes from its stamp to
its record within `Hold`, which is at most the expiry):

- `AttachmentTypeCorrect`, and `AttachmentInvariant`: the inductive invariant
  `AttachmentInv`. `TickInv` says that what SELECT took is still exactly what DELETE
  will delete, although records are inserted in between, and that a path about to
  be removed is nobody's any more; `HandlerInv` that the record follows the whole
  file and is inserted before it could count as expired; `DownloadInv` that a
  download asks for a link that was given out;
- from it `LinkServesHolds`, `RefusedOnlyWhenExpiredHolds`, `OnlyFailuresLeakHolds`;
- `CapExceededByOverlapOnlyHolds`, from `CapInv`: what is recorded and under way
  together never exceeds the cap by more than `overlap`. An upload that passes the check
  fits beside the records, and what is under way with it is in the overlap
  (`CapChecked`); a record moves from one part of the sum to the other
  (`CapRecorded`); all else takes away (`CapKept`). What the sum over a finite set
  computes (`SizeAdds`, `SizeGrows`, `SizeJoins`) is proved by looking at a smallest
  set for which it were wrong (`Minimal`).

For any messages, browsers, ids and mailboxes (module NotifyProofs):

- `NotifyRefinesFanout`: with the tasks the write side is what it is without them,
  so all of the above holds of `Notify` too;
- `NotifyInvariant`: the inductive invariant `NotifyInv`. `RowInv` says that a row
  carries the id its browser was given last, so that an endpoint has one row;
  `TaskInv` that a task exists only after its message's fan-out, which happens
  once (`FanOutAtMostOnce`, by `FanoutInv`), and that each call left has a receiver
  of its own not called yet; `DutyInv` that whoever must be called was, or is still
  on the list; `ReadInv` what the table holds until the list is read;
- from it `CalledOnceHolds`, `UnsubscribedIsSilentHolds`, and `NotifyTypeCorrect`.

For any servers and messages (module LifecycleProofs):

- `LifecycleInvariant`: who has which keys while somebody makes some (`KeyInv`,
  `RaceInv`);
- from it `LifecycleTypeCorrect`, which says too that only a manager that runs has
  messages left to fire, and `KeyIsKeptHolds`.

For any users, tokens, topics and requests, under `AccountsAssumption` (passwords
and tokens are different things, there is a first administrator):

- `AccountsTypeCorrect`, and `AccountsInvariant`: what a request's place says about
  its caller, the user it looked up, and the rights it asked for and was granted;
- from it `IdentityIsRecentHolds`, `UsesWereAllowedHolds`, and the action property
  `AdminsComeFromAdminsHolds`.

Every invariant and action property that a passing run checks is a theorem. Only
model-checked are the liveness properties, which need fairness and ENABLED and are
beyond the prover: DelayedIsFired, StreamMovesOn, CutOffWebSocketCloses, StartEnds,
FileIsRemoved, StartIsAnswered.

## Plan

1. Proofs: what follows from MessageLife and Feed for their users, proved of the
   abstract modules once (a topic's messages reach all its receivers in one order);
   the safety part under the liveness properties, as variants that decrease.
2. `Lifecycle` with the steps of the HTTPS and Unix listeners instead of one
   `SelectFails`.

## Not modelled

Loss of power with `synchronous = NORMAL` (a crash is one of the process), a wall
clock that runs backwards, collisions of message ids (62^12 values), payloads and
their encoding, rate limiting (the token bucket is a library's), TLS and the HTTPS
and Unix listeners beyond their failing, password hashing, the encryption of web
pushes, routing, metrics, and the reading of the configuration. The authorization
of a publish or subscribe request comes before everything Fanout and Delivery
model and changes nothing there; it is in `Accounts`. A WebSocket or HTTP client that
is connected but does not read is one whose stream is not polled; it is treated as
one that lags.
