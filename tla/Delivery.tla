------------------------------ MODULE Delivery ------------------------------
(***************************************************************************)
(* The read side (src/src/handlers/subscribe.rs and ws.rs) composed with   *)
(* the write side of module Fanout: what clients receive.                  *)
(*                                                                         *)
(* A connection reads, topic by topic, the cache its `since' asks for (in  *)
(* two statements for since=<id>) and then subscribes to the topic's       *)
(* channel; these are separate steps, and rows, deletions and sends may    *)
(* come between them.  It then sends the cached messages in time order     *)
(* and, after them, what arrives on the channels.  A receiver that falls   *)
(* more than Capacity behind skips to the oldest retained message and goes *)
(* on.  SSE, NDJSON and WebSocket differ in framing only.  A poll is       *)
(* answered with the cached messages when the last topic has been read.    *)
(*                                                                         *)
(* A client may ask for what follows any message it has received.          *)
(*                                                                         *)
(* A receiver is one on the channel that the topic map publishes to: the   *)
(* creation and pruning of topics, and the receivers that pruning cuts     *)
(* off, are module Subscriptions.                                          *)
(***************************************************************************)
EXTENDS Fanout

CONSTANTS
  Client,
  Wants,       \* the topics each client subscribes to
  SinceTimes,  \* the timestamps clients ask for; 0 is since=all
  NoTopic

ASSUME WantsAssumption      == Wants \in [Client -> (SUBSET Topic) \ {{}}]
ASSUME SinceTimesAssumption == SinceTimes \subseteq Nat
ASSUME NoTopicAssumption    == NoTopic \notin Topic

VARIABLES
  conn,     \* "off"; "opening" or "polling": the handler runs; "live"
  since,    \* the request's Since
  todo,     \* topics the handler has not read yet
  sought,   \* the topic between the two statements of since_id
  from,     \* what the first one found: since_id's local `since'
  at,       \* the topic read from the cache and not subscribed to yet
  cached,   \* cached messages still to be sent
  cursor,   \* the receivers' positions
  got,      \* history: everything the client ever received
  skipped,  \* history: lost to lag and not replayed since
  floor,    \* history: the time after which the client is owed all messages
  readAt,   \* history: the channel's end when the cache was read
  joinedAt  \* history: the channel's end when the receiver was created

connVars   == <<conn, since, todo, sought, from, at, cached, cursor>>
memoryVars == <<got, skipped>>
traceVars  == <<floor, readAt, joinedAt>>
clientVars == <<connVars, memoryVars, traceVars>>
vars       == <<fanoutVars, clientVars>>

NoSince == [kind |-> "none", ts |-> 0, anchor |-> NoMsg]

Since ==
  {NoSince}
    \cup [kind : {"time"}, ts : SinceTimes, anchor : {NoMsg}]
    \cup [kind : {"id"}, ts : {0}, anchor : Msg]

TypeOK ==
  /\ FanoutTypeOK
  /\ conn    \in [Client -> {"off", "opening", "polling", "live"}]
  /\ since   \in [Client -> Since]
  /\ todo    \in [Client -> SUBSET Topic]
  /\ sought  \in [Client -> Topic \cup {NoTopic}]
  /\ from    \in [Client -> Int]
  /\ at      \in [Client -> Topic \cup {NoTopic}]
  /\ cached  \in [Client -> SUBSET Msg]
  /\ cursor  \in [Client -> [Topic -> Nat]]
  /\ got     \in [Client -> SUBSET Msg]
  /\ skipped \in [Client -> SUBSET Msg]
  /\ floor   \in [Client -> [Topic -> Int]]
  /\ readAt \in [Client -> [Topic -> Nat]] /\ joinedAt \in [Client -> [Topic -> Nat]]

Zeros == [c \in Client |-> [t \in Topic |-> 0]]

Init ==
  /\ FanoutInit
  /\ conn = [c \in Client |-> "off"]
  /\ since = [c \in Client |-> NoSince]
  /\ todo = [c \in Client |-> {}]
  /\ sought = [c \in Client |-> NoTopic] /\ from = [c \in Client |-> 0]
  /\ at = [c \in Client |-> NoTopic]
  /\ cached = [c \in Client |-> {}]
  /\ cursor = Zeros
  /\ got = [c \in Client |-> {}]
  /\ skipped = [c \in Client |-> {}]
  /\ floor = Zeros /\ readAt = Zeros /\ joinedAt = Zeros

-----------------------------------------------------------------------------
(* Opening a connection.                                                   *)

\* SubscribeParams::since and is_poll.  A client can only name a message it has
\* received.
Connect(c, s, kind) ==
  /\ server = "up" /\ conn[c] = "off"
  /\ s.kind = "id" => s.anchor \in got[c]
  /\ conn'  = [conn EXCEPT ![c] = kind]
  /\ since' = [since EXCEPT ![c] = s]
  /\ todo'  = [todo EXCEPT ![c] = Wants[c]]
  /\ UNCHANGED <<fanoutVars, sought, from, at, cached, cursor, memoryVars, traceVars>>

\* The handler is before topic t.
Before(c, t) ==
  /\ conn[c] \in {"opening", "polling"}
  /\ t \in todo[c] /\ at[c] = NoTopic

\* History: what since=<id> owes the client of topic t, told by the messages'
\* own times and whatever became of their rows.  While the anchor is retained
\* it is everything after the anchor; otherwise the last AnchorWindow seconds,
\* as far as they are after an anchor of this topic.
Owed(t, a) ==
  CASE TopicOf[a] = t /\ (now <= expires[a] \/ time[a] > now - AnchorWindow) -> time[a]
    [] OTHER -> now - AnchorWindow

\* since_id looks the anchor up, and reads the clock if there is none.
SeekAnchor(c, t) ==
  /\ Before(c, t) /\ since[c].kind = "id" /\ sought[c] = NoTopic
  /\ sought' = [sought EXCEPT ![c] = t]
  /\ from'   = [from EXCEPT ![c] = AnchorTime(t, since[c].anchor, now)]
  /\ floor'  = [floor EXCEPT ![c][t] = Owed(t, since[c].anchor)]
  /\ UNCHANGED <<fanoutVars, conn, since, todo, at, cached, cursor, memoryVars, readAt, joinedAt>>

\* resolve_since; since=<id> comes here with its anchor looked up.
Query(c, t) ==
  CASE since[c].kind = "none" -> {}
    [] since[c].kind = "time" -> SinceTime(t, since[c].ts)
    [] since[c].kind = "id"   -> SinceId(t, from[c])

ResolveSince(c, t) ==
  /\ Before(c, t) /\ sought[c] = (IF since[c].kind = "id" THEN t ELSE NoTopic)
  /\ cached'  = [cached EXCEPT ![c] = @ \cup Query(c, t)]
  /\ skipped' = [skipped EXCEPT ![c] = @ \ Query(c, t)]
  /\ todo'    = [todo EXCEPT ![c] = @ \ {t}]
  /\ at'      = [at EXCEPT ![c] = t]
  /\ sought'  = [sought EXCEPT ![c] = NoTopic] /\ from' = [from EXCEPT ![c] = 0]
  /\ floor'   = IF since[c].kind = "id" THEN floor
                ELSE [floor EXCEPT ![c][t] = since[c].ts - 1]
  /\ readAt'  = [readAt EXCEPT ![c][t] = End(t)]
  /\ UNCHANGED <<fanoutVars, conn, since, cursor, got, joinedAt>>

\* get_or_create(topic).tx.subscribe(), and after the last topic the response
\* starts to stream.  (A poll of one topic does not subscribe; nothing takes
\* from a poll's receivers.)
Attach(c) ==
  /\ at[c] # NoTopic
  /\ cursor'   = [cursor EXCEPT ![c][at[c]] = End(at[c])]
  /\ joinedAt' = [joinedAt EXCEPT ![c][at[c]] = End(at[c])]
  /\ at'       = [at EXCEPT ![c] = NoTopic]
  /\ conn'     = IF conn[c] = "opening" /\ todo[c] = {} THEN [conn EXCEPT ![c] = "live"]
                 ELSE conn
  /\ UNCHANGED <<fanoutVars, since, todo, sought, from, cached, memoryVars, floor, readAt>>

-----------------------------------------------------------------------------
(* Streaming.                                                              *)

Receive(c, m) ==
  /\ got'     = [got EXCEPT ![c] = @ \cup {m}]
  /\ skipped' = [skipped EXCEPT ![c] = @ \ {m}]

\* The cached messages, in time order.
Replay(c, m) ==
  /\ conn[c] = "live"
  /\ m \in cached[c] /\ \A o \in cached[c] : time[m] <= time[o]
  /\ Receive(c, m)
  /\ cached' = [cached EXCEPT ![c] = @ \ {m}]
  /\ UNCHANGED <<fanoutVars, conn, since, todo, sought, from, at, cursor, traceVars>>

\* Mutant: the receivers are polled beside the cached messages.
ReadableAtOnce(c, t) ==
  /\ conn[c] = "live"
  /\ t \in Wants[c] /\ cursor[c][t] < End(t)

\* Receiver t of the connection has something to yield.
Readable(c, t) ==
  /\ conn[c] = "live" /\ cached[c] = {}
  /\ t \in Wants[c] /\ cursor[c][t] < End(t)

Recv(c, t) ==
  /\ Readable(c, t) /\ ~Lagged(t, cursor[c][t])
  /\ Receive(c, chan[t][cursor[c][t] + 1])
  /\ cursor' = [cursor EXCEPT ![c][t] = @ + 1]
  /\ UNCHANGED <<fanoutVars, conn, since, todo, sought, from, at, cached, traceVars>>

\* Mutants: a lagged receiver is replaced by a new one; it is not moved at all.
LagToEnd(c, t) ==
  /\ Readable(c, t) /\ Lagged(t, cursor[c][t])
  /\ cursor'  = [cursor EXCEPT ![c][t] = End(t)]
  /\ skipped' = [skipped EXCEPT ![c] =
                   @ \cup ((Ahead(t, cursor[c][t]) \ Ahead(t, Oldest(t))) \ got[c])]
  /\ UNCHANGED <<fanoutVars, conn, since, todo, sought, from, at, cached, got, traceVars>>
LagStuck(c, t) ==
  Readable(c, t) /\ Lagged(t, cursor[c][t]) /\ UNCHANGED vars

\* RecvError::Lagged: logged, and the stream goes on from the oldest message.
Lag(c, t) ==
  /\ Readable(c, t) /\ Lagged(t, cursor[c][t])
  /\ cursor'  = [cursor EXCEPT ![c][t] = Oldest(t)]
  /\ skipped' = [skipped EXCEPT ![c] =
                   @ \cup ((Ahead(t, cursor[c][t]) \ Ahead(t, Oldest(t))) \ got[c])]
  /\ UNCHANGED <<fanoutVars, conn, since, todo, sought, from, at, cached, got, traceVars>>

\* What a connection that is gone leaves behind.
Hangup(gone) ==
  /\ conn'   = [c \in Client |-> IF c \in gone THEN "off" ELSE conn[c]]
  /\ since'  = [c \in Client |-> IF c \in gone THEN NoSince ELSE since[c]]
  /\ todo'   = [c \in Client |-> IF c \in gone THEN {} ELSE todo[c]]
  /\ sought' = [c \in Client |-> IF c \in gone THEN NoTopic ELSE sought[c]]
  /\ from'   = [c \in Client |-> IF c \in gone THEN 0 ELSE from[c]]
  /\ at'     = [c \in Client |-> IF c \in gone THEN NoTopic ELSE at[c]]
  /\ cached' = [c \in Client |-> IF c \in gone THEN {} ELSE cached[c]]
  /\ cursor' = [c \in Client |-> IF c \in gone THEN Zeros[c] ELSE cursor[c]]
  /\ floor'  = [c \in Client |-> IF c \in gone THEN Zeros[c] ELSE floor[c]]
  /\ readAt' = [c \in Client |-> IF c \in gone THEN Zeros[c] ELSE readAt[c]]
  /\ joinedAt' = [c \in Client |-> IF c \in gone THEN Zeros[c] ELSE joinedAt[c]]

\* poll=1: when all topics are read the cached messages are the answer.
AnswerPoll(c) ==
  /\ conn[c] = "polling" /\ todo[c] = {} /\ at[c] = NoTopic
  /\ got'     = [got EXCEPT ![c] = @ \cup cached[c]]
  /\ skipped' = [skipped EXCEPT ![c] = @ \ cached[c]]
  /\ Hangup({c})
  /\ UNCHANGED fanoutVars

\* The client goes away, or the handler fails with an error.
Disconnect(c) ==
  /\ conn[c] # "off"
  /\ Hangup({c})
  /\ UNCHANGED <<fanoutVars, memoryVars>>

-----------------------------------------------------------------------------
ClientStep(c) ==
  \/ \E s \in Since, kind \in {"opening", "polling"} : Connect(c, s, kind)
  \/ \E t \in Topic : SeekAnchor(c, t) \/ ResolveSince(c, t) \/ Recv(c, t) \/ Lag(c, t)
  \/ Attach(c) \/ AnswerPoll(c)
  \/ \E m \in Msg : Replay(c, m)
  \/ Disconnect(c)

\* A step of the write side; a crash takes every connection with it.
ServerStep ==
  \/ /\ \/ \E m \in Msg : Handler(m)
        \/ Manager
        \/ ClockTick \/ Restart
     /\ UNCHANGED clientVars
  \/ Crash /\ Hangup(Client) /\ UNCHANGED memoryVars

Next == ServerStep \/ \E c \in Client : ClientStep(c)

Spec == Init /\ [][Next]_vars

\* A connected client's stream is polled for as long as it is connected.
FairSpec ==
  /\ Spec
  /\ \A c \in Client :
       /\ WF_vars(\E m \in Msg : Replay(c, m))
       /\ \A t \in Topic : WF_vars(Recv(c, t) \/ Lag(c, t))

-----------------------------------------------------------------------------
(* What clients are promised.                                              *)

\* The messages sent to topic t at the positions after i and up to j.
Between(t, i, j) == {chan[t][k] : k \in {p \in 1 .. Len(chan[t]) : i < p /\ p <= j}}

\* The published row m has been inserted or marked, its send is still to come.
AboutToBeSent(m) == pc[m] = "stored" \/ cur = m

\* A client never receives, and never has queued for it, a delayed message
\* before its time, a message that was not visible in the cache first, or one
\* deleted before it fired (cache.rs:96-139, publish.rs:214-231).
ReceivedIsPublic ==
  \A c \in Client : \A m \in got[c] \cup cached[c] :
    time[m] <= now /\ row[m] \in {"published", "deleted"} /\ m \notin unfired

\* Everything sent to a topic since the receiver was created reaches the
\* client, is still ahead of it, or was lost to lag: nothing is lost between
\* the cached and the live part of a stream, nor between one receiver and
\* another of a multi-topic stream (subscribe.rs:169-231, ws.rs:101-203).
LiveComplete ==
  \A c \in Client : conn[c] = "live" =>
    \A t \in Wants[c] :
      Between(t, joinedAt[c][t], End(t))
        \subseteq got[c] \cup skipped[c] \cup Ahead(t, cursor[c][t])

\* The cached part of what the client is to get is complete.
HasRead(c) == conn[c] = "live" \/ (conn[c] = "polling" /\ todo[c] = {} /\ at[c] = NoTopic)

\* What is in the cache of topic t after `low' and not for the client: neither
\* read, nor sent since it read the cache, nor about to be sent.
LeftOut(c, t, low) ==
  {m \in Msg :
     /\ TopicOf[m] = t /\ row[m] = "published" /\ time[m] > low
     /\ m \notin got[c] \cup cached[c]
     /\ ~AboutToBeSent(m)
     /\ m \notin Between(t, readAt[c][t], End(t))}

\* A stream or poll with since=<time> leaves out no message of that time or
\* later, one with since=<id> none after the anchor while the anchor is within
\* its retention, and after that none of the last AnchorWindow seconds, although
\* the anchor is looked up, the rows are read and the channel is joined in
\* separate steps with expiry and publishing in between; missed are only sends
\* that fall between the read and tx.subscribe() (cache.rs:113-138,
\* subscribe.rs:167-170, 240-252).
ReplayComplete ==
  \A c \in Client : HasRead(c) /\ since[c].kind # "none" =>
    \A t \in Wants[c] : LeftOut(c, t, floor[c][t]) = {}

\* A message ahead of a live receiver is eventually received, unless lag or
\* the end of the connection comes first (subscribe.rs:206-217, ws.rs:180-194).
StreamMovesOn ==
  \A c \in Client, m \in Msg :
    conn[c] = "live" /\ m \in Ahead(TopicOf[m], cursor[c][TopicOf[m]]) ~>
      conn[c] = "off" \/ m \in got[c] \cup skipped[c]

\* SPEC.md:245 says of since=<id>: "Return messages since message ID
\* (exclusive)".  Only the anchor itself is excluded then, not the other
\* messages of its second.
SinceIdExcludesOnlyTheAnchor ==
  \A c \in Client : HasRead(c) /\ since[c].kind = "id" =>
    \A t \in Wants[c] : LeftOut(c, t, time[since[c].anchor] - 1) = {}

\* The same line of SPEC.md, of a client of several topics: messages since the
\* anchor are returned whichever of its topics they are in.
SinceIdSpansTopics ==
  \A c \in Client : HasRead(c) /\ since[c].kind = "id" =>
    \A t \in Wants[c] : LeftOut(c, t, time[since[c].anchor]) = {}

\* cache.rs:110-112 says that since_id "returns an empty list" if the anchor is
\* not found, "expired or never existed".  So what its first statement finds for
\* an anchor that is gone must let the second find nothing.
MissingAnchorReplaysNothing ==
  [][\A c \in Client :
       sought[c] = NoTopic /\ sought'[c] # NoTopic /\ ~Stored(since[c].anchor) =>
         SinceId(sought'[c], from'[c]) = {}]_vars

-----------------------------------------------------------------------------
(* The read side implements Feed.                                          *)

\* The topics a connection has its receivers for.
Joined(c) == IF conn[c] = "off" THEN {} ELSE Wants[c] \ (todo[c] \cup {at[c]})

\* What the receiver for topic t has still to take, as a queue of its own.
Queue(c, t) ==
  IF t \in Joined(c) THEN SubSeq(chan[t], cursor[c][t] + 1, End(t)) ELSE <<>>

FeedOf == INSTANCE Feed WITH
  public    <- {m \in Msg : LifePhase(m) \in {"visible", "forgotten"}},
  announced <- {m \in Msg : fanouts[m] > 0},
  joined    <- [c \in Client |-> Joined(c)],
  replay    <- cached,
  queue     <- [c \in Client |-> [t \in Topic |-> Queue(c, t)]]

\* Seen by the clients, the ring buffer that all receivers of a topic share is
\* a queue for each: in the order of the sends, from the moment of the
\* subscription on, with nothing lost but the oldest on lag, and after the
\* messages that the cache held (subscribe.rs:151-231, ws.rs:96-203).
ImplementsFeed == FeedOf!Spec

=============================================================================
