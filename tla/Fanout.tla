------------------------------- MODULE Fanout -------------------------------
(***************************************************************************)
(* The write side of the server: what turns an accepted request into a row *)
(* of the message store and one send on the topic's broadcast channel.     *)
(*                                                                         *)
(*   - the publish handler (src/src/handlers/publish.rs, and the Matrix    *)
(*     gateway of matrix.rs, which persists and fans out the same way):    *)
(*     stamp, insert, fan out, answer.  Handlers run on a multi-threaded   *)
(*     runtime, so every step of one may interleave with any other;        *)
(*   - the background manager (src/src/manager.rs), one task: a tick reads *)
(*     the clock and the due messages, marks and sends them one by one,    *)
(*     then deletes what has expired;                                      *)
(*   - the clock, and a crash of the process: the store survives it, the   *)
(*     channels, the handlers and the manager's place in its tick do not.  *)
(*                                                                         *)
(* Each member of Msg is one request.  The rate limiter, the authorization *)
(* and the parsing before the stamp change nothing modelled here.          *)
(***************************************************************************)
EXTENDS MessageStore, Broadcast, Delay, FiniteSets

CONSTANTS
  CacheDuration,  \* cache_duration_secs
  MaxDelay,       \* max_delay_secs
  Hold,           \* longest wait between the stamp and the insert
  MaxTime,        \* bound: the clock stops here, nothing is scheduled later
  MaxCrashes,     \* bound: crashes of the process
  NoMsg

ASSUME DurationAssumption ==
  /\ CacheDuration \in Nat
  /\ MaxDelay      \in Unsigned
  /\ Hold          \in Nat /\ Hold <= CacheDuration
  /\ MaxTime       \in 1 .. Half - 1
  /\ MaxCrashes    \in Nat
ASSUME NoMsgAssumption == NoMsg \notin Msg

VARIABLES
  now,       \* chrono::Utc::now(), taken never to run backwards
  server,    \* the process is "up" or "down"
  crashes,   \* crashes so far
  pc,        \* how far the handler of each request has come
  scheduled, \* requests that carry a delay (is_delayed)
  fanouts,   \* history: how often each message was sent to its channel
  mpc,       \* the manager: between ticks, choosing a message, or sending one
  mnow,      \* the `now' of the current tick
  due,       \* what remains of the tick's due_messages
  cur,       \* the message marked and about to be sent
  unmarked   \* history: messages the manager failed to fetch or to mark

managerVars == <<mpc, mnow, due, cur, unmarked>>
handlerVars == <<pc, scheduled>>
processVars == <<now, server, crashes>>
fanoutVars  == <<storeVars, chan, handlerVars, fanouts, managerVars, processVars>>

\* "new": not received; "stamped": Message built; "stored": persisted and, for
\* an immediate message, not fanned out yet; "done": answered 200; "cut": the
\* client got an error or the process died first.
HandlerState == {"new", "stamped", "stored", "done", "cut"}

FanoutTypeOK ==
  /\ StoreTypeOK /\ BroadcastTypeOK
  /\ now       \in Nat /\ now <= MaxTime
  /\ server \in {"up", "down"} /\ crashes \in Nat
  /\ pc        \in [Msg -> HandlerState]
  /\ scheduled \in SUBSET Msg
  /\ fanouts   \in [Msg -> Nat]
  /\ mpc       \in {"idle", "firing", "sending"}
  /\ mnow      \in Nat
  /\ due       \in SUBSET Msg
  /\ cur       \in Msg \cup {NoMsg}
  /\ cur \in Msg <=> mpc = "sending"
  /\ unmarked  \in SUBSET Msg

FanoutInit ==
  /\ StoreInit /\ BroadcastInit
  /\ now = 1 /\ server = "up" /\ crashes = 0
  /\ pc = [m \in Msg |-> "new"]
  /\ scheduled = {}
  /\ fanouts = [m \in Msg |-> 0]
  /\ mpc = "idle" /\ mnow = 0 /\ due = {} /\ cur = NoMsg
  /\ unmarked = {}

\* TopicMap::publish, counted.
Publish(m) ==
  /\ Send(TopicOf[m], m)
  /\ fanouts' = [fanouts EXCEPT ![m] = @ + 1]

-----------------------------------------------------------------------------
(* The publish handler.                                                    *)

\* Message::new_message and the handler's `now'.
Stamp(m) ==
  /\ server = "up" /\ pc[m] = "new"
  /\ pc' = [pc EXCEPT ![m] = "stamped"]
  /\ time'    = [time    EXCEPT ![m] = now]
  /\ expires' = [expires EXCEPT ![m] = now + CacheDuration]
  /\ UNCHANGED <<row, unfired, chan, scheduled, fanouts, managerVars, processVars>>

\* parse_delay of a request with a header, after the attachment was written:
\* it is delayed.  An immediate one goes on as if it had no header.
ParseDelay(m, h) ==
  LET verdict == Parsed(h, now, MaxDelay) IN
  /\ server = "up" /\ pc[m] = "stamped" /\ m \notin scheduled
  /\ verdict.fate = "delayed" /\ verdict.at <= MaxTime
  /\ scheduled' = scheduled \cup {m}
  /\ time' = [time EXCEPT ![m] = verdict.at]
  /\ UNCHANGED <<expires, row, unfired, chan, pc, fanouts, managerVars, processVars>>

\* Mutant: every message goes on to the fan-out, delayed ones too.
PersistForFanOut(m) ==
  /\ server = "up" /\ pc[m] = "stamped"
  /\ IF m \in scheduled THEN InsertDelayed(m) ELSE Insert(m)
  /\ pc' = [pc EXCEPT ![m] = "stored"]
  /\ UNCHANGED <<chan, scheduled, fanouts, managerVars, processVars>>

\* A delayed message is answered as soon as it is stored.
Persist(m) ==
  /\ server = "up" /\ pc[m] = "stamped"
  /\ IF m \in scheduled
       THEN InsertDelayed(m) /\ pc' = [pc EXCEPT ![m] = "done"]
       ELSE Insert(m)        /\ pc' = [pc EXCEPT ![m] = "stored"]
  /\ UNCHANGED <<chan, scheduled, fanouts, managerVars, processVars>>

\* A delay that is refused is answered 400; no connection within the
\* pool's timeout, or SQLITE_BUSY, 500.
Refuse(m) ==
  /\ server = "up" /\ pc[m] = "stamped"
  /\ pc' = [pc EXCEPT ![m] = "cut"]
  /\ UNCHANGED <<storeVars, chan, scheduled, fanouts, managerVars, processVars>>

FanOut(m) ==
  /\ server = "up" /\ pc[m] = "stored"
  /\ Publish(m)
  /\ pc' = [pc EXCEPT ![m] = "done"]
  /\ UNCHANGED <<storeVars, scheduled, managerVars, processVars>>

-----------------------------------------------------------------------------
(* The manager.                                                            *)

\* tick: read the clock, then the due messages.  If that query fails the tick
\* goes on without them.
ManagerTick ==
  /\ server = "up" /\ mpc = "idle"
  /\ mpc' = "firing" /\ mnow' = now
  /\ \/ due' = DueMessages(now) /\ UNCHANGED unmarked
     \/ due' = {} /\ unmarked' = unmarked \cup DueMessages(now)
  /\ UNCHANGED <<storeVars, chan, handlerVars, fanouts, cur, processVars>>

\* ORDER BY time: m is one of the earliest left.
IsNextDue(m) == m \in due /\ \A o \in due : time[m] <= time[o]

ManagerMark(m) ==
  /\ server = "up" /\ mpc = "firing" /\ IsNextDue(m)
  /\ MarkPublished(m)
  /\ mpc' = "sending" /\ cur' = m /\ due' = due \ {m}
  /\ UNCHANGED <<chan, handlerVars, fanouts, mnow, unmarked, processVars>>

\* Mutant: the `continue' is missing.
ManagerMarkFailsAndSends(m) ==
  /\ server = "up" /\ mpc = "firing" /\ IsNextDue(m)
  /\ due' = due \ {m} /\ unmarked' = unmarked \cup {m}
  /\ mpc' = "sending" /\ cur' = m
  /\ UNCHANGED <<storeVars, chan, handlerVars, fanouts, mnow, processVars>>

\* mark_published failed: warn and go on with the next one.
ManagerMarkFails(m) ==
  /\ server = "up" /\ mpc = "firing" /\ IsNextDue(m)
  /\ due' = due \ {m} /\ unmarked' = unmarked \cup {m}
  /\ UNCHANGED <<storeVars, chan, handlerVars, fanouts, mpc, mnow, cur, processVars>>

ManagerSend ==
  /\ server = "up" /\ mpc = "sending"
  /\ Publish(cur)
  /\ mpc' = "firing" /\ cur' = NoMsg
  /\ UNCHANGED <<storeVars, handlerVars, mnow, due, unmarked, processVars>>

\* Mutant: the expiry reads the clock again.
ManagerExpireNow ==
  /\ server = "up" /\ mpc = "firing" /\ due = {}
  /\ mpc' = "idle"
  /\ DeleteExpired(now) \/ UNCHANGED storeVars
  /\ UNCHANGED <<chan, handlerVars, fanouts, mnow, due, cur, unmarked, processVars>>

\* The end of the tick: expire old messages, with the tick's own `now'.  A
\* failing DELETE is logged.
ManagerExpire ==
  /\ server = "up" /\ mpc = "firing" /\ due = {}
  /\ mpc' = "idle"
  /\ DeleteExpired(mnow) \/ UNCHANGED storeVars
  /\ UNCHANGED <<chan, handlerVars, fanouts, mnow, due, cur, unmarked, processVars>>

-----------------------------------------------------------------------------
(* The environment.                                                        *)

\* A stamped request reaches its insert, or fails, within Hold.
ClockTick ==
  /\ now < MaxTime
  /\ \A m \in Msg : pc[m] = "stamped" => now + CacheDuration < expires[m] + Hold
  /\ now' = now + 1
  /\ UNCHANGED <<storeVars, chan, handlerVars, fanouts, managerVars, server, crashes>>

\* Mutant: the message being sent survives the process.
CrashKeepsCur ==
  /\ server = "up" /\ crashes < MaxCrashes
  /\ server' = "down" /\ crashes' = crashes + 1
  /\ chan' = [t \in Topic |-> <<>>]
  /\ pc' = [m \in Msg |-> IF pc[m] \in {"stamped", "stored"} THEN "cut" ELSE pc[m]]
  /\ mpc' = "idle" /\ due' = {}
  /\ UNCHANGED <<storeVars, scheduled, fanouts, mnow, cur, unmarked, now>>

Crash ==
  /\ server = "up" /\ crashes < MaxCrashes
  /\ server' = "down" /\ crashes' = crashes + 1
  /\ chan' = [t \in Topic |-> <<>>]
  /\ pc' = [m \in Msg |-> IF pc[m] \in {"stamped", "stored"} THEN "cut" ELSE pc[m]]
  /\ mpc' = "idle" /\ due' = {} /\ cur' = NoMsg
  /\ UNCHANGED <<storeVars, scheduled, fanouts, mnow, unmarked, now>>

Restart ==
  /\ server = "down" /\ server' = "up"
  /\ UNCHANGED <<storeVars, chan, handlerVars, fanouts, managerVars, now, crashes>>

Handler(m) ==
  \/ Stamp(m)
  \/ \E h \in Header : ParseDelay(m, h)
  \/ Persist(m) \/ Refuse(m) \/ FanOut(m)

Manager ==
  \/ ManagerTick \/ ManagerSend \/ ManagerExpire
  \/ \E m \in Msg : ManagerMark(m) \/ ManagerMarkFails(m)

FanoutNext ==
  \/ \E m \in Msg : Handler(m)
  \/ Manager
  \/ ClockTick \/ Crash \/ Restart

FanoutSpec == FanoutInit /\ [][FanoutNext]_fanoutVars

\* The runtime polls every ready task, the manager's interval keeps firing,
\* time passes, and whoever runs the server restarts it.
Fairness ==
  /\ \A m \in Msg :
       /\ WF_fanoutVars(Persist(m) \/ Refuse(m))
       /\ WF_fanoutVars(FanOut(m))
  /\ WF_fanoutVars(ManagerTick)
  /\ WF_fanoutVars(ManagerSend)
  /\ WF_fanoutVars(ManagerExpire)
  /\ WF_fanoutVars(\E m \in Msg : ManagerMark(m) \/ ManagerMarkFails(m))
  /\ WF_fanoutVars(ClockTick)
  /\ WF_fanoutVars(Restart)

FairFanoutSpec == FanoutSpec /\ Fairness

-----------------------------------------------------------------------------
(* What the write side promises.                                           *)

\* No message waits longer than max_delay_secs, also when the number in its
\* header overflows (publish.rs:377-426).
DelayedWithinMax == \A m \in scheduled : time[m] <= now + MaxDelay

\* A delayed message is neither visible to since= queries nor fanned out
\* before its delivery time (publish.rs:201-226, cache.rs:73-83).
NeverEarly ==
  \A m \in Msg : fanouts[m] > 0 \/ row[m] = "published" => time[m] <= now

\* No message is sent to its channel twice, whatever the interleaving of the
\* handler, the manager's ticks and crashes: immediate messages are sent by
\* their handler only, delayed ones are marked before they are sent
\* (manager.rs:26-32).
FanOutAtMostOnce == \A m \in Msg : fanouts[m] <= 1

\* What a live subscriber is sent can be replayed from the cache until it
\* expires: the row was visible before the send, and only expiry removes it
\* (publish.rs:214-231, manager.rs:27-32).
FannedOutIsReplayable ==
  \A m \in Msg :
    fanouts[m] > 0 =>
      \/ row[m] = "published"
      \/ row[m] = "deleted" /\ expires[m] < now /\ m \notin unfired

\* A request answered with 200 is in the store, also after a crash, until it
\* expires (publish.rs:214-226, 269).
AnsweredIsKept ==
  \A m \in Msg :
    pc[m] = "done" => Stored(m) \/ (row[m] = "deleted" /\ expires[m] < now)

\* A delayed message due within its retention is not deleted before the
\* manager tried to fire it, however late the tick comes: due_messages runs
\* before delete_expired, on the same `now' (manager.rs:18-56).
FiredBeforeDeletion ==
  \A m \in unfired : m \in unmarked \/ time[m] > expires[m]

\* Every stored delayed message leaves the waiting state, and one due within
\* its retention by being published, unless the manager failed on it
\* (manager.rs:15-53).
DelayedIsFired ==
  \A m \in Msg :
    row[m] = "delayed" ~>
      row[m] = "published" \/ m \in unmarked \/ (m \in unfired /\ time[m] > expires[m])

-----------------------------------------------------------------------------
(* The write side implements MessageLife.                                  *)

LifePhase(m) ==
  CASE row[m] = "none"      -> "unknown"
    [] row[m] = "delayed"   -> "waiting"
    [] row[m] = "published" -> "visible"
    [] row[m] = "deleted"   -> IF m \in unfired THEN "dropped" ELSE "forgotten"

Life == INSTANCE MessageLife WITH
  clock     <- now,
  phase     <- [m \in Msg |-> LifePhase(m)],
  dueAt     <- [m \in Msg |-> IF row[m] = "none" THEN 0 ELSE time[m]],
  keepUntil <- [m \in Msg |-> IF row[m] = "none" THEN 0 ELSE expires[m]],
  announced <- fanouts

\* Seen from the cache and the channels, the handlers, the manager, the clock
\* and crashes are the life of MessageLife: accepted before its retention is
\* over, revealed when due, announced once and after that, forgotten last
\* (publish.rs:137-230, manager.rs:15-60).
ImplementsMessageLife == Life!Spec

-----------------------------------------------------------------------------
(* What does not hold.                                                     *)

\* publish.rs:219 says of a stored delayed message: "The manager will flip
\* published=1 and fan-out when the time comes."
DelayedIsNeverDropped == unfired \subseteq unmarked

\* The same, and manager.rs:7, "Fires delayed messages whose delivery time has
\* arrived", of one that was due within its retention: a tick that fails to fire
\* it should leave it to the next one.
DueIsNeverDropped == \A m \in unfired : time[m] > expires[m]

=============================================================================
