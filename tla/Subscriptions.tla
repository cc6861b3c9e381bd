---------------------------- MODULE Subscriptions ----------------------------
(***************************************************************************)
(* The topic map (src/src/topic.rs), the streams that subscribe through it *)
(* (subscribe.rs, ws.rs), the pruning of stale topics by the manager, and  *)
(* the per-visitor subscription count (src/src/visitor.rs).                *)
(*                                                                         *)
(* A Topic is an object shared by reference: the map holds one reference,  *)
(* a handler between get_or_create and the end of its turn another.  When  *)
(* both are gone its channel closes.  Objects are numbered in the order of *)
(* their creation; 0 is no object.  The DashMap gives each call on one key *)
(* atomicity, nothing more.                                                *)
(*                                                                         *)
(* Messages are not modelled: publish reaches the receivers of the object  *)
(* the map holds (Reached), and module Delivery says what they get.        *)
(***************************************************************************)
EXTENDS Integers, FiniteSets

CONSTANTS
  Topic,
  Stream,      \* subscribe requests, each of one connection
  Wants,       \* the topics of each
  WebSocket,   \* the streams that are WebSockets; the others are SSE or NDJSON
  Visitor,
  VisitorOf,   \* the client address of each stream
  NoTopic,
  MaxObjects   \* bound: Topic objects created

ASSUME SubscriptionsAssumption ==
  /\ Wants \in [Stream -> (SUBSET Topic) \ {{}}]
  /\ WebSocket \subseteq Stream
  /\ VisitorOf \in [Stream -> Visitor]
  /\ NoTopic \notin Topic
  /\ MaxObjects \in Nat

VARIABLES
  inner,      \* the map: topic -> object
  objects,    \* how many objects were created
  aged,       \* objects created more than STALE_SECS ago
  pc,         \* where each stream is
  at,         \* the topic its handler is at
  todo,       \* the topics it has not subscribed to yet
  held,       \* the reference its handler holds
  began,      \* how many objects there were when its get_or_create began
  rx,         \* its receivers: topic -> object
  count,      \* subscription_count of each visitor
  unchecked,  \* prune_stale: the topics its iterator has still to visit
  stale,      \* prune_stale: the topics collected for removal
  scanBegan,  \* how many objects there were when the scan began
  condemned,  \* history: objects whose topic was collected
  late        \* history: receivers created on an object already condemned

streamVars == <<pc, at, todo, held, began, rx, count, late>>
pruneVars  == <<unchecked, stale, scanBegan, condemned>>
vars       == <<inner, objects, aged, streamVars, pruneVars>>

Object == 1 .. MaxObjects

\* "start": before a topic of todo; "missing", "inserted": inside
\* get_or_create; "holding": has the Arc; "attached": has the receiver too;
\* "upgrading": 101 sent; "open": streaming; "ended": an event stream whose
\* channels have all closed, now pending on its guard; "gone"; "panicked".
Place == {"start", "missing", "inserted", "holding", "attached", "upgrading",
          "open", "ended", "gone", "panicked"}

TypeOK ==
  /\ inner   \in [Topic -> Object \cup {0}]
  /\ objects \in 0 .. MaxObjects
  /\ aged    \in SUBSET Object
  /\ pc      \in [Stream -> Place]
  /\ at      \in [Stream -> Topic \cup {NoTopic}]
  /\ todo    \in [Stream -> SUBSET Topic]
  /\ held    \in [Stream -> Object \cup {0}]
  /\ \A s \in Stream : held[s] # 0 <=> pc[s] \in {"holding", "attached"}
  /\ began   \in [Stream -> 0 .. MaxObjects]
  /\ rx      \in [Stream -> [Topic -> Object \cup {0}]]
  /\ count   \in [Visitor -> Int]
  /\ unchecked \in SUBSET Topic /\ stale \in SUBSET Topic
  /\ scanBegan \in 0 .. MaxObjects
  /\ condemned \in SUBSET Object
  /\ late \in SUBSET Stream

NoReceivers == [t \in Topic |-> 0]

Init ==
  /\ inner = NoReceivers /\ objects = 0 /\ aged = {}
  /\ pc = [s \in Stream |-> "start"]
  /\ at = [s \in Stream |-> NoTopic]
  /\ todo = Wants
  /\ held = [s \in Stream |-> 0] /\ began = [s \in Stream |-> 0]
  /\ rx = [s \in Stream |-> NoReceivers]
  /\ count = [v \in Visitor |-> 0]
  /\ unchecked = {} /\ stale = {} /\ scanBegan = 0
  /\ condemned = {} /\ late = {}

-----------------------------------------------------------------------------
\* receiver_count
Receivers(o) == {s \in Stream : \E t \in Topic : rx[s][t] = o}

\* Mutants: stale by age alone, and by the lack of receivers alone.
IsStaleByAge(o)  == o \in aged
IsStaleByIdle(o) == Receivers(o) = {}

IsStale(o) == Receivers(o) = {} /\ o \in aged

\* No reference is left: the Sender is dropped and the channel closed.
Closed(o) == (\A t \in Topic : inner[t] # o) /\ (\A s \in Stream : held[s] # o)

\* The streams TopicMap::publish reaches; none if the map has no such topic.
Reached(t) == IF inner[t] = 0 THEN {} ELSE Receivers(inner[t])

-----------------------------------------------------------------------------
(* get_or_create, for the next topic of a stream.                          *)

Lookup(s, t) ==
  /\ pc[s] = "start" /\ t \in todo[s]
  /\ at' = [at EXCEPT ![s] = t] /\ began' = [began EXCEPT ![s] = objects]
  /\ pc' = [pc EXCEPT ![s] = IF inner[t] = 0 THEN "missing" ELSE "holding"]
  /\ held' = [held EXCEPT ![s] = inner[t]]
  /\ UNCHANGED <<inner, objects, aged, todo, rx, count, late, pruneVars>>

\* entry(id).or_insert_with(...)
OrInsert(s) ==
  /\ pc[s] = "missing"
  /\ IF inner[at[s]] = 0
       THEN /\ objects < MaxObjects
            /\ objects' = objects + 1
            /\ inner' = [inner EXCEPT ![at[s]] = objects + 1]
       ELSE UNCHANGED <<inner, objects>>
  /\ pc' = [pc EXCEPT ![s] = "inserted"]
  /\ UNCHANGED <<aged, at, todo, held, began, rx, count, late, pruneVars>>

\* get(id).unwrap(): whatever is in the map now.
GetUnwrap(s) ==
  /\ pc[s] = "inserted"
  /\ held' = [held EXCEPT ![s] = inner[at[s]]]
  /\ pc' = [pc EXCEPT ![s] = IF inner[at[s]] = 0 THEN "panicked" ELSE "holding"]
  /\ UNCHANGED <<inner, objects, aged, at, todo, began, rx, count, late, pruneVars>>

-----------------------------------------------------------------------------
(* The rest of a stream's life.                                            *)

\* t.tx.subscribe()
Attach(s) ==
  /\ pc[s] = "holding"
  /\ rx' = [rx EXCEPT ![s][at[s]] = held[s]]
  /\ pc' = [pc EXCEPT ![s] = "attached"]
  /\ late' = IF held[s] \in condemned THEN late \cup {s} ELSE late
  /\ UNCHANGED <<inner, objects, aged, at, todo, held, began, count, pruneVars>>

\* Mutant: the stream keeps the Arc.
ReleaseKeepsArc(s) ==
  /\ pc[s] = "attached"
  /\ at' = [at EXCEPT ![s] = NoTopic]
  /\ todo' = [todo EXCEPT ![s] = @ \ {at[s]}]
  /\ IF todo[s] = {at[s]}
       THEN /\ pc' = [pc EXCEPT ![s] = IF s \in WebSocket THEN "upgrading" ELSE "open"]
            /\ count' = [count EXCEPT ![VisitorOf[s]] = @ + 1]
       ELSE pc' = [pc EXCEPT ![s] = "start"] /\ UNCHANGED count
  /\ UNCHANGED <<inner, objects, aged, held, began, rx, late, pruneVars>>

\* The Arc is dropped; after the last topic the count goes up and the response
\* is returned.
Release(s) ==
  /\ pc[s] = "attached"
  /\ held' = [held EXCEPT ![s] = 0] /\ at' = [at EXCEPT ![s] = NoTopic]
  /\ todo' = [todo EXCEPT ![s] = @ \ {at[s]}]
  /\ IF todo[s] = {at[s]}
       THEN /\ pc' = [pc EXCEPT ![s] = IF s \in WebSocket THEN "upgrading" ELSE "open"]
            /\ count' = [count EXCEPT ![VisitorOf[s]] = @ + 1]
       ELSE pc' = [pc EXCEPT ![s] = "start"] /\ UNCHANGED count
  /\ UNCHANGED <<inner, objects, aged, began, rx, late, pruneVars>>

\* The stream ends; dropping a guard takes its visitor's count down.
End(s, hasGuard) ==
  /\ pc' = [pc EXCEPT ![s] = "gone"]
  /\ rx' = [rx EXCEPT ![s] = NoReceivers]
  /\ count' = IF hasGuard THEN [count EXCEPT ![VisitorOf[s]] = @ - 1] ELSE count
  /\ UNCHANGED <<inner, objects, aged, at, todo, held, began, late, pruneVars>>

\* resolve_since fails for the next topic: 500, and no count was taken.
HandlerFails(s) == pc[s] = "start" /\ End(s, FALSE)

\* on_upgrade runs handle_ws, which creates the guard, or never does.
Upgrade(s) ==
  /\ pc[s] = "upgrading"
  /\ pc' = [pc EXCEPT ![s] = "open"]
  /\ UNCHANGED <<inner, objects, aged, at, todo, held, began, rx, count, late, pruneVars>>

UpgradeFails(s) == pc[s] = "upgrading" /\ End(s, FALSE)

\* Every channel of the stream is closed.
AllClosed(s) == \A t \in Wants[s] : Closed(rx[s][t])

\* live.next() is None: break.
WebSocketBreaks(s) ==
  /\ pc[s] = "open" /\ s \in WebSocket /\ AllClosed(s)
  /\ End(s, TRUE)

\* Mutant: `let _ = SubscriptionGuard(visitor)' drops the guard at once.
LiveEndsUnguarded(s) ==
  /\ pc[s] = "open" /\ s \notin WebSocket /\ AllClosed(s)
  /\ pc' = [pc EXCEPT ![s] = "ended"]
  /\ count' = [count EXCEPT ![VisitorOf[s]] = @ - 1]
  /\ UNCHANGED <<inner, objects, aged, at, todo, held, began, rx, late, pruneVars>>

\* The chain moves on to guard_stream, which creates the guard and pends.
LiveEnds(s) ==
  /\ pc[s] = "open" /\ s \notin WebSocket /\ AllClosed(s)
  /\ pc' = [pc EXCEPT ![s] = "ended"]
  /\ UNCHANGED <<inner, objects, aged, at, todo, held, began, rx, count, late, pruneVars>>

\* The client disconnects.  Only a WebSocket or an ended stream has a guard.
Leave(s) ==
  /\ pc[s] \in {"open", "ended"}
  /\ End(s, s \in WebSocket \/ pc[s] = "ended")

-----------------------------------------------------------------------------
(* prune_stale, once per tick of the one manager.                          *)

PruneBegin ==
  /\ unchecked = {} /\ stale = {}
  /\ unchecked' = Topic /\ scanBegan' = objects
  /\ UNCHANGED <<inner, objects, aged, streamVars, stale, condemned>>

\* The iterator reaches t: collect it if it is stale now.
PruneCheck(t) ==
  /\ t \in unchecked
  /\ unchecked' = unchecked \ {t}
  /\ IF inner[t] # 0 /\ IsStale(inner[t])
       THEN stale' = stale \cup {t} /\ condemned' = condemned \cup {inner[t]}
       ELSE UNCHANGED <<stale, condemned>>
  /\ UNCHANGED <<inner, objects, aged, streamVars, scanBegan>>

PruneRemove(t) ==
  /\ unchecked = {} /\ t \in stale
  /\ stale' = stale \ {t}
  /\ inner' = [inner EXCEPT ![t] = 0]
  /\ UNCHANGED <<objects, aged, streamVars, unchecked, scanBegan, condemned>>

\* STALE_SECS pass since the object was created (nothing ever renews
\* last_access).  No get_or_create and no scan takes that long.
Age(o) ==
  /\ o \in 1 .. objects /\ o \notin aged
  /\ \A p \in 1 .. o - 1 : p \in aged
  /\ \A s \in Stream :
       pc[s] \in {"missing", "inserted", "holding", "attached"} => began[s] >= o
  /\ unchecked \cup stale # {} => scanBegan >= o
  /\ aged' = aged \cup {o}
  /\ UNCHANGED <<inner, objects, streamVars, pruneVars>>

StreamStep(s) ==
  \/ \E t \in Topic : Lookup(s, t)
  \/ OrInsert(s) \/ GetUnwrap(s) \/ Attach(s) \/ Release(s)
  \/ HandlerFails(s) \/ Upgrade(s) \/ UpgradeFails(s)
  \/ WebSocketBreaks(s) \/ LiveEnds(s) \/ Leave(s)

Prune == PruneBegin \/ \E t \in Topic : PruneCheck(t) \/ PruneRemove(t)

Next ==
  \/ \E s \in Stream : StreamStep(s)
  \/ Prune
  \/ \E o \in Object : Age(o)

Spec == Init /\ [][Next]_vars

\* The runtime keeps polling handlers, sockets and the manager.
FairSpec ==
  /\ Spec
  /\ WF_vars(Prune)
  /\ \A s \in Stream :
       /\ WF_vars(GetUnwrap(s) \/ Attach(s) \/ Release(s))
       /\ WF_vars(WebSocketBreaks(s))

-----------------------------------------------------------------------------
\* get(id).unwrap() after or_insert_with finds the topic: pruning cannot take
\* it away in between.  A panic there aborts the process (topic.rs:66-77).
UnwrapNeverPanics == \A s \in Stream : pc[s] # "panicked"

\* Streams with a receiver for t.
Subscribed(t) == {s \in Stream : rx[s][t] # 0}

\* publish reaches every receiver of its topic, however many handlers raced to
\* create it, except a receiver created on an object that prune_stale had
\* already collected (topic.rs:66-106).
SubscribersAreReached ==
  \A t \in Topic : Subscribed(t) \subseteq Reached(t) \cup late

\* Streams that took a count and are still there.
Counted(v) ==
  {s \in Stream : VisitorOf[s] = v /\ pc[s] \in {"upgrading", "open", "ended"}}

\* A visitor's count never falls below its streams, so fetch_sub never wraps
\* (visitor.rs:54-62, subscribe.rs:219-225, ws.rs:146).
CountCoversStreams == \A v \in Visitor : count[v] >= Cardinality(Counted(v))

\* No publish can reach s any more: the map has lost or replaced its objects.
CutOff(s) == \A t \in Wants[s] : rx[s][t] # inner[t]

\* A WebSocket that no publish can reach is closed, so that its client can notice
\* and reconnect: whichever handlers still hold its objects let go of them, and
\* nobody takes hold of them anew (ws.rs:144-192, topic.rs:66-106).
CutOffWebSocketCloses ==
  \A s \in WebSocket : pc[s] = "open" /\ CutOff(s) ~> pc[s] = "gone"

\* subscribe.rs:219 says the count goes down "when the stream is dropped
\* (client disconnects)": the count is the number of streams there are.
CountIsStreams == \A v \in Visitor : count[v] = Cardinality(Counted(v))

=============================================================================
