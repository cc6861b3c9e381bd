------------------------------- MODULE Notify -------------------------------
(***************************************************************************)
(* What a fanned-out message sets off besides its channel: the poll        *)
(* request to the upstream server (upstream.rs), the e-mails (email.rs)    *)
(* and the web pushes (webpush.rs), and the table of push subscriptions    *)
(* with its two handlers (db/webpush.rs, handlers/webpush.rs).             *)
(*                                                                         *)
(* Each is a task of its own, spawned and forgotten: it makes its calls    *)
(* one after the other, logs those that fail, and dies with the process.   *)
(* Handlers, the manager, other tasks and (un)subscribing clients come in  *)
(* between.  A call counts from the moment it is tried: it may have        *)
(* reached its receiver also when it fails, by the timeout of the HTTP     *)
(* client; one that cannot be encrypted fails without having left.         *)
(***************************************************************************)
EXTENDS Fanout

CONSTANTS
  Endpoint,  \* push services' URLs, one per browser
  Id,        \* subscription ids, each given out once (Uuid::new_v4)
  Mailbox,   \* the entries of smtp.to that parse; an address listed twice is two
  Upstream,  \* upstream_base_url
  Configured \* the kinds of task the configuration asks for

Kind == {"poll", "mail", "push"}
Receiver == Endpoint \cup Mailbox \cup {Upstream}

\* A call is for a receiver; a push is for a row, so it has the row's id too.
Poll == <<Upstream, Upstream>>
Mail == {<<a, a>> : a \in Mailbox}
Row  == Endpoint \X Id

ASSUME NotifyAssumption ==
  /\ Configured \subseteq Kind
  /\ Mailbox \cap Endpoint = {} /\ Upstream \notin Mailbox \cup Endpoint

VARIABLES
  subs,   \* webpush_subscriptions: each topic's rows
  issued, \* history: ids given out
  latest, \* history: the id each endpoint was given last, per topic
  silent, \* history: endpoints unsubscribed by that id, per topic
  task,   \* each message's tasks
  left,   \* the calls a task has still to make
  called, \* history: how often each receiver was called for a message
  steady, \* history: endpoints subscribed from the fan-out to the read
  parted  \* history: endpoints unsubscribed before the fan-out, and since

clientVars == <<subs, issued, latest, silent>>
taskVars   == <<task, left, called, steady, parted>>
vars == <<fanoutVars, clientVars, taskVars>>

\* "failed": the list of subscriptions could not be read, or the settings are
\* of no use; "lost": the process died first.
TaskState == {"none", "spawned", "calling", "failed", "lost"}

TypeOK ==
  /\ FanoutTypeOK
  /\ subs   \in [Topic -> SUBSET Row]
  /\ issued \subseteq Id
  /\ latest \in [Topic -> [Endpoint -> SUBSET Id]]
  /\ silent \in [Topic -> SUBSET Endpoint]
  /\ task   \in [Msg -> [Kind -> TaskState]]
  /\ left   \in [Msg -> [Kind -> SUBSET (Row \cup Mail \cup {Poll})]]
  /\ called \in [Msg -> [Receiver -> Nat]]
  /\ steady \in [Msg -> SUBSET Endpoint]
  /\ parted \in [Msg -> SUBSET Endpoint]

Init ==
  /\ FanoutInit
  /\ subs   = [t \in Topic |-> {}]
  /\ issued = {}
  /\ latest = [t \in Topic |-> [e \in Endpoint |-> {}]]
  /\ silent = [t \in Topic |-> {}]
  /\ task   = [m \in Msg |-> [k \in Kind |-> "none"]]
  /\ left   = [m \in Msg |-> [k \in Kind |-> {}]]
  /\ called = [m \in Msg |-> [x \in Receiver |-> 0]]
  /\ steady = [m \in Msg |-> {}]
  /\ parted = [m \in Msg |-> {}]

\* The endpoints with a row.
Subscribed(t) == {x[1] : x \in subs[t]}

-----------------------------------------------------------------------------
(* The subscription table.                                                 *)

\* History: the messages on topic t whose push task has not read its list yet.
Unread(t) == {m \in Msg : TopicOf[m] = t /\ task[m]["push"] = "spawned"}

Subscribes(t, e, i) ==
  /\ server = "up" /\ i \notin issued
  /\ issued' = issued \cup {i}
  /\ latest' = [latest EXCEPT ![t][e] = {i}]
  /\ silent' = [silent EXCEPT ![t] = @ \ {e}]
  /\ parted' = [m \in Msg |-> IF m \in Unread(t) THEN parted[m] \ {e} ELSE parted[m]]
  /\ UNCHANGED <<fanoutVars, task, left, called, steady>>

\* Mutant: INSERT, with the id as the only key.
SubscribeTwice(t, e, i) ==
  /\ Subscribes(t, e, i)
  /\ subs' = [subs EXCEPT ![t] = @ \cup {<<e, i>>}]

\* Mutant: INSERT OR IGNORE, answered with the new id all the same.
SubscribeIgnored(t, e, i) ==
  /\ Subscribes(t, e, i)
  /\ subs' = IF e \in Subscribed(t) THEN subs
             ELSE [subs EXCEPT ![t] = @ \cup {<<e, i>>}]

\* subscribe: INSERT OR REPLACE on UNIQUE (topic, endpoint), with a new id.
Subscribe(t, e, i) ==
  /\ Subscribes(t, e, i)
  /\ subs' = [subs EXCEPT ![t] = {x \in @ : x[1] # e} \cup {<<e, i>>}]

\* unsubscribe: DELETE by id, 204 also when there is no such row.
Unsubscribe(i) ==
  /\ server = "up" /\ i \in issued
  /\ subs' = [t \in Topic |-> {x \in subs[t] : x[2] # i}]
  /\ silent' = [t \in Topic |-> silent[t] \cup {e \in Endpoint : i \in latest[t][e]}]
  /\ steady' = [m \in Msg |->
       IF m \in Unread(TopicOf[m]) THEN steady[m] \ {e \in Endpoint : <<e, i>> \in subs[TopicOf[m]]}
       ELSE steady[m]]
  /\ UNCHANGED <<fanoutVars, issued, latest, task, left, called, parted>>

-----------------------------------------------------------------------------
(* Tasks.                                                                  *)

\* tokio::spawn for each of the configured kinds among K.
Spawn(m, K) ==
  /\ task' = [task EXCEPT ![m] =
       [k \in Kind |-> IF k \in K \cap Configured THEN "spawned" ELSE @[k]]]
  /\ steady' = [steady EXCEPT ![m] = Subscribed(TopicOf[m])]
  /\ parted' = [parted EXCEPT ![m] = silent[TopicOf[m]]]
  /\ UNCHANGED <<left, called, clientVars>>

\* The publish handler spawns all three, the Matrix gateway and the manager
\* only the poll: a delayed message is neither mailed nor pushed.
FanOutAndNotify(m) == FanOut(m) /\ \E K \in {Kind, {"poll"}} : Spawn(m, K)
ManagerSendAndPoll == ManagerSend /\ Spawn(cur, {"poll"})

\* What the task of each kind has to call.
Calls(m) == [poll |-> {Poll}, mail |-> Mail, push |-> subs[TopicOf[m]]]

\* The task is first polled: send_notifications reads the list once.
Begin(m, k) ==
  /\ server = "up" /\ task[m][k] = "spawned"
  /\ \/ /\ task' = [task EXCEPT ![m][k] = "calling"]
        /\ left' = [left EXCEPT ![m][k] = Calls(m)[k]]
     \/ task' = [task EXCEPT ![m][k] = "failed"] /\ UNCHANGED left
  /\ UNCHANGED <<fanoutVars, clientVars, called, steady, parted>>

\* Mutant: the loop ends at the first error.
CallOrGiveUp(m, k, c) ==
  /\ server = "up" /\ task[m][k] = "calling" /\ c \in left[m][k]
  /\ called' = [called EXCEPT ![m][c[1]] = @ + 1]
  /\ \E rest \in {left[m][k] \ {c}, {}} : left' = [left EXCEPT ![m][k] = rest]
  /\ UNCHANGED <<fanoutVars, clientVars, task, steady, parted>>

\* forward_poll, transport.send, send_one; the outcome is only logged.
Call(m, k, c) ==
  /\ server = "up" /\ task[m][k] = "calling" /\ c \in left[m][k]
  /\ called' = [called EXCEPT ![m][c[1]] = @ + 1]
  /\ left' = [left EXCEPT ![m][k] = @ \ {c}]
  /\ UNCHANGED <<fanoutVars, clientVars, task, steady, parted>>

\* The table outlives the process, the tasks do not.
CrashAndForget ==
  /\ Crash
  /\ task' = [m \in Msg |-> [k \in Kind |->
       IF task[m][k] = "spawned" \/ left[m][k] # {} THEN "lost" ELSE task[m][k]]]
  /\ left' = [m \in Msg |-> [k \in Kind |-> {}]]
  /\ UNCHANGED <<clientVars, called, steady, parted>>

-----------------------------------------------------------------------------
\* The actions of the write side that spawn nothing.
WriteSide ==
  \/ \E m \in Msg :
       \/ Stamp(m) \/ Persist(m) \/ Refuse(m)
       \/ \E h \in Header : ParseDelay(m, h)
       \/ ManagerMark(m) \/ ManagerMarkFails(m)
  \/ ManagerTick \/ ManagerExpire
  \/ ClockTick \/ Restart

Next ==
  \/ WriteSide /\ UNCHANGED <<clientVars, taskVars>>
  \/ \E m \in Msg : FanOutAndNotify(m)
  \/ ManagerSendAndPoll
  \/ CrashAndForget
  \/ \E m \in Msg, k \in Kind : Begin(m, k)
  \/ \E m \in Msg, k \in Kind, c \in Row \cup Mail \cup {Poll} : Call(m, k, c)
  \/ \E t \in Topic, e \in Endpoint, i \in Id : Subscribe(t, e, i)
  \/ \E i \in Id : Unsubscribe(i)

Spec == Init /\ [][Next]_vars

-----------------------------------------------------------------------------
(* What holds.                                                             *)

\* The task is through with its calls.
Finished(m, k) == task[m][k] = "calling" /\ left[m][k] = {}

\* No receiver is called twice for a message, and a task that gets through
\* has called every mailbox, the upstream server, and every endpoint that was
\* subscribed all along: a reload of the page and a re-subscription make no
\* double notification and no gap, and a failing receiver costs the others
\* nothing (db/webpush.rs:39-44, webpush.rs:122-138, email.rs:36-67).
CalledOnce ==
  \A m \in Msg :
    /\ \A x \in Receiver : called[m][x] <= 1
    /\ Finished(m, "push") => \A e \in steady[m] : called[m][e] = 1
    /\ Finished(m, "mail") => \A a \in Mailbox : called[m][a] = 1
    /\ Finished(m, "poll") => called[m][Upstream] = 1

\* Who unsubscribes with the id answered last is sent no message published
\* afterwards, unless they subscribe again (handlers/webpush.rs:116-172).
UnsubscribedIsSilent == \A m \in Msg : \A e \in parted[m] : called[m][e] = 0

=============================================================================
