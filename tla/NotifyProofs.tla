---------------------------- MODULE NotifyProofs ------------------------------
(***************************************************************************)
(* Proofs about what a fan-out sets off, for any messages, browsers,       *)
(* subscription ids and mailboxes.                                         *)
(***************************************************************************)
EXTENDS Notify, FanoutProofs

\* A row is the last its browser was given, and that one has not left since.
RowInv ==
  \A t \in Topic : \A e \in Endpoint : \A i \in Id :
    <<e, i>> \in subs[t] => latest[t][e] = {i} /\ e \notin silent[t]

\* The receivers of a kind of task.
To == [poll |-> {Upstream}, mail |-> Mailbox, push |-> Endpoint]

\* A task is spawned by the fan-out, and has calls left while it is calling,
\* each to a receiver of its own that was not called.
TaskInv ==
  \A m \in Msg : \A k \in Kind :
    /\ fanouts[m] = 0 => task[m][k] = "none"
    /\ task[m][k] # "calling" => left[m][k] = {}
    /\ task[m][k] \in {"none", "spawned", "failed"} => \A x \in To[k] : called[m][x] = 0
    /\ \A c \in left[m][k] :
         /\ c[1] \in To[k] /\ called[m][c[1]] = 0
         /\ \A d \in left[m][k] : d[1] = c[1] => d = c

\* Whoever a task must call has been called or is still to be called.
DutyInv ==
  \A m \in Msg :
    /\ task[m]["push"] = "calling" =>
         \A e \in steady[m] : called[m][e] = 1 \/ \E c \in left[m]["push"] : c[1] = e
    /\ task[m]["mail"] = "calling" =>
         \A a \in Mailbox : called[m][a] = 1 \/ \E c \in left[m]["mail"] : c[1] = a
    /\ task[m]["poll"] = "calling" =>
         called[m][Upstream] = 1 \/ \E c \in left[m]["poll"] : c[1] = Upstream

\* Whoever must be called, or must not, is in the table, or is not, until the
\* task has read it.
ReadInv ==
  \A m \in Msg :
    /\ task[m]["push"] = "spawned" =>
         /\ steady[m] \subseteq Subscribed(TopicOf[m])
         /\ parted[m] \cap Subscribed(TopicOf[m]) = {}
    /\ \A e \in parted[m] : called[m][e] = 0 /\ \A c \in left[m]["push"] : c[1] # e

AtMostOnce == \A m \in Msg : \A x \in Receiver : called[m][x] <= 1

\* The types of what Notify adds to the write side.
NotifyTypeOK ==
  /\ subs   \in [Topic -> SUBSET Row]
  /\ issued \subseteq Id
  /\ latest \in [Topic -> [Endpoint -> SUBSET Id]]
  /\ silent \in [Topic -> SUBSET Endpoint]
  /\ task   \in [Msg -> [Kind -> TaskState]]
  /\ left   \in [Msg -> [Kind -> SUBSET (Row \cup Mail \cup {Poll})]]
  /\ called \in [Msg -> [Receiver -> Nat]]
  /\ steady \in [Msg -> SUBSET Endpoint]
  /\ parted \in [Msg -> SUBSET Endpoint]

NotifyInv == NotifyTypeOK /\ RowInv /\ TaskInv /\ DutyInv /\ ReadInv /\ AtMostOnce

-----------------------------------------------------------------------------

\* What happens to a message's notifications is nothing to the write side.
THEOREM NotifyRefinesFanout == Spec => FanoutSpec
<1>1. Init => FanoutInit
  BY DEF Init
<1>2. [Next]_vars => [FanoutNext]_fanoutVars
  <2> SUFFICES ASSUME [Next]_vars PROVE FanoutNext \/ UNCHANGED fanoutVars
    OBVIOUS
  <2>1. CASE WriteSide
    BY <2>1 DEF WriteSide, FanoutNext, Handler, Manager
  <2>2. ASSUME NEW m \in Msg, FanOutAndNotify(m) PROVE FanoutNext
    BY <2>2 DEF FanOutAndNotify, FanoutNext, Handler
  <2>3. CASE ManagerSendAndPoll
    BY <2>3 DEF ManagerSendAndPoll, FanoutNext, Manager
  <2>4. CASE CrashAndForget
    BY <2>4 DEF CrashAndForget, FanoutNext
  <2>5. ASSUME NEW m \in Msg, NEW k \in Kind, Begin(m, k) PROVE UNCHANGED fanoutVars
    BY <2>5 DEF Begin
  <2>6. ASSUME NEW m \in Msg, NEW k \in Kind, NEW c, Call(m, k, c) PROVE UNCHANGED fanoutVars
    BY <2>6 DEF Call
  <2>7. ASSUME NEW t \in Topic, NEW e \in Endpoint, NEW i \in Id, Subscribe(t, e, i)
        PROVE  UNCHANGED fanoutVars
    BY <2>7 DEF Subscribe, Subscribes
  <2>8. ASSUME NEW i \in Id, Unsubscribe(i) PROVE UNCHANGED fanoutVars
    BY <2>8 DEF Unsubscribe
  <2>9. CASE UNCHANGED vars
    BY <2>9 DEF vars
  <2>10. QED
    BY <2>1, <2>2, <2>3, <2>4, <2>5, <2>6, <2>7, <2>8, <2>9 DEF Next
<1>3. QED
  BY <1>1, <1>2, PTL DEF Spec, FanoutSpec

-----------------------------------------------------------------------------
(* The invariant holds at first, and while nothing of it changes.          *)

\* The inductive invariant holds initially.
LEMMA NotifyInvInit == Init => NotifyInv
<1> SUFFICES ASSUME Init PROVE NotifyInv
  OBVIOUS
<1>1. NotifyTypeOK
  BY DEF Init, NotifyTypeOK, TaskState
<1>2. RowInv
  BY DEF Init, RowInv
<1>3. TaskInv
  BY NotifyAssumption DEF Init, TaskInv, To, Kind, Receiver
<1>4. DutyInv
  BY DEF Init, DutyInv, Kind
<1>5. ReadInv /\ AtMostOnce
  BY DEF Init, ReadInv, AtMostOnce, Kind
<1>6. QED
  BY <1>1, <1>2, <1>3, <1>4, <1>5 DEF NotifyInv

\* A step that touches nothing of the tasks keeps their invariant.
LEMMA NotifyUnchanged ==
  ASSUME NotifyInv, UNCHANGED <<clientVars, taskVars, fanouts>>
  PROVE  NotifyInv'
<1> USE DEF clientVars, taskVars, NotifyInv
<1>1. NotifyTypeOK' /\ RowInv'
  BY DEF NotifyTypeOK, RowInv
<1>2. TaskInv' /\ DutyInv'
  BY DEF TaskInv, DutyInv
<1>3. ReadInv' /\ AtMostOnce'
  BY DEF ReadInv, AtMostOnce, Subscribed
<1>4. QED
  BY <1>1, <1>2, <1>3

-----------------------------------------------------------------------------
(* The table.                                                              *)

\* A browser that subscribes gets a new id.
LEMMA SubscribeStep ==
  ASSUME NotifyInv, NEW t \in Topic, NEW e \in Endpoint, NEW i \in Id, Subscribe(t, e, i)
  PROVE  NotifyInv'
<1> USE DEF NotifyInv
<1>1. /\ issued' = issued \cup {i}
      /\ latest' = [latest EXCEPT ![t][e] = {i}]
      /\ silent' = [silent EXCEPT ![t] = @ \ {e}]
      /\ parted' = [m \in Msg |-> IF m \in Unread(t) THEN parted[m] \ {e} ELSE parted[m]]
      /\ subs' = [subs EXCEPT ![t] = {x \in @ : x[1] # e} \cup {<<e, i>>}]
      /\ UNCHANGED <<fanouts, task, left, called, steady>>
  BY DEF Subscribe, Subscribes, fanoutVars
<1>2. NotifyTypeOK'
  BY <1>1 DEF NotifyTypeOK, Row
<1>3. RowInv'
  BY <1>1 DEF RowInv, NotifyTypeOK, Row
<1>4. TaskInv' /\ DutyInv' /\ AtMostOnce'
  BY <1>1 DEF TaskInv, DutyInv, AtMostOnce
<1>5. ReadInv'
  <2>1. \A u \in Topic : Subscribed(u)' = IF u = t THEN Subscribed(u) \cup {e} ELSE Subscribed(u)
    <3>1. subs'[t] = {x \in subs[t] : x[1] # e} \cup {<<e, i>>}
      BY <1>1 DEF NotifyTypeOK
    <3>2. Subscribed(t)' = Subscribed(t) \cup {e}
      <4>1. <<e, i>>[1] = e
        OBVIOUS
      <4>2. Subscribed(t)' \subseteq Subscribed(t) \cup {e}
        BY <3>1, <4>1 DEF Subscribed
      <4>3. ASSUME NEW x \in subs[t] PROVE x[1] \in Subscribed(t)'
        BY <3>1, <4>1 DEF Subscribed
      <4>4. e \in Subscribed(t)'
        BY <3>1, <4>1 DEF Subscribed
      <4>5. QED
        BY <4>2, <4>3, <4>4 DEF Subscribed
    <3>3. ASSUME NEW u \in Topic, u # t PROVE Subscribed(u)' = Subscribed(u)
      BY <1>1, <3>3 DEF Subscribed, NotifyTypeOK
    <3>4. QED
      BY <3>2, <3>3
  <2>2. \A m \in Msg : TopicOf[m] \in Topic
    BY TopicOfAssumption
  <2>3. \A m \in Msg : parted'[m] \subseteq parted[m]
    BY <1>1
  <2>4. ASSUME NEW m \in Msg, task[m]["push"] = "spawned"
        PROVE  /\ steady[m] \subseteq Subscribed(TopicOf[m])'
               /\ parted'[m] \cap Subscribed(TopicOf[m])' = {}
    BY <1>1, <2>1, <2>2, <2>4 DEF ReadInv, Unread
  <2>5. QED
    BY <1>1, <2>3, <2>4 DEF ReadInv
<1>6. QED
  BY <1>2, <1>3, <1>4, <1>5

\* A browser that leaves takes its row with it.
LEMMA UnsubscribeStep ==
  ASSUME NotifyInv, NEW i \in Id, Unsubscribe(i)
  PROVE  NotifyInv'
<1> USE DEF NotifyInv
<1>1. /\ subs' = [t \in Topic |-> {x \in subs[t] : x[2] # i}]
      /\ silent' = [t \in Topic |-> silent[t] \cup {e \in Endpoint : i \in latest[t][e]}]
      /\ steady' = [m \in Msg |->
           IF m \in Unread(TopicOf[m]) THEN steady[m] \ {e \in Endpoint : <<e, i>> \in subs[TopicOf[m]]}
           ELSE steady[m]]
      /\ UNCHANGED <<fanouts, issued, latest, task, left, called, parted>>
  BY DEF Unsubscribe, fanoutVars
<1>2. NotifyTypeOK'
  BY <1>1 DEF NotifyTypeOK
<1>3. RowInv'
  BY <1>1 DEF RowInv
<1>4. TaskInv' /\ AtMostOnce'
  BY <1>1 DEF TaskInv, AtMostOnce
<1>5. \A m \in Msg : steady'[m] \subseteq steady[m]
  BY <1>1
<1>6. DutyInv'
  BY <1>1, <1>5 DEF DutyInv
<1>7. ReadInv'
  <2>1. ASSUME NEW m \in Msg, task[m]["push"] = "spawned"
        PROVE  /\ steady'[m] \subseteq Subscribed(TopicOf[m])'
               /\ parted[m] \cap Subscribed(TopicOf[m])' = {}
    <3> DEFINE t == TopicOf[m]
    <3>1. t \in Topic
      BY TopicOfAssumption
    <3>2. Subscribed(t)' \subseteq Subscribed(t)
      BY <1>1, <3>1 DEF Subscribed
    <3>3. m \in Unread(t)
      BY <2>1 DEF Unread
    <3>4. ASSUME NEW e \in steady'[m] PROVE e \in Subscribed(t)'
      <4>1. e \in Endpoint /\ e \in steady[m] /\ <<e, i>> \notin subs[t]
        BY <1>1, <3>3, <3>4 DEF NotifyTypeOK
      <4>2. PICK x \in subs[t] : x[1] = e
        BY <2>1, <4>1 DEF ReadInv, Subscribed
      <4>3. x \in Endpoint \X Id
        BY <3>1, <4>2 DEF NotifyTypeOK, Row
      <4>4. x[2] # i
        BY <4>1, <4>2, <4>3
      <4>5. QED
        BY <1>1, <3>1, <4>2, <4>4 DEF Subscribed
    <3>5. QED
      BY <2>1, <3>2, <3>4 DEF ReadInv
  <2>2. QED
    BY <1>1, <2>1 DEF ReadInv
<1>8. QED
  BY <1>2, <1>3, <1>4, <1>6, <1>7

-----------------------------------------------------------------------------
(* The tasks.                                                              *)

\* No two kinds of task share a receiver.
LEMMA ReceiversApart ==
  /\ \A j, k \in Kind : j # k => To[j] \cap To[k] = {}
  /\ \A k \in Kind : To[k] \subseteq Receiver
<1>1. To["poll"] = {Upstream} /\ To["mail"] = Mailbox /\ To["push"] = Endpoint
  BY DEF To
<1>2. QED
  BY <1>1, NotifyAssumption DEF Kind, Receiver

\* A fan-out, the first of its message.
LEMMA SpawnStep ==
  ASSUME NotifyInv, NEW m \in Msg, NEW K \in SUBSET Kind, Spawn(m, K),
         fanouts[m] = 0, fanouts \in [Msg -> Nat], fanouts' = [fanouts EXCEPT ![m] = @ + 1]
  PROVE  NotifyInv'
<1> USE DEF NotifyInv
<1>1. /\ task' = [task EXCEPT ![m] =
           [k \in Kind |-> IF k \in K \cap Configured THEN "spawned" ELSE @[k]]]
      /\ steady' = [steady EXCEPT ![m] = Subscribed(TopicOf[m])]
      /\ parted' = [parted EXCEPT ![m] = silent[TopicOf[m]]]
      /\ UNCHANGED <<subs, issued, latest, silent, left, called>>
  BY DEF Spawn, clientVars
<1>2. TopicOf[m] \in Topic /\ "push" \in Kind
  BY TopicOfAssumption DEF Kind
<1>3. \A k \in Kind : task[m][k] = "none" /\ left[m][k] = {} /\ \A x \in To[k] : called[m][x] = 0
  BY DEF TaskInv
<1>4. /\ \A k \in Kind : task'[m][k] \in {"none", "spawned"}
      /\ \A o \in Msg \ {m} : task'[o] = task[o] /\ steady'[o] = steady[o] /\ parted'[o] = parted[o]
      /\ steady'[m] = Subscribed(TopicOf[m]) /\ parted'[m] = silent[TopicOf[m]]
      /\ fanouts'[m] # 0
      /\ \A o \in Msg \ {m} : fanouts'[o] = fanouts[o]
  BY <1>1, <1>3 DEF NotifyTypeOK
<1>5. Subscribed(TopicOf[m]) \subseteq Endpoint
  BY <1>2 DEF Subscribed, NotifyTypeOK, Row
<1>6. NotifyTypeOK'
  <2>1. task' \in [Msg -> [Kind -> TaskState]]
    BY <1>1, <1>3 DEF NotifyTypeOK, TaskState
  <2>2. steady' \in [Msg -> SUBSET Endpoint] /\ parted' \in [Msg -> SUBSET Endpoint]
    BY <1>1, <1>2, <1>5 DEF NotifyTypeOK
  <2>3. QED
    BY <1>1, <2>1, <2>2 DEF NotifyTypeOK
<1>7. RowInv' /\ AtMostOnce'
  BY <1>1 DEF RowInv, AtMostOnce
<1>8. TaskInv'
  BY <1>1, <1>3, <1>4 DEF TaskInv
<1>9. DutyInv'
  BY <1>1, <1>4 DEF DutyInv, Kind
<1>10. ReadInv'
  <2>1. silent[TopicOf[m]] \cap Subscribed(TopicOf[m]) = {}
    <3>1. ASSUME NEW x \in subs[TopicOf[m]] PROVE x[1] \notin silent[TopicOf[m]]
      <4>1. x \in Endpoint \X Id
        BY <1>2, <3>1 DEF NotifyTypeOK, Row
      <4>2. x = <<x[1], x[2]>> /\ x[1] \in Endpoint /\ x[2] \in Id
        BY <4>1
      <4>3. QED
        BY <1>2, <3>1, <4>2 DEF RowInv
    <3>2. QED
      BY <3>1 DEF Subscribed
  <2>2. \A o \in Msg : Subscribed(TopicOf[o])' = Subscribed(TopicOf[o])
    BY <1>1 DEF Subscribed
  <2>3. \A e \in parted'[m] : called[m][e] = 0
    BY <1>2, <1>3, <1>4 DEF NotifyTypeOK, To
  <2>4. QED
    BY <1>1, <1>2, <1>3, <1>4, <2>1, <2>2, <2>3 DEF ReadInv
<1>11. QED
  BY <1>6, <1>7, <1>8, <1>9, <1>10

\* A task reads whom it has to call.
LEMMA BeginStep ==
  ASSUME NotifyInv, NEW m \in Msg, NEW k \in Kind, Begin(m, k)
  PROVE  NotifyInv'
<1> USE DEF NotifyInv
<1>1. UNCHANGED <<subs, issued, latest, silent, called, steady, parted, fanouts>>
  BY DEF Begin, fanoutVars, clientVars
<1>2. task[m][k] = "spawned" /\ left[m][k] = {} /\ \A x \in To[k] : called[m][x] = 0
  BY DEF Begin, TaskInv
<1>3. fanouts[m] # 0
  BY <1>2 DEF TaskInv
<1>4. CASE task' = [task EXCEPT ![m][k] = "failed"] /\ UNCHANGED left
  <2>1. NotifyTypeOK' /\ RowInv' /\ AtMostOnce'
    BY <1>1, <1>4 DEF NotifyTypeOK, RowInv, AtMostOnce, TaskState
  <2>2. \A o \in Msg, j \in Kind :
          task'[o][j] = IF o = m /\ j = k THEN "failed" ELSE task[o][j]
    BY <1>4 DEF NotifyTypeOK
  <2>3. TaskInv'
    BY <1>1, <1>2, <1>3, <1>4, <2>2 DEF TaskInv
  <2>4. DutyInv'
    BY <1>1, <1>4, <2>2 DEF DutyInv, Kind
  <2>5. ReadInv'
    BY <1>1, <1>4, <2>2 DEF ReadInv, Subscribed, Kind
  <2>6. QED
    BY <2>1, <2>3, <2>4, <2>5
<1>5. CASE /\ task' = [task EXCEPT ![m][k] = "calling"]
           /\ left' = [left EXCEPT ![m][k] = Calls(m)[k]]
  <2> DEFINE list == Calls(m)[k]
  <2>1. TopicOf[m] \in Topic
    BY TopicOfAssumption
  <2>2. subs[TopicOf[m]] \in SUBSET (Endpoint \X Id)
    BY <2>1 DEF NotifyTypeOK, Row
  <2>3. /\ k = "poll" => list = {Poll} /\ To[k] = {Upstream}
        /\ k = "mail" => list = Mail /\ To[k] = Mailbox
        /\ k = "push" => list = subs[TopicOf[m]] /\ To[k] = Endpoint
    BY DEF Calls, To
  <2>4. /\ list \in SUBSET (Row \cup Mail \cup {Poll})
        /\ \A c \in list : c[1] \in To[k]
        /\ \A c, d \in list : d[1] = c[1] => d = c
    <3>1. CASE k = "poll"
      BY <2>3, <3>1 DEF Poll
    <3>2. CASE k = "mail"
      BY <2>3, <3>2 DEF Mail
    <3>3. CASE k = "push"
      <4>1. ASSUME NEW c \in list, NEW d \in list, d[1] = c[1] PROVE d = c
        <5>1. /\ c = <<c[1], c[2]>> /\ c[1] \in Endpoint /\ c[2] \in Id
              /\ d = <<d[1], d[2]>> /\ d[1] \in Endpoint /\ d[2] \in Id
          BY <2>2, <2>3, <3>3, <4>1
        <5>2. latest[TopicOf[m]][c[1]] = {c[2]} /\ latest[TopicOf[m]][c[1]] = {d[2]}
          BY <2>1, <2>3, <3>3, <4>1, <5>1 DEF RowInv
        <5>3. c[2] = d[2]
          BY <5>2
        <5>4. QED
          BY <4>1, <5>1, <5>3
      <4>2. QED
        BY <2>2, <2>3, <3>3, <4>1 DEF Row
    <3>4. QED
      BY <3>1, <3>2, <3>3 DEF Kind
  <2> HIDE DEF list
  <2>5. left' = [left EXCEPT ![m][k] = list]
    BY <1>5 DEF list
  <2>6. NotifyTypeOK' /\ RowInv' /\ AtMostOnce'
    BY <1>1, <1>5, <2>4, <2>5 DEF NotifyTypeOK, RowInv, AtMostOnce, TaskState
  <2>7. \A o \in Msg, j \in Kind :
          /\ task'[o][j] = IF o = m /\ j = k THEN "calling" ELSE task[o][j]
          /\ left'[o][j] = IF o = m /\ j = k THEN list ELSE left[o][j]
    BY <1>5, <2>5 DEF NotifyTypeOK
  <2>8. TaskInv'
    <3>1. ASSUME NEW o \in Msg, NEW j \in Kind, ~(o = m /\ j = k)
          PROVE  task'[o][j] = task[o][j] /\ left'[o][j] = left[o][j]
      BY <2>7, <3>1
    <3>2. task'[m][k] = "calling" /\ left'[m][k] = list
      BY <2>7
    <3>3. QED
      BY <1>1, <1>2, <1>3, <2>4, <3>1, <3>2 DEF TaskInv
  <2>9. DutyInv'
    <3>1. CASE k = "poll"
      <4>1. Poll \in list /\ Poll[1] = Upstream
        BY <2>3, <3>1 DEF Poll
      <4>2. \A o \in Msg, j \in {"mail", "push"} : task'[o][j] = task[o][j] /\ left'[o][j] = left[o][j]
        BY <2>7, <3>1 DEF Kind
      <4>3. \A o \in Msg \ {m} :
              task'[o]["poll"] = task[o]["poll"] /\ left'[o]["poll"] = left[o]["poll"]
        BY <2>7, <3>1 DEF Kind
      <4>4. left'[m]["poll"] = list
        BY <2>7, <3>1 DEF Kind
      <4>5. QED
        BY <1>1, <4>1, <4>2, <4>3, <4>4 DEF DutyInv
    <3>2. CASE k = "mail"
      <4>1. \A a \in Mailbox : \E c \in list : c[1] = a
        <5>1. \A a \in Mailbox : <<a, a>> \in list /\ <<a, a>>[1] = a
          BY <2>3, <3>2 DEF Mail
        <5>2. QED
          BY <5>1
      <4>2. \A o \in Msg, j \in {"poll", "push"} : task'[o][j] = task[o][j] /\ left'[o][j] = left[o][j]
        BY <2>7, <3>2 DEF Kind
      <4>3. \A o \in Msg \ {m} :
              task'[o]["mail"] = task[o]["mail"] /\ left'[o]["mail"] = left[o]["mail"]
        BY <2>7, <3>2 DEF Kind
      <4>4. left'[m]["mail"] = list
        BY <2>7, <3>2 DEF Kind
      <4>5. QED
        BY <1>1, <4>1, <4>2, <4>3, <4>4 DEF DutyInv
    <3>3. CASE k = "push"
      <4>1. \A e \in steady[m] : \E c \in list : c[1] = e
        BY <1>2, <2>3, <3>3 DEF ReadInv, Subscribed
      <4>2. QED
        BY <1>1, <2>7, <3>3, <4>1 DEF DutyInv, Kind
    <3>4. QED
      BY <3>1, <3>2, <3>3 DEF Kind
  <2>10. ReadInv'
    <3>1. ASSUME k = "push", NEW e \in parted[m], NEW c \in list PROVE c[1] # e
      BY <1>2, <2>3, <3>1 DEF ReadInv, Subscribed
    <3>2. \A o \in Msg : Subscribed(TopicOf[o])' = Subscribed(TopicOf[o])
      BY <1>1 DEF Subscribed
    <3>3. QED
      BY <1>1, <2>7, <3>1, <3>2 DEF ReadInv, Kind
  <2>11. QED
    BY <2>6, <2>8, <2>9, <2>10
<1>6. QED
  BY <1>4, <1>5 DEF Begin

\* A task makes a call.
LEMMA CallStep ==
  ASSUME NotifyInv, NEW m \in Msg, NEW k \in Kind, NEW c, Call(m, k, c)
  PROVE  NotifyInv'
<1> USE DEF NotifyInv
<1>1. /\ UNCHANGED <<subs, issued, latest, silent, task, steady, parted, fanouts>>
      /\ called' = [called EXCEPT ![m][c[1]] = @ + 1]
      /\ left' = [left EXCEPT ![m][k] = @ \ {c}]
      /\ task[m][k] = "calling" /\ c \in left[m][k]
  BY DEF Call, fanoutVars, clientVars
<1>2. /\ c[1] \in To[k] /\ c[1] \in Receiver /\ called[m][c[1]] = 0
      /\ \A d \in left[m][k] : d[1] = c[1] => d = c
  BY <1>1, ReceiversApart DEF TaskInv
<1>3. \A j \in Kind : j # k => c[1] \notin To[j]
  BY <1>2, ReceiversApart
<1>4. \A o \in Msg, j \in Kind :
        left'[o][j] = IF o = m /\ j = k THEN left[o][j] \ {c} ELSE left[o][j]
  BY <1>1 DEF NotifyTypeOK
<1>5. \A o \in Msg, x \in Receiver :
        called'[o][x] = IF o = m /\ x = c[1] THEN 1 ELSE called[o][x]
  BY <1>1, <1>2 DEF NotifyTypeOK
<1>6. NotifyTypeOK'
  BY <1>1, <1>2 DEF NotifyTypeOK
<1>7. RowInv'
  BY <1>1 DEF RowInv
<1>8. AtMostOnce'
  BY <1>5 DEF AtMostOnce
<1>9. TaskInv'
  <2>1. ASSUME NEW o \in Msg, NEW j \in Kind, ~(o = m /\ j = k)
        PROVE  left'[o][j] = left[o][j] /\ \A x \in To[j] : called'[o][x] = called[o][x]
    <3>1. left'[o][j] = left[o][j]
      BY <1>4, <2>1
    <3>2. ASSUME NEW x \in To[j] PROVE called'[o][x] = called[o][x]
      <4>1. x \in Receiver /\ ~(o = m /\ x = c[1])
        BY <1>3, <2>1, ReceiversApart
      <4>2. QED
        BY <1>5, <4>1
    <3>3. QED
      BY <3>1, <3>2
  <2>2. left'[m][k] = left[m][k] \ {c}
    BY <1>4
  <2>3. \A d \in left'[m][k] : called'[m][d[1]] = 0 /\ d[1] \in To[k]
    BY <1>2, <1>5, <2>2, ReceiversApart DEF TaskInv
  <2>4. QED
    BY <1>1, <2>1, <2>2, <2>3 DEF TaskInv
<1>10. DutyInv'
  <2>1. ASSUME NEW o \in Msg, NEW j \in Kind, NEW x \in Receiver,
               called[o][x] = 1 \/ \E d \in left[o][j] : d[1] = x
        PROVE  called'[o][x] = 1 \/ \E d \in left'[o][j] : d[1] = x
    <3>1. CASE called[o][x] = 1
      BY <1>5, <3>1
    <3>2. ASSUME NEW d \in left[o][j], d[1] = x
          PROVE  called'[o][x] = 1 \/ \E b \in left'[o][j] : b[1] = x
      BY <1>4, <1>5, <3>2
    <3>3. QED
      BY <2>1, <3>1, <3>2
  <2>2. Upstream \in Receiver /\ Mailbox \subseteq Receiver /\ Endpoint \subseteq Receiver
    BY DEF Receiver
  <2>3. \A o \in Msg : steady[o] \subseteq Endpoint
    BY DEF NotifyTypeOK
  <2>4. QED
    BY <1>1, <2>1, <2>2, <2>3 DEF DutyInv, Kind
<1>11. ReadInv'
  <2>1. ASSUME NEW o \in Msg, NEW e \in parted[o]
        PROVE  called'[o][e] = 0 /\ \A d \in left'[o]["push"] : d[1] # e
    <3>1. called[o][e] = 0 /\ \A d \in left[o]["push"] : d[1] # e
      BY <2>1 DEF ReadInv
    <3>2. e \in Endpoint /\ e \in Receiver /\ "push" \in Kind
      BY <2>1 DEF NotifyTypeOK, Receiver, Kind
    <3>3. left'[o]["push"] \subseteq left[o]["push"]
      BY <1>4, <3>2
    <3>4. ~(o = m /\ e = c[1])
      <4>1. CASE k = "push"
        BY <1>1, <3>1, <4>1
      <4>2. CASE k # "push"
        BY <1>3, <3>2, <4>2 DEF To
      <4>3. QED
        BY <4>1, <4>2
    <3>5. QED
      BY <1>5, <3>1, <3>2, <3>3, <3>4
  <2>2. \A o \in Msg : Subscribed(TopicOf[o])' = Subscribed(TopicOf[o])
    BY <1>1 DEF Subscribed
  <2>3. QED
    BY <1>1, <2>1, <2>2 DEF ReadInv
<1>12. QED
  BY <1>6, <1>7, <1>8, <1>9, <1>10, <1>11

\* A crash takes the tasks that had something left to do.
LEMMA CrashStep ==
  ASSUME NotifyInv, CrashAndForget
  PROVE  NotifyInv'
<1> USE DEF NotifyInv
<1>1. /\ task' = [m \in Msg |-> [k \in Kind |->
           IF task[m][k] = "spawned" \/ left[m][k] # {} THEN "lost" ELSE task[m][k]]]
      /\ left' = [m \in Msg |-> [k \in Kind |-> {}]]
      /\ UNCHANGED <<subs, issued, latest, silent, called, steady, parted, fanouts>>
  BY DEF CrashAndForget, Crash, clientVars
<1>2. NotifyTypeOK' /\ RowInv' /\ AtMostOnce'
  BY <1>1 DEF NotifyTypeOK, RowInv, AtMostOnce, TaskState
<1>3. \A m \in Msg, k \in Kind :
        /\ task'[m][k] = "lost" \/ (task'[m][k] = task[m][k] /\ left[m][k] = {}
                                      /\ task[m][k] # "spawned")
        /\ left'[m][k] = {}
  BY <1>1
<1>4. \A m \in Msg, k \in Kind : task'[m][k] = "lost" => task[m][k] # "none"
  <2>1. \A m \in Msg, k \in Kind : left[m][k] # {} => task[m][k] = "calling"
    BY DEF TaskInv
  <2>2. QED
    BY <1>1, <2>1
<1>5. TaskInv'
  BY <1>1, <1>3, <1>4 DEF TaskInv
<1>6. DutyInv'
  BY <1>1, <1>3 DEF DutyInv, Kind
<1>7. ReadInv'
  BY <1>1, <1>3 DEF ReadInv, Kind
<1>8. QED
  BY <1>2, <1>5, <1>6, <1>7

-----------------------------------------------------------------------------

\* The inductive invariant holds; that nothing is spawned twice for a message
\* is what the write side promises of its fan-outs.
THEOREM NotifyInvariant == Spec => []NotifyInv
<1>1. NotifyInv /\ FanoutInv /\ [Next]_vars => NotifyInv'
  <2> SUFFICES ASSUME NotifyInv, FanoutInv, [Next]_vars PROVE NotifyInv'
    OBVIOUS
  <2>1. fanouts \in [Msg -> Nat] /\ cur \in Msg \cup {NoMsg}
    BY DEF FanoutInv, FanoutTypeOK
  <2>2. CASE WriteSide /\ UNCHANGED <<clientVars, taskVars>>
    <3>1. fanouts' = fanouts
      BY <2>2 DEF WriteSide, Stamp, Persist, Refuse, ParseDelay, ManagerMark,
         ManagerMarkFails, ManagerTick, ManagerExpire, ClockTick, Restart
    <3>2. QED
      BY <2>2, <3>1, NotifyUnchanged
  <2>3. ASSUME NEW m \in Msg, FanOutAndNotify(m) PROVE NotifyInv'
    <3>1. /\ fanouts[m] = 0 /\ fanouts' = [fanouts EXCEPT ![m] = @ + 1]
      BY <2>3 DEF FanOutAndNotify, FanOut, Publish, FanoutInv, HandlerInv
    <3>2. PICK K \in SUBSET Kind : Spawn(m, K)
      <4>1. Kind \in SUBSET Kind /\ {"poll"} \in SUBSET Kind
        BY DEF Kind
      <4>2. QED
        BY <2>3, <4>1 DEF FanOutAndNotify
    <3>3. QED
      BY <2>1, <3>1, <3>2, SpawnStep
  <2>4. CASE ManagerSendAndPoll
    <3>1. cur \in Msg /\ fanouts[cur] = 0 /\ fanouts' = [fanouts EXCEPT ![cur] = @ + 1]
      BY <2>4 DEF ManagerSendAndPoll, ManagerSend, Publish, FanoutInv, FanoutTypeOK, ManagerInv
    <3>2. Spawn(cur, {"poll"}) /\ {"poll"} \in SUBSET Kind
      BY <2>4 DEF ManagerSendAndPoll, Kind
    <3>3. QED
      BY <2>1, <3>1, <3>2, SpawnStep
  <2>5. CASE CrashAndForget
    BY <2>5, CrashStep
  <2>6. ASSUME NEW m \in Msg, NEW k \in Kind, Begin(m, k) PROVE NotifyInv'
    BY <2>6, BeginStep
  <2>7. ASSUME NEW m \in Msg, NEW k \in Kind, NEW c, Call(m, k, c) PROVE NotifyInv'
    BY <2>7, CallStep
  <2>8. ASSUME NEW t \in Topic, NEW e \in Endpoint, NEW i \in Id, Subscribe(t, e, i)
        PROVE  NotifyInv'
    BY <2>8, SubscribeStep
  <2>9. ASSUME NEW i \in Id, Unsubscribe(i) PROVE NotifyInv'
    BY <2>9, UnsubscribeStep
  <2>10. CASE UNCHANGED vars
    BY <2>10, NotifyUnchanged DEF vars, fanoutVars
  <2>11. QED
    BY <2>2, <2>3, <2>4, <2>5, <2>6, <2>7, <2>8, <2>9, <2>10 DEF Next
<1>2. QED
  BY <1>1, NotifyInvInit, NotifyRefinesFanout, FanoutInvariant, PTL DEF Spec

\* Every variable keeps its type.
THEOREM NotifyTypeCorrect == Spec => []TypeOK
<1>1. FanoutInv /\ NotifyInv => TypeOK
  BY DEF FanoutInv, NotifyInv, NotifyTypeOK, TypeOK
<1>2. QED
  BY <1>1, NotifyInvariant, NotifyRefinesFanout, FanoutInvariant, PTL

\* No receiver is called twice for a message, and who must be called is.
THEOREM CalledOnceHolds == Spec => []CalledOnce
<1>1. NotifyInv => CalledOnce
  BY DEF NotifyInv, AtMostOnce, DutyInv, CalledOnce, Finished
<1>2. QED
  BY <1>1, NotifyInvariant, PTL

\* Who has unsubscribed is not called for what is published afterwards.
THEOREM UnsubscribedIsSilentHolds == Spec => []UnsubscribedIsSilent
<1>1. NotifyInv => UnsubscribedIsSilent
  BY DEF NotifyInv, ReadInv, UnsubscribedIsSilent
<1>2. QED
  BY <1>1, NotifyInvariant, PTL

=============================================================================
