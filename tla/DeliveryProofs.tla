--------------------------- MODULE DeliveryProofs -----------------------------
(***************************************************************************)
(* Proofs about the read side, for any clients, wishes, messages, topics,  *)
(* capacities and crashes.                                                 *)
(***************************************************************************)
EXTENDS Delivery, FanoutProofs, SequenceTheorems

\* What a message is once it may be shown to a client.
Public(m) == time[m] <= now /\ row[m] \in {"published", "deleted"} /\ m \notin unfired

\* A channel holds messages of its topic that were sent, and no receiver or
\* reader is ahead of it.
ChannelInv ==
  /\ \A t \in Topic : \A i \in 1 .. Len(chan[t]) :
       TopicOf[chan[t][i]] = t /\ fanouts[chan[t][i]] > 0
  /\ \A c \in Client : \A t \in Topic :
       cursor[c][t] <= End(t) /\ readAt[c][t] <= End(t) /\ joinedAt[c][t] <= End(t)

\* How far the handler of a connection is.
ConnInv ==
  \A c \in Client :
    /\ todo[c] \subseteq Wants[c]
    /\ at[c] # NoTopic => at[c] \in Wants[c] \ todo[c]
    /\ conn[c] \notin {"opening", "polling"} => todo[c] = {} /\ at[c] = NoTopic
    /\ conn[c] = "off" => cached[c] = {}
    /\ since[c].kind = "id" => since[c].anchor \in got[c]

\* Between the two statements of since_id: what the first one found is not after
\* what the client is owed.
SeekInv ==
  \A c \in Client : sought[c] # NoTopic =>
    /\ conn[c] \in {"opening", "polling"} /\ since[c].kind = "id"
    /\ sought[c] \in todo[c] /\ at[c] = NoTopic
    /\ from[c] <= floor[c][sought[c]]

\* What has been sent since a receiver was created is ahead of it until the
\* stream starts, and then ahead, received or lost to lag.
LiveInv ==
  \A c \in Client : \A t \in Wants[c] \ (todo[c] \cup {at[c]}) :
    /\ conn[c] = "opening" => cursor[c][t] = joinedAt[c][t]
    /\ conn[c] = "live" =>
         Ahead(t, joinedAt[c][t]) \subseteq got[c] \cup skipped[c] \cup Ahead(t, cursor[c][t])

\* From the moment a topic's cache was read, what is published there and was
\* asked for has been read, is about to be sent, or was sent since.
ReplayInv ==
  \A c \in Client : conn[c] # "off" /\ since[c].kind # "none" =>
    \A t \in Wants[c] \ todo[c] : \A m \in Msg :
      TopicOf[m] = t /\ row[m] = "published" /\ time[m] > floor[c][t] =>
        m \in got[c] \cup cached[c] \cup Ahead(t, readAt[c][t]) \/ AboutToBeSent(m)

DeliveryInv ==
  TypeOK /\ ChannelInv /\ ConnInv /\ SeekInv /\ ReceivedIsPublic /\ LiveInv /\ ReplayInv

-----------------------------------------------------------------------------
(* Positions on a channel.                                                 *)

\* What is sent is ahead of everybody.
LEMMA AfterAppend ==
  ASSUME NEW sent \in Seq(Msg), NEW m \in Msg, NEW p \in Nat, p <= Len(sent)
  PROVE  After(Append(sent, m), p) = After(sent, p) \cup {m}
<1> DEFINE new == Append(sent, m)
<1>1. /\ Len(new) = Len(sent) + 1 /\ new[Len(sent) + 1] = m
      /\ \A i \in 1 .. Len(sent) : new[i] = sent[i]
      /\ Len(sent) \in Nat
  OBVIOUS
<1> HIDE DEF new
<1>2. QED
  BY <1>1 DEF After, new

\* What is ahead of a reader is the next message and what is ahead of its next place.
LEMMA AfterNext ==
  ASSUME NEW sent \in Seq(Msg), NEW p \in Nat, p < Len(sent)
  PROVE  /\ sent[p + 1] \in Msg
         /\ After(sent, p) = {sent[p + 1]} \cup After(sent, p + 1)
<1>1. Len(sent) \in Nat /\ p + 1 \in 1 .. Len(sent)
  OBVIOUS
<1>2. sent[p + 1] \in Msg
  BY <1>1
<1>3. QED
  BY <1>1, <1>2 DEF After

\* Between two positions lies what is after the first, when the second is the end.
LEMMA BetweenEnd ==
  ASSUME NEW t \in Topic, NEW p \in Nat
  PROVE  Between(t, p, End(t)) = Ahead(t, p)
  BY DEF Between, Ahead, After, End

\* What lies on a channel after a receiver's position, as a queue of its own.
LEMMA QueueElements ==
  ASSUME NEW sent \in Seq(Msg), NEW p \in Nat, p <= Len(sent)
  PROVE  LET q == SubSeq(sent, p + 1, Len(sent))
         IN  /\ q \in Seq(Msg) /\ Len(q) = Len(sent) - p
             /\ \A i \in 1 .. Len(q) : q[i] = sent[p + i]
<1>1. Len(sent) \in Nat /\ \A i \in p + 1 .. Len(sent) : sent[i] \in Msg
  OBVIOUS
<1>2. QED
  BY <1>1, SubSeqProperties

\* A send goes to the end of the queues of its topic.
LEMMA QueueAppend ==
  ASSUME NEW sent \in Seq(Msg), NEW m \in Msg, NEW p \in Nat, p <= Len(sent)
  PROVE  SubSeq(Append(sent, m), p + 1, Len(Append(sent, m)))
           = Append(SubSeq(sent, p + 1, Len(sent)), m)
<1> DEFINE new == Append(sent, m)
           q   == SubSeq(sent, p + 1, Len(sent))
           r   == SubSeq(new, p + 1, Len(new))
<1>1. /\ new \in Seq(Msg) /\ Len(new) = Len(sent) + 1 /\ new[Len(sent) + 1] = m
      /\ \A i \in 1 .. Len(sent) : new[i] = sent[i]
      /\ Len(sent) \in Nat
  BY AppendProperties
<1>2. q \in Seq(Msg) /\ Len(q) = Len(sent) - p /\ \A i \in 1 .. Len(q) : q[i] = sent[p + i]
  BY QueueElements
<1>3. r \in Seq(Msg) /\ Len(r) = Len(sent) + 1 - p /\ \A i \in 1 .. Len(r) : r[i] = new[p + i]
  BY <1>1, QueueElements
<1> HIDE DEF new, q, r
<1>4. /\ Append(q, m) \in Seq(Msg) /\ Len(Append(q, m)) = Len(sent) - p + 1
      /\ \A i \in 1 .. Len(q) : Append(q, m)[i] = q[i]
      /\ Append(q, m)[Len(q) + 1] = m
  BY <1>2, AppendProperties
<1>5. ASSUME NEW i \in 1 .. Len(r) PROVE r[i] = Append(q, m)[i]
  <2>1. CASE i \in 1 .. Len(q)
    <3>1. p + i \in 1 .. Len(sent)
      BY <1>1, <1>2, <2>1
    <3>2. QED
      BY <1>1, <1>2, <1>3, <1>4, <2>1, <3>1
  <2>2. CASE i \notin 1 .. Len(q)
    <3>1. Len(sent) \in Nat /\ Len(q) = Len(sent) - p /\ Len(r) = Len(sent) + 1 - p
      BY <1>1, <1>2, <1>3
    <3>2. i = Len(q) + 1 /\ p + i = Len(sent) + 1
      BY <2>2, <3>1
    <3>3. QED
      BY <1>1, <1>3, <1>4, <3>2
  <2>3. QED
    BY <2>1, <2>2
<1>6. r = Append(q, m)
  <2>1. Len(r) = Len(Append(q, m))
    BY <1>1, <1>3, <1>4
  <2>2. QED
    BY <1>3, <1>4, <1>5, <2>1, SeqEqual
<1>7. QED
  BY <1>6 DEF r, q, new

\* A receiver takes the first of its queue.
LEMMA QueueTake ==
  ASSUME NEW sent \in Seq(Msg), NEW p \in Nat, p < Len(sent)
  PROVE  LET q == SubSeq(sent, p + 1, Len(sent))
         IN  /\ q # <<>> /\ Head(q) = sent[p + 1]
             /\ Tail(q) = SubSeq(sent, p + 1 + 1, Len(sent))
<1>1. p + 1 \in 1 .. Len(sent) /\ Len(sent) \in p + 1 .. Len(sent)
  OBVIOUS
<1> DEFINE q == SubSeq(sent, p + 1, Len(sent))
<1>2. Len(q) = Len(sent) - p
  BY QueueElements
<1>3. Head(q) = sent[p + 1] /\ Tail(q) = SubSeq(sent, p + 1 + 1, Len(sent))
  BY <1>1, HeadTailOfSubSeq
<1> HIDE DEF q
<1>4. q # <<>>
  BY <1>1, <1>2
<1>5. QED
  BY <1>3, <1>4 DEF q

\* What the channel retains is the end of a queue that is too long.
LEMMA QueueRetained ==
  ASSUME NEW sent \in Seq(Msg), NEW p \in Nat, NEW k \in Nat \ {0}, Len(sent) - p > k
  PROVE  LET q == SubSeq(sent, p + 1, Len(sent))
         IN  SubSeq(q, Len(q) - k + 1, Len(q))
               = SubSeq(sent, Len(sent) - k + 1, Len(sent))
<1> DEFINE q == SubSeq(sent, p + 1, Len(sent))
           n == Len(sent)
<1>1. n \in Nat /\ p < n /\ n - p > k
  OBVIOUS
<1>2. q \in Seq(Msg) /\ Len(q) = n - p /\ \A i \in 1 .. Len(q) : q[i] = sent[p + i]
  BY <1>1, QueueElements
<1>3. \A i \in 1 .. n : sent[i] \in Msg
  OBVIOUS
<1> DEFINE r == SubSeq(q, Len(q) - k + 1, Len(q))
           s == SubSeq(sent, n - k + 1, n)
<1> HIDE DEF n, q
<1>4. /\ r \in Seq(Msg) /\ Len(r) = k
      /\ \A i \in 1 .. k : r[i] = q[n - p - k + i]
  <2> DEFINE lo == n - p - k + 1
             hi == n - p
  <2>1. \A i \in lo .. hi : q[i] \in Msg
    BY <1>1, <1>2, <1>3
  <2>2. r = SubSeq(q, lo, hi)
    BY <1>2
  <2>3. /\ lo \in Int /\ hi \in Int /\ lo <= hi /\ hi - lo + 1 = k
        /\ \A i \in 1 .. k : lo + i - 1 = n - p - k + i
    BY <1>1
  <2> HIDE DEF lo, hi, r
  <2>4. /\ r \in Seq(Msg) /\ Len(r) = hi - lo + 1
        /\ \A i \in 1 .. hi - lo + 1 : r[i] = q[lo + i - 1]
    BY <2>1, <2>2, <2>3, SubSeqProperties
  <2>5. QED
    BY <2>3, <2>4
<1>5. /\ s \in Seq(Msg) /\ Len(s) = k
      /\ \A i \in 1 .. k : s[i] = sent[n - k + i]
  <2>1. \A i \in n - k + 1 .. n : sent[i] \in Msg
    BY <1>1, <1>3
  <2>2. QED
    BY <1>1, <2>1, SubSeqProperties
<1> HIDE DEF r, s
<1>6. ASSUME NEW i \in 1 .. k PROVE r[i] = s[i]
  <2>1. n - p - k + i \in 1 .. Len(q) /\ p + (n - p - k + i) = n - k + i
    BY <1>1, <1>2 DEF n
  <2>2. q[n - p - k + i] = sent[n - k + i]
    BY <1>2, <2>1
  <2>3. QED
    BY <1>4, <1>5, <2>2
<1>7. r = s
  BY <1>4, <1>5, <1>6, SeqEqual
<1>8. QED
  BY <1>7 DEF r, s, q, n

-----------------------------------------------------------------------------
(* What the write side does to what clients have seen.                     *)

\* The read side leaves the write side as it is.
THEOREM DeliveryRefinesFanout == Spec => FanoutSpec
<1>1. Init => FanoutInit
  BY DEF Init
<1>2. [Next]_vars => [FanoutNext]_fanoutVars
  <2> SUFFICES ASSUME [Next]_vars PROVE FanoutNext \/ UNCHANGED fanoutVars
    OBVIOUS
  <2>1. CASE ServerStep
    BY <2>1 DEF ServerStep, FanoutNext
  <2>2. ASSUME NEW c \in Client, ClientStep(c) PROVE UNCHANGED fanoutVars
    BY <2>2 DEF ClientStep, Connect, SeekAnchor, ResolveSince, Recv, Lag, Attach, Replay,
                AnswerPoll, Disconnect
  <2>3. CASE UNCHANGED vars
    BY <2>3 DEF vars
  <2>4. QED
    BY <2>1, <2>2, <2>3 DEF Next
<1>3. QED
  BY <1>1, <1>2, PTL DEF Spec, FanoutSpec

\* What may be shown once may be shown for ever.
LEMMA PublicForever ==
  ASSUME FanoutInv, [FanoutNext]_fanoutVars, NEW m \in Msg, Public(m)
  PROVE  Public(m)'
<1> USE DEF FanoutInv, FanoutTypeOK, StoreTypeOK, RowState, Public, storeVars,
            handlerVars, managerVars, processVars
<1>1. ASSUME NEW o \in Msg, Stamp(o) PROVE Public(m)'
  BY <1>1 DEF Stamp, HandlerInv
<1>2. ASSUME NEW o \in Msg, NEW h \in Header, ParseDelay(o, h) PROVE Public(m)'
  <2>1. o # m
    BY <1>2 DEF ParseDelay, HandlerInv
  <2>2. time' = [time EXCEPT ![o] = time'[o]]
    BY <1>2, DelayedTime
  <2>3. time'[m] = time[m]
    BY <2>1, <2>2
  <2>4. UNCHANGED <<row, unfired, now>>
    BY <1>2 DEF ParseDelay
  <2>5. QED
    BY <2>3, <2>4
<1>3. ASSUME NEW o \in Msg, Persist(o) PROVE Public(m)'
  BY <1>3 DEF Persist, Insert, InsertDelayed
<1>4. ASSUME NEW o \in Msg, Refuse(o) \/ FanOut(o) \/ ManagerMarkFails(o)
      PROVE  Public(m)'
  BY <1>4 DEF Refuse, FanOut, ManagerMarkFails
<1>5. ASSUME NEW o \in Msg, ManagerMark(o) PROVE Public(m)'
  BY <1>5 DEF ManagerMark, MarkPublished
<1>6. CASE ManagerExpire
  BY <1>6 DEF ManagerExpire, DeleteExpired, Expired
<1>7. CASE ManagerTick \/ ManagerSend \/ ClockTick \/ Crash \/ Restart
           \/ UNCHANGED fanoutVars
  BY <1>7 DEF ManagerTick, ManagerSend, ClockTick, Crash, Restart, fanoutVars
<1>8. QED
  BY <1>1, <1>2, <1>3, <1>4, <1>5, <1>6, <1>7 DEF FanoutNext, Handler, Manager

\* Nothing counts as a send but a send.
LEMMA SentStep ==
  ASSUME FanoutInv, [FanoutNext]_fanoutVars
  PROVE  (\E m \in Msg : Publish(m)) \/ UNCHANGED fanouts
  BY DEF FanoutNext, Handler, Manager, Stamp, ParseDelay, Persist, Refuse, FanOut,
         ManagerTick, ManagerMark, ManagerMarkFails, ManagerSend, ManagerExpire,
         ClockTick, Crash, Restart, fanoutVars, FanoutInv, FanoutTypeOK

\* Sends are counted and not forgotten.
LEMMA SentForever ==
  ASSUME FanoutInv, [FanoutNext]_fanoutVars, NEW m \in Msg, fanouts[m] > 0
  PROVE  fanouts'[m] > 0
<1>1. fanouts \in [Msg -> Nat]
  BY DEF FanoutInv, FanoutTypeOK
<1>2. ASSUME NEW o \in Msg, Publish(o) PROVE fanouts'[m] > 0
  BY <1>1, <1>2 DEF Publish
<1>3. CASE UNCHANGED fanouts
  BY <1>3
<1>4. QED
  BY <1>2, <1>3, SentStep

\* A step of the write side in which the process lives on.
LivingStep ==
  \/ \E m \in Msg : Handler(m)
  \/ Manager \/ ClockTick \/ Restart \/ UNCHANGED fanoutVars

\* While the process lives, channels grow by the message whose send is due and
\* by no other, and a message becomes visible only with its send still to come.
LEMMA WriteStep ==
  ASSUME FanoutInv, LivingStep
  PROVE  /\ \/ chan' = chan /\ \A m \in Msg : AboutToBeSent(m) => AboutToBeSent(m)'
            \/ \E m \in Msg :
                 /\ Publish(m)
                 /\ \A o \in Msg \ {m} : AboutToBeSent(o) => AboutToBeSent(o)'
         /\ \A m \in Msg : row'[m] = "published" =>
              (row[m] = "published" /\ time'[m] = time[m]) \/ AboutToBeSent(m)'
<1> USE DEF FanoutInv, FanoutTypeOK, StoreTypeOK, RowState, HandlerState, AboutToBeSent,
            storeVars, handlerVars, managerVars, processVars
<1> DEFINE Sends ==
             \/ chan' = chan /\ \A m \in Msg : AboutToBeSent(m) => AboutToBeSent(m)'
             \/ \E m \in Msg :
                  /\ Publish(m)
                  /\ \A o \in Msg \ {m} : AboutToBeSent(o) => AboutToBeSent(o)'
           Shows ==
             \A m \in Msg : row'[m] = "published" =>
               (row[m] = "published" /\ time'[m] = time[m]) \/ AboutToBeSent(m)'
<1>1. ASSUME NEW o \in Msg, Stamp(o) PROVE Sends /\ Shows
  BY <1>1 DEF Stamp, HandlerInv
<1>2. ASSUME NEW o \in Msg, NEW h \in Header, ParseDelay(o, h) PROVE Sends /\ Shows
  <2>1. row[o] = "none"
    BY <1>2 DEF ParseDelay, HandlerInv
  <2>2. time' = [time EXCEPT ![o] = time'[o]]
    BY <1>2, DelayedTime
  <2>3. \A m \in Msg : row[m] = "published" => time'[m] = time[m]
    BY <2>1, <2>2
  <2>4. UNCHANGED <<row, chan, pc, cur>>
    BY <1>2 DEF ParseDelay
  <2>5. QED
    BY <2>3, <2>4
<1>3. ASSUME NEW o \in Msg, Persist(o) PROVE Sends /\ Shows
  BY <1>3 DEF Persist, Insert, InsertDelayed
<1>4. ASSUME NEW o \in Msg, Refuse(o) \/ ManagerMarkFails(o) PROVE Sends /\ Shows
  BY <1>4 DEF Refuse, ManagerMarkFails
<1>5. ASSUME NEW o \in Msg, FanOut(o) PROVE Sends /\ Shows
  BY <1>5 DEF FanOut
<1>6. ASSUME NEW o \in Msg, ManagerMark(o) PROVE Sends /\ Shows
  BY <1>6, NoMsgAssumption DEF ManagerMark, MarkPublished
<1>7. CASE ManagerSend
  <2>1. cur \in Msg /\ Publish(cur) /\ UNCHANGED <<row, time, pc>>
    BY <1>7 DEF ManagerSend
  <2>2. \A o \in Msg \ {cur} : AboutToBeSent(o) => AboutToBeSent(o)'
    BY <2>1
  <2>3. QED
    BY <2>1, <2>2
<1>8. CASE ManagerExpire
  BY <1>8 DEF ManagerExpire, DeleteExpired, Expired
<1>9. CASE ManagerTick \/ ClockTick \/ Restart \/ UNCHANGED fanoutVars
  BY <1>9 DEF ManagerTick, ClockTick, Restart, fanoutVars
<1>10. Sends /\ Shows
  BY <1>1, <1>2, <1>3, <1>4, <1>5, <1>6, <1>7, <1>8, <1>9
     DEF LivingStep, Handler, Manager
<1>11. QED
  BY <1>10

-----------------------------------------------------------------------------
(* Steps of the server.                                                    *)

\* What a living server does to the channels, as receivers see it.
LEMMA ChannelsGrow ==
  ASSUME FanoutInv, LivingStep, NEW t \in Topic, NEW p \in Nat, p <= End(t)
  PROVE  /\ Ahead(t, p) \subseteq Ahead(t, p)'
         /\ p <= End(t)'
         /\ \A q \in Nat : q <= End(t) => Ahead(t, q)' \subseteq Ahead(t, q) \cup Ahead(t, p)'
<1>1. chan \in [Topic -> Seq(Msg)] /\ chan[t] \in Seq(Msg)
  BY DEF FanoutInv, FanoutTypeOK, BroadcastTypeOK
<1>2. CASE chan' = chan
  BY <1>2 DEF Ahead, End
<1>3. ASSUME NEW m \in Msg, Publish(m) PROVE
        /\ Ahead(t, p) \subseteq Ahead(t, p)'
        /\ p <= End(t)'
        /\ \A q \in Nat : q <= End(t) => Ahead(t, q)' \subseteq Ahead(t, q) \cup Ahead(t, p)'
  <2>1. chan'[t] = IF t = TopicOf[m] THEN Append(chan[t], m) ELSE chan[t]
    BY <1>1, <1>3 DEF Publish, Send
  <2>2. CASE t = TopicOf[m]
    <3>1. \A q \in Nat : q <= Len(chan[t]) => After(chan'[t], q) = After(chan[t], q) \cup {m}
      BY <1>1, <2>1, <2>2, AfterAppend
    <3>2. Len(chan'[t]) = Len(chan[t]) + 1 /\ Len(chan[t]) \in Nat
      BY <1>1, <2>1, <2>2
    <3>3. p <= Len(chan[t])
      BY DEF End
    <3>4. QED
      BY <3>1, <3>2, <3>3 DEF Ahead, End
  <2>3. CASE t # TopicOf[m]
    BY <2>1, <2>3 DEF Ahead, End
  <2>4. QED
    BY <2>2, <2>3
<1>4. QED
  BY <1>2, <1>3, WriteStep

\* What clients were promised survives a step of the server that lives on.
LEMMA LivingKeeps ==
  ASSUME DeliveryInv, FanoutInv, FanoutInv', LivingStep, UNCHANGED clientVars
  PROVE  DeliveryInv'
<1> USE DEF clientVars, connVars, memoryVars, traceVars
<1>0. [FanoutNext]_fanoutVars
  BY DEF LivingStep, FanoutNext
<1>1. TypeOK'
  BY DEF DeliveryInv, TypeOK, FanoutInv
<1>2. /\ chan \in [Topic -> Seq(Msg)] /\ chan' \in [Topic -> Seq(Msg)]
      /\ fanouts \in [Msg -> Nat] /\ fanouts' \in [Msg -> Nat]
      /\ \A c \in Client, t \in Topic :
           cursor[c][t] \in Nat /\ readAt[c][t] \in Nat /\ joinedAt[c][t] \in Nat
      /\ \A c \in Client : Wants[c] \subseteq Topic
  BY WantsAssumption DEF DeliveryInv, TypeOK, FanoutInv, FanoutTypeOK, BroadcastTypeOK
<1>3. \A c \in Client, t \in Topic :
        /\ cursor[c][t] <= End(t) /\ readAt[c][t] <= End(t) /\ joinedAt[c][t] <= End(t)
        /\ cursor[c][t] <= End(t)' /\ readAt[c][t] <= End(t)' /\ joinedAt[c][t] <= End(t)'
  BY <1>2, ChannelsGrow DEF DeliveryInv, ChannelInv
<1>4. ChannelInv'
  <2>1. ASSUME NEW t \in Topic, NEW i \in 1 .. Len(chan'[t])
        PROVE  TopicOf[chan'[t][i]] = t /\ fanouts'[chan'[t][i]] > 0
    <3>1. CASE chan' = chan
      <4>1. TopicOf[chan[t][i]] = t /\ fanouts[chan[t][i]] > 0 /\ chan[t][i] \in Msg
        BY <1>2, <2>1, <3>1 DEF DeliveryInv, ChannelInv
      <4>2. QED
        BY <1>0, <3>1, <4>1, SentForever
    <3>2. ASSUME NEW m \in Msg, Publish(m)
          PROVE  TopicOf[chan'[t][i]] = t /\ fanouts'[chan'[t][i]] > 0
      <4>1. chan'[t] = (IF t = TopicOf[m] THEN Append(chan[t], m) ELSE chan[t])
            /\ fanouts'[m] > 0
        BY <1>2, <3>2 DEF Publish, Send
      <4>2. CASE i \in 1 .. Len(chan[t])
        <5>1. TopicOf[chan[t][i]] = t /\ fanouts[chan[t][i]] > 0 /\ chan[t][i] \in Msg
          BY <1>2, <4>2 DEF DeliveryInv, ChannelInv
        <5>2. chan'[t][i] = chan[t][i]
          BY <1>2, <4>1, <4>2
        <5>3. QED
          BY <1>0, <5>1, <5>2, SentForever
      <4>3. CASE i \notin 1 .. Len(chan[t])
        <5>1. t = TopicOf[m] /\ i = Len(chan[t]) + 1
          BY <1>2, <2>1, <4>1, <4>3
        <5>2. chan'[t][i] = m
          BY <1>2, <4>1, <5>1
        <5>3. QED
          BY <4>1, <5>1, <5>2
      <4>4. QED
        BY <4>2, <4>3
    <3>3. QED
      BY <3>1, <3>2, WriteStep
  <2>2. QED
    BY <1>3, <2>1 DEF ChannelInv
<1>5. ConnInv' /\ SeekInv'
  BY DEF DeliveryInv, ConnInv, SeekInv
<1>6. ReceivedIsPublic'
  <2>1. ASSUME NEW c \in Client, NEW m \in got[c] \cup cached[c] PROVE Public(m)'
    <3>1. m \in Msg /\ Public(m)
      BY DEF DeliveryInv, TypeOK, ReceivedIsPublic, Public
    <3>2. QED
      BY <1>0, <3>1, PublicForever
  <2>2. QED
    BY <2>1 DEF ReceivedIsPublic, Public
<1>7. LiveInv'
  <2> SUFFICES ASSUME NEW c \in Client, NEW t \in Wants[c] \ (todo[c] \cup {at[c]}),
                      conn[c] = "live"
               PROVE  Ahead(t, joinedAt[c][t])'
                        \subseteq got[c] \cup skipped[c] \cup Ahead(t, cursor[c][t])'
    BY DEF DeliveryInv, LiveInv
  <2>1. t \in Topic /\ cursor[c][t] \in Nat /\ joinedAt[c][t] \in Nat
    BY <1>2 DEF DeliveryInv, TypeOK
  <2>2. Ahead(t, joinedAt[c][t])
          \subseteq got[c] \cup skipped[c] \cup Ahead(t, cursor[c][t])
    BY DEF DeliveryInv, LiveInv
  <2>3. QED
    BY <1>3, <2>1, <2>2, ChannelsGrow
<1>8. ReplayInv'
  <2> SUFFICES ASSUME NEW c \in Client, conn[c] # "off", since[c].kind # "none",
                      NEW t \in Wants[c] \ todo[c], NEW m \in Msg,
                      TopicOf[m] = t, row'[m] = "published", time'[m] > floor[c][t]
               PROVE  m \in got[c] \cup cached[c] \cup Ahead(t, readAt[c][t])'
                        \/ AboutToBeSent(m)'
    BY DEF ReplayInv
  <2>1. t \in Topic /\ readAt[c][t] \in Nat /\ readAt[c][t] <= End(t)
    BY <1>2, <1>3
  <2>2. Ahead(t, readAt[c][t]) \subseteq Ahead(t, readAt[c][t])'
    BY <2>1, ChannelsGrow
  <2>3. CASE row[m] = "published" /\ time'[m] = time[m]
    <3>1. m \in got[c] \cup cached[c] \cup Ahead(t, readAt[c][t]) \/ AboutToBeSent(m)
      BY <2>3 DEF DeliveryInv, ReplayInv
    <3>2. ASSUME Publish(m) PROVE m \in Ahead(t, readAt[c][t])'
      <4>1. chan'[t] = Append(chan[t], m)
        BY <1>2, <2>1, <3>2 DEF Publish, Send
      <4>2. QED
        BY <1>2, <2>1, <4>1, AfterAppend DEF Ahead, End
    <3>3. AboutToBeSent(m) => AboutToBeSent(m)' \/ Publish(m)
      BY WriteStep
    <3>4. QED
      BY <2>2, <3>1, <3>2, <3>3
  <2>4. QED
    BY <2>3, WriteStep
<1>9. QED
  BY <1>1, <1>4, <1>5, <1>6, <1>7, <1>8 DEF DeliveryInv

\* A crash takes the channels and every connection.
LEMMA CrashKeeps ==
  ASSUME DeliveryInv, FanoutInv, FanoutInv', Crash, Hangup(Client), UNCHANGED memoryVars
  PROVE  DeliveryInv'
<1> USE DEF memoryVars
<1>1. \A c \in Client :
        /\ conn'[c] = "off" /\ since'[c] = NoSince /\ todo'[c] = {} /\ at'[c] = NoTopic
        /\ sought'[c] = NoTopic /\ from'[c] = 0
        /\ cached'[c] = {} /\ cursor'[c] = Zeros[c] /\ floor'[c] = Zeros[c]
        /\ readAt'[c] = Zeros[c] /\ joinedAt'[c] = Zeros[c]
        /\ Zeros[c] \in [Topic -> Nat] /\ Zeros[c] \in [Topic -> Int]
        /\ \A t \in Topic : Zeros[c][t] = 0
  BY DEF Hangup, Zeros
<1>2. TypeOK'
  <2>1. NoSince \in Since
    BY DEF NoSince, Since
  <2>2. FanoutTypeOK'
    BY DEF FanoutInv
  <2>3. QED
    BY <1>1, <2>1, <2>2 DEF Hangup, DeliveryInv, TypeOK
<1>3. ChannelInv'
  <2>1. \A t \in Topic : chan'[t] = <<>>
    BY DEF Crash
  <2>2. QED
    BY <1>1, <2>1 DEF ChannelInv, End
<1>4. ReceivedIsPublic'
  <2>1. ASSUME NEW c \in Client, NEW m \in got[c] PROVE Public(m)'
    <3>1. m \in Msg /\ Public(m)
      BY DEF DeliveryInv, TypeOK, ReceivedIsPublic, Public
    <3>2. QED
      BY <3>1, PublicForever DEF FanoutNext
  <2>2. QED
    BY <1>1, <2>1 DEF Hangup, ReceivedIsPublic, Public
<1>5. ConnInv' /\ SeekInv' /\ LiveInv' /\ ReplayInv'
  BY <1>1 DEF ConnInv, SeekInv, LiveInv, ReplayInv, NoSince
<1>6. QED
  BY <1>2, <1>3, <1>4, <1>5 DEF DeliveryInv

-----------------------------------------------------------------------------
(* Steps of a client.                                                      *)

\* What a client asks for is a time.
LEMMA SinceTs == ASSUME NEW s \in Since PROVE s.ts \in Nat /\ s.kind \in {"none", "time", "id"}
<1>1. CASE s = NoSince
  BY <1>1 DEF NoSince
<1>2. CASE s \in [kind : {"time"}, ts : SinceTimes, anchor : {NoMsg}]
  BY <1>2, SinceTimesAssumption
<1>3. CASE s \in [kind : {"id"}, ts : {0}, anchor : Msg]
  BY <1>3
<1>4. QED
  BY <1>1, <1>2, <1>3 DEF Since

\* An anchor is a message.
LEMMA AnchorType == ASSUME NEW s \in Since, s.kind = "id" PROVE s.anchor \in Msg
<1>1. CASE s = NoSince
  BY <1>1 DEF NoSince
<1>2. CASE s \in [kind : {"time"}, ts : SinceTimes, anchor : {NoMsg}]
  BY <1>2
<1>3. CASE s \in [kind : {"id"}, ts : {0}, anchor : Msg]
  BY <1>3
<1>4. QED
  BY <1>1, <1>2, <1>3 DEF Since

\* The two statements of since_id and the row between them: a message that a
\* client has received is stored until it expires, so what the first statement
\* finds is never after what the client is owed.
LEMMA AnchorTimeIsOwed ==
  ASSUME FanoutInv, NEW t \in Topic, NEW a \in Msg, Public(a)
  PROVE  /\ AnchorTime(t, a, now) \in Int /\ Owed(t, a) \in Int
         /\ AnchorTime(t, a, now) <= Owed(t, a)
<1>1. /\ time[a] \in Int /\ expires[a] \in Int /\ now \in Int /\ AnchorWindow \in Int
      /\ row[a] \in {"published", "deleted"}
      /\ row[a] = "deleted" => expires[a] < now
  BY AnchorWindowAssumption
     DEF FanoutInv, FanoutTypeOK, StoreTypeOK, TimeInv, Public
<1>2. now <= expires[a] => Stored(a)
  BY <1>1 DEF Stored
<1>3. CASE TopicOf[a] = t /\ (now <= expires[a] \/ time[a] > now - AnchorWindow)
  <2>1. Owed(t, a) = time[a]
    BY <1>3 DEF Owed
  <2>2. QED
    BY <1>1, <1>2, <1>3, <2>1 DEF AnchorTime
<1>4. CASE ~(TopicOf[a] = t /\ (now <= expires[a] \/ time[a] > now - AnchorWindow))
  <2>1. Owed(t, a) = now - AnchorWindow
    BY <1>4 DEF Owed
  <2>2. QED
    BY <1>1, <1>4, <2>1 DEF AnchorTime
<1>5. QED
  BY <1>3, <1>4

\* What a cache read returns may be shown to a client.
LEMMA QueryIsPublic ==
  ASSUME FanoutInv, NEW c \in Client, NEW t \in Topic, since[c] \in Since
  PROVE  /\ Query(c, t) \subseteq {m \in Msg : TopicOf[m] = t}
         /\ \A m \in Query(c, t) : Public(m)
<1>1. since[c].kind \in {"none", "time", "id"}
  BY SinceTs
<1>2. \A m \in Query(c, t) :
        m \in Msg /\ TopicOf[m] = t /\ row[m] = "published"
  BY <1>1 DEF Query, SinceTime, SinceId
<1>3. QED
  BY <1>2 DEF FanoutInv, TimeInv, Public

\* The time after which a cache read of topic t owes the client all messages.
ReadFloor(c, t) == IF since[c].kind = "id" THEN floor[c][t] ELSE since[c].ts - 1

\* It returns every published message of the topic above its floor.
LEMMA QueryIsComplete ==
  ASSUME DeliveryInv, FanoutInv, NEW c \in Client, NEW t \in Topic,
         since[c].kind = "id" => sought[c] = t,
         since[c].kind # "none", NEW m \in Msg, TopicOf[m] = t, row[m] = "published",
         time[m] > ReadFloor(c, t)
  PROVE  m \in Query(c, t)
<1>1. /\ since[c] \in Since /\ time[m] \in Int /\ from[c] \in Int /\ floor[c][t] \in Int
  BY DEF DeliveryInv, TypeOK, FanoutInv, FanoutTypeOK, StoreTypeOK
<1>2. CASE since[c].kind = "id"
  <2>1. from[c] <= floor[c][t]
    BY <1>2, NoTopicAssumption DEF DeliveryInv, SeekInv
  <2>2. QED
    BY <1>1, <1>2, <2>1 DEF Query, ReadFloor, SinceId
<1>3. CASE since[c].kind = "time"
  <2>1. since[c].ts \in Int
    BY <1>1, SinceTs
  <2>2. QED
    BY <1>1, <1>3, <2>1 DEF Query, ReadFloor, SinceTime
<1>4. QED
  BY <1>1, <1>2, <1>3, SinceTs

\* The floor of a cache read is a time.
LEMMA ReadFloorType ==
  ASSUME DeliveryInv, NEW c \in Client, NEW t \in Topic
  PROVE  ReadFloor(c, t) \in Int
<1>1. since[c].ts \in Int /\ floor[c][t] \in Int
  BY SinceTs DEF DeliveryInv, TypeOK
<1>2. QED
  BY <1>1 DEF ReadFloor

\* A connection is opened: nothing has been read for it yet.
LEMMA ConnectStep ==
  ASSUME DeliveryInv, FanoutInv', NEW c \in Client, NEW s \in Since,
         NEW kind \in {"opening", "polling"}, Connect(c, s, kind)
  PROVE  DeliveryInv'
<1> USE DEF Connect, memoryVars, traceVars, fanoutVars
<1>1. TypeOK'
  <2>1. FanoutTypeOK' /\ Wants[c] \in SUBSET Topic
    BY WantsAssumption DEF FanoutInv
  <2>2. QED
    BY <2>1 DEF DeliveryInv, TypeOK
<1>2. ChannelInv'
  BY DEF DeliveryInv, ChannelInv, End
<1>3. ConnInv' /\ SeekInv'
  BY DEF DeliveryInv, TypeOK, ConnInv, SeekInv
<1>4. ReceivedIsPublic'
  BY DEF DeliveryInv, ReceivedIsPublic, storeVars, processVars
<1>5. LiveInv'
  <2>1. ASSUME NEW d \in Client, d # c
        PROVE  conn'[d] = conn[d] /\ todo'[d] = todo[d]
    BY <2>1 DEF DeliveryInv, TypeOK
  <2>2. todo'[c] = Wants[c]
    BY DEF DeliveryInv, TypeOK
  <2>3. QED
    BY <2>1, <2>2 DEF DeliveryInv, LiveInv, Ahead
<1>6. ReplayInv'
  <2>1. ASSUME NEW d \in Client, d # c
        PROVE  conn'[d] = conn[d] /\ todo'[d] = todo[d] /\ since'[d] = since[d]
    BY <2>1 DEF DeliveryInv, TypeOK
  <2>2. todo'[c] = Wants[c]
    BY DEF DeliveryInv, TypeOK
  <2>3. QED
    BY <2>1, <2>2 DEF DeliveryInv, ReplayInv, Ahead, AboutToBeSent, storeVars,
                      handlerVars, managerVars
<1>7. QED
  BY <1>1, <1>2, <1>3, <1>4, <1>5, <1>6 DEF DeliveryInv

\* An anchor is looked up: only the connection's own bookkeeping moves.
LEMMA SeekAnchorStep ==
  ASSUME DeliveryInv, FanoutInv, FanoutInv', NEW c \in Client, NEW t \in Topic,
         SeekAnchor(c, t)
  PROVE  DeliveryInv'
<1> DEFINE low  == AnchorTime(t, since[c].anchor, now)
           owed == Owed(t, since[c].anchor)
<1>1. low \in Int /\ owed \in Int /\ low <= owed
  <2>1. since[c] \in Since /\ since[c].kind = "id"
    BY DEF SeekAnchor, DeliveryInv, TypeOK
  <2>2. since[c].anchor \in Msg /\ since[c].anchor \in got[c]
    BY <2>1, AnchorType DEF DeliveryInv, ConnInv
  <2>3. Public(since[c].anchor)
    BY <2>2 DEF DeliveryInv, ReceivedIsPublic, Public
  <2>4. QED
    BY <2>2, <2>3, AnchorTimeIsOwed
<1> HIDE DEF low, owed
<1>2. /\ sought' = [sought EXCEPT ![c] = t] /\ from' = [from EXCEPT ![c] = low]
      /\ floor' = [floor EXCEPT ![c][t] = owed]
      /\ UNCHANGED <<fanoutVars, conn, since, todo, at, cached, cursor, memoryVars, readAt, joinedAt>>
      /\ conn[c] \in {"opening", "polling"} /\ t \in todo[c] /\ at[c] = NoTopic
      /\ since[c].kind = "id"
  BY DEF SeekAnchor, Before, low, owed
<1> USE DEF memoryVars
<1>3. TypeOK'
  BY <1>1, <1>2 DEF DeliveryInv, TypeOK, FanoutInv
<1>4. /\ sought'[c] = t /\ from'[c] = low /\ floor'[c][t] = owed
      /\ \A d \in Client : d # c => sought'[d] = sought[d] /\ from'[d] = from[d]
      /\ \A d \in Client, q \in Topic : d # c \/ q # t => floor'[d][q] = floor[d][q]
  BY <1>2 DEF DeliveryInv, TypeOK
<1>5. ChannelInv' /\ ConnInv' /\ ReceivedIsPublic' /\ LiveInv'
  BY <1>2 DEF DeliveryInv, ChannelInv, ConnInv, ReceivedIsPublic, LiveInv, Ahead, End,
              fanoutVars, storeVars, processVars
<1>6. SeekInv'
  <2>1. ASSUME NEW d \in Client, d # c, sought[d] # NoTopic
        PROVE  sought[d] \in Topic /\ floor'[d][sought[d]] = floor[d][sought[d]]
    BY <1>4, <2>1 DEF DeliveryInv, TypeOK
  <2>2. QED
    BY <1>1, <1>2, <1>4, <2>1 DEF DeliveryInv, SeekInv
<1>7. ReplayInv'
  <2>1. ASSUME NEW d \in Client, NEW q \in Wants[d] \ todo[d] PROVE floor'[d][q] = floor[d][q]
    BY <1>2, <1>4, WantsAssumption
  <2>2. QED
    BY <1>2, <2>1 DEF DeliveryInv, ReplayInv, Ahead, AboutToBeSent, fanoutVars, storeVars,
                      handlerVars, managerVars
<1>8. QED
  BY <1>3, <1>5, <1>6, <1>7 DEF DeliveryInv

\* A topic's cache is read: its rows are queued, and what is above the floor
\* and not about to be sent is among them.
LEMMA ResolveSinceStep ==
  ASSUME DeliveryInv, FanoutInv, FanoutInv', NEW c \in Client, NEW t \in Topic,
         ResolveSince(c, t)
  PROVE  DeliveryInv'
<1> DEFINE rows == Query(c, t)
           low  == ReadFloor(c, t)
<1>0. /\ since[c] \in Since /\ floor \in [Client -> [Topic -> Int]]
      /\ since[c].kind = "id" => sought[c] = t
  BY DEF ResolveSince, DeliveryInv, TypeOK
<1>1. low \in Int /\ End(t) \in Nat
  BY ReadFloorType DEF FanoutInv, FanoutTypeOK, BroadcastTypeOK, End
<1>2. rows \subseteq Msg /\ \A m \in rows : Public(m)
  BY <1>0, QueryIsPublic
<1>3. \A m \in Msg :
        since[c].kind # "none" /\ TopicOf[m] = t /\ row[m] = "published"
          /\ time[m] > low => m \in rows
  BY <1>0, QueryIsComplete
<1>4. /\ cached' = [cached EXCEPT ![c] = @ \cup rows]
      /\ skipped' = [skipped EXCEPT ![c] = @ \ rows]
      /\ todo' = [todo EXCEPT ![c] = @ \ {t}]
      /\ at' = [at EXCEPT ![c] = t]
      /\ sought' = [sought EXCEPT ![c] = NoTopic] /\ from' = [from EXCEPT ![c] = 0]
      /\ floor' = [floor EXCEPT ![c][t] = low]
      /\ readAt' = [readAt EXCEPT ![c][t] = End(t)]
      /\ UNCHANGED <<fanoutVars, conn, since, cursor, got, joinedAt>>
      /\ conn[c] \in {"opening", "polling"} /\ t \in todo[c] /\ at[c] = NoTopic
  BY <1>0 DEF ResolveSince, Before, ReadFloor
<1> HIDE DEF rows, low
<1>5. TypeOK'
  <2>1. FanoutTypeOK'
    BY DEF FanoutInv
  <2>2. cached' \in [Client -> SUBSET Msg] /\ skipped' \in [Client -> SUBSET Msg]
    BY <1>2, <1>4 DEF DeliveryInv, TypeOK
  <2>3. floor' \in [Client -> [Topic -> Int]]
    BY <1>1, <1>4 DEF DeliveryInv, TypeOK
  <2>4. readAt' \in [Client -> [Topic -> Nat]]
    BY <1>1, <1>4 DEF DeliveryInv, TypeOK
  <2>5. todo' \in [Client -> SUBSET Topic] /\ at' \in [Client -> Topic \cup {NoTopic}]
    BY <1>4 DEF DeliveryInv, TypeOK
  <2>6. sought' \in [Client -> Topic \cup {NoTopic}] /\ from' \in [Client -> Int]
    BY <1>4 DEF DeliveryInv, TypeOK
  <2>7. QED
    BY <1>4, <2>1, <2>2, <2>3, <2>4, <2>5, <2>6 DEF DeliveryInv, TypeOK
<1>6. \A d \in Client :
        /\ d # c => /\ cached'[d] = cached[d] /\ skipped'[d] = skipped[d]
                    /\ todo'[d] = todo[d] /\ at'[d] = at[d]
                    /\ sought'[d] = sought[d] /\ from'[d] = from[d]
                    /\ floor'[d] = floor[d] /\ readAt'[d] = readAt[d]
        /\ \A q \in Topic : d # c \/ q # t =>
             floor'[d][q] = floor[d][q] /\ readAt'[d][q] = readAt[d][q]
  BY <1>4 DEF DeliveryInv, TypeOK
<1>7. /\ cached'[c] = cached[c] \cup rows /\ todo'[c] = todo[c] \ {t} /\ at'[c] = t
      /\ floor'[c][t] = low /\ readAt'[c][t] = End(t) /\ sought'[c] = NoTopic
  BY <1>4 DEF DeliveryInv, TypeOK
<1>8. ChannelInv'
  <2>1. chan' = chan /\ fanouts' = fanouts /\ \A q \in Topic : End(q)' = End(q)
    BY <1>4 DEF fanoutVars, End
  <2>2. \A d \in Client, q \in Topic : readAt'[d][q] <= End(q)
    BY <1>1, <1>6, <1>7 DEF DeliveryInv, ChannelInv
  <2>3. QED
    BY <1>4, <2>1, <2>2 DEF DeliveryInv, ChannelInv
<1>9. ConnInv' /\ SeekInv'
  <2>1. t \in Wants[c] /\ t # NoTopic
    BY <1>4, NoTopicAssumption DEF DeliveryInv, ConnInv
  <2>2. ConnInv'
    BY <1>4, <1>6, <1>7, <2>1 DEF DeliveryInv, ConnInv
  <2>3. QED
    BY <1>4, <1>6, <1>7, <2>2 DEF DeliveryInv, SeekInv
<1>10. ReceivedIsPublic'
  <2>1. time' = time /\ now' = now /\ row' = row /\ unfired' = unfired /\ got' = got
    BY <1>4 DEF fanoutVars, storeVars, processVars
  <2>2. ASSUME NEW d \in Client, NEW m \in got[d] \cup cached'[d] PROVE Public(m)
    BY <1>2, <1>6, <1>7, <2>2 DEF DeliveryInv, ReceivedIsPublic, Public
  <2>3. QED
    BY <2>1, <2>2 DEF ReceivedIsPublic, Public
<1>11. LiveInv'
  <2> SUFFICES ASSUME NEW d \in Client, NEW q \in Wants[d] \ (todo'[d] \cup {at'[d]})
               PROVE  /\ conn[d] = "opening" => cursor[d][q] = joinedAt[d][q]
                      /\ conn[d] = "live" =>
                           Ahead(q, joinedAt[d][q])
                             \subseteq got[d] \cup skipped'[d] \cup Ahead(q, cursor[d][q])
    BY <1>4 DEF LiveInv, Ahead, fanoutVars
  <2>1. q \in Topic /\ q # NoTopic
    BY WantsAssumption, NoTopicAssumption
  <2>2. q \in Wants[d] \ (todo[d] \cup {at[d]})
    BY <1>4, <1>6, <1>7, <2>1
  <2>3. d = c \/ skipped'[d] = skipped[d]
    BY <1>6
  <2>4. QED
    BY <1>4, <2>2, <2>3 DEF DeliveryInv, LiveInv
<1>12. ReplayInv'
  <2> SUFFICES ASSUME NEW d \in Client, conn[d] # "off", since[d].kind # "none",
                      NEW q \in Wants[d] \ todo'[d], NEW m \in Msg,
                      TopicOf[m] = q, row[m] = "published", time[m] > floor'[d][q]
               PROVE  m \in got[d] \cup cached'[d] \cup Ahead(q, readAt'[d][q])
                        \/ AboutToBeSent(m)
    BY <1>4 DEF ReplayInv, Ahead, AboutToBeSent, fanoutVars, storeVars, handlerVars,
                managerVars
  <2>1. CASE d = c /\ q = t
    BY <1>3, <1>7, <2>1
  <2>2. CASE d # c \/ q # t
    <3>1. q \in Topic /\ q \in Wants[d] \ todo[d]
      BY <1>6, <1>7, <2>2, WantsAssumption
    <3>2. floor'[d][q] = floor[d][q] /\ readAt'[d][q] = readAt[d][q]
      BY <1>6, <2>2, <3>1
    <3>3. m \in got[d] \cup cached[d] \cup Ahead(q, readAt[d][q]) \/ AboutToBeSent(m)
      BY <3>1, <3>2 DEF DeliveryInv, ReplayInv
    <3>4. cached[d] \subseteq cached'[d]
      BY <1>6, <1>7
    <3>5. QED
      BY <3>2, <3>3, <3>4
  <2>3. QED
    BY <2>1, <2>2
<1>13. QED
  BY <1>5, <1>8, <1>9, <1>10, <1>11, <1>12 DEF DeliveryInv

\* A receiver is created: what is sent from now on is ahead of it.
LEMMA AttachStep ==
  ASSUME DeliveryInv, FanoutInv', NEW c \in Client, Attach(c)
  PROVE  DeliveryInv'
<1> DEFINE t == at[c]
<1>1. t \in Topic /\ t \in Wants[c] \ todo[c] /\ End(t) \in Nat
  BY DEF Attach, DeliveryInv, TypeOK, ConnInv, FanoutTypeOK, BroadcastTypeOK, End
<1>2. /\ conn[c] \in {"opening", "polling"}
      /\ cursor' = [cursor EXCEPT ![c][t] = End(t)]
      /\ joinedAt' = [joinedAt EXCEPT ![c][t] = End(t)]
      /\ at' = [at EXCEPT ![c] = NoTopic]
      /\ conn' = IF conn[c] = "opening" /\ todo[c] = {} THEN [conn EXCEPT ![c] = "live"]
                 ELSE conn
      /\ UNCHANGED <<fanoutVars, since, todo, sought, from, cached, memoryVars, floor, readAt>>
  BY <1>1, NoTopicAssumption DEF Attach, DeliveryInv, TypeOK, ConnInv
<1> HIDE DEF t
<1> USE DEF memoryVars
<1>3. TypeOK'
  <2>1. FanoutTypeOK'
    BY DEF FanoutInv
  <2>2. cursor' \in [Client -> [Topic -> Nat]] /\ joinedAt' \in [Client -> [Topic -> Nat]]
    BY <1>1, <1>2 DEF DeliveryInv, TypeOK
  <2>3. conn' \in [Client -> {"off", "opening", "polling", "live"}]
    BY <1>2 DEF DeliveryInv, TypeOK
  <2>4. QED
    BY <1>2, <2>1, <2>2, <2>3 DEF DeliveryInv, TypeOK
<1>4. \A d \in Client : d # c => conn'[d] = conn[d] /\ at'[d] = at[d]
  BY <1>2 DEF DeliveryInv, TypeOK
<1>5. \A d \in Client, q \in Topic : d # c \/ q # t =>
        cursor'[d][q] = cursor[d][q] /\ joinedAt'[d][q] = joinedAt[d][q]
  BY <1>2 DEF DeliveryInv, TypeOK
<1>6. /\ cursor'[c][t] = End(t) /\ joinedAt'[c][t] = End(t) /\ at'[c] = NoTopic
      /\ conn'[c] = IF conn[c] = "opening" /\ todo[c] = {} THEN "live" ELSE conn[c]
  BY <1>1, <1>2 DEF DeliveryInv, TypeOK
<1>7. chan' = chan /\ fanouts' = fanouts /\ \A q \in Topic : End(q)' = End(q)
  BY <1>2 DEF fanoutVars, End
<1>8. ChannelInv'
  <2>1. \A d \in Client, q \in Topic : cursor'[d][q] <= End(q) /\ joinedAt'[d][q] <= End(q)
    BY <1>1, <1>5, <1>6 DEF DeliveryInv, ChannelInv
  <2>2. QED
    BY <1>2, <1>7, <2>1 DEF DeliveryInv, ChannelInv
<1>9. ConnInv' /\ SeekInv'
  <2>1. sought[c] = NoTopic
    BY <1>1, NoTopicAssumption DEF t, DeliveryInv, SeekInv
  <2>2. QED
    BY <1>2, <1>4, <1>6, <2>1 DEF DeliveryInv, ConnInv, SeekInv
<1>10. ReceivedIsPublic'
  BY <1>2 DEF DeliveryInv, ReceivedIsPublic, fanoutVars, storeVars, processVars
<1>11. LiveInv'
  <2> SUFFICES ASSUME NEW d \in Client, NEW q \in Wants[d] \ (todo[d] \cup {at'[d]})
               PROVE  /\ conn'[d] = "opening" => cursor'[d][q] = joinedAt'[d][q]
                      /\ conn'[d] = "live" =>
                           Ahead(q, joinedAt'[d][q])
                             \subseteq got[d] \cup skipped[d] \cup Ahead(q, cursor'[d][q])
    BY <1>2, <1>7 DEF LiveInv, Ahead
  <2>1. q \in Topic
    BY WantsAssumption
  <2>2. CASE d = c /\ q = t
    BY <1>6, <2>2
  <2>3. CASE d = c /\ q # t
    <3>1. CASE conn[c] = "opening"
      <4>1. cursor[c][q] = joinedAt[c][q]
        BY <2>3, <3>1 DEF t, DeliveryInv, LiveInv
      <4>2. QED
        BY <1>5, <2>1, <2>3, <4>1
    <3>2. CASE conn[c] = "polling"
      BY <1>6, <2>3, <3>2
    <3>3. QED
      BY <1>2, <3>1, <3>2
  <2>4. CASE d # c
    BY <1>4, <1>5, <2>1, <2>4 DEF DeliveryInv, LiveInv
  <2>5. QED
    BY <2>2, <2>3, <2>4
<1>12. ReplayInv'
  <2>1. \A d \in Client : conn'[d] = "off" <=> conn[d] = "off"
    BY <1>2, <1>4, <1>6
  <2>2. QED
    BY <1>2, <1>7, <2>1 DEF DeliveryInv, ReplayInv, Ahead, AboutToBeSent, fanoutVars,
                            storeVars, handlerVars, managerVars
<1>13. QED
  BY <1>3, <1>8, <1>9, <1>10, <1>11, <1>12 DEF DeliveryInv

\* A message that may be shown is received, and leaves the queue or the channel.
\* The conditions are those under which nothing is lost by it.
LEMMA ReceiveKeeps ==
  ASSUME DeliveryInv, FanoutInv', NEW c \in Client,
         NEW rows \in SUBSET Msg, \A o \in rows : Public(o),
         got' = [got EXCEPT ![c] = @ \cup rows],
         skipped' = [skipped EXCEPT ![c] = @ \ rows],
         UNCHANGED <<fanoutVars, conn, since, todo, sought, from, at, traceVars>>,
         cached' \in [Client -> SUBSET Msg],
         \A d \in Client :
           cached'[d] \subseteq cached[d] /\ cached[d] \subseteq cached'[d] \cup got'[d],
         cursor' \in [Client -> [Topic -> Nat]],
         \A d \in Client, q \in Topic :
           /\ cursor'[d][q] <= End(q)
           /\ conn[d] # "live" => cursor'[d][q] = cursor[d][q]
           /\ Ahead(q, cursor[d][q]) \subseteq Ahead(q, cursor'[d][q]) \cup got'[d]
  PROVE  DeliveryInv'
<1> USE DEF traceVars
<1>1. TypeOK'
  <2>1. FanoutTypeOK'
    BY DEF FanoutInv
  <2>2. got' \in [Client -> SUBSET Msg] /\ skipped' \in [Client -> SUBSET Msg]
    BY DEF DeliveryInv, TypeOK
  <2>3. QED
    BY <2>1, <2>2 DEF DeliveryInv, TypeOK
<1>2. chan' = chan /\ fanouts' = fanouts /\ \A q \in Topic : End(q)' = End(q)
  BY DEF fanoutVars, End
<1>3. \A d \in Client :
        /\ got[d] \subseteq got'[d] /\ got'[d] \subseteq got[d] \cup rows
        /\ got[d] \cup skipped[d] \subseteq got'[d] \cup skipped'[d]
  BY DEF DeliveryInv, TypeOK
<1>4. ChannelInv'
  BY <1>2 DEF DeliveryInv, ChannelInv
<1>5. ConnInv' /\ SeekInv'
  BY <1>3 DEF DeliveryInv, ConnInv, SeekInv
<1>6. ReceivedIsPublic'
  <2>1. time' = time /\ now' = now /\ row' = row /\ unfired' = unfired
    BY DEF fanoutVars, storeVars, processVars
  <2>2. ASSUME NEW d \in Client, NEW o \in got'[d] \cup cached'[d] PROVE Public(o)
    <3>1. o \in got[d] \cup cached[d] \cup rows
      BY <1>3
    <3>2. QED
      BY <3>1 DEF DeliveryInv, ReceivedIsPublic, Public
  <2>3. QED
    BY <2>1, <2>2 DEF ReceivedIsPublic, Public
<1>7. LiveInv'
  <2> SUFFICES ASSUME NEW d \in Client, NEW q \in Wants[d] \ (todo[d] \cup {at[d]})
               PROVE  /\ conn[d] = "opening" => cursor'[d][q] = joinedAt[d][q]
                      /\ conn[d] = "live" =>
                           Ahead(q, joinedAt[d][q])
                             \subseteq got'[d] \cup skipped'[d] \cup Ahead(q, cursor'[d][q])
    BY <1>2 DEF LiveInv, Ahead
  <2>1. q \in Topic
    BY WantsAssumption
  <2>2. conn[d] = "opening" => cursor'[d][q] = joinedAt[d][q]
    BY <2>1 DEF DeliveryInv, LiveInv
  <2>3. ASSUME conn[d] = "live"
        PROVE  Ahead(q, joinedAt[d][q])
                 \subseteq got'[d] \cup skipped'[d] \cup Ahead(q, cursor'[d][q])
    <3>1. Ahead(q, joinedAt[d][q])
            \subseteq got[d] \cup skipped[d] \cup Ahead(q, cursor[d][q])
      BY <2>3 DEF DeliveryInv, LiveInv
    <3>2. Ahead(q, cursor[d][q]) \subseteq Ahead(q, cursor'[d][q]) \cup got'[d]
      BY <2>1
    <3>3. QED
      BY <1>3, <3>1, <3>2
  <2>4. QED
    BY <2>2, <2>3
<1>8. ReplayInv'
  <2> SUFFICES ASSUME NEW d \in Client, conn[d] # "off", since[d].kind # "none",
                      NEW q \in Wants[d] \ todo[d], NEW o \in Msg,
                      TopicOf[o] = q, row[o] = "published", time[o] > floor[d][q]
               PROVE  o \in got'[d] \cup cached'[d] \cup Ahead(q, readAt[d][q])
                        \/ AboutToBeSent(o)
    BY DEF ReplayInv, Ahead, AboutToBeSent, fanoutVars, storeVars, handlerVars, managerVars
  <2>1. o \in got[d] \cup cached[d] \cup Ahead(q, readAt[d][q]) \/ AboutToBeSent(o)
    BY DEF DeliveryInv, ReplayInv
  <2>2. got[d] \subseteq got'[d] /\ cached[d] \subseteq cached'[d] \cup got'[d]
    BY <1>3
  <2>3. QED
    BY <2>1, <2>2
<1>9. QED
  BY <1>1, <1>4, <1>5, <1>6, <1>7, <1>8 DEF DeliveryInv

\* A cached message is sent to its client.
LEMMA ReplayStep ==
  ASSUME DeliveryInv, FanoutInv', NEW c \in Client, NEW m \in Msg, Replay(c, m)
  PROVE  DeliveryInv'
<1>1. \A o \in {m} : Public(o)
  BY DEF Replay, DeliveryInv, ReceivedIsPublic, Public
<1>2. \A d \in Client, q \in Topic : cursor[d][q] <= End(q)
  BY DEF DeliveryInv, ChannelInv
<1>3. /\ cached' \in [Client -> SUBSET Msg] /\ cursor' = cursor
      /\ cursor \in [Client -> [Topic -> Nat]]
      /\ \A d \in Client :
           cached'[d] \subseteq cached[d] /\ cached[d] \subseteq cached'[d] \cup got'[d]
  BY DEF Replay, Receive, DeliveryInv, TypeOK
<1>4. \A d \in Client, q \in Topic :
        /\ cursor'[d][q] <= End(q)
        /\ conn[d] # "live" => cursor'[d][q] = cursor[d][q]
        /\ Ahead(q, cursor[d][q]) \subseteq Ahead(q, cursor'[d][q]) \cup got'[d]
  BY <1>2, <1>3
<1> DEFINE rows == {m}
<1>5. /\ rows \in SUBSET Msg /\ \A o \in rows : Public(o)
      /\ got' = [got EXCEPT ![c] = @ \cup rows] /\ skipped' = [skipped EXCEPT ![c] = @ \ rows]
      /\ UNCHANGED <<fanoutVars, conn, since, todo, sought, from, at, traceVars>>
  BY <1>1 DEF Replay, Receive
<1> HIDE DEF rows
<1>6. QED
  BY <1>3, <1>4, <1>5, ReceiveKeeps

\* A receiver takes the next message of its channel.
LEMMA RecvStep ==
  ASSUME DeliveryInv, FanoutInv, FanoutInv', NEW c \in Client, NEW t \in Topic, Recv(c, t)
  PROVE  DeliveryInv'
<1> DEFINE p == cursor[c][t]
           m == chan[t][p + 1]
<1>1. p \in Nat /\ p < Len(chan[t]) /\ chan[t] \in Seq(Msg)
  BY DEF Recv, Readable, DeliveryInv, TypeOK, FanoutTypeOK, BroadcastTypeOK, End
<1>2. m \in Msg /\ Ahead(t, p) = {m} \cup Ahead(t, p + 1)
  BY <1>1, AfterNext DEF Ahead
<1>3. Public(m)
  <2>1. p + 1 \in 1 .. Len(chan[t])
    BY <1>1
  <2>2. fanouts[m] > 0
    BY <2>1 DEF DeliveryInv, ChannelInv
  <2>3. QED
    BY <1>2, <2>2 DEF FanoutInv, TimeInv, Public
<1>4. /\ cursor' \in [Client -> [Topic -> Nat]]
      /\ \A d \in Client, q \in Topic : d # c \/ q # t => cursor'[d][q] = cursor[d][q]
      /\ cursor'[c][t] = p + 1 /\ conn[c] = "live" /\ m \in got'[c]
  BY <1>1 DEF Recv, Receive, Readable, DeliveryInv, TypeOK
<1>5. /\ got' = [got EXCEPT ![c] = @ \cup {m}] /\ skipped' = [skipped EXCEPT ![c] = @ \ {m}]
      /\ UNCHANGED <<fanoutVars, conn, since, todo, sought, from, at, cached, traceVars>>
  BY DEF Recv, Receive
<1> HIDE DEF m, p
<1>6. \A d \in Client, q \in Topic :
        /\ cursor'[d][q] <= End(q)
        /\ conn[d] # "live" => cursor'[d][q] = cursor[d][q]
        /\ Ahead(q, cursor[d][q]) \subseteq Ahead(q, cursor'[d][q]) \cup got'[d]
  <2> SUFFICES ASSUME NEW d \in Client, NEW q \in Topic
               PROVE  /\ cursor'[d][q] <= End(q)
                      /\ conn[d] # "live" => cursor'[d][q] = cursor[d][q]
                      /\ Ahead(q, cursor[d][q]) \subseteq Ahead(q, cursor'[d][q]) \cup got'[d]
    OBVIOUS
  <2>1. CASE d = c /\ q = t
    <3>1. p + 1 <= End(t)
      BY <1>1 DEF End
    <3>2. QED
      BY <1>2, <1>4, <2>1, <3>1 DEF p
  <2>2. CASE d # c \/ q # t
    BY <1>4, <2>2 DEF DeliveryInv, ChannelInv
  <2>3. QED
    BY <2>1, <2>2
<1>7. cached' \in [Client -> SUBSET Msg] /\ cached' = cached
  BY <1>5 DEF DeliveryInv, TypeOK
<1> DEFINE rows == {m}
<1>8. /\ rows \in SUBSET Msg /\ \A o \in rows : Public(o)
      /\ got' = [got EXCEPT ![c] = @ \cup rows] /\ skipped' = [skipped EXCEPT ![c] = @ \ rows]
  BY <1>2, <1>3, <1>5
<1>9. \A d \in Client :
        cached'[d] \subseteq cached[d] /\ cached[d] \subseteq cached'[d] \cup got'[d]
  BY <1>7
<1>10. /\ cursor' \in [Client -> [Topic -> Nat]]
       /\ UNCHANGED <<fanoutVars, conn, since, todo, sought, from, at, traceVars>>
  BY <1>4, <1>5
<1> HIDE DEF rows
<1>11. QED
  BY <1>6, <1>7, <1>8, <1>9, <1>10, ReceiveKeeps

\* A lagged receiver skips what the channel no longer retains.
LEMMA LagStep ==
  ASSUME DeliveryInv, FanoutInv', NEW c \in Client, NEW t \in Topic, Lag(c, t)
  PROVE  DeliveryInv'
<1> USE DEF traceVars
<1>1. /\ conn[c] = "live" /\ cursor[c][t] \in Nat /\ Oldest(t) \in Nat /\ Oldest(t) <= End(t)
      /\ chan[t] \in Seq(Msg)
  <2>1. /\ cursor[c][t] \in Nat /\ Len(chan[t]) \in Nat /\ chan[t] \in Seq(Msg)
        /\ Len(chan[t]) - cursor[c][t] > Capacity /\ conn[c] = "live"
    BY DEF Lag, Readable, Lagged, DeliveryInv, TypeOK, FanoutTypeOK, BroadcastTypeOK
  <2>2. QED
    BY <2>1, CapacityAssumption DEF Oldest, End
<1>2. /\ \A d \in Client, q \in Topic : d # c \/ q # t => cursor'[d][q] = cursor[d][q]
      /\ cursor'[c][t] = Oldest(t) /\ cursor' \in [Client -> [Topic -> Nat]]
  BY <1>1 DEF Lag, DeliveryInv, TypeOK
<1>3. \A p \in Nat : Ahead(t, p) \subseteq Msg
  BY <1>1 DEF Ahead, After
<1>4. /\ skipped' \in [Client -> SUBSET Msg]
      /\ \A d \in Client : skipped[d] \subseteq skipped'[d]
      /\ Ahead(t, cursor[c][t]) \subseteq got[c] \cup skipped'[c] \cup Ahead(t, Oldest(t))
  BY <1>1, <1>3 DEF Lag, DeliveryInv, TypeOK
<1>5. UNCHANGED <<fanoutVars, conn, since, todo, sought, from, at, cached, got, traceVars>>
  BY DEF Lag
<1>6. TypeOK'
  BY <1>2, <1>4, <1>5 DEF DeliveryInv, TypeOK, FanoutInv
<1>7. chan' = chan /\ fanouts' = fanouts /\ \A q \in Topic : End(q)' = End(q)
  BY <1>5 DEF fanoutVars, End
<1>8. ChannelInv'
  <2>1. \A d \in Client, q \in Topic : cursor'[d][q] <= End(q)
    BY <1>1, <1>2 DEF DeliveryInv, ChannelInv
  <2>2. QED
    BY <1>5, <1>7, <2>1 DEF DeliveryInv, ChannelInv
<1>9. ConnInv' /\ SeekInv'
  BY <1>5 DEF DeliveryInv, ConnInv, SeekInv
<1>10. ReceivedIsPublic'
  BY <1>5 DEF DeliveryInv, ReceivedIsPublic, fanoutVars, storeVars, processVars
<1>11. LiveInv'
  <2> SUFFICES ASSUME NEW d \in Client, NEW q \in Wants[d] \ (todo[d] \cup {at[d]})
               PROVE  /\ conn[d] = "opening" => cursor'[d][q] = joinedAt[d][q]
                      /\ conn[d] = "live" =>
                           Ahead(q, joinedAt[d][q])
                             \subseteq got[d] \cup skipped'[d] \cup Ahead(q, cursor'[d][q])
    BY <1>5, <1>7 DEF LiveInv, Ahead
  <2>1. q \in Topic
    BY WantsAssumption
  <2>2. CASE d = c /\ q = t
    BY <1>1, <1>2, <1>4, <2>2 DEF DeliveryInv, LiveInv
  <2>3. CASE d # c \/ q # t
    BY <1>2, <1>4, <2>1, <2>3 DEF DeliveryInv, LiveInv
  <2>4. QED
    BY <2>2, <2>3
<1>12. ReplayInv'
  BY <1>5 DEF DeliveryInv, ReplayInv, Ahead, AboutToBeSent, fanoutVars, storeVars,
              handlerVars, managerVars
<1>13. QED
  BY <1>6, <1>8, <1>9, <1>10, <1>11, <1>12 DEF DeliveryInv

\* A connection that ends, with an answer or without, leaves nothing behind.
LEMMA HangupStep ==
  ASSUME DeliveryInv, FanoutInv', NEW c \in Client, Hangup({c}), UNCHANGED fanoutVars,
         NEW rows \in SUBSET cached[c],
         got' = [got EXCEPT ![c] = @ \cup rows], skipped' = [skipped EXCEPT ![c] = @ \ rows]
  PROVE  DeliveryInv'
<1>1. /\ conn'[c] = "off" /\ since'[c] = NoSince /\ todo'[c] = {} /\ at'[c] = NoTopic
      /\ sought'[c] = NoTopic /\ from'[c] = 0
      /\ cached'[c] = {} /\ cursor'[c] = Zeros[c] /\ floor'[c] = Zeros[c]
      /\ readAt'[c] = Zeros[c] /\ joinedAt'[c] = Zeros[c]
      /\ \A t \in Topic : Zeros[c][t] = 0
      /\ Zeros[c] \in [Topic -> Nat] /\ Zeros[c] \in [Topic -> Int]
  BY DEF Hangup, Zeros
<1>2. \A d \in Client : d # c =>
        /\ conn'[d] = conn[d] /\ since'[d] = since[d] /\ todo'[d] = todo[d]
        /\ sought'[d] = sought[d] /\ from'[d] = from[d]
        /\ at'[d] = at[d] /\ cached'[d] = cached[d] /\ cursor'[d] = cursor[d]
        /\ floor'[d] = floor[d] /\ readAt'[d] = readAt[d] /\ joinedAt'[d] = joinedAt[d]
        /\ got'[d] = got[d] /\ skipped'[d] = skipped[d]
  BY DEF Hangup, DeliveryInv, TypeOK
<1>3. got'[c] = got[c] \cup rows /\ cached[c] \subseteq Msg
  BY DEF DeliveryInv, TypeOK
<1>4. TypeOK'
  <2>1. NoSince \in Since
    BY DEF NoSince, Since
  <2>2. FanoutTypeOK'
    BY DEF FanoutInv
  <2>3. /\ conn' \in [Client -> {"off", "opening", "polling", "live"}]
        /\ since' \in [Client -> Since] /\ todo' \in [Client -> SUBSET Topic]
        /\ sought' \in [Client -> Topic \cup {NoTopic}] /\ from' \in [Client -> Int]
        /\ at' \in [Client -> Topic \cup {NoTopic}] /\ cached' \in [Client -> SUBSET Msg]
    BY <2>1 DEF Hangup, DeliveryInv, TypeOK
  <2>4. /\ cursor' \in [Client -> [Topic -> Nat]] /\ floor' \in [Client -> [Topic -> Int]]
        /\ readAt' \in [Client -> [Topic -> Nat]] /\ joinedAt' \in [Client -> [Topic -> Nat]]
    BY <1>1 DEF Hangup, DeliveryInv, TypeOK
  <2>5. got' \in [Client -> SUBSET Msg] /\ skipped' \in [Client -> SUBSET Msg]
    BY <1>3 DEF DeliveryInv, TypeOK
  <2>6. QED
    BY <2>2, <2>3, <2>4, <2>5 DEF TypeOK
<1>5. chan' = chan /\ fanouts' = fanouts /\ \A q \in Topic : End(q)' = End(q) /\ End(q) \in Nat
  BY DEF fanoutVars, End, DeliveryInv, TypeOK, FanoutTypeOK, BroadcastTypeOK
<1>6. ChannelInv'
  <2>1. ASSUME NEW d \in Client, NEW q \in Topic
        PROVE  cursor'[d][q] <= End(q) /\ readAt'[d][q] <= End(q) /\ joinedAt'[d][q] <= End(q)
    BY <1>1, <1>2, <1>5 DEF DeliveryInv, ChannelInv
  <2>2. QED
    BY <1>5, <2>1 DEF DeliveryInv, ChannelInv
<1>7. ConnInv' /\ SeekInv'
  BY <1>1, <1>2 DEF DeliveryInv, ConnInv, SeekInv, NoSince
<1>8. ReceivedIsPublic'
  <2>1. time' = time /\ now' = now /\ row' = row /\ unfired' = unfired
    BY DEF fanoutVars, storeVars, processVars
  <2>2. ASSUME NEW d \in Client, NEW m \in got'[d] \cup cached'[d] PROVE Public(m)
    BY <1>1, <1>2, <1>3, <2>2 DEF DeliveryInv, ReceivedIsPublic, Public
  <2>3. QED
    BY <2>1, <2>2 DEF ReceivedIsPublic, Public
<1>9. LiveInv'
  BY <1>1, <1>2 DEF DeliveryInv, LiveInv, Ahead, fanoutVars
<1>10. ReplayInv'
  BY <1>1, <1>2 DEF DeliveryInv, ReplayInv, Ahead, AboutToBeSent, fanoutVars,
                    storeVars, handlerVars, managerVars
<1>11. QED
  BY <1>4, <1>6, <1>7, <1>8, <1>9, <1>10 DEF DeliveryInv

\* A poll hands over what was read for it.
LEMMA AnswerPollStep ==
  ASSUME DeliveryInv, FanoutInv', NEW c \in Client, AnswerPoll(c)
  PROVE  DeliveryInv'
<1> DEFINE rows == cached[c]
<1>1. /\ Hangup({c}) /\ UNCHANGED fanoutVars /\ rows \in SUBSET cached[c]
      /\ got' = [got EXCEPT ![c] = @ \cup rows] /\ skipped' = [skipped EXCEPT ![c] = @ \ rows]
  BY DEF AnswerPoll
<1> HIDE DEF rows
<1>2. QED
  BY <1>1, HangupStep

\* A connection that is cut hands over nothing.
LEMMA DisconnectStep ==
  ASSUME DeliveryInv, FanoutInv', NEW c \in Client, Disconnect(c)
  PROVE  DeliveryInv'
<1> DEFINE rows == {}
<1>1. /\ Hangup({c}) /\ UNCHANGED fanoutVars /\ rows \in SUBSET cached[c]
      /\ got' = [got EXCEPT ![c] = @ \cup rows] /\ skipped' = [skipped EXCEPT ![c] = @ \ rows]
  BY DEF Disconnect, memoryVars, DeliveryInv, TypeOK
<1> HIDE DEF rows
<1>2. QED
  BY <1>1, HangupStep

-----------------------------------------------------------------------------
(* The invariant, and what follows from it.                                *)

\* The invariant holds initially.
LEMMA DeliveryInvInit == Init => DeliveryInv
<1> SUFFICES ASSUME Init PROVE DeliveryInv
  OBVIOUS
<1>1. FanoutInv
  BY FanoutInvInit DEF Init
<1>2. TypeOK
  BY <1>1 DEF Init, FanoutInv, TypeOK, Zeros, NoSince, Since
<1>3. chan = [t \in Topic |-> <<>>]
  BY DEF Init, FanoutInit, BroadcastInit
<1>4. QED
  BY <1>2, <1>3 DEF Init, DeliveryInv, ChannelInv, ConnInv, SeekInv, ReceivedIsPublic, LiveInv,
                    ReplayInv, Zeros, NoSince, End

\* The steps of clients keep the invariant.
LEMMA ClientKeeps ==
  ASSUME DeliveryInv, FanoutInv, FanoutInv', NEW c \in Client, ClientStep(c)
  PROVE  DeliveryInv'
  BY ConnectStep, SeekAnchorStep, ResolveSinceStep, AttachStep, ReplayStep, RecvStep, LagStep,
     AnswerPollStep, DisconnectStep DEF ClientStep

\* The invariant holds in every reachable state.
THEOREM DeliveryInvariant == Spec => []DeliveryInv
<1>1. DeliveryInv /\ FanoutInv /\ FanoutInv' /\ [Next]_vars => DeliveryInv'
  <2> SUFFICES ASSUME DeliveryInv, FanoutInv, FanoutInv', [Next]_vars PROVE DeliveryInv'
    OBVIOUS
  <2>1. CASE ServerStep
    BY <2>1, LivingKeeps, CrashKeeps DEF ServerStep, LivingStep
  <2>2. CASE UNCHANGED vars
    BY <2>2, LivingKeeps DEF vars, LivingStep
  <2>3. QED
    BY <2>1, <2>2, ClientKeeps DEF Next
<1>2. QED
  BY <1>1, DeliveryInvInit, DeliveryRefinesFanout, FanoutInvariant, PTL DEF Spec

\* Every variable of the read side keeps its type.
THEOREM DeliveryTypeCorrect == Spec => []TypeOK
<1>1. DeliveryInv => TypeOK
  BY DEF DeliveryInv
<1>2. QED
  BY <1>1, DeliveryInvariant, PTL

\* No client is ever given, or has queued, what the public may not see.
THEOREM ReceivedIsPublicHolds == Spec => []ReceivedIsPublic
<1>1. DeliveryInv => ReceivedIsPublic
  BY DEF DeliveryInv
<1>2. QED
  BY <1>1, DeliveryInvariant, PTL

\* Nothing sent since a receiver was created is lost but to lag.
THEOREM LiveCompleteHolds == Spec => []LiveComplete
<1>1. DeliveryInv => LiveComplete
  <2> SUFFICES ASSUME DeliveryInv, NEW c \in Client, conn[c] = "live", NEW t \in Wants[c]
               PROVE  Between(t, joinedAt[c][t], End(t))
                        \subseteq got[c] \cup skipped[c] \cup Ahead(t, cursor[c][t])
    BY DEF LiveComplete
  <2>1. t \in Topic /\ t # NoTopic /\ joinedAt[c][t] \in Nat
    BY WantsAssumption, NoTopicAssumption DEF DeliveryInv, TypeOK
  <2>2. t \notin todo[c] \cup {at[c]}
    BY <2>1 DEF DeliveryInv, ConnInv
  <2>3. QED
    BY <2>1, <2>2, BetweenEnd DEF DeliveryInv, LiveInv
<1>2. QED
  BY <1>1, DeliveryInvariant, PTL

\* A stream or poll with a since= leaves out nothing that its client is owed,
\* whatever became of the anchor and its row between the two statements of
\* since_id, but what was sent between the cache read and the subscription, or
\* is still to be sent.
THEOREM ReplayCompleteHolds == Spec => []ReplayComplete
<1>1. DeliveryInv => ReplayComplete
  <2> SUFFICES ASSUME DeliveryInv, NEW c \in Client, HasRead(c),
                      since[c].kind # "none", NEW t \in Wants[c], NEW m \in Msg,
                      TopicOf[m] = t, row[m] = "published", time[m] > floor[c][t],
                      ~AboutToBeSent(m), m \notin Between(t, readAt[c][t], End(t))
               PROVE  m \in got[c] \cup cached[c]
    BY DEF ReplayComplete, LeftOut
  <2>1. t \in Topic /\ readAt[c][t] \in Nat
    BY WantsAssumption DEF DeliveryInv, TypeOK
  <2>2. t \in Wants[c] \ todo[c] /\ conn[c] # "off"
    BY DEF DeliveryInv, ConnInv, HasRead
  <2>3. QED
    BY <2>1, <2>2, BetweenEnd DEF DeliveryInv, ReplayInv
<1>2. QED
  BY <1>1, DeliveryInvariant, PTL

-----------------------------------------------------------------------------
(* The read side implements Feed.                                          *)

\* The refinement mapping, by name.
public    == {m \in Msg : LifePhase(m) \in {"visible", "forgotten"}}
announced == {m \in Msg : fanouts[m] > 0}
joined    == [c \in Client |-> Joined(c)]
queue     == [c \in Client |-> [t \in Topic |-> Queue(c, t)]]

\* The write side shows messages and announces what has been shown.
LEMMA WriteFeeds ==
  ASSUME FanoutInv, LivingStep
  PROVE  \/ UNCHANGED <<public, announced, chan>>
         \/ /\ \E m \in Msg : m \notin public /\ public' = public \cup {m}
            /\ UNCHANGED <<announced, chan>>
         \/ \E m \in Msg :
              /\ m \in public \ announced /\ announced' = announced \cup {m}
              /\ Send(TopicOf[m], m)
              /\ UNCHANGED public
<1> DEFINE Shown == {"visible", "forgotten"}
<1>1. /\ public  = {m \in Msg : phase[m] \in Shown}
      /\ public' = {m \in Msg : phase'[m] \in Shown}
      /\ phase \in [Msg -> {"unknown", "waiting", "visible", "forgotten", "dropped"}]
  BY DEF public, phase, LifePhase, FanoutInv, FanoutTypeOK, StoreTypeOK, RowState
<1>2. fanouts \in [Msg -> Nat]
  BY DEF FanoutInv, FanoutTypeOK
<1>3. Life!Next \/ UNCHANGED <<now, phase, dueAt, keepUntil, fanouts>>
  BY LifeStep DEF LivingStep, FanoutNext
<1>4. ASSUME NEW m \in Msg, Publish(m)
      PROVE  /\ m \in public \ announced /\ announced' = announced \cup {m}
             /\ Send(TopicOf[m], m)
             /\ UNCHANGED public
  <2>1. Send(TopicOf[m], m) /\ fanouts' = [fanouts EXCEPT ![m] = @ + 1]
    BY <1>4 DEF Publish
  <2>2. fanouts' # fanouts
    BY <1>2, <2>1
  <2>3. PICK o \in Msg : Life!Announce(o)
    BY <1>3, <2>2 DEF Life!Next, Life!Accept, Life!Reveal, Life!Forget, Life!Tick
  <2>4. /\ phase[o] \in Shown /\ fanouts[o] = 0
        /\ fanouts' = [fanouts EXCEPT ![o] = 1] /\ phase' = phase
    BY <2>3 DEF Life!Announce, phase
  <2>5. o = m
    BY <1>2, <2>1, <2>4
  <2>6. m \in public /\ public' = public
    BY <1>1, <2>4, <2>5
  <2>7. m \notin announced /\ announced' = announced \cup {m}
    BY <1>2, <2>4, <2>5 DEF announced
  <2>8. QED
    BY <2>1, <2>6, <2>7
<1>5. ASSUME UNCHANGED <<fanouts, chan>>
      PROVE  /\ public' = public \/ \E m \in Msg : m \notin public /\ public' = public \cup {m}
             /\ UNCHANGED announced
  <2>1. UNCHANGED announced
    BY <1>5 DEF announced
  <2>2. ASSUME NEW m \in Msg, Life!Accept(m) \/ Life!Reveal(m)
        PROVE  public' = public \/ (m \notin public /\ public' = public \cup {m})
    <3>1. /\ phase[m] \notin Shown
          /\ \/ phase' = [phase EXCEPT ![m] = "waiting"]
             \/ phase' = [phase EXCEPT ![m] = "visible"]
      BY <2>2 DEF Life!Accept, Life!Reveal, phase
    <3>2. QED
      BY <1>1, <3>1
  <2>3. ASSUME NEW m \in Msg, Life!Announce(m) PROVE public' = public
    BY <1>1, <2>3 DEF Life!Announce, phase
  <2>4. ASSUME NEW gone \in SUBSET Msg, Life!Forget(gone) PROVE public' = public
    <3>1. \A m \in gone : phase[m] \in {"waiting", "visible"}
      BY <2>4 DEF Life!Forget, phase
    <3>2. phase' = [m \in Msg |-> IF m \notin gone THEN phase[m]
                                  ELSE IF phase[m] = "waiting" THEN "dropped"
                                  ELSE "forgotten"]
      BY <2>4 DEF Life!Forget, phase
    <3>3. QED
      BY <1>1, <3>1, <3>2
  <2>5. ASSUME Life!Tick PROVE public' = public
    <3>1. phase' = phase
      BY <2>5 DEF Life!Tick, phase
    <3>2. QED
      BY <1>1, <3>1
  <2>6. ASSUME UNCHANGED phase PROVE public' = public
    BY <1>1, <2>6
  <2>7. QED
    BY <1>3, <2>1, <2>2, <2>3, <2>4, <2>5, <2>6 DEF Life!Next
<1>6. (\E m \in Msg : Publish(m)) \/ UNCHANGED <<fanouts, chan>>
  <2>1. (\E m \in Msg : Publish(m)) \/ UNCHANGED fanouts
    BY SentStep DEF LivingStep, FanoutNext
  <2>2. QED
    BY <2>1, WriteStep
<1>7. QED
  BY <1>4, <1>5, <1>6


\* The positions a connection has are on the channels of topics it wants.
LEMMA Places ==
  ASSUME DeliveryInv, NEW c \in Client
  PROVE  /\ Joined(c) \subseteq Topic
         /\ \A t \in Topic :
              /\ cursor[c][t] \in Nat /\ cursor[c][t] <= End(t)
              /\ chan[t] \in Seq(Msg) /\ End(t) = Len(chan[t]) /\ End(t) \in Nat
  BY WantsAssumption
     DEF DeliveryInv, TypeOK, FanoutTypeOK, BroadcastTypeOK, ChannelInv, Joined, End

\* A server that lives on shows a message, announces one, or does nothing here.
LEMMA LivingFeeds ==
  ASSUME DeliveryInv, FanoutInv, LivingStep, UNCHANGED clientVars
  PROVE  FeedOf!Next \/ UNCHANGED <<public, announced, joined, cached, queue, got>>
<1> USE DEF clientVars, connVars, memoryVars
<1>1. UNCHANGED <<joined, cached, got>> /\ \A c \in Client : Joined(c)' = Joined(c)
  BY DEF joined, Joined
<1>2. ASSUME chan' = chan PROVE queue' = queue
  BY <1>1, <1>2 DEF queue, Queue, End
<1>3. ASSUME NEW m \in Msg, m \notin public, public' = public \cup {m},
             UNCHANGED <<announced, chan>>
      PROVE  FeedOf!Next
  BY <1>1, <1>2, <1>3 DEF FeedOf!Next, FeedOf!Reveal, public, announced, joined, queue
<1>4. ASSUME NEW m \in Msg, m \in public \ announced, announced' = announced \cup {m},
             Send(TopicOf[m], m), UNCHANGED public
      PROVE  FeedOf!Next
  <2>1. ASSUME NEW c \in Client, NEW t \in Topic
        PROVE  Queue(c, t)' = IF t = TopicOf[m] /\ t \in Joined(c) THEN Append(Queue(c, t), m)
                              ELSE Queue(c, t)
    <3>1. /\ cursor[c][t] \in Nat /\ cursor[c][t] <= Len(chan[t]) /\ chan[t] \in Seq(Msg)
          /\ chan \in [Topic -> Seq(Msg)]
      BY Places DEF DeliveryInv, TypeOK, FanoutTypeOK, BroadcastTypeOK
    <3>2. chan'[t] = IF t = TopicOf[m] THEN Append(chan[t], m) ELSE chan[t]
      BY <1>4, <3>1 DEF Send
    <3>3. SubSeq(Append(chan[t], m), cursor[c][t] + 1, Len(Append(chan[t], m)))
            = Append(SubSeq(chan[t], cursor[c][t] + 1, Len(chan[t])), m)
      BY <3>1, QueueAppend
    <3>4. QED
      BY <1>1, <3>2, <3>3 DEF Queue, End
  <2>2. queue' = [c \in Client |-> [t \in Topic |->
                    IF t = TopicOf[m] /\ t \in joined[c] THEN Append(queue[c][t], m)
                    ELSE queue[c][t]]]
    BY <2>1 DEF queue, joined
  <2>3. FeedOf!Announce(m)
    BY <1>1, <1>4, <2>2 DEF FeedOf!Announce, public, announced, joined, queue
  <2>4. QED
    BY <2>3 DEF FeedOf!Next
<1>5. QED
  BY <1>1, <1>2, <1>3, <1>4, WriteFeeds

\* A connection that ends, and a crash, close streams.
LEMMA HangupCloses ==
  ASSUME NEW gone \in SUBSET Client, Hangup(gone), UNCHANGED <<public, announced>>,
         chan' = chan \/ gone = Client
  PROVE  FeedOf!Close(gone)
<1>1. cached' = [c \in Client |-> IF c \in gone THEN {} ELSE cached[c]]
  BY DEF Hangup
<1>2. \A c \in Client : Joined(c)' = IF c \in gone THEN {} ELSE Joined(c)
  BY DEF Hangup, Joined
<1>3. \A c \in Client, t \in Topic : Queue(c, t)' = IF c \in gone THEN <<>> ELSE Queue(c, t)
  BY <1>2 DEF Hangup, Queue, End
<1>4. joined' = [c \in Client |-> IF c \in gone THEN {} ELSE joined[c]]
  BY <1>2 DEF joined
<1>5. queue' = [c \in Client |-> IF c \in gone THEN [t \in Topic |-> <<>>] ELSE queue[c]]
  BY <1>3 DEF queue
<1>6. QED
  BY <1>1, <1>4, <1>5 DEF FeedOf!Close, public, announced, joined, queue

\* A connection that is only opened has joined nothing.
LEMMA ConnectFeeds ==
  ASSUME NEW c \in Client, NEW s \in Since, NEW kind \in {"opening", "polling"},
         Connect(c, s, kind), DeliveryInv
  PROVE  UNCHANGED <<public, announced, joined, cached, queue, got>>
<1>1. UNCHANGED <<fanoutVars, at, cached, cursor, got>>
  BY DEF Connect, memoryVars
<1>2. UNCHANGED <<public, announced, chan>>
  BY <1>1 DEF public, LifePhase, announced, fanoutVars, storeVars
<1>3. \A d \in Client : Joined(d)' = Joined(d)
  <2>1. \A d \in Client \ {c} : conn'[d] = conn[d] /\ todo'[d] = todo[d]
    BY DEF Connect, DeliveryInv, TypeOK
  <2>2. conn[c] = "off" /\ todo'[c] = Wants[c]
    BY DEF Connect, DeliveryInv, TypeOK
  <2>3. QED
    BY <1>1, <2>1, <2>2 DEF Joined
<1>4. QED
  BY <1>1, <1>2, <1>3 DEF joined, queue, Queue, End

\* The look-up of an anchor gives the client nothing.
LEMMA SeekAnchorFeeds ==
  ASSUME NEW c \in Client, NEW t \in Topic, SeekAnchor(c, t)
  PROVE  UNCHANGED <<public, announced, joined, cached, queue, got>>
<1>1. UNCHANGED <<fanoutVars, conn, todo, at, cached, cursor, got>>
  BY DEF SeekAnchor, memoryVars
<1>2. UNCHANGED <<public, announced, chan>>
  BY <1>1 DEF public, LifePhase, announced, fanoutVars, storeVars
<1>3. QED
  BY <1>1, <1>2 DEF joined, Joined, queue, Queue, End

\* A step that leaves the write side alone leaves the public and the channels.
LEMMA WriteSideAlone ==
  ASSUME UNCHANGED fanoutVars
  PROVE  UNCHANGED <<public, announced, chan>> /\ \A t \in Topic : End(t)' = End(t)
  BY DEF public, LifePhase, announced, fanoutVars, storeVars, End

\* A cache read is for a topic that is not joined yet.
LEMMA ResolveSinceFeeds ==
  ASSUME DeliveryInv, FanoutInv, NEW c \in Client, NEW t \in Topic, ResolveSince(c, t)
  PROVE  FeedOf!Next
<1> DEFINE ms == Query(c, t)
<1>1. /\ UNCHANGED <<fanoutVars, conn, cursor, got>>
      /\ conn[c] # "off" /\ t \in todo[c] /\ at[c] = NoTopic
      /\ cached' = [cached EXCEPT ![c] = @ \cup ms]
      /\ todo' = [todo EXCEPT ![c] = @ \ {t}] /\ at' = [at EXCEPT ![c] = t]
  BY DEF ResolveSince, Before
<1>2. UNCHANGED <<public, announced, chan>> /\ \A u \in Topic : End(u)' = End(u)
  BY <1>1, WriteSideAlone
<1>3. ms \in SUBSET public /\ \A m \in ms : TopicOf[m] = t
  <2>1. since[c] \in Since
    BY DEF DeliveryInv, TypeOK
  <2>2. ms \subseteq {m \in Msg : TopicOf[m] = t} /\ \A m \in ms : Public(m)
    BY <2>1, QueryIsPublic
  <2>3. QED
    BY <2>2 DEF Public, public, LifePhase
<1>4. t \notin Joined(c)
  BY <1>1 DEF Joined
<1>5. \A d \in Client : Joined(d)' = Joined(d)
  <2>1. Wants[c] \subseteq Topic /\ NoTopic \notin Topic
    BY WantsAssumption, NoTopicAssumption
  <2>2. ASSUME NEW d \in Client \ {c} PROVE Joined(d)' = Joined(d)
    BY <1>1 DEF Joined, DeliveryInv, TypeOK
  <2>3. Joined(c) = Wants[c] \ (todo[c] \cup {NoTopic})
    BY <1>1 DEF Joined
  <2>4. Joined(c)' = Wants[c] \ ((todo[c] \ {t}) \cup {t})
    BY <1>1 DEF Joined, DeliveryInv, TypeOK
  <2>5. QED
    BY <1>1, <2>1, <2>2, <2>3, <2>4
<1>6. UNCHANGED <<joined, queue>>
  BY <1>1, <1>2, <1>5 DEF joined, queue, Queue
<1> HIDE DEF ms
<1>7. FeedOf!Read(c, t, ms)
  BY <1>1, <1>2, <1>3, <1>4, <1>6 DEF FeedOf!Read, public, announced, joined, queue
<1>8. QED
  BY <1>3, <1>7 DEF FeedOf!Next, public

\* A new receiver is an empty queue.
LEMMA AttachFeeds ==
  ASSUME DeliveryInv, NEW c \in Client, Attach(c)
  PROVE  FeedOf!Next
<1>0. PICK t \in Topic : t = at[c]
  BY DEF Attach, DeliveryInv, TypeOK
<1>1. /\ UNCHANGED <<fanoutVars, todo, cached, got>>
      /\ conn[c] # "off" /\ t # NoTopic
      /\ cursor' = [cursor EXCEPT ![c][t] = End(t)]
      /\ at' = [at EXCEPT ![c] = NoTopic]
      /\ conn' = IF conn[c] = "opening" /\ todo[c] = {} THEN [conn EXCEPT ![c] = "live"]
                 ELSE conn
  BY <1>0, NoTopicAssumption DEF Attach, memoryVars, DeliveryInv, ConnInv
<1>2. UNCHANGED <<public, announced, chan>> /\ \A u \in Topic : End(u)' = End(u)
  BY <1>1, WriteSideAlone
<1>3. t \in Wants[c] \ todo[c]
  BY <1>0, <1>1 DEF DeliveryInv, TypeOK, ConnInv
<1>4. t \notin Joined(c)
  BY <1>0 DEF Joined
<1>5. \A d \in Client : Joined(d)' = IF d = c THEN Joined(d) \cup {t} ELSE Joined(d)
  <2>1. Wants[c] \subseteq Topic /\ NoTopic \notin Topic
    BY WantsAssumption, NoTopicAssumption
  <2>2. conn'[c] # "off" /\ \A d \in Client \ {c} : conn'[d] = conn[d]
    BY <1>1 DEF DeliveryInv, TypeOK
  <2>3. ASSUME NEW d \in Client \ {c} PROVE Joined(d)' = Joined(d)
    BY <1>1, <2>2 DEF Joined, DeliveryInv, TypeOK
  <2>4. Joined(c)' = Wants[c] \ (todo[c] \cup {NoTopic})
    BY <1>1, <2>2 DEF Joined, DeliveryInv, TypeOK
  <2>5. Joined(c) = Wants[c] \ (todo[c] \cup {t})
    BY <1>0, <1>1 DEF Joined
  <2>6. QED
    BY <1>3, <2>1, <2>3, <2>4, <2>5
<1>6. joined' = [joined EXCEPT ![c] = @ \cup {t}]
  BY <1>5 DEF joined
<1>7. \A d \in Client, u \in Topic : Queue(d, u)' = Queue(d, u)
  <2>1. Queue(c, t)' = <<>>
    <3>1. cursor'[c][t] = End(t) /\ End(t) \in Nat /\ End(t)' = End(t)
      BY <1>1, <1>2, Places DEF DeliveryInv, TypeOK
    <3>2. SubSeq(chan[t], End(t) + 1, End(t)) = <<>>
      BY <3>1, SubSeqEmpty
    <3>3. QED
      BY <1>2, <3>1, <3>2 DEF Queue
  <2>2. ASSUME NEW d \in Client, NEW u \in Topic, d # c \/ u # t
        PROVE  Queue(d, u)' = Queue(d, u)
    <3>1. cursor'[d][u] = cursor[d][u]
      BY <1>1, <1>3, <2>2 DEF DeliveryInv, TypeOK
    <3>2. u \in Joined(d)' <=> u \in Joined(d)
      BY <1>5, <2>2
    <3>3. QED
      BY <1>2, <3>1, <3>2 DEF Queue
  <2>3. Queue(c, t) = <<>>
    BY <1>4 DEF Queue
  <2>4. QED
    BY <2>1, <2>2, <2>3
<1>8. UNCHANGED queue
  BY <1>7 DEF queue
<1>9. t \notin joined[c]
  BY <1>4 DEF joined
<1>10. FeedOf!Join(c, t)
  BY <1>1, <1>2, <1>6, <1>8, <1>9 DEF FeedOf!Join, public, announced, joined, queue
<1>11. QED
  BY <1>10 DEF FeedOf!Next


\* A stream begins with the messages read before.
LEMMA ReplayFeeds ==
  ASSUME DeliveryInv, NEW c \in Client, NEW m \in Msg, Replay(c, m)
  PROVE  FeedOf!Next
<1>1. /\ UNCHANGED <<fanoutVars, conn, todo, at, cursor>>
      /\ m \in cached[c] /\ cached' = [cached EXCEPT ![c] = @ \ {m}]
      /\ got' = [got EXCEPT ![c] = @ \cup {m}]
  BY DEF Replay, Receive
<1>2. UNCHANGED <<public, announced, chan>> /\ \A t \in Topic : End(t)' = End(t)
  BY <1>1, WriteSideAlone
<1>3. UNCHANGED <<joined, queue>>
  BY <1>1, <1>2 DEF joined, queue, Queue, Joined
<1>4. FeedOf!SendRead(c, m)
  BY <1>1, <1>2, <1>3 DEF FeedOf!SendRead, public, announced, joined, queue
<1>5. QED
  BY <1>4 DEF FeedOf!Next

\* What a receiver that has something to yield looks like as a queue.
LEMMA ReadableQueue ==
  ASSUME DeliveryInv, NEW c \in Client, NEW t \in Topic, Readable(c, t)
  PROVE  /\ t \in Joined(c) /\ cached[c] = {}
         /\ Queue(c, t) = SubSeq(chan[t], cursor[c][t] + 1, Len(chan[t]))
         /\ chan[t] \in Seq(Msg) /\ cursor[c][t] \in Nat /\ cursor[c][t] < Len(chan[t])
         /\ Len(Queue(c, t)) = Len(chan[t]) - cursor[c][t]
<1>1. /\ chan[t] \in Seq(Msg) /\ cursor[c][t] \in Nat /\ cursor[c][t] < Len(chan[t])
      /\ conn[c] = "live" /\ cached[c] = {} /\ t \in Wants[c]
  BY Places DEF Readable, End
<1>2. todo[c] = {} /\ at[c] = NoTopic
  BY <1>1 DEF DeliveryInv, ConnInv
<1>3. t \in Joined(c)
  BY <1>1, <1>2, NoTopicAssumption DEF Joined
<1>4. Queue(c, t) = SubSeq(chan[t], cursor[c][t] + 1, Len(chan[t]))
  BY <1>3 DEF Queue, End
<1>5. Len(Queue(c, t)) = Len(chan[t]) - cursor[c][t]
  BY <1>1, <1>4, QueueElements
<1>6. QED
  BY <1>1, <1>3, <1>4, <1>5

\* Moving one receiver changes one queue.
LEMMA OneQueueMoves ==
  ASSUME DeliveryInv, NEW c \in Client, NEW t \in Topic, NEW p \in Nat, t \in Joined(c),
         UNCHANGED <<fanoutVars, conn, todo, at>>,
         cursor' = [cursor EXCEPT ![c][t] = p]
  PROVE  /\ UNCHANGED <<public, announced, joined>>
         /\ queue' = [queue EXCEPT ![c][t] = SubSeq(chan[t], p + 1, Len(chan[t]))]
<1>1. UNCHANGED <<public, announced, chan>> /\ \A u \in Topic : End(u)' = End(u)
  BY WriteSideAlone
<1>2. \A d \in Client : Joined(d)' = Joined(d)
  BY DEF Joined
<1>3. Queue(c, t)' = SubSeq(chan[t], p + 1, Len(chan[t]))
  BY <1>1, <1>2 DEF Queue, End, DeliveryInv, TypeOK
<1>4. ASSUME NEW d \in Client, NEW u \in Topic, d # c \/ u # t
      PROVE  Queue(d, u)' = Queue(d, u)
  <2>1. cursor'[d][u] = cursor[d][u]
    BY <1>4 DEF DeliveryInv, TypeOK
  <2>2. QED
    BY <1>1, <1>2, <2>1 DEF Queue
<1>5. queue' = [queue EXCEPT ![c][t] = SubSeq(chan[t], p + 1, Len(chan[t]))]
  BY <1>3, <1>4 DEF queue
<1>6. QED
  BY <1>1, <1>2, <1>5 DEF joined

\* A receiver that does not lag yields the head of its queue.
LEMMA RecvFeeds ==
  ASSUME DeliveryInv, NEW c \in Client, NEW t \in Topic, Recv(c, t)
  PROVE  FeedOf!Next
<1>1. /\ UNCHANGED <<fanoutVars, conn, todo, at, cached>>
      /\ Readable(c, t) /\ ~Lagged(t, cursor[c][t])
      /\ cursor' = [cursor EXCEPT ![c][t] = cursor[c][t] + 1]
      /\ got' = [got EXCEPT ![c] = @ \cup {chan[t][cursor[c][t] + 1]}]
  BY DEF Recv, Receive, DeliveryInv, TypeOK
<1>2. /\ t \in Joined(c) /\ cached[c] = {}
      /\ Queue(c, t) = SubSeq(chan[t], cursor[c][t] + 1, Len(chan[t]))
      /\ chan[t] \in Seq(Msg) /\ cursor[c][t] \in Nat /\ cursor[c][t] < Len(chan[t])
      /\ Len(Queue(c, t)) = Len(chan[t]) - cursor[c][t]
  BY <1>1, ReadableQueue
<1>3. /\ Queue(c, t) # <<>> /\ Head(Queue(c, t)) = chan[t][cursor[c][t] + 1]
      /\ Tail(Queue(c, t)) = SubSeq(chan[t], cursor[c][t] + 1 + 1, Len(chan[t]))
  BY <1>2, QueueTake
<1>4. Len(Queue(c, t)) <= Capacity
  BY <1>1, <1>2, CapacityAssumption DEF Lagged
<1>5. /\ UNCHANGED <<public, announced, joined>>
      /\ queue' = [queue EXCEPT ![c][t] = Tail(Queue(c, t))]
  <2> DEFINE p == cursor[c][t] + 1
  <2>1. p \in Nat /\ cursor' = [cursor EXCEPT ![c][t] = p]
    BY <1>1, <1>2
  <2> HIDE DEF p
  <2>2. queue' = [queue EXCEPT ![c][t] = SubSeq(chan[t], p + 1, Len(chan[t]))]
        /\ UNCHANGED <<public, announced, joined>>
    BY <1>1, <1>2, <2>1, OneQueueMoves
  <2>3. QED
    BY <1>3, <2>2 DEF p
<1>6. queue[c][t] = Queue(c, t) /\ queue' = [queue EXCEPT ![c][t] = Tail(@)]
  BY <1>5 DEF queue
<1>7. FeedOf!SendQueued(c, t)
  BY <1>1, <1>2, <1>3, <1>4, <1>5, <1>6
     DEF FeedOf!SendQueued, public, announced, joined, queue
<1>8. QED
  BY <1>7 DEF FeedOf!Next

\* A receiver that lags goes on with the end of its queue.
LEMMA LagFeeds ==
  ASSUME DeliveryInv, NEW c \in Client, NEW t \in Topic, Lag(c, t)
  PROVE  FeedOf!Next
<1>1. /\ UNCHANGED <<fanoutVars, conn, todo, at, cached, got>>
      /\ Readable(c, t) /\ Lagged(t, cursor[c][t])
      /\ cursor' = [cursor EXCEPT ![c][t] = Oldest(t)]
  BY DEF Lag
<1>2. /\ t \in Joined(c) /\ cached[c] = {}
      /\ Queue(c, t) = SubSeq(chan[t], cursor[c][t] + 1, Len(chan[t]))
      /\ chan[t] \in Seq(Msg) /\ cursor[c][t] \in Nat /\ cursor[c][t] < Len(chan[t])
      /\ Len(Queue(c, t)) = Len(chan[t]) - cursor[c][t]
  BY <1>1, ReadableQueue
<1>3. Len(chan[t]) - cursor[c][t] > Capacity /\ Capacity \in Nat \ {0}
  BY <1>1, CapacityAssumption DEF Lagged
<1>4. Oldest(t) = Len(chan[t]) - Capacity /\ Oldest(t) \in Nat
  BY <1>2, <1>3 DEF Oldest
<1> DEFINE kept(q) == SubSeq(q, Len(q) - Capacity + 1, Len(q))
<1>5. kept(Queue(c, t)) = SubSeq(chan[t], Oldest(t) + 1, Len(chan[t]))
  <2> DEFINE p == cursor[c][t]
             q == SubSeq(chan[t], p + 1, Len(chan[t]))
  <2>1. SubSeq(q, Len(q) - Capacity + 1, Len(q))
          = SubSeq(chan[t], Len(chan[t]) - Capacity + 1, Len(chan[t]))
    BY <1>2, <1>3, QueueRetained
  <2>2. QED
    BY <1>2, <1>4, <2>1
<1>6. /\ UNCHANGED <<public, announced, joined>>
      /\ queue' = [queue EXCEPT ![c][t] = SubSeq(chan[t], Oldest(t) + 1, Len(chan[t]))]
  BY <1>1, <1>2, <1>4, OneQueueMoves
<1>7. queue[c][t] = Queue(c, t) /\ queue' = [queue EXCEPT ![c][t] = kept(@)]
  BY <1>5, <1>6 DEF queue
<1>8. FeedOf!Skip(c, t)
  BY <1>1, <1>2, <1>3, <1>6, <1>7 DEF FeedOf!Skip, public, announced, joined, queue
<1>9. QED
  BY <1>8 DEF FeedOf!Next

\* A poll is answered with what was read for it.
LEMMA AnswerPollFeeds ==
  ASSUME DeliveryInv, NEW c \in Client, AnswerPoll(c)
  PROVE  FeedOf!Next
<1>1. UNCHANGED <<public, announced, chan>>
  BY WriteSideAlone DEF AnswerPoll
<1>2. FeedOf!Close({c})
  BY <1>1, HangupCloses DEF AnswerPoll
<1>3. FeedOf!Answer(c)
  BY <1>2 DEF AnswerPoll, FeedOf!Answer
<1>4. QED
  BY <1>3 DEF FeedOf!Next

\* For any clients, wishes, messages, topics, capacities and crashes, the read
\* side with its shared ring buffers is a feed with a queue for each receiver.
THEOREM DeliveryImplementsFeed == Spec => ImplementsFeed
<1>1. Init => FeedOf!Init
  <2> SUFFICES ASSUME Init PROVE FeedOf!Init
    OBVIOUS
  <2>1. /\ conn = [c \in Client |-> "off"] /\ cached = [c \in Client |-> {}]
        /\ got = [c \in Client |-> {}]
        /\ row = [m \in Msg |-> "none"] /\ fanouts = [m \in Msg |-> 0]
    BY DEF Init, FanoutInit, StoreInit
  <2>2. \A m \in Msg : LifePhase(m) = "unknown"
    BY <2>1 DEF LifePhase
  <2>3. \A c \in Client : Joined(c) = {}
    BY <2>1 DEF Joined
  <2>4. QED
    BY <2>1, <2>2, <2>3 DEF FeedOf!Init, Queue
<1>2. DeliveryInv /\ FanoutInv /\ [Next]_vars => [FeedOf!Next]_(FeedOf!vars)
  <2> SUFFICES ASSUME DeliveryInv, FanoutInv, [Next]_vars
               PROVE  FeedOf!Next \/ UNCHANGED <<public, announced, joined, cached, queue, got>>
    BY DEF FeedOf!vars, public, announced, joined, queue
  <2>1. CASE LivingStep /\ UNCHANGED clientVars
    BY <2>1, LivingFeeds
  <2>2. CASE Crash /\ Hangup(Client) /\ UNCHANGED memoryVars
    <3>1. UNCHANGED <<public, announced>>
      BY <2>2 DEF Crash, public, LifePhase, announced, storeVars
    <3>2. FeedOf!Close(Client)
      BY <2>2, <3>1, HangupCloses
    <3>3. QED
      BY <2>2, <3>2 DEF FeedOf!Next, memoryVars
  <2>3. ASSUME NEW c \in Client, ClientStep(c)
        PROVE  FeedOf!Next \/ UNCHANGED <<public, announced, joined, cached, queue, got>>
    <3>1. ASSUME NEW s \in Since, NEW kind \in {"opening", "polling"}, Connect(c, s, kind)
          PROVE  UNCHANGED <<public, announced, joined, cached, queue, got>>
      BY <3>1, ConnectFeeds
    <3>2. CASE Disconnect(c)
      <4>1. FeedOf!Close({c})
        BY <3>2, HangupCloses, WriteSideAlone DEF Disconnect
      <4>2. QED
        BY <3>2, <4>1 DEF FeedOf!Next, Disconnect, memoryVars
    <3>3. QED
      BY <2>3, <3>1, <3>2, SeekAnchorFeeds, ResolveSinceFeeds, AttachFeeds, ReplayFeeds,
         RecvFeeds, LagFeeds, AnswerPollFeeds DEF ClientStep
  <2>4. QED
    BY <2>1, <2>2, <2>3 DEF Next, ServerStep, LivingStep, vars
<1>3. QED
  BY <1>1, <1>2, DeliveryInvariant, DeliveryRefinesFanout, FanoutInvariant, PTL
     DEF Spec, ImplementsFeed, FeedOf!Spec

=============================================================================
