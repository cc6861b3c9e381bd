---------------------------- MODULE FanoutProofs ----------------------------
(***************************************************************************)
(* Proofs about the write side, for any messages, topics, durations and    *)
(* bounds, and integers of any width: delays, the invariant of handlers    *)
(* and manager, what follows from it, and the refinement of MessageLife.   *)
(***************************************************************************)
EXTENDS Fanout, TLAPS

-----------------------------------------------------------------------------
(* Delays.                                                                 *)

\* What the type can hold does not wrap, and what wraps is held by the type.
LEMMA WrapFits ==
  ASSUME NEW x \in Int
  PROVE  Wrap(x) \in Signed /\ (x \in Signed => Wrap(x) = x)
<1>1. \A d \in Nat \ {0}, y \in Int : y % d \in 0 .. d - 1
  OBVIOUS
<1>2. \A d \in Nat \ {0} : \A y \in 0 .. d - 1 : y % d = y
  OBVIOUS
<1>3. 2 * Half \in Nat \ {0} /\ x + Half \in Int
  BY DelayAssumption
<1>4. (x + Half) % (2 * Half) \in 0 .. 2 * Half - 1
  BY <1>1, <1>3
<1>5. ASSUME x \in Signed PROVE (x + Half) % (2 * Half) = x + Half
  <2>1. x + Half \in 0 .. 2 * Half - 1
    BY <1>5, DelayAssumption DEF Signed
  <2>2. QED
    BY <1>2, <1>3, <2>1
<1>6. QED
  BY <1>4, <1>5, DelayAssumption DEF Wrap, Signed

\* A natural number of the type is itself when read unsigned.
LEMMA UnsignedFits ==
  ASSUME NEW x \in 0 .. Half - 1
  PROVE  AsUnsigned(x) = x
<1>1. \A d \in Nat \ {0} : \A y \in 0 .. d - 1 : y % d = y
  OBVIOUS
<1>2. 2 * Half \in Nat \ {0} /\ x \in 0 .. 2 * Half - 1
  BY DelayAssumption
<1>3. QED
  BY <1>1, <1>2 DEF AsUnsigned

\* What validate_delay decides, said without machine arithmetic: the distance
\* to a time in the future fits both types.
LEMMA ValidateExact ==
  ASSUME NEW clock \in 0 .. Half - 1, NEW max \in Unsigned, NEW ts \in Signed
  PROVE  /\ Validate(ts, clock, max).at = ts
         /\ Validate(ts, clock, max).fate =
              IF ts <= clock THEN "immediate"
              ELSE IF ts > clock + max THEN "refused" ELSE "delayed"
<1>1. CASE ts <= clock
  BY <1>1 DEF Validate
<1>2. CASE ts > clock
  <2>1. ts - clock \in 0 .. Half - 1 /\ ts - clock \in Signed /\ ts - clock \in Int
    BY <1>2, DelayAssumption DEF Signed
  <2>2. AsUnsigned(Wrap(ts - clock)) = ts - clock
    BY <2>1, WrapFits, UnsignedFits
  <2>3. ts - clock > max <=> ts > clock + max
    BY <2>1, DelayAssumption DEF Signed, Unsigned
  <2>4. ~(ts <= clock)
    BY <1>2, DelayAssumption DEF Signed
  <2>5. QED
    BY <2>2, <2>3, <2>4 DEF Validate
<1>3. QED
  BY <1>1, <1>2, DelayAssumption DEF Signed

\* Whatever the client sends, validate_delay is handed an i64, and the one the
\* client means where that fits an i64 all along.
LEMMA ParsedValidates ==
  ASSUME NEW clock \in 0 .. Half - 1, NEW max \in Unsigned, NEW h \in Header,
         h.form # "garbage"
  PROVE  \E ts \in Signed :
           /\ Parsed(h, clock, max) = Validate(ts, clock, max)
           /\ Meant(h, clock) \in Signed
                /\ (h.form = "duration" => h.n * h.unit \in Signed)
                => ts = Meant(h, clock)
<1>1. CASE h.form = "instant"
  <2>1. h.n \in Signed
    BY <1>1 DEF Header
  <2>2. QED
    BY <1>1, <2>1 DEF Parsed, Meant
<1>2. CASE h.form = "duration"
  <2>1. h.n \in Signed /\ h.unit \in Unit
    BY <1>2 DEF Header
  <2>2. h.n * h.unit \in Int
    <3>1. \A a, b \in Int : a * b \in Int
      OBVIOUS
    <3>2. h.n \in Int
      BY <2>1, DelayAssumption DEF Signed
    <3>3. h.unit \in Int
      <4>1. h.unit \in 1 .. Half - 1
        BY <2>1, DelayAssumption
      <4>2. QED
        BY <4>1
    <3>4. QED
      BY <3>1, <3>2, <3>3
  <2> DEFINE secs == Wrap(h.n * h.unit)
  <2>3. secs \in Signed /\ (h.n * h.unit \in Signed => secs = h.n * h.unit)
    BY <2>2, WrapFits
  <2>4. clock + secs \in Int
    BY <2>3, DelayAssumption DEF Signed
  <2>5. /\ Wrap(clock + secs) \in Signed
        /\ clock + secs \in Signed => Wrap(clock + secs) = clock + secs
    BY <2>4, WrapFits
  <2>6. Meant(h, clock) = clock + h.n * h.unit
    BY <1>2 DEF Meant
  <2>7. Meant(h, clock) \in Signed /\ h.n * h.unit \in Signed
          => Wrap(clock + secs) = Meant(h, clock)
    BY <2>3, <2>5, <2>6
  <2>8. Parsed(h, clock, max) = Validate(Wrap(clock + secs), clock, max)
    BY <1>2 DEF Parsed
  <2> HIDE DEF secs
  <2>9. QED
    BY <1>2, <2>5, <2>7, <2>8
<1>3. QED
  BY <1>1, <1>2 DEF Header

-----------------------------------------------------------------------------

\* Whatever the client sends, and whatever overflows: a delayed message waits
\* for a time in the future that is within max_delay_secs (publish.rs:400-408).
THEOREM DelayIsBounded ==
  ASSUME NEW clock \in 0 .. Half - 1, NEW max \in Unsigned, NEW h \in Header,
         Parsed(h, clock, max).fate = "delayed"
  PROVE  /\ Parsed(h, clock, max).at \in Int
         /\ Parsed(h, clock, max).at > clock
         /\ Parsed(h, clock, max).at <= clock + max
<1>1. h.form # "garbage"
  BY DEF Parsed
<1>2. PICK ts \in Signed : Parsed(h, clock, max) = Validate(ts, clock, max)
  BY <1>1, ParsedValidates
<1>3. ts \in Int
  BY <1>2, DelayAssumption DEF Signed
<1>4. QED
  BY <1>2, <1>3, ValidateExact, DelayAssumption DEF Unsigned

\* SPEC.md:99 on what the client means, where that fits an i64 all along:
\* delays in the past are treated as immediate, delays beyond max_delay_secs
\* are refused, and every other one is kept to the second.
THEOREM MeantIsDone ==
  ASSUME NEW clock \in 0 .. Half - 1, NEW max \in Unsigned, NEW h \in Header,
         h.form # "garbage",
         Meant(h, clock) \in Signed,
         h.form = "duration" => h.n * h.unit \in Signed
  PROVE  IF Meant(h, clock) <= clock THEN Parsed(h, clock, max).fate = "immediate"
         ELSE IF Meant(h, clock) > clock + max THEN Parsed(h, clock, max).fate = "refused"
         ELSE Parsed(h, clock, max) = [fate |-> "delayed", at |-> Meant(h, clock)]
<1> DEFINE ts == Meant(h, clock)
<1>1. Parsed(h, clock, max) = Validate(ts, clock, max) /\ ts \in Signed /\ ts \in Int
  BY ParsedValidates, DelayAssumption DEF Signed
<1>2. /\ Validate(ts, clock, max).at = ts
      /\ Validate(ts, clock, max).fate =
           IF ts <= clock THEN "immediate"
           ELSE IF ts > clock + max THEN "refused" ELSE "delayed"
  BY <1>1, ValidateExact
<1>3. clock \in Int /\ max \in Int /\ clock <= clock + max
  BY DelayAssumption DEF Unsigned
<1>4. Validate(ts, clock, max) =
        [fate |-> Validate(ts, clock, max).fate, at |-> Validate(ts, clock, max).at]
  BY DEF Validate
<1> HIDE DEF ts
<1>5. QED
  BY <1>1, <1>2, <1>3, <1>4 DEF ts

-----------------------------------------------------------------------------
(* The invariant and the types of the write side.                          *)

\* What each stage of a request's handler says about its row and its sends.
HandlerInv ==
  \A m \in Msg :
    /\ pc[m] \in {"new", "stamped"} => row[m] = "none" /\ fanouts[m] = 0
    /\ pc[m] = "stored" =>
         /\ m \notin scheduled /\ fanouts[m] = 0
         /\ row[m] \in {"published", "deleted"} /\ m \notin unfired
    /\ pc[m] = "done" => row[m] # "none"
    /\ row[m] = "delayed" => pc[m] = "done" /\ m \in scheduled /\ fanouts[m] = 0

\* What the manager's place in its tick says about what it has fetched.
ManagerInv ==
  /\ mpc = "idle" => due = {}
  /\ mnow <= now
  /\ \A m \in due : row[m] = "delayed"
  /\ \A m \in Msg : cur = m =>
       row[m] = "published" /\ fanouts[m] = 0 /\ m \in scheduled /\ m \notin unfired

\* Times and the history of deletions.
TimeInv ==
  \A m \in Msg :
    /\ pc[m] # "new" /\ m \notin scheduled => time[m] <= now
    /\ pc[m] = "stamped" => now <= expires[m]
    /\ row[m] = "published" => time[m] <= now
    /\ m \in due => time[m] <= mnow
    /\ fanouts[m] > 0 =>
         /\ time[m] <= now /\ m \notin unfired
         /\ row[m] \in {"published", "deleted"}
    /\ row[m] = "deleted" => expires[m] < now
    /\ m \in unfired => row[m] = "deleted"

\* Whatever the rest of the tick will delete unfired has been fetched or has
\* failed: a row cannot slip in behind due_messages and be expired already.
TickInv ==
  mpc # "idle" =>
    \A m \in Msg :
      row[m] = "delayed" /\ time[m] <= expires[m] /\ expires[m] < mnow =>
        m \in due \cup unmarked

FanoutInv ==
  /\ FanoutTypeOK /\ HandlerInv /\ ManagerInv /\ TimeInv /\ TickInv
  /\ FanOutAtMostOnce /\ FiredBeforeDeletion

-----------------------------------------------------------------------------

\* Sending a message leaves the channels sequences of messages and the counts
\* natural numbers.
LEMMA PublishType ==
  ASSUME NEW m \in Msg, BroadcastTypeOK, fanouts \in [Msg -> Nat], Publish(m)
  PROVE  BroadcastTypeOK' /\ fanouts' \in [Msg -> Nat]
<1>1. TopicOf[m] \in Topic
  BY TopicOfAssumption
<1>2. Append(chan[TopicOf[m]], m) \in Seq(Msg)
  BY <1>1 DEF BroadcastTypeOK
<1>3. QED
  BY <1>1, <1>2 DEF Publish, Send, BroadcastTypeOK

\* A delayed message waits for a time within the maximum.
LEMMA DelayedTime ==
  ASSUME FanoutTypeOK, NEW m \in Msg, NEW h \in Header, ParseDelay(m, h)
  PROVE  /\ time' = [time EXCEPT ![m] = time'[m]]
         /\ time'[m] \in Nat
         /\ time'[m] > now /\ time'[m] <= now + MaxDelay
<1> DEFINE at == Parsed(h, now, MaxDelay).at
<1>1. time' = [time EXCEPT ![m] = at] /\ time'[m] = at
  BY DEF ParseDelay, FanoutTypeOK, StoreTypeOK
<1>2. now \in 0 .. Half - 1 /\ now \in Nat /\ MaxDelay \in Unsigned
  BY DurationAssumption, DelayAssumption DEF FanoutTypeOK
<1>3. Parsed(h, now, MaxDelay).fate = "delayed"
  BY DEF ParseDelay
<1>4. at \in Int /\ at > now /\ at <= now + MaxDelay
  BY <1>2, <1>3, DelayIsBounded
<1> HIDE DEF at
<1>5. time' = [time EXCEPT ![m] = time'[m]]
  BY <1>1
<1>6. at \in Nat
  BY <1>2, <1>4
<1>7. QED
  BY <1>1, <1>4, <1>5, <1>6

\* Every variable of the write side keeps its type.
THEOREM FanoutTypeCorrect == FanoutSpec => []FanoutTypeOK
<1>1. FanoutInit => FanoutTypeOK
  BY NoMsgAssumption, DurationAssumption, DelayAssumption
     DEF FanoutInit, StoreInit, BroadcastInit, FanoutTypeOK, StoreTypeOK,
         BroadcastTypeOK, RowState, HandlerState
<1>2. FanoutTypeOK /\ [FanoutNext]_fanoutVars => FanoutTypeOK'
  <2> SUFFICES ASSUME FanoutTypeOK, [FanoutNext]_fanoutVars
               PROVE  FanoutTypeOK'
    OBVIOUS
  <2> USE DEF FanoutTypeOK, StoreTypeOK, RowState, HandlerState, storeVars,
              handlerVars, managerVars, processVars
  <2>1. ASSUME NEW m \in Msg, Stamp(m) PROVE FanoutTypeOK'
    BY <2>1, DurationAssumption DEF Stamp, BroadcastTypeOK
  <2>0. ASSUME NEW m \in Msg, NEW h \in Header, ParseDelay(m, h)
        PROVE  FanoutTypeOK'
    <3>1. time'[m] \in Nat /\ time' = [time EXCEPT ![m] = time'[m]]
      BY <2>0, DelayedTime
    <3> DEFINE at == time'[m]
    <3> HIDE DEF at
    <3>2. time' \in [Msg -> Int]
      <4>1. at \in Nat /\ time' = [time EXCEPT ![m] = at]
        BY <3>1 DEF at
      <4>2. QED
        BY <4>1
    <3>3. /\ scheduled' = scheduled \cup {m}
          /\ UNCHANGED <<expires, row, unfired, chan, pc, fanouts, managerVars, processVars>>
      BY <2>0 DEF ParseDelay
    <3>4. QED
      BY <3>2, <3>3 DEF BroadcastTypeOK
  <2>2. ASSUME NEW m \in Msg, Persist(m) PROVE FanoutTypeOK'
    BY <2>2 DEF Persist, Insert, InsertDelayed, BroadcastTypeOK
  <2>3. ASSUME NEW m \in Msg, Refuse(m) PROVE FanoutTypeOK'
    BY <2>3 DEF Refuse, BroadcastTypeOK
  <2>4. ASSUME NEW m \in Msg, FanOut(m) PROVE FanoutTypeOK'
    BY <2>4, PublishType DEF FanOut
  <2>5. CASE ManagerTick
    BY <2>5 DEF ManagerTick, DueMessages, BroadcastTypeOK
  <2>6. ASSUME NEW m \in Msg, ManagerMark(m) PROVE FanoutTypeOK'
    BY <2>6 DEF ManagerMark, MarkPublished, BroadcastTypeOK
  <2>7. ASSUME NEW m \in Msg, ManagerMarkFails(m) PROVE FanoutTypeOK'
    BY <2>7 DEF ManagerMarkFails, BroadcastTypeOK
  <2>8. CASE ManagerSend
    <3>1. cur \in Msg /\ Publish(cur)
      BY <2>8 DEF ManagerSend
    <3>2. BroadcastTypeOK' /\ fanouts' \in [Msg -> Nat]
      BY <3>1, PublishType
    <3>3. QED
      BY <2>8, <3>2, NoMsgAssumption DEF ManagerSend
  <2>9. CASE ManagerExpire
    BY <2>9 DEF ManagerExpire, DeleteExpired, Expired, BroadcastTypeOK
  <2>10. CASE ClockTick
    BY <2>10, DurationAssumption, DelayAssumption DEF ClockTick, BroadcastTypeOK
  <2>11. CASE Crash
    BY <2>11, NoMsgAssumption DEF Crash, BroadcastTypeOK
  <2>12. CASE Restart
    BY <2>12 DEF Restart, BroadcastTypeOK
  <2>13. CASE UNCHANGED fanoutVars
    BY <2>13 DEF fanoutVars, BroadcastTypeOK
  <2>14. QED
    BY <2>0, <2>1, <2>2, <2>3, <2>4, <2>5, <2>6, <2>7, <2>8, <2>9, <2>10,
       <2>11, <2>12, <2>13 DEF FanoutNext, Handler, Manager
<1>3. QED
  BY <1>1, <1>2, PTL DEF FanoutSpec

-----------------------------------------------------------------------------
(* The inductive invariant.                                                *)

\* The inductive invariant holds initially.
LEMMA FanoutInvInit == FanoutInit => FanoutInv
<1> SUFFICES ASSUME FanoutInit PROVE FanoutInv
  OBVIOUS
<1>1. FanoutTypeOK
  BY NoMsgAssumption, DurationAssumption, DelayAssumption
     DEF FanoutInit, StoreInit, BroadcastInit, FanoutTypeOK, StoreTypeOK,
         BroadcastTypeOK, RowState, HandlerState
<1>2. QED
  BY <1>1, NoMsgAssumption
     DEF FanoutInit, StoreInit, FanoutInv, HandlerInv, ManagerInv, TimeInv,
         TickInv, FanOutAtMostOnce, FiredBeforeDeletion

\* The handler's steps keep the invariant.
LEMMA HandlerStep ==
  ASSUME FanoutInv, FanoutTypeOK', NEW m \in Msg, Handler(m)
  PROVE  FanoutInv'
<1> USE DEF FanoutInv, FanoutTypeOK, StoreTypeOK, RowState, HandlerState,
            storeVars, handlerVars, managerVars, processVars
<1>0. CASE Stamp(m)
  <2> USE <1>0, DurationAssumption DEF Stamp
  <2>1. HandlerInv'
    BY DEF HandlerInv
  <2>2. ManagerInv'
    BY DEF ManagerInv, HandlerInv
  <2>3. TimeInv'
    BY DEF TimeInv, HandlerInv, ManagerInv
  <2>4. TickInv'
    BY DEF TickInv, HandlerInv
  <2>5. FanOutAtMostOnce' /\ FiredBeforeDeletion'
    BY DEF FanOutAtMostOnce, FiredBeforeDeletion, TimeInv, HandlerInv
  <2>6. QED
    BY <2>1, <2>2, <2>3, <2>4, <2>5
<1>1. ASSUME NEW h \in Header, ParseDelay(m, h) PROVE FanoutInv'
  <2>0. /\ time' = [time EXCEPT ![m] = time'[m]]
        /\ time'[m] \in Nat
        /\ time'[m] > now /\ time'[m] <= now + MaxDelay
        /\ pc[m] = "stamped" /\ scheduled' = scheduled \cup {m}
        /\ UNCHANGED <<expires, row, unfired, chan, pc, fanouts, managerVars, processVars>>
    BY <1>1, DelayedTime DEF ParseDelay
  <2> USE <2>0, DurationAssumption
  <2>1. HandlerInv'
    BY DEF HandlerInv
  <2>2. ManagerInv'
    BY DEF ManagerInv, HandlerInv
  <2>3. TimeInv'
    BY DEF TimeInv, HandlerInv, ManagerInv
  <2>4. TickInv'
    BY DEF TickInv, HandlerInv
  <2>5. FanOutAtMostOnce' /\ FiredBeforeDeletion'
    BY DEF FanOutAtMostOnce, FiredBeforeDeletion, TimeInv, HandlerInv
  <2>6. QED
    BY <2>1, <2>2, <2>3, <2>4, <2>5
<1>2. CASE Persist(m)
  <2> USE <1>2 DEF Persist, Insert, InsertDelayed
  <2>1. HandlerInv'
    BY DEF HandlerInv, TimeInv
  <2>2. ManagerInv'
    BY DEF ManagerInv, HandlerInv
  <2>3. TimeInv'
    BY DEF TimeInv, HandlerInv, ManagerInv
  <2>4. TickInv'
    BY DEF TickInv, TimeInv, ManagerInv
  <2>5. FanOutAtMostOnce' /\ FiredBeforeDeletion'
    BY DEF FanOutAtMostOnce, FiredBeforeDeletion
  <2>6. QED
    BY <2>1, <2>2, <2>3, <2>4, <2>5
<1>3. CASE Refuse(m)
  BY <1>3 DEF Refuse, HandlerInv, ManagerInv, TimeInv, TickInv,
              FanOutAtMostOnce, FiredBeforeDeletion
<1>4. CASE FanOut(m)
  <2> USE <1>4 DEF FanOut, Publish
  <2>1. HandlerInv'
    BY DEF HandlerInv
  <2>2. ManagerInv'
    BY DEF ManagerInv, HandlerInv
  <2>3. TimeInv'
    BY DEF TimeInv, HandlerInv
  <2>4. TickInv' /\ FanOutAtMostOnce' /\ FiredBeforeDeletion'
    BY DEF TickInv, FanOutAtMostOnce, FiredBeforeDeletion, HandlerInv
  <2>5. QED
    BY <2>1, <2>2, <2>3, <2>4
<1>5. QED
  BY <1>0, <1>1, <1>2, <1>3, <1>4 DEF Handler

\* The manager's steps keep the invariant.
LEMMA ManagerStep ==
  ASSUME FanoutInv, FanoutTypeOK', Manager
  PROVE  FanoutInv'
<1> USE NoMsgAssumption
    DEF FanoutInv, FanoutTypeOK, StoreTypeOK, RowState, HandlerState,
        storeVars, handlerVars, managerVars, processVars
<1>1. CASE ManagerTick
  <2> USE <1>1 DEF ManagerTick, DueMessages
  <2>1. HandlerInv' /\ FanOutAtMostOnce' /\ FiredBeforeDeletion'
    BY DEF HandlerInv, FanOutAtMostOnce, FiredBeforeDeletion
  <2>2. ManagerInv'
    BY DEF ManagerInv
  <2>3. TimeInv'
    BY DEF TimeInv
  <2>4. TickInv'
    BY DEF TickInv
  <2>5. QED
    BY <2>1, <2>2, <2>3, <2>4
<1>2. ASSUME NEW m \in Msg, ManagerMark(m) PROVE FanoutInv'
  <2> USE <1>2 DEF ManagerMark, IsNextDue, MarkPublished
  <2>1. row[m] = "delayed" /\ time[m] <= now
    BY DEF ManagerInv, TimeInv
  <2>2. HandlerInv' /\ FanOutAtMostOnce' /\ FiredBeforeDeletion'
    BY <2>1 DEF HandlerInv, FanOutAtMostOnce, FiredBeforeDeletion
  <2>3. ManagerInv'
    BY <2>1 DEF ManagerInv, HandlerInv, TimeInv
  <2>4. TimeInv'
    BY <2>1 DEF TimeInv
  <2>5. TickInv'
    BY <2>1 DEF TickInv
  <2>6. QED
    BY <2>2, <2>3, <2>4, <2>5
<1>3. ASSUME NEW m \in Msg, ManagerMarkFails(m) PROVE FanoutInv'
  BY <1>3 DEF ManagerMarkFails, IsNextDue, HandlerInv, ManagerInv, TimeInv,
              TickInv, FanOutAtMostOnce, FiredBeforeDeletion
<1>4. CASE ManagerSend
  <2> USE <1>4 DEF ManagerSend, Publish
  <2>1. cur \in Msg /\ row[cur] = "published" /\ fanouts[cur] = 0
        /\ cur \in scheduled /\ cur \notin unfired
    BY DEF ManagerInv
  <2>2. HandlerInv' /\ FanOutAtMostOnce' /\ FiredBeforeDeletion'
    BY <2>1 DEF HandlerInv, FanOutAtMostOnce, FiredBeforeDeletion
  <2>3. ManagerInv'
    BY <2>1 DEF ManagerInv
  <2>4. TimeInv'
    BY <2>1 DEF TimeInv
  <2>5. TickInv'
    BY DEF TickInv
  <2>6. QED
    BY <2>2, <2>3, <2>4, <2>5
<1>5. CASE ManagerExpire
  <2> USE <1>5 DEF ManagerExpire
  <2>1. CASE UNCHANGED storeVars
    BY <2>1 DEF HandlerInv, ManagerInv, TimeInv, TickInv, FanOutAtMostOnce,
                FiredBeforeDeletion
  <2>2. CASE DeleteExpired(mnow)
    <3> USE <2>2 DEF DeleteExpired, Expired, Stored
    <3>1. HandlerInv'
      BY DEF HandlerInv
    <3>2. ManagerInv'
      BY DEF ManagerInv
    <3>3. TimeInv'
      BY DEF TimeInv, ManagerInv, HandlerInv
    <3>4. TickInv' /\ FanOutAtMostOnce'
      BY DEF TickInv, FanOutAtMostOnce
    <3>5. FiredBeforeDeletion'
      BY DEF FiredBeforeDeletion, TickInv
    <3>6. QED
      BY <3>1, <3>2, <3>3, <3>4, <3>5
  <2>3. QED
    BY <2>1, <2>2
<1>6. QED
  BY <1>1, <1>2, <1>3, <1>4, <1>5 DEF Manager

\* Time, crashes and restarts keep the invariant.
LEMMA EnvironmentStep ==
  ASSUME FanoutInv, FanoutTypeOK', ClockTick \/ Crash \/ Restart
  PROVE  FanoutInv'
<1> USE NoMsgAssumption
    DEF FanoutInv, FanoutTypeOK, StoreTypeOK, RowState, HandlerState,
        storeVars, handlerVars, managerVars, processVars
<1>1. CASE ClockTick
  <2> USE <1>1 DEF ClockTick
  <2>1. HandlerInv' /\ ManagerInv' /\ TickInv'
    BY DEF HandlerInv, ManagerInv, TickInv
  <2>2. TimeInv'
    BY DurationAssumption DEF TimeInv
  <2>3. FanOutAtMostOnce' /\ FiredBeforeDeletion'
    BY DEF FanOutAtMostOnce, FiredBeforeDeletion
  <2>4. QED
    BY <2>1, <2>2, <2>3
<1>2. CASE Crash
  BY <1>2 DEF Crash, HandlerInv, ManagerInv, TimeInv, TickInv,
              FanOutAtMostOnce, FiredBeforeDeletion
<1>3. CASE Restart
  BY <1>3 DEF Restart, HandlerInv, ManagerInv, TimeInv, TickInv,
              FanOutAtMostOnce, FiredBeforeDeletion
<1>4. QED
  BY <1>1, <1>2, <1>3

\* The invariant holds in every reachable state of the write side.
THEOREM FanoutInvariant == FanoutSpec => []FanoutInv
<1>1. FanoutInv /\ FanoutTypeOK' /\ [FanoutNext]_fanoutVars => FanoutInv'
  <2> SUFFICES ASSUME FanoutInv, FanoutTypeOK', [FanoutNext]_fanoutVars
               PROVE  FanoutInv'
    OBVIOUS
  <2>1. CASE UNCHANGED fanoutVars
    BY <2>1 DEF fanoutVars, storeVars, handlerVars, managerVars, processVars,
                FanoutInv, HandlerInv, ManagerInv, TimeInv, TickInv,
                FanOutAtMostOnce, FiredBeforeDeletion
  <2>2. QED
    BY <2>1, HandlerStep, ManagerStep, EnvironmentStep DEF FanoutNext
<1>2. QED
  BY <1>1, FanoutInvInit, FanoutTypeCorrect, PTL DEF FanoutSpec

-----------------------------------------------------------------------------
(* What follows from it.                                                   *)

\* No message waits longer than the maximum, whatever overflows.
THEOREM DelayedWithinMaxHolds == FanoutSpec => []DelayedWithinMax
<1>1. FanoutInit => DelayedWithinMax
  BY DEF FanoutInit, DelayedWithinMax
<1>2. FanoutTypeOK /\ DelayedWithinMax /\ [FanoutNext]_fanoutVars => DelayedWithinMax'
  <2> SUFFICES ASSUME FanoutTypeOK, DelayedWithinMax, [FanoutNext]_fanoutVars
               PROVE  DelayedWithinMax'
    OBVIOUS
  <2> USE DEF storeVars, handlerVars, managerVars, processVars
  <2>1. MaxDelay \in Nat /\ now \in Nat /\ time \in [Msg -> Int] /\ scheduled \subseteq Msg
    BY DurationAssumption, DelayAssumption DEF Unsigned, FanoutTypeOK, StoreTypeOK
  <2>2. ASSUME NEW m \in Msg, Stamp(m) PROVE DelayedWithinMax'
    BY <2>1, <2>2 DEF Stamp, DelayedWithinMax
  <2>3. ASSUME NEW m \in Msg, NEW h \in Header, ParseDelay(m, h)
        PROVE  DelayedWithinMax'
    <3>1. /\ time' = [time EXCEPT ![m] = time'[m]] /\ time'[m] <= now + MaxDelay
      BY <2>3, DelayedTime
    <3>2. scheduled' = scheduled \cup {m} /\ now' = now
      BY <2>3 DEF ParseDelay
    <3>3. QED
      BY <2>1, <3>1, <3>2 DEF DelayedWithinMax
  <2>4. CASE ClockTick
    <3>1. now' = now + 1 /\ time' = time /\ scheduled' = scheduled
      BY <2>4 DEF ClockTick
    <3>2. QED
      BY <2>1, <3>1 DEF DelayedWithinMax
  <2>5. ASSUME time' = time, scheduled' = scheduled, now' = now
        PROVE  DelayedWithinMax'
    BY <2>5 DEF DelayedWithinMax
  <2>6. ASSUME NEW m \in Msg, Persist(m) \/ Refuse(m) \/ FanOut(m)
        PROVE  DelayedWithinMax'
    BY <2>5, <2>6 DEF Persist, Insert, InsertDelayed, Refuse, FanOut
  <2>7. CASE Manager
    BY <2>5, <2>7 DEF Manager, ManagerTick, ManagerMark, MarkPublished,
       ManagerMarkFails, ManagerSend, ManagerExpire, DeleteExpired
  <2>8. CASE Crash \/ Restart \/ UNCHANGED fanoutVars
    BY <2>5, <2>8 DEF Crash, Restart, fanoutVars
  <2>9. QED
    BY <2>2, <2>3, <2>4, <2>6, <2>7, <2>8 DEF FanoutNext, Handler
<1>3. QED
  BY <1>1, <1>2, FanoutTypeCorrect, PTL DEF FanoutSpec

\* No delayed message is visible or sent before its delivery time.
THEOREM NeverEarlyHolds == FanoutSpec => []NeverEarly
<1>1. FanoutInv => NeverEarly
  BY DEF FanoutInv, TimeInv, NeverEarly, FanoutTypeOK
<1>2. QED
  BY <1>1, FanoutInvariant, PTL

\* No message is sent to its channel twice, crashes included.
THEOREM FanOutAtMostOnceHolds == FanoutSpec => []FanOutAtMostOnce
<1>1. FanoutInv => FanOutAtMostOnce
  BY DEF FanoutInv
<1>2. QED
  BY <1>1, FanoutInvariant, PTL

\* Whatever was sent stays in the cache, published, until it expires.
THEOREM FannedOutIsReplayableHolds == FanoutSpec => []FannedOutIsReplayable
<1>1. FanoutInv => FannedOutIsReplayable
  BY DEF FanoutInv, TimeInv, FannedOutIsReplayable
<1>2. QED
  BY <1>1, FanoutInvariant, PTL

\* What was answered with 200 stays stored until it expires.
THEOREM AnsweredIsKeptHolds == FanoutSpec => []AnsweredIsKept
<1>1. FanoutInv => AnsweredIsKept
  BY DEF FanoutInv, FanoutTypeOK, StoreTypeOK, RowState, HandlerInv, TimeInv,
         AnsweredIsKept, Stored
<1>2. QED
  BY <1>1, FanoutInvariant, PTL

\* A delayed message due within its retention is never deleted before the
\* manager tried to fire it.
THEOREM FiredBeforeDeletionHolds == FanoutSpec => []FiredBeforeDeletion
<1>1. FanoutInv => FiredBeforeDeletion
  BY DEF FanoutInv
<1>2. QED
  BY <1>1, FanoutInvariant, PTL

-----------------------------------------------------------------------------
(* Every step is a step of a message's life or leaves the lives of all     *)
(* messages alone.                                                         *)

\* The refinement mapping, by name.
phase     == [m \in Msg |-> LifePhase(m)]
dueAt     == [m \in Msg |-> IF row[m] = "none" THEN 0 ELSE time[m]]
keepUntil == [m \in Msg |-> IF row[m] = "none" THEN 0 ELSE expires[m]]

\* A step that leaves the store's rows alone, or touches only the times of
\* messages without a row, leaves the life of every message alone.
LEMMA LifeUnchanged ==
  ASSUME row' = row, unfired' = unfired,
         \A m \in Msg : row[m] # "none" => time'[m] = time[m] /\ expires'[m] = expires[m]
  PROVE  UNCHANGED <<phase, dueAt, keepUntil>>
<1>1. phase' = phase
  BY DEF phase, LifePhase
<1>2. dueAt' = dueAt /\ keepUntil' = keepUntil
  BY DEF dueAt, keepUntil
<1>3. QED
  BY <1>1, <1>2

\* A function that differs at most at one point.
LEMMA ExceptOwn ==
  ASSUME NEW f, NEW g, NEW m \in Msg,
         f = [o \in Msg |-> f[o]], g = [o \in Msg |-> g[o]],
         \A o \in Msg \ {m} : g[o] = f[o]
  PROVE  g = [f EXCEPT ![m] = g[m]]
  OBVIOUS

\* The handler's insert is the acceptance of the message.
LEMMA PersistAccepts ==
  ASSUME FanoutInv, NEW m \in Msg, Persist(m)
  PROVE  Life!Accept(m)
<1> USE DEF FanoutInv, FanoutTypeOK, StoreTypeOK, RowState, HandlerState
<1> USE DEF Persist, Insert, InsertDelayed
<1>1. /\ row[m] = "none" /\ row' \in [Msg -> RowState]
      /\ row' = [row EXCEPT ![m] = row'[m]]
      /\ row'[m] \in {"delayed", "published"}
      /\ row'[m] = "published" => m \notin scheduled
      /\ UNCHANGED <<time, expires, unfired, now, fanouts>>
  BY DEF processVars
<1>2. now <= expires[m] /\ (m \notin scheduled => time[m] <= now)
  BY DEF TimeInv
<1>3. phase' = [phase EXCEPT ![m] = IF row'[m] = "delayed" THEN "waiting" ELSE "visible"]
  <2>1. \A o \in Msg \ {m} : LifePhase(o)' = LifePhase(o)
    BY <1>1 DEF LifePhase
  <2>2. LifePhase(m)' = IF row'[m] = "delayed" THEN "waiting" ELSE "visible"
    BY <1>1 DEF LifePhase
  <2>3. QED
    BY <2>1, <2>2 DEF phase
<1>4. phase[m] = "unknown"
  BY <1>1 DEF phase, LifePhase
<1>5. dueAt' = [dueAt EXCEPT ![m] = dueAt'[m]] /\ dueAt'[m] = time[m]
  <2>1. \A o \in Msg \ {m} : dueAt'[o] = dueAt[o]
    BY <1>1 DEF dueAt
  <2>2. dueAt'[m] = time[m]
    BY <1>1 DEF dueAt
  <2>3. QED
    BY <2>1, <2>2, ExceptOwn DEF dueAt
<1>6. /\ keepUntil' = [keepUntil EXCEPT ![m] = keepUntil'[m]]
      /\ keepUntil'[m] = expires[m]
  <2>1. \A o \in Msg \ {m} : keepUntil'[o] = keepUntil[o]
    BY <1>1 DEF keepUntil
  <2>2. keepUntil'[m] = expires[m]
    BY <1>1 DEF keepUntil
  <2>3. QED
    BY <2>1, <2>2, ExceptOwn DEF keepUntil
<1>7. \/ phase' = [phase EXCEPT ![m] = "waiting"]
      \/ phase' = [phase EXCEPT ![m] = "visible"] /\ dueAt'[m] <= now
  BY <1>1, <1>2, <1>3, <1>5
<1>8. QED
  BY <1>1, <1>2, <1>4, <1>5, <1>6, <1>7
     DEF Life!Accept, phase, dueAt, keepUntil

\* A send is the announcement, whoever makes it.
LEMMA PublishAnnounces ==
  ASSUME FanoutInv, NEW m \in Msg, Publish(m),
         row[m] \in {"published", "deleted"}, m \notin unfired, fanouts[m] = 0,
         UNCHANGED <<storeVars, now>>
  PROVE  Life!Announce(m)
<1>1. phase[m] \in {"visible", "forgotten"}
  BY DEF phase, LifePhase
<1>2. UNCHANGED <<phase, dueAt, keepUntil>>
  BY LifeUnchanged DEF storeVars
<1>3. fanouts' = [fanouts EXCEPT ![m] = 1]
  BY DEF Publish, FanoutInv, FanoutTypeOK
<1>4. QED
  BY <1>1, <1>2, <1>3 DEF Life!Announce, phase, dueAt, keepUntil

\* mark_published reveals the message.
LEMMA MarkReveals ==
  ASSUME FanoutInv, NEW m \in Msg, ManagerMark(m)
  PROVE  Life!Reveal(m)
<1>1. row[m] = "delayed" /\ time[m] <= now
  BY DEF FanoutInv, FanoutTypeOK, StoreTypeOK, ManagerInv, TimeInv, ManagerMark, IsNextDue
<1>2. /\ row' = [row EXCEPT ![m] = "published"] /\ row \in [Msg -> RowState]
      /\ UNCHANGED <<time, expires, unfired>>
  BY <1>1 DEF FanoutInv, FanoutTypeOK, StoreTypeOK, ManagerMark, MarkPublished
<1>3. phase[m] = "waiting" /\ phase' = [phase EXCEPT ![m] = "visible"]
  <2>0. row'[m] = "published" /\ \A o \in Msg \ {m} : row'[o] = row[o]
    BY <1>2
  <2>1. phase[m] = "waiting" /\ phase'[m] = "visible"
    BY <1>1, <2>0 DEF phase, LifePhase
  <2>2. \A o \in Msg \ {m} : phase'[o] = phase[o]
    <3>1. ASSUME NEW o \in Msg, o # m PROVE LifePhase(o)' = LifePhase(o)
      <4>1. row'[o] = row[o] /\ unfired' = unfired
        BY <1>2, <2>0, <3>1
      <4>2. QED
        BY <4>1 DEF LifePhase
    <3>2. QED
      BY <3>1 DEF phase
  <2>3. phase = [o \in Msg |-> phase[o]] /\ phase' = [o \in Msg |-> phase'[o]]
    BY DEF phase
  <2>4. phase' = [phase EXCEPT ![m] = phase'[m]]
    BY <2>2, <2>3, ExceptOwn
  <2>5. QED
    BY <2>1, <2>4
<1>4. UNCHANGED <<dueAt, keepUntil>> /\ dueAt[m] <= now
  BY <1>1, <1>2 DEF dueAt, keepUntil, RowState
<1>5. UNCHANGED <<now, fanouts>>
  BY DEF ManagerMark, processVars
<1>6. QED
  BY <1>3, <1>4, <1>5 DEF Life!Reveal, phase, dueAt, keepUntil

\* delete_expired gives up messages whose retention is over.
LEMMA DeleteForgets ==
  ASSUME FanoutInv, DeleteExpired(mnow), UNCHANGED <<now, fanouts>>
  PROVE  Life!Forget(Expired(mnow))
<1> DEFINE gone == Expired(mnow)
<1> USE DEF FanoutInv, FanoutTypeOK, StoreTypeOK, RowState, DeleteExpired
<1>1. \A m \in gone : row[m] \in {"delayed", "published"} /\ expires[m] < now
  BY DEF Expired, Stored, ManagerInv
<1>2. \A m \in gone : phase[m] \in {"waiting", "visible"} /\ keepUntil[m] < now
  BY <1>1 DEF phase, keepUntil, LifePhase, Expired
<1>3. phase' = [m \in Msg |-> IF m \notin gone THEN phase[m]
                              ELSE IF phase[m] = "waiting" THEN "dropped"
                              ELSE "forgotten"]
  <2>1. ASSUME NEW m \in Msg, m \notin gone PROVE phase'[m] = phase[m]
    BY <2>1 DEF phase, LifePhase
  <2>2. ASSUME NEW m \in Msg, m \in gone, row[m] = "delayed"
        PROVE  phase[m] = "waiting" /\ phase'[m] = "dropped"
    BY <2>2 DEF phase, LifePhase
  <2>3. ASSUME NEW m \in Msg, m \in gone, row[m] = "published"
        PROVE  phase[m] # "waiting" /\ phase'[m] = "forgotten"
    BY <2>3 DEF phase, LifePhase, TimeInv
  <2>4. phase' = [m \in Msg |-> phase'[m]]
    BY DEF phase
  <2> HIDE DEF gone
  <2>5. QED
    BY <1>1, <2>1, <2>2, <2>3, <2>4
<1>4. UNCHANGED <<dueAt, keepUntil>>
  BY <1>1 DEF dueAt, keepUntil, Expired, Stored
<1>5. QED
  BY <1>2, <1>3, <1>4 DEF Life!Forget, phase, dueAt, keepUntil

-----------------------------------------------------------------------------

\* A step of the write side is a step in the life of a message, or none.
LEMMA LifeStep ==
  ASSUME FanoutInv, [FanoutNext]_fanoutVars
  PROVE  Life!Next \/ UNCHANGED <<now, phase, dueAt, keepUntil, fanouts>>
<1> USE DEF storeVars, handlerVars, managerVars, processVars
<1>1. ASSUME NEW m \in Msg, Stamp(m)
      PROVE  UNCHANGED <<now, phase, dueAt, keepUntil, fanouts>>
  <2>1. row[m] = "none"
    BY <1>1 DEF Stamp, FanoutInv, HandlerInv
  <2>2. QED
    BY <1>1, <2>1, LifeUnchanged DEF Stamp, FanoutInv, FanoutTypeOK, StoreTypeOK
<1>2. ASSUME NEW m \in Msg, NEW h \in Header, ParseDelay(m, h)
      PROVE  UNCHANGED <<now, phase, dueAt, keepUntil, fanouts>>
  <2>1. row[m] = "none"
    BY <1>2 DEF ParseDelay, FanoutInv, HandlerInv
  <2>2. QED
    BY <1>2, <2>1, LifeUnchanged DEF ParseDelay, FanoutInv, FanoutTypeOK, StoreTypeOK
<1>3. ASSUME NEW m \in Msg, Persist(m) PROVE Life!Next
  BY <1>3, PersistAccepts DEF Life!Next
<1>4. ASSUME NEW m \in Msg, FanOut(m) PROVE Life!Next
  BY <1>4, PublishAnnounces DEF FanOut, FanoutInv, HandlerInv, Life!Next
<1>5. ASSUME NEW m \in Msg, ManagerMark(m) PROVE Life!Next
  BY <1>5, MarkReveals DEF Life!Next
<1>6. CASE ManagerSend
  <2>1. cur \in Msg
    BY <1>6 DEF ManagerSend, FanoutInv, FanoutTypeOK
  <2>2. Life!Announce(cur)
    BY <1>6, <2>1, PublishAnnounces DEF ManagerSend, FanoutInv, ManagerInv
  <2>3. QED
    BY <2>1, <2>2 DEF Life!Next
<1>7. CASE ManagerExpire
  <2>1. CASE UNCHANGED storeVars
    BY <1>7, <2>1, LifeUnchanged DEF ManagerExpire
  <2>2. CASE DeleteExpired(mnow)
    <3>1. Life!Forget(Expired(mnow))
      BY <1>7, <2>2, DeleteForgets DEF ManagerExpire
    <3>2. Expired(mnow) \in SUBSET Msg
      BY DEF Expired
    <3>3. QED
      BY <3>1, <3>2 DEF Life!Next
  <2>3. QED
    BY <1>7, <2>1, <2>2 DEF ManagerExpire
<1>8. CASE ClockTick
  BY <1>8, LifeUnchanged DEF ClockTick, Life!Next, Life!Tick, phase, dueAt, keepUntil
<1>9. ASSUME NEW m \in Msg, Refuse(m) \/ ManagerMarkFails(m)
      PROVE  UNCHANGED <<now, phase, dueAt, keepUntil, fanouts>>
  BY <1>9, LifeUnchanged DEF Refuse, ManagerMarkFails
<1>10. CASE ManagerTick \/ Crash \/ Restart \/ UNCHANGED fanoutVars
  BY <1>10, LifeUnchanged DEF ManagerTick, Crash, Restart, fanoutVars
<1>11. QED
  BY <1>1, <1>2, <1>3, <1>4, <1>5, <1>6, <1>7, <1>8, <1>9, <1>10
     DEF FanoutNext, Handler, Manager

\* The write side implements MessageLife, for any messages, durations, bounds
\* and number of crashes.
THEOREM FanoutImplementsMessageLife == FanoutSpec => ImplementsMessageLife
<1>1. FanoutInit => Life!Init
  BY DEF FanoutInit, StoreInit, Life!Init, LifePhase
<1>2. FanoutInv /\ [FanoutNext]_fanoutVars => [Life!Next]_(Life!vars)
  BY LifeStep DEF Life!vars, phase, dueAt, keepUntil
<1>3. QED
  BY <1>1, <1>2, FanoutInvariant, PTL DEF FanoutSpec, ImplementsMessageLife, Life!Spec

=============================================================================
