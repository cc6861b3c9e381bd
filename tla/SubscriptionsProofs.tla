------------------------ MODULE SubscriptionsProofs --------------------------
(***************************************************************************)
(* Proofs about the topic map, for any streams, topics, visitors and       *)
(* number of Topic objects.                                                *)
(***************************************************************************)
EXTENDS Subscriptions, FiniteSetTheorems, TLAPS

\* The places of a handler inside get_or_create and the turn it begins.
InHandler == {"missing", "inserted", "holding", "attached"}

\* Where a stream is says which topic it is at, and which it waits for.
PlaceInv ==
  \A s \in Stream :
    /\ pc[s] \in InHandler => at[s] \in Topic
    /\ pc[s] = "inserted" => inner[at[s]] # 0
    /\ pc[s] # "panicked"

\* What is aged was there when whoever is under way began, and what came into
\* the map under a look-up that missed is younger than the look-up.
AgeInv ==
  /\ aged \subseteq 1 .. objects
  /\ \A t \in Topic : inner[t] <= objects
  /\ \A s \in Stream : pc[s] \in InHandler =>
       /\ began[s] <= objects
       /\ \A o \in aged : o <= began[s]
       /\ pc[s] \in {"missing", "inserted"} /\ inner[at[s]] # 0 =>
            inner[at[s]] > began[s]

\* What prune_stale has collected is still in the map when it is removed: the
\* map changes under the scan, but not at these topics.
PruneInv ==
  /\ condemned \subseteq aged
  /\ \A t \in stale : inner[t] \in condemned

\* A reference or a receiver is to the object in the map, or to a condemned
\* one; no receiver but a late one is on a condemned object.
ReachInv ==
  \A s \in Stream :
    /\ held[s] # 0 => inner[at[s]] = held[s] \/ held[s] \in condemned
    /\ \A t \in Topic : rx[s][t] # 0 /\ s \notin late =>
         rx[s][t] = inner[t] /\ rx[s][t] \notin condemned

\* A visitor's count covers its streams, and these are finitely many.
CountInv ==
  \A v \in Visitor :
    IsFiniteSet(Counted(v)) /\ count[v] >= Cardinality(Counted(v))

MapInv == TypeOK /\ PlaceInv /\ AgeInv /\ PruneInv /\ ReachInv


-----------------------------------------------------------------------------
(* The types.                                                              *)

\* A step keeps the types of all variables: a handler that is looking up a
\* topic is at one.
LEMMA TypeStep ==
  ASSUME TypeOK, PlaceInv, [Next]_vars
  PROVE  TypeOK'
<1> USE SubscriptionsAssumption
    DEF TypeOK, Place, NoReceivers, pruneVars, streamVars
<1>1. ASSUME NEW s \in Stream, NEW t \in Topic, Lookup(s, t) PROVE TypeOK'
  BY <1>1 DEF Lookup
<1>2. ASSUME NEW s \in Stream, OrInsert(s) PROVE TypeOK'
  <2>1. inner' \in [Topic -> Object \cup {0}] /\ objects' \in 0 .. MaxObjects
    <3>1. CASE inner[at[s]] = 0
      <4>1. objects + 1 \in Object /\ objects + 1 \in 0 .. MaxObjects
        BY <1>2, <3>1 DEF OrInsert, Object
      <4>2. /\ objects' = objects + 1 /\ inner' = [inner EXCEPT ![at[s]] = objects + 1]
            /\ inner \in [Topic -> Object \cup {0}]
        BY <1>2, <3>1 DEF OrInsert
      <4> HIDE DEF TypeOK
      <4>3. QED
        BY <4>1, <4>2
    <3>2. CASE inner[at[s]] # 0
      BY <1>2, <3>2 DEF OrInsert
    <3>3. QED
      BY <3>1, <3>2
  <2>2. QED
    BY <1>2, <2>1 DEF OrInsert
<1>3. ASSUME NEW s \in Stream, GetUnwrap(s) PROVE TypeOK'
  BY <1>3 DEF GetUnwrap, PlaceInv, InHandler
<1>4. ASSUME NEW s \in Stream, Attach(s) PROVE TypeOK'
  BY <1>4 DEF Attach
<1>5. ASSUME NEW s \in Stream, Release(s) PROVE TypeOK'
  <2>1. count' \in [Visitor -> Int]
    BY <1>5 DEF Release
  <2>2. pc' \in [Stream -> Place]
    BY <1>5 DEF Release
  <2>3. /\ held' \in [Stream -> Object \cup {0}]
        /\ \A r \in Stream : held'[r] # 0 <=> pc'[r] \in {"holding", "attached"}
    BY <1>5 DEF Release
  <2>4. QED
    BY <1>5, <2>1, <2>2, <2>3 DEF Release
<1>6. ASSUME NEW s \in Stream, NEW g \in BOOLEAN, End(s, g),
             pc[s] \notin InHandler
      PROVE  TypeOK'
  BY <1>6 DEF End, InHandler
<1>7. ASSUME NEW s \in Stream, Upgrade(s) PROVE TypeOK'
  BY <1>7 DEF Upgrade
<1>8. ASSUME NEW s \in Stream, LiveEnds(s) PROVE TypeOK'
  BY <1>8 DEF LiveEnds
<1>9. ASSUME NEW s \in Stream,
             HandlerFails(s) \/ UpgradeFails(s) \/ WebSocketBreaks(s) \/ Leave(s)
      PROVE  TypeOK'
  BY <1>6, <1>9 DEF HandlerFails, UpgradeFails, WebSocketBreaks, Leave, InHandler
<1>10. CASE PruneBegin
  BY <1>10 DEF PruneBegin
<1>11. ASSUME NEW t \in Topic, PruneCheck(t) PROVE TypeOK'
  <2>1. inner[t] # 0 => inner[t] \in Object
    OBVIOUS
  <2>2. stale' \in SUBSET Topic /\ condemned' \in SUBSET Object
    BY <1>11, <2>1 DEF PruneCheck
  <2>3. QED
    BY <1>11, <2>2 DEF PruneCheck
<1>12. ASSUME NEW t \in Topic, PruneRemove(t) PROVE TypeOK'
  BY <1>12 DEF PruneRemove
<1>13. ASSUME NEW o \in Object, Age(o) PROVE TypeOK'
  BY <1>13 DEF Age
<1>14. CASE UNCHANGED vars
  BY <1>14 DEF vars
<1>15. QED
  BY <1>1, <1>2, <1>3, <1>4, <1>5, <1>7, <1>8, <1>9, <1>10, <1>11, <1>12,
     <1>13, <1>14 DEF Next, StreamStep, Prune

-----------------------------------------------------------------------------
(* The inductive invariant.                                                *)

\* The inductive invariant holds initially.
LEMMA MapInvInit == Init => MapInv
<1> SUFFICES ASSUME Init PROVE MapInv
  OBVIOUS
<1>1. TypeOK
  BY SubscriptionsAssumption DEF Init, TypeOK, Place, NoReceivers, Object
<1>2. QED
  BY <1>1 DEF Init, MapInv, PlaceInv, AgeInv, PruneInv, ReachInv, InHandler, NoReceivers

\* The three steps of get_or_create keep the invariant.
LEMMA GetOrCreateStep ==
  ASSUME MapInv, TypeOK', NEW s \in Stream,
         (\E t \in Topic : Lookup(s, t)) \/ OrInsert(s) \/ GetUnwrap(s)
  PROVE  MapInv'
<1> USE DEF MapInv, TypeOK, Place, InHandler, streamVars, pruneVars
<1>1. /\ objects \in Nat /\ \A t \in Topic : inner[t] \in Nat
      /\ \A r \in Stream : began[r] \in Nat
      /\ 0 \notin condemned
  BY SubscriptionsAssumption DEF Object
<1>2. ASSUME NEW t \in Topic, Lookup(s, t) PROVE MapInv'
  <2> USE <1>2 DEF Lookup
  <2>1. PlaceInv'
    BY DEF PlaceInv
  <2>2. AgeInv'
    BY <1>1 DEF AgeInv
  <2>3. PruneInv' /\ ReachInv'
    BY DEF PruneInv, ReachInv, PlaceInv
  <2>4. QED
    BY <2>1, <2>2, <2>3
<1>3. CASE OrInsert(s)
  <2> USE <1>3 DEF OrInsert
  <2>1. at[s] \in Topic
    BY DEF PlaceInv
  <2>2. PlaceInv'
    BY <1>1, <2>1 DEF PlaceInv
  <2>3. AgeInv'
    BY <1>1, <2>1 DEF AgeInv, PlaceInv
  <2>4. \A t \in Topic : inner[t] # 0 => inner'[t] = inner[t]
    BY <2>1
  <2>5. PruneInv'
    <3>1. UNCHANGED <<aged, stale, condemned>>
      OBVIOUS
    <3>2. QED
      BY <1>1, <2>4, <3>1 DEF PruneInv
  <2>6. ReachInv'
    <3>1. UNCHANGED <<at, held, rx, late, condemned>>
      OBVIOUS
    <3>2. \A r \in Stream : held[r] # 0 => at[r] \in Topic
      BY DEF PlaceInv
    <3>3. QED
      BY <2>4, <3>1, <3>2 DEF ReachInv
  <2>7. QED
    BY <2>2, <2>3, <2>5, <2>6
<1>4. CASE GetUnwrap(s)
  <2> USE <1>4 DEF GetUnwrap
  <2>1. at[s] \in Topic /\ inner[at[s]] # 0
    BY DEF PlaceInv
  <2>2. PlaceInv' /\ PruneInv'
    BY <2>1 DEF PlaceInv, PruneInv
  <2>3. AgeInv'
    BY <2>1 DEF AgeInv
  <2>4. ReachInv'
    BY <2>1 DEF ReachInv
  <2>5. QED
    BY <2>2, <2>3, <2>4
<1>5. QED
  BY <1>2, <1>3, <1>4

\* The rest of a stream's life keeps it.
LEMMA StreamingStep ==
  ASSUME MapInv, TypeOK', NEW s \in Stream,
         \/ Attach(s) \/ Release(s) \/ Upgrade(s) \/ LiveEnds(s)
         \/ HandlerFails(s) \/ UpgradeFails(s) \/ WebSocketBreaks(s) \/ Leave(s)
  PROVE  MapInv'
<1> USE DEF MapInv, TypeOK, Place, InHandler, streamVars, pruneVars
<1>1. CASE Attach(s)
  <2> USE <1>1 DEF Attach
  <2>1. at[s] \in Topic /\ held[s] # 0
    BY DEF PlaceInv
  <2>2. PlaceInv' /\ PruneInv'
    BY DEF PlaceInv, PruneInv
  <2>3. AgeInv'
    BY DEF AgeInv
  <2>4. ReachInv'
    BY <2>1 DEF ReachInv
  <2>5. QED
    BY <2>2, <2>3, <2>4
<1>2. CASE Release(s)
  <2> USE <1>2 DEF Release
  <2>1. pc'[s] \in {"upgrading", "open", "start"}
    OBVIOUS
  <2>2. /\ \A r \in Stream \ {s} : pc'[r] = pc[r] /\ at'[r] = at[r] /\ held'[r] = held[r]
        /\ held'[s] = 0
        /\ UNCHANGED <<inner, objects, aged, began, rx, late, pruneVars>>
    OBVIOUS
  <2>3. PlaceInv' /\ PruneInv'
    BY <2>1, <2>2 DEF PlaceInv, PruneInv
  <2>4. AgeInv'
    BY <2>1, <2>2 DEF AgeInv
  <2>5. ReachInv'
    BY <2>2 DEF ReachInv
  <2>6. QED
    BY <2>3, <2>4, <2>5
<1>3. CASE Upgrade(s) \/ LiveEnds(s)
  <2>1. /\ pc[s] \notin InHandler /\ pc'[s] \in {"open", "ended"}
        /\ \A r \in Stream \ {s} : pc'[r] = pc[r]
        /\ UNCHANGED <<inner, objects, aged, at, held, began, rx, late, pruneVars>>
    BY <1>3 DEF Upgrade, LiveEnds
  <2>2. PlaceInv' /\ PruneInv'
    BY <2>1 DEF PlaceInv, PruneInv
  <2>3. AgeInv' /\ ReachInv'
    BY <2>1 DEF AgeInv, ReachInv
  <2>4. QED
    BY <2>2, <2>3
<1>4. ASSUME NEW g \in BOOLEAN, End(s, g), pc[s] \notin InHandler PROVE MapInv'
  <2>1. /\ pc'[s] = "gone" /\ \A r \in Stream \ {s} : pc'[r] = pc[r] /\ rx'[r] = rx[r]
        /\ \A t \in Topic : rx'[s][t] = 0
        /\ UNCHANGED <<inner, objects, aged, at, held, began, late, pruneVars>>
    BY <1>4 DEF End, NoReceivers
  <2>2. PlaceInv' /\ PruneInv'
    BY <2>1 DEF PlaceInv, PruneInv
  <2>3. AgeInv'
    BY <2>1 DEF AgeInv
  <2>4. ReachInv'
    <3>1. \A r \in Stream, t \in Topic : rx'[r][t] # 0 => rx'[r][t] = rx[r][t]
      BY <2>1
    <3>2. QED
      BY <2>1, <3>1 DEF ReachInv
  <2>5. QED
    BY <2>2, <2>3, <2>4
<1>5. QED
  BY <1>1, <1>2, <1>3, <1>4 DEF HandlerFails, UpgradeFails, WebSocketBreaks, Leave

\* Pruning and aging keep it.
LEMMA PruneStep ==
  ASSUME MapInv, TypeOK', Prune \/ \E o \in Object : Age(o)
  PROVE  MapInv'
<1> USE DEF MapInv, TypeOK, Place, InHandler, streamVars, pruneVars
<1>1. /\ objects \in Nat /\ \A t \in Topic : inner[t] \in Nat
      /\ \A r \in Stream : began[r] \in Nat
      /\ 0 \notin condemned /\ condemned \subseteq Nat
  BY SubscriptionsAssumption DEF Object
<1>2. CASE PruneBegin
  BY <1>2 DEF PruneBegin, PlaceInv, AgeInv, PruneInv, ReachInv
<1>3. ASSUME NEW t \in Topic, PruneCheck(t) PROVE MapInv'
  <2> USE <1>3 DEF PruneCheck
  <2>1. PlaceInv' /\ AgeInv'
    BY DEF PlaceInv, AgeInv
  <2>2. PruneInv'
    BY DEF PruneInv, IsStale
  <2>3. ReachInv'
    <3>1. CASE inner[t] # 0 /\ IsStale(inner[t])
      <4>1. \A r \in Stream, u \in Topic : rx[r][u] # inner[t]
        BY <3>1 DEF IsStale, Receivers
      <4>2. QED
        BY <3>1, <4>1 DEF ReachInv
    <3>2. CASE ~(inner[t] # 0 /\ IsStale(inner[t]))
      BY <3>2 DEF ReachInv
    <3>3. QED
      BY <3>1, <3>2
  <2>4. QED
    BY <2>1, <2>2, <2>3
<1>4. ASSUME NEW t \in Topic, PruneRemove(t) PROVE MapInv'
  <2> USE <1>4 DEF PruneRemove
  <2>1. inner[t] \in condemned /\ inner[t] \in aged
    BY DEF PruneInv
  <2>2. \A r \in Stream : pc[r] = "inserted" => at[r] # t
    BY <1>1, <2>1 DEF AgeInv, PlaceInv
  <2>3. PlaceInv'
    BY <2>2 DEF PlaceInv
  <2>4. AgeInv'
    BY <1>1 DEF AgeInv, PlaceInv
  <2>5. PruneInv'
    BY DEF PruneInv
  <2>6. ReachInv'
    BY <1>1, <2>1 DEF ReachInv, PlaceInv
  <2>7. QED
    BY <2>3, <2>4, <2>5, <2>6
<1>5. ASSUME NEW o \in Object, Age(o) PROVE MapInv'
  <2> USE <1>5 DEF Age
  <2>1. PlaceInv' /\ PruneInv' /\ ReachInv'
    BY DEF PlaceInv, PruneInv, ReachInv
  <2>2. AgeInv'
    BY <1>1 DEF AgeInv
  <2>3. QED
    BY <2>1, <2>2
<1>6. QED
  BY <1>2, <1>3, <1>4, <1>5 DEF Prune

\* The invariant holds in every reachable state of the topic map.
THEOREM MapInvariant == Spec => []MapInv
<1>1. MapInv /\ [Next]_vars => MapInv'
  <2> SUFFICES ASSUME MapInv, [Next]_vars PROVE MapInv'
    OBVIOUS
  <2>1. TypeOK'
    BY TypeStep DEF MapInv
  <2>2. CASE UNCHANGED vars
    BY <2>1, <2>2 DEF vars, streamVars, pruneVars, MapInv, PlaceInv, AgeInv,
                      PruneInv, ReachInv
  <2>3. QED
    BY <2>1, <2>2, GetOrCreateStep, StreamingStep, PruneStep DEF Next, StreamStep
<1>2. QED
  BY <1>1, MapInvInit, PTL DEF Spec

-----------------------------------------------------------------------------
(* What follows from it.                                                   *)

\* Every variable keeps its type, and a handler holds a reference exactly
\* while it is between get and its release.
THEOREM SubscriptionsTypeCorrect == Spec => []TypeOK
<1>1. MapInv => TypeOK
  BY DEF MapInv
<1>2. QED
  BY <1>1, MapInvariant, PTL

\* The unwrap in get_or_create never panics, however pruning and other
\* handlers interleave with it.
THEOREM UnwrapNeverPanicsHolds == Spec => []UnwrapNeverPanics
<1>1. MapInv => UnwrapNeverPanics
  BY DEF MapInv, PlaceInv, UnwrapNeverPanics
<1>2. QED
  BY <1>1, MapInvariant, PTL

\* publish reaches every receiver, late ones excepted.
THEOREM SubscribersAreReachedHolds == Spec => []SubscribersAreReached
<1>1. MapInv => SubscribersAreReached
  BY DEF MapInv, ReachInv, SubscribersAreReached, Subscribed, Reached, Receivers
<1>2. QED
  BY <1>1, MapInvariant, PTL

-----------------------------------------------------------------------------
(* The subscription count.                                                 *)

\* Whether a visitor's count must cover a stream at this place.
Streaming(place) == place \in {"upgrading", "open", "ended"}

\* One stream moves, and its visitor's count moves at least as far up, or at
\* most as far down, as the number of its streams.
LEMMA OneStreamMoves ==
  ASSUME CountInv, NEW s \in Stream,
         \A r \in Stream \ {s} : pc'[r] = pc[r],
         \A v \in Visitor : count[v] \in Int /\ count'[v] \in Int,
         \A v \in Visitor \ {VisitorOf[s]} : count'[v] = count[v],
         Streaming(pc'[s]) => count'[VisitorOf[s]] >= count[VisitorOf[s]]
                                + (IF Streaming(pc[s]) THEN 0 ELSE 1),
         ~Streaming(pc'[s]) => count'[VisitorOf[s]] >= count[VisitorOf[s]]
                                - (IF Streaming(pc[s]) THEN 1 ELSE 0)
  PROVE  CountInv'
<1> SUFFICES ASSUME NEW v \in Visitor
             PROVE  IsFiniteSet(Counted(v)') /\ count'[v] >= Cardinality(Counted(v)')
  BY DEF CountInv
<1> DEFINE was == Counted(v)
           is  == Counted(v)'
<1>1. IsFiniteSet(was) /\ Cardinality(was) \in Nat /\ count[v] >= Cardinality(was)
  BY FS_CardinalityType DEF CountInv
<1>2. \A r \in Stream \ {s} : r \in is <=> r \in was
  BY DEF Counted
<1>3. /\ s \in was <=> v = VisitorOf[s] /\ Streaming(pc[s])
      /\ s \in is  <=> v = VisitorOf[s] /\ Streaming(pc'[s])
  BY DEF Counted, Streaming
<1>4. is \subseteq Stream /\ was \subseteq Stream
  BY DEF Counted
<1> HIDE DEF was, is
<1>5. CASE s \in is /\ s \notin was
  <2>1. is = was \cup {s}
    BY <1>2, <1>4, <1>5
  <2>2. IsFiniteSet(is) /\ Cardinality(is) = Cardinality(was) + 1
    BY <1>1, <1>5, <2>1, FS_AddElement
  <2>3. count'[v] >= count[v] + 1
    BY <1>3, <1>5
  <2>4. QED
    BY <1>1, <2>2, <2>3 DEF is
<1>6. CASE s \notin is /\ s \in was
  <2>1. is = was \ {s}
    BY <1>2, <1>4, <1>6
  <2>2. IsFiniteSet(is) /\ Cardinality(is) = Cardinality(was) - 1
    BY <1>1, <1>6, <2>1, FS_RemoveElement
  <2>3. count'[v] >= count[v] - 1
    BY <1>3, <1>6
  <2>4. QED
    BY <1>1, <2>2, <2>3 DEF is
<1>7. CASE s \in is <=> s \in was
  <2>1. is = was
    <3>1. \A r \in Stream : r \in is <=> r \in was
      BY <1>2, <1>7
    <3>2. QED
      BY <1>4, <3>1
  <2>2. count'[v] >= count[v]
    BY <1>3, <1>7
  <2>3. QED
    BY <1>1, <2>1, <2>2 DEF is
<1>8. QED
  BY <1>5, <1>6, <1>7

\* Every step keeps the count above the streams.
LEMMA CountStep ==
  ASSUME TypeOK, TypeOK', CountInv, [Next]_vars
  PROVE  CountInv'
<1> USE SubscriptionsAssumption DEF TypeOK, streamVars, pruneVars
<1>0. VisitorOf \in [Stream -> Visitor]
      /\ \A v \in Visitor : count[v] \in Int /\ count'[v] \in Int
  OBVIOUS
<1>1. ASSUME UNCHANGED <<pc, count>> PROVE CountInv'
  BY <1>1 DEF CountInv, Counted
<1>2. ASSUME NEW s \in Stream, UNCHANGED count,
             \A r \in Stream \ {s} : pc'[r] = pc[r],
             Streaming(pc'[s]) => Streaming(pc[s])
      PROVE  CountInv'
  <2>1. VisitorOf[s] \in Visitor /\ count[VisitorOf[s]] \in Int
        /\ \A v \in Visitor : count'[v] = count[v]
    BY <1>0, <1>2
  <2>2. /\ Streaming(pc'[s]) => count'[VisitorOf[s]] >= count[VisitorOf[s]]
                                  + (IF Streaming(pc[s]) THEN 0 ELSE 1)
        /\ ~Streaming(pc'[s]) => count'[VisitorOf[s]] >= count[VisitorOf[s]]
                                  - (IF Streaming(pc[s]) THEN 1 ELSE 0)
    BY <1>2, <2>1
  <2> HIDE DEF TypeOK
  <2>3. QED
    BY <1>0, <1>2, <2>1, <2>2, OneStreamMoves
<1>3. ASSUME NEW s \in Stream, (\E t \in Topic : Lookup(s, t)) \/ OrInsert(s)
                               \/ GetUnwrap(s) \/ Attach(s)
      PROVE  CountInv'
  <2>1. /\ UNCHANGED count /\ \A r \in Stream \ {s} : pc'[r] = pc[r]
        /\ ~Streaming(pc'[s])
    <3>1. CASE (\E t \in Topic : Lookup(s, t)) \/ OrInsert(s)
      BY <3>1 DEF Lookup, OrInsert, Streaming
    <3>2. CASE GetUnwrap(s) \/ Attach(s)
      BY <3>2 DEF GetUnwrap, Attach, Streaming
    <3>3. QED
      BY <1>3, <3>1, <3>2
  <2>2. QED
    BY <1>2, <2>1
<1>4. ASSUME NEW s \in Stream, Release(s) PROVE CountInv'
  <2>1. CASE todo[s] = {at[s]}
    <3>1. /\ ~Streaming(pc[s]) /\ Streaming(pc'[s])
          /\ \A r \in Stream \ {s} : pc'[r] = pc[r]
          /\ count'[VisitorOf[s]] = count[VisitorOf[s]] + 1
          /\ \A v \in Visitor \ {VisitorOf[s]} : count'[v] = count[v]
      BY <1>4, <2>1 DEF Release, Streaming
    <3>2. VisitorOf[s] \in Visitor /\ count[VisitorOf[s]] \in Int
      BY <1>0
    <3> HIDE DEF TypeOK
    <3>3. QED
      BY <1>0, <3>1, <3>2, OneStreamMoves
  <2>2. CASE todo[s] # {at[s]}
    <3>1. /\ UNCHANGED count /\ ~Streaming(pc'[s])
          /\ \A r \in Stream \ {s} : pc'[r] = pc[r]
      BY <1>4, <2>2 DEF Release, Streaming
    <3>2. QED
      BY <1>2, <3>1
  <2>3. QED
    BY <2>1, <2>2
<1>5. ASSUME NEW s \in Stream, NEW g \in BOOLEAN, End(s, g),
             g => Streaming(pc[s])
      PROVE  CountInv'
  <2>1. CASE g
    <3>1. /\ Streaming(pc[s]) /\ ~Streaming(pc'[s])
          /\ \A r \in Stream \ {s} : pc'[r] = pc[r]
          /\ count'[VisitorOf[s]] = count[VisitorOf[s]] - 1
          /\ \A v \in Visitor \ {VisitorOf[s]} : count'[v] = count[v]
      BY <1>5, <2>1 DEF End, Streaming
    <3>2. VisitorOf[s] \in Visitor /\ count[VisitorOf[s]] \in Int
      BY <1>0
    <3> HIDE DEF TypeOK
    <3>3. QED
      BY <1>0, <3>1, <3>2, OneStreamMoves
  <2>2. CASE ~g
    BY <1>2, <1>5, <2>2 DEF End, Streaming
  <2>3. QED
    BY <2>1, <2>2
<1>6. ASSUME NEW s \in Stream, Upgrade(s) \/ LiveEnds(s) PROVE CountInv'
  BY <1>2, <1>6 DEF Upgrade, LiveEnds, Streaming
<1>7. ASSUME NEW s \in Stream,
             HandlerFails(s) \/ UpgradeFails(s) \/ WebSocketBreaks(s) \/ Leave(s)
      PROVE  CountInv'
  BY <1>5, <1>7 DEF HandlerFails, UpgradeFails, WebSocketBreaks, Leave, Streaming
<1>8. CASE Prune \/ (\E o \in Object : Age(o)) \/ UNCHANGED vars
  BY <1>1, <1>8 DEF Prune, PruneBegin, PruneCheck, PruneRemove, Age, vars
<1>9. QED
  BY <1>3, <1>4, <1>6, <1>7, <1>8 DEF Next, StreamStep

\* A visitor's count never falls below its streams, so that taking it down
\* never wraps, however many streams there are.
THEOREM CountCoversStreamsHolds == Spec => []CountCoversStreams
<1>1. Init => CountInv
  <2> SUFFICES ASSUME Init, NEW v \in Visitor
               PROVE  IsFiniteSet(Counted(v)) /\ count[v] >= Cardinality(Counted(v))
    BY DEF CountInv
  <2>1. Counted(v) = {} /\ count[v] = 0
    BY DEF Init, Counted
  <2>2. QED
    BY <2>1, FS_EmptySet
<1>2. CountInv => CountCoversStreams
  BY DEF CountInv, CountCoversStreams
<1>3. QED
  BY <1>1, <1>2, CountStep, SubscriptionsTypeCorrect, PTL DEF Spec

=============================================================================
