--------------------------- MODULE LifecycleProofs ----------------------------
(***************************************************************************)
(* Proofs about starting and stopping servers, for any number of servers   *)
(* and messages.                                                           *)
(***************************************************************************)
EXTENDS Lifecycle, TLAPS

\* A server has its pair from the step that keys it on.
KeyInv ==
  /\ \A s \in Server : phase[s] \in {"new", "opening", "opened", "making"} => key[s] = Nobody
  /\ stored = Nobody => \A s \in Server : key[s] = Nobody

\* While one server is making a pair, whoever else has one got it meanwhile.
RaceInv ==
  \A s, r \in Server : phase[s] = "making" /\ key[r] # Nobody => r \in raced

LifecycleInv == TypeOK /\ KeyInv /\ RaceInv /\ KeyIsKept

\* The steps of one server.
Step(s) ==
  \/ Start(s) \/ RunServer(s) \/ SelectFails(s) \/ Answer(s)
  \/ Shutdown(s) \/ Graceful(s) \/ Drained(s) \/ DropRuntime(s)
  \/ Connect(s) \/ Disconnect(s)
  \/ Fetch(s) \/ \E m \in Msg : Fire(s, m)

-----------------------------------------------------------------------------

\* Every step keeps the types, and a manager that is over has nothing to fire.
LEMMA TypeStep ==
  ASSUME TypeOK, NEW s \in Server, Step(s)
  PROVE  TypeOK'
<1> USE NobodyAssumption DEF TypeOK, Phase, startVars, keyVars, msgVars
<1>1. CASE Start(s)
  BY <1>1 DEF Start, Goes
<1>2. CASE OpenDatabase(s)
  BY <1>2 DEF OpenDatabase, Goes
<1>3. CASE FailsEarly(s)
  BY <1>3 DEF FailsEarly, Returns
<1>4. CASE LoadKeys(s)
  <2>1. phase' \in [Server -> Phase]
    BY <1>4 DEF LoadKeys, Goes
  <2>2. key' \in [Server -> Server \cup {Nobody}]
    BY <1>4 DEF LoadKeys, Goes
  <2>3. raced' \subseteq Server
    BY <1>4 DEF LoadKeys, Races
  <2>4. UNCHANGED <<mode, startTx, answer, signalled, stored, port, client, manager, msgVars>>
    BY <1>4 DEF LoadKeys
  <2>5. QED
    BY <2>1, <2>2, <2>3, <2>4
<1>5. CASE StoreKeys(s)
  BY <1>5 DEF StoreKeys, Goes, Races
<1>6. CASE KeysFail(s)
  BY <1>6 DEF KeysFail, Goes
<1>7. CASE SpawnManager(s)
  BY <1>7 DEF SpawnManager, Goes
<1>8. CASE Bind(s)
  BY <1>8 DEF Bind, Goes
<1>9. CASE BindFails(s)
  BY <1>9 DEF BindFails, Returns
<1>10. CASE Serve(s)
  BY <1>10 DEF Serve, Goes
<1>11. CASE SelectFails(s)
  BY <1>11 DEF SelectFails, Returns
<1>12. CASE Answer(s)
  BY <1>12 DEF Answer
<1>13. CASE Shutdown(s)
  BY <1>13 DEF Shutdown
<1>14. CASE Drained(s)
  BY <1>14 DEF Drained, Returns
<1>15. CASE Connect(s)
  BY <1>15 DEF Connect
<1>16. CASE Disconnect(s)
  BY <1>16 DEF Disconnect
<1>17. CASE Fetch(s)
  BY <1>17 DEF Fetch
<1>18. ASSUME NEW m \in Msg, Fire(s, m) PROVE TypeOK'
  BY <1>18 DEF Fire
<1>19. CASE Graceful(s)
  BY <1>19 DEF Graceful, Goes
<1>20. CASE DropRuntime(s)
  BY <1>20 DEF DropRuntime
<1>21. QED
  BY <1>1, <1>2, <1>3, <1>4, <1>5, <1>6, <1>7, <1>8, <1>9, <1>10, <1>11, <1>12, <1>13, <1>14, <1>15, <1>16, <1>17, <1>18, <1>19, <1>20
     DEF Step, RunServer

\* Every step keeps what is known of the keys.
LEMMA KeyStep ==
  ASSUME TypeOK, KeyInv, RaceInv, KeyIsKept, NEW s \in Server, Step(s)
  PROVE  KeyInv' /\ RaceInv' /\ KeyIsKept'
<1> USE NobodyAssumption
    DEF TypeOK, Phase, startVars, keyVars, msgVars, KeyInv, RaceInv, KeyIsKept
<1>1. CASE Start(s)
  BY <1>1 DEF Start, Goes
<1>2. CASE OpenDatabase(s)
  BY <1>2 DEF OpenDatabase, Goes
<1>3. CASE FailsEarly(s)
  BY <1>3 DEF FailsEarly, Returns
<1>4. CASE LoadKeys(s)
  BY <1>4 DEF LoadKeys, Goes, Races
<1>5. CASE StoreKeys(s)
  BY <1>5 DEF StoreKeys, Goes, Races
<1>6. CASE KeysFail(s)
  BY <1>6 DEF KeysFail, Goes
<1>7. CASE SpawnManager(s)
  BY <1>7 DEF SpawnManager, Goes
<1>8. CASE Bind(s)
  BY <1>8 DEF Bind, Goes
<1>9. CASE BindFails(s)
  BY <1>9 DEF BindFails, Returns
<1>10. CASE Serve(s)
  BY <1>10 DEF Serve, Goes
<1>11. CASE SelectFails(s)
  BY <1>11 DEF SelectFails, Returns
<1>12. CASE Answer(s)
  BY <1>12 DEF Answer
<1>13. CASE Shutdown(s)
  BY <1>13 DEF Shutdown
<1>14. CASE Drained(s)
  BY <1>14 DEF Drained, Returns
<1>15. CASE Connect(s)
  BY <1>15 DEF Connect
<1>16. CASE Disconnect(s)
  BY <1>16 DEF Disconnect
<1>17. CASE Fetch(s)
  BY <1>17 DEF Fetch
<1>18. ASSUME NEW m \in Msg, Fire(s, m) PROVE KeyInv' /\ RaceInv' /\ KeyIsKept'
  BY <1>18 DEF Fire
<1>19. CASE Graceful(s)
  BY <1>19 DEF Graceful, Goes
<1>20. CASE DropRuntime(s)
  BY <1>20 DEF DropRuntime
<1>21. QED
  BY <1>1, <1>2, <1>3, <1>4, <1>5, <1>6, <1>7, <1>8, <1>9, <1>10, <1>11, <1>12, <1>13, <1>14, <1>15, <1>16, <1>17, <1>18, <1>19, <1>20
     DEF Step, RunServer

-----------------------------------------------------------------------------

\* The invariant holds in every reachable state.
THEOREM LifecycleInvariant == Spec => []LifecycleInv
<1>1. Init => LifecycleInv
  BY NobodyAssumption DEF Init, LifecycleInv, TypeOK, Phase, KeyInv, RaceInv, KeyIsKept
<1>2. LifecycleInv /\ [Next]_vars => LifecycleInv'
  <2> SUFFICES ASSUME LifecycleInv, [Next]_vars PROVE LifecycleInv'
    OBVIOUS
  <2>1. CASE UNCHANGED vars
    BY <2>1 DEF vars, startVars, keyVars, msgVars, LifecycleInv, TypeOK, KeyInv,
                RaceInv, KeyIsKept
  <2>2. ASSUME NEW s \in Server, Step(s) PROVE LifecycleInv'
    BY <2>2, TypeStep, KeyStep DEF LifecycleInv
  <2>3. QED
    BY <2>1, <2>2 DEF Next, Step
<1>3. QED
  BY <1>1, <1>2, PTL DEF Spec

\* Every variable keeps its type.
THEOREM LifecycleTypeCorrect == Spec => []TypeOK
BY LifecycleInvariant, PTL DEF LifecycleInv

\* The pair a server signs with is the one in the database, unless another
\* server was making one at the time.
THEOREM KeyIsKeptHolds == Spec => []KeyIsKept
BY LifecycleInvariant, PTL DEF LifecycleInv

=============================================================================
