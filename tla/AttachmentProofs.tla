-------------------------- MODULE AttachmentProofs ---------------------------
(***************************************************************************)
(* Theorems about Attachments, for any uploads, downloads, sizes, limits,  *)
(* durations and bounds.                                                   *)
(***************************************************************************)
EXTENDS Attachments, FiniteSetTheorems, TLAPS

\* Tick and statements: what SELECT took is what DELETE will take, and once it
\* is deleted it is expired for everybody.
TickInv ==
  /\ mnow <= now
  /\ mpc = "deleting" => paths = Expired
  /\ mpc = "removing" => \A u \in paths :
       /\ u \notin records \cup writing /\ expires[u] < mnow
       /\ pc[u] \in {"recorded", "answered", "cut"}

\* Handlers: the record comes in time, and after the whole file.
HandlerInv ==
  \A u \in Upload :
    /\ pc[u] \in Pending => now + Expiry <= expires[u] + Hold
    /\ pc[u] = "written" => file[u] = "whole"
    /\ u \in writing => file[u] = "part" /\ pc[u] \in {"writing", "cut"}
    /\ pc[u] \in {"recorded", "answered"} /\ now <= expires[u] => u \in records
    /\ u \in records => file[u] = "whole" /\ pc[u] \in {"recorded", "answered", "cut"}

DownloadInv ==
  \A d \in Download : dpc[d] # "idle" => pc[link[d]] = "answered"

\* The inductive invariant.
AttachmentInv ==
  /\ TypeOK /\ TickInv /\ HandlerInv /\ DownloadInv
  /\ RefusedOnlyWhenExpired /\ OnlyFailuresLeak

-----------------------------------------------------------------------------

\* Every step keeps the types.
LEMMA TypeStep == TypeOK /\ [Next]_vars => TypeOK'
<1> SUFFICES ASSUME TypeOK, [Next]_vars PROVE TypeOK'
  OBVIOUS
<1> USE AttachmentAssumption
    DEF TypeOK, Pending, handlerVars, managerVars, downloadVars, historyVars
<1>1. ASSUME NEW u \in Upload, Stamp(u) PROVE TypeOK'
  BY <1>1 DEF Stamp
<1>2. ASSUME NEW u \in Upload, CheckCap(u) PROVE TypeOK'
  BY <1>2 DEF CheckCap
<1>3. ASSUME NEW u \in Upload, BeginWrite(u) PROVE TypeOK'
  BY <1>3 DEF BeginWrite
<1>4. ASSUME NEW u \in Upload, EndWrite(u) PROVE TypeOK'
  BY <1>4 DEF EndWrite
<1>5. ASSUME NEW u \in Upload, Record(u) PROVE TypeOK'
  BY <1>5 DEF Record
<1>6. ASSUME NEW u \in Upload, Answer(u) PROVE TypeOK'
  BY <1>6 DEF Answer
<1>7. ASSUME NEW u \in Upload, WriteFails(u) PROVE TypeOK'
  BY <1>7 DEF WriteFails, Failure
<1>8. ASSUME NEW u \in Upload, Cancel(u) PROVE TypeOK'
  BY <1>8 DEF Cancel, Failure
<1>9. ASSUME NEW u \in Upload, StoreFails(u) PROVE TypeOK'
  BY <1>9 DEF StoreFails, Failure
<1>10. ASSUME NEW u \in Upload, RefuseLater(u) PROVE TypeOK'
  BY <1>10 DEF RefuseLater
<1>11. ASSUME NEW u \in Upload, RemoveFile(u) PROVE TypeOK'
  BY <1>11 DEF RemoveFile
<1>12. ASSUME NEW u \in Upload, RemoveFails(u) PROVE TypeOK'
  BY <1>12 DEF RemoveFails, Failure
<1>13. ASSUME NEW d \in Download, NEW u \in Upload, Lookup(d, u) PROVE TypeOK'
  BY <1>13 DEF Lookup
<1>14. ASSUME NEW d \in Download, CheckExpiry(d) PROVE TypeOK'
  BY <1>14 DEF CheckExpiry
<1>15. ASSUME NEW d \in Download, ReadFile(d) PROVE TypeOK'
  BY <1>15 DEF ReadFile
<1>16. CASE ManagerTick
  BY <1>16 DEF ManagerTick
<1>17. CASE SelectExpired
  BY <1>17 DEF SelectExpired, Expired
<1>18. CASE DeleteRecords
  BY <1>18 DEF DeleteRecords, Expired
<1>19. CASE TickEnds
  BY <1>19 DEF TickEnds
<1>20. CASE ExpireFails
  BY <1>20 DEF ExpireFails, Failure
<1>21. CASE ClockTick
  BY <1>21 DEF ClockTick
<1>22. CASE Crash
  BY <1>22 DEF Crash, Failure
<1>23. CASE UNCHANGED vars
  BY <1>23 DEF vars
<1>24. QED
  BY <1>1, <1>2, <1>3, <1>4, <1>5, <1>6, <1>7, <1>8, <1>9, <1>10, <1>11,
     <1>12, <1>13, <1>14, <1>15, <1>16, <1>17, <1>18, <1>19, <1>20,
     <1>21, <1>22, <1>23
     DEF Next, Handler, Manager, ServeFile

\* Every variable of Attachments keeps its type.
THEOREM AttachmentTypeCorrect == Spec => []TypeOK
<1>1. Init => TypeOK
  BY AttachmentAssumption DEF Init, TypeOK, Pending
<1>2. QED
  BY <1>1, TypeStep, PTL DEF Spec

\* The manager's list stays right whatever the handlers do meanwhile.
LEMMA TickStep == AttachmentInv /\ [Next]_vars => TickInv'
<1> SUFFICES ASSUME AttachmentInv, [Next]_vars PROVE TickInv'
  OBVIOUS
<1> USE AttachmentAssumption
    DEF AttachmentInv, TickInv, HandlerInv, Expired, TypeOK, Pending,
        handlerVars, managerVars, downloadVars, historyVars
<1>1. ASSUME NEW u \in Upload, Stamp(u) PROVE TickInv'
  BY <1>1 DEF Stamp
<1>2. ASSUME NEW u \in Upload, CheckCap(u) PROVE TickInv'
  BY <1>2 DEF CheckCap
<1>3. ASSUME NEW u \in Upload, BeginWrite(u) PROVE TickInv'
  BY <1>3 DEF BeginWrite
<1>4. ASSUME NEW u \in Upload, EndWrite(u) PROVE TickInv'
  BY <1>4 DEF EndWrite
<1>5. ASSUME NEW u \in Upload, Record(u) PROVE TickInv'
  BY <1>5 DEF Record
<1>6. ASSUME NEW u \in Upload, Answer(u) PROVE TickInv'
  BY <1>6 DEF Answer
<1>7. ASSUME NEW u \in Upload, WriteFails(u) PROVE TickInv'
  BY <1>7 DEF WriteFails, Failure
<1>8. ASSUME NEW u \in Upload, Cancel(u) PROVE TickInv'
  BY <1>8 DEF Cancel, Failure
<1>9. ASSUME NEW u \in Upload, StoreFails(u) PROVE TickInv'
  BY <1>9 DEF StoreFails, Failure
<1>10. ASSUME NEW u \in Upload, RefuseLater(u) PROVE TickInv'
  BY <1>10 DEF RefuseLater
<1>11. ASSUME NEW u \in Upload, RemoveFile(u) PROVE TickInv'
  BY <1>11 DEF RemoveFile
<1>12. ASSUME NEW u \in Upload, RemoveFails(u) PROVE TickInv'
  BY <1>12 DEF RemoveFails, Failure
<1>13. ASSUME NEW d \in Download, NEW u \in Upload, Lookup(d, u) PROVE TickInv'
  BY <1>13 DEF Lookup
<1>14. ASSUME NEW d \in Download, CheckExpiry(d) PROVE TickInv'
  BY <1>14 DEF CheckExpiry
<1>15. ASSUME NEW d \in Download, ReadFile(d) PROVE TickInv'
  BY <1>15 DEF ReadFile
<1>16. CASE ManagerTick
  BY <1>16 DEF ManagerTick
<1>17. CASE SelectExpired
  BY <1>17 DEF SelectExpired
<1>18. CASE DeleteRecords
  BY <1>18 DEF DeleteRecords
<1>19. CASE TickEnds
  BY <1>19 DEF TickEnds
<1>20. CASE ExpireFails
  BY <1>20 DEF ExpireFails, Failure
<1>21. CASE ClockTick
  BY <1>21 DEF ClockTick
<1>22. CASE Crash
  BY <1>22 DEF Crash, Failure
<1>23. CASE UNCHANGED vars
  BY <1>23 DEF vars
<1>24. QED
  BY <1>1, <1>2, <1>3, <1>4, <1>5, <1>6, <1>7, <1>8, <1>9, <1>10, <1>11,
     <1>12, <1>13, <1>14, <1>15, <1>16, <1>17, <1>18, <1>19, <1>20,
     <1>21, <1>22, <1>23
     DEF Next, Handler, Manager, ServeFile

\* Record and file stay together, and are there in time.
LEMMA HandlerStep == AttachmentInv /\ [Next]_vars => HandlerInv'
<1> SUFFICES ASSUME AttachmentInv, [Next]_vars PROVE HandlerInv'
  OBVIOUS
<1> USE AttachmentAssumption
    DEF AttachmentInv, HandlerInv, TickInv, Expired, TypeOK, Pending,
        handlerVars, managerVars, downloadVars, historyVars
<1>1. ASSUME NEW u \in Upload, Stamp(u) PROVE HandlerInv'
  BY <1>1 DEF Stamp
<1>2. ASSUME NEW u \in Upload, CheckCap(u) PROVE HandlerInv'
  BY <1>2 DEF CheckCap
<1>3. ASSUME NEW u \in Upload, BeginWrite(u) PROVE HandlerInv'
  BY <1>3 DEF BeginWrite
<1>4. ASSUME NEW u \in Upload, EndWrite(u) PROVE HandlerInv'
  BY <1>4 DEF EndWrite
<1>5. ASSUME NEW u \in Upload, Record(u) PROVE HandlerInv'
  BY <1>5 DEF Record
<1>6. ASSUME NEW u \in Upload, Answer(u) PROVE HandlerInv'
  BY <1>6 DEF Answer
<1>7. ASSUME NEW u \in Upload, WriteFails(u) PROVE HandlerInv'
  BY <1>7 DEF WriteFails, Failure
<1>8. ASSUME NEW u \in Upload, Cancel(u) PROVE HandlerInv'
  BY <1>8 DEF Cancel, Failure
<1>9. ASSUME NEW u \in Upload, StoreFails(u) PROVE HandlerInv'
  BY <1>9 DEF StoreFails, Failure
<1>10. ASSUME NEW u \in Upload, RefuseLater(u) PROVE HandlerInv'
  BY <1>10 DEF RefuseLater
<1>11. ASSUME NEW u \in Upload, RemoveFile(u) PROVE HandlerInv'
  BY <1>11 DEF RemoveFile
<1>12. ASSUME NEW u \in Upload, RemoveFails(u) PROVE HandlerInv'
  BY <1>12 DEF RemoveFails, Failure
<1>13. ASSUME NEW d \in Download, NEW u \in Upload, Lookup(d, u) PROVE HandlerInv'
  BY <1>13 DEF Lookup
<1>14. ASSUME NEW d \in Download, CheckExpiry(d) PROVE HandlerInv'
  BY <1>14 DEF CheckExpiry
<1>15. ASSUME NEW d \in Download, ReadFile(d) PROVE HandlerInv'
  BY <1>15 DEF ReadFile
<1>16. CASE ManagerTick
  BY <1>16 DEF ManagerTick
<1>17. CASE SelectExpired
  BY <1>17 DEF SelectExpired
<1>18. CASE DeleteRecords
  BY <1>18 DEF DeleteRecords
<1>19. CASE TickEnds
  BY <1>19 DEF TickEnds
<1>20. CASE ExpireFails
  BY <1>20 DEF ExpireFails, Failure
<1>21. CASE ClockTick
  BY <1>21 DEF ClockTick
<1>22. CASE Crash
  BY <1>22 DEF Crash, Failure
<1>23. CASE UNCHANGED vars
  BY <1>23 DEF vars
<1>24. QED
  BY <1>1, <1>2, <1>3, <1>4, <1>5, <1>6, <1>7, <1>8, <1>9, <1>10, <1>11,
     <1>12, <1>13, <1>14, <1>15, <1>16, <1>17, <1>18, <1>19, <1>20,
     <1>21, <1>22, <1>23
     DEF Next, Handler, Manager, ServeFile

\* Only failures leave a file without a record.
LEMMA LeakStep == AttachmentInv /\ [Next]_vars => OnlyFailuresLeak'
<1> SUFFICES ASSUME AttachmentInv, [Next]_vars PROVE OnlyFailuresLeak'
  OBVIOUS
<1> USE AttachmentAssumption
    DEF AttachmentInv, OnlyFailuresLeak, HandlerInv, TickInv, Expired, TypeOK, Pending,
        handlerVars, managerVars, downloadVars, historyVars
<1>1. ASSUME NEW u \in Upload, Stamp(u) PROVE OnlyFailuresLeak'
  BY <1>1 DEF Stamp
<1>2. ASSUME NEW u \in Upload, CheckCap(u) PROVE OnlyFailuresLeak'
  BY <1>2 DEF CheckCap
<1>3. ASSUME NEW u \in Upload, BeginWrite(u) PROVE OnlyFailuresLeak'
  BY <1>3 DEF BeginWrite
<1>4. ASSUME NEW u \in Upload, EndWrite(u) PROVE OnlyFailuresLeak'
  BY <1>4 DEF EndWrite
<1>5. ASSUME NEW u \in Upload, Record(u) PROVE OnlyFailuresLeak'
  BY <1>5 DEF Record
<1>6. ASSUME NEW u \in Upload, Answer(u) PROVE OnlyFailuresLeak'
  BY <1>6 DEF Answer
<1>7. ASSUME NEW u \in Upload, WriteFails(u) PROVE OnlyFailuresLeak'
  BY <1>7 DEF WriteFails, Failure
<1>8. ASSUME NEW u \in Upload, Cancel(u) PROVE OnlyFailuresLeak'
  BY <1>8 DEF Cancel, Failure
<1>9. ASSUME NEW u \in Upload, StoreFails(u) PROVE OnlyFailuresLeak'
  BY <1>9 DEF StoreFails, Failure
<1>10. ASSUME NEW u \in Upload, RefuseLater(u) PROVE OnlyFailuresLeak'
  BY <1>10 DEF RefuseLater
<1>11. ASSUME NEW u \in Upload, RemoveFile(u) PROVE OnlyFailuresLeak'
  BY <1>11 DEF RemoveFile
<1>12. ASSUME NEW u \in Upload, RemoveFails(u) PROVE OnlyFailuresLeak'
  BY <1>12 DEF RemoveFails, Failure
<1>13. ASSUME NEW d \in Download, NEW u \in Upload, Lookup(d, u) PROVE OnlyFailuresLeak'
  BY <1>13 DEF Lookup
<1>14. ASSUME NEW d \in Download, CheckExpiry(d) PROVE OnlyFailuresLeak'
  BY <1>14 DEF CheckExpiry
<1>15. ASSUME NEW d \in Download, ReadFile(d) PROVE OnlyFailuresLeak'
  BY <1>15 DEF ReadFile
<1>16. CASE ManagerTick
  BY <1>16 DEF ManagerTick
<1>17. CASE SelectExpired
  BY <1>17 DEF SelectExpired
<1>18. CASE DeleteRecords
  BY <1>18 DEF DeleteRecords
<1>19. CASE TickEnds
  BY <1>19 DEF TickEnds
<1>20. CASE ExpireFails
  BY <1>20 DEF ExpireFails, Failure
<1>21. CASE ClockTick
  BY <1>21 DEF ClockTick
<1>22. CASE Crash
  BY <1>22 DEF Crash, Failure
<1>23. CASE UNCHANGED vars
  BY <1>23 DEF vars
<1>24. QED
  BY <1>1, <1>2, <1>3, <1>4, <1>5, <1>6, <1>7, <1>8, <1>9, <1>10, <1>11,
     <1>12, <1>13, <1>14, <1>15, <1>16, <1>17, <1>18, <1>19, <1>20,
     <1>21, <1>22, <1>23
     DEF Next, Handler, Manager, ServeFile

\* A download answers for an attachment whose link was given out.
LEMMA DownloadStep == AttachmentInv /\ [Next]_vars => (DownloadInv /\ RefusedOnlyWhenExpired)'
<1> SUFFICES ASSUME AttachmentInv, [Next]_vars PROVE (DownloadInv /\ RefusedOnlyWhenExpired)'
  OBVIOUS
<1> USE AttachmentAssumption
    DEF AttachmentInv, DownloadInv, RefusedOnlyWhenExpired, HandlerInv, TypeOK, Pending,
        handlerVars, managerVars, downloadVars, historyVars
<1>1. ASSUME NEW u \in Upload, Stamp(u) PROVE (DownloadInv /\ RefusedOnlyWhenExpired)'
  BY <1>1 DEF Stamp
<1>2. ASSUME NEW u \in Upload, CheckCap(u) PROVE (DownloadInv /\ RefusedOnlyWhenExpired)'
  BY <1>2 DEF CheckCap
<1>3. ASSUME NEW u \in Upload, BeginWrite(u) PROVE (DownloadInv /\ RefusedOnlyWhenExpired)'
  BY <1>3 DEF BeginWrite
<1>4. ASSUME NEW u \in Upload, EndWrite(u) PROVE (DownloadInv /\ RefusedOnlyWhenExpired)'
  BY <1>4 DEF EndWrite
<1>5. ASSUME NEW u \in Upload, Record(u) PROVE (DownloadInv /\ RefusedOnlyWhenExpired)'
  BY <1>5 DEF Record
<1>6. ASSUME NEW u \in Upload, Answer(u) PROVE (DownloadInv /\ RefusedOnlyWhenExpired)'
  BY <1>6 DEF Answer
<1>7. ASSUME NEW u \in Upload, WriteFails(u) PROVE (DownloadInv /\ RefusedOnlyWhenExpired)'
  BY <1>7 DEF WriteFails, Failure
<1>8. ASSUME NEW u \in Upload, Cancel(u) PROVE (DownloadInv /\ RefusedOnlyWhenExpired)'
  BY <1>8 DEF Cancel, Failure
<1>9. ASSUME NEW u \in Upload, StoreFails(u) PROVE (DownloadInv /\ RefusedOnlyWhenExpired)'
  BY <1>9 DEF StoreFails, Failure
<1>10. ASSUME NEW u \in Upload, RefuseLater(u) PROVE (DownloadInv /\ RefusedOnlyWhenExpired)'
  BY <1>10 DEF RefuseLater
<1>11. ASSUME NEW u \in Upload, RemoveFile(u) PROVE (DownloadInv /\ RefusedOnlyWhenExpired)'
  BY <1>11 DEF RemoveFile
<1>12. ASSUME NEW u \in Upload, RemoveFails(u) PROVE (DownloadInv /\ RefusedOnlyWhenExpired)'
  BY <1>12 DEF RemoveFails, Failure
<1>13. ASSUME NEW d \in Download, NEW u \in Upload, Lookup(d, u) PROVE (DownloadInv /\ RefusedOnlyWhenExpired)'
  BY <1>13 DEF Lookup
<1>14. ASSUME NEW d \in Download, CheckExpiry(d) PROVE (DownloadInv /\ RefusedOnlyWhenExpired)'
  BY <1>14 DEF CheckExpiry
<1>15. ASSUME NEW d \in Download, ReadFile(d) PROVE (DownloadInv /\ RefusedOnlyWhenExpired)'
  BY <1>15 DEF ReadFile
<1>16. CASE ManagerTick
  BY <1>16 DEF ManagerTick
<1>17. CASE SelectExpired
  BY <1>17 DEF SelectExpired
<1>18. CASE DeleteRecords
  BY <1>18 DEF DeleteRecords
<1>19. CASE TickEnds
  BY <1>19 DEF TickEnds
<1>20. CASE ExpireFails
  BY <1>20 DEF ExpireFails, Failure
<1>21. CASE ClockTick
  BY <1>21 DEF ClockTick
<1>22. CASE Crash
  BY <1>22 DEF Crash, Failure
<1>23. CASE UNCHANGED vars
  BY <1>23 DEF vars
<1>24. QED
  BY <1>1, <1>2, <1>3, <1>4, <1>5, <1>6, <1>7, <1>8, <1>9, <1>10, <1>11,
     <1>12, <1>13, <1>14, <1>15, <1>16, <1>17, <1>18, <1>19, <1>20,
     <1>21, <1>22, <1>23
     DEF Next, Handler, Manager, ServeFile

\* The inductive invariant holds.
THEOREM AttachmentInvariant == Spec => []AttachmentInv
<1>1. Init => AttachmentInv
  BY AttachmentAssumption
     DEF Init, AttachmentInv, TypeOK, TickInv, HandlerInv, DownloadInv,
         RefusedOnlyWhenExpired, OnlyFailuresLeak, Pending
<1>2. AttachmentInv /\ [Next]_vars => AttachmentInv'
  BY TypeStep, TickStep, HandlerStep, LeakStep, DownloadStep DEF AttachmentInv
<1>3. QED
  BY <1>1, <1>2, PTL DEF Spec

\* A link that was given out leads to the whole file until its expiry.
THEOREM LinkServesHolds == Spec => []LinkServes
<1>1. AttachmentInv => LinkServes
  BY DEF AttachmentInv, HandlerInv, LinkServes
<1>2. QED
  BY <1>1, AttachmentInvariant, PTL

\* No download of an unexpired attachment is refused or fails.
THEOREM RefusedOnlyWhenExpiredHolds == Spec => []RefusedOnlyWhenExpired
<1>1. AttachmentInv => RefusedOnlyWhenExpired
  BY DEF AttachmentInv
<1>2. QED
  BY <1>1, AttachmentInvariant, PTL

\* Expiry itself leaves no file behind.
THEOREM OnlyFailuresLeakHolds == Spec => []OnlyFailuresLeak
<1>1. AttachmentInv => OnlyFailuresLeak
  BY DEF AttachmentInv
<1>2. QED
  BY <1>1, AttachmentInvariant, PTL

-----------------------------------------------------------------------------
(* What the sizes of a finite set of uploads add up to.                    *)

\* g adds up the sizes over the subsets of T.
Measures(g, T) ==
  /\ g \in [SUBSET T -> Nat]
  /\ g[{}] = 0
  /\ \A A \in SUBSET T : \A u \in T \ A : g[A \cup {u}] = g[A] + Size[u]

\* Among the subsets of a finite set there are smallest ones.
LEMMA Minimal ==
  ASSUME NEW T, IsFiniteSet(T), NEW X, X \subseteq SUBSET T, X # {}
  PROVE  \E A \in X : \A B \in X : B \subseteq A => B = A
<1>1. IsWellFoundedOn(StrictSubsetOrdering(T), SUBSET T)
  BY FS_StrictSubsetOrderingWellFounded, FS_FiniteSubsetsOfFinite
<1>2. PICK A \in X : \A B \in X : ~(<<B, A>> \in StrictSubsetOrdering(T))
  BY <1>1, WFMin
<1>3. QED
  BY <1>2 DEF StrictSubsetOrdering

\* Every finite set of uploads can be measured: a smallest one that cannot has an
\* element, and a measure of the rest extends to it.
LEMMA MeasureExists ==
  ASSUME NEW T \in SUBSET Upload, IsFiniteSet(T)
  PROVE  \E g : Measures(g, T)
<1> DEFINE bad == {A \in SUBSET T : ~ \E g : Measures(g, A)}
<1>1. SUFFICES ASSUME bad # {} PROVE FALSE
  OBVIOUS
<1>2. PICK A \in bad : \A B \in bad : B \subseteq A => B = A
  <2>1. bad \subseteq SUBSET T
    OBVIOUS
  <2> HIDE DEF bad
  <2>2. QED
    BY <1>1, <2>1, Minimal
<1>3. A # {}
  <2>1. Measures([B \in SUBSET {} |-> 0], {})
    BY DEF Measures
  <2>2. QED
    BY <1>2, <2>1
<1>4. PICK u \in A : TRUE
  BY <1>3
<1>5. PICK g : Measures(g, A \ {u})
  <2>1. A \ {u} \in SUBSET T /\ A \ {u} # A /\ A \ {u} \subseteq A
    BY <1>2, <1>4
  <2>2. A \ {u} \notin bad
    BY <1>2, <2>1
  <2>3. QED
    BY <2>1, <2>2
<1> DEFINE h == [B \in SUBSET A |-> IF u \in B THEN g[B \ {u}] + Size[u] ELSE g[B]]
<1>6. Measures(h, A)
  <2>1. u \in Upload /\ Size[u] \in Nat /\ A \subseteq Upload
    BY <1>2, <1>4, AttachmentAssumption
  <2>2. \A B \in SUBSET A : B \ {u} \in SUBSET (A \ {u}) /\ g[B \ {u}] \in Nat
    BY <1>5 DEF Measures
  <2>3. \A B \in SUBSET A : u \notin B => B \ {u} = B
    OBVIOUS
  <2>4. h \in [SUBSET A -> Nat]
    <3>1. ASSUME NEW B \in SUBSET A
          PROVE  (IF u \in B THEN g[B \ {u}] + Size[u] ELSE g[B]) \in Nat
      <4>1. CASE u \in B
        BY <2>1, <2>2, <4>1
      <4>2. CASE u \notin B
        BY <2>2, <2>3, <4>2
      <4>3. QED
        BY <4>1, <4>2
    <3>2. QED
      BY <3>1
  <2>5. h[{}] = 0
    BY <1>5 DEF Measures
  <2>6. ASSUME NEW B \in SUBSET A, NEW w \in A \ B PROVE h[B \cup {w}] = h[B] + Size[w]
    <3>0. /\ Size[w] \in Nat /\ B \cup {w} \in SUBSET A
          /\ g[B \ {u}] \in Nat
      BY <2>1, <2>2, AttachmentAssumption
    <3>1. CASE w = u
      <4>1. (B \cup {w}) \ {u} = B
        BY <3>1
      <4>2. QED
        BY <3>0, <3>1, <4>1
    <3>2. CASE w # u
      <4>1. (B \cup {w}) \ {u} = (B \ {u}) \cup {w}
        BY <3>2
      <4>2. g[(B \ {u}) \cup {w}] = g[B \ {u}] + Size[w]
        BY <1>5, <3>2 DEF Measures
      <4>3. CASE u \in B
        <5>1. h[B] = g[B \ {u}] + Size[u]
          BY <4>3
        <5>2. h[B \cup {w}] = g[(B \ {u}) \cup {w}] + Size[u]
          BY <3>0, <4>1, <4>3
        <5> HIDE DEF h
        <5>3. QED
          BY <2>1, <3>0, <4>2, <5>1, <5>2
      <4>4. CASE u \notin B
        BY <2>3, <3>0, <3>2, <4>1, <4>2, <4>4
      <4>5. QED
        BY <4>3, <4>4
    <3>3. QED
      BY <3>1, <3>2
  <2>7. QED
    BY <2>4, <2>5, <2>6 DEF Measures
<1>7. QED
  BY <1>2, <1>6

\* The fold over a finite set agrees with every measure of it: on a smallest subset
\* where they differ both take out the same element.
LEMMA SizeIsMeasure ==
  ASSUME NEW T \in SUBSET Upload, IsFiniteSet(T), NEW g, Measures(g, T)
  PROVE  SizeOf(T) = g[T]
<1> DEFINE one(s) == CHOOSE x \in s : TRUE
           Rec(f) == f = [s \in SUBSET T |->
                            IF s = {} THEN 0 ELSE Size[one(s)] + f[s \ {one(s)}]]
           it == CHOOSE f : Rec(f)
<1>1. SizeOf(T) = it[T]
  BY DEF SizeOf, MapThenSumSet, MapThenFoldSet
<1>2. \A s \in SUBSET T : s # {} =>
        /\ one(s) \in s /\ s \ {one(s)} \in SUBSET T
        /\ g[s] = Size[one(s)] + g[s \ {one(s)}]
  <2> SUFFICES ASSUME NEW s \in SUBSET T, s # {}
               PROVE  /\ one(s) \in s /\ s \ {one(s)} \in SUBSET T
                      /\ g[s] = Size[one(s)] + g[s \ {one(s)}]
    OBVIOUS
  <2>1. one(s) \in s
    OBVIOUS
  <2> HIDE DEF one
  <2>2. s \ {one(s)} \in SUBSET T /\ one(s) \in T \ (s \ {one(s)}) /\ (s \ {one(s)}) \cup {one(s)} = s
    BY <2>1
  <2>3. g[s] = g[s \ {one(s)}] + Size[one(s)]
    BY <2>2 DEF Measures
  <2>4. g[s \ {one(s)}] \in Nat /\ Size[one(s)] \in Nat
    BY <2>1, <2>2, AttachmentAssumption DEF Measures
  <2>5. QED
    BY <2>1, <2>2, <2>3, <2>4
<1> HIDE DEF one
<1>3. Rec(g)
  <2>1. g = [s \in SUBSET T |-> g[s]]
    BY DEF Measures
  <2>2. g[{}] = 0
    BY DEF Measures
  <2>3. \A s \in SUBSET T : g[s] = IF s = {} THEN 0 ELSE Size[one(s)] + g[s \ {one(s)}]
    BY <1>2, <2>2
  <2>4. QED
    BY <2>1, <2>3
<1>4. Rec(it)
  BY <1>3
<1> HIDE DEF it
<1>5. \A s \in SUBSET T :
        it[s] = IF s = {} THEN 0 ELSE Size[one(s)] + it[s \ {one(s)}]
  BY <1>4
<1> HIDE DEF Rec
<1> DEFINE bad == {s \in SUBSET T : it[s] # g[s]}
<1>6. bad = {}
  <2> SUFFICES ASSUME bad # {} PROVE FALSE
    OBVIOUS
  <2>1. PICK A \in bad : \A B \in bad : B \subseteq A => B = A
    <3>1. bad \subseteq SUBSET T
      OBVIOUS
    <3> HIDE DEF bad
    <3>2. QED
      BY <3>1, Minimal
  <2>2. A # {}
    BY <1>5, <2>1 DEF Measures
  <2>3. A \ {one(A)} \notin bad
    BY <1>2, <2>1, <2>2
  <2>4. it[A \ {one(A)}] = g[A \ {one(A)}]
    BY <1>2, <2>1, <2>2, <2>3
  <2>5. QED
    BY <1>2, <1>5, <2>1, <2>2, <2>4
<1>7. QED
  BY <1>1, <1>6

\* One upload more adds its size.
LEMMA SizeAdds ==
  ASSUME NEW T \in SUBSET Upload, IsFiniteSet(T), NEW u \in Upload \ T
  PROVE  SizeOf(T \cup {u}) = SizeOf(T) + Size[u]
<1>1. IsFiniteSet(T \cup {u}) /\ T \cup {u} \in SUBSET Upload
  BY FS_AddElement
<1>2. PICK g : Measures(g, T \cup {u})
  BY <1>1, MeasureExists
<1> DEFINE h == [A \in SUBSET T |-> g[A]]
<1>3. Measures(h, T)
  <2>1. \A A \in SUBSET T : A \in SUBSET (T \cup {u})
    OBVIOUS
  <2>2. h \in [SUBSET T -> Nat] /\ h[{}] = 0
    BY <1>2, <2>1 DEF Measures
  <2>3. ASSUME NEW A \in SUBSET T, NEW w \in T \ A PROVE h[A \cup {w}] = h[A] + Size[w]
    <3>1. w \in (T \cup {u}) \ A /\ A \cup {w} \in SUBSET T
      OBVIOUS
    <3>2. g[A \cup {w}] = g[A] + Size[w]
      BY <1>2, <2>1, <3>1 DEF Measures
    <3>3. QED
      BY <3>1, <3>2
  <2> HIDE DEF h
  <2>4. QED
    BY <2>2, <2>3 DEF Measures
<1>4. SizeOf(T) = g[T]
  <2> HIDE DEF h
  <2>1. SizeOf(T) = h[T]
    BY <1>3, SizeIsMeasure
  <2>2. QED
    BY <2>1 DEF h
<1>5. SizeOf(T \cup {u}) = g[T \cup {u}]
  BY <1>1, <1>2, SizeIsMeasure
<1>6. g[T \cup {u}] = g[T] + Size[u]
  BY <1>2 DEF Measures
<1>7. QED
  BY <1>4, <1>5, <1>6

\* The sum is a number.
LEMMA SizeType ==
  ASSUME NEW T \in SUBSET Upload, IsFiniteSet(T)
  PROVE  SizeOf(T) \in Nat
<1>1. PICK g : Measures(g, T)
  BY MeasureExists
<1>2. g[T] \in Nat
  BY <1>1 DEF Measures
<1>3. QED
  BY <1>1, <1>2, SizeIsMeasure

\* More uploads are not smaller.
LEMMA SizeGrows ==
  ASSUME NEW T \in SUBSET Upload, IsFiniteSet(T), NEW S \in SUBSET T
  PROVE  SizeOf(S) <= SizeOf(T)
<1> DEFINE bad == {A \in SUBSET T : S \subseteq A /\ ~(SizeOf(S) <= SizeOf(A))}
<1> SUFFICES ASSUME bad # {} PROVE FALSE
  OBVIOUS
<1>1. PICK A \in bad : \A B \in bad : B \subseteq A => B = A
  <2>1. bad \subseteq SUBSET T
    OBVIOUS
  <2> HIDE DEF bad
  <2>2. QED
    BY <2>1, Minimal
<1>2. A \in SUBSET T /\ S \subseteq A /\ ~(SizeOf(S) <= SizeOf(A))
  BY <1>1
<1>3. \A B \in SUBSET T : SizeOf(B) \in Nat /\ IsFiniteSet(B)
  <2>1. \A B \in SUBSET T : B \in SUBSET Upload /\ IsFiniteSet(B)
    BY FS_Subset
  <2>2. QED
    BY <2>1, SizeType
<1>4. A # S
  BY <1>2, <1>3
<1>5. PICK u \in A \ S : TRUE
  BY <1>2, <1>4
<1> DEFINE B == A \ {u}
<1>6. B \in SUBSET T /\ S \subseteq B /\ u \in Upload \ B /\ A = B \cup {u} /\ B # A /\ B \in SUBSET Upload
  BY <1>2, <1>5
<1>7. SizeOf(S) <= SizeOf(B)
  BY <1>1, <1>6
<1> HIDE DEF B
<1>8. SizeOf(A) = SizeOf(B) + Size[u] /\ Size[u] \in Nat
  BY <1>3, <1>6, SizeAdds, AttachmentAssumption
<1>9. QED
  BY <1>2, <1>3, <1>6, <1>7, <1>8

\* Nothing adds up to nothing.
LEMMA SizeOfNone == SizeOf({}) = 0
<1>1. PICK g : Measures(g, {})
  BY MeasureExists, FS_EmptySet
<1>2. g[{}] = 0
  BY <1>1 DEF Measures
<1>3. QED
  BY <1>1, <1>2, SizeIsMeasure, FS_EmptySet

\* Two sets together are not larger than the two sums.
LEMMA SizeJoins ==
  ASSUME NEW S \in SUBSET Upload, IsFiniteSet(S), NEW T \in SUBSET Upload, IsFiniteSet(T)
  PROVE  SizeOf(S \cup T) <= SizeOf(S) + SizeOf(T)
<1> DEFINE bad == {A \in SUBSET T : ~(SizeOf(S \cup A) <= SizeOf(S) + SizeOf(A))}
<1> SUFFICES ASSUME bad # {} PROVE FALSE
  OBVIOUS
<1>1. PICK A \in bad : \A B \in bad : B \subseteq A => B = A
  <2>1. bad \subseteq SUBSET T
    OBVIOUS
  <2> HIDE DEF bad
  <2>2. QED
    BY <2>1, Minimal
<1>2. A \in SUBSET T /\ ~(SizeOf(S \cup A) <= SizeOf(S) + SizeOf(A))
  BY <1>1
<1>3. \A B \in SUBSET T :
        /\ B \in SUBSET Upload /\ IsFiniteSet(B) /\ SizeOf(B) \in Nat
        /\ S \cup B \in SUBSET Upload /\ IsFiniteSet(S \cup B) /\ SizeOf(S \cup B) \in Nat
  <2>1. \A B \in SUBSET T : IsFiniteSet(B)
    BY FS_Subset
  <2>2. \A B \in SUBSET T : IsFiniteSet(S \cup B)
    BY <2>1, FS_Union
  <2>3. QED
    BY <2>1, <2>2, SizeType
<1>4. SizeOf(S) \in Nat
  BY SizeType
<1>5. A # {}
  <2>1. SUFFICES ASSUME A = {} PROVE FALSE
    OBVIOUS
  <2>2. SizeOf(S \cup A) = SizeOf(S)
    <3>1. S \cup A = S
      BY <2>1
    <3>2. QED
      BY <3>1, Zenon
  <2>3. SizeOf(A) \in Nat
    BY <1>2, <1>3
  <2>4. QED
    BY <1>2, <1>4, <2>2, <2>3
<1>6. PICK u \in A : TRUE
  BY <1>5
<1> DEFINE B == A \ {u}
<1>7. B \in SUBSET T /\ u \in Upload \ B /\ A = B \cup {u} /\ B # A /\ B \subseteq A
  BY <1>2, <1>6
<1>8. SizeOf(S \cup B) <= SizeOf(S) + SizeOf(B)
  BY <1>1, <1>7
<1> HIDE DEF B
<1>9. SizeOf(A) = SizeOf(B) + Size[u] /\ Size[u] \in Nat
  BY <1>3, <1>7, SizeAdds, AttachmentAssumption
<1>10. SizeOf(S \cup A) <= SizeOf(S \cup B) + Size[u]
  <2>1. CASE u \in S
    <3>1. S \cup A = S \cup B
      BY <1>7, <2>1
    <3>2. SizeOf(S \cup A) = SizeOf(S \cup B)
      BY <3>1, Zenon
    <3>3. SizeOf(S \cup B) \in Nat
      BY <1>3, <1>7
    <3>4. QED
      BY <1>9, <3>2, <3>3
  <2>2. CASE u \notin S
    <3>1. S \cup A = (S \cup B) \cup {u} /\ u \in Upload \ (S \cup B)
      BY <1>7, <2>2
    <3>2. SizeOf((S \cup B) \cup {u}) = SizeOf(S \cup B) + Size[u]
      BY <1>3, <1>7, <3>1, SizeAdds
    <3>3. SizeOf(S \cup A) = SizeOf((S \cup B) \cup {u})
      BY <3>1, Zenon
    <3>4. SizeOf(S \cup B) \in Nat
      BY <1>3, <1>7
    <3>5. QED
      BY <1>9, <3>2, <3>3, <3>4
  <2>3. QED
    BY <2>1, <2>2
<1>11. /\ SizeOf(A) \in Nat /\ SizeOf(B) \in Nat
       /\ SizeOf(S \cup A) \in Nat /\ SizeOf(S \cup B) \in Nat
  BY <1>2, <1>3, <1>7
<1>12. QED
  BY <1>2, <1>4, <1>8, <1>9, <1>10, <1>11

-----------------------------------------------------------------------------
(* The cap.                                                                *)

\* What is recorded or under way fits under the cap and the largest overlap.
CapInv ==
  /\ IsFiniteSet(records) /\ IsFiniteSet(UnderWay) /\ overlap \in Nat
  /\ SizeOf(records \cup UnderWay) <= TotalLimit + overlap

\* Steps that add nothing to what is recorded or under way keep it.
LEMMA CapKept ==
  ASSUME TypeOK, CapInv, records' \subseteq Upload, IsFiniteSet(records'),
         UnderWay' \subseteq UnderWay, overlap' = overlap,
         records' \cup UnderWay' \subseteq records \cup UnderWay
  PROVE  CapInv'
<1>1. /\ records \cup UnderWay \in SUBSET Upload /\ IsFiniteSet(records \cup UnderWay)
      /\ IsFiniteSet(UnderWay')
  BY FS_Union, FS_Subset DEF CapInv, TypeOK, UnderWay
<1>2. /\ records' \cup UnderWay' \in SUBSET Upload
      /\ IsFiniteSet(records' \cup UnderWay')
  BY <1>1, FS_Subset
<1>3. SizeOf(records' \cup UnderWay') <= SizeOf(records \cup UnderWay)
  BY <1>1, SizeGrows
<1>4. /\ SizeOf(records' \cup UnderWay') \in Nat /\ SizeOf(records \cup UnderWay) \in Nat
      /\ TotalLimit \in Nat /\ overlap \in Nat
  BY <1>1, <1>2, SizeType, AttachmentAssumption DEF CapInv
<1>5. SizeOf(records' \cup UnderWay') <= TotalLimit + overlap'
  BY <1>3, <1>4 DEF CapInv
<1>6. QED
  BY <1>1, <1>5 DEF CapInv

\* An upload that passes the check fits beside all records; those under way are
\* in the overlap.
LEMMA CapChecked ==
  ASSUME TypeOK, CapInv, NEW u \in Upload, CheckCap(u)
  PROVE  CapInv'
<1>1. records' = records /\ pc \in [Upload -> Pending \cup {"new", "recorded", "answered", "cut"}]
  BY DEF CheckCap, TypeOK
<1>2. CASE StoredSize + Size[u] > TotalLimit
  <2>1. overlap' = overlap /\ pc' = [pc EXCEPT ![u] = "cut"]
    BY <1>2 DEF CheckCap
  <2>2. UnderWay' \subseteq UnderWay
    BY <1>1, <2>1 DEF UnderWay
  <2>3. QED
    BY <1>1, <2>1, <2>2, CapKept DEF CapInv, TypeOK
<1>3. CASE ~(StoredSize + Size[u] > TotalLimit)
  <2>1. Overlaps /\ pc' = [pc EXCEPT ![u] = "checked"]
    BY <1>3 DEF CheckCap
  <2>2. UnderWay' = UnderWay \cup {u} /\ u \notin UnderWay
    BY <1>1, <2>1 DEF UnderWay, CheckCap
  <2>3. /\ records \in SUBSET Upload /\ IsFiniteSet(records)
        /\ UnderWay \in SUBSET Upload /\ IsFiniteSet(UnderWay)
        /\ UnderWay' \in SUBSET Upload /\ IsFiniteSet(UnderWay')
    <3>1. records \in SUBSET Upload /\ UnderWay \in SUBSET Upload
      BY DEF TypeOK, UnderWay
    <3>2. IsFiniteSet(records) /\ IsFiniteSet(UnderWay)
      BY DEF CapInv
    <3>3. UnderWay' \in SUBSET Upload
      BY <2>2, <3>1
    <3>4. IsFiniteSet(UnderWay')
      BY <2>2, <3>2, FS_AddElement
    <3>5. QED
      BY <3>1, <3>2, <3>3, <3>4
  <2>4. SizeOf(UnderWay') = SizeOf(UnderWay) + Size[u]
    BY <2>2, <2>3, SizeAdds
  <2>5. SizeOf(records \cup UnderWay') <= SizeOf(records) + SizeOf(UnderWay')
    BY <2>3, SizeJoins
  <2>6. records \cup UnderWay' \in SUBSET Upload /\ IsFiniteSet(records \cup UnderWay')
    BY <2>3, FS_Union
  <2>7. /\ SizeOf(records) \in Nat /\ SizeOf(UnderWay) \in Nat /\ Size[u] \in Nat
        /\ SizeOf(records \cup UnderWay') \in Nat /\ TotalLimit \in Nat /\ overlap \in Nat
    BY <2>3, <2>6, SizeType, AttachmentAssumption DEF CapInv
  <2>8. SizeOf(records) + Size[u] <= TotalLimit
    BY <1>3, <2>7 DEF StoredSize
  <2>9. SizeOf(UnderWay) <= overlap' /\ overlap' \in Nat
    BY <2>1, <2>7 DEF Overlaps
  <2>10. SizeOf(records \cup UnderWay') <= TotalLimit + overlap'
    BY <2>4, <2>5, <2>7, <2>8, <2>9
  <2>11. QED
    BY <1>1, <2>3, <2>9, <2>10 DEF CapInv
<1>4. QED
  BY <1>2, <1>3

\* An upload that is recorded was under way.
LEMMA CapRecorded ==
  ASSUME TypeOK, CapInv, NEW u \in Upload, Record(u)
  PROVE  CapInv'
<1>1. /\ pc[u] = "written" /\ records' = records \cup {u} /\ overlap' = overlap
      /\ pc' = [pc EXCEPT ![u] = "recorded"]
  BY DEF Record, historyVars
<1>2. u \in UnderWay /\ UnderWay' \subseteq UnderWay
  BY <1>1 DEF UnderWay, TypeOK, Pending
<1>3. records' \subseteq Upload /\ IsFiniteSet(records')
  BY <1>1, FS_AddElement DEF CapInv, TypeOK
<1>4. QED
  BY <1>1, <1>2, <1>3, CapKept

\* The cap is exceeded by no more than the largest overlap.
THEOREM CapExceededByOverlapOnlyHolds == Spec => []CapExceededByOverlapOnly
<1>1. Init => CapInv
  <2> SUFFICES ASSUME Init PROVE CapInv
    OBVIOUS
  <2>1. records = {} /\ UnderWay = {} /\ records \cup UnderWay = {} /\ overlap = 0
    BY DEF Init, UnderWay
  <2>2. 0 <= TotalLimit + 0
    BY AttachmentAssumption
  <2>3. QED
    BY <2>1, <2>2, SizeOfNone, FS_EmptySet DEF CapInv
<1>2. TypeOK /\ CapInv /\ [Next]_vars => CapInv'
  <2> SUFFICES ASSUME TypeOK, CapInv, [Next]_vars PROVE CapInv'
    OBVIOUS
  <2> USE DEF handlerVars, managerVars, downloadVars, historyVars
  <2>1. ASSUME NEW u \in Upload,
               Stamp(u) \/ BeginWrite(u) \/ EndWrite(u) \/ Answer(u) \/ WriteFails(u)
                 \/ Cancel(u) \/ StoreFails(u) \/ RefuseLater(u)
        PROVE  CapInv'
    <3>1. records' = records /\ overlap' = overlap
      BY <2>1 DEF Stamp, BeginWrite, EndWrite, Answer, WriteFails, Cancel, StoreFails,
                  RefuseLater
    <3>2. UnderWay' \subseteq UnderWay
      BY <2>1 DEF Stamp, BeginWrite, EndWrite, Answer, WriteFails, Cancel, StoreFails,
                  RefuseLater, TypeOK, Pending, UnderWay
    <3>3. QED
      BY <3>1, <3>2, CapKept DEF CapInv, TypeOK
  <2>2. ASSUME \/ Manager
               \/ \E d \in Download : ServeFile(d)
               \/ ClockTick \/ Crash \/ UNCHANGED vars
        PROVE  CapInv'
    <3>1. records' \subseteq records /\ overlap' = overlap
      BY <2>2 DEF Manager, ManagerTick, SelectExpired, DeleteRecords, TickEnds, ExpireFails,
                  RemoveFile, RemoveFails, ServeFile, Lookup, CheckExpiry, ReadFile,
                  ClockTick, Crash, vars
    <3>2. \A v \in Upload : pc'[v] \in {"checked", "writing", "written"} => pc'[v] = pc[v]
      BY <2>2 DEF Manager, ManagerTick, SelectExpired, DeleteRecords, TickEnds, ExpireFails,
                  RemoveFile, RemoveFails, ServeFile, Lookup, CheckExpiry, ReadFile,
                  ClockTick, Crash, vars
    <3>3. UnderWay' \subseteq UnderWay
      BY <3>2 DEF UnderWay
    <3>4. records' \subseteq Upload /\ IsFiniteSet(records')
      BY <3>1, FS_Subset DEF CapInv, TypeOK
    <3>5. QED
      BY <3>1, <3>3, <3>4, CapKept
  <2>3. QED
    BY <2>1, <2>2, CapChecked, CapRecorded DEF Next, Handler
<1>3. TypeOK /\ CapInv => CapExceededByOverlapOnly
  <2> SUFFICES ASSUME TypeOK, CapInv PROVE StoredSize <= TotalLimit + overlap
    BY DEF CapExceededByOverlapOnly
  <2> DEFINE both == records \cup UnderWay
  <2>1. /\ both \in SUBSET Upload /\ IsFiniteSet(both) /\ records \in SUBSET both
        /\ records \in SUBSET Upload /\ IsFiniteSet(records)
    BY FS_Union DEF CapInv, TypeOK, UnderWay
  <2>2. SizeOf(both) <= TotalLimit + overlap
    BY DEF CapInv
  <2> HIDE DEF both
  <2>3. SizeOf(records) <= SizeOf(both)
    BY <2>1, SizeGrows
  <2>4. /\ SizeOf(records) \in Nat /\ SizeOf(both) \in Nat
        /\ TotalLimit \in Nat /\ overlap \in Nat
    BY <2>1, SizeType, AttachmentAssumption DEF CapInv
  <2>5. QED
    BY <2>2, <2>3, <2>4 DEF StoredSize
<1>4. QED
  BY <1>1, <1>2, <1>3, AttachmentTypeCorrect, PTL DEF Spec

=============================================================================
