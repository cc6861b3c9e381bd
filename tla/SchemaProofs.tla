---------------------------- MODULE SchemaProofs -----------------------------
(***************************************************************************)
(* Proofs about the schema migrations, for any subscriptions, any sharing  *)
(* of keys among them and any number of interruptions.                     *)
(***************************************************************************)
EXTENDS Schema, TLAPS

\* Which databases hold subscriptions.  Every migration but the last sets
\* user_version to 5 too early, but only a database of version 4 has rows when
\* it is migrated, and it keeps that number until the copy is renamed.
VersionInv ==
  /\ version < 4 => rows = {} /\ copied = {}
  /\ version = 5 => copied = {}
  /\ process = "serving" => version = 5
  /\ process = "migrating" =>
       /\ step <= Len(Script)
       /\ version = 4 => step >= 13
       /\ version = 5 => rows = {}

\* What the statements of migrate_v5 rely on.
CopyInv ==
  process = "migrating" =>
       /\ step \in 14 .. 16 => copying = "yes"
       /\ step = 15 => Keys(rows) \subseteq Keys(copied)
       /\ step = 16 => rows = {}
       /\ step = 17 => copied = {}

\* The database as a release left it, or as far as the first start has come.
MadeBefore(i) ==
  /\ i > 1  => "messages" \in tables
  /\ i > 3  => "users" \in tables
  /\ i > 4  => "tokens" \in tables
  /\ i > 5  => "topic_acl" \in tables
  /\ i > 7  => "column" \in tables
  /\ i > 8  => "attachments" \in tables
  /\ i > 10 => "vapid_keys" \in tables
  /\ i \in 12 .. 15 => webpush # "absent"
  /\ i > 16 => webpush = "unique"
  /\ i \in (1 .. 13) \cup {17, 18} => copying = "no"

\* Where migrate goes for each version.
FirstStep(v) ==
  CASE v = 0 -> 1 [] v = 1 -> 3 [] v = 2 -> 7 [] v = 3 -> 10 [] v = 4 -> 13 [] OTHER -> 18

FirstStartInv ==
  interrupts = 0 =>
    /\ process = "down" => MadeBefore(FirstStep(version))
    /\ process = "migrating" => MadeBefore(step)
    /\ process = "serving" => MadeBefore(18)

RowsInv == VersionInv /\ CopyInv /\ NoSubscriptionIsLost

SchemaInv == TypeOK /\ RowsInv /\ FirstStartInv

-----------------------------------------------------------------------------
(* The script.                                                             *)

\* The statements, one by one.
LEMMA Listing ==
         /\ Len(Script) = 17
         /\ Script[1] = <<1, "messages">>  /\ Script[2] = <<1, "version">>
         /\ Script[3] = <<2, "users">>  /\ Script[4] = <<2, "tokens">>
         /\ Script[5] = <<2, "topic_acl">>  /\ Script[6] = <<2, "version">>
         /\ Script[7] = <<3, "column">>  /\ Script[8] = <<3, "attachments">>
         /\ Script[9] = <<3, "version">>  /\ Script[10] = <<4, "vapid_keys">>
         /\ Script[11] = <<4, "webpush">>  /\ Script[12] = <<4, "version">>
         /\ Script[13] = <<5, "create_new">>  /\ Script[14] = <<5, "copy">>
         /\ Script[15] = <<5, "drop">>  /\ Script[16] = <<5, "rename">>
         /\ Script[17] = <<5, "version">>
  BY DEF Script

\* Its positions.
LEMMA Positions ==
  ASSUME NEW i \in 1 .. 17
  PROVE  \/ i = 1  \/ i = 2  \/ i = 3  \/ i = 4  \/ i = 5  \/ i = 6  \/ i = 7
         \/ i = 8  \/ i = 9  \/ i = 10 \/ i = 11 \/ i = 12 \/ i = 13 \/ i = 14
         \/ i = 15 \/ i = 16 \/ i = 17
  OBVIOUS

\* Where each statement stands.
LEMMA Where ==
  ASSUME NEW i \in 1 .. 17
  PROVE  /\ Creates(Script[i][2]) # {} => i \in {1, 3, 4, 5, 8, 10}
         /\ Script[i][2] = "version" => i \in {2, 6, 9, 12, 17}
         /\ Script[i][2] = "column" => i = 7
         /\ Script[i][2] = "webpush" => i = 11
         /\ Script[i][2] = "create_new" => i = 13
         /\ Script[i][2] = "copy" => i = 14
         /\ Script[i][2] = "drop" => i = 15
         /\ Script[i][2] = "rename" => i = 16
  BY Positions, Listing DEF Creates

\* migrate goes to the first migration above the version.
LEMMA OpenGoes ==
  ASSUME TypeOK, Open
  PROVE  step' = FirstStep(version)
<1> DEFINE first(i) ==
      /\ i <= Len(Script) => Script[i][1] > version
      /\ \A j \in 1 .. i - 1 : Script[j][1] <= version
<1>1. Len(Script) = 17 /\ \A i \in 1 .. 17 : Script[i][1] \in 1 .. 5
  BY Positions, Listing
<1>2. version \in {0, 1, 2, 3, 4, 5}
  BY DEF TypeOK, SCHEMA_VERSION
<1>3. FirstStep(version) \in 1 .. 18
  BY <1>2 DEF FirstStep
<1>4. first(FirstStep(version))
  <2>1. CASE version = 0
    BY <2>1, Listing DEF FirstStep
  <2>2. CASE version = 1
    <3>1. \A j \in 1 .. 2 : j = 1 \/ j = 2
      OBVIOUS
    <3>2. QED
      BY <2>2, <3>1, Listing DEF FirstStep
  <2>3. CASE version = 2
    <3>1. \A j \in 1 .. 6 : j = 1 \/ j = 2 \/ j = 3 \/ j = 4 \/ j = 5 \/ j = 6
      OBVIOUS
    <3>2. QED
      BY <2>3, <3>1, Listing DEF FirstStep
  <2>4. CASE version = 3
    <3>1. \A j \in 1 .. 9 :
            j = 1 \/ j = 2 \/ j = 3 \/ j = 4 \/ j = 5 \/ j = 6 \/ j = 7 \/ j = 8 \/ j = 9
      OBVIOUS
    <3>2. QED
      BY <2>4, <3>1, Listing DEF FirstStep
  <2>5. CASE version = 4
    <3>1. \A j \in 1 .. 12 : Script[j][1] <= 4
      BY Positions, Listing
    <3>2. QED
      BY <2>5, <3>1, Listing DEF FirstStep
  <2>6. CASE version = 5
    BY <1>1, <2>6 DEF FirstStep
  <2>7. QED
    BY <1>2, <2>1, <2>2, <2>3, <2>4, <2>5, <2>6
<1>5. \A i, k \in 1 .. 18 : first(i) /\ first(k) => i = k
  <2>1. ASSUME NEW i \in 1 .. 18, NEW k \in 1 .. 18, first(i), first(k), i < k
        PROVE  FALSE
    <3>1. i \in 1 .. k - 1 /\ i <= 17
      BY <2>1
    <3>2. Script[i][1] <= version /\ Script[i][1] > version
      BY <1>1, <2>1, <3>1
    <3>3. QED
      BY <1>1, <1>2, <3>1, <3>2
  <2>2. \A i, k \in 1 .. 18 : i < k \/ k < i \/ i = k
    OBVIOUS
  <2> HIDE DEF first
  <2>3. QED
    BY <2>1, <2>2
<1>6. step' = CHOOSE i \in 1 .. 18 : first(i)
  BY <1>1 DEF Open
<1> HIDE DEF first
<1>7. QED
  BY <1>3, <1>4, <1>5, <1>6

-----------------------------------------------------------------------------
(* Types.                                                                  *)

\* The types survive a step of the process in which it does not migrate.
LEMMA LifeType ==
  ASSUME TypeOK,
         Open \/ Interrupt \/ UNCHANGED vars
           \/ \E s \in Sub : AddSubscription(s) \/ DeleteSubscription(s)
  PROVE  TypeOK'
<1>1. CASE Open
  <2>1. step' \in 1 .. Len(Script) + 1
    <3>1. FirstStep(version) \in 1 .. 18
      BY DEF FirstStep
    <3>2. QED
      BY <1>1, <3>1, OpenGoes, Listing
  <2>2. process' \in {"down", "migrating", "serving"}
    BY <1>1 DEF Open
  <2>3. QED
    BY <1>1, <2>1, <2>2 DEF Open, TypeOK, database
<1>2. CASE Interrupt
  BY <1>2, SubAssumption DEF Interrupt, TypeOK, database
<1>3. CASE UNCHANGED vars
  BY <1>3 DEF vars, TypeOK, database
<1>4. ASSUME NEW s \in Sub, AddSubscription(s) \/ DeleteSubscription(s) PROVE TypeOK'
  BY <1>4 DEF AddSubscription, DeleteSubscription, TypeOK
<1>5. QED
  BY <1>1, <1>2, <1>3, <1>4

\* The types survive the statements.
LEMMA MigrateType ==
  ASSUME TypeOK, VersionInv, CopyInv, Migrate
  PROVE  TypeOK'
<1>1. process = "migrating" /\ step \in 1 .. 17 /\ Len(Script) = 17
  BY Listing DEF Migrate, CreateTable, SetUserVersion, AddColumn, CreateWebpush, CreateNew,
                 Copy, Drop, Rename, TableMissing, At, TypeOK, VersionInv
<1>2. ASSUME Advance
      PROVE  /\ step' \in 1 .. Len(Script) + 1 /\ process' \in {"down", "migrating", "serving"}
             /\ interrupts' \in 0 .. MaxInterrupts
  BY <1>1, <1>2 DEF Advance, TypeOK
<1>3. ASSUME NEW i \in 1 .. Len(Script), CreateTable(Script[i][2]) PROVE TypeOK'
  <2>1. \A x : Creates(x) \subseteq Tables
    BY DEF Creates, Tables
  <2>2. QED
    BY <1>2, <1>3, <2>1 DEF CreateTable, TypeOK
<1>4. CASE SetUserVersion
  BY <1>2, <1>4 DEF SetUserVersion, TypeOK, SCHEMA_VERSION
<1>5. CASE AddColumn
  BY <1>2, <1>5 DEF AddColumn, TypeOK, Tables
<1>6. CASE CreateWebpush
  BY <1>2, <1>6 DEF CreateWebpush, TypeOK
<1>7. CASE CreateNew \/ Drop \/ Rename
  BY <1>2, <1>7 DEF CreateNew, Drop, Rename, TypeOK
<1>8. CASE Copy
  <2>1. step = 14
    BY <1>1, <1>8, Where DEF Copy, At
  <2>2. copying = "yes"
    BY <1>1, <2>1 DEF CopyInv
  <2>3. PICK new \in SUBSET rows : copied' = copied \cup new
    BY <1>8 DEF Copy
  <2>4. Advance /\ UNCHANGED <<version, tables, webpush, rows, copying>>
    BY <1>8 DEF Copy
  <2>5. QED
    BY <1>2, <2>2, <2>3, <2>4 DEF TypeOK
<1>9. CASE TableMissing
  BY <1>9 DEF TableMissing, TypeOK, database
<1>10. QED
  BY <1>3, <1>4, <1>5, <1>6, <1>7, <1>8, <1>9 DEF Migrate

-----------------------------------------------------------------------------
(* What the statements do to the subscriptions.                            *)

\* Every statement keeps what is said of the subscriptions.
LEMMA MigrateRows ==
  ASSUME TypeOK, RowsInv, Migrate
  PROVE  RowsInv'
<1> USE DEF RowsInv
<1>1. process = "migrating" /\ step \in 1 .. 17 /\ Len(Script) = 17
  BY Listing DEF Migrate, CreateTable, SetUserVersion, AddColumn, CreateWebpush, CreateNew,
                 Copy, Drop, Rename, TableMissing, At, TypeOK, VersionInv
<1>2. /\ version \in 0 .. 5
      /\ version < 4 => rows = {} /\ copied = {}
      /\ version = 4 => step >= 13
      /\ version = 5 => rows = {} /\ copied = {}
  BY <1>1 DEF TypeOK, SCHEMA_VERSION, VersionInv
<1>3. ASSUME Advance
      PROVE  /\ step' = step + 1 /\ UNCHANGED owed
             /\ step = 17 => process' = "serving"
             /\ step < 17 => process' = "migrating"
  BY <1>1, <1>3 DEF Advance
<1>4. ASSUME NEW i \in 1 .. Len(Script), CreateTable(Script[i][2]) PROVE RowsInv'
  <2>1. step \in {1, 3, 4, 5, 8, 10}
    BY <1>1, <1>4, Where DEF CreateTable, At
  <2>2. Advance /\ UNCHANGED <<version, webpush, rows, copying, copied>>
    BY <1>4 DEF CreateTable
  <2>3. step' \in 2 .. 11 /\ process' = "migrating"
    BY <1>3, <2>1, <2>2
  <2>4. VersionInv'
    BY <1>1, <1>2, <2>1, <2>2, <2>3 DEF VersionInv
  <2>5. CopyInv'
    BY <2>2, <2>3 DEF CopyInv
  <2>6. NoSubscriptionIsLost'
    BY <1>3, <2>2 DEF NoSubscriptionIsLost
  <2>7. QED
    BY <2>4, <2>5, <2>6
<1>5. CASE SetUserVersion
  <2>1. step \in {2, 6, 9, 12, 17}
    BY <1>1, <1>5, Where DEF SetUserVersion, At
  <2>2. Advance /\ version' = 5 /\ UNCHANGED <<tables, webpush, rows, copying, copied>>
    BY <1>5 DEF SetUserVersion, SCHEMA_VERSION
  <2>3. copied = {}
    BY <1>1, <1>2, <2>1 DEF CopyInv
  <2>4. step' \in {3, 7, 10, 13, 18} /\ (step # 17 => rows = {} /\ step' <= 13)
    BY <1>2, <1>3, <2>1, <2>2
  <2>5. VersionInv'
    BY <1>1, <1>3, <2>1, <2>2, <2>3, <2>4 DEF VersionInv
  <2>6. QED
    BY <1>3, <2>2, <2>4, <2>5 DEF CopyInv, NoSubscriptionIsLost
<1>6. CASE AddColumn \/ CreateWebpush
  <2>1. step \in {7, 11}
    BY <1>1, <1>6, Where DEF AddColumn, CreateWebpush, At
  <2>2. Advance /\ UNCHANGED <<version, rows, copying, copied>>
        /\ webpush' \in {"plain", webpush}
    BY <1>6 DEF AddColumn, CreateWebpush
  <2>3. step' \in {8, 12} /\ process' = "migrating"
    BY <1>3, <2>1, <2>2
  <2>4. VersionInv'
    BY <1>1, <1>2, <2>1, <2>2, <2>3 DEF VersionInv
  <2>5. QED
    BY <1>3, <2>2, <2>3, <2>4 DEF CopyInv, NoSubscriptionIsLost
<1>7. CASE CreateNew
  <2>1. step = 13
    BY <1>1, <1>7, Where DEF CreateNew, At
  <2>2. Advance /\ copying' = "yes" /\ UNCHANGED <<version, tables, webpush, rows, copied>>
    BY <1>7 DEF CreateNew
  <2>3. step' = 14 /\ process' = "migrating"
    BY <1>3, <2>1, <2>2
  <2>4. VersionInv'
    BY <1>1, <1>2, <2>1, <2>2, <2>3 DEF VersionInv
  <2>5. QED
    BY <1>3, <2>2, <2>3, <2>4 DEF CopyInv, NoSubscriptionIsLost
<1>8. CASE Copy
  <2>1. step = 14
    BY <1>1, <1>8, Where DEF Copy, At
  <2>2. PICK new \in SUBSET rows :
          /\ Keys(copied \cup new) = Keys(copied \cup rows)
          /\ copied' = copied \cup new
    BY <1>8 DEF Copy
  <2>3. Advance /\ UNCHANGED <<version, tables, webpush, rows, copying>>
    BY <1>8 DEF Copy
  <2>4. step' = 15 /\ process' = "migrating"
    BY <1>3, <2>1, <2>3
  <2>5. VersionInv'
    BY <1>1, <1>2, <2>1, <2>2, <2>3, <2>4 DEF VersionInv
  <2>6. copying' = "yes"
    BY <1>1, <2>1, <2>3 DEF CopyInv
  <2>7. Keys(rows) \subseteq Keys(copied') /\ owed = Keys(rows \cup copied')
    <3>1. Keys(rows) \subseteq Keys(copied \cup rows)
      BY DEF Keys
    <3>2. Keys(rows \cup copied) = Keys(copied \cup rows)
      BY DEF Keys
    <3>3. Keys(rows \cup copied') = Keys(rows) \cup Keys(copied')
      BY DEF Keys
    <3>4. QED
      BY <2>2, <3>1, <3>2, <3>3 DEF NoSubscriptionIsLost
  <2>8. CopyInv'
    BY <2>2, <2>3, <2>4, <2>6, <2>7 DEF CopyInv, Keys
  <2>9. QED
    BY <1>3, <2>3, <2>5, <2>7, <2>8 DEF NoSubscriptionIsLost, Keys
<1>9. CASE Drop
  <2>1. step = 15
    BY <1>1, <1>9, Where DEF Drop, At
  <2>2. /\ Advance /\ UNCHANGED <<version, tables, copying, copied>>
        /\ webpush' = "absent" /\ rows' = {}
    BY <1>9 DEF Drop
  <2>3. step' = 16 /\ process' = "migrating"
    BY <1>3, <2>1, <2>2
  <2>4. VersionInv'
    BY <1>1, <1>2, <2>1, <2>2, <2>3 DEF VersionInv
  <2>5. CopyInv'
    BY <1>1, <2>1, <2>2, <2>3 DEF CopyInv
  <2>6. owed = Keys(rows' \cup copied)
    BY <1>1, <2>1, <2>2 DEF NoSubscriptionIsLost, CopyInv, Keys
  <2>7. QED
    BY <1>3, <2>2, <2>4, <2>5, <2>6 DEF NoSubscriptionIsLost, Keys
<1>10. CASE Rename
  <2>1. step = 16
    BY <1>1, <1>10, Where DEF Rename, At
  <2>2. /\ Advance /\ UNCHANGED <<version, tables>>
        /\ rows' = copied /\ copied' = {}
    BY <1>10 DEF Rename
  <2>3. step' = 17 /\ process' = "migrating" /\ rows = {}
    BY <1>1, <1>3, <2>1, <2>2 DEF CopyInv
  <2>4. VersionInv'
    BY <1>1, <1>2, <2>1, <2>2, <2>3 DEF VersionInv
  <2>5. CopyInv'
    BY <2>2, <2>3 DEF CopyInv
  <2>6. rows' \cup copied' = rows \cup copied
    BY <2>2, <2>3
  <2>7. QED
    BY <1>3, <2>2, <2>4, <2>5, <2>6
       DEF NoSubscriptionIsLost, CopyInv, Keys
<1>11. CASE TableMissing
  BY <1>11 DEF TableMissing, database, VersionInv, CopyInv, NoSubscriptionIsLost, Keys
<1>12. QED
  BY <1>4, <1>5, <1>6, <1>7, <1>8, <1>9, <1>10, <1>11 DEF Migrate

\* So does everything else: a start, an interruption, and the table in use.
LEMMA LifeRows ==
  ASSUME TypeOK, RowsInv,
         Open \/ Interrupt \/ UNCHANGED vars
           \/ \E s \in Sub : AddSubscription(s) \/ DeleteSubscription(s)
  PROVE  RowsInv'
<1> USE DEF RowsInv
<1>1. CASE Open
  <2>1. /\ version \in 0 .. 5 /\ UNCHANGED <<database, owed, interrupts>>
        /\ process' = IF version < 5 THEN "migrating" ELSE "serving"
        /\ step' = FirstStep(version)
    BY <1>1, OpenGoes DEF Open, TypeOK, SCHEMA_VERSION
  <2>2. version < 5 => step' \in {1, 3, 7, 10, 13}
    BY <2>1 DEF FirstStep
  <2>3. version = 4 => step' = 13
    BY <2>1 DEF FirstStep
  <2>4. VersionInv'
    BY <2>1, <2>2, <2>3, Listing DEF VersionInv, database
  <2>5. CopyInv'
    BY <2>1, <2>2 DEF CopyInv, database
  <2>6. QED
    BY <2>1, <2>4, <2>5 DEF NoSubscriptionIsLost, database, Keys
<1>2. CASE Interrupt
  BY <1>2 DEF Interrupt, database, VersionInv, CopyInv, NoSubscriptionIsLost, Keys
<1>3. CASE UNCHANGED vars
  BY <1>3 DEF vars, database, VersionInv, CopyInv, NoSubscriptionIsLost, Keys
<1>4. ASSUME NEW s \in Sub, AddSubscription(s) PROVE RowsInv'
  <2>1. /\ process = "serving" /\ version = 5 /\ copied = {}
        /\ UNCHANGED <<process, step, version, tables, webpush, copying, copied, interrupts>>
        /\ owed' = owed \cup {KeyOf[s]}
        /\ rows' = {s} \cup (IF webpush = "unique"
                               THEN {r \in rows : KeyOf[r] # KeyOf[s]} ELSE rows)
    BY <1>4 DEF AddSubscription, VersionInv
  <2>2. Keys(rows') = Keys(rows) \cup {KeyOf[s]}
    BY <2>1 DEF Keys
  <2>3. owed' = Keys(rows' \cup copied')
    BY <2>1, <2>2 DEF NoSubscriptionIsLost
  <2>4. QED
    BY <2>1, <2>3 DEF VersionInv, CopyInv, NoSubscriptionIsLost, Keys
<1>5. ASSUME NEW s \in Sub, DeleteSubscription(s) PROVE RowsInv'
  <2>1. /\ process = "serving" /\ version = 5 /\ copied = {} /\ s \in rows
        /\ UNCHANGED <<process, step, version, tables, webpush, copying, copied, interrupts>>
        /\ owed' = IF KeyOf[s] \in Keys(rows \ {s}) THEN owed ELSE owed \ {KeyOf[s]}
        /\ rows' = rows \ {s}
    BY <1>5 DEF DeleteSubscription, VersionInv
  <2>2. Keys(rows) = Keys(rows') \cup {KeyOf[s]}
    BY <2>1 DEF Keys
  <2>3. owed' = Keys(rows' \cup copied')
    BY <2>1, <2>2 DEF NoSubscriptionIsLost
  <2>4. QED
    BY <2>1, <2>3 DEF VersionInv, CopyInv, NoSubscriptionIsLost, Keys
<1>6. QED
  BY <1>1, <1>2, <1>3, <1>4, <1>5

-----------------------------------------------------------------------------
(* What the statements do to the tables on a start that nothing cut.       *)

\* Each statement makes what the next ones, and the server, count on.
LEMMA MigrateFirst ==
  ASSUME TypeOK, RowsInv, FirstStartInv, Migrate
  PROVE  FirstStartInv'
<1> SUFFICES ASSUME interrupts' = 0 PROVE FirstStartInv'
  BY DEF FirstStartInv
<1>1. process = "migrating" /\ step \in 1 .. 17 /\ Len(Script) = 17 /\ interrupts' = interrupts
  BY Listing DEF Migrate, CreateTable, SetUserVersion, AddColumn, CreateWebpush, CreateNew,
                 Copy, Drop, Rename, TableMissing, At, TypeOK, RowsInv, VersionInv, Advance
<1>2. MadeBefore(step)
  BY <1>1 DEF FirstStartInv
<1>0. PICK next \in 2 .. 18 : next = step + 1
  BY <1>1
<1>3. ASSUME Advance, MadeBefore(next)' PROVE FirstStartInv'
  <2>1. /\ step' = next
        /\ next = 18 => process' = "serving"
        /\ next # 18 => process' = "migrating"
    BY <1>0, <1>1, <1>3 DEF Advance
  <2>2. QED
    BY <1>3, <2>1 DEF FirstStartInv, MadeBefore
<1>4. ASSUME NEW i \in 1 .. Len(Script), CreateTable(Script[i][2]) PROVE FirstStartInv'
  <2>1. step \in {1, 3, 4, 5, 8, 10} /\ Script[step][2] = Script[i][2]
    BY <1>1, <1>4, Where DEF CreateTable, At
  <2>2. Advance /\ UNCHANGED <<webpush, copying>>
        /\ tables \subseteq tables' /\ Script[step][2] \in tables'
    <3>1. Script[step][2] \in Creates(Script[step][2])
      BY <2>1, Listing DEF Creates
    <3>2. QED
      BY <1>4, <2>1, <3>1 DEF CreateTable
  <2>3. MadeBefore(next)'
    <3>1. step \in {1, 3, 4, 5, 8, 10}
      BY <2>1
    <3>2. /\ step = 1 => "messages" \in tables'
          /\ step = 3 => "users" \in tables'
          /\ step = 4 => "tokens" \in tables'
          /\ step = 5 => "topic_acl" \in tables'
          /\ step = 8 => "attachments" \in tables'
          /\ step = 10 => "vapid_keys" \in tables'
      BY <2>2, Listing
    <3>3. QED
      BY <1>0, <1>2, <2>2, <3>1, <3>2 DEF MadeBefore
  <2>4. QED
    BY <1>3, <2>2, <2>3
<1>5. CASE SetUserVersion
  <2>1. step \in {2, 6, 9, 12, 17}
    BY <1>1, <1>5, Where DEF SetUserVersion, At
  <2>2. Advance /\ UNCHANGED <<tables, webpush, copying>>
    BY <1>5 DEF SetUserVersion
  <2>3. MadeBefore(next)'
    BY <1>0, <1>2, <2>1, <2>2 DEF MadeBefore
  <2>4. QED
    BY <1>3, <2>2, <2>3
<1>6. CASE AddColumn
  <2>1. step = 7 /\ Advance /\ tables' = tables \cup {"column"} /\ UNCHANGED <<webpush, copying>>
    BY <1>1, <1>6, Where DEF AddColumn, At
  <2>2. MadeBefore(next)'
    BY <1>0, <1>2, <2>1 DEF MadeBefore
  <2>3. QED
    BY <1>3, <2>1, <2>2
<1>7. CASE CreateWebpush
  <2>1. step = 11 /\ Advance /\ UNCHANGED <<tables, copying>> /\ webpush' # "absent"
    BY <1>1, <1>7, Where DEF CreateWebpush, At
  <2>2. MadeBefore(next)'
    BY <1>0, <1>2, <2>1 DEF MadeBefore
  <2>3. QED
    BY <1>3, <2>1, <2>2
<1>8. CASE CreateNew \/ Copy
  <2>1. step \in {13, 14} /\ Advance /\ UNCHANGED <<tables, webpush>>
    BY <1>1, <1>8, Where DEF CreateNew, Copy, At
  <2>2. MadeBefore(next)'
    BY <1>0, <1>2, <2>1 DEF MadeBefore
  <2>3. QED
    BY <1>3, <2>1, <2>2
<1>9. CASE Drop
  <2>1. step = 15 /\ Advance /\ UNCHANGED tables
    BY <1>1, <1>9, Where DEF Drop, At
  <2>2. MadeBefore(next)'
    BY <1>0, <1>2, <2>1 DEF MadeBefore
  <2>3. QED
    BY <1>3, <2>1, <2>2
<1>10. CASE Rename
  <2>1. /\ step = 16 /\ Advance /\ UNCHANGED tables
        /\ webpush' = "unique" /\ copying' = "no"
    BY <1>1, <1>10, Where DEF Rename, At
  <2>2. MadeBefore(next)'
    BY <1>0, <1>2, <2>1 DEF MadeBefore
  <2>3. QED
    BY <1>3, <2>1, <2>2
<1>11. ~TableMissing
  <2>1. SUFFICES ASSUME TableMissing PROVE FALSE
    OBVIOUS
  <2>2. step = 14 /\ webpush = "absent"
    BY <1>1, <2>1, Where DEF TableMissing, At
  <2>3. QED
    BY <1>2, <2>2 DEF MadeBefore
<1>12. QED
  BY <1>4, <1>5, <1>6, <1>7, <1>8, <1>9, <1>10, <1>11 DEF Migrate

\* The server in use leaves the tables alone, and a start begins where the
\* release that left the database stopped.
LEMMA LifeFirst ==
  ASSUME TypeOK, RowsInv, FirstStartInv,
         Open \/ Interrupt \/ UNCHANGED vars
           \/ \E s \in Sub : AddSubscription(s) \/ DeleteSubscription(s)
  PROVE  FirstStartInv'
<1>1. CASE Open
  <2>1. /\ UNCHANGED <<database, owed, interrupts>> /\ step' = FirstStep(version)
        /\ process = "down"
        /\ process' = IF version < 5 THEN "migrating" ELSE "serving"
        /\ version \in 0 .. 5
    BY <1>1, OpenGoes DEF Open, SCHEMA_VERSION, TypeOK
  <2>2. version = 5 => FirstStep(version) = 18
    BY DEF FirstStep
  <2>3. QED
    BY <2>1, <2>2 DEF FirstStartInv, MadeBefore, database
<1>2. CASE Interrupt
  BY <1>2 DEF Interrupt, FirstStartInv, TypeOK
<1>3. CASE UNCHANGED vars
  BY <1>3 DEF vars, database, FirstStartInv, MadeBefore, FirstStep
<1>4. ASSUME NEW s \in Sub, AddSubscription(s) \/ DeleteSubscription(s) PROVE FirstStartInv'
  BY <1>4 DEF AddSubscription, DeleteSubscription, FirstStartInv, MadeBefore
<1>5. QED
  BY <1>1, <1>2, <1>3, <1>4

-----------------------------------------------------------------------------
(* The invariant, and what follows from it.                                *)

\* A release's database has what the first start counts on.
LEMMA SchemaInvInit == Init => SchemaInv
<1> SUFFICES ASSUME Init PROVE SchemaInv
  OBVIOUS
<1>1. version \in 0 .. 5 /\ tables = TablesOf(version)
  BY DEF Init, SCHEMA_VERSION
<1>2. tables \in SUBSET Tables
  <2>1. \A x : Creates(x) \subseteq Tables
    BY DEF Creates, Tables
  <2>2. QED
    BY <1>1, <2>1 DEF TablesOf
<1>3. TypeOK
  BY <1>2, SubAssumption, Listing DEF Init, TypeOK, SCHEMA_VERSION
<1>4. RowsInv
  <2>1. rows \cup copied = rows
    BY DEF Init
  <2>2. NoSubscriptionIsLost
    BY <2>1 DEF Init, NoSubscriptionIsLost
  <2>3. QED
    BY <2>2 DEF Init, RowsInv, VersionInv, CopyInv
<1>5. /\ version >= 1 => "messages" \in tables
      /\ version >= 2 => {"users", "tokens", "topic_acl"} \subseteq tables
      /\ version >= 3 => {"column", "attachments"} \subseteq tables
      /\ version >= 4 => "vapid_keys" \in tables
  <2>1. ASSUME NEW i \in 1 .. 17, NEW x \in Creates(Script[i][2]), Script[i][1] <= version,
               x # "column" \/ version \notin {1, 2}
        PROVE  x \in tables
    <3>1. i \in {j \in 1 .. Len(Script) : Script[j][1] <= version}
      BY <2>1, Listing
    <3>2. x \in UNION {Creates(Script[k][2]) :
                         k \in {j \in 1 .. Len(Script) : Script[j][1] <= version}}
      BY <3>1
    <3>3. x \notin (IF version \in {1, 2} THEN {"column"} ELSE {})
      BY <2>1
    <3>4. QED
      BY <1>1, <3>2, <3>3 DEF TablesOf
  <2>2. /\ "messages" \in Creates(Script[1][2]) /\ "users" \in Creates(Script[3][2])
        /\ "tokens" \in Creates(Script[4][2]) /\ "topic_acl" \in Creates(Script[5][2])
        /\ "column" \in Creates(Script[1][2]) /\ "attachments" \in Creates(Script[8][2])
        /\ "vapid_keys" \in Creates(Script[10][2])
    BY Listing DEF Creates
  <2>3. /\ Script[1][1] = 1 /\ Script[3][1] = 2 /\ Script[4][1] = 2 /\ Script[5][1] = 2
        /\ Script[8][1] = 3 /\ Script[10][1] = 4
    BY Listing
  <2>4. version >= 1 => "messages" \in tables
    BY <1>1, <2>1, <2>2, <2>3
  <2>5. version >= 2 => "users" \in tables
    BY <1>1, <2>1, <2>2, <2>3
  <2>6. version >= 2 => "tokens" \in tables
    BY <1>1, <2>1, <2>2, <2>3
  <2>7. version >= 2 => "topic_acl" \in tables
    BY <1>1, <2>1, <2>2, <2>3
  <2>8. version >= 3 => "column" \in tables
    BY <1>1, <2>1, <2>2, <2>3
  <2>9. version >= 3 => "attachments" \in tables
    BY <1>1, <2>1, <2>2, <2>3
  <2>10. version >= 4 => "vapid_keys" \in tables
    BY <1>1, <2>1, <2>2, <2>3
  <2>11. QED
    BY <2>4, <2>5, <2>6, <2>7, <2>8, <2>9, <2>10
<1>6. MadeBefore(FirstStep(version))
  <2>1. webpush = (CASE version < 4 -> "absent" [] version = 4 -> "plain" [] OTHER -> "unique")
        /\ copying = "no"
    BY DEF Init
  <2>2. version \in {0, 1, 2, 3, 4, 5}
    BY <1>1
  <2>3. QED
    BY <1>5, <2>1, <2>2 DEF MadeBefore, FirstStep
<1>7. FirstStartInv
  BY <1>6 DEF FirstStartInv, Init
<1>8. QED
  BY <1>3, <1>4, <1>7 DEF SchemaInv

\* The invariant holds in every reachable state.
THEOREM SchemaInvariant == Spec => []SchemaInv
<1>1. SchemaInv /\ [Next]_vars => SchemaInv'
  <2> SUFFICES ASSUME SchemaInv, [Next]_vars PROVE SchemaInv'
    OBVIOUS
  <2>1. CASE Migrate
    BY <2>1, MigrateType, MigrateRows, MigrateFirst DEF SchemaInv, RowsInv
  <2>2. CASE ~Migrate
    BY <2>2, LifeType, LifeRows, LifeFirst DEF SchemaInv, Next
  <2>3. QED
    BY <2>1, <2>2
<1>2. QED
  BY <1>1, SchemaInvInit, PTL DEF Spec

\* Every variable keeps its type.
THEOREM SchemaTypeCorrect == Spec => []TypeOK
<1>1. SchemaInv => TypeOK
  BY DEF SchemaInv
<1>2. QED
  BY <1>1, SchemaInvariant, PTL

\* Wherever the start is cut, and however often, no subscription is lost.
THEOREM NoSubscriptionIsLostHolds == Spec => []NoSubscriptionIsLost
<1>1. SchemaInv => NoSubscriptionIsLost
  BY DEF SchemaInv, RowsInv
<1>2. QED
  BY <1>1, SchemaInvariant, PTL

\* A first start that nothing cut ends with the full schema.
THEOREM UninterruptedStartIsCompleteHolds == Spec => []UninterruptedStartIsComplete
<1>1. SchemaInv => UninterruptedStartIsComplete
  <2> SUFFICES ASSUME SchemaInv, process = "serving", interrupts = 0 PROVE Complete
    BY DEF UninterruptedStartIsComplete
  <2>1. MadeBefore(18) /\ tables \subseteq Tables
    BY DEF SchemaInv, FirstStartInv, TypeOK
  <2>2. QED
    <3>1. /\ {"messages", "column", "users", "tokens", "topic_acl", "attachments", "vapid_keys"}
               \subseteq tables
          /\ webpush = "unique" /\ copying = "no"
      BY <2>1 DEF MadeBefore
    <3>2. QED
      BY <2>1, <3>1 DEF Complete, Tables
<1>2. QED
  BY <1>1, SchemaInvariant, PTL

=============================================================================
