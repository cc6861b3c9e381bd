------------------------------- MODULE Schema -------------------------------
(***************************************************************************)
(* Opening the database and migrating its schema (src/src/db/schema.rs,    *)
(* called by db::open), with interruptions: the process is killed, or a    *)
(* statement fails and the start is given up.                              *)
(*                                                                         *)
(* migrate runs its statements one by one.  execute_batch is not a         *)
(* transaction, so each commits on its own and an interruption leaves      *)
(* those before it in the file.  Indexes are left out.                     *)
(*                                                                         *)
(* The database is new or was left by a release whose SCHEMA_VERSION was   *)
(* 1 to 5.  Rows are followed for web push subscriptions, the one table    *)
(* that a migration copies.                                                *)
(***************************************************************************)
EXTENDS Integers, Sequences

CONSTANTS
  Sub,           \* ids of web push subscriptions
  KeyOf,         \* the (topic, endpoint) of each
  MaxInterrupts  \* bound: starts and runs cut short

ASSUME SubAssumption == MaxInterrupts \in Nat /\ DOMAIN KeyOf = Sub

SCHEMA_VERSION == 5

VARIABLES
  process,     \* "down", "migrating" or "serving"
  step,        \* the next statement of the script
  version,     \* PRAGMA user_version
  tables,      \* what was created: tables, and messages' attachment column
  webpush,     \* webpush_subscriptions: "absent", "plain" or "unique"
  rows,        \* its rows
  copying,     \* webpush_subscriptions_new exists
  copied,      \* its rows
  owed,        \* history: the keys subscribed and not unsubscribed
  interrupts   \* interruptions so far

database == <<version, tables, webpush, rows, copying, copied>>
vars     == <<process, step, database, owed, interrupts>>

\* Mutant: migrate_v5 drops the table before the copy.
ScriptDropFirst == <<
  <<1, "messages">>, <<1, "version">>,
  <<2, "users">>, <<2, "tokens">>, <<2, "topic_acl">>, <<2, "version">>,
  <<3, "column">>, <<3, "attachments">>, <<3, "version">>,
  <<4, "vapid_keys">>, <<4, "webpush">>, <<4, "version">>,
  <<5, "create_new">>, <<5, "drop">>, <<5, "copy">>, <<5, "rename">>, <<5, "version">> >>

\* The statements of migrate_v1 to migrate_v5 in order, with the migration
\* each belongs to.
Script == <<
  <<1, "messages">>, <<1, "version">>,
  <<2, "users">>, <<2, "tokens">>, <<2, "topic_acl">>, <<2, "version">>,
  <<3, "column">>, <<3, "attachments">>, <<3, "version">>,
  <<4, "vapid_keys">>, <<4, "webpush">>, <<4, "version">>,
  <<5, "create_new">>, <<5, "copy">>, <<5, "drop">>, <<5, "rename">>, <<5, "version">> >>

\* The tables CREATE TABLE IF NOT EXISTS makes, and what it makes with them.
Creates(statement) ==
  CASE statement = "messages" -> {"messages", "column"}
    [] statement \in {"users", "tokens", "topic_acl", "attachments", "vapid_keys"} ->
         {statement}
    [] OTHER -> {}

Tables == {"messages", "column", "users", "tokens", "topic_acl", "attachments", "vapid_keys"}

TypeOK ==
  /\ process \in {"down", "migrating", "serving"}
  /\ step \in 1 .. Len(Script) + 1
  /\ version \in 0 .. SCHEMA_VERSION
  /\ tables \in SUBSET Tables
  /\ webpush \in {"absent", "plain", "unique"}
  /\ rows \in SUBSET Sub /\ (webpush = "absent" => rows = {})
  /\ copying \in {"yes", "no"}
  /\ copied \in SUBSET Sub /\ (copying = "no" => copied = {})
  /\ interrupts \in 0 .. MaxInterrupts

Keys(subs) == {KeyOf[s] : s \in subs}

OnePerKey(subs) == \A r, s \in subs : KeyOf[r] = KeyOf[s] => r = s

\* What a release with SCHEMA_VERSION v created (none for v = 0).
TablesOf(v) ==
  (UNION {Creates(Script[i][2]) : i \in {j \in 1 .. Len(Script) : Script[j][1] <= v}})
    \ (IF v \in {1, 2} THEN {"column"} ELSE {})

Init ==
  /\ process = "down" /\ step = 1 /\ interrupts = 0
  /\ version \in 0 .. SCHEMA_VERSION
  /\ tables = TablesOf(version)
  /\ webpush = CASE version < 4 -> "absent" [] version = 4 -> "plain" [] OTHER -> "unique"
  /\ rows \in SUBSET Sub
  /\ version < 4 => rows = {}
  /\ version = 5 => OnePerKey(rows)
  /\ copying = "no" /\ copied = {}
  /\ owed = Keys(rows)

-----------------------------------------------------------------------------
\* migrate: read user_version and go to the first migration above it.
Open ==
  /\ process = "down"
  /\ process' = IF version < SCHEMA_VERSION THEN "migrating" ELSE "serving"
  /\ step' = CHOOSE i \in 1 .. Len(Script) + 1 :
               /\ i <= Len(Script) => Script[i][1] > version
               /\ \A j \in 1 .. i - 1 : Script[j][1] <= version
  /\ UNCHANGED <<database, owed, interrupts>>

At(statement) ==
  process = "migrating" /\ Script[step][2] = statement

\* A statement succeeded; after the last one the pool is handed out.
Advance ==
  /\ step' = step + 1
  /\ process' = IF step = Len(Script) THEN "serving" ELSE "migrating"
  /\ UNCHANGED <<owed, interrupts>>

\* A table that exists already is left as it is, old columns included.
CreateTable(statement) ==
  /\ At(statement) /\ Creates(statement) # {}
  /\ tables' = IF statement \in tables THEN tables ELSE tables \cup Creates(statement)
  /\ Advance
  /\ UNCHANGED <<version, webpush, rows, copying, copied>>

SetUserVersion ==
  /\ At("version")
  /\ version' = SCHEMA_VERSION
  /\ Advance
  /\ UNCHANGED <<tables, webpush, rows, copying, copied>>

\* Mutant: the column is left to CREATE TABLE IF NOT EXISTS.
AddNoColumn ==
  /\ At("column")
  /\ Advance
  /\ UNCHANGED database

\* ALTER TABLE messages ADD COLUMN, its error ignored.
AddColumn ==
  /\ At("column")
  /\ tables' = tables \cup {"column"}
  /\ Advance
  /\ UNCHANGED <<version, webpush, rows, copying, copied>>

CreateWebpush ==
  /\ At("webpush")
  /\ webpush' = IF webpush = "absent" THEN "plain" ELSE webpush
  /\ Advance
  /\ UNCHANGED <<version, tables, rows, copying, copied>>

\* Mutant: CREATE TABLE without IF NOT EXISTS.
CreateNewOnce ==
  /\ At("create_new")
  /\ IF copying = "no"
       THEN copying' = "yes" /\ Advance
       ELSE process' = "down" /\ UNCHANGED <<copying, step, owed, interrupts>>
  /\ UNCHANGED <<version, tables, webpush, rows, copied>>

CreateNew ==
  /\ At("create_new")
  /\ copying' = "yes"
  /\ Advance
  /\ UNCHANGED <<version, tables, webpush, rows, copied>>

\* INSERT OR IGNORE: of the rows that share a key, whichever comes first.
Copy ==
  /\ At("copy") /\ webpush # "absent"
  /\ \E new \in SUBSET rows :
       /\ OnePerKey(copied \cup new)
       /\ Keys(copied \cup new) = Keys(copied \cup rows)
       /\ copied' = copied \cup new
  /\ Advance
  /\ UNCHANGED <<version, tables, webpush, rows, copying>>

Drop ==
  /\ At("drop") /\ webpush # "absent"
  /\ webpush' = "absent" /\ rows' = {}
  /\ Advance
  /\ UNCHANGED <<version, tables, copying, copied>>

\* Mutant: the new table is copied back and left behind.
CopyBack ==
  /\ At("rename")
  /\ webpush' = "unique" /\ rows' = copied
  /\ copying' = "no"
  /\ Advance
  /\ UNCHANGED <<version, tables, copied>>

Rename ==
  /\ At("rename")
  /\ webpush' = "unique" /\ rows' = copied
  /\ copying' = "no" /\ copied' = {}
  /\ Advance
  /\ UNCHANGED <<version, tables>>

\* The copy reads a table that is not there: the start fails.
TableMissing ==
  /\ At("copy") /\ webpush = "absent"
  /\ process' = "down"
  /\ UNCHANGED <<step, database, owed, interrupts>>

Interrupt ==
  /\ process # "down" /\ interrupts < MaxInterrupts
  /\ process' = "down" /\ interrupts' = interrupts + 1
  /\ UNCHANGED <<step, database, owed>>

-----------------------------------------------------------------------------
(* The table in use: db/webpush.rs.                                        *)

\* add_subscription, INSERT OR REPLACE: what it replaces depends on UNIQUE.
AddSubscription(s) ==
  /\ process = "serving" /\ webpush # "absent" /\ s \notin rows
  /\ rows' = {s} \cup (IF webpush = "unique"
                         THEN {r \in rows : KeyOf[r] # KeyOf[s]} ELSE rows)
  /\ owed' = owed \cup {KeyOf[s]}
  /\ UNCHANGED <<process, step, version, tables, webpush, copying, copied, interrupts>>

DeleteSubscription(s) ==
  /\ process = "serving" /\ s \in rows
  /\ rows' = rows \ {s}
  /\ owed' = IF KeyOf[s] \in Keys(rows \ {s}) THEN owed ELSE owed \ {KeyOf[s]}
  /\ UNCHANGED <<process, step, version, tables, webpush, copying, copied, interrupts>>

Migrate ==
  \/ \E i \in 1 .. Len(Script) : CreateTable(Script[i][2])
  \/ SetUserVersion \/ AddColumn \/ CreateWebpush
  \/ CreateNew \/ Copy \/ Drop \/ Rename
  \/ TableMissing

Next ==
  \/ Open \/ Migrate \/ Interrupt
  \/ \E s \in Sub : AddSubscription(s) \/ DeleteSubscription(s)

Spec == Init /\ [][Next]_vars

\* The start runs on by itself, and whoever runs the server starts it again.
FairSpec == Spec /\ WF_vars(Open) /\ WF_vars(Migrate)

-----------------------------------------------------------------------------
Complete == tables = Tables /\ webpush = "unique" /\ copying = "no"

\* A start that nothing interrupts ends with the full schema, from every
\* release's database (schema.rs:7-32).
UninterruptedStartIsComplete ==
  process = "serving" /\ interrupts = 0 => Complete

\* Wherever migrate_v5 is cut, in its statements or between two attempts, every
\* subscribed (topic, endpoint) is still in one of the two tables
\* (schema.rs:177-199).
NoSubscriptionIsLost == owed = Keys(rows \cup copied)

\* Cut between the DROP and the RENAME of migrate_v5 (schema.rs:195-198): the
\* next start's copy reads a table that is not there.
Stranded == webpush = "absent" /\ copying = "yes"

\* Cut anywhere else, however often, a start is made good by a later one: no other
\* place in the script leaves a database that no start gets through.
StartEnds ==
  process = "migrating" ~>
    \/ process = "serving"
    \/ process = "down" /\ Stranded

-----------------------------------------------------------------------------
(* What does not hold.                                                     *)

\* schema.rs:6 says migrate applies "all pending migrations in order": a server
\* that is up has the full schema.
ServedSchemaIsComplete == process = "serving" => Complete

\* The same, of a start that was cut before: some start gets to the end.
StartServes == process = "migrating" ~> process = "serving"

\* db/webpush.rs:39-42 says of add_subscription: re-subscribing "updates the row
\* in place rather than creating a duplicate that would result in double
\* notifications".
EndpointOnce == process = "serving" => OnePerKey(rows)

=============================================================================
