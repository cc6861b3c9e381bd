---------------------------- MODULE MessageStore ----------------------------
(***************************************************************************)
(* The `messages' table of src/src/db/cache.rs.                            *)
(*                                                                         *)
(* A message's time and expires fields are stamped by the handler before   *)
(* the row exists and are copied unchanged into the row's columns, so one  *)
(* pair of functions stands for both.  The payload columns (title, body,   *)
(* tags, ...) are not distinguished.                                       *)
(*                                                                         *)
(* row[m] is the row's existence and its `published' column.  "deleted"    *)
(* differs from "none" only in the history it records: no query can tell   *)
(* them apart.  unfired is history as well: the rows that were deleted     *)
(* with published = 0.                                                     *)
(***************************************************************************)
EXTENDS Integers, Messages

CONSTANT AnchorWindow  \* how far since_id looks back without its anchor (10 s)

ASSUME AnchorWindowAssumption == AnchorWindow \in Nat

VARIABLES time, expires, row, unfired

storeVars == <<time, expires, row, unfired>>

RowState == {"none", "delayed", "published", "deleted"}

StoreTypeOK ==
  /\ time    \in [Msg -> Int]
  /\ expires \in [Msg -> Int]
  /\ row     \in [Msg -> RowState]
  /\ unfired \in SUBSET Msg

StoreInit ==
  /\ time    = [m \in Msg |-> 0]
  /\ expires = [m \in Msg |-> 0]
  /\ row     = [m \in Msg |-> "none"]
  /\ unfired = {}

-----------------------------------------------------------------------------
(* Queries.  Each returns a set; ORDER BY time is applied by the caller.   *)

Stored(m) == row[m] \in {"delayed", "published"}

\* Mutants of the queries below: the due query without the time, and with an
\* equality; since without published = 1; expiry by the wrong column, and a second
\* early.
DueMessagesAnyTime(n)   == {m \in Msg : row[m] = "delayed"}
DueMessagesThisTime(n)  == {m \in Msg : row[m] = "delayed" /\ time[m] = n}
SinceTimeUnpublished(t, since) ==
  {m \in Msg : TopicOf[m] = t /\ Stored(m) /\ time[m] >= since}
ExpiredByTime(n) == {m \in Msg : Stored(m) /\ time[m] > 0 /\ time[m] < n}
ExpiredEarly(n)  == {m \in Msg : Stored(m) /\ expires[m] > 0 /\ expires[m] <= n}

\* due_messages: published = 0 AND time <= now
DueMessages(n) == {m \in Msg : row[m] = "delayed" /\ time[m] <= n}

\* since_time: time >= since AND published = 1
SinceTime(t, since) ==
  {m \in Msg : TopicOf[m] = t /\ row[m] = "published" /\ time[m] >= since}

\* Mutant: a row that is not found counts as one of this second.
AnchorTimeOrNow(t, a, n) ==
  IF Stored(a) /\ TopicOf[a] = t THEN time[a] ELSE n

\* since_id's first statement: the time of the anchor row, published or not, or
\* a moment ago when there is no such row in this topic.
AnchorTime(t, a, n) ==
  IF Stored(a) /\ TopicOf[a] = t THEN time[a] ELSE n - AnchorWindow

\* since_id's second statement: time > since AND published = 1
SinceId(t, since) ==
  {m \in Msg : TopicOf[m] = t /\ row[m] = "published" /\ time[m] > since}

\* The rows delete_expired removes; it does not look at `published'.
Expired(n) == {m \in Msg : Stored(m) /\ expires[m] > 0 /\ expires[m] < n}

-----------------------------------------------------------------------------
(* Statements.                                                             *)

\* insert: a row that is visible at once.  (id, topic) is the primary key.
Insert(m) ==
  /\ row[m] = "none"
  /\ row' = [row EXCEPT ![m] = "published"]
  /\ UNCHANGED <<time, expires, unfired>>

\* insert_delayed: a row that waits for mark_published.
InsertDelayed(m) ==
  /\ row[m] = "none"
  /\ row' = [row EXCEPT ![m] = "delayed"]
  /\ UNCHANGED <<time, expires, unfired>>

\* mark_published: UPDATE ... WHERE id = m touches nothing if the row is gone.
MarkPublished(m) ==
  /\ row' = [row EXCEPT ![m] = IF @ = "delayed" THEN "published" ELSE @]
  /\ UNCHANGED <<time, expires, unfired>>

\* delete_expired
DeleteExpired(n) ==
  /\ row' = [m \in Msg |-> IF m \in Expired(n) THEN "deleted" ELSE row[m]]
  /\ unfired' = unfired \cup {m \in Expired(n) : row[m] = "delayed"}
  /\ UNCHANGED <<time, expires>>

=============================================================================
