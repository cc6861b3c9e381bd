---------------------------- MODULE Attachments -----------------------------
(***************************************************************************)
(* Uploaded attachments: a file on disk and a record in the table          *)
(* attachments, written by the publish handler (handlers/publish.rs),      *)
(* expired by the manager (manager.rs) and read by GET /file/:id           *)
(* (handlers/file.rs).                                                     *)
(*                                                                         *)
(* File and record are never changed together, and none of the three tasks *)
(* waits for another.  The handler awaits while it writes the file: it may *)
(* be dropped there, when the client goes away, while the blocking task    *)
(* that writes goes on.  A failure or a crash may fall at every step.      *)
(*                                                                         *)
(* Each member of Upload is one request whose body passed                  *)
(* attachment_file_size_limit.  What the handler does with its message is  *)
(* module Fanout; here it is Answer or RefuseLater.                        *)
(***************************************************************************)
EXTENDS Integers, FiniteSetsExt

CONSTANTS
  Upload,      \* requests with an attachment
  Size,        \* body.len() of each
  TotalLimit,  \* attachment_total_size_limit
  Expiry,      \* attachment_expiry_secs
  Hold,        \* longest wait between the stamp and the record
  Download,    \* clients of /file/:id
  MaxTime,     \* bound: the clock stops here
  MaxFailures  \* bound: failures, disconnections and crashes

ASSUME AttachmentAssumption ==
  /\ Size \in [Upload -> Nat] /\ TotalLimit \in Nat
  /\ Expiry \in Nat /\ Hold \in Nat /\ Hold <= Expiry
  /\ MaxTime \in Nat /\ MaxFailures \in Nat

VARIABLES
  now,       \* chrono::Utc::now()
  failures,  \* failures so far
  pc,        \* how far each upload's handler has come
  expires,   \* att_expires
  file,      \* on disk: "none", "part" (being written or given up) or "whole"
  writing,   \* uploads whose blocking write runs
  records,   \* the rows of attachments
  mpc,       \* the manager's place in a tick
  mnow,      \* the `now' of the tick
  paths,     \* what delete_expired selected and is not removed yet
  dpc,       \* each download: its place, or its last answer
  link,      \* the attachment it asks for
  overlap,   \* history: the most that was under way when an upload passed the check
  leaked     \* history: uploads whose file a failure left behind

handlerVars  == <<pc, expires>>
managerVars  == <<mpc, mnow, paths>>
downloadVars == <<dpc, link>>
historyVars  == <<overlap, leaked>>
vars == <<now, failures, handlerVars, file, writing, records, managerVars,
          downloadVars, historyVars>>

\* Before the record: "stamped", "checked" (under the cap), "writing",
\* "written".  "cut": an error answer, or nobody left to answer.
Pending == {"stamped", "checked", "writing", "written"}

TypeOK ==
  /\ now \in Nat /\ failures \in Nat
  /\ pc \in [Upload -> Pending \cup {"new", "recorded", "answered", "cut"}]
  /\ expires \in [Upload -> Nat]
  /\ file \in [Upload -> {"none", "part", "whole"}]
  /\ writing \in SUBSET Upload /\ records \in SUBSET Upload
  /\ mpc \in {"idle", "ticked", "deleting", "removing"} /\ mnow \in Nat
  /\ paths \in SUBSET Upload /\ (mpc \in {"idle", "ticked"} => paths = {})
  /\ dpc \in [Download -> {"idle", "found", "reading", "served", "gone", "error"}]
  /\ link \in [Download -> Upload]
  /\ leaked \in SUBSET Upload

Init ==
  /\ now = 1 /\ failures = 0
  /\ pc = [u \in Upload |-> "new"] /\ expires = [u \in Upload |-> 0]
  /\ file = [u \in Upload |-> "none"] /\ writing = {} /\ records = {}
  /\ mpc = "idle" /\ mnow = 0 /\ paths = {}
  /\ dpc = [d \in Download |-> "idle"] /\ link \in [Download -> Upload]
  /\ overlap = 0 /\ leaked = {}

\* Something fails; bounded.
Failure == failures < MaxFailures /\ failures' = failures + 1

SizeOf(uploads) == MapThenSumSet(LAMBDA u : Size[u], uploads)

\* total_size.
StoredSize == SizeOf(records)

\* Past the check, and not recorded: no other upload's check counts them.
UnderWay == {u \in Upload : pc[u] \in {"checked", "writing", "written"}}

-----------------------------------------------------------------------------
(* The attachment branch of the publish handler.                           *)

\* The handler's `now'; uploads are not begun where the clock would stop first.
Stamp(u) ==
  /\ pc[u] = "new" /\ now + Expiry < MaxTime
  /\ pc' = [pc EXCEPT ![u] = "stamped"]
  /\ expires' = [expires EXCEPT ![u] = now + Expiry]
  /\ UNCHANGED <<now, failures, file, writing, records, managerVars, downloadVars, historyVars>>

\* History: an upload passes the check beside those under way.
Overlaps == overlap' = IF SizeOf(UnderWay) > overlap THEN SizeOf(UnderWay) ELSE overlap

\* Mutant: the body is not counted.
CheckTotalOnly(u) ==
  /\ pc[u] = "stamped"
  /\ IF StoredSize > TotalLimit
       THEN pc' = [pc EXCEPT ![u] = "cut"] /\ overlap' = overlap
       ELSE pc' = [pc EXCEPT ![u] = "checked"] /\ Overlaps
  /\ UNCHANGED <<now, failures, expires, file, writing, records, managerVars, downloadVars,
                 leaked>>

\* Beyond the cap, the upload is answered 400.
CheckCap(u) ==
  /\ pc[u] = "stamped"
  /\ IF StoredSize + Size[u] > TotalLimit
       THEN pc' = [pc EXCEPT ![u] = "cut"] /\ overlap' = overlap
       ELSE pc' = [pc EXCEPT ![u] = "checked"] /\ Overlaps
  /\ UNCHANGED <<now, failures, expires, file, writing, records, managerVars, downloadVars,
                 leaked>>

BeginWrite(u) ==
  /\ pc[u] = "checked"
  /\ pc' = [pc EXCEPT ![u] = "writing"]
  /\ file' = [file EXCEPT ![u] = "part"] /\ writing' = writing \cup {u}
  /\ UNCHANGED <<now, failures, expires, records, managerVars, downloadVars, historyVars>>

\* The blocking task ends; the handler, if it is still there, goes on.
EndWrite(u) ==
  /\ u \in writing
  /\ writing' = writing \ {u}
  /\ file' = [file EXCEPT ![u] = "whole"]
  /\ pc' = [pc EXCEPT ![u] = IF @ = "writing" THEN "written" ELSE @]
  /\ UNCHANGED <<now, failures, expires, records, managerVars, downloadVars, historyVars>>

\* No space, no directory: 500, and what was written stays.
WriteFails(u) ==
  /\ u \in writing /\ Failure
  /\ writing' = writing \ {u}
  /\ pc' = [pc EXCEPT ![u] = "cut"] /\ leaked' = leaked \cup {u}
  /\ UNCHANGED <<now, expires, file, records, managerVars, downloadVars, overlap>>

\* The client goes away while the handler awaits create_dir_all or write.
Cancel(u) ==
  /\ pc[u] \in {"checked", "writing"} /\ Failure
  /\ pc' = [pc EXCEPT ![u] = "cut"]
  /\ leaked' = IF pc[u] = "writing" THEN leaked \cup {u} ELSE leaked
  /\ UNCHANGED <<now, expires, file, writing, records, managerVars, downloadVars, overlap>>

\* Mutant: the record is inserted before the file is written.
RecordEarly(u) ==
  /\ pc[u] = "writing" /\ u \notin records
  /\ records' = records \cup {u}
  /\ pc' = [pc EXCEPT ![u] = "recorded"]
  /\ UNCHANGED <<now, failures, expires, file, writing, managerVars, downloadVars, historyVars>>

Record(u) ==
  /\ pc[u] = "written"
  /\ records' = records \cup {u}
  /\ pc' = [pc EXCEPT ![u] = "recorded"]
  /\ UNCHANGED <<now, failures, expires, file, writing, managerVars, downloadVars, historyVars>>

\* The store fails at the check or at the insert of the record: 500.
StoreFails(u) ==
  /\ pc[u] \in {"stamped", "written"} /\ Failure
  /\ pc' = [pc EXCEPT ![u] = "cut"]
  /\ leaked' = IF pc[u] = "written" THEN leaked \cup {u} ELSE leaked
  /\ UNCHANGED <<now, expires, file, writing, records, managerVars, downloadVars, overlap>>

\* The message is stored and the link goes to the subscribers and the client.
Answer(u) ==
  /\ pc[u] = "recorded"
  /\ pc' = [pc EXCEPT ![u] = "answered"]
  /\ UNCHANGED <<now, failures, expires, file, writing, records, managerVars, downloadVars,
                 historyVars>>

\* A bad delay, or the insert of the message fails: the record stays.
RefuseLater(u) ==
  /\ pc[u] = "recorded"
  /\ pc' = [pc EXCEPT ![u] = "cut"]
  /\ UNCHANGED <<now, failures, expires, file, writing, records, managerVars, downloadVars,
                 historyVars>>

-----------------------------------------------------------------------------
(* The manager's last work on the store in a tick.                         *)

\* Mutant: only what expired in the last second.
ExpiredNow == {u \in records : expires[u] = mnow - 1}

\* Mutant: <= for <.
ExpiredAt == {u \in records : expires[u] <= mnow}

\* expires < now.
Expired == {u \in records : expires[u] < mnow}

ManagerTick ==
  /\ mpc = "idle"
  /\ mpc' = "ticked" /\ mnow' = now
  /\ UNCHANGED <<now, failures, handlerVars, file, writing, records, paths, downloadVars,
                 historyVars>>

\* delete_expired is two statements: SELECT path ...
SelectExpired ==
  /\ mpc = "ticked"
  /\ mpc' = "deleting" /\ paths' = Expired
  /\ UNCHANGED <<now, failures, handlerVars, file, writing, records, mnow, downloadVars,
                 historyVars>>

\* Mutant: the statement looks at the clock again.
DeleteByClock ==
  /\ mpc = "deleting"
  /\ mpc' = "removing" /\ records' = {u \in records : expires[u] >= now}
  /\ UNCHANGED <<now, failures, handlerVars, file, writing, mnow, paths, downloadVars,
                 historyVars>>

\* ... and DELETE.
DeleteRecords ==
  /\ mpc = "deleting"
  /\ mpc' = "removing" /\ records' = records \ Expired
  /\ UNCHANGED <<now, failures, handlerVars, file, writing, mnow, paths, downloadVars,
                 historyVars>>

\* Mutant: the paths are kept for the next tick.
ExpireFailsKeepsPaths ==
  /\ mpc \in {"ticked", "deleting"} /\ Failure
  /\ mpc' = "idle"
  /\ UNCHANGED <<now, handlerVars, file, writing, records, mnow, paths, downloadVars, historyVars>>

\* Either statement fails: the paths are dropped with nothing deleted.
ExpireFails ==
  /\ mpc \in {"ticked", "deleting"} /\ Failure
  /\ mpc' = "idle" /\ paths' = {}
  /\ UNCHANGED <<now, handlerVars, file, writing, records, mnow, downloadVars, historyVars>>

RemoveFile(u) ==
  /\ mpc = "removing" /\ u \in paths
  /\ paths' = paths \ {u}
  /\ file' = [file EXCEPT ![u] = "none"]
  /\ UNCHANGED <<now, failures, handlerVars, writing, records, mpc, mnow, downloadVars,
                 historyVars>>

\* Logged; the record is gone already.
RemoveFails(u) ==
  /\ mpc = "removing" /\ u \in paths /\ Failure
  /\ paths' = paths \ {u}
  /\ leaked' = leaked \cup {u}
  /\ UNCHANGED <<now, handlerVars, file, writing, records, mpc, mnow, downloadVars, overlap>>

TickEnds ==
  /\ mpc = "removing" /\ paths = {}
  /\ mpc' = "idle"
  /\ UNCHANGED <<now, failures, handlerVars, file, writing, records, mnow, paths, downloadVars,
                 historyVars>>

-----------------------------------------------------------------------------
(* serve_file, asked for a link that was given out.                        *)

Lookup(d, u) ==
  /\ dpc[d] \notin {"found", "reading"} /\ pc[u] = "answered"
  /\ link' = [link EXCEPT ![d] = u]
  /\ dpc' = [dpc EXCEPT ![d] = IF u \in records THEN "found" ELSE "gone"]
  /\ UNCHANGED <<now, failures, handlerVars, file, writing, records, managerVars, historyVars>>

CheckExpiry(d) ==
  /\ dpc[d] = "found"
  /\ dpc' = [dpc EXCEPT ![d] = IF expires[link[d]] < now THEN "gone" ELSE "reading"]
  /\ UNCHANGED <<now, failures, handlerVars, file, writing, records, managerVars, link,
                 historyVars>>

\* A file that cannot be read is a 500.
ReadFile(d) ==
  /\ dpc[d] = "reading"
  /\ dpc' = [dpc EXCEPT ![d] = IF file[link[d]] = "whole" THEN "served" ELSE "error"]
  /\ UNCHANGED <<now, failures, handlerVars, file, writing, records, managerVars, link,
                 historyVars>>

-----------------------------------------------------------------------------
ClockTick ==
  /\ now < MaxTime
  /\ \A u \in Upload : pc[u] \in Pending => now + Expiry < expires[u] + Hold
  /\ now' = now + 1
  /\ UNCHANGED <<failures, handlerVars, file, writing, records, managerVars, downloadVars,
                 historyVars>>

\* The process dies and is started again: table and disk are as they were.
Crash ==
  /\ Failure
  /\ pc' = [u \in Upload |-> IF pc[u] \in {"new", "answered"} THEN pc[u] ELSE "cut"]
  /\ writing' = {} /\ mpc' = "idle" /\ paths' = {}
  /\ dpc' = [d \in Download |-> "idle"]
  /\ leaked' = leaked \cup {u \in Upload \ records : file[u] # "none"}
  /\ UNCHANGED <<now, expires, file, records, mnow, link, overlap>>

Handler(u) ==
  \/ Stamp(u) \/ CheckCap(u) \/ BeginWrite(u) \/ EndWrite(u) \/ Record(u) \/ Answer(u)
  \/ WriteFails(u) \/ Cancel(u) \/ StoreFails(u) \/ RefuseLater(u)

Manager ==
  \/ ManagerTick \/ SelectExpired \/ DeleteRecords \/ TickEnds \/ ExpireFails
  \/ \E u \in Upload : RemoveFile(u) \/ RemoveFails(u)

ServeFile(d) ==
  (\E u \in Upload : Lookup(d, u)) \/ CheckExpiry(d) \/ ReadFile(d)

Next ==
  \/ \E u \in Upload : Handler(u)
  \/ Manager
  \/ \E d \in Download : ServeFile(d)
  \/ ClockTick \/ Crash

Spec == Init /\ [][Next]_vars

\* Handlers that have begun, blocking writes and the manager are run on by the
\* runtime, and time passes.
Fairness ==
  /\ \A u \in Upload :
       /\ WF_vars(CheckCap(u) \/ BeginWrite(u) \/ Record(u) \/ Answer(u) \/ RefuseLater(u))
       /\ WF_vars(EndWrite(u))
  /\ WF_vars(Manager)
  /\ WF_vars(ClockTick)

FairSpec == Spec /\ Fairness

-----------------------------------------------------------------------------
\* A link that was given out leads to the whole file until its expiry, over
\* crashes and whatever else failed (publish.rs:164-197, SPEC.md:159).
LinkServes ==
  \A u \in Upload : pc[u] = "answered" /\ now <= expires[u] =>
    u \in records /\ file[u] = "whole"

\* A download that is refused or fails ended after the expiry: the manager does
\* not take the file away under one that is in time (file.rs:17-35).
RefusedOnlyWhenExpired ==
  \A d \in Download : dpc[d] \in {"gone", "error"} => expires[link[d]] < now

\* Every file on disk is on its way to a record, recorded, about to be removed,
\* or left behind by a failure: SELECT and DELETE, two statements with inserts
\* in between, agree on what has expired (attachments.rs:54-64).
OnlyFailuresLeak ==
  \A u \in Upload : file[u] # "none" =>
    u \in records \cup paths \cup leaked \/ pc[u] \in {"writing", "written"}

\* What is stored exceeds the cap by no more than what was under way when some
\* upload passed its check (publish.rs:144-152, 182-198): the records only ever
\* take in what was checked against them, whatever fails or expires in between.
CapExceededByOverlapOnly == StoredSize <= TotalLimit + overlap

\* SPEC.md:159: `expires' is the time "after which the file is deleted".  Every
\* file goes, unless a failure left it behind.
FileIsRemoved ==
  \A u \in Upload : file[u] # "none" ~> file[u] = "none" \/ u \in leaked

-----------------------------------------------------------------------------
(* What does not hold.                                                     *)

\* config.rs:174 says of attachment_total_size_limit: "Maximum total storage used
\* by all attachments (bytes)."
CapIsKept == StoredSize <= TotalLimit

=============================================================================
