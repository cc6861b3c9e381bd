----------------------------- MODULE Lifecycle ------------------------------
(***************************************************************************)
(* Starting and stopping servers inside one process (lib.rs): start,       *)
(* start_async, shutdown, and starting again on the same database and      *)
(* address.  run_server opens the database, loads or makes the VAPID keys  *)
(* (webpush.rs:64-90), spawns the manager, binds, reports, and serves      *)
(* until the shutdown and the last connection's end.                       *)
(*                                                                         *)
(* A server made by start has a thread and a runtime of its own, which is  *)
(* dropped, with every task, when run_server has returned.  One made by    *)
(* start_async is a task of the caller's runtime, and so are its manager   *)
(* and its connections, which nothing stops.                               *)
(*                                                                         *)
(* The manager is as much of manager.rs as reaches across servers: which   *)
(* topic map a due message is sent to.  Its tick in full is in Fanout; the *)
(* migrations under db::open are in Schema.                                *)
(***************************************************************************)
EXTENDS FiniteSets

CONSTANTS
  Server, \* calls of start and start_async
  Msg,    \* delayed messages, due at some time
  Nobody

ASSUME NobodyAssumption == Nobody \notin Server

VARIABLES
  mode,    \* "thread" for start, "task" for start_async
  phase,   \* how far run_server is
  startTx, \* started_tx: "held", what was sent on it, or "dropped"
  answer,  \* what the caller got
  signalled, \* servers whose handle was used for shutdown(), or dropped
  stored,  \* whose pair the table vapid_keys holds
  key,     \* whose pair the server uses
  port,    \* who is bound to listen_http
  client,  \* servers with an open HTTP connection, such as a stream
  manager, \* servers whose manager task runs
  due,     \* what a manager has fetched and not fired yet
  row,     \* each message: "delayed" or "published"
  sent,    \* the messages sent to a server's topic map
  raced    \* history: servers that got their keys while another one made some

startVars == <<mode, phase, startTx, answer, signalled>>
keyVars   == <<stored, key, raced>>
msgVars   == <<due, row, sent>>
vars == <<startVars, keyVars, port, client, manager, msgVars>>

\* "opened": the database is open; "making": there were no keys; "keyed";
\* "managed": the manager is spawned; "bound"; "draining": shutting down, but
\* not all connections are closed; "ended": run_server has returned.
Phase == {"new", "opening", "opened", "making", "keyed", "managed", "bound",
          "serving", "draining", "ended"}

TypeOK ==
  /\ mode    \in [Server -> {"thread", "task"}]
  /\ phase   \in [Server -> Phase]
  /\ startTx \in [Server -> {"held", "ok", "err", "dropped"}]
  /\ answer  \in [Server -> {"none", "ok", "err"}]
  /\ signalled \subseteq Server
  /\ stored  \in Server \cup {Nobody}
  /\ key     \in [Server -> Server \cup {Nobody}]
  /\ port    \in Server \cup {Nobody}
  /\ client  \subseteq Server
  /\ manager \subseteq Server
  /\ due     \in [Server -> SUBSET Msg]
  /\ row     \in [Msg -> {"delayed", "published"}]
  /\ sent    \in [Server -> SUBSET Msg]
  /\ raced   \subseteq Server
  /\ \A s \in Server : due[s] # {} => s \in manager

Init ==
  /\ mode \in [Server -> {"thread", "task"}]
  /\ phase   = [s \in Server |-> "new"]
  /\ startTx = [s \in Server |-> "held"]
  /\ answer  = [s \in Server |-> "none"]
  /\ signalled = {}
  /\ stored = Nobody /\ key = [s \in Server |-> Nobody] /\ raced = {}
  /\ port = Nobody /\ client = {} /\ manager = {}
  /\ due = [s \in Server |-> {}]
  /\ row = [m \in Msg |-> "delayed"]
  /\ sent = [s \in Server |-> {}]

-----------------------------------------------------------------------------
(* run_server.                                                             *)

Goes(s, a, b) == phase[s] = a /\ phase' = [phase EXCEPT ![s] = b]

\* History: another server has found no keys and is about to store its own.
Races(s) == raced' = raced \cup {r \in {s} : \E q \in Server \ {s} : phase[q] = "making"}

Start(s) ==
  /\ Goes(s, "new", "opening")
  /\ UNCHANGED <<mode, startTx, answer, signalled, keyVars, port, client, manager, msgVars>>

\* run_server returns, and its listener is dropped.
Returns(s) ==
  /\ phase' = [phase EXCEPT ![s] = "ended"]
  /\ port' = IF port = s THEN Nobody ELSE port

\* Mutant: the manager was given a clone of started_tx.
FailsSilently(s) ==
  /\ phase[s] \in {"opening", "managed"}
  /\ Returns(s)
  /\ startTx' = [startTx EXCEPT ![s] = IF s \in manager THEN "held" ELSE "dropped"]
  /\ UNCHANGED <<mode, answer, signalled, keyVars, client, manager, msgVars>>

\* db::open or normalise_addr fails, and started_tx is dropped.
FailsEarly(s) ==
  /\ phase[s] \in {"opening", "managed"}
  /\ Returns(s)
  /\ startTx' = [startTx EXCEPT ![s] = "dropped"]
  /\ UNCHANGED <<mode, answer, signalled, keyVars, client, manager, msgVars>>

OpenDatabase(s) ==
  /\ Goes(s, "opening", "opened")
  /\ UNCHANGED <<mode, startTx, answer, signalled, keyVars, port, client, manager, msgVars>>

\* Mutant: the pair is made anew at every start.
GenerateKeys(s) ==
  /\ Goes(s, "opened", "making")
  /\ Races(s)
  /\ UNCHANGED <<mode, startTx, answer, signalled, stored, key, port, client, manager, msgVars>>

\* load_or_generate: get_vapid_keys.
LoadKeys(s) ==
  /\ IF stored = Nobody
       THEN Goes(s, "opened", "making") /\ key' = key
       ELSE Goes(s, "opened", "keyed") /\ key' = [key EXCEPT ![s] = stored]
  /\ Races(s)
  /\ UNCHANGED <<mode, startTx, answer, signalled, stored, port, client, manager, msgVars>>

\* store_vapid_keys: INSERT OR REPLACE.
StoreKeys(s) ==
  /\ Goes(s, "making", "keyed")
  /\ stored' = s /\ key' = [key EXCEPT ![s] = s]
  /\ Races(s)
  /\ UNCHANGED <<mode, startTx, answer, signalled, port, client, manager, msgVars>>

\* Either statement fails: web push is disabled for this run.
KeysFail(s) ==
  /\ Goes(s, "opened", "keyed") \/ Goes(s, "making", "keyed")
  /\ UNCHANGED <<mode, startTx, answer, signalled, keyVars, port, client, manager, msgVars>>

SpawnManager(s) ==
  /\ Goes(s, "keyed", "managed")
  /\ manager' = manager \cup {s}
  /\ UNCHANGED <<mode, startTx, answer, signalled, keyVars, port, client, msgVars>>

\* TcpListener::bind, and the message to the caller.
Bind(s) ==
  /\ port = Nobody
  /\ Goes(s, "managed", "bound")
  /\ port' = s
  /\ startTx' = [startTx EXCEPT ![s] = "ok"]
  /\ UNCHANGED <<mode, answer, signalled, keyVars, client, manager, msgVars>>

\* The address is in use, or may not be bound.
BindFails(s) ==
  /\ phase[s] = "managed"
  /\ Returns(s)
  /\ startTx' = [startTx EXCEPT ![s] = "err"]
  /\ UNCHANGED <<mode, answer, signalled, keyVars, client, manager, msgVars>>

\* run_select gets as far as serving.
Serve(s) ==
  /\ Goes(s, "bound", "serving")
  /\ UNCHANGED <<mode, startTx, answer, signalled, keyVars, port, client, manager, msgVars>>

\* The TLS settings are not in order, or the HTTPS or Unix listener fails:
\* select! drops the others.
SelectFails(s) ==
  /\ phase[s] \in {"bound", "serving", "draining"}
  /\ Returns(s)
  /\ UNCHANGED <<mode, startTx, answer, signalled, keyVars, client, manager, msgVars>>

\* start and start_async: started_rx.recv()
Answer(s) ==
  /\ phase[s] # "new" /\ answer[s] = "none" /\ startTx[s] # "held"
  /\ answer' = [answer EXCEPT ![s] = IF startTx[s] = "ok" THEN "ok" ELSE "err"]
  /\ UNCHANGED <<mode, phase, startTx, signalled, keyVars, port, client, manager, msgVars>>

-----------------------------------------------------------------------------
(* The owner of the handle, and the clients.                               *)

\* shutdown(), or the handle is dropped, at any time after the answer; it does
\* not wait, and nobody receives it once run_server has returned.
Shutdown(s) ==
  /\ answer[s] = "ok" /\ phase[s] # "ended" /\ s \notin signalled
  /\ signalled' = signalled \cup {s}
  /\ UNCHANGED <<mode, phase, startTx, answer, keyVars, port, client, manager, msgVars>>

\* with_graceful_shutdown: the HTTP listener closes, and the server waits for
\* its connections.
Graceful(s) ==
  /\ s \in signalled /\ Goes(s, "serving", "draining")
  /\ port' = Nobody
  /\ UNCHANGED <<mode, startTx, answer, signalled, keyVars, client, manager, msgVars>>

Drained(s) ==
  /\ phase[s] = "draining" /\ s \notin client
  /\ Returns(s)
  /\ UNCHANGED <<mode, startTx, answer, signalled, keyVars, client, manager, msgVars>>

\* Mutant: the tick under way is cut off.
DropRuntimeAtOnce(s) ==
  /\ mode[s] = "thread" /\ phase[s] = "ended" /\ s \in manager \cup client
  /\ manager' = manager \ {s} /\ client' = client \ {s}
  /\ UNCHANGED <<startVars, keyVars, port, msgVars>>

\* After block_on the thread drops its runtime.  A task that runs is not cut off
\* before its next await, and the manager has none while it fires its list.
DropRuntime(s) ==
  /\ mode[s] = "thread" /\ phase[s] = "ended" /\ s \in manager \cup client
  /\ due[s] = {}
  /\ manager' = manager \ {s} /\ client' = client \ {s}
  /\ UNCHANGED <<startVars, keyVars, port, msgVars>>

Connect(s) ==
  /\ phase[s] = "serving" /\ s \notin client
  /\ client' = client \cup {s}
  /\ UNCHANGED <<startVars, keyVars, port, manager, msgVars>>

Disconnect(s) ==
  /\ s \in client
  /\ client' = client \ {s}
  /\ UNCHANGED <<startVars, keyVars, port, manager, msgVars>>

-----------------------------------------------------------------------------
(* Managers.                                                               *)

\* A tick's due_messages.
Fetch(s) ==
  /\ s \in manager /\ due[s] = {}
  /\ due' = [due EXCEPT ![s] = {m \in Msg : row[m] = "delayed"}]
  /\ due' # due
  /\ UNCHANGED <<startVars, keyVars, port, client, manager, row, sent>>

\* mark_published (UPDATE by id, whatever the row says) and the send to the
\* server's own topic map; Fanout takes the two apart.
Fire(s, m) ==
  /\ s \in manager /\ m \in due[s]
  /\ due'  = [due EXCEPT ![s] = @ \ {m}]
  /\ row'  = [row EXCEPT ![m] = "published"]
  /\ sent' = [sent EXCEPT ![s] = @ \cup {m}]
  /\ UNCHANGED <<startVars, keyVars, port, client, manager>>

-----------------------------------------------------------------------------
RunServer(s) ==
  \/ FailsEarly(s) \/ OpenDatabase(s)
  \/ LoadKeys(s) \/ StoreKeys(s) \/ KeysFail(s)
  \/ SpawnManager(s)
  \/ Bind(s) \/ BindFails(s)
  \/ Serve(s)

Next ==
  \E s \in Server :
    \/ Start(s) \/ RunServer(s) \/ SelectFails(s) \/ Answer(s)
    \/ Shutdown(s) \/ Graceful(s) \/ Drained(s) \/ DropRuntime(s)
    \/ Connect(s) \/ Disconnect(s)
    \/ Fetch(s) \/ \E m \in Msg : Fire(s, m)

\* The runtimes poll what is ready.  Nothing makes a client leave, or a handle
\* shut its server down.
Fairness == \A s \in Server : WF_vars(RunServer(s)) /\ WF_vars(Answer(s))

Spec == Init /\ [][Next]_vars /\ Fairness

-----------------------------------------------------------------------------
(* What holds.                                                             *)

\* A call of start or start_async is answered, whichever way the start fails
\* (lib.rs:148-156, 178-189, 193-285).
StartIsAnswered == \A s \in Server : phase[s] = "opening" ~> answer[s] # "none"

\* A server signs with the pair that the next start will load, unless another
\* server was making a pair when it got its own: browsers stay subscribed
\* across restarts (webpush.rs:64-90).
KeyIsKept ==
  \A s \in Server : key[s] # Nobody /\ s \notin raced => key[s] = stored

-----------------------------------------------------------------------------
(* What does not hold.                                                     *)

\* lib.rs:38 says of a handle: "Call `shutdown()` to stop it."  A server that
\* was told to stop, and is over, should not publish a message that is due while
\* another one serves: the subscribers there, and its push tasks, would never
\* hear of it.
StoppedTakesNothing ==
  [][\A s, r \in Server : \A m \in Msg :
       /\ s \in signalled /\ phase[s] = "ended" /\ phase[r] = "serving"
       /\ row[m] = "delayed"
       => m \notin sent'[s]]_vars

\* webpush.rs:64-65 says of load_or_generate: "Load existing VAPID keys from the
\* database, or generate and persist a new P-256 key pair if none exist yet."
\* Then whoever got a pair has the persisted one.
KeyIsStored == \A s \in Server : key[s] # Nobody => key[s] = stored

=============================================================================
