-------------------------------- MODULE Feed --------------------------------
(***************************************************************************)
(* What a subscriber may rely on, without requests, cache, ring buffers or *)
(* crashes: once a client has joined a topic it has a queue of its own     *)
(* there.  Every message announced from then on is put into it, in the     *)
(* order of the announcements.  Before the queues the client is given      *)
(* messages it had read from what was public before it joined.  A queue    *)
(* that has grown too long loses its oldest messages and nothing else.     *)
(*                                                                         *)
(* A crash is the end of all streams, a cut connection that of one.        *)
(***************************************************************************)
EXTENDS Integers, Sequences, Messages

CONSTANTS
  Client,
  Capacity   \* what a queue may hold when it is read

VARIABLES
  public,     \* messages that may be shown
  announced,  \* messages that have been announced
  joined,     \* the topics each client has a queue for
  replay,     \* what was read for a client and not sent to it yet
  queue,      \* the client's queue for each topic
  got         \* what each client has received

vars == <<public, announced, joined, replay, queue, got>>

Init ==
  /\ public = {} /\ announced = {}
  /\ joined = [c \in Client |-> {}]
  /\ replay = [c \in Client |-> {}]
  /\ queue  = [c \in Client |-> [t \in Topic |-> <<>>]]
  /\ got    = [c \in Client |-> {}]

Reveal(m) ==
  /\ m \notin public
  /\ public' = public \cup {m}
  /\ UNCHANGED <<announced, joined, replay, queue, got>>

\* A public message goes, once, into the queues of all who have joined.
Announce(m) ==
  /\ m \in public \ announced
  /\ announced' = announced \cup {m}
  /\ queue' = [c \in Client |-> [t \in Topic |->
                 IF t = TopicOf[m] /\ t \in joined[c] THEN Append(queue[c][t], m)
                 ELSE queue[c][t]]]
  /\ UNCHANGED <<public, joined, replay, got>>

\* Messages of a topic are read for a client before it joins.
Read(c, t, ms) ==
  /\ t \notin joined[c]
  /\ \A m \in ms : TopicOf[m] = t
  /\ replay' = [replay EXCEPT ![c] = @ \cup ms]
  /\ UNCHANGED <<public, announced, joined, queue, got>>

Join(c, t) ==
  /\ t \notin joined[c]
  /\ joined' = [joined EXCEPT ![c] = @ \cup {t}]
  /\ UNCHANGED <<public, announced, replay, queue, got>>

SendRead(c, m) ==
  /\ m \in replay[c]
  /\ replay' = [replay EXCEPT ![c] = @ \ {m}]
  /\ got'    = [got EXCEPT ![c] = @ \cup {m}]
  /\ UNCHANGED <<public, announced, joined, queue>>

\* The queues come after what was read.
SendQueued(c, t) ==
  /\ replay[c] = {}
  /\ queue[c][t] # <<>> /\ Len(queue[c][t]) <= Capacity
  /\ queue' = [queue EXCEPT ![c][t] = Tail(@)]
  /\ got'   = [got EXCEPT ![c] = @ \cup {Head(queue[c][t])}]
  /\ UNCHANGED <<public, announced, joined, replay>>

\* The oldest messages of a queue that is too long are lost.
Skip(c, t) ==
  /\ replay[c] = {}
  /\ Len(queue[c][t]) > Capacity
  /\ queue' = [queue EXCEPT ![c][t] = SubSeq(@, Len(@) - Capacity + 1, Len(@))]
  /\ UNCHANGED <<public, announced, joined, replay, got>>

Close(gone) ==
  /\ joined' = [c \in Client |-> IF c \in gone THEN {} ELSE joined[c]]
  /\ replay' = [c \in Client |-> IF c \in gone THEN {} ELSE replay[c]]
  /\ queue'  = [c \in Client |-> IF c \in gone THEN [t \in Topic |-> <<>>] ELSE queue[c]]
  /\ UNCHANGED <<public, announced>>

\* A client that only wants what was read is given it at once, and is done.
Answer(c) ==
  /\ got' = [got EXCEPT ![c] = @ \cup replay[c]]
  /\ Close({c})

Next ==
  \/ \E m \in Msg : Reveal(m) \/ Announce(m)
  \/ \E c \in Client, m \in Msg : SendRead(c, m)
  \/ \E c \in Client, t \in Topic : Join(c, t) \/ SendQueued(c, t) \/ Skip(c, t)
  \/ \E c \in Client, t \in Topic, ms \in SUBSET public : Read(c, t, ms)
  \/ \E c \in Client : Answer(c)
  \/ \E gone \in SUBSET Client : Close(gone) /\ UNCHANGED got

Spec == Init /\ [][Next]_vars

=============================================================================
