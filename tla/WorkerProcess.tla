---------------------------- MODULE WorkerProcess ----------------------------
(***************************************************************************)
(* The life of one worker process on UNIX: the rendezvous and handshake of *)
(* crates/ipc/src/process, the start, confinement and message loop of      *)
(* crates/worker, and its end with the LiveWorker of worker_host/bridge.rs *)
(* or with the whole browser process.                                      *)
(*                                                                         *)
(* Pipes hold PipeFrames frames: a writer waits for its reader.  What a    *)
(* frame says is WorkerBridge's and Wire's concern.                        *)
(***************************************************************************)
EXTENDS Naturals, Sequences

CONSTANTS
  PipeFrames,    \* frames a socket buffer holds
  MaxFrames      \* bound: events the router has for this process

VARIABLES
  broker,        \* where the router thread is with this process
  backlog,       \* who has connected and is not accepted yet
  peer,          \* whose connection was accepted
  reading,       \* the reader thread runs, and holds a clone of the socket
  child,         \* where the worker process is
  confined,      \* its sandbox is engaged
  code,          \* how it ended
  inbox, outbox, \* the two directions of its connection
  stranger,      \* another process that found the socket
  sent           \* events sent to the worker

processVars == <<broker, backlog, peer, reading, child, confined, code, inbox, outbox,
                 stranger, sent>>

-----------------------------------------------------------------------------

\* broker: idle, bound, accepting, greeting, ready; failed, closed, crashed.
\* child: unborn, started, connected, greeted, waiting, answering, exited.
\* stranger: away, silent; Hello or other, its first frame; gone.
Init ==
  /\ broker = "idle" /\ child = "unborn" /\ code = "none"
  /\ backlog = <<>> /\ peer = "none"
  /\ reading = FALSE /\ confined = FALSE
  /\ inbox = <<>> /\ outbox = <<>>
  /\ stranger = "away" /\ sent = 0

\* PendingChannel: dropped once one connection is accepted.
Listening == broker \in {"bound", "accepting"}

\* A connection is open while either half of it is held: the router's, the
\* reader thread's, or the listener's for one that waits to be accepted.
Held(p) ==
  \/ Listening /\ \E i \in DOMAIN backlog : backlog[i] = p
  \/ peer = p /\ (broker \in {"greeting", "ready"} \/ reading)

Running == child \notin {"unborn", "exited"}

Exit(c) == child' = "exited" /\ code' = c /\ inbox' = <<>>

-----------------------------------------------------------------------------
(* The router thread: spawn_worker, then start_worker *)

\* PendingChannel::bind, or the failure of it or of the tokens.
Bind ==
  /\ broker = "idle" /\ broker' \in {"bound", "failed"}
  /\ UNCHANGED <<backlog, peer, reading, child, confined, code, inbox, outbox, stranger, sent>>

Spawn ==
  /\ broker = "bound"
  /\ \/ broker' = "accepting" /\ child' = "started"
     \/ broker' = "failed" /\ UNCHANGED child
  /\ UNCHANGED <<backlog, peer, reading, confined, code, inbox, outbox, stranger, sent>>

\* There is no timeout: accept waits for a connection.
accept ==
  /\ broker = "accepting" /\ backlog # <<>>
  /\ broker' = "greeting" /\ peer' = Head(backlog) /\ backlog' = <<>>
  /\ UNCHANGED <<reading, child, confined, code, inbox, outbox, stranger, sent>>

accept_fails ==
  /\ broker = "accepting"
  /\ broker' = "failed" /\ backlog' = <<>>
  /\ UNCHANGED <<peer, reading, child, confined, code, inbox, outbox, stranger, sent>>

\* The first frame of the peer: whether it is a Hello, and with the token.
FirstFrame ==
  IF peer = "child"
  THEN IF outbox = <<>> THEN "none" ELSE "own Hello"
  ELSE IF stranger \in {"Hello", "other"} THEN stranger ELSE "none"

PeerGone == IF peer = "child" THEN ~Running ELSE stranger = "gone"

authenticates(frame) == frame = "own Hello"

\* The handshake succeeds and the reader thread is started.
handshake ==
  /\ broker = "greeting" /\ authenticates(FirstFrame)
  /\ broker' = "ready" /\ reading' = TRUE
  /\ outbox' = IF peer = "child" THEN Tail(outbox) ELSE outbox
  /\ UNCHANGED <<backlog, peer, child, confined, code, inbox, stranger, sent>>

\* Another frame, or the end of the stream.  The Child is dropped, which
\* neither kills nor reaps the process, and the socket file stays.
handshake_fails ==
  /\ broker = "greeting"
  /\ FirstFrame = "none" => PeerGone
  /\ ~authenticates(FirstFrame)
  /\ broker' = "failed"
  /\ UNCHANGED <<backlog, peer, reading, child, confined, code, inbox, outbox, stranger, sent>>

\* Mutation: closing the channel is left to end the process.
close_only ==
  UNCHANGED <<child, code, inbox>>

\* ChildGuard::drop: the process is killed and reaped.
drop == IF Running THEN Exit("killed") ELSE UNCHANGED <<child, code, inbox>>

\* The reader thread cannot be started.
start_worker_fails ==
  /\ broker = "greeting" /\ authenticates(FirstFrame)
  /\ broker' = "closed" /\ drop
  /\ UNCHANGED <<backlog, peer, reading, confined, outbox, stranger, sent>>

\* send blocks while the pipe is full.
send ==
  /\ broker = "ready" /\ sent < MaxFrames
  /\ Running /\ Len(inbox) < PipeFrames
  /\ inbox' = Append(inbox, "event") /\ sent' = sent + 1
  /\ UNCHANGED <<broker, backlog, peer, reading, child, confined, code, outbox, stranger>>

\* The LiveWorker is dropped: the tab is closed, or a send failed.
remove ==
  /\ broker = "ready"
  /\ broker' = "closed" /\ drop
  /\ UNCHANGED <<backlog, peer, reading, confined, outbox, stranger, sent>>

\* The browser process is gone: its descriptors are closed, no drop is run.
Crash ==
  /\ broker # "crashed"
  /\ broker' = "crashed" /\ reading' = FALSE
  /\ UNCHANGED <<backlog, peer, child, confined, code, inbox, outbox, stranger, sent>>

-----------------------------------------------------------------------------
(* The reader thread *)

\* Mutation: one thread both sends and, when it is done, reads.
reads_when_idle == reading /\ (broker = "ready" => sent = MaxFrames)

reads == reading

\* One reply, or the end of the stream.
reader_loop ==
  /\ reads
  /\ IF outbox # <<>>
     THEN outbox' = Tail(outbox) /\ UNCHANGED reading
     ELSE ~Running /\ reading' = FALSE /\ UNCHANGED outbox
  /\ UNCHANGED <<broker, backlog, peer, child, confined, code, inbox, stranger, sent>>

-----------------------------------------------------------------------------
(* The worker process *)

\* connect_to_broker up to its connection.
connect_stream ==
  /\ child = "started"
  /\ IF Listening
     THEN child' = "connected" /\ backlog' = Append(backlog, "child") /\ UNCHANGED <<code, inbox>>
     ELSE Exit("NO_BROKER") /\ UNCHANGED backlog
  /\ UNCHANGED <<broker, peer, reading, confined, outbox, stranger, sent>>

\* connect_to_broker, its Hello.
connect_to_broker ==
  /\ child = "connected"
  /\ IF Held("child")
     THEN child' = "greeted" /\ outbox' = Append(outbox, "Hello") /\ UNCHANGED <<code, inbox>>
     ELSE Exit("NO_BROKER") /\ UNCHANGED outbox
  /\ UNCHANGED <<broker, backlog, peer, reading, confined, stranger, sent>>

\* main and confine_and_run: the evaluation thread, then the sandbox.  Either
\* may fail.
confine_and_run ==
  \/ child' = "waiting" /\ confined' = TRUE /\ UNCHANGED <<code, inbox>>
  \/ Exit("SANDBOX_FAILED") /\ UNCHANGED confined

Confine ==
  /\ child = "greeted" /\ confine_and_run
  /\ UNCHANGED <<broker, backlog, peer, reading, outbox, stranger, sent>>

\* run, recv: an event, or the end of the stream, which is an error if the
\* broker left frames unread.  CloseTab is never sent: the router drops the
\* LiveWorker instead.
recv ==
  /\ child = "waiting"
  /\ IF inbox # <<>>
     THEN child' = "answering" /\ inbox' = Tail(inbox) /\ UNCHANGED code
     ELSE ~Held("child") /\ (Exit("CLEAN") \/ Exit("TRANSPORT"))
  /\ UNCHANGED <<broker, backlog, peer, reading, confined, outbox, stranger, sent>>

\* run, send: blocks while the pipe is full; a closed connection ends the
\* process.
reply ==
  /\ child = "answering"
  /\ IF Held("child")
     THEN /\ Len(outbox) < PipeFrames
          /\ child' = "waiting" /\ outbox' = Append(outbox, "reply")
          /\ UNCHANGED <<code, inbox>>
     ELSE Exit("TRANSPORT") /\ UNCHANGED outbox
  /\ UNCHANGED <<broker, backlog, peer, reading, confined, stranger, sent>>

\* run, send: the response is too large for a frame.
reply_fails ==
  /\ child = "answering" /\ Exit("TRANSPORT")
  /\ UNCHANGED <<broker, backlog, peer, reading, confined, outbox, stranger, sent>>

\* The process dies: a sandbox kill, a panic, out of memory.
Dies ==
  /\ Running /\ Exit("killed")
  /\ UNCHANGED <<broker, backlog, peer, reading, confined, outbox, stranger, sent>>

-----------------------------------------------------------------------------
(* A foreign process that won the rendezvous race *)

Stranger ==
  /\ \/ /\ stranger = "away" /\ Listening
        /\ stranger' = "silent" /\ backlog' = Append(backlog, "stranger")
     \/ /\ stranger = "silent"
        /\ stranger' \in {"Hello", "other", "gone"} /\ UNCHANGED backlog
  /\ UNCHANGED <<broker, peer, reading, child, confined, code, inbox, outbox, sent>>

-----------------------------------------------------------------------------

Router == Bind \/ Spawn \/ accept \/ handshake \/ handshake_fails \/ start_worker_fails \/ send
Worker == connect_stream \/ connect_to_broker \/ Confine \/ recv \/ reply

Next ==
  \/ Router \/ accept_fails \/ remove \/ Crash \/ reader_loop
  \/ Worker \/ reply_fails \/ Dies \/ Stranger

-----------------------------------------------------------------------------
(* Properties *)

\* The handshake of spawn_worker: the process at the other end of a channel in
\* use is the one the broker spawned, whoever else connected and whatever it
\* said.
OnlyOwnChild == broker = "ready" => peer = "child"

\* main of crates/worker: events may be in the pipe before the sandbox is
\* engaged, and none is taken out of it before.
ConfinedBeforeInput == child = "answering" => confined

\* "No orphan": once the broker has given up on the process, closed its tab or
\* crashed, the process ends.
NoWorkerOutlives == broker \in {"failed", "closed", "crashed"} ~> ~Running

\* Router, worker and reader never wait for one another in a circle: what the
\* router has to send is sent, however small the pipes are.
SendsComplete ==
  broker = "ready" ~> (sent = MaxFrames \/ broker # "ready" \/ ~Running)

=============================================================================
