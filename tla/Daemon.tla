------------------------------- MODULE Daemon -------------------------------
(***************************************************************************)
(* ForegroundDaemon: the tasks of one daemon process.  A connection task   *)
(* reads requests and answers them one at a time; the first stop request   *)
(* or SIGTERM creates the shutdown coordinator; the main task waits for    *)
(* the coordinator to set `stopped`, and leaves the rest to asyncio.run.    *)
(*                                                                         *)
(* _state_lock is only held across code without a suspension, so it never  *)
(* makes a task wait: a step below runs from one suspension to the next.   *)
(* The workflow set _active_workflows is Active: a connection is in it     *)
(* exactly while its task is inside _invoke_workflow.                      *)
(***************************************************************************)
EXTENDS FiniteSets, Naturals

CONSTANTS
  Conns,                 \* connection slots: at most this many at a time
  SlowReaders,           \* the ones whose client may leave replies unread
  Ids,                   \* the request ids the factory draws from
  NoId,
  MaxSignals,            \* bound on the number of SIGTERMs
  WaitsForConnections    \* Server.wait_closed waits for open connections
                         \* (Python 3.12 and later) or returns at once (3.11)

ASSUME DaemonAssumption ==
  /\ NoId \notin Ids
  /\ MaxSignals \in Nat
  /\ WaitsForConnections \in BOOLEAN

VARIABLES
  conn,            \* per slot: the task's phase, whether its client is still
                   \* connected and its transport holds bytes the client has not
                   \* read, a pending cancellation, the request, and whether
                   \* the last reply was "Daemon stopped."
  files,           \* ids that have a result file
  shutting_down,   \* _shutting_down
  coordinator,     \* _shutdown_task: where it is suspended
  awaited,         \* connection tasks the coordinator, and in the end asyncio.run,
                   \* waits for, not done yet
  runtime,         \* "open", "closing" (_runtime is None, aclose runs), "closed"
  listening,       \* the server accepts connections on the socket
  response_ready,  \* _shutdown_response_ready
  main,            \* start(): "serving", "terminating" (stop_for_test), then
                   \* asyncio.run: "exiting", "exited"
  signals          \* SIGTERMs received

vars == <<conn, files, shutting_down, coordinator, awaited, runtime, listening,
          response_ready, main, signals>>
lifeVars == <<awaited, runtime, listening, response_ready, main, signals>>

\* A task reads ("idle"), drains its writer, is inside a workflow or a stop
\* request, or awaits wait_closed of its writer; a task that is cancelled there
\* leaves its transport behind.
Phases == {"none", "idle", "writing", "working", "stopping", "closing", "lingering"}

NoConn == [phase |-> "none", client |-> FALSE, unsent |-> FALSE, cancelled |-> FALSE,
           search |-> FALSE, id |-> NoId, reply |-> "other"]

Active == {c \in Conns : conn[c].phase = "working"}

\* The connection tasks that are not done.
Tasks == {c \in Conns : conn[c].phase \notin {"none", "lingering"}}

\* The ids RequestIdRegistry holds.
Reserved == {conn[c].id : c \in Active}

\* The type of every variable of the daemon.
TypeOK ==
  /\ conn \in [Conns -> [phase : Phases, client : BOOLEAN, unsent : BOOLEAN,
                         cancelled : BOOLEAN, search : BOOLEAN, id : Ids \cup {NoId},
                         reply : {"other", "stopped"}]]
  /\ files \subseteq Ids
  /\ shutting_down \in BOOLEAN
  /\ coordinator \in {"none", "created", "waiting", "gathering", "closing",
                      "draining", "unwinding", "done", "aborted"}
  /\ awaited \subseteq Tasks
  /\ runtime \in {"open", "closing", "closed"}
  /\ listening \in BOOLEAN
  /\ response_ready \in BOOLEAN
  /\ main \in {"serving", "terminating", "exiting", "exited"}
  /\ signals \in 0 .. MaxSignals

\* start() has bound the socket and awaits `stopped`.
Init ==
  /\ conn = [c \in Conns |-> NoConn]
  /\ files = {}
  /\ shutting_down = FALSE
  /\ coordinator = "none"
  /\ awaited = {}
  /\ runtime = "open"
  /\ listening = TRUE
  /\ response_ready = FALSE
  /\ main = "serving"
  /\ signals = 0
-----------------------------------------------------------------------------
(* Clients. *)

Connect(c) ==
  /\ listening /\ main # "exited"
  /\ conn[c].phase = "none"
  /\ conn' = [conn EXCEPT ![c] = [NoConn EXCEPT !.phase = "idle", !.client = TRUE]]
  /\ UNCHANGED <<files, shutting_down, coordinator, lifeVars>>

\* The client closes its end: it has its response, or it timed out.  What it has
\* not read is dropped.
ClientLeaves(c) ==
  /\ conn[c].client
  /\ conn' = [conn EXCEPT ![c] = [@ EXCEPT !.client = FALSE, !.unsent = FALSE]]
  /\ UNCHANGED <<files, shutting_down, coordinator, lifeVars>>

\* The client reads, if not everything then enough for a drain to go on.
ClientReceives(c) ==
  /\ conn[c].unsent
  /\ \E rest \in BOOLEAN :
       conn' = [conn EXCEPT ![c].unsent = rest,
                            ![c].phase = IF @ = "writing" THEN "idle" ELSE @]
  /\ UNCHANGED <<files, shutting_down, coordinator, lifeVars>>
-----------------------------------------------------------------------------
(* Connection tasks. *)

\* Mutant of Ends: the coordinator is not told.
EndsUnseen(c) ==
  /\ conn' = [conn EXCEPT ![c] = NoConn]
  /\ UNCHANGED awaited

\* The task of c ends: what it still holds is given back.
Ends(c) ==
  /\ conn' = [conn EXCEPT ![c] = NoConn]
  /\ awaited' = awaited \ {c}

\* Control leaves the handler's loop for its finally: the writer is closed, and
\* waited for until the client has read what it was sent, or has left.
Leaves(c) ==
  IF conn[c].unsent
  THEN /\ conn' = [conn EXCEPT ![c] = [NoConn EXCEPT !.phase = "closing", !.unsent = TRUE,
                                                     !.client = conn[c].client]]
       /\ UNCHANGED awaited
  ELSE Ends(c)

\* A reply is written and drained: it is sent, or some of what was written is
\* left, and so much perhaps that drain waits.
AfterReply(c, reply) ==
  {new \in [phase : {"idle", "writing"}, client : {conn[c].client}, unsent : BOOLEAN,
            cancelled : {FALSE}, search : {FALSE}, id : {NoId}, reply : {reply}] :
     /\ new.phase = "writing" => new.unsent
     /\ conn[c].unsent => new.unsent
     /\ new.unsent => new.client /\ c \in SlowReaders}

Sends(c, reply) == \E new \in AfterReply(c, reply) : conn' = [conn EXCEPT ![c] = new]

\* The handler reads the next frame of a connected client.
Reads(c) == conn[c].phase = "idle" /\ conn[c].client /\ ~conn[c].cancelled

\* Mutant of Candidates: only the files are looked at.
CandidatesByFile(search) == Ids \ (IF search THEN files ELSE {})

\* _select_available: not in use and, for a search, not the name of a file.
Candidates(search) == Ids \ (Reserved \cup IF search THEN files ELSE {})

\* max_attempts draws can all hit a taken id; the error ends the connection.
IdsExhausted(c, search) ==
  /\ Reads(c)
  /\ Candidates(search) # Ids
  /\ Leaves(c)
  /\ UNCHANGED <<files, shutting_down, coordinator, runtime, listening, response_ready,
                 main, signals>>

\* A business request during shutdown: the id is given back with the error.
Reject(c, search) ==
  /\ Reads(c)
  /\ Candidates(search) # {}
  /\ shutting_down
  /\ Sends(c, "other")
  /\ UNCHANGED <<files, shutting_down, coordinator, lifeVars>>

Admit(c, search, id) ==
  /\ Reads(c)
  /\ id \in Candidates(search)
  /\ ~shutting_down
  /\ conn' = [conn EXCEPT ![c] = [@ EXCEPT !.phase = "working", !.search = search,
                                           !.id = id, !.reply = "other"]]
  /\ UNCHANGED <<files, shutting_down, coordinator, lifeVars>>

\* ResultWriter: the file is created exclusively and written without a
\* suspension; a write that fails removes what it created.
FilesAfter(c, wrote) == IF wrote THEN files \cup {conn[c].id} ELSE files

\* The workflow returns a text or raises; a search that succeeds has written
\* its file.  The id and the active entry are given back, the reply is sent.
WorkflowDone(c, wrote) ==
  /\ conn[c].phase = "working" /\ ~conn[c].cancelled
  /\ wrote => conn[c].search
  /\ files' = FilesAfter(c, wrote)
  /\ Sends(c, "other")
  /\ UNCHANGED <<shutting_down, coordinator, lifeVars>>

\* _begin_shutdown: only the first call creates the coordinator.
BeginShutdown ==
  /\ shutting_down' = TRUE
  /\ coordinator' = IF coordinator = "none" THEN "created" ELSE coordinator

\* A stop request waits for the event unless it is already set.
Stop(c) ==
  /\ Reads(c)
  /\ BeginShutdown
  /\ IF response_ready
     THEN Sends(c, "stopped")
     ELSE conn' = [conn EXCEPT ![c] = [@ EXCEPT !.phase = "stopping", !.reply = "other"]]
  /\ UNCHANGED <<files, lifeVars>>

\* Mutant of StopReplies: does not wait for the event.
StopRepliesAtOnce(c) ==
  /\ conn[c].phase = "stopping" /\ ~conn[c].cancelled
  /\ Sends(c, "stopped")
  /\ UNCHANGED <<files, shutting_down, coordinator, lifeVars>>

StopReplies(c) ==
  /\ conn[c].phase = "stopping" /\ response_ready /\ ~conn[c].cancelled
  /\ Sends(c, "stopped")
  /\ UNCHANGED <<files, shutting_down, coordinator, lifeVars>>

\* The end of the stream, or an error writing to a client that left.
ConnectionEnds(c) ==
  /\ conn[c].phase \in {"idle", "writing"} /\ ~conn[c].client /\ ~conn[c].cancelled
  /\ Leaves(c)
  /\ UNCHANGED <<files, shutting_down, coordinator, runtime, listening, response_ready,
                 main, signals>>

\* The end of the stream of a client that still reads.
HalfCloses(c) ==
  /\ Reads(c)
  /\ Leaves(c)
  /\ UNCHANGED <<files, shutting_down, coordinator, runtime, listening, response_ready,
                 main, signals>>

\* The transport has nothing left to send.
WriterClosed(c) ==
  /\ conn[c].phase \in {"closing", "lingering"} /\ ~conn[c].unsent
  /\ Ends(c)
  /\ UNCHANGED <<files, shutting_down, coordinator, runtime, listening, response_ready,
                 main, signals>>

\* A cancelled task unwinds: workflow, active entry and id are given back, and it
\* closes its writer; if that is what it was waiting for, it ends without.
CancelUnwinds(c) ==
  /\ conn[c].cancelled
  /\ IF conn[c].phase = "closing" /\ conn[c].unsent
     THEN /\ conn' = [conn EXCEPT ![c] = [@ EXCEPT !.phase = "lingering", !.cancelled = FALSE]]
          /\ awaited' = awaited \ {c}
     ELSE Leaves(c)
  /\ UNCHANGED <<files, shutting_down, coordinator, runtime, listening, response_ready,
                 main, signals>>
-----------------------------------------------------------------------------
(* The shutdown coordinator. *)

\* _cleanup_before_response up to its await: _runtime is None from here on.
StartCleanup ==
  /\ coordinator' = "closing"
  /\ runtime' = "closing"

\* The first step takes the active workflows; with none it goes on.
Snapshot ==
  /\ coordinator = "created"
  /\ awaited' = Active
  /\ IF Active = {} THEN StartCleanup
     ELSE coordinator' = "waiting" /\ UNCHANGED runtime
  /\ UNCHANGED <<conn, files, shutting_down, listening, response_ready, main, signals>>

\* Task.cancel for each of these tasks.
CancelAll(tasks) ==
  conn' = [c \in Conns |-> IF c \in tasks THEN [conn[c] EXCEPT !.cancelled = TRUE] ELSE conn[c]]

\* _SHUTDOWN_GRACE_SECONDS are over: the tasks that are not done are cancelled.
GraceEnds ==
  /\ coordinator = "waiting" /\ awaited # {}
  /\ coordinator' = "gathering"
  /\ CancelAll(awaited)
  /\ UNCHANGED <<files, shutting_down, lifeVars>>

AwaitedDone ==
  /\ coordinator \in {"waiting", "gathering"} /\ awaited = {}
  /\ StartCleanup
  /\ UNCHANGED <<conn, files, shutting_down, awaited, listening, response_ready, main, signals>>

\* Server.wait_closed returns: no transport is left.
ServerClosed == ~WaitsForConnections \/ \A c \in Conns : conn[c].phase = "none"

\* aclose returns or raises; then, in one step, the server is closed, the
\* socket unlinked and the stop requests released.
CleanupDone ==
  /\ coordinator = "closing"
  /\ runtime' = "closed"
  /\ listening' = FALSE
  /\ response_ready' = TRUE
  /\ coordinator' = IF ServerClosed THEN "done" ELSE "draining"
  /\ UNCHANGED <<conn, files, shutting_down, awaited, main, signals>>

Drained ==
  /\ coordinator = "draining" /\ ServerClosed
  /\ coordinator' = "done"
  /\ UNCHANGED <<conn, files, shutting_down, lifeVars>>

\* gather, once cancelled, raises when its last child is done.
Unwound ==
  /\ coordinator = "unwinding" /\ awaited = {}
  /\ coordinator' = "done"
  /\ response_ready' = TRUE
  /\ UNCHANGED <<conn, files, shutting_down, awaited, runtime, listening, main, signals>>
-----------------------------------------------------------------------------
(* The main task. *)

\* Mutant of Sigterm: start() does not catch its cancellation.
SigtermAtOnce ==
  /\ main = "serving" /\ signals < MaxSignals
  /\ signals' = signals + 1
  /\ main' = "exited"
  /\ conn' = [c \in Conns |-> NoConn]
  /\ awaited' = {}
  /\ UNCHANGED <<files, shutting_down, coordinator, runtime, listening, response_ready>>

\* SIGTERM cancels start() in stopped.wait(): it runs stop_for_test.
Sigterm ==
  /\ main = "serving" /\ signals < MaxSignals
  /\ signals' = signals + 1
  /\ main' = "terminating"
  /\ BeginShutdown
  /\ UNCHANGED <<conn, files, awaited, runtime, listening, response_ready>>

\* SIGTERM cancels stop_for_test, and with it the coordinator it awaits.  One
\* that never ran has no finally to run; any other sets its events, at once or,
\* from gather, when the tasks it gathers, cancelled once more, are done.
SigtermAgain ==
  /\ main = "terminating" /\ signals < MaxSignals
  /\ coordinator \notin {"none", "done", "aborted"}
  /\ signals' = signals + 1
  /\ coordinator' = CASE coordinator = "created" -> "aborted"
                      [] coordinator \in {"gathering", "unwinding"} -> "unwinding"
                      [] OTHER -> "done"
  /\ IF coordinator' = "unwinding" THEN CancelAll(awaited) ELSE UNCHANGED conn
  /\ response_ready' = (response_ready \/ coordinator' = "done")
  /\ UNCHANGED <<files, shutting_down, awaited, runtime, listening, main>>

\* start() returns and asyncio.run cancels the tasks that are left and waits for
\* them.  The stop requests response_ready woke were queued before start() was.
MainExits ==
  /\ \/ main = "serving" /\ coordinator = "done"
     \/ main = "terminating" /\ coordinator \in {"done", "aborted"}
  /\ \A c \in Conns : ~(conn[c].phase = "stopping" /\ response_ready /\ ~conn[c].cancelled)
  /\ main' = "exiting"
  /\ awaited' = Tasks
  /\ CancelAll(awaited')
  /\ UNCHANGED <<files, shutting_down, coordinator, runtime, listening, response_ready, signals>>

\* The event loop is closed, with the transports and the tasks that came since.
LoopCloses ==
  /\ main = "exiting"
  /\ main' = "exited"
  /\ conn' = [c \in Conns |-> NoConn]
  /\ awaited' = {}
  /\ UNCHANGED <<files, shutting_down, coordinator, runtime, listening, response_ready>>

ProcessEnds == awaited = {} /\ LoopCloses /\ UNCHANGED signals

\* The handler of SIGTERM has been removed with start(): one more kills.
SigtermKills == signals < MaxSignals /\ LoopCloses /\ signals' = signals + 1
-----------------------------------------------------------------------------
TaskSteps(c) ==
  StopReplies(c) \/ ConnectionEnds(c) \/ WriterClosed(c) \/ CancelUnwinds(c)

CoordinatorSteps == Snapshot \/ AwaitedDone \/ CleanupDone \/ Drained \/ Unwound

Next ==
  \/ \E c \in Conns :
       \/ Connect(c) \/ ClientLeaves(c) \/ ClientReceives(c) \/ HalfCloses(c)
       \/ Stop(c) \/ TaskSteps(c)
       \/ \E search \in BOOLEAN : IdsExhausted(c, search) \/ Reject(c, search)
       \/ \E search \in BOOLEAN, id \in Ids : Admit(c, search, id)
       \/ \E wrote \in BOOLEAN : WorkflowDone(c, wrote)
  \/ CoordinatorSteps \/ GraceEnds
  \/ Sigterm \/ SigtermAgain \/ SigtermKills \/ MainExits \/ ProcessEnds

Spec == Init /\ [][Next]_vars

\* The event loop runs every task that is ready, the grace timer fires, and a
\* cancelled task unwinds as far as its writer: a workflow's own cleanups are
\* bounded.  Workflows need not end and clients need not read.
DaemonFairness ==
  /\ \A c \in Conns : WF_vars(TaskSteps(c))
  /\ WF_vars(CoordinatorSteps) /\ WF_vars(GraceEnds)
  /\ WF_vars(MainExits) /\ WF_vars(ProcessEnds)

FairSpec == Spec /\ DaemonFairness

\* Every client also closes its connection, as send_request does.
ClosingClients == \A c \in Conns : WF_vars(ClientLeaves(c))
-----------------------------------------------------------------------------
(* Properties. *)

\* A client reads "Daemon stopped." only when the provider clients are closed,
\* the socket is gone and no workflow is left, unless a second SIGTERM cut the
\* coordinator short; and no workflow runs on a runtime that is being closed:
\* once the coordinator has taken _runtime away, no connection task is inside
\* one.
StoppedIsClean ==
  /\ runtime # "open" => Active = {}
  /\ \A c \in Conns : conn[c].reply = "stopped" /\ signals < 2 =>
                        runtime = "closed" /\ ~listening /\ Active = {}

\* Two requests in progress never share an id, and a search in progress never
\* holds the name of an existing result file (its exclusive create succeeds).
IdsExclusive ==
  \A c \in Active :
    /\ \A d \in Active \ {c} : conn[c].id # conn[d].id
    /\ conn[c].search => conn[c].id \notin files

\* A workflow in progress is cut off, by a cancellation or with its process, only
\* at the end of the grace period or after a second SIGTERM.
WorkflowsGetGrace ==
  [][\A c \in Active :
       /\ ~conn[c].cancelled
       /\ conn'[c].cancelled \/ conn'[c].phase \notin {"working", "idle", "writing"}
       => (coordinator = "waiting" /\ coordinator' = "gathering") \/ signals >= 2]_vars

\* Once shutdown has begun, the daemon exits.
ShutdownEnds == shutting_down ~> main = "exited"
=============================================================================
