---------------------------- MODULE AgentProcess ----------------------------
(***************************************************************************)
(* One call of run_antigravity (providers/agent/antigravity_cli.py): under *)
(* a lease of its quota the agent is started in a session and a temporary  *)
(* directory of its own, its output is read until the processes have       *)
(* closed it or the deadline is over, and then, whatever happened, a       *)
(* cleanup task signals the process group, drains the pipes and reaps the  *)
(* leader, each with a time limit; last, the directory is removed.         *)
(*                                                                         *)
(* The processes are the environment: they exit, fork, leave the group and *)
(* ignore SIGTERM as they like.                                            *)
(***************************************************************************)
EXTENDS Integers

VARIABLES
  phase,     \* where run_antigravity, or its cleanup task, is
  spawn,     \* the task of create_subprocess_exec
  leader,    \* the agent's process
  kids,      \* kinds of descendants alive
  lease,     \* the quota is held
  directory, \* the working directory: "left" if it could not be removed
  outcome,   \* what the call is about to return or raise
  failed,    \* the cleanup failed
  cancels    \* how often the call was cancelled, up to 2

processVars == <<phase, spawn, leader, kids, lease, directory, outcome, failed, cancels>>

osVars == <<leader, kids>>

\* Descendants stay in the group, with the pipes or without, or leave it, with
\* the pipes or without.
KidKinds == {"piped", "quiet", "escaped", "detached"}

Outcomes == {"none", "ok", "bad_answer", "output_limit", "timeout", "spawn_failure",
             "execution_failure", "cancelled", "os_error"}

\* The types of the call and of the processes; the lease is held, and the
\* directory there, exactly from the start of the call's work to its end, and
\* there is a leader once the start of the process has succeeded.
ProcessTypeOK ==
  /\ phase \in {"queued", "run", "await_spawn", "term", "drain", "reap", "ended"}
  /\ spawn \in {"none", "pending", "ok", "error"}
  /\ leader \in {"none", "alive", "exited", "reaped"}
  /\ kids \subseteq KidKinds
  /\ lease = (phase \notin {"queued", "ended"}) /\ failed \in BOOLEAN
  /\ directory \in {"none", "there", "removed", "left"}
  /\ (directory = "there") = (phase \notin {"queued", "ended"})
  /\ (leader = "none") = (spawn # "ok")
  /\ outcome \in Outcomes
  /\ cancels \in 0..2

ProcessInit ==
  /\ phase = "queued" /\ spawn = "none" /\ leader = "none" /\ kids = {}
  /\ lease = FALSE /\ directory = "none" /\ outcome = "none" /\ failed = FALSE /\ cancels = 0

-----------------------------------------------------------------------------
\* The processes.

Spawned ==
  /\ spawn = "pending"
  /\ \/ spawn' = "ok" /\ leader' = "alive"
     \/ spawn' = "error" /\ UNCHANGED leader
  /\ UNCHANGED <<phase, kids, lease, directory, outcome, failed, cancels>>

InGroup == kids \cap {"piped", "quiet"}

\* Who can start a process of kind k: the group and the pipes are inherited, and
\* can be given up but not got back.
Parents(k) ==
  CASE k = "piped"    -> {"piped"}
    [] k = "quiet"    -> {"piped", "quiet"}
    [] k = "escaped"  -> {"piped", "escaped"}
    [] k = "detached" -> KidKinds

Environment ==
  /\ \/ leader = "alive" /\ leader' = "exited" /\ UNCHANGED kids
     \/ \E k \in KidKinds :
          /\ leader = "alive" \/ kids \cap Parents(k) # {}
          /\ kids' = kids \cup {k} /\ UNCHANGED leader
     \/ \E k \in kids : kids' = kids \ {k} /\ UNCHANGED leader
  /\ UNCHANGED <<phase, spawn, lease, directory, outcome, failed, cancels>>

\* asyncio's child watcher waits for the leader.
ChildWatcher ==
  /\ leader = "exited" /\ leader' = "reaped"
  /\ UNCHANGED <<phase, spawn, kids, lease, directory, outcome, failed, cancels>>

\* _group_exists: a leader that has not been reaped counts.
GroupExists == leader \in {"alive", "exited"} \/ InGroup # {}

\* Both pipes are at their end.
PipesClosed == leader # "alive" /\ kids \cap {"piped", "escaped"} = {}

-----------------------------------------------------------------------------
\* The call.

Acquire ==
  /\ phase = "queued"
  /\ phase' = "run" /\ lease' = TRUE /\ directory' = "there" /\ spawn' = "pending"
  /\ UNCHANGED <<osVars, outcome, failed, cancels>>

\* TemporaryDirectory cannot make the directory: the lease is given back at
\* once, and the OSError, raised outside the try block, is the caller's.
DirectoryFails ==
  /\ phase = "queued"
  /\ phase' = "ended" /\ outcome' = "os_error"
  /\ UNCHANGED <<spawn, osVars, lease, directory, failed, cancels>>

\* Control leaves the try block: the cleanup task starts.
Leave(result) ==
  /\ phase = "run"
  /\ phase' = "await_spawn" /\ outcome' = result
  /\ UNCHANGED <<spawn, osVars, lease, directory, failed>>

SpawnFails == spawn = "error" /\ Leave("spawn_failure") /\ UNCHANGED cancels

\* _decode_terminal_response: the process has been waited for and its output
\* read to the end.
Answered ==
  /\ spawn = "ok" /\ leader = "reaped" /\ PipesClosed
  /\ \E result \in {"ok", "bad_answer"} : Leave(result)
  /\ UNCHANGED cancels

\* _read_stream has more than it may keep.
OutputLimit == spawn = "ok" /\ Leave("output_limit") /\ UNCHANGED cancels

\* The hard timeout, also while the process is being started.
Deadline == Leave("timeout") /\ UNCHANGED cancels

\* Mutant of CancelCleanup: the cancellation is suppressed for good.
CancelSwallowed ==
  /\ phase \in {"await_spawn", "term", "drain", "reap"} /\ cancels < 2
  /\ cancels' = cancels + 1
  /\ UNCHANGED <<phase, spawn, osVars, lease, directory, outcome, failed>>

\* _finish_cleanup: the shielded cleanup goes on, however often the call is
\* cancelled, and CancelledError is raised when it is over.
CancelCleanup ==
  /\ phase \in {"await_spawn", "term", "drain", "reap"} /\ cancels < 2
  /\ cancels' = cancels + 1 /\ outcome' = "cancelled"
  /\ UNCHANGED <<phase, spawn, osVars, lease, directory, failed>>

\* Cancelled in the queue there is nothing to clean up.
CancelRun ==
  \/ /\ phase = "queued"
     /\ phase' = "ended" /\ outcome' = "cancelled" /\ cancels' = 1
     /\ UNCHANGED <<spawn, osVars, lease, directory, failed>>
  \/ Leave("cancelled") /\ cancels' = 1
  \/ CancelCleanup

-----------------------------------------------------------------------------
\* The cleanup task.

\* The call returns: a success whose cleanup failed is turned into a failure,
\* the directory is removed and the lease given back.  rmtree can fail (a process
\* that is left writes to the directory, an entry cannot be unlinked), and its
\* OSError replaces what was under way, a pending CancelledError included.
Finish(bad) ==
  /\ phase' = "ended" /\ lease' = FALSE /\ failed' = bad
  /\ \/ /\ directory' = "removed"
        /\ outcome' = IF outcome = "ok" /\ bad THEN "execution_failure" ELSE outcome
     \/ directory' = "left" /\ outcome' = "os_error"

\* The process handle is awaited, without a limit; SIGTERM may fail to be sent.
AwaitSpawn ==
  /\ phase = "await_spawn"
  /\ \/ spawn = "error" /\ Finish(FALSE)
     \/ /\ spawn = "ok" /\ phase' = "term" /\ failed' \in BOOLEAN
        /\ UNCHANGED <<lease, directory, outcome>>
  /\ UNCHANGED <<spawn, osVars, cancels>>

\* The group is gone within the grace period: the readers are cancelled.
GroupGone ==
  /\ phase = "term" /\ ~GroupExists
  /\ phase' = "drain"
  /\ UNCHANGED <<spawn, osVars, lease, directory, outcome, failed, cancels>>

\* Mutant of GraceOver: SIGKILL is sent to the leader alone.
KillLeader ==
  /\ phase = "term"
  /\ phase' = "drain"
  /\ \/ /\ leader' = IF leader = "alive" THEN "exited" ELSE leader
        /\ UNCHANGED <<kids, failed>>
     \/ failed' = TRUE /\ UNCHANGED osVars
  /\ UNCHANGED <<spawn, lease, directory, outcome, cancels>>

\* The grace period is over and the group there, or a probe of it was
\* inconclusive: SIGKILL to the group, which may fail.
GraceOver ==
  /\ phase = "term"
  /\ phase' = "drain"
  /\ \/ /\ leader' = IF leader = "alive" THEN "exited" ELSE leader
        /\ kids' = kids \ InGroup
        /\ UNCHANGED failed
     \/ failed' = TRUE /\ UNCHANGED osVars
  /\ UNCHANGED <<spawn, lease, directory, outcome, cancels>>

\* _drain_and_reap succeeds; closing the transport may fail.
Drained ==
  /\ phase = "drain" /\ PipesClosed /\ leader = "reaped"
  /\ \E bad \in {failed, TRUE} : Finish(bad)
  /\ UNCHANGED <<spawn, osVars, cancels>>

\* Mutant of DrainTimesOut: the leader is waited for without a limit.
DrainWaits ==
  /\ phase = "drain" /\ leader = "reaped"
  /\ phase' = "reap" /\ failed' = TRUE
  /\ UNCHANGED <<spawn, osVars, lease, directory, outcome, cancels>>

\* It does not in time, or a reader breaks: the transport is closed, which ends
\* the pipes and kills the leader if it can.
DrainTimesOut ==
  /\ phase = "drain"
  /\ phase' = "reap" /\ failed' = TRUE
  /\ leader' \in IF leader = "alive" THEN {"alive", "exited"} ELSE {leader}
  /\ UNCHANGED <<spawn, kids, lease, directory, outcome, cancels>>

\* The second _drain_and_reap succeeds or is over.
Reaped ==
  /\ phase = "reap"
  /\ Finish(TRUE)
  /\ UNCHANGED <<spawn, osVars, cancels>>

\* Timers, the event loop and the start of a process; not the processes.
ProcessProgress ==
  \/ Spawned \/ SpawnFails \/ Deadline \/ AwaitSpawn
  \/ GroupGone \/ GraceOver \/ Drained \/ DrainTimesOut \/ Reaped

ProcessNext ==
  \/ Acquire \/ DirectoryFails \/ ProcessProgress \/ Answered \/ OutputLimit \/ CancelRun
  \/ Environment \/ ChildWatcher

ProcessSpec == ProcessInit /\ [][ProcessNext]_processVars /\ WF_processVars(ProcessProgress)

-----------------------------------------------------------------------------
\* The quota covers the process: unless the cleanup failed, and then the call
\* does not succeed, no process of the agent is there, or about to be there,
\* without the lease.  Only a descendant that has both left the group and closed
\* the pipes is beyond what the cleanup can see.
QuotaCoversProcess ==
  /\ \/ lease \/ failed
     \/ leader \in {"none", "reaped"} /\ kids \subseteq {"detached"} /\ spawn # "pending"
  /\ phase = "ended" /\ failed => outcome # "ok"

\* Once cancelled, during the run or at any point of the cleanup, once or twice,
\* the call ends as cancelled, whatever the cleanup meets; the one thing that can
\* take the cancellation's place is the OSError of a working directory that could
\* not be removed.
CancellationKept ==
  phase = "ended" /\ cancels > 0 =>
    outcome = IF directory = "left" THEN "os_error" ELSE "cancelled"

\* However the processes behave, a call that has its quota ends.
CallEnds == phase = "run" ~> phase = "ended"
=============================================================================
