------------------------------ MODULE Startup ------------------------------
(***************************************************************************)
(* Daemon processes that start, stop and crash on one socket path.  A step *)
(* is one operation on the file system: nothing makes two of them atomic   *)
(* for another process.  A socket file is identified by its inode, as in   *)
(* the code; an inode may be used again once nobody has it.                *)
(***************************************************************************)
EXTENDS Naturals

CONSTANTS
  Daemons,
  Inodes,
  Missing,       \* there is no file
  RegularFile,   \* there is a file that is not a socket
  Faults         \* the sets of events, of "stop", "crash" and "error", that
                 \* may happen to the processes of one behaviour

ASSUME StartupAssumption ==
  /\ Daemons # {}
  /\ Missing \notin Inodes /\ RegularFile \notin Inodes /\ Missing # RegularFile
  /\ Faults \subseteq SUBSET {"stop", "crash", "error"}

VARIABLES
  path,     \* what is at the path of the socket
  phase,    \* per process: what it does next
  probed,   \* the inode its probe has seen
  bound,    \* the inode of its own socket
  hears,    \* it listens on it
  mine,     \* _socket_identity
  met,      \* the daemons that could be reached when its start began and have
            \* not been started again since
  events    \* which of "stop", "crash" and "error" happen in this behaviour

vars == <<path, phase, probed, bound, hears, mine, met, events>>

StartPhases == {"connect", "recheck", "unlink", "build", "asyncio", "remove", "bind",
                "listen", "stat"}
StopPhases == {"close", "owns", "delete"}

Reachable(d) == hears[d] /\ path = bound[d]

\* The types, and what listening needs: a socket of one's own.
StartupTypeOK ==
  /\ path \in Inodes \cup {Missing, RegularFile}
  /\ phase \in [Daemons -> {"off", "serving", "failed"} \cup StartPhases \cup StopPhases]
  /\ probed \in [Daemons -> Inodes \cup {Missing}]
  /\ bound \in [Daemons -> Inodes \cup {Missing}]
  /\ mine \in [Daemons -> Inodes \cup {Missing}]
  /\ met \in [Daemons -> SUBSET Daemons]
  /\ hears \in [Daemons -> BOOLEAN]
  /\ \A d \in Daemons : phase[d] = "serving" => hears[d]
  /\ \A d, e \in Daemons : hears[d] /\ hears[e] /\ bound[d] = bound[e] => d = e

\* A file that an earlier process has left, or none.
Init ==
  /\ path \in Inodes \cup {Missing, RegularFile}
  /\ phase = [d \in Daemons |-> "off"]
  /\ probed = [d \in Daemons |-> Missing]
  /\ bound = [d \in Daemons |-> Missing]
  /\ hears = [d \in Daemons |-> FALSE]
  /\ mine = [d \in Daemons |-> Missing]
  /\ met = [d \in Daemons |-> {}]
  /\ events \in Faults

Goes(d, next) == phase' = [phase EXCEPT ![d] = next]

\* The process ends without serving: its socket goes with it, a file stays.
Fails(d) ==
  /\ Goes(d, "failed")
  /\ bound' = [bound EXCEPT ![d] = Missing] /\ hears' = [hears EXCEPT ![d] = FALSE]

-----------------------------------------------------------------------------
(* probe_unix_socket and _prepare_socket_path *)

\* Mutant of Lstat: a socket of an earlier process is in the way for good.
LstatRefuses(d) ==
  /\ phase[d] = "off"
  /\ IF path = Missing THEN Goes(d, "build") /\ UNCHANGED <<bound, hears>> ELSE Fails(d)
  /\ UNCHANGED <<path, probed, mine, met>>

Lstat(d) ==
  /\ phase[d] = "off"
  /\ met' = [e \in Daemons |-> IF e = d THEN {x \in Daemons : Reachable(x)} ELSE met[e] \ {d}]
  /\ CASE path = Missing     -> Goes(d, "build") /\ UNCHANGED <<probed, bound, hears>>
       [] path = RegularFile -> Fails(d) /\ UNCHANGED probed
       [] path \in Inodes    -> /\ Goes(d, "connect") /\ probed' = [probed EXCEPT ![d] = path]
                                /\ UNCHANGED <<bound, hears>>
  /\ UNCHANGED <<path, mine>>

\* Mutant of TryConnect: a socket that does not answer in time counts as stale.
TryConnectHasty(d) ==
  /\ phase[d] = "connect"
  /\ \/ path = Missing /\ Goes(d, "build") /\ UNCHANGED <<bound, hears>>
     \/ path # Missing /\ Goes(d, "recheck") /\ UNCHANGED <<bound, hears>>
     \/ (\E e \in Daemons : Reachable(e)) /\ Fails(d)
  /\ UNCHANGED <<path, probed, mine, met>>

\* The answer is of whoever is at the path now; a live daemon may also time out,
\* and other errors of the connection fail the start as well.
TryConnect(d) ==
  /\ phase[d] = "connect"
  /\ \/ path = Missing /\ Goes(d, "build") /\ UNCHANGED <<bound, hears>>
     \/ /\ path # Missing /\ ~\E e \in Daemons : Reachable(e)
        /\ Goes(d, "recheck") /\ UNCHANGED <<bound, hears>>
     \/ ("error" \in events \/ \E e \in Daemons : Reachable(e)) /\ Fails(d)
  /\ UNCHANGED <<path, probed, mine, met>>

Recheck(d) ==
  /\ phase[d] = "recheck"
  /\ IF path = Missing THEN Goes(d, "build") /\ UNCHANGED <<bound, hears>>
     ELSE IF path = probed[d] THEN Goes(d, "unlink") /\ UNCHANGED <<bound, hears>>
     ELSE Fails(d)
  /\ UNCHANGED <<path, probed, mine, met>>

Unlink(d) ==
  /\ phase[d] = "unlink"
  /\ \/ path' = Missing /\ Goes(d, "build") /\ UNCHANGED <<bound, hears>>
     \/ "error" \in events /\ Fails(d) /\ UNCHANGED path
  /\ UNCHANGED <<probed, mine, met>>

-----------------------------------------------------------------------------
(* start *)

\* _create_runtime reads the configuration; it is tried before the socket is.
CreateRuntime(d) ==
  /\ phase[d] = "build"
  /\ \/ Goes(d, "asyncio") /\ UNCHANGED <<bound, hears>>
     \/ "error" \in events /\ Fails(d)
  /\ UNCHANGED <<path, probed, mine, met>>

\* asyncio.start_unix_server removes a socket, not a regular file, before bind.
AsyncioStat(d) ==
  /\ phase[d] = "asyncio"
  /\ Goes(d, IF path \in Inodes THEN "remove" ELSE "bind")
  /\ UNCHANGED <<path, probed, bound, hears, mine, met>>

AsyncioRemove(d) ==
  /\ phase[d] = "remove"
  /\ path' = Missing
  /\ Goes(d, "bind")
  /\ UNCHANGED <<probed, bound, hears, mine, met>>

Bind(d) ==
  /\ phase[d] = "bind"
  /\ \/ /\ path = Missing
        /\ \E inode \in Inodes \ {bound[e] : e \in Daemons} :
             path' = inode /\ bound' = [bound EXCEPT ![d] = inode]
        /\ Goes(d, "listen")
        /\ UNCHANGED hears
     \/ path # Missing /\ Fails(d) /\ UNCHANGED path
  /\ UNCHANGED <<probed, mine, met>>

Listen(d) ==
  /\ phase[d] = "listen"
  /\ hears' = [hears EXCEPT ![d] = TRUE]
  /\ Goes(d, "stat")
  /\ UNCHANGED <<path, probed, bound, mine, met>>

\* The identity is that of whatever is at the path by now.
Stat(d) ==
  /\ phase[d] = "stat"
  /\ IF path = Missing THEN Fails(d) /\ UNCHANGED mine
     ELSE /\ mine' = [mine EXCEPT ![d] = IF path \in Inodes THEN path ELSE Missing]
          /\ Goes(d, "serving") /\ UNCHANGED <<bound, hears>>
  /\ probed' = [probed EXCEPT ![d] = Missing] /\ met' = [met EXCEPT ![d] = {}]
  /\ UNCHANGED path

-----------------------------------------------------------------------------
(* _cleanup_before_response, and a process that is killed *)

StopDaemon(d) ==
  /\ phase[d] = "serving" /\ "stop" \in events
  /\ Goes(d, "close")
  /\ UNCHANGED <<path, probed, bound, hears, mine, met>>

CloseServer(d) ==
  /\ phase[d] = "close"
  /\ Goes(d, "owns")
  /\ bound' = [bound EXCEPT ![d] = Missing] /\ hears' = [hears EXCEPT ![d] = FALSE]
  /\ UNCHANGED <<path, probed, mine, met>>

OwnsSocket(d) ==
  /\ phase[d] = "owns"
  /\ Goes(d, IF path = mine[d] /\ path # Missing THEN "delete" ELSE "off")
  /\ mine' = [mine EXCEPT ![d] = Missing]
  /\ UNCHANGED <<path, probed, bound, hears, met>>

Delete(d) ==
  /\ phase[d] = "delete"
  /\ path' = Missing
  /\ Goes(d, "off")
  /\ UNCHANGED <<probed, bound, hears, mine, met>>

\* What a process remembers goes with it.
Crash(d) ==
  /\ phase[d] \notin {"off", "failed"} /\ "crash" \in events
  /\ Goes(d, "off")
  /\ bound' = [bound EXCEPT ![d] = Missing] /\ hears' = [hears EXCEPT ![d] = FALSE]
  /\ probed' = [probed EXCEPT ![d] = Missing] /\ mine' = [mine EXCEPT ![d] = Missing]
  /\ met' = [met EXCEPT ![d] = {}]
  /\ UNCHANGED path

Next ==
  /\ \E d \in Daemons :
       \/ Lstat(d) \/ TryConnect(d) \/ Recheck(d) \/ Unlink(d)
       \/ CreateRuntime(d) \/ AsyncioStat(d) \/ AsyncioRemove(d) \/ Bind(d) \/ Listen(d) \/ Stat(d)
       \/ StopDaemon(d) \/ CloseServer(d) \/ OwnsSocket(d) \/ Delete(d) \/ Crash(d)
  /\ UNCHANGED events

Spec == Init /\ [][Next]_vars

-----------------------------------------------------------------------------
\* A process that begins to start while a daemon can be reached never takes the
\* socket away from that daemon, whatever else starts, stops or crashes.
LiveNotDisplaced ==
  [][\A d, e \in Daemons :
       /\ phase[d] \in StartPhases /\ phase'[d] # phase[d]
       /\ Reachable(e) /\ e \in met[d]
       => path' = path]_vars

\* Daemons that start together, on a stale socket or on none, do not keep each
\* other out: when all have finished, one of them can be reached, if nobody is
\* stopped or killed and no operation of the system fails.
SomeoneServes ==
  /\ events = {} /\ path # RegularFile
  /\ \A d \in Daemons : phase[d] \in {"serving", "failed"}
  => \E d \in Daemons : Reachable(d)

\* What docs/designs/plans/agent-search-gateway-cli-v0.md says of the stop: the
\* socket is removed if it is this daemon's, so never one that another daemon
\* can be reached by.
StopRemovesOwn ==
  [][\A d, e \in Daemons :
       d # e /\ phase[d] \in StopPhases /\ phase'[d] # phase[d] /\ Reachable(e)
       => path' = path]_vars
=============================================================================
