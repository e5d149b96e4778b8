---------------------------- MODULE StartupProofs ----------------------------
(***************************************************************************)
(* Daemon processes that start, stop and crash on one socket path, for any *)
(* number of processes and inodes and whatever of these happens to them.   *)
(***************************************************************************)
EXTENDS Startup, TLAPS

-----------------------------------------------------------------------------
(* The inductive invariant. *)

\* A process listens between listen and the close of its server, on a socket that
\* it has bound and that no other process has.
SocketInv ==
  /\ \A d \in Daemons :
       /\ hears[d] => phase[d] \in {"stat", "serving", "close"}
       /\ phase[d] \in {"stat", "serving"} => hears[d]
       /\ phase[d] \in {"listen", "stat", "serving", "close"} => bound[d] \in Inodes
  /\ \A d, e \in Daemons : bound[d] = bound[e] /\ bound[d] # Missing => d = e

\* The phases before a process listens.
Arriving == StartPhases \ {"stat"}

\* A daemon that d has met has not been started again; and past its connection
\* attempt d has seen that none of them can be reached, which no step undoes: a
\* socket that has left the path does not come back, as its inode is in use.
MetInv ==
  \A d \in Daemons : \A e \in met[d] :
    /\ phase[e] \notin Arriving
    /\ phase[d] \in StartPhases \ {"connect"} => ~Reachable(e)

\* The phases in which a process may still bind the socket.
Contending == {"off", "connect", "recheck", "unlink", "build", "asyncio", "remove", "bind"}

\* Where nothing is stopped or killed and nothing fails: the socket at the path is
\* that of a process which serves or will, or nobody has touched what was there
\* at the beginning; and if the path is empty, somebody is about to fill it.
PathInv ==
  /\ path \in Inodes =>
       \/ \E d \in Daemons : bound[d] = path /\ phase[d] \in {"listen", "stat", "serving"}
       \/ \A d \in Daemons : /\ phase[d] \in {"off", "connect", "recheck", "unlink"}
                             /\ phase[d] \in {"connect", "recheck"} => probed[d] = path
  /\ path = Missing => \E d \in Daemons : phase[d] \in Contending

\* The inductive invariant of the starting daemons.
StartupInv ==
  /\ StartupTypeOK /\ SocketInv /\ MetInv
  /\ events = {} => PathInv

\* Nobody has started.
LEMMA StartupInitial == Init => StartupInv
<1> SUFFICES ASSUME Init PROVE StartupInv
  OBVIOUS
<1> USE StartupAssumption DEF Init
<1>1. \A d \in Daemons : phase[d] = "off" /\ ~hears[d] /\ bound[d] = Missing /\ met[d] = {}
  OBVIOUS
<1>2. StartupTypeOK
  <2>1. hears \in [Daemons -> BOOLEAN]
    OBVIOUS
  <2>2. QED
    BY <1>1, <2>1 DEF StartupTypeOK
<1>3. SocketInv
  BY <1>1 DEF SocketInv
<1>4. MetInv
  BY <1>1 DEF MetInv
<1>5. PathInv
  BY <1>1 DEF PathInv, Contending
<1>6. QED
  BY <1>2, <1>3, <1>4, <1>5 DEF StartupInv

-----------------------------------------------------------------------------
(* What a step of one process does. *)

\* The types of the variables.
VarTypes ==
  /\ path \in Inodes \cup {Missing, RegularFile}
  /\ phase \in [Daemons -> {"off", "serving", "failed"} \cup StartPhases \cup StopPhases]
  /\ probed \in [Daemons -> Inodes \cup {Missing}]
  /\ bound \in [Daemons -> Inodes \cup {Missing}]
  /\ mine \in [Daemons -> Inodes \cup {Missing}]
  /\ met \in [Daemons -> SUBSET Daemons]
  /\ hears \in [Daemons -> BOOLEAN]

\* The rest of the type invariant follows from SocketInv.
LEMMA TypesSuffice ==
  VarTypes /\ SocketInv => StartupTypeOK
BY StartupAssumption DEF VarTypes, SocketInv, StartupTypeOK

\* Steps of d that do not touch the sockets and what is at the path.
Plain(d) ==
  /\ UNCHANGED <<path, bound, hears>>
  /\ \E next \in {"off", "serving"} \cup (StartPhases \ {"listen", "stat"}) \cup StopPhases :
       /\ Goes(d, next)
       /\ next = "serving" => phase[d] = "stat"
       /\ next = "close" => phase[d] = "serving"
       /\ hears[d] => next \in {"serving", "close"}

\* Steps of d that end its socket.
Closes(d) ==
  /\ \E next \in {"failed", "owns", "off"} : Goes(d, next)
  /\ bound' = [bound EXCEPT ![d] = Missing] /\ hears' = [hears EXCEPT ![d] = FALSE]
  /\ UNCHANGED path

\* Steps of d that empty the path.
Removes(d) ==
  /\ \/ phase[d] = "unlink" /\ Goes(d, "build")
     \/ phase[d] = "remove" /\ Goes(d, "bind")
     \/ phase[d] = "delete" /\ Goes(d, "off")
  /\ path' = Missing
  /\ UNCHANGED <<bound, hears>>

\* d binds its socket.
Binds(d) ==
  /\ phase[d] = "bind" /\ Goes(d, "listen") /\ path = Missing
  /\ \E inode \in Inodes \ {bound[e] : e \in Daemons} :
       path' = inode /\ bound' = [bound EXCEPT ![d] = inode]
  /\ UNCHANGED hears

\* d listens.
Listens(d) ==
  /\ phase[d] = "listen" /\ Goes(d, "stat")
  /\ hears' = [hears EXCEPT ![d] = TRUE]
  /\ UNCHANGED <<path, bound>>

\* A step of d.
StepOf(d) ==
  \/ Lstat(d) \/ TryConnect(d) \/ Recheck(d) \/ Unlink(d)
  \/ CreateRuntime(d) \/ AsyncioStat(d) \/ AsyncioRemove(d) \/ Bind(d) \/ Listen(d) \/ Stat(d)
  \/ StopDaemon(d) \/ CloseServer(d) \/ OwnsSocket(d) \/ Delete(d) \/ Crash(d)

\* Every step of a process is of one of these kinds.
LEMMA StepKinds ==
  ASSUME StartupInv, NEW d \in Daemons, StepOf(d)
  PROVE  Plain(d) \/ Closes(d) \/ Removes(d) \/ Binds(d) \/ Listens(d)
<1> USE DEF StartPhases, StopPhases
<1>1. hears[d] => phase[d] \in {"stat", "serving", "close"}
  BY DEF StartupInv, SocketInv
<1>2. path \in Inodes \cup {Missing, RegularFile}
  BY DEF StartupInv, StartupTypeOK
<1>3. CASE Lstat(d)
  BY <1>1, <1>2, <1>3, StartupAssumption DEF Lstat, Plain, Closes, Fails
<1>4. CASE TryConnect(d)
  BY <1>1, <1>4 DEF TryConnect, Plain, Closes, Fails
<1>5. CASE Recheck(d)
  BY <1>1, <1>5 DEF Recheck, Plain, Closes, Fails
<1>6. CASE Unlink(d)
  BY <1>6 DEF Unlink, Removes, Closes, Fails
<1>7. CASE CreateRuntime(d) \/ AsyncioStat(d)
  BY <1>1, <1>7 DEF CreateRuntime, AsyncioStat, Plain, Closes, Fails
<1>8. CASE AsyncioRemove(d) \/ Delete(d)
  BY <1>8 DEF AsyncioRemove, Delete, Removes
<1>9. CASE Bind(d)
  BY <1>9 DEF Bind, Binds, Closes, Fails
<1>10. CASE Listen(d)
  BY <1>10 DEF Listen, Listens
<1>11. CASE Stat(d) \/ StopDaemon(d) \/ OwnsSocket(d)
  BY <1>1, <1>11 DEF Stat, StopDaemon, OwnsSocket, Plain, Closes, Fails
<1>12. CASE CloseServer(d) \/ Crash(d)
  BY <1>12 DEF CloseServer, Crash, Closes
<1>13. QED
  BY <1>3, <1>4, <1>5, <1>6, <1>7, <1>8, <1>9, <1>10, <1>11, <1>12 DEF StepOf

\* A step moves one process.
LEMMA OneMoves ==
  ASSUME StartupInv, NEW d \in Daemons, StepOf(d)
  PROVE  \A e \in Daemons \ {d} :
           phase'[e] = phase[e] /\ bound'[e] = bound[e] /\ hears'[e] = hears[e]
<1>1. VarTypes
  BY DEF StartupInv, StartupTypeOK, VarTypes
<1>2. QED
  BY <1>1, StepKinds DEF VarTypes, Plain, Closes, Removes, Binds, Listens, Goes

\* The variables keep their types.
LEMMA TypesKept ==
  ASSUME StartupInv, NEW d \in Daemons, StepOf(d)
  PROVE  VarTypes'
<1>1. VarTypes
  BY DEF StartupInv, StartupTypeOK, VarTypes
<1>2. path' \in Inodes \cup {Missing, RegularFile}
  BY <1>1, StepKinds DEF VarTypes, Plain, Closes, Removes, Binds, Listens
<1>3. phase' \in [Daemons -> {"off", "serving", "failed"} \cup StartPhases \cup StopPhases]
  BY <1>1, StepKinds
     DEF VarTypes, Plain, Closes, Removes, Binds, Listens, Goes, StartPhases, StopPhases
<1>4. bound' \in [Daemons -> Inodes \cup {Missing}]
  BY <1>1, StepKinds DEF VarTypes, Plain, Closes, Removes, Binds, Listens
<1>5. hears' \in [Daemons -> BOOLEAN]
  BY <1>1, StepKinds DEF VarTypes, Plain, Closes, Removes, Binds, Listens
<1>6. probed' \in [Daemons -> Inodes \cup {Missing}] /\ mine' \in [Daemons -> Inodes \cup {Missing}]
  <2>1. \/ probed' = probed \/ \E i \in Inodes \cup {Missing} : probed' = [probed EXCEPT ![d] = i]
    BY <1>1, StartupAssumption
       DEF VarTypes, StepOf, Lstat, TryConnect, Recheck, Unlink, CreateRuntime, AsyncioStat, AsyncioRemove,
           Bind, Listen, Stat, StopDaemon, CloseServer, OwnsSocket, Delete, Crash
  <2>2. \/ mine' = mine \/ \E i \in Inodes \cup {Missing} : mine' = [mine EXCEPT ![d] = i]
    BY <1>1, StartupAssumption
       DEF VarTypes, StepOf, Lstat, TryConnect, Recheck, Unlink, CreateRuntime, AsyncioStat, AsyncioRemove,
           Bind, Listen, Stat, StopDaemon, CloseServer, OwnsSocket, Delete, Crash
  <2>3. QED
    BY <1>1, <2>1, <2>2 DEF VarTypes
<1>7. met' \in [Daemons -> SUBSET Daemons]
  BY <1>1 DEF VarTypes, StepOf, Lstat, TryConnect, Recheck, Unlink, CreateRuntime, AsyncioStat,
              AsyncioRemove, Bind, Listen, Stat, StopDaemon, CloseServer, OwnsSocket, Delete, Crash
<1>8. QED
  BY <1>2, <1>3, <1>4, <1>5, <1>6, <1>7 DEF VarTypes

-----------------------------------------------------------------------------
(* The parts of the invariant. *)

\* Nobody gets the socket of another process, and nobody listens without one.
LEMMA SocketKept ==
  ASSUME StartupInv, NEW d \in Daemons, StepOf(d)
  PROVE  SocketInv'
<1>1. VarTypes /\ SocketInv
  BY DEF StartupInv, StartupTypeOK, VarTypes
<1>2. \A e \in Daemons \ {d} :
        phase'[e] = phase[e] /\ bound'[e] = bound[e] /\ hears'[e] = hears[e]
  BY OneMoves
<1>3. /\ hears'[d] => phase'[d] \in {"stat", "serving", "close"}
      /\ phase'[d] \in {"stat", "serving"} => hears'[d]
      /\ phase'[d] \in {"listen", "stat", "serving", "close"} => bound'[d] \in Inodes
      /\ bound'[d] \in {bound[d], Missing} \/ bound'[d] \notin {bound[e] : e \in Daemons}
  <2>1. CASE Plain(d)
    BY <1>1, <2>1 DEF VarTypes, SocketInv, Plain, Goes, StartPhases, StopPhases
  <2>2. CASE Closes(d)
    BY <1>1, <2>2 DEF VarTypes, Closes, Goes
  <2>3. CASE Removes(d)
    BY <1>1, <2>3 DEF VarTypes, SocketInv, Removes, Goes
  <2>4. CASE Binds(d)
    BY <1>1, <2>4 DEF VarTypes, SocketInv, Binds, Goes
  <2>5. CASE Listens(d)
    BY <1>1, <2>5 DEF VarTypes, SocketInv, Listens, Goes
  <2>6. QED
    BY <2>1, <2>2, <2>3, <2>4, <2>5, StepKinds
<1>4. ASSUME NEW e \in Daemons
      PROVE  /\ hears'[e] => phase'[e] \in {"stat", "serving", "close"}
             /\ phase'[e] \in {"stat", "serving"} => hears'[e]
             /\ phase'[e] \in {"listen", "stat", "serving", "close"} => bound'[e] \in Inodes
  BY <1>1, <1>2, <1>3 DEF SocketInv
<1>5. ASSUME NEW e \in Daemons, NEW f \in Daemons, bound'[e] = bound'[f], bound'[e] # Missing
      PROVE  e = f
  BY <1>1, <1>2, <1>3, <1>5 DEF SocketInv
<1>6. QED
  BY <1>4, <1>5 DEF SocketInv

\* A daemon that cannot be reached cannot be reached after a step of any process,
\* unless it has been on its way to listen.
LEMMA NotReachedAgain ==
  ASSUME StartupInv, NEW d \in Daemons, StepOf(d), NEW e \in Daemons, phase[e] \notin Arriving,
         hears'[e], path' = bound'[e]
  PROVE  hears[e] /\ path = bound[e]
<1>1. VarTypes /\ SocketInv
  BY DEF StartupInv, StartupTypeOK, VarTypes
<1>2. \A x \in Daemons \ {d} :
        phase'[x] = phase[x] /\ bound'[x] = bound[x] /\ hears'[x] = hears[x]
  BY OneMoves
<1>3. SocketInv'
  BY SocketKept
<1>4. bound'[e] \in Inodes
  BY <1>3 DEF SocketInv
<1>5. CASE Plain(d)
  BY <1>5 DEF Plain
<1>6. CASE Closes(d)
  BY <1>1, <1>2, <1>6 DEF VarTypes, Closes
<1>7. CASE Removes(d)
  BY <1>4, <1>7, StartupAssumption DEF Removes
<1>8. CASE Binds(d)
  <2>1. hears[e] /\ e # d
    BY <1>8 DEF Binds, Arriving, StartPhases
  <2>2. bound'[e] = bound[e] /\ path' # bound[e]
    BY <1>2, <1>8, <2>1 DEF Binds
  <2>3. QED
    BY <2>2
<1>9. CASE Listens(d)
  <2>1. e # d
    BY <1>9 DEF Listens, Arriving, StartPhases
  <2>2. QED
    BY <1>2, <1>9, <2>1 DEF Listens
<1>10. QED
  BY <1>5, <1>6, <1>7, <1>8, <1>9, StepKinds

\* Starting processes keep what they have found out.
LEMMA MetKept ==
  ASSUME StartupInv, NEW d \in Daemons, StepOf(d)
  PROVE  MetInv'
<1>1. VarTypes /\ SocketInv /\ MetInv
  BY DEF StartupInv, StartupTypeOK, VarTypes
<1>2. \A x \in Daemons \ {d} :
        phase'[x] = phase[x] /\ bound'[x] = bound[x] /\ hears'[x] = hears[x]
  BY OneMoves
<1>3. CASE Lstat(d)
  <2>1. /\ phase[d] = "off" /\ path' = path /\ met'[d] = {x \in Daemons : Reachable(x)}
        /\ \A x \in Daemons \ {d} : met'[x] = met[x] \ {d}
    BY <1>3 DEF Lstat
  <2>2. \A x \in Daemons : Reachable(x) => path \in Inodes /\ phase[x] \notin Arriving /\ x # d
    BY <1>1, <2>1 DEF SocketInv, Reachable, Arriving, StartPhases
  <2>3. path \in Inodes => phase'[d] = "connect"
    BY <1>1, <1>3, StartupAssumption DEF Lstat, Goes, VarTypes
  <2>4. ASSUME NEW x \in Daemons, NEW e \in met'[x]
        PROVE  /\ phase'[e] \notin Arriving
               /\ phase'[x] \in StartPhases \ {"connect"} => ~(hears'[e] /\ path' = bound'[e])
    <3>1. e \in Daemons /\ e # d
      BY <1>1, <2>1, <2>2 DEF VarTypes
    <3>2. phase[e] \notin Arriving
      BY <1>1, <2>1, <2>2 DEF MetInv
    <3>3. CASE x = d
      BY <1>2, <2>1, <2>2, <2>3, <3>1, <3>2, <3>3
    <3>4. CASE x # d
      BY <1>1, <1>2, <2>1, <3>1, <3>2, <3>4 DEF MetInv, Reachable
    <3>5. QED
      BY <3>3, <3>4
  <2>5. QED
    BY <2>4 DEF MetInv, Reachable
<1>4. CASE ~Lstat(d)
  <2>1. \A x \in Daemons : met'[x] \subseteq met[x]
    BY <1>1, <1>4
       DEF VarTypes, StepOf, TryConnect, Recheck, Unlink, CreateRuntime, AsyncioStat, AsyncioRemove,
           Bind, Listen, Stat, StopDaemon, CloseServer, OwnsSocket, Delete, Crash
  <2>2. phase'[d] \in Arriving => phase[d] \in Arriving
    BY <1>1, <1>4
       DEF VarTypes, StepOf, TryConnect, Recheck, Unlink, CreateRuntime, AsyncioStat, AsyncioRemove,
           Bind, Listen, Stat, StopDaemon, CloseServer, OwnsSocket, Delete, Crash, Goes, Fails,
           Arriving, StartPhases
  <2>3. phase'[d] \in StartPhases \ {"connect"} =>
          \/ phase[d] \in StartPhases \ {"connect"}
          \/ phase[d] = "connect" /\ \A x \in Daemons : ~Reachable(x)
    <3>1. CASE TryConnect(d)
      <4>1. \A x \in Daemons : Reachable(x) => path # Missing
        BY <1>1, StartupAssumption DEF SocketInv, Reachable
      <4>2. QED
        BY <1>1, <3>1, <4>1 DEF TryConnect, VarTypes, Goes, Fails, StartPhases
    <3>2. CASE ~TryConnect(d)
      BY <1>1, <1>4, <3>2
         DEF VarTypes, StepOf, Recheck, Unlink, CreateRuntime, AsyncioStat, AsyncioRemove,
             Bind, Listen, Stat, StopDaemon, CloseServer, OwnsSocket, Delete, Crash, Goes, Fails,
             StartPhases
    <3>3. QED
      BY <3>1, <3>2
  <2>4. ASSUME NEW x \in Daemons, NEW e \in met'[x]
        PROVE  /\ phase'[e] \notin Arriving
               /\ phase'[x] \in StartPhases \ {"connect"} => ~(hears'[e] /\ path' = bound'[e])
    <3>1. e \in Daemons /\ e \in met[x] /\ phase[e] \notin Arriving
      BY <1>1, <2>1 DEF VarTypes, MetInv
    <3>2. phase'[e] \notin Arriving
      BY <1>2, <2>2, <3>1
    <3>3. ASSUME phase'[x] \in StartPhases \ {"connect"} PROVE ~Reachable(e)
      BY <1>1, <1>2, <2>3, <3>1, <3>3 DEF MetInv
    <3>4. hears'[e] /\ path' = bound'[e] => Reachable(e)
      BY <3>1, NotReachedAgain DEF Reachable
    <3>5. QED
      BY <3>2, <3>3, <3>4
  <2>5. QED
    BY <2>4 DEF MetInv, Reachable
<1>5. QED
  BY <1>3, <1>4

\* Without faults the socket stays with a process that serves, or somebody fills
\* the path.
LEMMA PathKept ==
  ASSUME StartupInv, events = {}, NEW d \in Daemons, StepOf(d)
  PROVE  PathInv'
<1>1. VarTypes /\ SocketInv /\ PathInv
  BY DEF StartupInv, StartupTypeOK, VarTypes
<1>2. \A x \in Daemons \ {d} :
        phase'[x] = phase[x] /\ bound'[x] = bound[x] /\ hears'[x] = hears[x]
  BY OneMoves
<1> DEFINE Owned == \E x \in Daemons : bound[x] = path /\ phase[x] \in {"listen", "stat", "serving"}
           Untouched == \A x \in Daemons : /\ phase[x] \in {"off", "connect", "recheck", "unlink"}
                                           /\ phase[x] \in {"connect", "recheck"} => probed[x] = path
<1>3. path' \in Inodes => Owned' \/ Untouched'
  <2> SUFFICES ASSUME path' \in Inodes PROVE Owned' \/ Untouched'
    OBVIOUS
  <2>1. path' # Missing
    BY StartupAssumption
  <2>2. CASE Binds(d)
    <3>1. bound'[d] = path' /\ phase'[d] = "listen"
      BY <1>1, <2>2 DEF VarTypes, Binds, Goes
    <3>2. QED
      BY <3>1
  <2>3. CASE path' = path /\ Owned
    <3>1. PICK x \in Daemons : bound[x] = path /\ phase[x] \in {"listen", "stat", "serving"}
      BY <2>3
    <3>2. CASE x # d
      BY <1>2, <2>3, <3>1, <3>2
    <3>3. CASE x = d
      <4>1. Listen(d) \/ Stat(d)
        BY <3>1, <3>3
           DEF StepOf, Lstat, TryConnect, Recheck, Unlink, CreateRuntime, AsyncioStat, AsyncioRemove,
               Bind, StopDaemon, CloseServer, OwnsSocket, Delete, Crash
      <4>2. bound'[d] = bound[d] /\ phase'[d] \in {"stat", "serving"}
        BY <1>1, <2>1, <2>3, <4>1 DEF VarTypes, Listen, Stat, Goes
      <4>3. QED
        BY <2>3, <3>1, <3>3, <4>2
    <3>4. QED
      BY <3>2, <3>3
  <2>4. CASE path' = path /\ Untouched
    <3>1. \A x \in Daemons : ~Reachable(x)
      BY <1>1, <2>4 DEF SocketInv, Reachable
    <3>2. Lstat(d) \/ TryConnect(d) \/ Recheck(d) \/ Unlink(d)
      BY <2>4
         DEF StepOf, CreateRuntime, AsyncioStat, AsyncioRemove, Bind, Listen, Stat, StopDaemon,
             CloseServer, OwnsSocket, Delete, Crash
    <3>3. CASE Lstat(d)
      <4>1. phase'[d] = "connect" /\ probed'[d] = path /\ \A x \in Daemons \ {d} : probed'[x] = probed[x]
        BY <1>1, <2>4, <3>3, StartupAssumption DEF VarTypes, Lstat, Goes
      <4>2. QED
        BY <1>2, <2>4, <4>1
    <3>4. CASE TryConnect(d)
      <4>1. phase'[d] = "recheck" /\ probed' = probed /\ phase[d] = "connect"
        BY <1>1, <2>1, <2>4, <3>1, <3>4 DEF VarTypes, TryConnect, Goes
      <4>2. QED
        BY <1>2, <2>4, <4>1
    <3>5. CASE Recheck(d)
      <4>1. path = probed[d] /\ path # Missing
        BY <2>1, <2>4, <3>5 DEF Recheck
      <4>2. phase'[d] = "unlink" /\ probed' = probed
        BY <1>1, <3>5, <4>1 DEF VarTypes, Recheck, Goes
      <4>3. QED
        BY <1>2, <2>4, <4>2
    <3>6. CASE Unlink(d)
      BY <2>1, <3>6 DEF Unlink
    <3>7. QED
      BY <3>2, <3>3, <3>4, <3>5, <3>6
  <2>5. CASE Removes(d)
    BY <2>1, <2>5 DEF Removes
  <2>6. QED
    <3>1. Binds(d) \/ Removes(d) \/ path' = path
      BY StepKinds DEF Plain, Closes, Listens
    <3>2. path' = path => Owned \/ Untouched
      BY <1>1 DEF PathInv
    <3>3. QED
      BY <2>2, <2>3, <2>4, <2>5, <3>1, <3>2
<1>4. path' = Missing => \E x \in Daemons : phase'[x] \in Contending
  <2> SUFFICES ASSUME path' = Missing PROVE \E x \in Daemons : phase'[x] \in Contending
    OBVIOUS
  <2>1. CASE Removes(d)
    <3>1. phase'[d] \in Contending
      BY <1>1, <2>1 DEF VarTypes, Removes, Goes, Contending
    <3>2. QED
      BY <3>1
  <2>2. CASE path = Missing
    <3>1. PICK x \in Daemons : phase[x] \in Contending
      BY <1>1, <2>2 DEF PathInv
    <3>2. CASE x # d
      BY <1>2, <3>1, <3>2
    <3>3. CASE x = d
      <4>1. \A e \in Daemons : ~Reachable(e)
        BY <1>1, <2>2, StartupAssumption DEF SocketInv, Reachable
      <4>2. CASE Lstat(d)
        BY <1>1, <2>2, <4>2, StartupAssumption DEF VarTypes, Lstat, Goes, Contending
      <4>3. CASE TryConnect(d) \/ Recheck(d) \/ Unlink(d)
        <5>1. Goes(d, "build")
          BY <2>2, <4>1, <4>3 DEF TryConnect, Recheck, Unlink
        <5>2. QED
          BY <1>1, <5>1 DEF VarTypes, Goes, Contending
      <4>4. CASE CreateRuntime(d) \/ AsyncioStat(d) \/ AsyncioRemove(d)
        BY <1>1, <2>2, <4>4 DEF VarTypes, CreateRuntime, AsyncioStat, AsyncioRemove, Goes, Contending
      <4>5. CASE Bind(d)
        BY <2>2, <4>5, StartupAssumption DEF Bind
      <4>6. QED
        BY <3>1, <3>3, <4>2, <4>3, <4>4, <4>5
           DEF StepOf, Listen, Stat, StopDaemon, CloseServer, OwnsSocket, Delete, Crash, Contending
    <3>4. QED
      BY <3>2, <3>3
  <2>3. CASE Binds(d)
    BY <2>3, StartupAssumption DEF Binds
  <2>4. QED
    BY <2>1, <2>2, <2>3, StepKinds DEF Plain, Closes, Listens
<1>5. QED
  BY <1>3, <1>4 DEF PathInv

\* Every step keeps the inductive invariant.
LEMMA StartupStep == StartupInv /\ [Next]_vars => StartupInv'
<1> SUFFICES ASSUME StartupInv, [Next]_vars PROVE StartupInv'
  OBVIOUS
<1>1. CASE UNCHANGED vars
  BY <1>1 DEF vars, StartupInv, StartupTypeOK, SocketInv, MetInv, PathInv, Reachable
<1>2. CASE Next
  <2>1. PICK d \in Daemons : StepOf(d)
    BY <1>2 DEF Next, StepOf
  <2>2. events' = events
    BY <1>2 DEF Next
  <2>3. SocketInv' /\ MetInv' /\ VarTypes'
    BY <2>1, SocketKept, MetKept, TypesKept
  <2>4. StartupTypeOK'
    BY <2>3, StartupAssumption DEF VarTypes, SocketInv, StartupTypeOK
  <2>5. events' = {} => PathInv'
    BY <2>1, <2>2, PathKept
  <2>6. QED
    BY <2>3, <2>4, <2>5 DEF StartupInv
<1>3. QED
  BY <1>1, <1>2

-----------------------------------------------------------------------------
(* What is promised of processes that start. *)

\* The inductive invariant, and with it the types, hold in every behaviour.
THEOREM StartupInvariant == Spec => [](StartupTypeOK /\ StartupInv)
<1>1. StartupInv => StartupTypeOK
  BY DEF StartupInv
<1>2. QED
  BY StartupInitial, StartupStep, <1>1, PTL DEF Spec

\* A process that begins to start while a daemon can be reached never takes the
\* socket away from it.
THEOREM LiveKeepsItsSocket == Spec => LiveNotDisplaced
<1>1. ASSUME StartupInv, [Next]_vars, NEW d \in Daemons, NEW e \in Daemons,
             phase[d] \in StartPhases, phase'[d] # phase[d], Reachable(e), e \in met[d]
      PROVE  path' = path
  <2>1. phase[d] = "connect"
    BY <1>1 DEF StartupInv, MetInv
  <2>2. PICK x \in Daemons : StepOf(x)
    BY <1>1 DEF Next, StepOf, vars
  <2>3. x = d
    BY <1>1, <2>2, OneMoves
  <2>4. TryConnect(d) \/ Crash(d)
    BY <2>1, <2>2, <2>3
       DEF StepOf, Lstat, Recheck, Unlink, CreateRuntime, AsyncioStat, AsyncioRemove, Bind, Listen,
           Stat, StopDaemon, CloseServer, OwnsSocket, Delete
  <2>5. QED
    BY <2>4 DEF TryConnect, Crash
<1>2. StartupInv /\ [Next]_vars =>
        [\A d, e \in Daemons :
           /\ phase[d] \in StartPhases /\ phase'[d] # phase[d]
           /\ Reachable(e) /\ e \in met[d]
           => path' = path]_vars
  BY <1>1
<1>3. QED
  BY StartupInvariant, <1>2, PTL DEF Spec, LiveNotDisplaced

\* Daemons that start together do not keep each other out.
THEOREM SomeoneGetsToServe == Spec => []SomeoneServes
<1>1. StartupInv => SomeoneServes
  <2> SUFFICES ASSUME StartupInv, events = {}, path # RegularFile,
                      \A d \in Daemons : phase[d] \in {"serving", "failed"}
               PROVE  \E d \in Daemons : Reachable(d)
    BY DEF SomeoneServes
  <2>1. PathInv /\ SocketInv /\ path \in Inodes \cup {Missing, RegularFile}
    BY DEF StartupInv, StartupTypeOK
  <2>2. path \in Inodes
    BY <2>1 DEF PathInv, Contending
  <2>3. PICK d \in Daemons : bound[d] = path /\ phase[d] = "serving"
    BY <2>1, <2>2, StartupAssumption DEF PathInv
  <2>4. QED
    BY <2>1, <2>3 DEF SocketInv, Reachable
<1>2. QED
  BY StartupInvariant, <1>1, PTL
=============================================================================
