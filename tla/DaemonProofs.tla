---------------------------- MODULE DaemonProofs ----------------------------
(***************************************************************************)
(* The tasks of one daemon process, for any number of connections, request *)
(* ids and signals, and both behaviours of Server.wait_closed; one         *)
(* exchange over its socket, for any peer and any daemon; and the frames   *)
(* of one connection, for any bytes, pieces and limit.                     *)
(***************************************************************************)
EXTENDS Daemon, Exchange, NdjsonDecoder, FiniteSetTheorems, SequenceTheorems,
        WellFoundedInduction, TLAPS

-----------------------------------------------------------------------------
(* The inductive invariant. *)

\* The shutdown coordinator and what it has closed.  That a coordinator has
\* ended, or let the stop requests go, without closing the runtime takes a
\* second SIGTERM.
LifeInv ==
  /\ shutting_down <=> coordinator # "none"
  /\ coordinator \in {"none", "created", "waiting", "gathering"} => runtime = "open"
  /\ coordinator = "draining" => runtime = "closed"
  /\ coordinator = "done" /\ signals < 2 => runtime = "closed"
  /\ coordinator \in {"unwinding", "aborted"} => signals >= 2
  /\ runtime = "closed" => ~listening
  /\ response_ready /\ signals < 2 => runtime = "closed"
  /\ main = "terminating" => signals >= 1

\* The connections: the coordinator waits for every workflow there is, so none
\* is left when it takes the runtime away, and none is admitted afterwards; and
\* only a client that is there can leave something unread.
ConnInv ==
  /\ \A c \in Active : conn[c].id \in Ids
  /\ IdsExclusive
  /\ \A c \in Conns : conn[c].reply = "stopped" => response_ready
  /\ \A c \in Conns : conn[c].unsent => conn[c].client
  /\ coordinator \in {"waiting", "gathering", "unwinding"} => Active \subseteq awaited
  /\ coordinator = "closing" \/ runtime # "open" => Active = {}

\* The inductive invariant of the daemon.
DaemonInv == TypeOK /\ LifeInv /\ ConnInv

\* The types of a connection.
ConnRecords ==
  [phase : Phases, client : BOOLEAN, unsent : BOOLEAN, cancelled : BOOLEAN, search : BOOLEAN,
   id : Ids \cup {NoId}, reply : {"other", "stopped"}]

LEMMA NoConnIs ==
  /\ NoConn \in ConnRecords
  /\ NoConn.phase = "none" /\ ~NoConn.client /\ ~NoConn.unsent /\ ~NoConn.cancelled
  /\ NoConn.reply = "other"
BY DEF NoConn, ConnRecords, Phases

\* start() has bound the socket.
LEMMA DaemonInitial == Init => DaemonInv
<1> SUFFICES ASSUME Init PROVE DaemonInv
  OBVIOUS
<1> USE DaemonAssumption DEF Init
<1>1. \A c \in Conns : conn[c] = NoConn
  OBVIOUS
<1>2. Active = {}
  BY <1>1 DEF Active, NoConn
<1>4. TypeOK
  <2>1. conn \in [Conns -> ConnRecords]
    BY NoConnIs
  <2>2. signals \in 0 .. MaxSignals /\ files \subseteq Ids /\ awaited \subseteq Tasks
    OBVIOUS
  <2>3. shutting_down \in BOOLEAN /\ listening \in BOOLEAN /\ response_ready \in BOOLEAN
    OBVIOUS
  <2>4. QED
    BY <2>1, <2>2, <2>3 DEF TypeOK, ConnRecords
<1>5. LifeInv
  BY DEF LifeInv
<1>6. ConnInv
  BY <1>1, <1>2 DEF ConnInv, IdsExclusive, NoConn
<1>7. QED
  BY <1>4, <1>5, <1>6 DEF DaemonInv

-----------------------------------------------------------------------------
(* Steps of connections. *)

\* Nothing but connections and files changes.
SameLife ==
  UNCHANGED <<shutting_down, coordinator, runtime, listening, response_ready, main, signals>>

\* One connection gets a new state that is no workflow, or the one it had.
LEMMA QuietConn ==
  ASSUME DaemonInv, SameLife, files' = files,
         NEW c \in Conns, NEW new \in ConnRecords, conn' = [conn EXCEPT ![c] = new],
         awaited' = awaited \/ awaited' = awaited \ {c},
         new.phase \in {"none", "lingering"} => awaited' = awaited \ {c},
         awaited' = awaited \/ new.phase # "working",
         new.phase = "working" =>
           conn[c].phase = "working" /\ new.id = conn[c].id /\ new.search = conn[c].search,
         new.reply = "stopped" => response_ready,
         new.unsent => new.client
  PROVE  DaemonInv'
<1>1. /\ conn \in [Conns -> ConnRecords] /\ conn' \in [Conns -> ConnRecords]
      /\ conn'[c] = new /\ \A d \in Conns \ {c} : conn'[d] = conn[d]
  BY DEF DaemonInv, TypeOK, ConnRecords
<1>2. TypeOK'
  <2>1. awaited \subseteq Tasks
    BY DEF DaemonInv, TypeOK
  <2>2. awaited' \subseteq Tasks'
    BY <1>1, <2>1 DEF Tasks
  <2>3. QED
    BY <1>1, <2>2 DEF DaemonInv, TypeOK, ConnRecords, SameLife
<1>3. LifeInv'
  BY DEF DaemonInv, LifeInv, SameLife
<1>4. \A d \in Active' : d \in Active /\ conn'[d].id = conn[d].id /\ conn'[d].search = conn[d].search
  BY <1>1 DEF Active
<1>5. IdsExclusive'
  <2> SUFFICES ASSUME NEW d \in Active'
               PROVE  /\ \A e \in Active' \ {d} : conn'[d].id # conn'[e].id
                      /\ conn'[d].search => conn'[d].id \notin files'
    BY DEF IdsExclusive
  <2>1. QED
    BY <1>4 DEF DaemonInv, ConnInv, IdsExclusive
<1>6. Active' \subseteq awaited' \/ ~(Active \subseteq awaited)
  BY <1>1, <1>4 DEF Active
<1>7. ConnInv'
  <2>1. \A d \in Active' : conn'[d].id \in Ids
    BY <1>4 DEF DaemonInv, ConnInv
  <2>2. /\ \A d \in Conns : conn'[d].reply = "stopped" => response_ready'
        /\ \A d \in Conns : conn'[d].unsent => conn'[d].client
    BY <1>1 DEF DaemonInv, ConnInv, SameLife
  <2>3. coordinator' \in {"waiting", "gathering", "unwinding"} => Active' \subseteq awaited'
    BY <1>6 DEF DaemonInv, ConnInv, SameLife
  <2>4. coordinator' = "closing" \/ runtime' # "open" => Active' = {}
    BY <1>4 DEF DaemonInv, ConnInv, SameLife
  <2>5. QED
    BY <1>5, <2>1, <2>2, <2>3, <2>4 DEF ConnInv
<1>8. QED
  BY <1>2, <1>3, <1>7 DEF DaemonInv

\* A reply leaves the connection without a workflow, and with something unread
\* only if its client is there.
LEMMA Sent ==
  ASSUME DaemonInv, NEW c \in Conns, NEW text \in {"other", "stopped"}, Sends(c, text)
  PROVE  \E new \in ConnRecords :
           /\ conn' = [conn EXCEPT ![c] = new]
           /\ new.phase \in {"idle", "writing"} /\ new.reply = text
           /\ new.unsent => new.client
<1>1. conn[c].client \in BOOLEAN
  BY DEF DaemonInv, TypeOK
<1>2. PICK new \in AfterReply(c, text) : conn' = [conn EXCEPT ![c] = new]
  BY DEF Sends
<1>3. /\ new \in ConnRecords /\ new.phase \in {"idle", "writing"} /\ new.reply = text
      /\ new.unsent => new.client
  BY <1>1 DEF AfterReply, ConnRecords, Phases
<1>4. QED
  BY <1>2, <1>3

\* A task that leaves the loop is gone, or closes its writer.
LEMMA Left ==
  ASSUME DaemonInv, NEW c \in Conns, Leaves(c)
  PROVE  \E new \in ConnRecords :
           /\ conn' = [conn EXCEPT ![c] = new]
           /\ \/ new.phase = "none" /\ awaited' = awaited \ {c}
              \/ new.phase = "closing" /\ awaited' = awaited
           /\ new.reply = "other" /\ (new.unsent => new.client)
<1>1. CASE conn[c].unsent
  <2> DEFINE new == [NoConn EXCEPT !.phase = "closing", !.unsent = TRUE, !.client = conn[c].client]
  <2>1. conn[c].client \in BOOLEAN /\ conn[c].client
    BY <1>1 DEF DaemonInv, TypeOK, ConnInv
  <2>2. new \in ConnRecords
    BY <2>1 DEF NoConn, ConnRecords, Phases
  <2>3. new.phase = "closing" /\ new.reply = "other" /\ new.client
    BY <2>1 DEF NoConn
  <2>4. conn' = [conn EXCEPT ![c] = new] /\ awaited' = awaited
    BY <1>1 DEF Leaves
  <2> HIDE DEF new
  <2>5. QED
    BY <2>2, <2>3, <2>4
<1>2. CASE ~conn[c].unsent
  BY <1>2, NoConnIs DEF Leaves, Ends
<1>3. QED
  BY <1>1, <1>2

\* Leaving the loop, or ending, changes one connection and nothing else.
LEMMA LeftQuietly ==
  ASSUME DaemonInv, NEW c \in Conns, Leaves(c) \/ Ends(c), SameLife, files' = files
  PROVE  DaemonInv'
<1>1. CASE Leaves(c)
  <2>1. PICK new \in ConnRecords :
          /\ conn' = [conn EXCEPT ![c] = new]
          /\ \/ new.phase = "none" /\ awaited' = awaited \ {c}
             \/ new.phase = "closing" /\ awaited' = awaited
          /\ new.reply = "other" /\ (new.unsent => new.client)
    BY <1>1, Left
  <2>2. QED
    BY <2>1, QuietConn
<1>2. CASE Ends(c)
  BY <1>2, NoConnIs, QuietConn DEF Ends
<1>3. QED
  BY <1>1, <1>2

\* A reply to a connection that is in no workflow changes nothing else.
LEMMA SentQuietly ==
  ASSUME DaemonInv, NEW c \in Conns, NEW text \in {"other", "stopped"}, Sends(c, text),
         SameLife, UNCHANGED <<files, awaited>>, text = "stopped" => response_ready
  PROVE  DaemonInv'
<1>1. PICK new \in ConnRecords :
        /\ conn' = [conn EXCEPT ![c] = new]
        /\ new.phase \in {"idle", "writing"} /\ new.reply = text
        /\ new.unsent => new.client
  BY Sent
<1>2. QED
  BY <1>1, QuietConn

\* A client comes, reads or goes, a request is refused, a stop request is answered,
\* or a connection task leaves the loop or ends.
LEMMA QuietSteps ==
  ASSUME DaemonInv, NEW c \in Conns,
         \/ Connect(c) \/ ClientLeaves(c) \/ ClientReceives(c) \/ HalfCloses(c) \/ TaskSteps(c)
         \/ \E search \in BOOLEAN : IdsExhausted(c, search) \/ Reject(c, search)
  PROVE  DaemonInv'
<1>1. conn \in [Conns -> ConnRecords] /\ conn[c] \in ConnRecords
  BY DEF DaemonInv, TypeOK, ConnRecords
<1>2. c \in awaited => conn[c].phase \notin {"none", "lingering"}
  BY DEF DaemonInv, TypeOK, Tasks
<1>3. conn[c].reply = "stopped" => response_ready
  BY DEF DaemonInv, ConnInv
<1>4. CASE Connect(c)
  <2> DEFINE new == [NoConn EXCEPT !.phase = "idle", !.client = TRUE]
  <2>1. new \in ConnRecords /\ new.phase = "idle" /\ new.reply = "other" /\ new.client
    BY NoConnIs DEF ConnRecords, Phases, NoConn
  <2>2. conn' = [conn EXCEPT ![c] = new] /\ SameLife /\ UNCHANGED <<files, awaited>>
    BY <1>4 DEF Connect, SameLife, lifeVars
  <2> HIDE DEF new
  <2>3. QED
    BY <2>1, <2>2, QuietConn
<1>5. CASE ClientLeaves(c)
  <2> DEFINE new == [conn[c] EXCEPT !.client = FALSE, !.unsent = FALSE]
  <2>1. /\ new \in ConnRecords /\ new.phase = conn[c].phase /\ new.reply = conn[c].reply
        /\ new.id = conn[c].id /\ new.search = conn[c].search
        /\ new.unsent = FALSE
    BY <1>1 DEF ConnRecords
  <2>2. conn' = [conn EXCEPT ![c] = new] /\ SameLife /\ UNCHANGED <<files, awaited>>
    BY <1>1, <1>5 DEF ClientLeaves, SameLife, lifeVars
  <2> HIDE DEF new
  <2>3. /\ new.phase \in {"none", "lingering"} => awaited' = awaited \ {c}
        /\ new.reply = "stopped" => response_ready
        /\ new.unsent => new.client
    BY <1>2, <1>3, <2>1, <2>2
  <2>4. new.phase = "working" =>
          conn[c].phase = "working" /\ new.id = conn[c].id /\ new.search = conn[c].search
    BY <2>1
  <2>5. awaited' = awaited
    BY <2>2
  <2>6. QED
    BY <2>1, <2>2, <2>3, <2>4, <2>5, QuietConn
<1>6. CASE ClientReceives(c)
  <2>1. PICK rest \in BOOLEAN :
          conn' = [conn EXCEPT ![c].unsent = rest,
                               ![c].phase = IF @ = "writing" THEN "idle" ELSE @]
    BY <1>6 DEF ClientReceives
  <2> DEFINE new == [conn[c] EXCEPT !.unsent = rest,
                                    !.phase = IF @ = "writing" THEN "idle" ELSE @]
  <2>2. /\ new \in ConnRecords /\ new.reply = conn[c].reply
        /\ new.phase = conn[c].phase \/ new.phase = "idle"
        /\ new.id = conn[c].id /\ new.search = conn[c].search /\ new.client = conn[c].client
    BY <1>1 DEF ConnRecords, Phases
  <2>3. SameLife /\ UNCHANGED <<files, awaited>> /\ conn[c].client
    BY <1>6 DEF ClientReceives, SameLife, lifeVars, DaemonInv, ConnInv
  <2>4. conn' = [conn EXCEPT ![c] = new]
    BY <1>1, <2>1
  <2> HIDE DEF new
  <2>5. /\ new.phase \in {"none", "lingering"} => awaited' = awaited \ {c}
        /\ new.reply = "stopped" => response_ready
        /\ new.unsent => new.client
    BY <1>2, <1>3, <2>2, <2>3
  <2>6. new.phase = "working" =>
          conn[c].phase = "working" /\ new.id = conn[c].id /\ new.search = conn[c].search
    BY <2>2
  <2>7. awaited' = awaited
    BY <2>3
  <2>8. QED
    BY <2>2, <2>3, <2>4, <2>5, <2>6, <2>7, QuietConn
<1>7. CASE StopReplies(c) \/ \E search \in BOOLEAN : Reject(c, search)
  <2>1. /\ SameLife /\ UNCHANGED <<files, awaited>>
        /\ Sends(c, "other") \/ (Sends(c, "stopped") /\ response_ready)
    BY <1>7 DEF StopReplies, Reject, SameLife, lifeVars
  <2>2. QED
    BY <2>1, SentQuietly
<1>8. CASE \/ ConnectionEnds(c) \/ HalfCloses(c) \/ WriterClosed(c)
           \/ \E search \in BOOLEAN : IdsExhausted(c, search)
  <2>1. SameLife /\ files' = files /\ (Leaves(c) \/ Ends(c))
    BY <1>8 DEF ConnectionEnds, HalfCloses, WriterClosed, IdsExhausted, SameLife
  <2>2. QED
    BY <2>1, LeftQuietly
<1>9. CASE CancelUnwinds(c)
  <2>1. SameLife /\ files' = files
    BY <1>9 DEF CancelUnwinds, SameLife
  <2>2. CASE conn[c].phase = "closing" /\ conn[c].unsent
    <3> DEFINE new == [conn[c] EXCEPT !.phase = "lingering", !.cancelled = FALSE]
    <3>1. /\ new \in ConnRecords /\ new.phase = "lingering" /\ new.reply = conn[c].reply
          /\ new.unsent = conn[c].unsent /\ new.client = conn[c].client
      BY <1>1 DEF ConnRecords, Phases
    <3>2. conn' = [conn EXCEPT ![c] = new] /\ awaited' = awaited \ {c}
      BY <1>1, <1>9, <2>2 DEF CancelUnwinds
    <3>3. conn[c].unsent => conn[c].client
      BY DEF DaemonInv, ConnInv
    <3> HIDE DEF new
    <3>4. QED
      BY <1>3, <2>1, <3>1, <3>2, <3>3, QuietConn
  <2>3. CASE ~(conn[c].phase = "closing" /\ conn[c].unsent)
    <3>1. Leaves(c)
      BY <1>9, <2>3 DEF CancelUnwinds
    <3>2. QED
      BY <2>1, <3>1, LeftQuietly
  <2>4. QED
    BY <2>2, <2>3
<1>10. QED
  BY <1>4, <1>5, <1>6, <1>7, <1>8, <1>9 DEF TaskSteps

\* A business request gets an id that nobody has and starts its workflow.
LEMMA AdmitKeeps ==
  ASSUME DaemonInv, NEW c \in Conns, NEW search \in BOOLEAN, NEW id \in Ids, Admit(c, search, id)
  PROVE  DaemonInv'
<1> DEFINE new == [conn[c] EXCEPT !.phase = "working", !.search = search, !.id = id, !.reply = "other"]
<1>1. conn \in [Conns -> ConnRecords] /\ conn[c] \in ConnRecords
  BY DEF DaemonInv, TypeOK, ConnRecords
<1>2. /\ new \in ConnRecords /\ new.phase = "working" /\ new.search = search /\ new.id = id
      /\ new.reply = "other" /\ new.unsent = conn[c].unsent /\ new.client = conn[c].client
  BY <1>1 DEF ConnRecords, Phases
<1>3. /\ conn' = [conn EXCEPT ![c] = new] /\ SameLife /\ files' = files /\ awaited' = awaited
      /\ id \in Candidates(search) /\ ~shutting_down /\ conn[c].phase = "idle"
  BY DEF Admit, Reads, SameLife, lifeVars
<1> HIDE DEF new
<1>4. /\ conn' \in [Conns -> ConnRecords] /\ conn'[c] = new
      /\ \A d \in Conns \ {c} : conn'[d] = conn[d]
  BY <1>1, <1>2, <1>3
<1>5. Active' = Active \cup {c} /\ c \notin Active
  BY <1>2, <1>3, <1>4 DEF Active
<1>6. coordinator = "none" /\ runtime = "open"
  BY <1>3 DEF DaemonInv, LifeInv
<1>7. TypeOK'
  <2>1. awaited' \subseteq Tasks'
    BY <1>2, <1>3, <1>4 DEF DaemonInv, TypeOK, Tasks
  <2>2. QED
    BY <1>3, <1>4, <2>1 DEF DaemonInv, TypeOK, ConnRecords, SameLife
<1>8. LifeInv'
  BY <1>3 DEF DaemonInv, LifeInv, SameLife
<1>9. IdsExclusive'
  <2>1. /\ \A d \in Active : conn[d].id # id
        /\ search => id \notin files
    BY <1>3 DEF Candidates, Reserved
  <2>2. ASSUME NEW d \in Active'
        PROVE  /\ \A e \in Active' \ {d} : conn'[d].id # conn'[e].id
               /\ conn'[d].search => conn'[d].id \notin files'
    <3>1. CASE d = c
      BY <1>2, <1>3, <1>4, <1>5, <2>1, <3>1 DEF Active
    <3>2. CASE d # c
      BY <1>2, <1>3, <1>4, <1>5, <2>1, <3>2 DEF Active, DaemonInv, ConnInv, IdsExclusive
    <3>3. QED
      BY <3>1, <3>2
  <2>3. QED
    BY <2>2 DEF IdsExclusive
<1>10. ConnInv'
  <2>1. \A d \in Active' : conn'[d].id \in Ids
    BY <1>2, <1>4, <1>5 DEF Active, DaemonInv, ConnInv
  <2>2. /\ \A d \in Conns : conn'[d].reply = "stopped" => response_ready'
        /\ \A d \in Conns : conn'[d].unsent => conn'[d].client
    BY <1>2, <1>3, <1>4 DEF DaemonInv, ConnInv, SameLife
  <2>3. coordinator' = "none" /\ runtime' = "open"
    BY <1>3, <1>6 DEF SameLife
  <2>4. QED
    BY <1>9, <2>1, <2>2, <2>3 DEF ConnInv
<1>11. QED
  BY <1>7, <1>8, <1>10 DEF DaemonInv

\* A workflow returns or raises; if it has written a file, that has a name nobody
\* else holds.
LEMMA WorkflowDoneKeeps ==
  ASSUME DaemonInv, NEW c \in Conns, NEW wrote \in BOOLEAN, WorkflowDone(c, wrote)
  PROVE  DaemonInv'
<1>1. conn \in [Conns -> ConnRecords]
  BY DEF DaemonInv, TypeOK, ConnRecords
<1>2. PICK new \in ConnRecords :
        /\ conn' = [conn EXCEPT ![c] = new]
        /\ new.phase \in {"idle", "writing"} /\ new.reply = "other"
        /\ new.unsent => new.client
  BY Sent DEF WorkflowDone
<1>3. /\ conn' = [conn EXCEPT ![c] = new] /\ SameLife /\ awaited' = awaited
      /\ files' = files \/ files' = files \cup {conn[c].id}
      /\ c \in Active
  BY <1>2 DEF WorkflowDone, FilesAfter, SameLife, lifeVars, Active
<1>4. /\ conn' \in [Conns -> ConnRecords] /\ conn'[c] = new
      /\ \A d \in Conns \ {c} : conn'[d] = conn[d]
  BY <1>1, <1>2, <1>3
<1>5. Active' = Active \ {c}
  BY <1>2, <1>3, <1>4 DEF Active
<1>6. TypeOK'
  <2>1. awaited' \subseteq Tasks'
    BY <1>2, <1>3, <1>4 DEF DaemonInv, TypeOK, Tasks
  <2>2. files' \subseteq Ids
    BY <1>3 DEF DaemonInv, TypeOK, ConnInv
  <2>3. QED
    BY <1>3, <1>4, <2>1, <2>2 DEF DaemonInv, TypeOK, ConnRecords, SameLife
<1>7. LifeInv'
  BY <1>3 DEF DaemonInv, LifeInv, SameLife
<1>8. IdsExclusive'
  BY <1>3, <1>4, <1>5 DEF Active, DaemonInv, ConnInv, IdsExclusive
<1>9. ConnInv'
  <2>1. \A d \in Active' : conn'[d].id \in Ids
    BY <1>4, <1>5 DEF Active, DaemonInv, ConnInv
  <2>2. /\ \A d \in Conns : conn'[d].reply = "stopped" => response_ready'
        /\ \A d \in Conns : conn'[d].unsent => conn'[d].client
    BY <1>2, <1>3, <1>4 DEF DaemonInv, ConnInv, SameLife
  <2>3. coordinator' \in {"waiting", "gathering", "unwinding"} => Active' \subseteq awaited'
    BY <1>3, <1>5 DEF DaemonInv, ConnInv, SameLife
  <2>4. coordinator' = "closing" \/ runtime' # "open" => Active' = {}
    BY <1>3, <1>5 DEF DaemonInv, ConnInv, SameLife
  <2>5. QED
    BY <1>8, <2>1, <2>2, <2>3, <2>4 DEF ConnInv
<1>10. QED
  BY <1>6, <1>7, <1>9 DEF DaemonInv

\* The connections are what they were, but for cancellations.
SameConns ==
  /\ conn' \in [Conns -> ConnRecords]
  /\ \A c \in Conns :
       /\ conn'[c].phase = conn[c].phase /\ conn'[c].client = conn[c].client
       /\ conn'[c].unsent = conn[c].unsent /\ conn'[c].search = conn[c].search
       /\ conn'[c].id = conn[c].id /\ conn'[c].reply = conn[c].reply

\* Cancelling tasks changes nothing else, and is not taken back.
LEMMA OnlyCancelled ==
  ASSUME DaemonInv, NEW tasks, CancelAll(tasks) \/ UNCHANGED conn
  PROVE  /\ SameConns
         /\ \A c \in Conns : conn[c].cancelled => conn'[c].cancelled
         /\ CancelAll(tasks) => \A c \in Conns \cap tasks : conn'[c].cancelled
         /\ \A c \in Conns \ tasks : conn'[c] = conn[c]
<1>1. conn \in [Conns -> ConnRecords]
  BY DEF DaemonInv, TypeOK, ConnRecords
<1>2. CASE UNCHANGED conn
  <2>1. SameConns
    BY <1>1, <1>2 DEF SameConns
  <2>2. CancelAll(tasks) => \A c \in Conns \cap tasks : conn'[c].cancelled
    BY <1>1 DEF CancelAll, ConnRecords
  <2>3. QED
    BY <1>2, <2>1, <2>2
<1>3. CASE CancelAll(tasks)
  <2>1. ASSUME NEW c \in Conns
        PROVE  /\ conn'[c] \in ConnRecords
               /\ conn'[c].phase = conn[c].phase /\ conn'[c].client = conn[c].client
               /\ conn'[c].unsent = conn[c].unsent /\ conn'[c].search = conn[c].search
               /\ conn'[c].id = conn[c].id /\ conn'[c].reply = conn[c].reply
               /\ conn[c].cancelled \/ c \in tasks => conn'[c].cancelled
               /\ c \notin tasks => conn'[c] = conn[c]
    BY <1>1, <1>3 DEF CancelAll, ConnRecords
  <2>2. conn' \in [Conns -> ConnRecords]
    BY <1>3, <2>1 DEF CancelAll
  <2>3. QED
    BY <2>1, <2>2 DEF SameConns
<1>4. QED
  BY <1>2, <1>3

\* A step that lets the connections, but for cancellations, and the files be keeps
\* what is said of them, if it does so for the coordinator.
LEMMA LifeStep ==
  ASSUME DaemonInv, SameConns, files' = files,
         awaited' \subseteq Tasks,
         shutting_down' \in BOOLEAN,
         coordinator' \in {"none", "created", "waiting", "gathering", "closing",
                           "draining", "unwinding", "done", "aborted"},
         runtime' \in {"open", "closing", "closed"}, listening' \in BOOLEAN,
         response_ready' \in BOOLEAN, response_ready => response_ready',
         main' \in {"serving", "terminating", "exiting", "exited"}, signals' \in 0 .. MaxSignals,
         LifeInv',
         coordinator' \in {"waiting", "gathering", "unwinding"} => Active \subseteq awaited',
         coordinator' = "closing" \/ runtime' # "open" => Active = {}
  PROVE  DaemonInv'
<1>1. Active' = Active /\ Tasks' = Tasks
  BY DEF Active, Tasks, SameConns
<1>2. TypeOK'
  BY <1>1 DEF DaemonInv, TypeOK, SameConns, ConnRecords
<1>3. ConnInv'
  <2>1. \A c \in Active : conn'[c].id = conn[c].id /\ conn'[c].search = conn[c].search
    BY DEF SameConns, Active
  <2>2. IdsExclusive'
    BY <1>1, <2>1 DEF DaemonInv, ConnInv, IdsExclusive
  <2>3. \A c \in Active' : conn'[c].id \in Ids
    BY <1>1, <2>1 DEF DaemonInv, ConnInv
  <2>4. /\ \A c \in Conns : conn'[c].reply = "stopped" => response_ready'
        /\ \A c \in Conns : conn'[c].unsent => conn'[c].client
    BY DEF DaemonInv, ConnInv, SameConns
  <2>5. QED
    BY <1>1, <2>2, <2>3, <2>4 DEF ConnInv
<1>4. QED
  BY <1>2, <1>3 DEF DaemonInv

\* The types of the variables of the coordinator and the main task.
LEMMA LifeTypes ==
  ASSUME DaemonInv
  PROVE  /\ shutting_down \in BOOLEAN /\ listening \in BOOLEAN /\ response_ready \in BOOLEAN
         /\ coordinator \in {"none", "created", "waiting", "gathering", "closing",
                             "draining", "unwinding", "done", "aborted"}
         /\ runtime \in {"open", "closing", "closed"}
         /\ main \in {"serving", "terminating", "exiting", "exited"}
         /\ signals \in 0 .. MaxSignals /\ signals \in Nat /\ MaxSignals \in Nat
         /\ awaited \subseteq Tasks /\ Active \subseteq Tasks
         /\ UNCHANGED conn => SameConns
<1>1. UNCHANGED conn => SameConns
  BY DEF DaemonInv, TypeOK, ConnRecords, SameConns
<1>2. QED
  BY <1>1, DaemonAssumption DEF DaemonInv, TypeOK, Active, Tasks

\* The coordinator takes the workflows there are, waits for them and closes the
\* runtime, then the server.
LEMMA CoordinatorKeeps ==
  ASSUME DaemonInv, CoordinatorSteps
  PROVE  DaemonInv'
<1>1. CASE Snapshot
  <2>1. /\ UNCHANGED <<conn, files, shutting_down, listening, response_ready, main, signals>>
        /\ awaited' = Active /\ coordinator = "created"
        /\ \/ Active = {} /\ coordinator' = "closing" /\ runtime' = "closing"
           \/ coordinator' = "waiting" /\ runtime' = runtime
    BY <1>1 DEF Snapshot, StartCleanup
  <2>2. LifeInv'
    BY <2>1, LifeTypes DEF DaemonInv, LifeInv
  <2>3. runtime = "open"
    BY <2>1 DEF DaemonInv, LifeInv
  <2>4. QED
    BY <2>1, <2>2, <2>3, LifeTypes, LifeStep
<1>2. CASE AwaitedDone
  <2>1. /\ UNCHANGED <<conn, files, shutting_down, awaited, listening, response_ready, main, signals>>
        /\ coordinator \in {"waiting", "gathering"} /\ awaited = {}
        /\ coordinator' = "closing" /\ runtime' = "closing"
    BY <1>2 DEF AwaitedDone, StartCleanup
  <2>2. LifeInv'
    BY <2>1, LifeTypes DEF DaemonInv, LifeInv
  <2>3. Active = {}
    BY <2>1 DEF DaemonInv, ConnInv
  <2>4. QED
    BY <2>1, <2>2, <2>3, LifeTypes, LifeStep
<1>3. CASE CleanupDone
  <2>1. /\ UNCHANGED <<conn, files, shutting_down, awaited, main, signals>>
        /\ coordinator = "closing" /\ coordinator' \in {"done", "draining"}
        /\ runtime' = "closed" /\ listening' = FALSE /\ response_ready' = TRUE
    BY <1>3 DEF CleanupDone
  <2>2. LifeInv'
    BY <2>1, LifeTypes DEF DaemonInv, LifeInv
  <2>3. Active = {}
    BY <2>1 DEF DaemonInv, ConnInv
  <2>4. QED
    BY <2>1, <2>2, <2>3, LifeTypes, LifeStep
<1>4. CASE Drained
  <2>1. /\ UNCHANGED <<conn, files, shutting_down, lifeVars>>
        /\ coordinator = "draining" /\ coordinator' = "done"
    BY <1>4 DEF Drained
  <2>2. LifeInv'
    BY <2>1, LifeTypes DEF DaemonInv, LifeInv, lifeVars
  <2>3. runtime # "open" => Active = {}
    BY DEF DaemonInv, ConnInv
  <2>4. QED
    BY <2>1, <2>2, <2>3, LifeTypes, LifeStep DEF lifeVars
<1>5. CASE Unwound
  <2>1. /\ UNCHANGED <<conn, files, shutting_down, awaited, runtime, listening, main, signals>>
        /\ coordinator = "unwinding" /\ coordinator' = "done" /\ response_ready' = TRUE
    BY <1>5 DEF Unwound
  <2>2. signals >= 2
    BY <2>1 DEF DaemonInv, LifeInv
  <2>3. LifeInv'
    BY <2>1, <2>2, LifeTypes DEF DaemonInv, LifeInv
  <2>4. runtime # "open" => Active = {}
    BY DEF DaemonInv, ConnInv
  <2>5. QED
    BY <2>1, <2>3, <2>4, LifeTypes, LifeStep
<1>6. QED
  BY <1>1, <1>2, <1>3, <1>4, <1>5 DEF CoordinatorSteps

\* SIGTERM begins the shutdown, and a second one cuts the coordinator short.
LEMMA SigtermKeeps ==
  ASSUME DaemonInv, Sigterm \/ SigtermAgain
  PROVE  DaemonInv'
<1>1. CASE Sigterm
  <2>1. /\ UNCHANGED <<conn, files, awaited, runtime, listening, response_ready>>
        /\ main' = "terminating" /\ signals < MaxSignals /\ signals' = signals + 1
        /\ shutting_down' = TRUE
        /\ coordinator' = IF coordinator = "none" THEN "created" ELSE coordinator
    BY <1>1 DEF Sigterm, BeginShutdown
  <2>2. LifeInv' /\ signals' \in 0 .. MaxSignals
    BY <2>1, LifeTypes DEF DaemonInv, LifeInv
  <2>3. /\ coordinator \in {"waiting", "gathering", "unwinding"} => Active \subseteq awaited
        /\ coordinator = "closing" \/ runtime # "open" => Active = {}
    BY DEF DaemonInv, ConnInv
  <2>4. QED
    BY <2>1, <2>2, <2>3, LifeTypes, LifeStep
<1>2. CASE SigtermAgain
  <2>1. /\ UNCHANGED <<files, shutting_down, awaited, runtime, listening, main>>
        /\ CancelAll(awaited) \/ UNCHANGED conn
        /\ main = "terminating" /\ signals < MaxSignals /\ signals' = signals + 1
        /\ coordinator \notin {"none", "done", "aborted"}
        /\ coordinator' \in {"aborted", "unwinding", "done"}
        /\ coordinator' = "unwinding" => coordinator \in {"gathering", "unwinding"}
        /\ response_ready' = (response_ready \/ coordinator' = "done")
    BY <1>2 DEF SigtermAgain
  <2>2. signals' >= 2 /\ signals' \in 0 .. MaxSignals
    BY <2>1, LifeTypes DEF DaemonInv, LifeInv
  <2>3. LifeInv'
    BY <2>1, <2>2, LifeTypes DEF DaemonInv, LifeInv
  <2>4. /\ coordinator \in {"waiting", "gathering", "unwinding"} => Active \subseteq awaited
        /\ coordinator = "closing" \/ runtime # "open" => Active = {}
    BY DEF DaemonInv, ConnInv
  <2>5. response_ready' \in BOOLEAN /\ (response_ready => response_ready')
    BY <2>1
  <2>6. SameConns
    BY <2>1, OnlyCancelled
  <2>7. QED
    BY <2>1, <2>2, <2>3, <2>4, <2>5, <2>6, LifeTypes, LifeStep
<1>3. QED
  BY <1>1, <1>2

\* A stop request begins the shutdown, and waits for its end or is answered.
LEMMA StopKeeps ==
  ASSUME DaemonInv, NEW c \in Conns, Stop(c)
  PROVE  DaemonInv'
<1>1. conn \in [Conns -> ConnRecords] /\ conn[c] \in ConnRecords
  BY DEF DaemonInv, TypeOK, ConnRecords
<1>2. /\ UNCHANGED <<files, lifeVars>>
      /\ conn[c].phase = "idle" /\ shutting_down' = TRUE
      /\ coordinator' = IF coordinator = "none" THEN "created" ELSE coordinator
  BY DEF Stop, Reads, BeginShutdown
<1>3. PICK new \in ConnRecords :
        /\ conn' = [conn EXCEPT ![c] = new]
        /\ new.phase \in {"idle", "writing", "stopping"}
        /\ new.reply = "stopped" => response_ready
        /\ new.unsent => new.client
  <2>1. CASE response_ready
    BY <2>1, Sent DEF Stop
  <2>2. CASE ~response_ready
    <3> DEFINE new == [conn[c] EXCEPT !.phase = "stopping", !.reply = "other"]
    <3>1. /\ new \in ConnRecords /\ new.phase = "stopping" /\ new.reply = "other"
          /\ new.unsent = conn[c].unsent /\ new.client = conn[c].client
      BY <1>1 DEF ConnRecords, Phases
    <3>2. conn' = [conn EXCEPT ![c] = new]
      BY <1>1, <2>2 DEF Stop
    <3>3. conn[c].unsent => conn[c].client
      BY DEF DaemonInv, ConnInv
    <3> HIDE DEF new
    <3>4. QED
      BY <3>1, <3>2, <3>3
  <2>3. QED
    BY <2>1, <2>2
<1>4. /\ conn' \in [Conns -> ConnRecords] /\ conn'[c] = new
      /\ \A d \in Conns \ {c} : conn'[d] = conn[d]
  BY <1>1, <1>3
<1>5. Active' = Active /\ \A d \in Active : conn'[d] = conn[d]
  BY <1>2, <1>3, <1>4 DEF Active
<1>6. TypeOK'
  <2>1. awaited' \subseteq Tasks'
    BY <1>2, <1>3, <1>4 DEF DaemonInv, TypeOK, lifeVars, Tasks
  <2>2. QED
    BY <1>2, <1>4, <2>1 DEF DaemonInv, TypeOK, ConnRecords, lifeVars
<1>7. LifeInv'
  BY <1>2, LifeTypes DEF DaemonInv, LifeInv, lifeVars
<1>8. IdsExclusive'
  BY <1>2, <1>5 DEF DaemonInv, ConnInv, IdsExclusive
<1>9. ConnInv'
  <2>1. \A d \in Active' : conn'[d].id \in Ids
    BY <1>5 DEF DaemonInv, ConnInv
  <2>2. /\ \A d \in Conns : conn'[d].reply = "stopped" => response_ready'
        /\ \A d \in Conns : conn'[d].unsent => conn'[d].client
    BY <1>2, <1>3, <1>4 DEF DaemonInv, ConnInv, lifeVars
  <2>3. /\ coordinator' \in {"waiting", "gathering", "unwinding"} => Active' \subseteq awaited'
        /\ coordinator' = "closing" \/ runtime' # "open" => Active' = {}
    BY <1>2, <1>5 DEF DaemonInv, ConnInv, lifeVars
  <2>4. QED
    BY <1>8, <2>1, <2>2, <2>3 DEF ConnInv
<1>10. QED
  BY <1>6, <1>7, <1>9 DEF DaemonInv

\* The grace period is over: the tasks that are awaited still are cancelled.
LEMMA GraceKeeps ==
  ASSUME DaemonInv, GraceEnds
  PROVE  DaemonInv'
<1>1. /\ UNCHANGED <<files, shutting_down, lifeVars>> /\ coordinator = "waiting"
      /\ coordinator' = "gathering" /\ CancelAll(awaited)
  BY DEF GraceEnds
<1>2. SameConns
  BY <1>1, OnlyCancelled
<1>3. LifeInv'
  BY <1>1, LifeTypes DEF DaemonInv, LifeInv, lifeVars
<1>4. Active \subseteq awaited /\ (runtime # "open" => Active = {})
  BY <1>1 DEF DaemonInv, ConnInv
<1>5. QED
  BY <1>1, <1>2, <1>3, <1>4, LifeTypes, LifeStep DEF lifeVars

\* start() returns and what is left is cancelled.
LEMMA ExitKeeps ==
  ASSUME DaemonInv, MainExits
  PROVE  DaemonInv'
<1>1. /\ UNCHANGED <<files, shutting_down, coordinator, runtime, listening, response_ready, signals>>
      /\ main' = "exiting" /\ awaited' = Tasks /\ CancelAll(awaited')
      /\ coordinator \in {"done", "aborted"}
  BY DEF MainExits
<1>2. SameConns
  BY <1>1, OnlyCancelled
<1>3. LifeInv'
  BY <1>1, LifeTypes DEF DaemonInv, LifeInv
<1>4. runtime # "open" => Active = {}
  BY DEF DaemonInv, ConnInv
<1>5. QED
  BY <1>1, <1>2, <1>3, <1>4, LifeTypes, LifeStep

\* The process ends, and with it every connection.
LEMMA EndKeeps ==
  ASSUME DaemonInv, ProcessEnds \/ SigtermKills
  PROVE  DaemonInv'
<1>1. /\ UNCHANGED <<files, shutting_down, coordinator, runtime, listening, response_ready>>
      /\ main' = "exited" /\ awaited' = {} /\ conn' = [c \in Conns |-> NoConn]
      /\ signals' = signals \/ (signals < MaxSignals /\ signals' = signals + 1)
  BY DEF ProcessEnds, SigtermKills, LoopCloses
<1>2. signals' \in 0 .. MaxSignals /\ (signals' < 2 => signals < 2) /\ (signals >= 1 => signals' >= 1)
      /\ (signals >= 2 => signals' >= 2)
  BY <1>1, LifeTypes
<1>3. Active' = {}
  BY <1>1, NoConnIs DEF Active
<1>4. TypeOK'
  <2>1. conn' \in [Conns -> ConnRecords] /\ awaited' \subseteq Tasks'
    BY <1>1, NoConnIs
  <2>2. QED
    BY <1>1, <1>2, <2>1 DEF DaemonInv, TypeOK, ConnRecords
<1>5. LifeInv'
  BY <1>1, <1>2, LifeTypes DEF DaemonInv, LifeInv
<1>6. ConnInv'
  BY <1>1, <1>3, NoConnIs DEF ConnInv, IdsExclusive
<1>7. QED
  BY <1>4, <1>5, <1>6 DEF DaemonInv

\* Every step of the daemon keeps the inductive invariant.
LEMMA DaemonStep == DaemonInv /\ [Next]_vars => DaemonInv'
<1> SUFFICES ASSUME DaemonInv, [Next]_vars PROVE DaemonInv'
  OBVIOUS
<1>1. CASE UNCHANGED vars
  BY <1>1 DEF vars, DaemonInv, TypeOK, LifeInv, ConnInv, IdsExclusive, Active, Tasks
<1>2. CASE Next
  BY <1>2, QuietSteps, StopKeeps, AdmitKeeps, WorkflowDoneKeeps, CoordinatorKeeps, GraceKeeps,
     SigtermKeeps, ExitKeeps, EndKeeps DEF Next
<1>3. QED
  BY <1>1, <1>2

-----------------------------------------------------------------------------
(* What the daemon promises. *)

\* The inductive invariant, and with it the types, hold in every behaviour.
THEOREM DaemonInvariant == Spec => [](TypeOK /\ DaemonInv)
<1>1. DaemonInv => TypeOK
  BY DEF DaemonInv
<1>2. QED
  BY DaemonInitial, DaemonStep, <1>1, PTL DEF Spec

\* "Daemon stopped." is true when it is read, and no workflow runs on a runtime
\* that is being closed.
THEOREM StopIsClean == Spec => []StoppedIsClean
<1>1. DaemonInv => StoppedIsClean
  BY DEF DaemonInv, LifeInv, ConnInv, StoppedIsClean
<1>2. QED
  BY DaemonInvariant, <1>1, PTL

\* Two requests in progress never share an id, and a search in progress never has
\* the name of an existing file.
THEOREM IdsStayExclusive == Spec => []IdsExclusive
<1>1. DaemonInv => IdsExclusive
  BY DEF DaemonInv, ConnInv
<1>2. QED
  BY DaemonInvariant, <1>1, PTL

-----------------------------------------------------------------------------
(* The shutdown always has a next step, and never goes back. *)

\* A connection task that is told to end, or only waits for its writer to close.
Ending(c) == conn[c].cancelled \/ conn[c].phase = "closing"

\* What the shutdown waits for is under way: the tasks that the coordinator
\* gathers, or asyncio.run in the end, are ending, start() knows that the
\* coordinator was cut short, and the stop requests are let go before the
\* connections are waited for.
PushInv ==
  /\ coordinator \in {"gathering", "unwinding"} \/ main = "exiting" =>
       \A c \in awaited : Ending(c)
  /\ coordinator = "aborted" => main # "serving"
  /\ coordinator = "draining" => response_ready
  /\ main \in {"exiting", "exited"} => coordinator \in {"done", "aborted"}

\* How far a shutdown is with start() at m and the coordinator at k.
StageOf(m, k) ==
  IF m = "exited" THEN 9
  ELSE IF m = "exiting" THEN 8
  ELSE CASE k \in {"done", "aborted"}  -> 7
         [] k = "draining"             -> 6
         [] k = "closing"              -> 5
         [] k = "unwinding"            -> 4
         [] k = "gathering"            -> 3
         [] k = "waiting"              -> 2
         [] k = "created"              -> 1
         [] OTHER                      -> 0

Stage == StageOf(main, coordinator)

\* What a step may do to the shutdown: it goes on, or stays where it is with no
\* more tasks to wait for than before; a task that is ending does nothing else
\* until it is gone; and the stop requests, once let go, are not held again.
GoesForward ==
  /\ Stage' >= Stage
  /\ Stage' = Stage => awaited' \subseteq awaited
  /\ \A c \in awaited \cap awaited' : Ending(c) => Ending(c)'
  /\ response_ready => response_ready'

\* The stages one by one.
LEMMA StagesAre ==
  ASSUME NEW m, NEW k
  PROVE  /\ StageOf(m, k) \in 0 .. 9
         /\ m = "exited" => StageOf(m, k) = 9
         /\ m = "exiting" => StageOf(m, k) = 8
         /\ m \notin {"exiting", "exited"} =>
              /\ k \in {"done", "aborted"} => StageOf(m, k) = 7
              /\ k = "draining" => StageOf(m, k) = 6
              /\ k = "closing" => StageOf(m, k) = 5
              /\ k = "unwinding" => StageOf(m, k) = 4
              /\ k = "gathering" => StageOf(m, k) = 3
              /\ k = "waiting" => StageOf(m, k) = 2
              /\ k = "created" => StageOf(m, k) = 1
              /\ k = "none" => StageOf(m, k) = 0
              /\ StageOf(m, k) <= 7
BY DEF StageOf

LEMMA StageTypes == Stage \in Nat /\ Stage' \in Nat
BY StagesAre DEF Stage

\* A step of one connection that leaves the life of the daemon alone.
LEMMA ConnGoesForward ==
  ASSUME DaemonInv, UNCHANGED <<coordinator, main, response_ready>>, awaited' \subseteq awaited,
         NEW c \in Conns, NEW new, conn' = [conn EXCEPT ![c] = new],
         c \in awaited' /\ Ending(c) => new.cancelled \/ new.phase = "closing"
  PROVE  GoesForward
<1>1. conn \in [Conns -> ConnRecords]
  BY DEF DaemonInv, TypeOK, ConnRecords
<1>2. Stage' = Stage
  BY DEF Stage
<1>3. \A d \in Conns \ {c} : conn'[d] = conn[d]
  BY <1>1
<1>4. awaited \subseteq Conns /\ conn'[c] = new
  BY <1>1 DEF DaemonInv, TypeOK, Tasks
<1>5. ASSUME NEW d \in awaited \cap awaited', Ending(d) PROVE Ending(d)'
  <2>1. CASE d = c
    BY <1>4, <1>5, <2>1, Zenon DEF Ending
  <2>2. CASE d # c
    BY <1>3, <1>4, <1>5, <2>2, Zenon DEF Ending
  <2>3. QED
    BY <2>1, <2>2
<1>6. QED
  BY <1>2, <1>5, StageTypes DEF GoesForward

\* A connection task that was not ending may do anything.
LEMMA FreeGoesForward ==
  ASSUME DaemonInv, UNCHANGED <<coordinator, main, response_ready>>, awaited' \subseteq awaited,
         NEW c \in Conns, NEW new, conn' = [conn EXCEPT ![c] = new], ~Ending(c)
  PROVE  GoesForward
BY ConnGoesForward

\* A task that leaves the loop is gone from what is waited for, or closes its writer.
LEMMA LeavesGoForward ==
  ASSUME DaemonInv, UNCHANGED <<coordinator, main, response_ready>>,
         NEW c \in Conns, Leaves(c) \/ Ends(c)
  PROVE  GoesForward
<1>1. CASE Leaves(c)
  <2>1. PICK new \in ConnRecords :
          /\ conn' = [conn EXCEPT ![c] = new]
          /\ \/ new.phase = "none" /\ awaited' = awaited \ {c}
             \/ new.phase = "closing" /\ awaited' = awaited
          /\ new.reply = "other" /\ (new.unsent => new.client)
    BY <1>1, Left
  <2>2. QED
    BY <2>1, ConnGoesForward
<1>2. CASE Ends(c)
  BY <1>2, ConnGoesForward DEF Ends
<1>3. QED
  BY <1>1, <1>2

\* A client comes, reads or goes.
LEMMA ClientsGoForward ==
  ASSUME DaemonInv, NEW c \in Conns, Connect(c) \/ ClientLeaves(c) \/ ClientReceives(c)
  PROVE  GoesForward
<1>1. conn \in [Conns -> ConnRecords] /\ conn[c] \in ConnRecords
  BY DEF DaemonInv, TypeOK, ConnRecords
<1>2. c \in awaited => conn[c].phase # "none"
  BY DEF DaemonInv, TypeOK, Tasks
<1>3. UNCHANGED <<coordinator, main, response_ready, awaited>>
  BY DEF Connect, ClientLeaves, ClientReceives, lifeVars
<1>4. CASE Connect(c)
  <2>1. conn' = [conn EXCEPT ![c] = [NoConn EXCEPT !.phase = "idle", !.client = TRUE]]
        /\ c \notin awaited
    BY <1>2, <1>4 DEF Connect
  <2>2. QED
    BY <1>3, <2>1, ConnGoesForward
<1>5. CASE ClientLeaves(c)
  <2> DEFINE new == [conn[c] EXCEPT !.client = FALSE, !.unsent = FALSE]
  <2>1. new.phase = conn[c].phase /\ new.cancelled = conn[c].cancelled
    BY <1>1 DEF ConnRecords
  <2>2. conn' = [conn EXCEPT ![c] = new]
    BY <1>1, <1>5 DEF ClientLeaves
  <2> HIDE DEF new
  <2>3. Ending(c) => new.cancelled \/ new.phase = "closing"
    BY <2>1 DEF Ending
  <2>4. QED
    BY <1>3, <2>2, <2>3, ConnGoesForward
<1>6. CASE ClientReceives(c)
  <2>1. PICK rest \in BOOLEAN :
          conn' = [conn EXCEPT ![c].unsent = rest,
                               ![c].phase = IF @ = "writing" THEN "idle" ELSE @]
    BY <1>6 DEF ClientReceives
  <2> DEFINE new == [conn[c] EXCEPT !.unsent = rest,
                                    !.phase = IF @ = "writing" THEN "idle" ELSE @]
  <2>2. /\ new.cancelled = conn[c].cancelled
        /\ new.phase = IF conn[c].phase = "writing" THEN "idle" ELSE conn[c].phase
    BY <1>1 DEF ConnRecords
  <2>3. conn' = [conn EXCEPT ![c] = new]
    BY <1>1, <2>1
  <2> HIDE DEF new
  <2>4. Ending(c) => new.cancelled \/ new.phase = "closing"
    BY <2>2 DEF Ending
  <2>5. QED
    BY <1>3, <2>3, <2>4, ConnGoesForward
<1>7. QED
  BY <1>4, <1>5, <1>6

\* A connection that is not ending is answered or starts a workflow.
LEMMA RepliesGoForward ==
  ASSUME DaemonInv, NEW c \in Conns,
         \/ StopReplies(c)
         \/ \E search \in BOOLEAN :
              \/ Reject(c, search) \/ WorkflowDone(c, search)
              \/ \E id \in Ids : Admit(c, search, id)
  PROVE  GoesForward
<1>1. conn \in [Conns -> ConnRecords]
  BY DEF DaemonInv, TypeOK, ConnRecords
<1>2. UNCHANGED <<coordinator, main, response_ready, awaited>> /\ ~Ending(c)
  <2>1. CASE StopReplies(c)
    BY <2>1 DEF StopReplies, lifeVars, Ending
  <2>2. ASSUME NEW search \in BOOLEAN,
               \/ Reject(c, search) \/ WorkflowDone(c, search)
               \/ \E id \in Ids : Admit(c, search, id)
        PROVE  UNCHANGED <<coordinator, main, response_ready, awaited>> /\ ~Ending(c)
    BY <2>2 DEF Reject, WorkflowDone, Admit, Reads, lifeVars, Ending
  <2>3. QED
    BY <2>1, <2>2
<1>3. conn' = [conn EXCEPT ![c] = conn'[c]]
  <2>1. CASE \E other \in {"other", "stopped"} : Sends(c, other)
    BY <1>1, <2>1 DEF Sends
  <2>2. CASE \E search \in BOOLEAN, id \in Ids : Admit(c, search, id)
    BY <1>1, <2>2 DEF Admit
  <2>3. QED
    BY <2>1, <2>2 DEF StopReplies, Reject, WorkflowDone
<1>4. QED
  BY <1>2, <1>3, FreeGoesForward

\* A stop request begins the shutdown, if it is the first.
LEMMA StopGoesForward ==
  ASSUME DaemonInv, NEW c \in Conns, Stop(c)
  PROVE  GoesForward
<1>1. conn \in [Conns -> ConnRecords] /\ awaited \subseteq Conns
  BY DEF DaemonInv, TypeOK, ConnRecords, Tasks
<1>2. /\ UNCHANGED <<main, response_ready, awaited>> /\ ~Ending(c)
      /\ coordinator' = IF coordinator = "none" THEN "created" ELSE coordinator
  BY DEF Stop, Reads, BeginShutdown, lifeVars, Ending
<1>3. conn' = [conn EXCEPT ![c] = conn'[c]]
  BY <1>1 DEF Stop, Sends
<1>4. Stage' >= Stage
  BY <1>2, StagesAre DEF Stage
<1>5. ASSUME NEW d \in awaited, Ending(d) PROVE Ending(d)'
  <2>1. d # c /\ conn'[d] = conn[d]
    BY <1>1, <1>2, <1>3, <1>5
  <2>2. QED
    BY <1>5, <2>1 DEF Ending
<1>6. QED
  BY <1>2, <1>4, <1>5 DEF GoesForward

\* Cancelling tasks takes nothing back.
LEMMA CancelGoesForward ==
  ASSUME DaemonInv, NEW tasks, CancelAll(tasks) \/ UNCHANGED conn,
         Stage' >= Stage, Stage' = Stage => awaited' \subseteq awaited,
         response_ready => response_ready'
  PROVE  GoesForward
<1>1. /\ \A c \in Conns : conn'[c].phase = conn[c].phase
      /\ \A c \in Conns : conn[c].cancelled => conn'[c].cancelled
  BY OnlyCancelled DEF SameConns
<1>2. awaited \subseteq Conns
  BY DEF DaemonInv, TypeOK, Tasks
<1>3. \A c \in awaited \cap awaited' : Ending(c) => Ending(c)'
  BY <1>1, <1>2, Zenon DEF Ending
<1>4. QED
  BY <1>3 DEF GoesForward

\* A second SIGTERM sends the coordinator to its end, not back.
LEMMA SigtermGoesForward ==
  ASSUME DaemonInv, Sigterm \/ SigtermAgain
  PROVE  GoesForward
<1>1. /\ awaited' = awaited /\ main \in {"serving", "terminating"} /\ main' = "terminating"
      /\ CancelAll(awaited) \/ UNCHANGED conn
      /\ response_ready => response_ready'
  <2>1. CASE Sigterm
    BY <2>1 DEF Sigterm
  <2>2. CASE SigtermAgain
    <3>1. response_ready => response_ready'
      BY <2>2, Zenon DEF SigtermAgain
    <3>2. QED
      BY <2>2, <3>1 DEF SigtermAgain
  <2>3. QED
    BY <2>1, <2>2
<1>2. \/ coordinator' = coordinator
      \/ coordinator = "none" /\ coordinator' = "created"
      \/ coordinator \in {"gathering", "unwinding"} /\ coordinator' = "unwinding"
      \/ coordinator' \in {"done", "aborted"}
  <2>1. CASE Sigterm
    BY <2>1 DEF Sigterm, BeginShutdown
  <2>2. CASE SigtermAgain
    BY <2>2 DEF SigtermAgain
  <2>3. QED
    BY <2>1, <2>2
<1>3. Stage' >= Stage
  <2>1. CASE coordinator' = coordinator
    <3>1. Stage' = Stage
      BY <1>1, <2>1 DEF Stage, StageOf
    <3>2. QED
      BY <3>1, StageTypes
  <2>2. CASE coordinator' # coordinator
    BY <1>1, <1>2, <2>2, StagesAre DEF Stage
  <2>3. QED
    BY <2>1, <2>2
<1>4. QED
  BY <1>1, <1>3, CancelGoesForward

\* Every step of the daemon lets the shutdown go on.
LEMMA ForwardStep ==
  ASSUME DaemonInv, PushInv, [Next]_vars
  PROVE  GoesForward
<1>1. ASSUME NEW c \in Conns,
             \/ ConnectionEnds(c) \/ HalfCloses(c) \/ WriterClosed(c)
             \/ \E search \in BOOLEAN : IdsExhausted(c, search)
      PROVE  GoesForward
  <2>1. UNCHANGED <<coordinator, main, response_ready>> /\ (Leaves(c) \/ Ends(c))
    BY <1>1 DEF ConnectionEnds, HalfCloses, WriterClosed, IdsExhausted
  <2>2. QED
    BY <2>1, LeavesGoForward
<1>2. ASSUME NEW c \in Conns, CancelUnwinds(c) PROVE GoesForward
  <2>1. UNCHANGED <<coordinator, main, response_ready>>
    BY <1>2 DEF CancelUnwinds
  <2>2. CASE conn[c].phase = "closing" /\ conn[c].unsent
    <3>1. /\ conn' = [conn EXCEPT ![c] = [@ EXCEPT !.phase = "lingering", !.cancelled = FALSE]]
          /\ awaited' = awaited \ {c}
      BY <1>2, <2>2 DEF CancelUnwinds
    <3>2. QED
      BY <2>1, <3>1, ConnGoesForward
  <2>3. CASE ~(conn[c].phase = "closing" /\ conn[c].unsent)
    <3>1. Leaves(c)
      BY <1>2, <2>3 DEF CancelUnwinds
    <3>2. QED
      BY <2>1, <3>1, LeavesGoForward
  <2>4. QED
    BY <2>2, <2>3
<1>3. CASE CoordinatorSteps
  <2>1. UNCHANGED <<conn, main>> /\ (response_ready => response_ready')
    BY <1>3 DEF CoordinatorSteps, Snapshot, AwaitedDone, CleanupDone, Drained, Unwound, StartCleanup,
                lifeVars
  <2>2. \/ coordinator = "created" /\ coordinator' \in {"waiting", "closing"}
        \/ coordinator \in {"waiting", "gathering"} /\ coordinator' = "closing"
        \/ coordinator = "closing" /\ coordinator' \in {"draining", "done"}
        \/ coordinator \in {"draining", "unwinding"} /\ coordinator' = "done"
    BY <1>3 DEF CoordinatorSteps, Snapshot, AwaitedDone, CleanupDone, Drained, Unwound, StartCleanup
  <2>3. Stage' > Stage
    <3>1. main \notin {"exiting", "exited"} /\ main' = main
      BY <2>1, <2>2 DEF PushInv
    <3>2. QED
      BY <2>2, <3>1, StagesAre DEF Stage
  <2>4. QED
    BY <2>1, <2>3, StageTypes, CancelGoesForward
<1>4. CASE GraceEnds
  <2>1. /\ UNCHANGED <<main, response_ready, awaited>> /\ CancelAll(awaited)
        /\ coordinator = "waiting" /\ coordinator' = "gathering"
    BY <1>4 DEF GraceEnds, lifeVars
  <2>2. Stage' >= Stage
    BY <2>1, StagesAre DEF Stage
  <2>3. QED
    BY <2>1, <2>2, CancelGoesForward
<1>5. CASE MainExits
  <2>1. /\ main' = "exiting" /\ main \in {"serving", "terminating"}
        /\ response_ready' = response_ready /\ CancelAll(awaited')
    BY <1>5 DEF MainExits
  <2>2. Stage' = 8 /\ Stage <= 7
    BY <2>1, StagesAre DEF Stage
  <2>3. QED
    BY <2>1, <2>2, StageTypes, CancelGoesForward
<1>6. CASE ProcessEnds \/ SigtermKills
  <2>1. /\ main = "exiting" /\ main' = "exited" /\ awaited' = {}
        /\ response_ready' = response_ready
    BY <1>6 DEF ProcessEnds, SigtermKills, LoopCloses
  <2>2. Stage' = 9 /\ Stage = 8
    BY <2>1, StagesAre DEF Stage
  <2>3. QED
    BY <2>1, <2>2 DEF GoesForward
<1>7. CASE UNCHANGED vars
  BY <1>7, StageTypes DEF vars, GoesForward, Stage, Ending
<1>8. QED
  BY <1>1, <1>2, <1>3, <1>4, <1>5, <1>6, <1>7, ClientsGoForward, RepliesGoForward, StopGoesForward,
     SigtermGoesForward DEF Next, TaskSteps

\* The daemon starts with no shutdown.
LEMMA PushInitial == Init => PushInv
BY DEF Init, PushInv

\* The steps of connection tasks, and of clients but for the requests that stop.
LEMMA ConnectionsLeaveLife ==
  ASSUME NEW c \in Conns,
         \/ Connect(c) \/ ClientLeaves(c) \/ ClientReceives(c) \/ HalfCloses(c) \/ TaskSteps(c)
         \/ \E search \in BOOLEAN :
              \/ IdsExhausted(c, search) \/ Reject(c, search) \/ WorkflowDone(c, search)
              \/ \E id \in Ids : Admit(c, search, id)
  PROVE  UNCHANGED <<coordinator, main, signals>> /\ awaited' \subseteq awaited
<1>1. CASE Connect(c) \/ ClientLeaves(c) \/ ClientReceives(c)
  BY <1>1 DEF Connect, ClientLeaves, ClientReceives, lifeVars
<1>2. CASE HalfCloses(c) \/ TaskSteps(c)
  BY <1>2 DEF HalfCloses, TaskSteps, StopReplies, ConnectionEnds, WriterClosed, CancelUnwinds, Leaves,
              Ends, lifeVars
<1>3. ASSUME NEW search \in BOOLEAN,
             \/ IdsExhausted(c, search) \/ Reject(c, search) \/ WorkflowDone(c, search)
             \/ \E id \in Ids : Admit(c, search, id)
      PROVE  UNCHANGED <<coordinator, main, signals>> /\ awaited' \subseteq awaited
  BY <1>3 DEF IdsExhausted, Reject, WorkflowDone, Admit, Leaves, Ends, lifeVars
<1>4. QED
  BY <1>1, <1>2, <1>3

\* Every step keeps what the shutdown waits for under way.
LEMMA PushStep == DaemonInv /\ PushInv /\ [Next]_vars => PushInv'
<1> SUFFICES ASSUME DaemonInv, PushInv, [Next]_vars PROVE PushInv'
  OBVIOUS
<1>1. /\ \A c \in awaited \cap awaited' : Ending(c) => Ending(c)'
      /\ response_ready => response_ready'
  BY ForwardStep DEF GoesForward
<1>2. CASE GraceEnds \/ MainExits
  <2>1. /\ CancelAll(awaited') /\ awaited' \subseteq Conns /\ coordinator' # "draining"
        /\ coordinator' = "aborted" => main' # "serving"
        /\ main' \in {"exiting", "exited"} => coordinator' \in {"done", "aborted"}
    <3>1. CASE GraceEnds
      BY <3>1 DEF GraceEnds, lifeVars, PushInv, DaemonInv, TypeOK, Tasks
    <3>2. CASE MainExits
      BY <3>2 DEF MainExits, Tasks
    <3>3. QED
      BY <1>2, <3>1, <3>2
  <2>2. \A c \in awaited' : Ending(c)'
    <3>1. \A c \in Conns \cap awaited' : conn'[c].cancelled
      BY <2>1, OnlyCancelled
    <3>2. QED
      BY <2>1, <3>1 DEF Ending
  <2>3. QED
    BY <2>1, <2>2 DEF PushInv
<1>3. ASSUME awaited' \subseteq awaited, main' = main \/ main' \in {"serving", "terminating"},
             main' = "serving" => main = "serving",
             coordinator' = "gathering" => coordinator = "gathering",
             coordinator' = "unwinding" => coordinator \in {"gathering", "unwinding"},
             coordinator' = "aborted" => coordinator = "aborted" \/ main' # "serving",
             coordinator' = "draining" => coordinator = "draining" \/ response_ready',
             main \in {"exiting", "exited"} => coordinator' = coordinator
      PROVE  PushInv'
  <2>1. coordinator' \in {"gathering", "unwinding"} \/ main' = "exiting" =>
          \A c \in awaited' : Ending(c)'
    BY <1>1, <1>3, Zenon DEF PushInv
  <2>2. /\ coordinator' = "aborted" => main' # "serving"
        /\ coordinator' = "draining" => response_ready'
        /\ main' \in {"exiting", "exited"} => coordinator' \in {"done", "aborted"}
    BY <1>1, <1>3 DEF PushInv
  <2>3. QED
    BY <2>1, <2>2 DEF PushInv
<1>4. CASE (\E c \in Conns : Stop(c)) \/ Sigterm
  <2>1. /\ awaited' = awaited /\ (main' = main \/ main' = "terminating")
        /\ main \notin {"exiting", "exited"} \/ main' = main
        /\ coordinator' = IF coordinator = "none" THEN "created" ELSE coordinator
    <3>1. CASE \E c \in Conns : Stop(c)
      <4>1. PICK c \in Conns : Stop(c)
        BY <3>1
      <4>2. QED
        BY <4>1 DEF Stop, BeginShutdown, lifeVars
    <3>2. CASE Sigterm
      BY <3>2 DEF Sigterm, BeginShutdown
    <3>3. QED
      BY <1>4, <3>1, <3>2
  <2>2. main \in {"exiting", "exited"} => coordinator' = coordinator
    BY <2>1 DEF PushInv
  <2>3. QED
    BY <1>3, <2>1, <2>2
<1>5. CASE CoordinatorSteps
  <2>1. /\ main' = main /\ main \notin {"exiting", "exited"}
        /\ \/ coordinator' \in {"waiting", "closing", "done"}
           \/ coordinator' = "draining" /\ response_ready'
    BY <1>5 DEF CoordinatorSteps, Snapshot, AwaitedDone, CleanupDone, Drained, Unwound, StartCleanup,
                lifeVars, PushInv
  <2>2. QED
    BY <2>1 DEF PushInv
<1>6. CASE SigtermAgain
  <2>1. /\ awaited' = awaited /\ main' = main /\ main = "terminating"
        /\ coordinator' \in {"aborted", "unwinding", "done"}
        /\ coordinator' = "unwinding" => coordinator \in {"gathering", "unwinding"}
    BY <1>6 DEF SigtermAgain
  <2>2. QED
    BY <1>3, <2>1
<1>7. CASE ProcessEnds \/ SigtermKills
  BY <1>7 DEF ProcessEnds, SigtermKills, LoopCloses, PushInv
<1>8. CASE UNCHANGED vars
  BY <1>3, <1>8 DEF vars
<1>9. ASSUME UNCHANGED <<coordinator, main, signals>>, awaited' \subseteq awaited PROVE PushInv'
  BY <1>3, <1>9
<1>10. QED
  BY <1>2, <1>4, <1>5, <1>6, <1>7, <1>8, <1>9, ConnectionsLeaveLife DEF Next

\* A workflow that nothing has cancelled goes on until it returns, the grace period
\* is over, or a second SIGTERM has come.
LEMMA CutOffStep ==
  ASSUME DaemonInv, PushInv, [Next]_vars, NEW c \in Active, ~conn[c].cancelled,
         conn'[c].cancelled \/ conn'[c].phase \notin {"working", "idle", "writing"}
  PROVE  (coordinator = "waiting" /\ coordinator' = "gathering") \/ signals >= 2
<1>1. conn \in [Conns -> ConnRecords] /\ c \in Conns /\ conn[c].phase = "working"
  BY DEF DaemonInv, TypeOK, ConnRecords, Active
<1>2. /\ signals \in Nat /\ runtime = "open"
      /\ coordinator \in {"done", "aborted"} => signals >= 2
      /\ main \in {"exiting", "exited"} => signals >= 2
      /\ coordinator # "gathering"
  <2>1. signals \in Nat /\ runtime = "open"
    BY LifeTypes DEF DaemonInv, ConnInv
  <2>2. coordinator \in {"done", "aborted"} => signals >= 2
    BY <2>1 DEF DaemonInv, LifeInv
  <2>3. coordinator # "gathering"
    BY <1>1 DEF DaemonInv, ConnInv, PushInv, Ending
  <2>4. QED
    BY <2>1, <2>2, <2>3 DEF PushInv
<1>3. conn'[c] # conn[c]
  BY <1>1
<1>4. ASSUME NEW d \in Conns, NEW new, conn' = [conn EXCEPT ![d] = new],
             d = c => ~new.cancelled /\ new.phase \in {"working", "idle", "writing"}
      PROVE  FALSE
  <2>1. CASE d = c
    BY <1>1, <1>4, <2>1
  <2>2. CASE d # c
    BY <1>1, <1>3, <1>4, <2>2
  <2>3. QED
    BY <2>1, <2>2
<1>5. ASSUME NEW d \in Conns, Leaves(d) \/ Ends(d), conn[d].phase # "working" \/ conn[d].cancelled
      PROVE  FALSE
  <2>1. d # c
    BY <1>1, <1>5
  <2>2. \E new : conn' = [conn EXCEPT ![d] = new]
    BY <1>5 DEF Leaves, Ends
  <2>3. QED
    BY <1>4, <2>1, <2>2
<1>6. ASSUME NEW d \in Conns, \E text \in {"other", "stopped"} : Sends(d, text) PROVE FALSE
  <2>1. PICK new : /\ conn' = [conn EXCEPT ![d] = new]
                   /\ ~new.cancelled /\ new.phase \in {"idle", "writing"}
    BY <1>6 DEF Sends, AfterReply
  <2>2. QED
    BY <1>4, <2>1
<1>7. ASSUME NEW d \in Conns,
             \/ ConnectionEnds(d) \/ HalfCloses(d) \/ WriterClosed(d) \/ CancelUnwinds(d)
             \/ \E search \in BOOLEAN : IdsExhausted(d, search)
      PROVE  FALSE
  <2>1. CASE CancelUnwinds(d) /\ conn[d].phase = "closing"
    <3>1. d # c /\ \E new : conn' = [conn EXCEPT ![d] = new]
      BY <1>1, <2>1 DEF CancelUnwinds, Leaves, Ends
    <3>2. QED
      BY <1>4, <3>1
  <2>2. CASE ~(CancelUnwinds(d) /\ conn[d].phase = "closing")
    <3>1. (Leaves(d) \/ Ends(d)) /\ (conn[d].phase # "working" \/ conn[d].cancelled)
      BY <1>7, <2>2 DEF ConnectionEnds, HalfCloses, WriterClosed, CancelUnwinds, IdsExhausted, Reads
    <3>2. QED
      BY <1>5, <3>1
  <2>3. QED
    BY <2>1, <2>2
<1>8. ASSUME NEW d \in Conns, Connect(d) \/ ClientLeaves(d) \/ ClientReceives(d) PROVE FALSE
  <2>1. conn' = [conn EXCEPT ![d] = conn'[d]]
    BY <1>1, <1>8 DEF Connect, ClientLeaves, ClientReceives
  <2>2. ASSUME d = c PROVE ~conn'[d].cancelled /\ conn'[d].phase \in {"working", "idle", "writing"}
    <3>1. ~Connect(d)
      BY <1>1, <2>2 DEF Connect
    <3>2. CASE ClientLeaves(d)
      BY <1>1, <2>2, <3>2 DEF ClientLeaves, ConnRecords
    <3>3. CASE ClientReceives(d)
      BY <1>1, <2>2, <3>3 DEF ClientReceives, ConnRecords
    <3>4. QED
      BY <1>8, <3>1, <3>2, <3>3
  <2>3. QED
    BY <1>4, <2>1, <2>2
<1>9. ASSUME NEW d \in Conns,
             Stop(d) \/ \E search \in BOOLEAN, id \in Ids : Admit(d, search, id)
      PROVE  FALSE
  <2>1. CASE \E text \in {"other", "stopped"} : Sends(d, text)
    BY <1>6, <2>1
  <2>2. CASE ~\E text \in {"other", "stopped"} : Sends(d, text)
    <3>1. d # c
      BY <1>1, <1>9 DEF Stop, Admit, Reads
    <3>2. \E new : conn' = [conn EXCEPT ![d] = new]
      BY <1>9, <2>2 DEF Stop, Admit
    <3>3. QED
      BY <1>4, <3>1, <3>2
  <2>3. QED
    BY <2>1, <2>2
<1>10. ASSUME NEW d \in Conns,
              \/ StopReplies(d)
              \/ \E search \in BOOLEAN : Reject(d, search) \/ WorkflowDone(d, search)
       PROVE  FALSE
  BY <1>6, <1>10 DEF StopReplies, Reject, WorkflowDone
<1>11. CASE GraceEnds
  BY <1>11 DEF GraceEnds
<1>12. CASE SigtermAgain
  <2>1. conn' # conn
    BY <1>3
  <2>2. coordinator = "unwinding"
    BY <1>2, <1>12, <2>1 DEF SigtermAgain
  <2>3. QED
    BY <2>2 DEF DaemonInv, LifeInv
<1>13. CASE MainExits \/ ProcessEnds \/ SigtermKills
  BY <1>2, <1>13 DEF MainExits, ProcessEnds, SigtermKills, LoopCloses
<1>14. CASE CoordinatorSteps \/ Sigterm \/ UNCHANGED vars
  BY <1>3, <1>14 DEF CoordinatorSteps, Snapshot, AwaitedDone, CleanupDone, Drained, Unwound, Sigterm,
                     vars
<1>15. QED
  BY <1>7, <1>8, <1>9, <1>10, <1>11, <1>12, <1>13, <1>14 DEF Next, TaskSteps

\* A workflow in progress is cut off, by a cancellation or with its process, only
\* at the end of the grace period or after a second SIGTERM.
THEOREM GraceIsKept == Spec => WorkflowsGetGrace
<1>1. DaemonInv /\ PushInv /\ [Next]_vars =>
        [\A c \in Active :
           /\ ~conn[c].cancelled
           /\ conn'[c].cancelled \/ conn'[c].phase \notin {"working", "idle", "writing"}
           => (coordinator = "waiting" /\ coordinator' = "gathering") \/ signals >= 2]_vars
  BY CutOffStep
<1>2. QED
  BY DaemonInitial, DaemonStep, PushInitial, PushStep, <1>1, PTL DEF Spec, WorkflowsGetGrace

\* The guards of the coordinator's steps, of the grace timer, of start()'s end and
\* that of the process, and of the steps of a connection task that wait for no
\* client and no workflow.
CoordinatorReady ==
  \/ coordinator \in {"created", "waiting", "closing"}
  \/ coordinator \in {"gathering", "unwinding"} /\ awaited = {}
  \/ coordinator = "draining" /\ ServerClosed

MainReady ==
  \/ /\ \/ main = "serving" /\ coordinator = "done"
        \/ main = "terminating" /\ coordinator \in {"done", "aborted"}
     /\ \A c \in Conns : ~(conn[c].phase = "stopping" /\ response_ready /\ ~conn[c].cancelled)
  \/ main = "exiting" /\ awaited = {}

TaskReady(c) ==
  \/ conn[c].cancelled
  \/ conn[c].phase = "stopping" /\ response_ready
  \/ conn[c].phase \in {"idle", "writing"} /\ ~conn[c].client
  \/ conn[c].phase \in {"closing", "lingering"} /\ ~conn[c].unsent

\* A client that leaves its reply unread keeps the closing connection waiting, and
\* with it the coordinator's gather or the end of asyncio.run; and where
\* Server.wait_closed waits for the connections, so does any client that stays,
\* with a quiet connection or an unread reply.
UnreadReplyHolds(c) ==
  /\ coordinator \in {"gathering", "unwinding"} \/ main = "exiting"
  /\ c \in awaited /\ conn[c].phase = "closing" /\ conn[c].unsent /\ conn[c].client

OpenConnectionHolds(c) ==
  /\ WaitsForConnections /\ coordinator = "draining"
  /\ conn[c].client
  /\ \/ conn[c].phase \in {"idle", "writing"}
     \/ conn[c].phase \in {"closing", "lingering"} /\ conn[c].unsent

\* A shutdown that has begun and not ended has a step to take that waits for no
\* workflow and no client, or is held by one of these clients.
ShutdownHasAStep ==
  shutting_down /\ main # "exited" =>
    \/ CoordinatorReady \/ MainReady \/ \E c \in Conns : TaskReady(c)
    \/ \E c \in Conns : UnreadReplyHolds(c) \/ OpenConnectionHolds(c)

\* ... and no step takes the shutdown back.
ShutdownGoesForward == [][GoesForward]_vars

\* The shutdown is never stuck but for clients that neither read nor leave, or keep
\* a connection open: the part of ShutdownEnds that is about states.
THEOREM ShutdownIsNeverStuck == Spec => []ShutdownHasAStep
<1>1. ASSUME DaemonInv, PushInv, shutting_down, main # "exited",
             ~\E c \in Conns : TaskReady(c)
      PROVE  \/ CoordinatorReady \/ MainReady
             \/ \E c \in Conns : UnreadReplyHolds(c) \/ OpenConnectionHolds(c)
  <2>1. /\ coordinator \in {"created", "waiting", "gathering", "closing", "draining", "unwinding",
                            "done", "aborted"}
        /\ main \in {"serving", "terminating", "exiting"}
        /\ awaited \subseteq Conns /\ conn \in [Conns -> ConnRecords]
    BY <1>1 DEF DaemonInv, TypeOK, LifeInv, ConnRecords, Tasks
  <2>2. \A c \in Conns : conn[c].unsent => conn[c].client
    BY <1>1 DEF DaemonInv, ConnInv
  <2>3. CASE coordinator \in {"created", "waiting", "closing"}
    BY <2>3 DEF CoordinatorReady
  <2>4. ASSUME coordinator \in {"gathering", "unwinding"} \/ main = "exiting", awaited # {}
        PROVE  \E c \in Conns : UnreadReplyHolds(c)
    <3>1. PICK c \in awaited : Ending(c)
      BY <1>1, <2>4 DEF PushInv
    <3>2. c \in Conns /\ conn[c].phase = "closing" /\ conn[c].unsent
      BY <1>1, <2>1, <3>1 DEF TaskReady, Ending
    <3>3. QED
      BY <2>2, <2>4, <3>2 DEF UnreadReplyHolds
  <2>5. CASE coordinator \in {"gathering", "unwinding"}
    BY <2>4, <2>5 DEF CoordinatorReady
  <2>6. CASE coordinator = "draining"
    <3>1. CASE ServerClosed
      BY <2>6, <3>1 DEF CoordinatorReady
    <3>2. CASE ~ServerClosed
      <4>1. PICK c \in Conns : conn[c].phase # "none"
        BY <3>2 DEF ServerClosed
      <4>2. WaitsForConnections
        BY <3>2 DEF ServerClosed
      <4>3. response_ready /\ conn[c].phase # "working"
        BY <1>1, <2>6 DEF PushInv, DaemonInv, LifeInv, ConnInv, Active
      <4>4. conn[c].phase \in {"idle", "writing", "stopping", "closing", "lingering"}
        BY <2>1, <4>1, <4>3 DEF ConnRecords, Phases
      <4>5. ~TaskReady(c)
        BY <1>1
      <4>6. conn[c].phase # "stopping"
        BY <4>3, <4>5 DEF TaskReady
      <4>7. OpenConnectionHolds(c)
        <5>1. CASE conn[c].phase \in {"idle", "writing"}
          <6>1. conn[c].client
            BY <4>5, <5>1, Zenon DEF TaskReady
          <6>2. QED
            BY <2>6, <4>2, <5>1, <6>1, Zenon DEF OpenConnectionHolds
        <5>2. CASE conn[c].phase \in {"closing", "lingering"}
          <6>1. conn[c].unsent /\ conn[c].client
            BY <2>2, <4>5, <5>2, Zenon DEF TaskReady
          <6>2. QED
            BY <2>6, <4>2, <5>2, <6>1, Zenon DEF OpenConnectionHolds
        <5>3. QED
          BY <4>4, <4>6, <5>1, <5>2
      <4>8. QED
        BY <4>7
    <3>3. QED
      BY <3>1, <3>2
  <2>7. CASE coordinator \in {"done", "aborted"}
    <3>1. CASE main = "exiting"
      BY <2>4, <3>1 DEF MainReady
    <3>2. CASE main # "exiting"
      <4>1. coordinator = "aborted" => main # "serving"
        BY <1>1, Zenon DEF PushInv
      <4>2. \A c \in Conns : ~(conn[c].phase = "stopping" /\ response_ready)
        BY <1>1, Zenon DEF TaskReady
      <4>3. \/ main = "serving" /\ coordinator = "done"
            \/ main = "terminating" /\ coordinator \in {"done", "aborted"}
        BY <2>1, <2>7, <3>2, <4>1
      <4>4. QED
        BY <4>2, <4>3, Zenon DEF MainReady
    <3>3. QED
      BY <3>1, <3>2
  <2>8. QED
    BY <2>1, <2>3, <2>5, <2>6, <2>7
<1>2. DaemonInv /\ PushInv => ShutdownHasAStep
  BY <1>1 DEF ShutdownHasAStep
<1>3. QED
  BY DaemonInitial, DaemonStep, PushInitial, PushStep, <1>2, PTL DEF Spec

\* A step of the daemon never takes the shutdown back, gives the coordinator more
\* to wait for, lets a task that is ending do anything else, or holds the stop
\* requests again.
THEOREM ShutdownOnlyGoesForward == Spec => ShutdownGoesForward
<1>1. DaemonInv /\ PushInv /\ [Next]_vars => [GoesForward]_vars
  BY ForwardStep
<1>2. QED
  BY DaemonInitial, DaemonStep, PushInitial, PushStep, <1>1, PTL DEF Spec, ShutdownGoesForward

-----------------------------------------------------------------------------
(* The exchange: its requests. *)

\* The keys of a request.
Keys(t) == Required(t) \cup Optional(t)

\* What a command line can ask for: every key of its type, and nothing blank.
IsRequest(r) ==
  /\ r["type"] \in Types
  /\ r = [key \in Keys(r["type"]) |-> r[key]]
  /\ \A key \in Keys(r["type"]) :
       CASE key = "type"                                     -> TRUE
         [] key \in {"query", "prompt", "url"}               -> r[key] = "a"
         [] key = "scope"                                    -> r[key] \in Scopes
         [] key \in {"provider", "model", "focus"}           -> r[key] \in {Null, "a"}

-----------------------------------------------------------------------------
\* The keys of each request type.
LEMMA KeysOfTypes ==
  ASSUME NEW t \in Types
  PROVE  /\ "type" \in Required(t)
         /\ Keys(t) \subseteq {"type", "query", "prompt", "url", "scope", "provider", "model", "focus"}
         /\ Required(t) \subseteq {"type", "query", "prompt", "url", "focus"}
         /\ Optional(t) \subseteq {"provider", "model", "scope"}
         /\ t = "shutdown" => Keys(t) = {"type"}
<1>1. CASE t \in {"keyword_search", "paper_search"}
  BY <1>1 DEF Keys, Required, Optional
<1>2. CASE t \in {"llm_search", "agent_search"}
  BY <1>2 DEF Keys, Required, Optional
<1>3. CASE t = "url_fetch"
  BY <1>3 DEF Keys, Required, Optional
<1>4. CASE t = "shutdown"
  BY <1>4 DEF Keys, Required, Optional
<1>5. QED
  BY <1>1, <1>2, <1>3, <1>4 DEF Types

\* What is left of a typed word without its white space.
LEMMA Stripped == \A word \in Typed : strip(word) \in {"a", "empty"}
BY DEF Typed, strip

\* The fields of the request that a command line makes.
LEMMA CommandFields ==
  ASSUME NEW a \in Commands
  PROVE  /\ a.type \in Types /\ a.text \in Typed /\ a.scope \in Scopes
         /\ a.provider \in Typed \cup {Null} /\ a.model \in Typed \cup {Null}
         /\ a.focus \in Typed \cup {Null}
BY DEF Commands

\* What request_from_args makes of a command line.
LEMMA CommandsAsk ==
  ASSUME NEW a \in Commands, request_from_args(a) # None
  PROVE  IsRequest(request_from_args(a))
<1> DEFINE t == a.type
           Ask(key) == CASE key = "type"                        -> a.type
                         [] key \in {"query", "prompt", "url"}  -> strip(a.text)
                         [] key = "scope"                       -> a.scope
                         [] key = "provider"                    -> normalize_selector(a.provider)
                         [] key = "model"                       -> normalize_selector(a.model)
                         [] key = "focus" -> IF a.focus = Null \/ strip(a.focus) = "empty"
                                             THEN Null ELSE strip(a.focus)
           asked == [key \in Keys(t) |-> Ask(key)]
<1>1. /\ request_from_args(a) = asked
      /\ t = "shutdown" \/ strip(a.text) # "empty"
      /\ \A key \in Keys(t) : asked[key] # None
  BY DEF request_from_args, Keys
<1>2. t \in Types /\ a.scope \in Scopes /\ a.text \in Typed
  BY CommandFields
<1>3. /\ "type" \in Keys(t)
      /\ Keys(t) \subseteq {"type", "query", "prompt", "url", "scope", "provider", "model", "focus"}
  BY <1>2, KeysOfTypes DEF Keys
<1>4. asked["type"] = t
  BY <1>3
<1>5. \A key \in Keys(t) \cap {"query", "prompt", "url"} : asked[key] = "a"
  <2>1. t = "shutdown" => Keys(t) = {"type"}
    BY <1>2, KeysOfTypes
  <2>2. strip(a.text) \in {"a", "empty"}
    BY <1>2, Stripped
  <2>3. \A key \in Keys(t) \cap {"query", "prompt", "url"} : asked[key] = strip(a.text)
    OBVIOUS
  <2>4. QED
    BY <1>1, <2>1, <2>2, <2>3
<1>6. "scope" \in Keys(t) => asked["scope"] \in Scopes
  BY <1>2
<1>7. ASSUME NEW word \in Typed \cup {Null}, normalize_selector(word) # None
      PROVE  normalize_selector(word) \in {Null, "a"}
  BY <1>7, Stripped DEF normalize_selector
<1>8. \A key \in Keys(t) \cap {"provider", "model"} : asked[key] \in {Null, "a"}
  <2>1. "provider" \in Keys(t) => asked["provider"] = normalize_selector(a.provider)
    OBVIOUS
  <2>2. "model" \in Keys(t) => asked["model"] = normalize_selector(a.model)
    OBVIOUS
  <2> HIDE DEF asked
  <2>3. QED
    BY <1>1, <1>7, <2>1, <2>2, CommandFields
<1>9. "focus" \in Keys(t) => asked["focus"] \in {Null, "a"}
  BY CommandFields, Stripped
<1> HIDE DEF Ask
<1>10. asked = [key \in Keys(t) |-> asked[key]]
  OBVIOUS
<1> HIDE DEF asked, t
<1>11. IsRequest(asked)
  BY <1>2, <1>3, <1>4, <1>5, <1>6, <1>8, <1>9, <1>10 DEF IsRequest
<1>12. QED
  BY <1>1, <1>11

\* The daemon decodes what the client has encoded: the keys left out of the frame
\* come back as the defaults that they were.
LEMMA RoundTrip ==
  ASSUME NEW r, IsRequest(r)
  PROVE  /\ Decode(request_payload(r)) = r
         /\ \A key \in DOMAIN r : strip(r[key]) # "empty"
<1> DEFINE t == r["type"]
           D == {key \in Keys(t) : key \in Required(t) \/ r[key] # Default(key)}
           p == request_payload(r)
<1>1. t \in Types /\ DOMAIN r = Keys(t) /\ r = [key \in Keys(t) |-> r[key]]
  BY DEF IsRequest
<1>2. /\ \A key \in Keys(t) \cap {"query", "prompt", "url"} : r[key] = "a"
      /\ "scope" \in Keys(t) => r["scope"] \in Scopes
      /\ \A key \in Keys(t) \cap {"provider", "model", "focus"} : r[key] \in {Null, "a"}
  BY DEF IsRequest
<1>3. /\ "type" \in Required(t) /\ Required(t) \subseteq D /\ D \subseteq Keys(t)
      /\ Keys(t) \subseteq {"type", "query", "prompt", "url", "scope", "provider", "model", "focus"}
      /\ Keys(t) = Required(t) \cup Optional(t)
      /\ Required(t) \subseteq {"type", "query", "prompt", "url", "focus"}
  BY <1>1, KeysOfTypes DEF Keys
<1>4. p = [key \in D |-> r[key]]
  BY <1>1 DEF request_payload, Restrict
<1>5. DOMAIN p = D /\ \A key \in D : p[key] = r[key]
  BY <1>4
<1>6. p["type"] = t /\ "type" \in D
  BY <1>3, <1>5
<1>7. \A key \in D \ {"type"} : Acceptable(key, r[key])
  <2> SUFFICES ASSUME NEW key \in D \ {"type"} PROVE Acceptable(key, r[key])
    OBVIOUS
  <2>1. CASE key \in {"query", "prompt", "url"}
    BY <1>2, <1>3, <2>1 DEF Acceptable, Strings
  <2>2. CASE key = "scope"
    BY <1>2, <1>3, <2>2 DEF Acceptable
  <2>3. CASE key = "focus"
    BY <1>2, <1>3, <2>3 DEF Acceptable, Strings
  <2>4. CASE key \in {"provider", "model"}
    <3>1. r[key] # Null
      BY <1>3, <2>4 DEF Default
    <3>2. r[key] = "a"
      BY <1>2, <1>3, <2>4, <3>1
    <3>3. QED
      BY <2>4, <3>2 DEF Acceptable, Strings
  <2>5. QED
    BY <1>3, <2>1, <2>2, <2>3, <2>4
<1> HIDE DEF p, D, t
<1>8. WellFormed(p)
  BY <1>1, <1>3, <1>5, <1>6, <1>7 DEF WellFormed
<1>9. Decode(p) = [key \in Keys(t) |-> IF key \in D THEN p[key] ELSE Default(key)]
  BY <1>3, <1>5, <1>6, <1>8 DEF Decode
<1>10. \A key \in Keys(t) : (IF key \in D THEN p[key] ELSE Default(key)) = r[key]
  BY <1>5 DEF D
<1>11. Decode(p) = r
  BY <1>1, <1>9, <1>10
<1>12. ASSUME NEW key \in Keys(t) PROVE strip(r[key]) # "empty"
  <2>1. r[key] \in Types \cup Scopes \cup {Null, "a"}
    BY <1>1, <1>2, <1>3 DEF t
  <2>2. QED
    BY <2>1 DEF strip, Types, Scopes, Null
<1>13. QED
  BY <1>1, <1>11, <1>12 DEF p

\* Whoever sent it, the daemon takes a frame as it is.
LEMMA DecodedSays ==
  ASSUME NEW object, Decode(object) # None
  PROVE  /\ DOMAIN object \subseteq DOMAIN Decode(object)
         /\ \A key \in DOMAIN Decode(object) :
              IF key \in DOMAIN object
              THEN Decode(object)[key] = object[key] /\ (object[key] # Null \/ key = "focus")
              ELSE Decode(object)[key] = Default(key)
<1> DEFINE K == Keys(object["type"])
<1>1. WellFormed(object)
  BY DEF Decode
<1>2. Decode(object) = [key \in K |-> IF key \in DOMAIN object THEN object[key] ELSE Default(key)]
  BY <1>1 DEF Decode, Keys
<1>3. /\ DOMAIN object \subseteq K /\ object["type"] \in Types
      /\ \A key \in DOMAIN object \ {"type"} : Acceptable(key, object[key])
  BY <1>1 DEF WellFormed, Keys
<1>4. \A key \in DOMAIN object : object[key] # Null \/ key = "focus"
  BY <1>3 DEF Acceptable, Types, Null, Strings, Scopes
<1> HIDE DEF K
<1>5. QED
  BY <1>2, <1>3, <1>4

-----------------------------------------------------------------------------
(* The exchange. *)

\* What a reply can be.
Replies == SomeReplies \cup {Success("a")} \cup {Error(code) : code \in ErrorCodes}

\* The inductive invariant of one exchange: who has come how far, and what is on
\* the way agrees with it.
ExchangeInv ==
  /\ client \in {"start", "connecting", "waiting", "program", "done"}
  /\ server \in {"idle", "reading", "working", "answered", "closed"}
  /\ request # None => IsRequest(request)
  /\ client \in {"start", "program"} => request = None
  /\ client \in {"connecting", "waiting"} => request # None
  /\ client \in {"start", "connecting"} => server = "idle"
  /\ server = "idle" => frame = None /\ dispatched = None
  /\ server = "reading" => dispatched = None
  /\ server # "idle" /\ request # None => frame = request_payload(request)
  /\ dispatched # None => dispatched = Decode(frame)
  /\ server = "answered" => reply \in Replies
  /\ client # "done" => exit = None
  /\ exit = EXIT_OK =>
       /\ request # None
       /\ \/ request["type"] = "shutdown" /\ server = "idle"
          \/ reply = Success("a") /\ server \in {"answered", "closed"}

\* Nobody has sent anything.
LEMMA ExchangeInitial == ExchangeInit => ExchangeInv
BY ExchangeAssumption DEF ExchangeInit, ExchangeInv, EXIT_OK

\* The only response that says success.
LEMMA SuccessIs ==
  ASSUME NEW object \in Replies, IsResponse(object), object["ok"] = "true"
  PROVE  object = Success("a")
<1>1. DOMAIN object = {"ok", "text"} /\ object["text"] \in Strings
  BY DEF IsResponse
<1>2. CASE object \in SomeReplies
  <2> DEFINE word == {"a", Null, Absent}
  <2>1. PICK f \in [ok : {"true", "false"} \cup word, text : word,
                    error : {"bad_request"} \cup word, message : word] :
          object = Present(f)
    BY <1>2 DEF SomeReplies
  <2>2. object = [key \in DOMAIN object |-> f[key]] /\ object["text"] = f["text"]
    BY <1>1, <2>1 DEF Present, Restrict
  <2>3. f["text"] \in word
    BY <2>1
  <2>4. object["text"] = "a"
    BY <1>1, <2>2, <2>3 DEF Strings, Scopes, Null, Absent
  <2>5. object = [key \in {"ok", "text"} |-> object[key]]
    BY <1>1, <2>1 DEF Present, Restrict
  <2>6. QED
    BY <2>4, <2>5 DEF Success
<1>3. CASE object \in {Error(code) : code \in ErrorCodes}
  BY <1>3 DEF Error
<1>4. QED
  BY <1>2, <1>3 DEF Replies

\* The request arrives, whatever its sender and however far the exchange has come.
LEMMA InvArrives == ExchangeInv => RequestArrivesIntact
<1> SUFFICES ASSUME ExchangeInv, dispatched # None
             PROVE  /\ request # None =>
                         /\ dispatched = request
                         /\ \A key \in DOMAIN request : strip(request[key]) # "empty"
                    /\ DOMAIN frame \subseteq DOMAIN dispatched
                    /\ \A key \in DOMAIN dispatched :
                         IF key \in DOMAIN frame
                         THEN dispatched[key] = frame[key] /\ (frame[key] # Null \/ key = "focus")
                         ELSE dispatched[key] = Default(key)
  BY DEF RequestArrivesIntact
<1>1. dispatched = Decode(frame) /\ server # "idle"
  BY DEF ExchangeInv
<1>2. request # None => IsRequest(request) /\ frame = request_payload(request)
  BY <1>1 DEF ExchangeInv
<1>3. request # None =>
        dispatched = request /\ \A key \in DOMAIN request : strip(request[key]) # "empty"
  BY <1>1, <1>2, RoundTrip
<1>4. QED
  BY <1>1, <1>3, DecodedSays

\* The second property follows from the invariant.
LEMMA InvSucceeds == ExchangeInv => ExitMeansSuccess
<1> SUFFICES ASSUME ExchangeInv, exit = EXIT_OK
             PROVE  \/ request["type"] = "shutdown" /\ frame = None
                    \/ reply = Success("a") /\ (dispatched # None => dispatched = request)
  BY DEF ExitMeansSuccess
<1>1. dispatched # None => dispatched = request
  BY InvArrives DEF RequestArrivesIntact, ExchangeInv
<1>2. QED
  BY <1>1 DEF ExchangeInv

-----------------------------------------------------------------------------
\* The CLI turns its arguments into a request, or ends.
LEMMA RunCommandKeeps ==
  ASSUME ExchangeInv, NEW a \in Commands, RunCommand(a)
  PROVE  ExchangeInv'
<1>1. /\ client = "start" /\ UNCHANGED <<frame, server, dispatched, reply>>
      /\ \/ /\ request' = request_from_args(a) /\ request' # None
            /\ client' = "connecting" /\ exit' = exit
         \/ client' = "done" /\ exit' = EXIT_ERROR /\ request' = request
  BY DEF RunCommand, Exits
<1>2. request' # None => IsRequest(request')
  BY <1>1, CommandsAsk DEF ExchangeInv
<1>3. exit' # EXIT_OK
  BY <1>1, ExchangeAssumption DEF ExchangeInv, EXIT_OK, EXIT_ERROR
<1>4. /\ server = "idle" /\ frame = None /\ dispatched = None /\ exit = None /\ request = None
  BY <1>1 DEF ExchangeInv
<1>5. QED
  BY <1>1, <1>2, <1>3, <1>4 DEF ExchangeInv

\* The client ends with a code that says success only where it may.
LEMMA ExitsKeeps ==
  ASSUME ExchangeInv, client \in {"connecting", "waiting"}, NEW code, Exits(code),
         UNCHANGED <<request, frame, server, dispatched, reply>>,
         code = EXIT_OK => \/ request["type"] = "shutdown" /\ server = "idle"
                           \/ reply = Success("a") /\ server = "answered"
  PROVE  ExchangeInv'
BY DEF ExchangeInv, Exits

\* The client reads the reply and exits.
LEMMA ClientReadsKeeps ==
  ASSUME ExchangeInv, NEW fits, ClientReads(fits)
  PROVE  ExchangeInv'
<1> DEFINE code == IF fits /\ IsResponse(reply) /\ reply["ok"] = "true" THEN EXIT_OK ELSE EXIT_ERROR
<1>1. /\ client = "waiting" /\ server = "answered" /\ Exits(code)
      /\ UNCHANGED <<request, frame, server, dispatched, reply>>
  BY DEF ClientReads
<1>2. code = EXIT_OK => IsResponse(reply) /\ reply["ok"] = "true"
  BY DEF EXIT_OK, EXIT_ERROR
<1> HIDE DEF code
<1>3. code = EXIT_OK => reply = Success("a")
  BY <1>1, <1>2, SuccessIs DEF ExchangeInv
<1>4. QED
  BY <1>1, <1>3, ExitsKeeps

\* The other ways for the client to end.
LEMMA ClientEndsKeeps ==
  ASSUME ExchangeInv, Unavailable \/ ClientGivesUp \/ ConnectionBreaks
  PROVE  ExchangeInv'
<1>1. CASE Unavailable
  <2> DEFINE code == IF request["type"] = "shutdown" THEN EXIT_OK ELSE EXIT_ERROR
  <2>1. /\ client = "connecting" /\ Exits(code)
        /\ UNCHANGED <<request, frame, server, dispatched, reply>>
    BY <1>1 DEF Unavailable
  <2>2. code = EXIT_OK => request["type"] = "shutdown"
    BY DEF EXIT_OK, EXIT_ERROR
  <2> HIDE DEF code
  <2>3. server = "idle"
    BY <2>1 DEF ExchangeInv
  <2>4. QED
    BY <2>1, <2>2, <2>3, ExitsKeeps
<1>2. CASE ClientGivesUp \/ ConnectionBreaks
  <2>1. /\ client \in {"connecting", "waiting"}
        /\ UNCHANGED <<request, frame, server, dispatched, reply>>
        /\ \E code \in {EXIT_ERROR, "raised"} : Exits(code)
    BY <1>2 DEF ClientGivesUp, ConnectionBreaks
  <2>2. \A code \in {EXIT_ERROR, "raised"} : code # EXIT_OK
    BY DEF EXIT_OK, EXIT_ERROR
  <2>3. QED
    BY <2>1, <2>2, ExitsKeeps
<1>3. QED
  BY <1>1, <1>2

\* A frame goes out.
LEMMA SendsKeep ==
  ASSUME ExchangeInv, SendRequest \/ \E object : ProgramSends(object)
  PROVE  ExchangeInv'
<1>1. CASE SendRequest
  <2>1. exit # EXIT_OK /\ exit = None /\ server = "idle"
    BY <1>1, ExchangeAssumption DEF SendRequest, ExchangeInv, EXIT_OK
  <2>2. QED
    BY <1>1, <2>1 DEF SendRequest, ExchangeInv
<1>2. CASE \E object : ProgramSends(object)
  BY <1>2 DEF ProgramSends, ExchangeInv
<1>3. QED
  BY <1>1, <1>2

\* The daemon, or whoever listens, reads, answers and closes.
LEMMA DaemonKeeps ==
  ASSUME ExchangeInv,
         \/ \E fits \in BOOLEAN : DaemonReads(fits)
         \/ \E response \in {Success("a")} \cup {Error(code) : code \in ErrorCodes} :
              DaemonAnswers(response)
         \/ \E object \in SomeReplies : OtherAnswers(object)
         \/ DaemonCloses
  PROVE  ExchangeInv'
<1>1. ASSUME NEW fits, DaemonReads(fits) PROVE ExchangeInv'
  <2>1. /\ server = "reading" /\ UNCHANGED <<client, request, frame, exit>>
        /\ \/ /\ dispatched' = Decode(frame) /\ server' = "working" /\ reply' = reply
           \/ reply' = Error("bad_request") /\ server' = "answered" /\ dispatched' = dispatched
    BY <1>1 DEF DaemonReads
  <2>2. Error("bad_request") \in Replies
    BY DEF Replies, ErrorCodes
  <2>3. exit # EXIT_OK
    <3>1. "reading" \notin {"idle", "answered", "closed"}
      OBVIOUS
    <3>2. QED
      BY <2>1, <3>1 DEF ExchangeInv
  <2>4. QED
    BY <2>1, <2>2, <2>3 DEF ExchangeInv
<1>2. ASSUME NEW response \in {Success("a")} \cup {Error(code) : code \in ErrorCodes},
             DaemonAnswers(response)
      PROVE  ExchangeInv'
  <2>1. response \in Replies
    BY DEF Replies
  <2>2. QED
    BY <1>2, <2>1 DEF DaemonAnswers, ExchangeInv
<1>3. ASSUME NEW object \in SomeReplies, OtherAnswers(object) PROVE ExchangeInv'
  <2>1. object \in Replies
    BY DEF Replies
  <2>2. QED
    BY <1>3, <2>1 DEF OtherAnswers, ExchangeInv
<1>4. CASE DaemonCloses
  BY <1>4 DEF DaemonCloses, ExchangeInv
<1>5. QED
  BY <1>1, <1>2, <1>3, <1>4

\* Every step of an exchange keeps the invariant.
LEMMA ExchangeStep == ExchangeInv /\ [ExchangeNext]_exchangeVars => ExchangeInv'
<1> SUFFICES ASSUME ExchangeInv, [ExchangeNext]_exchangeVars PROVE ExchangeInv'
  OBVIOUS
<1>1. CASE UNCHANGED exchangeVars
  BY <1>1 DEF exchangeVars, ExchangeInv
<1>2. CASE Connecting \/ ClientStep
  BY <1>2, ClientEndsKeeps, SendsKeep, ClientReadsKeeps DEF Connecting, ClientStep
<1>3. CASE ExchangeNext
  BY <1>2, <1>3, RunCommandKeeps, SendsKeep, ClientEndsKeeps, DaemonKeeps DEF ExchangeNext
<1>4. QED
  BY <1>1, <1>3

\* The inductive invariant holds throughout every exchange.
THEOREM ExchangeInvariant == ExchangeSpec => []ExchangeInv
BY ExchangeInitial, ExchangeStep, PTL DEF ExchangeSpec

\* What the daemon dispatches is what the command line asked for, and what any
\* other peer's frame says.
THEOREM RequestsArriveIntact == ExchangeSpec => []RequestArrivesIntact
BY ExchangeInvariant, InvArrives, PTL

\* Exit code 0 is a success of this very request, or of a stop with nothing to stop.
THEOREM ExitZeroIsSuccess == ExchangeSpec => []ExitMeansSuccess
BY ExchangeInvariant, InvSucceeds, PTL

-----------------------------------------------------------------------------
(* The decoder. *)

\* Streams of bytes.
ByteStrings == Seq(Bytes \cup {NL})

\* What feed has looked at.
Fed == SubSeq(stream, 1, read - Len(remaining))

\* Every number up to the count is the number of a newline.
Numbered(s) ==
  \A k \in 1 .. Cardinality(Newlines(s)) : \E i \in Newlines(s) : Place(s, i) = k

\* remaining is the end of what has been read.
PieceInv ==
  /\ stream \in ByteStrings /\ remaining \in ByteStrings /\ discarding \in BOOLEAN
  /\ read \in 0 .. Len(stream) /\ Len(remaining) <= read
  /\ remaining = SubSeq(stream, read - Len(remaining) + 1, read)

\* At every turn of the loop, and not only between pieces, feed has returned what
\* the reference says of the bytes it has looked at.
FrameInv ==
  /\ Numbered(Fed)
  /\ decoded = Reference(Fed)
  /\ discarding <=> Len(Unfinished(Fed)) > MaxFrame
  /\ buffer = IF discarding THEN <<>> ELSE Unfinished(Fed)

\* The inductive invariant of the decoder.
DecoderInv == PieceInv /\ FrameInv

-----------------------------------------------------------------------------
\* A part of a sequence, from after position m to position n.
LEMMA PartOf ==
  ASSUME NEW s \in ByteStrings, NEW n \in 0 .. Len(s), NEW m \in 0 .. n
  PROVE  /\ SubSeq(s, m + 1, n) \in ByteStrings /\ Len(SubSeq(s, m + 1, n)) = n - m
         /\ \A i \in 1 .. n - m : SubSeq(s, m + 1, n)[i] = s[m + i]
<1>1. Len(s) \in Nat
  BY LenProperties DEF ByteStrings
<1>2. \A i \in m + 1 .. n : s[i] \in Bytes \cup {NL}
  BY <1>1, ElementOfSeq DEF ByteStrings
<1>3. /\ SubSeq(s, m + 1, n) \in ByteStrings
      /\ Len(SubSeq(s, m + 1, n)) = IF m + 1 <= n THEN n - (m + 1) + 1 ELSE 0
      /\ \A i \in 1 .. n - (m + 1) + 1 : SubSeq(s, m + 1, n)[i] = s[(m + 1) + i - 1]
  BY <1>1, <1>2, SubSeqProperties DEF ByteStrings
<1>4. n - (m + 1) + 1 = n - m /\ \A i \in 1 .. n - m : (m + 1) + i - 1 = m + i
  BY <1>1
<1>5. QED
  BY <1>1, <1>3, <1>4

\* The first n elements of a sequence.
LEMMA StartOf ==
  ASSUME NEW s \in ByteStrings, NEW n \in 0 .. Len(s)
  PROVE  /\ SubSeq(s, 1, n) \in ByteStrings /\ Len(SubSeq(s, 1, n)) = n
         /\ \A i \in 1 .. n : SubSeq(s, 1, n)[i] = s[i]
<1>1. Len(s) \in Nat /\ 0 \in 0 .. n /\ 0 + 1 = 1 /\ n - 0 = n /\ \A i \in 1 .. n : 0 + i = i
  BY LenProperties DEF ByteStrings
<1>2. /\ SubSeq(s, 0 + 1, n) \in ByteStrings /\ Len(SubSeq(s, 0 + 1, n)) = n - 0
      /\ \A i \in 1 .. n - 0 : SubSeq(s, 0 + 1, n)[i] = s[0 + i]
  BY <1>1, PartOf, Zenon
<1>3. QED
  BY <1>1, <1>2

\* Append, element by element.
LEMMA AppendIs ==
  ASSUME NEW S, NEW s \in Seq(S), NEW x \in S
  PROVE  Append(s, x) = [k \in 1 .. Len(s) + 1 |-> IF k = Len(s) + 1 THEN x ELSE s[k]]
<1> DEFINE n == Len(s) + 1
           f == [k \in 1 .. n |-> IF k = n THEN x ELSE s[k]]
<1>1. /\ Append(s, x) \in Seq(S) /\ n \in Nat /\ Len(Append(s, x)) = n
      /\ \A k \in 1 .. n : Append(s, x)[k] = IF k = n THEN x ELSE s[k]
  OBVIOUS
<1>2. \A k \in 1 .. n : f[k] \in S
  <2>1. ASSUME NEW k \in 1 .. n, k # n PROVE k \in 1 .. Len(s)
    BY <1>1, <2>1
  <2>2. QED
    BY <2>1, ElementOfSeq
<1> HIDE DEF n
<1>3. f \in Seq(S) /\ Len(f) = n
  BY <1>1, <1>2
<1>4. QED
  BY <1>1, <1>3, SeqEqual DEF n

\* A set of naturals has a least element.
LEMMA LeastPosition ==
  ASSUME NEW S, S \subseteq Nat, S # {}
  PROVE  Min(S) \in S /\ \A m \in S : Min(S) <= m
<1>1. PICK n \in S : \A m \in S : <<m, n>> \notin OpToRel(<, Nat)
  BY NatLessThanWellFounded, WFMin
<1>2. \A m \in S : ~(m < n)
  BY <1>1 DEF OpToRel
<1>3. \E x \in S : \A y \in S : x =< y
  BY <1>2
<1>4. QED
  BY <1>3 DEF Min

\* A bounded set of naturals has a greatest element.
LEMMA LastPosition ==
  ASSUME NEW n \in Nat, NEW S, S \subseteq 0 .. n, S # {}
  PROVE  Max(S) \in S /\ \A m \in S : Max(S) >= m
<1> DEFINE back == {n - i : i \in S}
<1>1. back \subseteq Nat /\ back # {}
  <2>1. \A i \in S : n - i \in Nat
    OBVIOUS
  <2>2. QED
    BY <2>1
<1>2. Min(back) \in back /\ \A m \in back : Min(back) <= m
  BY <1>1, LeastPosition
<1>3. PICK x \in S : Min(back) = n - x
  BY <1>2
<1>4. \A y \in S : x >= y
  <2>1. ASSUME NEW y \in S PROVE x >= y
    <3>1. n - y \in back
      OBVIOUS
    <3>2. n - x <= n - y
      BY <1>2, <1>3, <3>1
    <3>3. x \in Int /\ y \in Int
      OBVIOUS
    <3>4. QED
      BY <3>2, <3>3
  <2>2. QED
    BY <2>1
<1>5. \E z \in S : \A y \in S : z >= y
  BY <1>4
<1>6. QED
  BY <1>5 DEF Max

\* Where the last newline before a position can be.
LEMMA LastBeforeIs ==
  ASSUME NEW s \in ByteStrings, NEW i \in 1 .. Len(s) + 1
  PROVE  LastBefore(s, i) \in 0 .. i - 1
<1> DEFINE before == {j \in Newlines(s) : j < i}
<1>1. Len(s) \in Nat /\ before \subseteq 0 .. Len(s)
  BY LenProperties DEF ByteStrings, Newlines
<1>2. CASE before = {}
  BY <1>1, <1>2 DEF LastBefore
<1>3. CASE before # {}
  <2>1. Max(before) \in before
    BY <1>1, <1>3, LastPosition
  <2>2. LastBefore(s, i) = Max(before)
    BY <1>3 DEF LastBefore
  <2>3. QED
    BY <1>1, <2>1, <2>2
<1>4. QED
  BY <1>2, <1>3

\* A stream has finitely many newlines.
LEMMA NewlinesFinite ==
  ASSUME NEW s \in ByteStrings
  PROVE  /\ Len(s) \in Nat /\ Newlines(s) \subseteq 1 .. Len(s)
         /\ IsFiniteSet(Newlines(s)) /\ Cardinality(Newlines(s)) \in Nat
         /\ \A i \in Nat : /\ IsFiniteSet({j \in Newlines(s) : j <= i})
                           /\ Place(s, i) \in Nat
<1>1. Len(s) \in Nat /\ Newlines(s) \subseteq 1 .. Len(s)
  BY LenProperties DEF ByteStrings, Newlines
<1>2. IsFiniteSet(Newlines(s))
  <2>1. IsFiniteSet(1 .. Len(s))
    BY <1>1, FS_Interval
  <2>2. QED
    BY <1>1, <2>1, FS_Subset
<1>3. Cardinality(Newlines(s)) \in Nat
  BY <1>2, FS_CardinalityType
<1>4. ASSUME NEW i \in Nat
      PROVE  IsFiniteSet({j \in Newlines(s) : j <= i}) /\ Place(s, i) \in Nat
  <2>1. IsFiniteSet({j \in Newlines(s) : j <= i})
    BY <1>2, FS_Subset
  <2>2. QED
    BY <2>1, FS_CardinalityType DEF Place
<1>5. QED
  BY <1>1, <1>2, <1>3, <1>4

\* No two newlines have the same number.
LEMMA EndOfIs ==
  ASSUME NEW s \in ByteStrings, NEW i \in Newlines(s)
  PROVE  EndOf(s, Place(s, i)) = i
<1> DEFINE upto(j) == {m \in Newlines(s) : m <= j}
<1>1. Newlines(s) \subseteq Nat
  BY NewlinesFinite
<1>2. ASSUME NEW j \in Newlines(s), NEW m \in Newlines(s), j < m, Place(s, j) = Place(s, m)
      PROVE  FALSE
  <2>1. upto(j) \subseteq upto(m) /\ m \in upto(m) /\ m \notin upto(j)
    BY <1>1, <1>2
  <2>2. IsFiniteSet(upto(m))
    BY <1>1, NewlinesFinite
  <2>3. Cardinality(upto(m)) = Cardinality(upto(j))
    BY <1>2 DEF Place
  <2>4. QED
    BY <2>1, <2>2, <2>3, FS_Subset
<1>3. \A j \in Newlines(s) : Place(s, j) = Place(s, i) => j = i
  BY <1>1, <1>2
<1>4. QED
  BY <1>3 DEF EndOf

\* More bytes change nothing about what is before them.
LEMMA PrefixFrames ==
  ASSUME NEW s \in ByteStrings, NEW t \in ByteStrings, Len(s) <= Len(t),
         \A i \in 1 .. Len(s) : t[i] = s[i]
  PROVE  /\ Newlines(s) \subseteq Newlines(t)
         /\ \A i \in 1 .. Len(s) + 1 :
              LastBefore(t, i) = LastBefore(s, i) /\ FrameBefore(t, i) = FrameBefore(s, i)
         /\ \A i \in 1 .. Len(s) : Place(t, i) = Place(s, i)
         /\ Numbered(s) =>
              \A k \in 1 .. Cardinality(Newlines(s)) :
                /\ \E i \in Newlines(t) : Place(t, i) = k
                /\ FrameBefore(t, EndOf(t, k)) = FrameBefore(s, EndOf(s, k))
<1>1. Len(s) \in Nat /\ Len(t) \in Nat
  BY NewlinesFinite
<1>2. \A i \in 1 .. Len(s) : i \in Newlines(t) <=> i \in Newlines(s)
  BY <1>1 DEF Newlines
<1>3. Newlines(s) \subseteq Newlines(t) /\ Newlines(s) \subseteq 1 .. Len(s)
  BY <1>2 DEF Newlines
<1>4. ASSUME NEW i \in 1 .. Len(s) + 1
      PROVE  LastBefore(t, i) = LastBefore(s, i) /\ FrameBefore(t, i) = FrameBefore(s, i)
  <2>1. {j \in Newlines(t) : j < i} = {j \in Newlines(s) : j < i}
    BY <1>1, <1>2, <1>3 DEF Newlines
  <2>2. LastBefore(t, i) = LastBefore(s, i)
    BY <2>1 DEF LastBefore
  <2> DEFINE m == LastBefore(s, i)
  <2>3. m \in 0 .. i - 1
    BY LastBeforeIs
  <2> HIDE DEF m
  <2>4. /\ SubSeq(s, m + 1, i - 1) \in ByteStrings /\ SubSeq(t, m + 1, i - 1) \in ByteStrings
        /\ Len(SubSeq(s, m + 1, i - 1)) = i - 1 - m
        /\ Len(SubSeq(t, m + 1, i - 1)) = i - 1 - m
        /\ \A j \in 1 .. i - 1 - m : /\ SubSeq(s, m + 1, i - 1)[j] = s[m + j]
                                     /\ SubSeq(t, m + 1, i - 1)[j] = t[m + j]
    <3>1. i - 1 \in 0 .. Len(s) /\ i - 1 \in 0 .. Len(t)
      BY <1>1
    <3>2. QED
      BY <2>3, <3>1, PartOf
  <2>5. \A j \in 1 .. i - 1 - m : s[m + j] = t[m + j]
    BY <1>1, <2>3
  <2>6. SubSeq(s, m + 1, i - 1) = SubSeq(t, m + 1, i - 1)
    BY <2>4, <2>5, SeqEqual DEF ByteStrings
  <2>7. QED
    BY <2>2, <2>6 DEF FrameBefore, m
<1>5. ASSUME NEW i \in 1 .. Len(s)
      PROVE  Place(t, i) = Place(s, i)
  <2>1. {j \in Newlines(t) : j <= i} = {j \in Newlines(s) : j <= i}
    BY <1>1, <1>2, <1>3 DEF Newlines
  <2>2. QED
    BY <2>1 DEF Place
<1>6. ASSUME Numbered(s), NEW k \in 1 .. Cardinality(Newlines(s))
      PROVE  /\ \E i \in Newlines(t) : Place(t, i) = k
             /\ FrameBefore(t, EndOf(t, k)) = FrameBefore(s, EndOf(s, k))
  <2>1. PICK i \in Newlines(s) : Place(s, i) = k
    BY <1>6 DEF Numbered
  <2>2. i \in Newlines(t) /\ i \in 1 .. Len(s) /\ i \in 1 .. Len(s) + 1 /\ Place(t, i) = k
    BY <1>1, <1>3, <1>5, <2>1
  <2>3. EndOf(s, k) = i /\ EndOf(t, k) = i
    BY <2>1, <2>2, EndOfIs
  <2>4. QED
    BY <1>4, <2>2, <2>3
<1>7. QED
  BY <1>3, <1>4, <1>5, <1>6

\* The unfinished frame, by its positions.
LEMMA UnfinishedIs ==
  ASSUME NEW s \in ByteStrings
  PROVE  LET m == LastBefore(s, Len(s) + 1) IN
         /\ m \in 0 .. Len(s)
         /\ Unfinished(s) = SubSeq(s, m + 1, Len(s))
         /\ Unfinished(s) \in ByteStrings /\ Len(Unfinished(s)) = Len(s) - m
         /\ \A i \in 1 .. Len(s) - m : Unfinished(s)[i] = s[m + i]
<1> DEFINE k == Len(s) + 1
           m == LastBefore(s, k)
<1>1. Len(s) \in Nat
  BY NewlinesFinite
<1>2. m \in 0 .. Len(s) /\ k - 1 = Len(s)
  BY <1>1, LastBeforeIs
<1>3. Unfinished(s) = FrameBefore(s, k)
  BY DEF Unfinished
<1> HIDE DEF k
<1>4. FrameBefore(s, k) = SubSeq(s, m + 1, k - 1)
  BY DEF FrameBefore
<1> HIDE DEF m
<1>5. Unfinished(s) = SubSeq(s, m + 1, Len(s))
  BY <1>2, <1>3, <1>4
<1>6. /\ SubSeq(s, m + 1, Len(s)) \in ByteStrings /\ Len(SubSeq(s, m + 1, Len(s))) = Len(s) - m
      /\ \A i \in 1 .. Len(s) - m : SubSeq(s, m + 1, Len(s))[i] = s[m + i]
  <2>1. Len(s) \in 0 .. Len(s)
    BY <1>1
  <2>2. QED
    BY <1>2, <2>1, PartOf
<1>7. QED
  BY <1>2, <1>5, <1>6, Zenon DEF m, k

\* Bytes without a newline extend the unfinished frame.
LEMMA FrameGoesOn ==
  ASSUME NEW s \in ByteStrings, NEW t \in ByteStrings, \A i \in 1 .. Len(t) : t[i] # NL, Numbered(s)
  PROVE  /\ s \o t \in ByteStrings /\ Numbered(s \o t)
         /\ Unfinished(s) \in ByteStrings /\ Unfinished(s \o t) = Unfinished(s) \o t
         /\ Frames(s \o t) = Frames(s)
<1> DEFINE u == s \o t
<1>1. /\ u \in ByteStrings /\ Len(u) = Len(s) + Len(t)
      /\ \A i \in 1 .. Len(s) + Len(t) : u[i] = IF i <= Len(s) THEN s[i] ELSE t[i - Len(s)]
  BY ConcatProperties DEF ByteStrings
<1> HIDE DEF u
<1>2. Len(s) \in Nat /\ Len(t) \in Nat
  BY NewlinesFinite
<1>3. Len(s) <= Len(u) /\ \A i \in 1 .. Len(s) : u[i] = s[i]
  BY <1>1, <1>2
<1>4. Newlines(u) = Newlines(s)
  <2>1. ASSUME NEW i \in 1 .. Len(u), i > Len(s) PROVE u[i] # NL
    <3>1. i - Len(s) \in 1 .. Len(t) /\ u[i] = t[i - Len(s)]
      BY <1>1, <1>2, <2>1
    <3>2. QED
      BY <3>1
  <2>2. QED
    BY <1>1, <1>2, <1>3, <2>1 DEF Newlines
<1>5. /\ \A i \in 1 .. Len(s) + 1 : LastBefore(u, i) = LastBefore(s, i)
      /\ \A k \in 1 .. Cardinality(Newlines(s)) :
                /\ \E i \in Newlines(u) : Place(u, i) = k
                /\ FrameBefore(u, EndOf(u, k)) = FrameBefore(s, EndOf(s, k))
  BY <1>1, <1>3, PrefixFrames
<1>6. Numbered(u)
  BY <1>4, <1>5 DEF Numbered
<1>7. Frames(u) = Frames(s)
  BY <1>4, <1>5 DEF Frames
<1> DEFINE m == LastBefore(s, Len(s) + 1)
<1>8. m \in 0 .. Len(s)
  BY <1>2, LastBeforeIs
<1>9. LastBefore(u, Len(u) + 1) = m
  <2>1. {j \in Newlines(u) : j < Len(u) + 1} = {j \in Newlines(s) : j < Len(s) + 1}
    BY <1>1, <1>2, <1>4, NewlinesFinite
  <2>2. QED
    BY <2>1 DEF LastBefore
<1> HIDE DEF m
<1>10. /\ Unfinished(s) \in ByteStrings /\ Len(Unfinished(s)) = Len(s) - m
       /\ \A i \in 1 .. Len(s) - m : Unfinished(s)[i] = s[m + i]
       /\ Unfinished(u) \in ByteStrings /\ Len(Unfinished(u)) = Len(u) - m
       /\ \A i \in 1 .. Len(u) - m : Unfinished(u)[i] = u[m + i]
  <2>1. /\ Unfinished(s) \in ByteStrings /\ Len(Unfinished(s)) = Len(s) - m
        /\ \A i \in 1 .. Len(s) - m : Unfinished(s)[i] = s[m + i]
    BY UnfinishedIs, Zenon DEF m
  <2>2. /\ Unfinished(u) \in ByteStrings /\ Len(Unfinished(u)) = Len(u) - m
        /\ \A i \in 1 .. Len(u) - m : Unfinished(u)[i] = u[m + i]
    BY <1>1, <1>9, UnfinishedIs, Zenon
  <2>3. QED
    BY <2>1, <2>2
<1>11. /\ Unfinished(s) \o t \in ByteStrings /\ Len(Unfinished(s) \o t) = Len(s) - m + Len(t)
       /\ \A i \in 1 .. Len(s) - m + Len(t) :
            (Unfinished(s) \o t)[i] = IF i <= Len(s) - m THEN Unfinished(s)[i] ELSE t[i - (Len(s) - m)]
  <2> DEFINE f == Unfinished(s)
  <2>1. f \in ByteStrings /\ Len(f) = Len(s) - m
    BY <1>10
  <2> HIDE DEF f
  <2>2. /\ f \o t \in ByteStrings /\ Len(f \o t) = Len(f) + Len(t)
        /\ \A i \in 1 .. Len(f) + Len(t) : (f \o t)[i] = IF i <= Len(f) THEN f[i] ELSE t[i - Len(f)]
    BY <2>1, ConcatProperties DEF ByteStrings
  <2>3. QED
    BY <2>1, <2>2 DEF f
<1>12. \A i \in 1 .. Len(u) - m : Unfinished(u)[i] = (Unfinished(s) \o t)[i]
  <2>1. ASSUME NEW i \in 1 .. Len(u) - m PROVE Unfinished(u)[i] = (Unfinished(s) \o t)[i]
    <3>1. m + i \in 1 .. Len(s) + Len(t) /\ i \in 1 .. Len(s) - m + Len(t)
      BY <1>1, <1>2, <1>8
    <3>2. CASE i <= Len(s) - m
      <4>1. i \in 1 .. Len(s) - m /\ m + i <= Len(s)
        BY <1>1, <1>2, <1>8, <3>2
      <4>2. u[m + i] = s[m + i]
        BY <1>1, <3>1, <4>1
      <4>3. QED
        BY <1>10, <1>11, <3>1, <4>1, <4>2
    <3>3. CASE i > Len(s) - m
      <4>1. ~(m + i <= Len(s)) /\ ~(i <= Len(s) - m) /\ m + i - Len(s) = i - (Len(s) - m)
        BY <1>1, <1>2, <1>8, <3>3
      <4>2. QED
        <5> DEFINE p == m + i
        <5>1. p \in 1 .. Len(s) + Len(t) /\ ~(p <= Len(s))
          BY <3>1, <4>1
        <5> HIDE DEF p
        <5>2. u[p] = t[p - Len(s)]
          <6>1. \A q \in 1 .. Len(s) + Len(t) : ~(q <= Len(s)) => u[q] = t[q - Len(s)]
            BY <1>1, Zenon
          <6>2. QED
            BY <5>1, <6>1, Zenon
        <5>3. p = m + i /\ p - Len(s) = i - (Len(s) - m)
          BY <1>2, <1>8, <3>1 DEF p
        <5>4. (Unfinished(s) \o t)[i] = t[i - (Len(s) - m)]
          BY <1>11, <3>1, <4>1
        <5>5. Unfinished(u)[i] = u[m + i]
          BY <1>10
        <5>6. QED
          BY <5>2, <5>4, <5>5, <5>3, Zenon
    <3>4. i <= Len(s) - m \/ i > Len(s) - m
      BY <1>2, <1>8, <3>1
    <3>5. QED
      BY <3>2, <3>3, <3>4
  <2>2. QED
    BY <2>1
<1>13. Unfinished(u) = Unfinished(s) \o t
  <2>1. Len(Unfinished(u)) = Len(Unfinished(s) \o t)
    BY <1>1, <1>2, <1>8, <1>10, <1>11
  <2>2. QED
    BY <1>10, <1>11, <1>12, <2>1, SeqEqual DEF ByteStrings
<1>14. QED
  BY <1>1, <1>6, <1>7, <1>10, <1>13 DEF u

\* A newline ends the unfinished frame and begins the next one.
LEMMA FrameEnds ==
  ASSUME NEW s \in ByteStrings, Numbered(s)
  PROVE  /\ Append(s, NL) \in ByteStrings /\ Numbered(Append(s, NL))
         /\ Unfinished(Append(s, NL)) = <<>>
         /\ Frames(Append(s, NL)) = Append(Frames(s), Unfinished(s))
<1> DEFINE u == Append(s, NL)
           n == Len(s)
           count == Cardinality(Newlines(s))
<1>1. /\ u \in ByteStrings /\ n \in Nat /\ Len(u) = n + 1 /\ u[n + 1] = NL
      /\ \A i \in 1 .. n : u[i] = s[i]
  BY DEF ByteStrings
<1> HIDE DEF u, n
<1>2. Newlines(u) = Newlines(s) \cup {n + 1} /\ n + 1 \notin Newlines(s)
  BY <1>1 DEF Newlines, n
<1>3. count \in Nat /\ Cardinality(Newlines(u)) = count + 1
  BY <1>2, NewlinesFinite, FS_AddElement
<1> HIDE DEF count
<1>4. Place(u, n + 1) = count + 1
  <2>1. {j \in Newlines(u) : j <= n + 1} = Newlines(u)
    BY <1>1, NewlinesFinite
  <2>2. QED
    BY <1>3, <2>1 DEF Place
<1>5. /\ \A i \in 1 .. n + 1 : FrameBefore(u, i) = FrameBefore(s, i)
      /\ \A k \in 1 .. count :
                /\ \E i \in Newlines(u) : Place(u, i) = k
                /\ FrameBefore(u, EndOf(u, k)) = FrameBefore(s, EndOf(s, k))
  <2>1. n <= Len(u)
    BY <1>1
  <2>2. QED
    BY <1>1, <2>1, PrefixFrames DEF count, n
<1>6. Numbered(u)
  <2>1. ASSUME NEW k \in 1 .. count + 1 PROVE \E i \in Newlines(u) : Place(u, i) = k
    <3>1. CASE k \in 1 .. count
      BY <1>5, <3>1
    <3>2. CASE k = count + 1
      BY <1>2, <1>4, <3>2
    <3>3. QED
      BY <1>3, <3>1, <3>2
  <2>2. QED
    BY <1>3, <2>1 DEF Numbered
<1>7. FrameBefore(u, EndOf(u, count + 1)) = Unfinished(s)
  <2>1. EndOf(u, count + 1) = n + 1
    BY <1>1, <1>2, <1>4, EndOfIs
  <2>2. n + 1 \in 1 .. n + 1
    BY <1>1
  <2>3. QED
    BY <1>5, <2>1, <2>2 DEF Unfinished, n
<1>8. Frames(u) = Append(Frames(s), Unfinished(s))
  <2>1. Frames(s) = [k \in 1 .. count |-> FrameBefore(s, EndOf(s, k))]
    BY DEF Frames, count
  <2>2. Frames(u) = [k \in 1 .. count + 1 |-> FrameBefore(u, EndOf(u, k))]
    BY <1>3 DEF Frames
  <2>3. Frames(s) \in Seq(Range(Frames(s))) /\ Len(Frames(s)) = count
    BY <1>3, <2>1 DEF Range
  <2>4. QED
    BY <1>3, <1>5, <1>7, <2>1, <2>2, <2>3
<1>9. Unfinished(u) = <<>>
  <2>1. LastBefore(u, n + 2) = n + 1
    <3> DEFINE before == {j \in Newlines(u) : j < n + 2}
    <3>1. before = Newlines(u) /\ before \subseteq 0 .. n + 1 /\ n + 1 \in before
      BY <1>1, <1>2, NewlinesFinite
    <3>2. Max(before) \in before /\ Max(before) >= n + 1
      <4>1. n + 1 \in Nat
        BY <1>1
      <4>2. QED
        BY <3>1, <4>1, LastPosition
    <3>3. Max(before) = n + 1
      BY <1>1, <3>1, <3>2
    <3>4. QED
      BY <3>1, <3>3 DEF LastBefore
  <2>2. Unfinished(u) = SubSeq(u, n + 2, n + 1)
    <3>1. Len(u) + 1 = n + 2 /\ n + 1 + 1 = n + 2
      BY <1>1
    <3>2. Unfinished(u) = SubSeq(u, (n + 1) + 1, Len(u))
      BY <1>1, <2>1, <3>1, UnfinishedIs
    <3>3. QED
      BY <1>1, <3>1, <3>2
  <2>3. QED
    BY <1>1, <2>2, SubSeqEmpty
<1>10. QED
  BY <1>1, <1>6, <1>8, <1>9 DEF u

\* What is reported of the finished frames.
Whole(s) == [k \in DOMAIN Frames(s) |-> Reported(Frames(s)[k])]

\* The reference while a frame goes on, and when it ends.
LEMMA ReferenceGrows ==
  ASSUME NEW s \in ByteStrings, NEW t \in ByteStrings, \A i \in 1 .. Len(t) : t[i] # NL, Numbered(s)
  PROVE  /\ Reference(s) = IF Len(Unfinished(s)) > MaxFrame THEN Append(Whole(s), TooLarge) ELSE Whole(s)
         /\ Unfinished(s \o t) = Unfinished(s) \o t
         /\ Reference(s \o t) = IF Len(Unfinished(s) \o t) > MaxFrame
                                THEN Append(Whole(s), TooLarge) ELSE Whole(s)
         /\ Unfinished(Append(s \o t, NL)) = <<>>
         /\ Reference(Append(s \o t, NL)) = Append(Whole(s), Reported(Unfinished(s) \o t))
         /\ Numbered(s \o t) /\ Numbered(Append(s \o t, NL))
<1> DEFINE u == s \o t
           v == Append(u, NL)
<1>1. /\ u \in ByteStrings /\ Numbered(u) /\ Unfinished(u) = Unfinished(s) \o t /\ Frames(u) = Frames(s)
      /\ Unfinished(s) \in ByteStrings
  BY FrameGoesOn
<1> HIDE DEF u
<1>2. Numbered(v) /\ Unfinished(v) = <<>> /\ Frames(v) = Append(Frames(s), Unfinished(u))
  BY <1>1, FrameEnds
<1>3. Whole(u) = Whole(s)
  BY <1>1 DEF Whole
<1> HIDE DEF v
<1>4. \A w : Reference(w) = IF Len(Unfinished(w)) > MaxFrame THEN Append(Whole(w), TooLarge) ELSE Whole(w)
  BY DEF Reference, Whole
<1>5. Whole(v) = Append(Whole(s), Reported(Unfinished(u)))
  <2> DEFINE F == Frames(s)
             f == Unfinished(u)
             n == Cardinality(Newlines(s))
             S == Range(F) \cup {f}
             R == {Reported(x) : x \in S}
  <2>1. n \in Nat
    BY NewlinesFinite
  <2>2. DOMAIN F = 1 .. n /\ F = [k \in 1 .. n |-> F[k]]
    BY DEF Frames
  <2> HIDE DEF F, f, n
  <2>3. F \in Seq(S) /\ Len(F) = n /\ f \in S
    BY <2>1, <2>2 DEF Range
  <2>4. /\ DOMAIN Append(F, f) = 1 .. n + 1 /\ Append(F, f)[n + 1] = f
        /\ \A k \in 1 .. n : Append(F, f)[k] = F[k]
    BY <2>1, <2>3
  <2>5. Whole(s) = [k \in 1 .. n |-> Reported(F[k])]
    BY <2>2 DEF Whole, F
  <2>6. Whole(v) = [k \in 1 .. n + 1 |-> Reported(Append(F, f)[k])]
    BY <1>2, <2>4 DEF Whole, F, f
  <2>7. Whole(s) \in Seq(R) /\ Len(Whole(s)) = n
    <3>1. \A k \in 1 .. n : Reported(F[k]) \in R
      BY <2>2 DEF Range
    <3>2. QED
      BY <2>1, <2>5, <3>1
  <2>8. QED
    <3>1. Append(Whole(s), Reported(f)) =
            [k \in 1 .. n + 1 |-> IF k = n + 1 THEN Reported(f) ELSE Whole(s)[k]]
      <4>1. Reported(f) \in R
        OBVIOUS
      <4> HIDE DEF R
      <4>2. QED
        BY <2>7, <4>1, AppendIs
    <3>2. \A k \in 1 .. n + 1 :
            Reported(Append(F, f)[k]) = IF k = n + 1 THEN Reported(f) ELSE Whole(s)[k]
      BY <2>1, <2>4, <2>5
    <3>3. QED
      BY <2>6, <3>1, <3>2 DEF f
<1>6. ~(Len(Unfinished(v)) > MaxFrame)
  BY <1>2, DecoderAssumption
<1>7. QED
  BY <1>1, <1>2, <1>3, <1>4, <1>5, <1>6 DEF u, v

-----------------------------------------------------------------------------
\* What feed has looked at when it has taken the next n bytes.
LEMMA FedGrows ==
  ASSUME DecoderInv, NEW n \in 0 .. Len(remaining)
  PROVE  /\ Fed \in ByteStrings /\ SubSeq(remaining, 1, n) \in ByteStrings
         /\ Len(SubSeq(remaining, 1, n)) = n
         /\ \A i \in 1 .. n : SubSeq(remaining, 1, n)[i] = remaining[i]
         /\ SubSeq(stream, 1, read - Len(remaining) + n) = Fed \o SubSeq(remaining, 1, n)
         /\ SubSeq(remaining, n + 1, Len(remaining)) \in ByteStrings
         /\ Len(SubSeq(remaining, n + 1, Len(remaining))) = Len(remaining) - n
         /\ SubSeq(remaining, n + 1, Len(remaining))
              = SubSeq(stream, read - Len(remaining) + n + 1, read)
<1> DEFINE L == Len(remaining)
           p == read - L
           r == remaining
<1>1. /\ stream \in ByteStrings /\ r \in ByteStrings /\ Len(stream) \in Nat /\ L \in Nat
      /\ read \in 0 .. Len(stream) /\ p \in 0 .. read /\ p + L = read /\ n \in 0 .. L
  BY LenProperties DEF DecoderInv, PieceInv, ByteStrings
<1>2. r = SubSeq(stream, p + 1, read) /\ Fed = SubSeq(stream, 1, p) /\ Len(r) = L
  BY DEF DecoderInv, PieceInv, Fed
<1> HIDE DEF L, p, r
<1>3. \A i \in 1 .. L : r[i] = stream[p + i]
  BY <1>1, <1>2, PartOf
<1>4. /\ Fed \in ByteStrings /\ Len(Fed) = p /\ \A i \in 1 .. p : Fed[i] = stream[i]
  <2>1. p \in 0 .. Len(stream)
    BY <1>1
  <2>2. QED
    BY <1>1, <1>2, <2>1, StartOf
<1> DEFINE a == SubSeq(r, 1, n)
           b == SubSeq(r, n + 1, L)
<1>5. a \in ByteStrings /\ Len(a) = n /\ \A i \in 1 .. n : a[i] = r[i]
  <2>1. n \in 0 .. Len(r)
    BY <1>1, <1>2
  <2>2. QED
    BY <1>1, <2>1, StartOf
<1>6. b \in ByteStrings /\ Len(b) = L - n /\ \A i \in 1 .. L - n : b[i] = r[n + i]
  <2>1. L \in 0 .. Len(r)
    BY <1>1, <1>2
  <2>2. QED
    BY <1>1, <2>1, PartOf
<1> HIDE DEF a, b
<1>7. SubSeq(stream, 1, p + n) = Fed \o a
  <2> DEFINE w == SubSeq(stream, 1, p + n)
  <2>1. w \in ByteStrings /\ Len(w) = p + n /\ \A i \in 1 .. p + n : w[i] = stream[i]
    <3>1. p + n \in 0 .. Len(stream)
      BY <1>1
    <3>2. QED
      BY <1>1, <3>1, StartOf
  <2>2. /\ Fed \o a \in ByteStrings /\ Len(Fed \o a) = p + n
        /\ \A i \in 1 .. p + n : (Fed \o a)[i] = IF i <= p THEN Fed[i] ELSE a[i - p]
    BY <1>4, <1>5, ConcatProperties DEF ByteStrings
  <2> HIDE DEF w
  <2>3. ASSUME NEW i \in 1 .. p + n PROVE w[i] = (Fed \o a)[i]
    <3>1. CASE i <= p
      <4>1. i \in 1 .. p
        BY <1>1, <3>1
      <4>2. QED
        BY <1>4, <2>1, <2>2, <3>1, <4>1
    <3>2. CASE ~(i <= p)
      <4>1. i - p \in 1 .. n /\ i - p \in 1 .. L /\ p + (i - p) = i
        BY <1>1, <3>2
      <4>2. a[i - p] = stream[i]
        BY <1>3, <1>5, <4>1
      <4>3. QED
        BY <2>1, <2>2, <3>2, <4>2
    <3>3. QED
      BY <3>1, <3>2
  <2>4. QED
    BY <2>1, <2>2, <2>3, SeqEqual DEF ByteStrings, w
<1>8. b = SubSeq(stream, p + n + 1, read)
  <2> DEFINE w == SubSeq(stream, p + n + 1, read)
  <2>1. w \in ByteStrings /\ Len(w) = read - (p + n) /\ \A i \in 1 .. read - (p + n) : w[i] = stream[(p + n) + i]
    <3>1. p + n \in 0 .. read
      BY <1>1
    <3>2. QED
      BY <1>1, <3>1, PartOf
  <2> HIDE DEF w
  <2>2. read - (p + n) = L - n
    BY <1>1
  <2>3. ASSUME NEW i \in 1 .. L - n PROVE w[i] = b[i]
    <3>1. n + i \in 1 .. L /\ p + (n + i) = (p + n) + i
      BY <1>1
    <3>2. QED
      BY <1>3, <1>6, <2>1, <2>2, <3>1
  <2>4. QED
    BY <1>6, <2>1, <2>2, <2>3, SeqEqual DEF ByteStrings, w
<1>9. QED
  BY <1>4, <1>5, <1>6, <1>7, <1>8 DEF a, b, L, p, r

\* The first newline of a piece.
LEMMA BoundaryIs ==
  ASSUME remaining \in ByteStrings
  PROVE  /\ HasBoundary =>
              /\ Boundary \in 0 .. Len(remaining) - 1 /\ remaining[Boundary + 1] = NL
              /\ \A i \in 1 .. Boundary : remaining[i] # NL
         /\ ~HasBoundary => \A i \in 1 .. Len(remaining) : remaining[i] # NL
<1> DEFINE I == {i \in 1 .. Len(remaining) : remaining[i] = NL}
<1>1. Len(remaining) \in Nat /\ DOMAIN remaining = 1 .. Len(remaining)
  BY LenProperties DEF ByteStrings
<1>2. HasBoundary <=> I # {}
  BY <1>1 DEF HasBoundary, ToSet
<1>3. ASSUME I # {}
      PROVE  /\ Boundary \in 0 .. Len(remaining) - 1 /\ remaining[Boundary + 1] = NL
             /\ \A i \in 1 .. Boundary : remaining[i] # NL
  <2>1. Min(I) \in I /\ \A i \in I : Min(I) <= i
    <3>1. I \subseteq Nat
      OBVIOUS
    <3>2. QED
      BY <1>3, <3>1, LeastPosition
  <2>2. Boundary = Min(I) - 1
    BY <1>3 DEF Boundary, SelectInSeq
  <2> DEFINE m == Min(I)
  <2> HIDE DEF m
  <2>3. m \in 1 .. Len(remaining) /\ remaining[m] = NL /\ \A i \in 1 .. m - 1 : remaining[i] # NL
    <3>1. m \in I /\ \A i \in I : m <= i
      BY <2>1 DEF m
    <3>2. m \in 1 .. Len(remaining) /\ remaining[m] = NL
      BY <3>1
    <3>3. ASSUME NEW i \in 1 .. m - 1 PROVE remaining[i] # NL
      <4>1. i \in 1 .. Len(remaining) /\ ~(m <= i)
        BY <1>1, <3>2
      <4>2. QED
        BY <3>1, <4>1
    <3>4. QED
      BY <3>2, <3>3
  <2>4. Boundary = m - 1 /\ Boundary + 1 = m
    BY <2>2, <2>3 DEF m
  <2>5. QED
    BY <1>1, <2>3, <2>4
<1>4. QED
  BY <1>1, <1>2, <1>3

\* The first newline ends what is before it.
LEMMA CutAt ==
  ASSUME NEW s \in ByteStrings, NEW r \in ByteStrings, NEW b \in 0 .. Len(r) - 1, r[b + 1] = NL
  PROVE  s \o SubSeq(r, 1, b + 1) = Append(s \o SubSeq(r, 1, b), NL)
<1> DEFINE long == SubSeq(r, 1, b + 1)
           short == SubSeq(r, 1, b)
<1>1. Len(r) \in Nat /\ Len(s) \in Nat
  BY NewlinesFinite
<1>2. b + 1 \in 0 .. Len(r) /\ b \in 0 .. Len(r)
  BY <1>1
<1>3. /\ long \in ByteStrings /\ Len(long) = b + 1 /\ \A i \in 1 .. b + 1 : long[i] = r[i]
      /\ short \in ByteStrings /\ Len(short) = b /\ \A i \in 1 .. b : short[i] = r[i]
  BY <1>2, StartOf
<1> HIDE DEF long, short
<1>4. long = Append(short, NL)
  <2>1. Append(short, NL) \in ByteStrings /\ Len(Append(short, NL)) = b + 1
    BY <1>3 DEF ByteStrings
  <2>2. \A i \in 1 .. b + 1 : Append(short, NL)[i] = long[i]
    <3>1. /\ \A i \in 1 .. b : Append(short, NL)[i] = short[i]
          /\ Append(short, NL)[b + 1] = NL
      BY <1>3 DEF ByteStrings
    <3>2. b + 1 \in 1 .. b + 1 /\ long[b + 1] = NL /\ \A i \in 1 .. b + 1 : i = b + 1 \/ i \in 1 .. b
      BY <1>2, <1>3
    <3>3. \A i \in 1 .. b : i \in 1 .. b + 1
      BY <1>2
    <3>4. QED
      BY <1>3, <3>1, <3>2, <3>3, Zenon
  <2>3. QED
    BY <1>3, <2>1, <2>2, SeqEqual DEF ByteStrings
<1>5. s \o Append(short, NL) = Append(s \o short, NL)
  <2> DEFINE u == s \o short
  <2>1. /\ u \in ByteStrings /\ Len(u) = Len(s) + b
        /\ \A i \in 1 .. Len(s) + b : u[i] = IF i <= Len(s) THEN s[i] ELSE short[i - Len(s)]
    <3>1. /\ u \in ByteStrings /\ Len(u) = Len(s) + Len(short)
          /\ \A i \in 1 .. Len(s) + Len(short) : u[i] = IF i <= Len(s) THEN s[i] ELSE short[i - Len(s)]
      BY <1>3, ConcatProperties DEF ByteStrings
    <3>2. QED
      BY <1>3, <3>1
  <2> DEFINE v == s \o long
  <2>2. /\ v \in ByteStrings /\ Len(v) = Len(s) + (b + 1)
        /\ \A i \in 1 .. Len(s) + (b + 1) : v[i] = IF i <= Len(s) THEN s[i] ELSE long[i - Len(s)]
    <3>1. /\ v \in ByteStrings /\ Len(v) = Len(s) + Len(long)
          /\ \A i \in 1 .. Len(s) + Len(long) : v[i] = IF i <= Len(s) THEN s[i] ELSE long[i - Len(s)]
      BY <1>3, ConcatProperties DEF ByteStrings
    <3>2. QED
      BY <1>3, <3>1
  <2> HIDE DEF u, v
  <2>3. /\ Append(u, NL) \in ByteStrings /\ Len(Append(u, NL)) = Len(s) + (b + 1)
        /\ Append(u, NL)[Len(s) + b + 1] = NL
        /\ \A i \in 1 .. Len(s) + b : Append(u, NL)[i] = u[i]
    BY <1>1, <2>1 DEF ByteStrings
  <2>4. ASSUME NEW i \in 1 .. Len(s) + (b + 1) PROVE Append(u, NL)[i] = v[i]
    <3>1. CASE i = Len(s) + b + 1
      <4>1. ~(i <= Len(s)) /\ i - Len(s) = b + 1 /\ b + 1 \in 1 .. b + 1
        BY <1>1, <3>1
      <4>2. v[i] = long[b + 1]
        BY <2>2, <4>1
      <4>3. QED
        BY <1>3, <2>3, <3>1, <4>1, <4>2
    <3>2. CASE i # Len(s) + b + 1 /\ i <= Len(s)
      <4>1. i \in 1 .. Len(s) + b
        BY <1>1, <3>2
      <4>2. QED
        BY <2>1, <2>2, <2>3, <3>2, <4>1
    <3>3. CASE i # Len(s) + b + 1 /\ ~(i <= Len(s))
      <4> DEFINE k == i - Len(s)
      <4>1. i \in 1 .. Len(s) + b /\ k \in 1 .. b /\ k \in 1 .. b + 1
        BY <1>1, <3>3
      <4>2. u[i] = short[k] /\ v[i] = long[k]
        BY <2>1, <2>2, <3>3, <4>1
      <4> HIDE DEF k
      <4>3. QED
        BY <1>3, <2>3, <4>1, <4>2
    <3>4. QED
      BY <3>1, <3>2, <3>3
  <2>5. Append(u, NL) = v
    BY <2>2, <2>3, <2>4, SeqEqual DEF ByteStrings
  <2>6. QED
    BY <1>4, <2>5 DEF u, v
<1>6. QED
  BY <1>4, <1>5 DEF long, short

\* feed takes the next n bytes.
LEMMA TakeBytes ==
  ASSUME DecoderInv, NEW n \in 0 .. Len(remaining), UNCHANGED <<stream, read>>,
         remaining' = SubSeq(remaining, n + 1, Len(remaining)), discarding' \in BOOLEAN
  PROVE  PieceInv' /\ Fed' = Fed \o SubSeq(remaining, 1, n)
<1> DEFINE L == Len(remaining)
<1>1. /\ stream \in ByteStrings /\ L \in Nat /\ Len(stream) \in Nat /\ read \in 0 .. Len(stream)
      /\ L <= read
  BY LenProperties DEF DecoderInv, PieceInv, ByteStrings
<1>2. /\ remaining' \in ByteStrings /\ Len(remaining') = L - n
      /\ remaining' = SubSeq(stream, read - L + n + 1, read)
      /\ SubSeq(stream, 1, read - L + n) = Fed \o SubSeq(remaining, 1, n)
  BY FedGrows
<1> HIDE DEF L
<1>3. read - (L - n) = read - L + n /\ n \in Nat /\ L - n <= read
  BY <1>1 DEF L
<1>4. PieceInv'
  BY <1>1, <1>2, <1>3 DEF PieceInv
<1>5. Fed' = SubSeq(stream, 1, read - L + n)
  BY <1>2, <1>3 DEF Fed
<1>6. QED
  BY <1>2, <1>4, <1>5

\* The rest of the piece is taken, and there is no newline in it.
LEMMA TakePiece ==
  ASSUME DecoderInv, ~HasBoundary, UNCHANGED <<stream, read>>,
         remaining' = <<>>, discarding' \in BOOLEAN
  PROVE  /\ PieceInv' /\ Fed' = Fed \o remaining
         /\ Fed \in ByteStrings /\ Unfinished(Fed) \in ByteStrings /\ remaining \in ByteStrings
         /\ \A i \in 1 .. Len(remaining) : remaining[i] # NL
<1> DEFINE L == Len(remaining)
<1>1. remaining \in ByteStrings /\ L \in Nat /\ L \in 0 .. L
  BY LenProperties DEF DecoderInv, PieceInv, ByteStrings
<1>2. SubSeq(remaining, 1, L) = remaining
  BY <1>1, SubSeqFull DEF ByteStrings
<1>3. SubSeq(remaining, L + 1, L) = <<>>
  BY <1>1, SubSeqEmpty
<1>4. PieceInv' /\ Fed' = Fed \o remaining
  BY <1>1, <1>2, <1>3, TakeBytes
<1>5. Fed \in ByteStrings
  BY <1>1, FedGrows
<1>6. QED
  BY <1>1, <1>4, <1>5, BoundaryIs, UnfinishedIs

\* The piece is taken up to and with its first newline.
LEMMA TakeFrame ==
  ASSUME DecoderInv, HasBoundary, UNCHANGED <<stream, read>>,
         remaining' = Rest, discarding' \in BOOLEAN
  PROVE  LET t == SubSeq(remaining, 1, Boundary) IN
         /\ PieceInv' /\ Fed' = Append(Fed \o t, NL)
         /\ Fed \in ByteStrings /\ Unfinished(Fed) \in ByteStrings /\ t \in ByteStrings /\ Len(t) = Boundary
         /\ \A i \in 1 .. Len(t) : t[i] # NL
<1> DEFINE L == Len(remaining)
           b == Boundary
           t == SubSeq(remaining, 1, b)
<1>1. remaining \in ByteStrings /\ L \in Nat
  BY LenProperties DEF DecoderInv, PieceInv, ByteStrings
<1>2. b \in 0 .. L - 1 /\ remaining[b + 1] = NL /\ \A i \in 1 .. b : remaining[i] # NL
  BY <1>1, BoundaryIs
<1>3. b + 1 \in 0 .. L /\ b \in 0 .. L /\ (b + 1) + 1 = b + 2
  BY <1>1, <1>2
<1>4. remaining' = SubSeq(remaining, (b + 1) + 1, L)
  BY <1>3 DEF Rest
<1> HIDE DEF b
<1>5. PieceInv' /\ Fed' = Fed \o SubSeq(remaining, 1, b + 1)
  BY <1>3, <1>4, TakeBytes
<1>6. Fed \in ByteStrings /\ t \in ByteStrings /\ Len(t) = b /\ \A i \in 1 .. b : t[i] = remaining[i]
  BY <1>3, FedGrows
<1>7. Fed \o SubSeq(remaining, 1, b + 1) = Append(Fed \o t, NL)
  BY <1>1, <1>2, <1>6, CutAt
<1>8. Unfinished(Fed) \in ByteStrings
  BY <1>6, UnfinishedIs
<1>9. QED
  BY <1>2, <1>5, <1>6, <1>7, <1>8 DEF b

-----------------------------------------------------------------------------
\* Nothing has been read.
LEMMA DecoderInitial == DecoderInit => DecoderInv
<1> SUFFICES ASSUME DecoderInit PROVE DecoderInv
  OBVIOUS
<1> DEFINE none == <<>>
<1>1. none \in ByteStrings /\ Len(none) = 0
  BY EmptySeq DEF ByteStrings
<1>2. stream = none /\ read = 0 /\ remaining = none /\ buffer = none /\ decoded = none
  BY DEF DecoderInit
<1>3. discarding = FALSE
  BY DEF DecoderInit
<1>4. SubSeq(none, 1, 0) = none
  BY SubSeqEmpty
<1> HIDE DEF none
<1>5. PieceInv /\ Fed = none
  <2>1. read - Len(remaining) = 0 /\ read - Len(remaining) + 1 = 1 /\ read \in 0 .. Len(stream)
    <3>1. read = 0 /\ Len(remaining) = 0 /\ Len(stream) = 0
      BY <1>1, <1>2, Zenon
    <3>2. QED
      BY <3>1
  <2>2. stream \in ByteStrings /\ remaining \in ByteStrings /\ Len(remaining) <= read
    BY <1>1, <1>2
  <2>3. SubSeq(stream, read - Len(remaining) + 1, read) = none
    BY <1>2, <1>4, <2>1, Zenon
  <2>4. Fed = none
    BY <1>2, <1>4, <2>1, Zenon DEF Fed
  <2>5. QED
    BY <1>2, <1>3, <2>1, <2>2, <2>3, <2>4, Zenon DEF PieceInv
<1>6. Newlines(none) = {} /\ Cardinality(Newlines(none)) = 0
  BY <1>1, FS_EmptySet DEF Newlines
<1>7. Numbered(none)
  BY <1>6 DEF Numbered
<1>8. Frames(none) = none /\ Whole(none) = none
  BY <1>6 DEF Frames, Whole, none
<1>9. Unfinished(none) = none
  <2>1. LastBefore(none, Len(none) + 1) = 0
    BY <1>6 DEF LastBefore
  <2>2. Unfinished(none) \in ByteStrings /\ Len(Unfinished(none)) = 0
    BY <1>1, <2>1, UnfinishedIs
  <2>3. QED
    BY <2>2, EmptySeq DEF ByteStrings, none
<1>10. Reference(none) = none
  BY <1>1, <1>8, <1>9, DecoderAssumption DEF Reference, Whole
<1>11. ~(Len(none) > MaxFrame)
  BY <1>1, DecoderAssumption
<1>12. QED
  BY <1>2, <1>5, <1>7, <1>9, <1>10, <1>3, <1>11, Zenon DEF DecoderInv, FrameInv, none

\* What the peer writes and what is read next is not looked at.
LEMMA StreamKeeps ==
  ASSUME DecoderInv, (\E byte \in Bytes \cup {NL} : Write(byte)) \/ (\E n \in 1 .. MaxRead : Read(n))
  PROVE  DecoderInv'
<1>1. /\ stream \in ByteStrings /\ remaining \in ByteStrings /\ Len(remaining) \in Nat /\ Len(stream) \in Nat
      /\ read \in 0 .. Len(stream) /\ Len(remaining) <= read /\ discarding \in BOOLEAN
      /\ remaining = SubSeq(stream, read - Len(remaining) + 1, read)
  BY LenProperties DEF DecoderInv, PieceInv, ByteStrings
<1>2. SUFFICES PieceInv' /\ Fed' = Fed /\ UNCHANGED <<decoded, discarding, buffer>>
  BY DEF DecoderInv, FrameInv
<1>3. ASSUME NEW byte \in Bytes \cup {NL}, Write(byte)
      PROVE  PieceInv' /\ Fed' = Fed /\ UNCHANGED <<decoded, discarding, buffer>>
  <2>1. /\ stream' = Append(stream, byte)
        /\ UNCHANGED <<read, remaining, decoded, discarding, buffer>>
    BY <1>3 DEF Write
  <2>2. /\ stream' \in ByteStrings /\ Len(stream') = Len(stream) + 1
        /\ \A i \in 1 .. Len(stream) : stream'[i] = stream[i]
    BY <1>1, <2>1 DEF ByteStrings
  <2>3. ASSUME NEW n \in 0 .. Len(stream), NEW m \in 0 .. n
        PROVE  SubSeq(stream', m + 1, n) = SubSeq(stream, m + 1, n)
    <3>1. n \in 0 .. Len(stream')
      BY <1>1, <2>2
    <3>2. /\ SubSeq(stream, m + 1, n) \in ByteStrings /\ Len(SubSeq(stream, m + 1, n)) = n - m
          /\ \A i \in 1 .. n - m : SubSeq(stream, m + 1, n)[i] = stream[m + i]
          /\ SubSeq(stream', m + 1, n) \in ByteStrings /\ Len(SubSeq(stream', m + 1, n)) = n - m
          /\ \A i \in 1 .. n - m : SubSeq(stream', m + 1, n)[i] = stream'[m + i]
      BY <1>1, <2>2, <3>1, PartOf
    <3>3. \A i \in 1 .. n - m : m + i \in 1 .. Len(stream)
      BY <1>1
    <3>4. QED
      BY <2>2, <3>2, <3>3, SeqEqual DEF ByteStrings
  <2> DEFINE p == read - Len(remaining)
  <2>4. p \in 0 .. read /\ p \in 0 .. Len(stream) /\ 0 \in 0 .. p /\ 0 + 1 = 1
    BY <1>1
  <2>5. SubSeq(stream', p + 1, read) = SubSeq(stream, p + 1, read)
    BY <1>1, <2>3, <2>4
  <2>6. SubSeq(stream', 0 + 1, p) = SubSeq(stream, 0 + 1, p)
    BY <2>3, <2>4
  <2>7. PieceInv'
    BY <1>1, <2>1, <2>2, <2>5 DEF PieceInv
  <2>8. Fed' = Fed
    BY <2>1, <2>4, <2>6 DEF Fed
  <2>9. QED
    BY <2>1, <2>7, <2>8
<1>4. ASSUME NEW n \in 1 .. MaxRead, Read(n)
      PROVE  PieceInv' /\ Fed' = Fed /\ UNCHANGED <<decoded, discarding, buffer>>
  <2>1. /\ remaining = <<>> /\ read + n <= Len(stream) /\ read' = read + n
        /\ remaining' = SubSeq(stream, read + 1, read + n)
        /\ UNCHANGED <<stream, decoded, discarding, buffer>>
    BY <1>4 DEF Read
  <2>2. n \in Nat /\ Len(remaining) = 0
    BY <2>1, DecoderAssumption
  <2>3. read + n \in 0 .. Len(stream) /\ read \in 0 .. read + n /\ (read + n) - read = n
        /\ (read + n) - n = read /\ read - 0 = read
    BY <1>1, <2>1, <2>2
  <2>4. remaining' \in ByteStrings /\ Len(remaining') = n
    BY <1>1, <2>1, <2>3, PartOf
  <2>5. read' - Len(remaining') = read /\ Len(remaining') <= read'
    BY <1>1, <2>1, <2>2, <2>3, <2>4
  <2>6. PieceInv'
    BY <1>1, <2>1, <2>3, <2>4, <2>5 DEF PieceInv
  <2>7. Fed' = Fed
    BY <2>1, <2>2, <2>3, <2>5 DEF Fed
  <2>8. QED
    BY <2>1, <2>6, <2>7
<1>5. QED
  BY <1>2, <1>3, <1>4

\* The frame that is skipped goes on, or ends.
LEMMA SkipKeeps ==
  ASSUME DecoderInv, SkipPiece \/ SkipToBoundary
  PROVE  DecoderInv'
<1> DEFINE s == Fed
           f == Unfinished(s)
<1>1. /\ Numbered(s) /\ decoded = Reference(s)
      /\ discarding <=> Len(f) > MaxFrame
      /\ buffer = IF discarding THEN <<>> ELSE f
  BY DEF DecoderInv, FrameInv
<1>2. discarding
  BY DEF SkipPiece, SkipToBoundary
<1>3. CASE SkipPiece
  <2> DEFINE t == remaining
  <2>1. remaining' = <<>> /\ ~HasBoundary /\ UNCHANGED <<stream, read, buffer, discarding, decoded>>
    BY <1>3 DEF SkipPiece
  <2>2. discarding' \in BOOLEAN
    BY <1>2, <2>1
  <2>3. /\ PieceInv' /\ Fed' = s \o t /\ s \in ByteStrings /\ f \in ByteStrings /\ t \in ByteStrings
        /\ \A i \in 1 .. Len(t) : t[i] # NL
    BY <2>1, <2>2, TakePiece
  <2> HIDE DEF t, f, s
  <2>4. Len(f \o t) > MaxFrame
    <3>1. Len(f) \in Nat /\ Len(t) \in Nat /\ Len(f \o t) = Len(f) + Len(t)
      BY <2>3, ConcatProperties, LenProperties DEF ByteStrings
    <3>2. QED
      BY <1>1, <1>2, <3>1, DecoderAssumption
  <2>5. /\ Reference(s) = IF Len(f) > MaxFrame THEN Append(Whole(s), TooLarge) ELSE Whole(s)
        /\ Unfinished(s \o t) = f \o t /\ Numbered(s \o t)
        /\ Reference(s \o t) = IF Len(f \o t) > MaxFrame
                               THEN Append(Whole(s), TooLarge) ELSE Whole(s)
    BY <1>1, <2>3, ReferenceGrows DEF f
  <2>6. Reference(s \o t) = Reference(s)
    BY <1>1, <1>2, <2>4, <2>5, Zenon
  <2>7. FrameInv'
    BY <1>1, <1>2, <2>1, <2>3, <2>4, <2>5, <2>6, Zenon DEF FrameInv
  <2>8. QED
    BY <2>3, <2>7 DEF DecoderInv
<1>4. CASE SkipToBoundary
  <2> DEFINE t == SubSeq(remaining, 1, Boundary)
  <2>1. /\ remaining' = Rest /\ HasBoundary /\ discarding' = FALSE
        /\ UNCHANGED <<stream, read, buffer, decoded>>
    BY <1>4 DEF SkipToBoundary
  <2>2. discarding' \in BOOLEAN
    BY <2>1
  <2>3. /\ PieceInv' /\ Fed' = Append(s \o t, NL) /\ s \in ByteStrings /\ f \in ByteStrings /\ t \in ByteStrings
        /\ \A i \in 1 .. Len(t) : t[i] # NL
    BY <2>1, <2>2, TakeFrame
  <2> HIDE DEF t, f, s
  <2>4. Len(f \o t) > MaxFrame
    <3>1. Len(f) \in Nat /\ Len(t) \in Nat /\ Len(f \o t) = Len(f) + Len(t)
      BY <2>3, ConcatProperties, LenProperties DEF ByteStrings
    <3>2. QED
      BY <1>1, <1>2, <3>1, DecoderAssumption
  <2>5. /\ Reference(s) = IF Len(f) > MaxFrame THEN Append(Whole(s), TooLarge) ELSE Whole(s)
        /\ Unfinished(Append(s \o t, NL)) = <<>> /\ Numbered(Append(s \o t, NL))
        /\ Reference(Append(s \o t, NL)) = Append(Whole(s), Reported(f \o t))
    BY <1>1, <2>3, ReferenceGrows DEF f
  <2>6. Reference(Append(s \o t, NL)) = Reference(s)
    BY <1>1, <1>2, <2>4, <2>5, Zenon DEF Reported
  <2>7. ~(Len(<<>>) > MaxFrame)
    BY DecoderAssumption
  <2>8. FrameInv'
    BY <1>1, <1>2, <2>1, <2>3, <2>5, <2>6, <2>7, Zenon DEF FrameInv
  <2>9. QED
    BY <2>3, <2>8 DEF DecoderInv
<1>5. QED
  BY <1>3, <1>4

\* The frame that is kept goes on, outgrows the limit, or ends.
LEMMA KeepKeeps ==
  ASSUME DecoderInv, Keep \/ Cut
  PROVE  DecoderInv'
<1> DEFINE s == Fed
           f == Unfinished(s)
<1>1. /\ Numbered(s) /\ decoded = Reference(s)
      /\ discarding <=> Len(f) > MaxFrame
      /\ buffer = IF discarding THEN <<>> ELSE f
  BY DEF DecoderInv, FrameInv
<1>2. ~discarding
  BY DEF Keep, Cut
<1>3. buffer = f /\ ~(Len(f) > MaxFrame)
  BY <1>1, <1>2, Zenon
<1>4. CASE Keep
  <2> DEFINE t == remaining
  <2>1. /\ remaining' = <<>> /\ ~HasBoundary /\ UNCHANGED <<stream, read>>
        /\ \/ /\ Len(t) > MaxFrame - Len(buffer)
              /\ buffer' = <<>> /\ discarding' = TRUE /\ decoded' = Append(decoded, TooLarge)
           \/ /\ ~(Len(t) > MaxFrame - Len(buffer))
              /\ buffer' = buffer \o t /\ discarding' = discarding /\ decoded' = decoded
    BY <1>4, Zenon DEF Keep
  <2>2. discarding' \in BOOLEAN
    BY <2>1, Zenon DEF DecoderInv, PieceInv
  <2>3. /\ PieceInv' /\ Fed' = s \o t /\ s \in ByteStrings /\ f \in ByteStrings /\ t \in ByteStrings
        /\ \A i \in 1 .. Len(t) : t[i] # NL
    BY <2>1, <2>2, TakePiece
  <2> HIDE DEF t, f, s
  <2>4. Len(f \o t) > MaxFrame <=> Len(t) > MaxFrame - Len(buffer)
    <3>1. Len(f) \in Nat /\ Len(t) \in Nat /\ Len(f \o t) = Len(f) + Len(t)
      BY <2>3, ConcatProperties, LenProperties DEF ByteStrings
    <3>2. Len(buffer) = Len(f)
      BY <1>3, Zenon
    <3>3. QED
      BY <3>1, <3>2, DecoderAssumption
  <2>5. /\ Reference(s) = IF Len(f) > MaxFrame THEN Append(Whole(s), TooLarge) ELSE Whole(s)
        /\ Unfinished(s \o t) = f \o t /\ Numbered(s \o t)
        /\ Reference(s \o t) = IF Len(f \o t) > MaxFrame
                               THEN Append(Whole(s), TooLarge) ELSE Whole(s)
    BY <1>1, <2>3, ReferenceGrows DEF f
  <2>6. decoded = Whole(s)
    BY <1>1, <1>3, <2>5, Zenon
  <2>7. CASE Len(t) > MaxFrame - Len(buffer)
    <3>1. Reference(s \o t) = decoded' /\ discarding' /\ buffer' = <<>>
      BY <2>1, <2>4, <2>5, <2>6, <2>7, Zenon
    <3>2. FrameInv'
      BY <2>3, <2>4, <2>5, <2>7, <3>1, Zenon DEF FrameInv
    <3>3. QED
      BY <2>3, <3>2 DEF DecoderInv
  <2>8. CASE ~(Len(t) > MaxFrame - Len(buffer))
    <3>1. Reference(s \o t) = decoded' /\ ~discarding' /\ buffer' = f \o t
      <4>1. buffer' = buffer \o t /\ discarding' = discarding /\ decoded' = decoded
        BY <2>1, <2>8, Zenon
      <4>2. Reference(s \o t) = decoded
        BY <2>4, <2>5, <2>6, <2>8, Zenon
      <4>3. QED
        BY <1>2, <1>3, <4>1, <4>2, Zenon
    <3>2. FrameInv'
      BY <2>3, <2>4, <2>5, <2>8, <3>1, Zenon DEF FrameInv
    <3>3. QED
      BY <2>3, <3>2 DEF DecoderInv
  <2>9. QED
    BY <2>7, <2>8
<1>5. CASE Cut
  <2> DEFINE t == SubSeq(remaining, 1, Boundary)
  <2>1. /\ remaining' = Rest /\ HasBoundary /\ buffer' = <<>>
        /\ UNCHANGED <<stream, read, discarding>>
        /\ decoded' = Append(decoded, IF Len(buffer) + Boundary > MaxFrame THEN TooLarge ELSE buffer \o t)
    BY <1>5 DEF Cut
  <2>2. discarding' \in BOOLEAN
    BY <2>1 DEF DecoderInv, PieceInv
  <2>3. /\ PieceInv' /\ Fed' = Append(s \o t, NL) /\ s \in ByteStrings /\ f \in ByteStrings /\ t \in ByteStrings
        /\ \A i \in 1 .. Len(t) : t[i] # NL
        /\ Len(t) = Boundary
    BY <2>1, <2>2, TakeFrame
  <2> HIDE DEF t, f, s
  <2>4. Len(f \o t) = Len(buffer) + Boundary
    <3>1. Len(f \o t) = Len(f) + Len(t)
      BY <2>3, ConcatProperties DEF ByteStrings
    <3>2. QED
      BY <1>3, <2>3, <3>1, Zenon
  <2>5. /\ Reference(s) = IF Len(f) > MaxFrame THEN Append(Whole(s), TooLarge) ELSE Whole(s)
        /\ Unfinished(Append(s \o t, NL)) = <<>> /\ Numbered(Append(s \o t, NL))
        /\ Reference(Append(s \o t, NL)) = Append(Whole(s), Reported(f \o t))
    BY <1>1, <2>3, ReferenceGrows DEF f
  <2>6. decoded = Whole(s)
    BY <1>1, <1>3, <2>5, Zenon
  <2>7. Reported(f \o t) = IF Len(buffer) + Boundary > MaxFrame THEN TooLarge ELSE buffer \o t
    BY <1>3, <2>4, Zenon DEF Reported
  <2>8. ~(Len(<<>>) > MaxFrame)
    BY DecoderAssumption
  <2>9. decoded' = Reference(Append(s \o t, NL))
    BY <2>1, <2>5, <2>6, <2>7, Zenon
  <2>10. FrameInv'
    BY <1>2, <2>1, <2>3, <2>5, <2>8, <2>9, Zenon DEF FrameInv
  <2>11. QED
    BY <2>3, <2>10 DEF DecoderInv
<1>6. QED
  BY <1>4, <1>5

\* Every step of the peer and of the connection task keeps the invariant.
LEMMA DecoderStep == DecoderInv /\ [DecoderNext]_decoderVars => DecoderInv'
<1> SUFFICES ASSUME DecoderInv, [DecoderNext]_decoderVars PROVE DecoderInv'
  OBVIOUS
<1>1. CASE DecoderNext
  BY <1>1, StreamKeeps, SkipKeeps, KeepKeeps DEF DecoderNext, Feed
<1>2. CASE UNCHANGED decoderVars
  BY <1>2 DEF decoderVars, DecoderInv, PieceInv, FrameInv, Fed
<1>3. QED
  BY <1>1, <1>2

\* At every turn of the loop of feed the decoder has returned what the reference
\* says of the bytes it has looked at, for any bytes, pieces and limit.
THEOREM DecoderInvariant == DecoderSpec => []DecoderInv
BY DecoderInitial, DecoderStep, PTL DEF DecoderSpec

\* However read() cuts the stream, feed returns one answer for each frame, in their
\* order, and keeps what the limit allows of the unfinished one.
THEOREM PiecesAreIrrelevant == DecoderSpec => []FragmentationIrrelevant
<1>1. DecoderInv => FragmentationIrrelevant
  <2> SUFFICES ASSUME DecoderInv, remaining = <<>>
               PROVE  LET s == SubSeq(stream, 1, read) IN
                      /\ decoded = Reference(s)
                      /\ buffer = IF Len(Unfinished(s)) > MaxFrame THEN <<>> ELSE Unfinished(s)
    BY DEF FragmentationIrrelevant
  <2>1. read - Len(remaining) = read
    <3>1. Len(remaining) = 0 /\ read \in Int
      BY EmptySeq, LenProperties DEF DecoderInv, PieceInv, ByteStrings
    <3>2. QED
      BY <3>1
  <2>2. Fed = SubSeq(stream, 1, read)
    BY <2>1, Zenon DEF Fed
  <2>3. QED
    BY <2>2, Zenon DEF DecoderInv, FrameInv
<1>2. QED
  BY <1>1, DecoderInvariant, PTL
=============================================================================
