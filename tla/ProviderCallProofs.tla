------------------------- MODULE ProviderCallProofs -------------------------
(***************************************************************************)
(* The two kinds of calls that hold a provider's quota for long: an agent  *)
(* process with its cleanup, and a chat completion with its nested         *)
(* retries, for any number of attempts, delays, calls and capacity; then   *)
(* the assembly of the providers, for any file and registry.               *)
(***************************************************************************)
EXTENDS AgentProcess, HttpRetry, Assembly, FiniteSetTheorems, TLAPS

-----------------------------------------------------------------------------
(* The agent process. *)

\* What there can be of the process in each phase.  The leader and the group
\* are gone once SIGKILL was sent or the group was found gone, unless the
\* cleanup failed; and what has left the group and closed the pipes can only
\* start more of the kind.
ProcessWhere ==
  /\ phase = "queued" => spawn = "none"
  /\ phase = "run" => spawn # "none"
  /\ phase \in {"term", "drain", "reap"} => spawn = "ok"
  /\ spawn = "pending" => phase \in {"run", "await_spawn"}
  /\ leader = "none" => kids = {}
  /\ phase = "drain" /\ ~failed => leader # "alive" /\ InGroup = {}
  /\ phase = "reap" => failed
  /\ phase = "ended" /\ ~failed => leader \in {"none", "reaped"} /\ kids \subseteq {"detached"}

\* What the call will report.
ProcessReport ==
  /\ phase \in {"queued", "run"} => cancels = 0
  /\ phase = "queued" => directory = "none"
  /\ cancels > 0 => outcome = IF directory = "left" THEN "os_error" ELSE "cancelled"
  /\ phase = "ended" /\ failed => outcome # "ok"

\* The inductive invariant of the agent call.
ProcessInv == ProcessTypeOK /\ ProcessWhere /\ ProcessReport

\* Nothing has been started when the call waits for its quota.
LEMMA ProcessInitial == ProcessInit => ProcessInv
<1> SUFFICES ASSUME ProcessInit PROVE ProcessInv
  OBVIOUS
<1>1. ProcessTypeOK
  <2>1. lease = (phase \notin {"queued", "ended"})
    BY Zenon DEF ProcessInit
  <2>2. /\ (leader = "none") = (spawn # "ok")
        /\ (directory = "there") = (phase \notin {"queued", "ended"})
    BY Zenon DEF ProcessInit
  <2>3. /\ phase \in {"queued", "run", "await_spawn", "term", "drain", "reap", "ended"}
        /\ spawn \in {"none", "pending", "ok", "error"}
        /\ leader \in {"none", "alive", "exited", "reaped"}
        /\ kids \subseteq KidKinds /\ outcome \in Outcomes /\ cancels \in 0..2
        /\ directory \in {"none", "there", "removed", "left"}
    BY DEF ProcessInit, KidKinds, Outcomes
  <2>4. failed \in BOOLEAN
    BY Zenon DEF ProcessInit
  <2>5. QED
    BY <2>1, <2>2, <2>3, <2>4, Zenon DEF ProcessTypeOK
<1>2. ProcessWhere /\ ProcessReport
  BY DEF ProcessInit, ProcessWhere, ProcessReport, InGroup
<1>3. QED
  BY <1>1, <1>2 DEF ProcessInv

\* Every step of the call, of its cleanup and of the processes preserves the
\* invariant.
LEMMA ProcessStep == ProcessInv /\ [ProcessNext]_processVars => ProcessInv'
<1> SUFFICES ASSUME ProcessInv, [ProcessNext]_processVars PROVE ProcessInv'
  OBVIOUS
<1> USE DEF ProcessInv, ProcessTypeOK, ProcessWhere, ProcessReport, KidKinds, Outcomes, InGroup
<1>0. ASSUME phase = "queued", phase' = "ended", cancels' \in 0..2,
             outcome' \in {"os_error", "cancelled"}, cancels' > 0 => outcome' = "cancelled",
             UNCHANGED <<spawn, osVars, lease, directory, failed>>
      PROVE  ProcessInv'
  <2>1. /\ ~lease /\ directory = "none"
        /\ spawn = "none" /\ leader = "none" /\ kids = {}
    BY <1>0
  <2>2. ProcessTypeOK'
    BY <1>0, <2>1 DEF osVars
  <2>3. ProcessWhere' /\ ProcessReport'
    BY <1>0, <2>1 DEF osVars
  <2>4. QED
    BY <2>2, <2>3
<1>1. CASE Acquire \/ DirectoryFails
  <2>1. CASE Acquire
    BY <2>1 DEF Acquire, osVars
  <2>2. CASE DirectoryFails
    BY <1>0, <2>2 DEF DirectoryFails
  <2>3. QED
    BY <1>1, <2>1, <2>2
<1>2. CASE Spawned
  BY <1>2 DEF Spawned
<1>3. ASSUME NEW result \in Outcomes, Leave(result), result = "cancelled" \/ cancels' = cancels,
             cancels' \in 0..2
      PROVE  ProcessInv'
  BY <1>3 DEF Leave, osVars
<1>4. CASE SpawnFails \/ Deadline \/ OutputLimit \/ Answered
  BY <1>3, <1>4 DEF SpawnFails, Deadline, OutputLimit, Answered
<1>5. CASE CancelRun
  <2>1. CASE /\ phase = "queued"
             /\ phase' = "ended" /\ outcome' = "cancelled" /\ cancels' = 1
             /\ UNCHANGED <<spawn, osVars, lease, directory, failed>>
    BY <1>0, <2>1
  <2>2. CASE Leave("cancelled") /\ cancels' = 1
    BY <1>3, <2>2
  <2>3. CASE CancelCleanup
    BY <2>3 DEF CancelCleanup, osVars
  <2>4. QED
    BY <1>5, <2>1, <2>2, <2>3 DEF CancelRun
<1>6. CASE AwaitSpawn
  BY <1>6 DEF AwaitSpawn, Finish, osVars
<1>7. CASE GroupGone
  BY <1>7 DEF GroupGone, GroupExists, osVars
<1>8. CASE GraceOver
  BY <1>8 DEF GraceOver, osVars
<1>9. CASE Drained
  <2>1. PICK bad \in {failed, TRUE} : Finish(bad)
    BY <1>9 DEF Drained
  <2>2. /\ phase = "drain" /\ leader = "reaped" /\ kids \cap {"piped", "escaped"} = {}
        /\ UNCHANGED <<spawn, leader, kids, cancels>>
    BY <1>9 DEF Drained, PipesClosed, osVars
  <2>3. bad \in BOOLEAN /\ (failed => bad)
    OBVIOUS
  <2>4. ~bad => kids \subseteq {"detached"}
    BY <2>2, <2>3
  <2>5. QED
    BY <2>1, <2>2, <2>3, <2>4 DEF Finish
<1>10. CASE DrainTimesOut
  BY <1>10 DEF DrainTimesOut
<1>11. CASE Reaped
  BY <1>11 DEF Reaped, Finish, osVars
<1>12. CASE Environment
  BY <1>12 DEF Environment, Parents
<1>13. CASE ChildWatcher
  BY <1>13 DEF ChildWatcher
<1>14. CASE UNCHANGED processVars
  BY <1>14 DEF processVars
<1>15. QED
  BY <1>1, <1>2, <1>4, <1>5, <1>6, <1>7, <1>8, <1>9, <1>10, <1>11, <1>12, <1>13, <1>14
     DEF ProcessNext, ProcessProgress

\* Every reachable state of an agent call satisfies the inductive invariant.
THEOREM ProcessInvariant == ProcessSpec => []ProcessInv
BY ProcessInitial, ProcessStep, PTL DEF ProcessSpec

\* The lease of run_antigravity outlives the agent's process group and whoever
\* holds its pipes, unless the cleanup failed, and then the call does not succeed.
THEOREM QuotaCoversTheProcess == ProcessSpec => []QuotaCoversProcess
<1>1. ProcessInv => QuotaCoversProcess
  BY DEF ProcessInv, ProcessTypeOK, ProcessWhere, ProcessReport, QuotaCoversProcess
<1>2. QED
  BY <1>1, ProcessInvariant, PTL

\* However often and wherever the call is cancelled, it ends as cancelled, unless
\* its directory cannot be removed.
THEOREM CancellationIsKept == ProcessSpec => []CancellationKept
<1>1. ProcessInv => CancellationKept
  BY DEF ProcessInv, ProcessReport, CancellationKept
<1>2. QED
  BY <1>1, ProcessInvariant, PTL

-----------------------------------------------------------------------------
(* The nested retry loops. *)

\* The requests that the counters of the two loops account for.
Spent(k) == (k.llm - 1) * MaxAttempts + k.http

\* How many requests a call may send in all.
Budget(k) == IF k.kind \in LlmKinds THEN MaxAttempts * MaxAttempts ELSE MaxAttempts

Sleeping == {"http_sleep", "llm_sleep"}

\* What the history of a call owes to its phase and counters.  Every request but
\* the first follows a backoff, and the one that a sleeping call will send next
\* is still within the budget.
CallHistory(k, l) ==
  /\ k.phase \in {"idle", "queued"} => l.sent = 0 /\ l.slept = 0 /\ l.streak = 0
  /\ k.phase \in {"queued", "request"} \cup Sleeping =>
       k.http \in 1..MaxAttempts /\ k.llm \in 1..MaxAttempts
  /\ k.phase \in {"queued", "llm_sleep"} => k.kind \in LlmKinds
  /\ k.phase \in {"request"} \cup Sleeping =>
       /\ k.kind \notin LlmKinds => k.llm = 1
       /\ l.sent \in 1..Spent(k)
  /\ k.phase = "queued" => k.http = 1 /\ k.llm = 1
  /\ k.phase = "request" => l.streak < k.http /\ l.slept <= (l.sent - 1) * MaxDelay
  /\ k.phase \in Sleeping => l.streak <= k.http /\ l.slept <= l.sent * MaxDelay
  /\ k.phase = "http_sleep" => Again(k.http)
  /\ k.phase = "llm_sleep" => Again(k.llm) /\ l.streak = 0
  /\ k.phase \in Ended =>
       /\ l.sent <= Budget(k) /\ l.slept <= (Budget(k) - 1) * MaxDelay
       /\ l.streak <= MaxAttempts

\* The calls that hold a lease are the ones of an LLM between their first
\* request and their end.
LeaseExact ==
  \A c \in Calls :
    c \in leases <=> call[c].kind \in LlmKinds /\ call[c].phase \in {"request"} \cup Sleeping

\* The LLM quota is not exceeded.
LeaseBound == IsFiniteSet(leases) /\ Cardinality(leases) <= Capacity

\* The types of RetryTypeOK, but for the time slept: the provers know that a
\* power of two is an integer and not that it is positive.
RetryTypes ==
  /\ call \in [Calls -> [phase : Phases, kind : Kinds, http : 0..MaxAttempts, llm : 0..MaxAttempts]]
  /\ leases \subseteq Calls
  /\ log \in [Calls -> [sent : Nat, slept : Int, streak : Nat]]

\* The inductive invariant of the calls.
RetryInv ==
  /\ RetryTypes /\ LeaseExact /\ LeaseBound
  /\ \A c \in Calls : CallHistory(call[c], log[c])

\* The constants, one by one.
LEMMA RetryConstants ==
  /\ MaxAttempts \in Nat /\ MaxAttempts >= 1 /\ Capacity \in Nat /\ Capacity >= 1
  /\ BaseDelay \in Nat /\ MaxDelay \in Nat
  /\ MaxAttempts * MaxAttempts \in Nat
BY RetryAssumption

\* A product grows with its factor.
LEMMA ProductGrows ==
  ASSUME NEW a \in Int, NEW b \in Int, a <= b, NEW d \in Nat
  PROVE  a * d <= b * d
OBVIOUS

\* A backoff is at most max_delay.
LEMMA DelayBound ==
  ASSUME NEW attempt \in 1..MaxAttempts
  PROVE  Delay(attempt) \in Int /\ Delay(attempt) <= MaxDelay
<1>1. attempt - 1 \in Nat
  BY RetryConstants
<1>2. 2^(attempt - 1) \in Int
  BY <1>1
<1>3. BaseDelay * 2^(attempt - 1) \in Int
  BY <1>2, RetryConstants
<1>4. QED
  BY <1>3, RetryConstants DEF Delay

\* Within its counters a call is within its budget, and strictly so while a loop
\* will go round again.
LEMMA SpentBound ==
  ASSUME NEW k \in [phase : Phases, kind : Kinds, http : 0..MaxAttempts, llm : 0..MaxAttempts],
         k.http >= 1, k.llm >= 1, k.kind \notin LlmKinds => k.llm = 1
  PROVE  /\ Spent(k) \in Nat /\ Budget(k) \in Nat /\ Spent(k) <= Budget(k)
         /\ Again(k.http) => Spent(k) < Budget(k)
         /\ k.kind \in LlmKinds /\ Again(k.llm) => Spent(k) < Budget(k)
<1> USE RetryConstants
<1> DEFINE h == k.http  m == k.llm
<1>1. h \in 1..MaxAttempts /\ m \in 1..MaxAttempts
  OBVIOUS
<1> HIDE DEF h, m
<1>2. (m - 1) * MaxAttempts <= (MaxAttempts - 1) * MaxAttempts /\ (m - 1) * MaxAttempts \in Nat
  BY <1>1, ProductGrows
<1>3. (MaxAttempts - 1) * MaxAttempts = MaxAttempts * MaxAttempts - MaxAttempts
  OBVIOUS
<1>4. m < MaxAttempts => (m - 1) * MaxAttempts <= MaxAttempts * MaxAttempts - 2 * MaxAttempts
  <2>1. SUFFICES ASSUME m < MaxAttempts
                 PROVE  (m - 1) * MaxAttempts <= (MaxAttempts - 2) * MaxAttempts
    OBVIOUS
  <2>2. QED
    BY <1>1, <2>1, ProductGrows
<1>5. m = 1 => (m - 1) * MaxAttempts = 0
  OBVIOUS
<1>6. Spent(k) = (m - 1) * MaxAttempts + h
  BY DEF Spent, h, m
<1>7. k.kind \notin LlmKinds => m = 1
  BY DEF m
<1>8. (Again(k.http) <=> h < MaxAttempts) /\ (Again(k.llm) <=> m < MaxAttempts)
  BY DEF Again, h, m
<1>9. CASE k.kind \in LlmKinds
  BY <1>1, <1>2, <1>3, <1>4, <1>6, <1>8, <1>9 DEF Budget
<1>10. CASE k.kind \notin LlmKinds
  BY <1>1, <1>5, <1>6, <1>7, <1>8, <1>10 DEF Budget
<1>11. QED
  BY <1>9, <1>10

\* No call has started.
LEMMA RetryInitial == RetryInit => RetryInv
<1> SUFFICES ASSUME RetryInit PROVE RetryInv
  OBVIOUS
<1> USE RetryConstants
<1>1. RetryTypes
  BY DEF RetryInit, RetryTypes, Phases, Kinds, LlmKinds
<1>2. LeaseExact
  BY DEF RetryInit, LeaseExact, Sleeping
<1>3. LeaseBound
  BY FS_EmptySet DEF RetryInit, LeaseBound
<1>4. \A c \in Calls : CallHistory(call[c], log[c])
  BY DEF RetryInit, CallHistory, Sleeping, Ended
<1>5. QED
  BY <1>1, <1>2, <1>3, <1>4 DEF RetryInv

\* A step that changes one call leaves the history of the others alone.
LEMMA OtherCalls ==
  ASSUME RetryInv, NEW c \in Calls, NEW k, NEW l,
         call' = [call EXCEPT ![c] = k], log' = [log EXCEPT ![c] = l],
         k \in [phase : Phases, kind : Kinds, http : 0..MaxAttempts, llm : 0..MaxAttempts],
         l \in [sent : Nat, slept : Int, streak : Nat],
         CallHistory(k, l), leases' \subseteq Calls, LeaseBound',
         leases' \ {c} = leases \ {c},
         c \in leases' <=> k.kind \in LlmKinds /\ k.phase \in {"request"} \cup Sleeping
  PROVE  RetryInv'
<1>1. call'[c] = k /\ log'[c] = l
  BY DEF RetryInv, RetryTypes
<1>2. \A d \in Calls \ {c} : call'[d] = call[d] /\ log'[d] = log[d] /\ (d \in leases' <=> d \in leases)
  BY DEF RetryInv, RetryTypes
<1>3. RetryTypes'
  BY DEF RetryInv, RetryTypes
<1>4. LeaseExact'
  BY <1>1, <1>2 DEF RetryInv, LeaseExact
<1>5. \A d \in Calls : CallHistory(call[d], log[d])'
  <2> SUFFICES ASSUME NEW d \in Calls PROVE CallHistory(call'[d], log'[d])
    BY DEF CallHistory
  <2>1. CASE d = c
    BY <1>1, <2>1
  <2>2. CASE d # c
    BY <1>2, <2>2 DEF RetryInv
  <2>3. QED
    BY <2>1, <2>2
<1>6. QED
  BY <1>3, <1>4, <1>5 DEF RetryInv

\* Giving a lease back, or keeping it, exceeds no quota.
LEMMA FewerLeases ==
  ASSUME RetryInv, NEW c \in Calls, leases' = leases \ {c} \/ leases' = leases
  PROVE  LeaseBound' /\ leases' \subseteq Calls /\ leases' \ {c} = leases \ {c}
<1>1. IsFiniteSet(leases) /\ Cardinality(leases) <= Capacity /\ leases \subseteq Calls
  BY DEF RetryInv, LeaseBound, RetryTypes
<1>2. CASE leases' = leases
  BY <1>1, <1>2 DEF LeaseBound
<1>3. CASE leases' = leases \ {c}
  <2>1. IsFiniteSet(leases \ {c}) /\ Cardinality(leases \ {c}) <= Cardinality(leases)
    BY <1>1, FS_RemoveElement, FS_CardinalityType
  <2>2. Cardinality(leases \ {c}) \in Nat /\ Cardinality(leases) \in Nat
    BY <1>1, <2>1, FS_CardinalityType
  <2>3. QED
    BY <1>1, <1>3, <2>1, <2>2, RetryConstants DEF LeaseBound
<1>4. QED
  BY <1>2, <1>3

\* The start of a call, refused or not.
LEMMA StartKeeps ==
  ASSUME RetryInv, NEW c \in Calls, NEW kind \in Kinds, NEW valid \in BOOLEAN, Start(c, kind, valid)
  PROVE  RetryInv'
<1> USE RetryConstants
<1> DEFINE k == [phase |-> IF ~valid THEN "failed" ELSE IF kind \in LlmKinds THEN "queued" ELSE "request",
                 kind |-> kind, http |-> 1, llm |-> 1]
           l == [log[c] EXCEPT !.sent = IF kind \in LlmKinds THEN 0 ELSE 1]
<1>1. /\ call[c].phase = "idle" /\ (kind \notin LlmKinds => valid)
      /\ call' = [call EXCEPT ![c] = k] /\ log' = [log EXCEPT ![c] = l] /\ leases' = leases
  BY DEF Start, RetryInv, RetryTypes
<1>2. k \in [phase : Phases, kind : Kinds, http : 0..MaxAttempts, llm : 0..MaxAttempts]
  BY DEF Phases, Ended
<1>3. log[c] \in [sent : Nat, slept : Int, streak : Nat] /\ l \in [sent : Nat, slept : Int, streak : Nat]
  BY DEF RetryInv, RetryTypes
<1>4. log[c].sent = 0 /\ log[c].slept = 0 /\ log[c].streak = 0
  BY <1>1 DEF RetryInv, CallHistory
<1>5. l.slept = 0 /\ l.streak = 0 /\ l.sent = IF kind \in LlmKinds THEN 0 ELSE 1
  BY <1>3, <1>4
<1>6. /\ k.http = 1 /\ k.llm = 1 /\ k.kind = kind
      /\ k.phase = IF ~valid THEN "failed" ELSE IF kind \in LlmKinds THEN "queued" ELSE "request"
  OBVIOUS
<1> HIDE DEF k, l
<1>7. Spent(k) = 1 /\ Budget(k) \in Nat \ {0}
  BY <1>6 DEF Spent, Budget
<1>8. 0 <= (Budget(k) - 1) * MaxDelay
  BY <1>7
<1>9. CallHistory(k, l)
  BY <1>1, <1>5, <1>6, <1>7, <1>8 DEF CallHistory, Sleeping, Ended
<1>10. c \notin leases
  BY <1>1 DEF RetryInv, LeaseExact, Sleeping
<1>11. c \in leases' <=> k.kind \in LlmKinds /\ k.phase \in {"request"} \cup Sleeping
  BY <1>1, <1>6, <1>10 DEF Sleeping
<1>12. QED
  BY <1>1, <1>2, <1>3, <1>9, <1>11, FewerLeases, OtherCalls

\* A lease is granted only within the capacity.
LEMMA LeaseKeeps ==
  ASSUME RetryInv, NEW c \in Calls, Lease(c)
  PROVE  RetryInv'
<1> USE RetryConstants
<1> DEFINE k == [call[c] EXCEPT !.phase = "request"]
           l == [log[c] EXCEPT !.sent = 1]
<1>1. /\ call[c].phase = "queued" /\ Cardinality(leases) < Capacity /\ leases' = leases \cup {c}
      /\ call' = [call EXCEPT ![c] = k] /\ log' = [log EXCEPT ![c] = l]
  BY DEF Lease, RetryInv, RetryTypes
<1>2. /\ call[c] \in [phase : Phases, kind : Kinds, http : 0..MaxAttempts, llm : 0..MaxAttempts]
      /\ k \in [phase : Phases, kind : Kinds, http : 0..MaxAttempts, llm : 0..MaxAttempts]
  BY DEF RetryInv, RetryTypes, Phases
<1>3. log[c] \in [sent : Nat, slept : Int, streak : Nat] /\ l \in [sent : Nat, slept : Int, streak : Nat]
  BY DEF RetryInv, RetryTypes
<1>4. /\ log[c].slept = 0 /\ log[c].streak = 0
      /\ call[c].http = 1 /\ call[c].llm = 1 /\ call[c].kind \in LlmKinds
  BY <1>1 DEF RetryInv, CallHistory
<1>5. l.slept = 0 /\ l.streak = 0 /\ l.sent = 1
  BY <1>3, <1>4
<1>6. k.http = 1 /\ k.llm = 1 /\ k.kind \in LlmKinds /\ k.phase = "request"
  BY <1>2, <1>4
<1> HIDE DEF k, l
<1>7. Spent(k) = 1
  BY <1>6 DEF Spent
<1>8. CallHistory(k, l)
  BY <1>5, <1>6, <1>7 DEF CallHistory, Sleeping, Ended
<1>9. LeaseBound' /\ leases' \subseteq Calls
  <2>1. IsFiniteSet(leases) /\ c \notin leases /\ leases \subseteq Calls
    BY <1>1 DEF RetryInv, RetryTypes, LeaseBound, LeaseExact, Sleeping
  <2>2. /\ IsFiniteSet(leases \cup {c}) /\ Cardinality(leases \cup {c}) = Cardinality(leases) + 1
        /\ Cardinality(leases) \in Nat
    BY <2>1, FS_AddElement, FS_CardinalityType
  <2>3. QED
    BY <1>1, <2>1, <2>2 DEF LeaseBound
<1>10. QED
  BY <1>1, <1>2, <1>3, <1>6, <1>8, <1>9, OtherCalls

\* A call that ends, from a request or in any other way, is within its budget and
\* has no lease.
LEMMA EndKeeps ==
  ASSUME RetryInv, NEW c \in Calls, NEW phase0 \in Ended, End(c, phase0),
         NEW l \in [sent : Nat, slept : Int, streak : Nat], log' = [log EXCEPT ![c] = l],
         call[c].phase \in {"queued", "request"} \cup Sleeping,
         l.sent = log[c].sent, l.slept = log[c].slept,
         \/ l.streak <= log[c].streak
         \/ call[c].phase = "request" /\ l.streak <= log[c].streak + 1
  PROVE  RetryInv'
<1> USE RetryConstants
<1> DEFINE k == [call[c] EXCEPT !.phase = phase0]
<1>1. call' = [call EXCEPT ![c] = k] /\ leases' = leases \ {c}
  BY DEF End, Release, RetryInv, RetryTypes
<1>2. /\ call[c] \in [phase : Phases, kind : Kinds, http : 0..MaxAttempts, llm : 0..MaxAttempts]
      /\ k \in [phase : Phases, kind : Kinds, http : 0..MaxAttempts, llm : 0..MaxAttempts]
      /\ log[c] \in [sent : Nat, slept : Int, streak : Nat]
  BY DEF RetryInv, RetryTypes, Phases
<1>3. k.phase = phase0 /\ k.kind = call[c].kind /\ Budget(k) = Budget(call[c])
  BY <1>2 DEF Budget
<1>4. CallHistory(call[c], log[c])
  BY DEF RetryInv
<1>5. /\ call[c].http \in 1..MaxAttempts /\ call[c].llm \in 1..MaxAttempts
      /\ call[c].kind \notin LlmKinds => call[c].llm = 1
  BY <1>4 DEF CallHistory
<1>6. /\ Spent(call[c]) \in Nat /\ Budget(call[c]) \in Nat /\ Spent(call[c]) <= Budget(call[c])
      /\ Again(call[c].http) => Spent(call[c]) < Budget(call[c])
      /\ call[c].kind \in LlmKinds /\ Again(call[c].llm) => Spent(call[c]) < Budget(call[c])
      /\ Budget(call[c]) >= 1
  <2>1. Budget(call[c]) >= 1
    BY DEF Budget
  <2>2. QED
    BY <1>2, <1>5, <2>1, SpentBound
<1>7. l.sent <= Budget(call[c]) /\ l.streak <= MaxAttempts
  BY <1>2, <1>4, <1>5, <1>6 DEF CallHistory, Sleeping
<1>8. l.slept <= (Budget(call[c]) - 1) * MaxDelay
  <2>1. CASE call[c].phase = "queued"
    <3>1. 0 <= (Budget(call[c]) - 1) * MaxDelay
      BY <1>6
    <3>2. QED
      BY <2>1, <3>1, <1>4 DEF CallHistory
  <2>2. CASE call[c].phase = "request"
    <3>1. l.slept <= (l.sent - 1) * MaxDelay
      BY <1>4, <2>2 DEF CallHistory
    <3>2. (l.sent - 1) * MaxDelay <= (Budget(call[c]) - 1) * MaxDelay
      BY <1>6, <1>7, ProductGrows
    <3>3. (l.sent - 1) * MaxDelay \in Int /\ (Budget(call[c]) - 1) * MaxDelay \in Int
      BY <1>6
    <3>4. QED
      BY <3>1, <3>2, <3>3
  <2>3. CASE call[c].phase \in Sleeping
    <3>1. l.slept <= l.sent * MaxDelay
      BY <1>4, <2>3 DEF CallHistory
    <3>2. l.sent <= Budget(call[c]) - 1
      BY <1>2, <1>4, <1>6, <2>3 DEF CallHistory, Sleeping
    <3>3. l.sent * MaxDelay <= (Budget(call[c]) - 1) * MaxDelay
      BY <1>6, <3>2, ProductGrows
    <3>4. l.sent * MaxDelay \in Int /\ (Budget(call[c]) - 1) * MaxDelay \in Int
      BY <1>6
    <3>5. QED
      BY <3>1, <3>3, <3>4
  <2>4. QED
    BY <2>1, <2>2, <2>3
<1> HIDE DEF k
<1>9. CallHistory(k, l)
  BY <1>3, <1>7, <1>8 DEF CallHistory, Sleeping, Ended
<1>10. c \in leases' <=> k.kind \in LlmKinds /\ k.phase \in {"request"} \cup Sleeping
  BY <1>1, <1>3 DEF Sleeping, Ended
<1>11. QED
  BY <1>1, <1>2, <1>9, <1>10, FewerLeases, OtherCalls

\* A failed attempt that one of the loops will repeat, and its backoff.
LEMMA SleepKeeps ==
  ASSUME RetryInv, NEW c \in Calls, NEW loop \in Sleeping, Sleep(c, loop),
         NEW l \in [sent : Nat, slept : Int, streak : Nat], log' = [log EXCEPT ![c] = l],
         call[c].phase = "request",
         loop = "http_sleep" => Again(call[c].http),
         loop = "llm_sleep" => Again(call[c].llm) /\ call[c].kind \in LlmKinds /\ l.streak = 0,
         NEW attempt \in 1..MaxAttempts,
         l.sent = log[c].sent, l.slept = log[c].slept + Delay(attempt),
         l.streak <= log[c].streak + 1
  PROVE  RetryInv'
<1> USE RetryConstants
<1> DEFINE k == [call[c] EXCEPT !.phase = loop]
<1>1. call' = [call EXCEPT ![c] = k] /\ leases' = leases
  BY DEF Sleep, RetryInv, RetryTypes
<1>2. /\ call[c] \in [phase : Phases, kind : Kinds, http : 0..MaxAttempts, llm : 0..MaxAttempts]
      /\ k \in [phase : Phases, kind : Kinds, http : 0..MaxAttempts, llm : 0..MaxAttempts]
      /\ log[c] \in [sent : Nat, slept : Int, streak : Nat]
  BY DEF RetryInv, RetryTypes, Phases, Sleeping
<1>3. /\ k.phase = loop /\ k.kind = call[c].kind /\ k.http = call[c].http /\ k.llm = call[c].llm
      /\ Spent(k) = Spent(call[c])
  BY <1>2 DEF Spent
<1>4. CallHistory(call[c], log[c])
  BY DEF RetryInv
<1>5. /\ k.http \in 1..MaxAttempts /\ k.llm \in 1..MaxAttempts
      /\ k.kind \notin LlmKinds => k.llm = 1
      /\ l.sent \in 1..Spent(k) /\ l.streak <= k.http
  BY <1>2, <1>3, <1>4 DEF CallHistory
<1>6. l.slept <= l.sent * MaxDelay
  <2>1. log[c].slept <= (l.sent - 1) * MaxDelay
    BY <1>4 DEF CallHistory
  <2>2. Delay(attempt) \in Int /\ Delay(attempt) <= MaxDelay
    BY DelayBound
  <2>3. (l.sent - 1) * MaxDelay + MaxDelay = l.sent * MaxDelay
    BY <1>2
  <2>4. (l.sent - 1) * MaxDelay \in Int
    BY <1>2
  <2>5. QED
    BY <1>2, <2>1, <2>2, <2>3, <2>4
<1> HIDE DEF k
<1>7. CallHistory(k, l)
  BY <1>3, <1>5, <1>6 DEF CallHistory, Sleeping, Ended
<1>8. c \in leases' <=> k.kind \in LlmKinds /\ k.phase \in {"request"} \cup Sleeping
  BY <1>1, <1>3 DEF RetryInv, LeaseExact, Sleeping
<1>9. QED
  BY <1>1, <1>2, <1>7, <1>8, FewerLeases, OtherCalls

\* Where an answer may lead, and under which condition.
LEMMA VerdictMeans ==
  ASSUME NEW c \in Calls, NEW reply \in Replies
  PROVE  /\ Verdict(c, reply) \in Ended \cup Sleeping
         /\ Verdict(c, reply) = "http_sleep" => Again(call[c].http)
         /\ Verdict(c, reply) = "llm_sleep" =>
              Again(call[c].llm) /\ call[c].kind \in LlmKinds /\ reply \notin HttpRetryable
BY DEF Verdict, Ended, Sleeping, HttpRetryable, ProtocolFailures, Undecodable, ContentRefused, Fatal,
       NoDecision

\* The end of an attempt, whatever it brought.
LEMMA RepliedKeeps ==
  ASSUME RetryInv, NEW c \in Calls, NEW reply \in Replies, Replied(c, reply)
  PROVE  RetryInv'
<1> USE RetryConstants
<1> DEFINE next == Verdict(c, reply)
           attempt == IF next = "http_sleep" THEN call[c].http ELSE call[c].llm
           streak == IF reply \in HttpRetryable THEN log[c].streak + 1 ELSE 0
           slept == IF next \in Ended THEN log[c].slept ELSE log[c].slept + Delay(attempt)
           l == [log[c] EXCEPT !.streak = streak, !.slept = slept]
<1>1. /\ call[c].phase = "request"
      /\ IF next \in Ended THEN End(c, next) ELSE Sleep(c, next)
  BY DEF Replied
<1>2. log' = [log EXCEPT ![c] = l]
  BY DEF Replied, RetryInv, RetryTypes
<1>3. call[c].http \in 1..MaxAttempts /\ call[c].llm \in 1..MaxAttempts
  BY <1>1 DEF RetryInv, CallHistory
<1>4. attempt \in 1..MaxAttempts
  BY <1>3
<1>5. Delay(attempt) \in Int
  BY <1>4, DelayBound
<1>6. log[c] \in [sent : Nat, slept : Int, streak : Nat]
  BY DEF RetryInv, RetryTypes
<1>7. /\ next \in Ended \cup Sleeping
      /\ next = "http_sleep" => Again(call[c].http)
      /\ next = "llm_sleep" =>
           Again(call[c].llm) /\ call[c].kind \in LlmKinds /\ reply \notin HttpRetryable
  BY VerdictMeans
<1> HIDE DEF next, attempt
<1>a. /\ streak \in Nat /\ streak <= log[c].streak + 1 /\ (reply \notin HttpRetryable => streak = 0)
      /\ slept \in Int
  BY <1>5, <1>6
<1>b. slept = IF next \in Ended THEN log[c].slept ELSE log[c].slept + Delay(attempt)
  OBVIOUS
<1> HIDE DEF streak, slept
<1>8. /\ l \in [sent : Nat, slept : Int, streak : Nat] /\ l.sent = log[c].sent
      /\ l.streak = streak /\ l.slept = slept
  BY <1>6, <1>a
<1> HIDE DEF l
<1>9. CASE next \in Ended
  BY <1>1, <1>2, <1>8, <1>9, <1>a, <1>b, EndKeeps
<1>10. CASE next \notin Ended
  BY <1>1, <1>2, <1>4, <1>7, <1>8, <1>10, <1>a, <1>b, SleepKeeps
<1>11. QED
  BY <1>9, <1>10

\* The next attempt of the inner loop, or of the outer one with a new inner loop.
LEMMA WakeKeeps ==
  ASSUME RetryInv, NEW c \in Calls, Wake(c)
  PROVE  RetryInv'
<1> USE RetryConstants
<1> DEFINE inner == call[c].phase = "http_sleep"
           k == [call[c] EXCEPT !.phase = "request", !.http = IF inner THEN @ + 1 ELSE 1,
                                !.llm = IF inner THEN @ ELSE @ + 1]
           l == [log[c] EXCEPT !.sent = @ + 1]
<1>1. /\ call[c].phase \in Sleeping /\ leases' = leases
      /\ call' = [call EXCEPT ![c] = k] /\ log' = [log EXCEPT ![c] = l]
  <2>1. call[c].phase \in Sleeping /\ leases' = leases /\ log' = [log EXCEPT ![c] = l]
    BY DEF Wake, Sleeping, RetryInv, RetryTypes
  <2>2. call' = [call EXCEPT ![c] = k]
    BY DEF Wake, RetryInv, RetryTypes
  <2>3. QED
    BY <2>1, <2>2
<1>2. /\ call[c] \in [phase : Phases, kind : Kinds, http : 0..MaxAttempts, llm : 0..MaxAttempts]
      /\ log[c] \in [sent : Nat, slept : Int, streak : Nat]
      /\ l \in [sent : Nat, slept : Int, streak : Nat]
  BY DEF RetryInv, RetryTypes
<1>3. l.sent = log[c].sent + 1 /\ l.slept = log[c].slept /\ l.streak = log[c].streak
  BY <1>2
<1>4. CallHistory(call[c], log[c])
  BY DEF RetryInv
<1>5. /\ call[c].http \in 1..MaxAttempts /\ call[c].llm \in 1..MaxAttempts
      /\ call[c].kind \notin LlmKinds => call[c].llm = 1
      /\ log[c].sent \in 1..Spent(call[c]) /\ log[c].streak <= call[c].http
      /\ log[c].slept <= log[c].sent * MaxDelay
      /\ call[c].phase = "http_sleep" => Again(call[c].http)
      /\ call[c].phase = "llm_sleep" => Again(call[c].llm) /\ call[c].kind \in LlmKinds
      /\ Spent(call[c]) \in Nat
  BY <1>1, <1>2, <1>4, SpentBound DEF CallHistory
<1>6. l.slept <= (l.sent - 1) * MaxDelay
  BY <1>2, <1>3, <1>5
<1>7. CASE call[c].phase = "http_sleep"
  <2>1. /\ k = [call[c] EXCEPT !.phase = "request", !.http = call[c].http + 1, !.llm = call[c].llm]
        /\ k.phase = "request" /\ k.kind = call[c].kind /\ k.http = call[c].http + 1
        /\ k.llm = call[c].llm
    BY <1>2, <1>7
  <2>2. k.http <= MaxAttempts
    BY <1>5, <1>7, <2>1 DEF Again
  <2>3. k \in [phase : Phases, kind : Kinds, http : 0..MaxAttempts, llm : 0..MaxAttempts]
    <3>1. "request" \in Phases /\ k.http \in 0..MaxAttempts /\ k.llm \in 0..MaxAttempts
      BY <1>5, <2>1, <2>2 DEF Phases
    <3>2. QED
      BY <1>2, <2>1, <3>1
  <2> HIDE DEF k
  <2>4. Spent(k) = Spent(call[c]) + 1
    BY <1>5, <2>1 DEF Spent
  <2> HIDE DEF l
  <2>5. CallHistory(k, l)
    BY <1>2, <1>3, <1>5, <1>6, <2>1, <2>2, <2>4 DEF CallHistory, Sleeping, Ended
  <2>6. c \in leases' <=> k.kind \in LlmKinds /\ k.phase \in {"request"} \cup Sleeping
    BY <1>1, <2>1 DEF RetryInv, LeaseExact, Sleeping
  <2>7. QED
    BY <1>1, <1>2, <2>3, <2>5, <2>6, FewerLeases, OtherCalls
<1>8. CASE call[c].phase = "llm_sleep"
  <2>1. /\ k = [call[c] EXCEPT !.phase = "request", !.http = 1, !.llm = call[c].llm + 1]
        /\ k.phase = "request" /\ k.kind = call[c].kind /\ k.http = 1
        /\ k.llm = call[c].llm + 1
    BY <1>2, <1>8
  <2>2. k.llm <= MaxAttempts
    BY <1>5, <1>8, <2>1 DEF Again
  <2>3. k \in [phase : Phases, kind : Kinds, http : 0..MaxAttempts, llm : 0..MaxAttempts]
    <3>1. "request" \in Phases /\ k.http \in 0..MaxAttempts /\ k.llm \in 0..MaxAttempts
      BY <1>5, <2>1, <2>2 DEF Phases
    <3>2. QED
      BY <1>2, <2>1, <3>1
  <2> HIDE DEF k
  <2>4. Spent(k) \in Nat /\ Spent(k) >= Spent(call[c]) + 1
    <3>1. Spent(k) = call[c].llm * MaxAttempts + 1
      BY <1>5, <2>1 DEF Spent
    <3>2. call[c].llm * MaxAttempts = (call[c].llm - 1) * MaxAttempts + MaxAttempts
      BY <1>5
    <3>3. (call[c].llm - 1) * MaxAttempts \in Nat
      BY <1>5
    <3>4. Spent(call[c]) = (call[c].llm - 1) * MaxAttempts + call[c].http
      BY DEF Spent
    <3> DEFINE p == call[c].llm * MaxAttempts  q == (call[c].llm - 1) * MaxAttempts
    <3>5. Spent(k) = p + 1 /\ p = q + MaxAttempts /\ q \in Nat /\ Spent(call[c]) = q + call[c].http
      BY <3>1, <3>2, <3>3, <3>4
    <3> HIDE DEF p, q
    <3>6. QED
      BY <1>5, <3>5
  <2>5. log[c].streak = 0
    BY <1>4, <1>8 DEF CallHistory
  <2> HIDE DEF l
  <2>6. CallHistory(k, l)
    BY <1>2, <1>3, <1>5, <1>6, <1>8, <2>1, <2>2, <2>4, <2>5 DEF CallHistory, Sleeping, Ended
  <2>7. c \in leases' <=> k.kind \in LlmKinds /\ k.phase \in {"request"} \cup Sleeping
    BY <1>1, <2>1 DEF RetryInv, LeaseExact, Sleeping
  <2>8. QED
    BY <1>1, <1>2, <2>3, <2>6, <2>7, FewerLeases, OtherCalls
<1>9. QED
  BY <1>1, <1>7, <1>8 DEF Sleeping

\* A cancellation, in the queue, a request or a backoff.
LEMMA CancelKeeps ==
  ASSUME RetryInv, NEW c \in Calls, Cancel(c)
  PROVE  RetryInv'
<1> DEFINE l == log[c]  cancelled == "cancelled"
<1>1. call[c].phase \in Phases \ ({"idle"} \cup Ended) /\ End(c, cancelled) /\ log' = log
  BY DEF Cancel
<1>2. call[c].phase \in {"queued", "request"} \cup Sleeping /\ cancelled \in Ended
  BY <1>1 DEF Phases, Ended, Sleeping
<1>3. /\ l \in [sent : Nat, slept : Int, streak : Nat] /\ log' = [log EXCEPT ![c] = l]
      /\ l.sent = log[c].sent /\ l.slept = log[c].slept /\ l.streak <= log[c].streak
  BY <1>1 DEF RetryInv, RetryTypes
<1> HIDE DEF l, cancelled
<1>4. QED
  BY <1>1, <1>2, <1>3, EndKeeps

\* Every step of every call preserves the invariant.
LEMMA RetryStep == RetryInv /\ [RetryNext]_retryVars => RetryInv'
<1> SUFFICES ASSUME RetryInv, [RetryNext]_retryVars PROVE RetryInv'
  OBVIOUS
<1>1. CASE UNCHANGED retryVars
  BY <1>1 DEF retryVars, RetryInv, RetryTypes, LeaseExact, LeaseBound, CallHistory
<1>2. QED
  BY <1>1, StartKeeps, LeaseKeeps, WakeKeeps, RepliedKeeps, CancelKeeps DEF RetryNext, Progress

\* Every reachable state of the calls satisfies the inductive invariant.
THEOREM RetryInvariant == RetrySpec => []RetryInv
BY RetryInitial, RetryStep, PTL DEF RetrySpec

\* The nested retry_async loops of the chat client and the executor stay within
\* max_attempts squared requests and the backoffs between them, and meet at most
\* max_attempts HTTP failures in a row.
THEOREM RetriesAreBounded == RetrySpec => []CallBudget
<1>1. RetryInv => CallBudget
  <2> SUFFICES ASSUME RetryInv, NEW c \in Calls
               PROVE  /\ log[c].sent <= Budget(call[c])
                      /\ log[c].slept <= (Budget(call[c]) - 1) * MaxDelay
                      /\ log[c].streak <= MaxAttempts
    BY DEF CallBudget, Budget
  <2> USE RetryConstants
  <2> DEFINE k == call[c]  l == log[c]
  <2>1. /\ k \in [phase : Phases, kind : Kinds, http : 0..MaxAttempts, llm : 0..MaxAttempts]
        /\ l \in [sent : Nat, slept : Int, streak : Nat] /\ CallHistory(k, l)
    BY DEF RetryInv, RetryTypes
  <2> HIDE DEF k, l
  <2> SUFFICES /\ l.sent <= Budget(k) /\ l.slept <= (Budget(k) - 1) * MaxDelay
               /\ l.streak <= MaxAttempts
    BY DEF k, l
  <2>2. Budget(k) \in Nat \ {0}
    BY DEF Budget
  <2>3. CASE k.phase \in {"idle", "queued"}
    <3>1. 0 <= (Budget(k) - 1) * MaxDelay
      BY <2>2
    <3>2. QED
      BY <2>1, <2>2, <2>3, <3>1 DEF CallHistory
  <2>4. CASE k.phase \in {"request"} \cup Sleeping
    <3>1. /\ k.http \in 1..MaxAttempts /\ k.llm \in 1..MaxAttempts
          /\ k.kind \notin LlmKinds => k.llm = 1
          /\ l.sent \in 1..Spent(k) /\ l.streak <= k.http
          /\ k.phase = "request" => l.slept <= (l.sent - 1) * MaxDelay
          /\ k.phase \in Sleeping => l.slept <= l.sent * MaxDelay
          /\ k.phase \in Sleeping => Again(k.http) \/ (k.kind \in LlmKinds /\ Again(k.llm))
      BY <2>1, <2>4 DEF CallHistory, Sleeping
    <3>2. /\ Spent(k) \in Nat /\ Spent(k) <= Budget(k)
          /\ k.phase \in Sleeping => Spent(k) < Budget(k)
      BY <2>1, <3>1, SpentBound
    <3>3. l.slept <= (Budget(k) - 1) * MaxDelay
      <4>1. PICK s \in Int : s <= Budget(k) - 1 /\ l.slept <= s * MaxDelay
        <5>1. CASE k.phase = "request"
          <6>1. l.sent - 1 \in Int /\ l.sent - 1 <= Budget(k) - 1 /\ l.slept <= (l.sent - 1) * MaxDelay
            BY <2>1, <2>2, <3>1, <3>2, <5>1
          <6>2. QED
            BY <6>1
        <5>2. CASE k.phase \in Sleeping
          <6>1. l.sent \in Int /\ l.sent <= Budget(k) - 1 /\ l.slept <= l.sent * MaxDelay
            BY <2>1, <2>2, <3>1, <3>2, <5>2
          <6>2. QED
            BY <6>1
        <5>3. QED
          BY <2>4, <5>1, <5>2
      <4>2. s * MaxDelay <= (Budget(k) - 1) * MaxDelay
        BY <2>2, <4>1, ProductGrows
      <4>3. s * MaxDelay \in Int /\ (Budget(k) - 1) * MaxDelay \in Int
        BY <2>2
      <4>4. QED
        BY <2>1, <4>1, <4>2, <4>3
    <3>4. QED
      BY <2>1, <2>2, <3>1, <3>2, <3>3
  <2>5. CASE k.phase \in Ended
    BY <2>1, <2>5 DEF CallHistory
  <2>6. QED
    BY <2>1, <2>3, <2>4, <2>5 DEF Phases, Ended, Sleeping
<1>2. QED
  BY <1>1, RetryInvariant, PTL

\* Every way out of `async with self._quota.lease()` gives the lease back: the
\* calls with a lease are the ones of an LLM in a request or a backoff, and there
\* are at most max_concurrency of them.
THEOREM LeasesAccounted == RetrySpec => [](LeaseExact /\ LeaseBound)
<1>1. RetryInv => LeaseExact /\ LeaseBound
  BY DEF RetryInv
<1>2. QED
  BY <1>1, RetryInvariant, PTL

-----------------------------------------------------------------------------
(* The assembly of the providers: its inductive invariant. *)

\* What follows the resolution of the LLM entries, of their providers, and of the
\* whole file.
AfterFile == {"hide", "runners", "build", "open", "closing", "closed"}
AfterLlmProviders == {"retry", "agent", "agent_providers"} \cup AfterFile
AfterLlm == {"llm_providers"} \cup AfterLlmProviders

\* A provider that build can assemble.
Buildable(r) ==
  /\ r.family \in {"web", "academic", "resolver", "llm", "agent"}
  /\ r.limit = "good"
  /\ PassesChecks(r)

\* Every resolved provider is buildable, there is one resolver at most, and an
\* invocation is of an LLM or of an agent.
ResolvedInv ==
  /\ \A r \in resolved : Buildable(r)
  /\ \A r, x \in resolved : r.family = "resolver" /\ x.family = "resolver" => r.name = x.name
  /\ \A i \in invocations : i.family \in {"llm", "agent"}

\* Stage s has its invocation.
HasInvocation(s) == \E i \in invocations : i.family = "llm" /\ i.by = s

\* What each part of the file leaves behind for the parts after it.
FileInv ==
  /\ part \in DOMAIN After \cup AfterFile \cup {"failed"}
  /\ part = "llm" => \A s \in Stages \cap seen : HasInvocation(s)
  /\ part \in AfterLlm => \A s \in Stages : HasInvocation(s)
  /\ part \in AfterLlmProviders => InUse("llm") \subseteq Configured("llm")
  /\ part \in AfterFile => InUse("agent") \subseteq Configured("agent")

\* Clients are opened when the log, if there is one, hides all secrets.
ClientInv ==
  /\ failure # "check"
  /\ hidden # None => SecretsOf(opened) \subseteq hidden
  /\ opened \subseteq WithClient
  /\ part \in DOMAIN After \cup {"hide", "runners"} => opened = {}
  /\ part \in {"runners", "build", "open", "closing", "closed"} =>
       hidden \in {None, SecretsOf(resolved)}
  /\ part = "open" => opened = WithClient

\* The inductive invariant of the assembly.
AssemblyInv == ResolvedInv /\ FileInv /\ ClientInv

-----------------------------------------------------------------------------
\* The parts of the file, in After.
LEMMA AfterDomain ==
  DOMAIN After = {"academic", "resolver", "web", "llm", "llm_providers", "retry", "agent",
                  "agent_providers"}
BY DEF After

\* Nothing of the file has been read.
LEMMA AssemblyInitial == AssemblyInit => AssemblyInv
<1> SUFFICES ASSUME AssemblyInit PROVE AssemblyInv
  OBVIOUS
<1>1. ResolvedInv
  BY DEF AssemblyInit, ResolvedInv
<1>2. FileInv
  BY AfterDomain DEF AssemblyInit, FileInv, AfterFile, AfterLlm, AfterLlmProviders
<1>3. ClientInv
  BY AfterDomain, AssemblyAssumption DEF AssemblyInit, ClientInv, SecretsOf
<1>4. QED
  BY <1>1, <1>2, <1>3 DEF AssemblyInv

\* The file is refused.
LEMMA RefuseKeeps ==
  ASSUME AssemblyInv, Refuse
  PROVE  AssemblyInv'
<1>1. ResolvedInv'
  BY DEF AssemblyInv, ResolvedInv, Refuse, Buildable, PassesChecks
<1>2. FileInv'
  BY AfterDomain DEF AssemblyInv, FileInv, Refuse, AfterFile, AfterLlm, AfterLlmProviders
<1>3. ClientInv'
  BY AfterDomain DEF AssemblyInv, ClientInv, Refuse, SecretsOf, WithClient
<1>4. QED
  BY <1>1, <1>2, <1>3 DEF AssemblyInv

\* A table is accepted with what it adds.
Taken(name, providers, uses) ==
  /\ seen' = seen \cup {name} /\ resolved' = resolved \cup providers
  /\ invocations' = invocations \cup uses
  /\ UNCHANGED <<part, scopes, hidden, opened, failure>>

\* What a table adds is sound and belongs to its part.
Belongs(name, providers, uses) ==
  /\ \A r \in providers : Buildable(r)
  /\ \A r \in providers : r.family = "resolver" =>
       /\ \A x \in providers : x.family = "resolver" => x.name = r.name
       /\ \A x \in resolved : x.family # "resolver"
  /\ \A i \in uses : \/ part = "llm" /\ i.family = "llm"
                     \/ part = "agent" /\ i.family = "agent"
  /\ part = "llm" /\ name \in Stages => \E i \in uses : i.family = "llm" /\ i.by = name

\* An entry of the file is taken in.
LEMMA TakenKeeps ==
  ASSUME AssemblyInv, NEW name, NEW providers, NEW uses,
         Taken(name, providers, uses), part \in DOMAIN After, Belongs(name, providers, uses)
  PROVE  AssemblyInv'
<1>1. /\ seen' = seen \cup {name} /\ resolved' = resolved \cup providers
      /\ invocations' = invocations \cup uses
      /\ UNCHANGED <<part, scopes, hidden, opened, failure>>
  BY DEF Taken
<1>2. /\ \A r \in providers : Buildable(r)
      /\ \A i \in uses : \/ part = "llm" /\ i.family = "llm"
                         \/ part = "agent" /\ i.family = "agent"
      /\ part = "llm" /\ name \in Stages => \E i \in uses : i.family = "llm" /\ i.by = name
  BY DEF Belongs
<1>3. \A r, x \in resolved' : r.family = "resolver" /\ x.family = "resolver" => r.name = x.name
  BY <1>1 DEF AssemblyInv, ResolvedInv, Belongs
<1>4. ResolvedInv'
  BY <1>1, <1>2, <1>3 DEF AssemblyInv, ResolvedInv, Buildable, PassesChecks
<1>5. \A s : HasInvocation(s) => HasInvocation(s)'
  BY <1>1 DEF HasInvocation
<1>6. \A f : Configured(f) \subseteq Configured(f)'
  BY <1>1 DEF Configured
<1>7. part \in AfterLlmProviders => InUse("llm")' = InUse("llm")
  BY <1>1, <1>2 DEF InUse, AfterLlmProviders, AfterFile
<1>8. part = "llm" => \A s \in Stages \cap seen' : HasInvocation(s)'
  BY <1>1, <1>2, <1>5 DEF AssemblyInv, FileInv, HasInvocation
<1>9. FileInv'
  <2>1. part \notin AfterFile
    BY AfterDomain DEF AfterFile
  <2>2. QED
    BY <1>1, <1>5, <1>6, <1>7, <1>8, <2>1 DEF AssemblyInv, FileInv
<1>10. ClientInv'
  <2>1. opened = {} /\ part \notin {"runners", "build", "open", "closing", "closed"}
    BY AfterDomain DEF AssemblyInv, ClientInv
  <2>2. QED
    BY <1>1, <2>1 DEF AssemblyInv, ClientInv, SecretsOf, WithClient
<1>11. QED
  BY <1>4, <1>9, <1>10 DEF AssemblyInv

\* A table is accepted or refuses the file.
LEMMA VerdictKeeps ==
  ASSUME AssemblyInv, NEW name, NEW ok, NEW providers, NEW uses,
         TableVerdict(name, ok, providers, uses), part \in DOMAIN After,
         ok => Belongs(name, providers, uses)
  PROVE  AssemblyInv'
<1>1. CASE ~ok
  BY <1>1, RefuseKeeps DEF TableVerdict
<1>2. CASE ok
  BY <1>2, TakenKeeps DEF TableVerdict, Taken
<1>3. QED
  BY <1>1, <1>2

-----------------------------------------------------------------------------
(* The tables of the file. *)

\* The fields of a provider.
LEMMA ProviderFields ==
  ASSUME NEW family, NEW name, NEW roles, NEW secrets, NEW limit, NEW reserved,
         NEW r, r = Provider(family, name, roles, secrets, limit, reserved)
  PROVE  /\ r.family = family /\ r.name = name /\ r.secrets = secrets
         /\ r.limit = limit /\ r.reserved = reserved
BY DEF Provider

\* An accepted entry has a limit that admits somebody.
LEMMA GoodLimit ==
  ASSUME NEW limit \in Limits, limit # "bad"
  PROVE  Limit(limit) = "good"
BY DEF Limits, Limit

\* An entry of a web provider.
LEMMA WebKeeps ==
  ASSUME AssemblyInv, NEW n \in WebNames,
         NEW t \in [search : Flags, fetch : Flags, key : EnvValues, limit : Limits,
                    options : Options],
         ResolveWeb(n, t)
  PROVE  AssemblyInv'
<1> DEFINE on == {role \in {"search", "fetch"} : t[role] = "true"}
           r == Provider("web", n, on, IF t.key = "set" THEN {"key"} ELSE {},
                         Limit(t.limit), t.options = "reserved")
           new == IF on = {} THEN {} ELSE {r}
<1>1. part = "web" /\ TableVerdict(n, WebAccepted(n, t), new, {})
  BY DEF ResolveWeb
<1>2. /\ r.family = "web" /\ r.name = n /\ r.secrets = IF t.key = "set" THEN {"key"} ELSE {}
      /\ r.limit = Limit(t.limit) /\ r.reserved = (t.options = "reserved")
  BY ProviderFields
<1>3. t.limit \in Limits
  OBVIOUS
<1>4. ASSUME WebAccepted(n, t), on # {} PROVE Buildable(r)
  <2>1. /\ Registry[n] # None /\ t.limit # "bad" /\ t.options # "reserved"
        /\ t.key = IF Registry[n].key = "none" THEN "absent" ELSE "set"
    BY <1>4 DEF WebAccepted
  <2> HIDE DEF r, on
  <2>2. r.limit = "good"
    BY <1>2, <1>3, <2>1, GoodLimit
  <2>3. Registry[n].key = "required" => "key" \in r.secrets
    BY <1>2, <2>1
  <2>4. QED
    BY <1>2, <2>1, <2>2, <2>3 DEF Buildable, PassesChecks
<1>5. part \in DOMAIN After
  BY <1>1, AfterDomain
<1>6. WebAccepted(n, t) => \A x \in new : Buildable(x) /\ x.family # "resolver"
  BY <1>2, <1>4
<1> HIDE DEF new
<1>7. QED
  BY <1>1, <1>5, <1>6, VerdictKeeps DEF Belongs

\* The tables of academic providers and resolvers.
AcademicTables ==
  [enabled : Flags, key : EnvValues, contact : EnvValues, limit : Limits, options : Options]

\* An entry of an academic provider.
LEMMA AcademicKeeps ==
  ASSUME AssemblyInv, NEW n \in AcademicNames, NEW t \in AcademicTables, ResolveAcademic(n, t)
  PROVE  AssemblyInv'
<1> DEFINE r == Provider("academic", n, {"search"}, Secrets(t), Limit(t.limit),
                         t.options = "reserved")
           new == IF t.enabled = "true" THEN {r} ELSE {}
<1>1. part = "academic" /\ TableVerdict(n, AcademicAccepted(n, t), new, {})
  BY DEF ResolveAcademic
<1>2. /\ r.family = "academic" /\ r.name = n /\ r.limit = Limit(t.limit)
      /\ r.reserved = (t.options = "reserved")
  BY ProviderFields
<1>3. t.limit \in Limits
  BY DEF AcademicTables
<1>4. ASSUME AcademicAccepted(n, t) PROVE Buildable(r)
  <2>1. Registry[n] # None /\ t.limit # "bad" /\ t.options # "reserved"
    BY <1>4 DEF AcademicAccepted, OptionsAccepted
  <2> HIDE DEF r
  <2>2. QED
    BY <1>2, <1>3, <2>1, GoodLimit DEF Buildable, PassesChecks
<1>5. part \in DOMAIN After
  BY <1>1, AfterDomain
<1>6. AcademicAccepted(n, t) => \A x \in new : Buildable(x) /\ x.family # "resolver"
  BY <1>2, <1>4
<1> HIDE DEF new
<1>7. QED
  BY <1>1, <1>5, <1>6, VerdictKeeps DEF Belongs

\* The resolver's entry.
LEMMA ResolverKeeps ==
  ASSUME AssemblyInv, NEW n \in ResolverNames, NEW t \in AcademicTables, ResolveResolver(n, t)
  PROVE  AssemblyInv'
<1> DEFINE r == Provider("resolver", n, {}, Secrets(t), "good", t.options = "reserved")
           new == IF t.enabled = "true" THEN {r} ELSE {}
<1>1. part = "resolver" /\ TableVerdict(n, ResolverAccepted(n, t), new, {})
  BY DEF ResolveResolver
<1>2. /\ r.family = "resolver" /\ r.name = n /\ r.limit = "good"
      /\ r.reserved = (t.options = "reserved")
  BY ProviderFields
<1>3. ASSUME ResolverAccepted(n, t) PROVE Buildable(r)
  <2>1. Registry[n] # None /\ t.options # "reserved"
    BY <1>3 DEF ResolverAccepted, OptionsAccepted
  <2> HIDE DEF r
  <2>2. QED
    BY <1>2, <2>1 DEF Buildable, PassesChecks
<1>4. ResolverAccepted(n, t) /\ t.enabled = "true" => \A x \in resolved : x.family # "resolver"
  BY DEF ResolverAccepted, Configured
<1>5. part \in DOMAIN After
  BY <1>1, AfterDomain
<1>6. ResolverAccepted(n, t) =>
        \A x \in new : /\ Buildable(x) /\ \A y \in new : y.name = x.name
                       /\ \A y \in resolved : y.family # "resolver"
  BY <1>2, <1>3, <1>4
<1> HIDE DEF new
<1>7. QED
  BY <1>1, <1>5, <1>6, VerdictKeeps DEF Belongs

\* The uses that a table of LLMs or agents lists, all its own.
UsesOf(entry, uses) == uses # {} /\ \A i \in uses : i.family = part /\ i.by = entry

\* The LLM and agent entries, which add an invocation.
LEMMA EntryKeeps ==
  ASSUME AssemblyInv, NEW entry, NEW uses, part \in {"llm", "agent"}, UsesOf(entry, uses),
         Refuse \/ Taken(entry, {}, uses)
  PROVE  AssemblyInv'
<1>1. part \in DOMAIN After
  BY AfterDomain
<1>2. Belongs(entry, {}, uses)
  BY DEF Belongs, UsesOf
<1>3. QED
  BY <1>1, <1>2, RefuseKeeps, TakenKeeps

\* The tables of LLMs and agents, which add a provider.
LEMMA TableKeeps ==
  ASSUME AssemblyInv, NEW name, NEW r, r.family \in {"llm", "agent"}, ~r.reserved,
         r.limit = "good", r.family = "agent" => r.harness = "good",
         part \in {"llm_providers", "agent_providers"}, Taken(name, {r}, {})
  PROVE  AssemblyInv'
<1>1. part \in DOMAIN After /\ part # "llm"
  BY AfterDomain
<1>2. Buildable(r)
  BY DEF Buildable, PassesChecks
<1>3. Belongs(name, {r}, {})
  BY <1>1, <1>2 DEF Belongs
<1>4. QED
  BY <1>1, <1>3, TakenKeeps

\* The invocation of an LLM stage.
LEMMA StageKeeps ==
  ASSUME AssemblyInv, NEW stage, NEW t, NEW extra_body, ResolveStage(stage, t, extra_body)
  PROVE  AssemblyInv'
<1> DEFINE tables == <<t, scopes.fetch, scopes.global>>
           use == [family |-> "llm", by |-> stage, provider |-> FirstDefined("provider", tables)]
           uses == {use}
<1>1. part = "llm" /\ (Refuse \/ Taken(stage, {}, uses))
  BY DEF ResolveStage, TableVerdict, Taken
<1>2. use.family = "llm" /\ use.by = stage
  OBVIOUS
<1> HIDE DEF use
<1>3. uses # {} /\ \A i \in uses : i.family = "llm" /\ i.by = stage
  BY <1>2
<1> HIDE DEF uses
<1>4. part \in {"llm", "agent"} /\ UsesOf(stage, uses)
  BY <1>1, <1>3 DEF UsesOf
<1>5. Refuse \/ Taken(stage, {}, uses)
  BY <1>1
<1>6. QED
  BY <1>4, <1>5, EntryKeeps

\* An LLM search invocation.
LEMMA SearchEntryKeeps ==
  ASSUME AssemblyInv, NEW entry, NEW t, NEW extra_body, ResolveSearch(entry, t, extra_body)
  PROVE  AssemblyInv'
<1> DEFINE use == [family |-> "llm", by |-> entry, provider |-> t.provider]
           uses == {use}
<1>1. part = "llm" /\ (Refuse \/ Taken(entry, {}, uses))
  BY DEF ResolveSearch, TableVerdict, Taken
<1>2. use.family = "llm" /\ use.by = entry
  OBVIOUS
<1> HIDE DEF use
<1>3. uses # {} /\ \A i \in uses : i.family = "llm" /\ i.by = entry
  BY <1>2
<1> HIDE DEF uses
<1>4. part \in {"llm", "agent"} /\ UsesOf(entry, uses)
  BY <1>1, <1>3 DEF UsesOf
<1>5. Refuse \/ Taken(entry, {}, uses)
  BY <1>1
<1>6. QED
  BY <1>4, <1>5, EntryKeeps

\* An agent search invocation.
LEMMA AgentEntryKeeps ==
  ASSUME AssemblyInv, NEW entry, NEW t, ResolveAgentEntry(entry, t)
  PROVE  AssemblyInv'
<1> DEFINE use == [family |-> "agent", by |-> entry, provider |-> t.provider]
           uses == {use}
<1>1. part = "agent" /\ (Refuse \/ Taken(entry, {}, uses))
  BY DEF ResolveAgentEntry, TableVerdict, Taken
<1>2. use.family = "agent" /\ use.by = entry
  OBVIOUS
<1> HIDE DEF use
<1>3. uses # {} /\ \A i \in uses : i.family = "agent" /\ i.by = entry
  BY <1>2
<1> HIDE DEF uses
<1>4. part \in {"llm", "agent"} /\ UsesOf(entry, uses)
  BY <1>1, <1>3 DEF UsesOf
<1>5. Refuse \/ Taken(entry, {}, uses)
  BY <1>1
<1>6. QED
  BY <1>4, <1>5, EntryKeeps

\* An LLM provider's entry.
LEMMA LLMKeeps ==
  ASSUME AssemblyInv, NEW n \in LLMs,
         NEW t \in [protocol : Limits, url : Limits, key : EnvValues, limit : Limits],
         ResolveLLM(n, t)
  PROVE  AssemblyInv'
<1> DEFINE r == Provider("llm", n, {}, {"key"}, Limit(t.limit), FALSE)
<1>1. part = "llm_providers" /\ (Refuse \/ (Taken(n, {r}, {}) /\ t.limit # "bad"))
  BY DEF ResolveLLM, TableVerdict, Taken
<1>2. r.family = "llm" /\ ~r.reserved /\ (t.limit # "bad" => r.limit = "good")
  BY GoodLimit DEF Provider
<1> HIDE DEF r
<1>3. QED
  BY <1>1, <1>2, TableKeeps, RefuseKeeps

\* An agent provider's entry.
LEMMA AgentKeeps ==
  ASSUME AssemblyInv, NEW n \in Agents,
         NEW t \in [fields : Limits, harness : Limits, settings : Limits, limit : Limits],
         ResolveAgent(n, t)
  PROVE  AssemblyInv'
<1> DEFINE r == [Provider("agent", n, {}, {}, Limit(t.limit), FALSE) EXCEPT !.harness = t.harness]
<1>1. /\ part = "agent_providers"
      /\ Refuse \/ (Taken(n, {r}, {}) /\ t.limit # "bad" /\ t.harness = "good")
  BY DEF ResolveAgent, TableVerdict, Taken
<1>2. /\ r.family = "agent" /\ ~r.reserved /\ r.harness = t.harness
      /\ t.limit # "bad" => r.limit = "good"
  BY GoodLimit DEF Provider
<1> HIDE DEF r
<1>3. QED
  BY <1>1, <1>2, TableKeeps, RefuseKeeps

\* The retry table.
LEMMA RetryKeeps ==
  ASSUME AssemblyInv, NEW value, ResolveRetry(value)
  PROVE  AssemblyInv'
<1>1. part = "retry" /\ TableVerdict("retry", value # "bad", {}, {})
  BY DEF ResolveRetry
<1>2. part \in DOMAIN After
  BY <1>1, AfterDomain
<1>3. QED
  BY <1>1, <1>2, VerdictKeeps DEF Belongs

-----------------------------------------------------------------------------
(* From one part of the file to the next, and the runtime. *)

\* The next part of the file begins: the checks at its end have been made.
LEMMA NextPartKeeps ==
  ASSUME AssemblyInv, NextPart
  PROVE  AssemblyInv'
<1>1. CASE ~Complete
  BY <1>1, RefuseKeeps DEF NextPart
<1>2. CASE Complete
  <2>1. /\ part \in DOMAIN After /\ part' = After[part] /\ seen' = {}
        /\ UNCHANGED <<invocations, resolved, hidden, opened, failure>>
        /\ part = "llm" => Stages \subseteq seen
    BY <1>2 DEF NextPart
  <2>2. /\ part = "academic" => part' = "resolver"
        /\ part = "resolver" => part' = "web"
        /\ part = "web" => part' = "llm"
        /\ part = "llm" => part' = "llm_providers"
        /\ part = "llm_providers" => part' = "retry"
        /\ part = "retry" => part' = "agent"
        /\ part = "agent" => part' = "agent_providers"
        /\ part = "agent_providers" => part' = "hide"
    BY <2>1 DEF After
  <2>3. ResolvedInv'
    BY <2>1 DEF AssemblyInv, ResolvedInv, Buildable, PassesChecks
  <2>4. /\ part = "llm_providers" => InUse("llm") \subseteq Configured("llm")
        /\ part = "agent_providers" => InUse("agent") \subseteq Configured("agent")
    BY <1>2 DEF Complete
  <2>5. /\ \A s : HasInvocation(s)' <=> HasInvocation(s)
        /\ \A f : InUse(f)' = InUse(f) /\ Configured(f)' = Configured(f)
    BY <2>1 DEF HasInvocation, InUse, Configured
  <2>6. FileInv'
    BY <2>1, <2>2, <2>4, <2>5, AfterDomain
    DEF AssemblyInv, FileInv, AfterFile, AfterLlm, AfterLlmProviders
  <2>7. ClientInv'
    BY <2>1, <2>2, AfterDomain DEF AssemblyInv, ClientInv, SecretsOf, WithClient
  <2>8. QED
    BY <2>3, <2>6, <2>7 DEF AssemblyInv
<1>3. QED
  BY <1>1, <1>2

\* The steps after the file leave what it resolved to alone.
LEMMA RuntimeKeeps ==
  ASSUME AssemblyInv, UNCHANGED <<invocations, resolved>>, part \in AfterFile,
         part' \in AfterFile \cup {"failed"}, ClientInv'
  PROVE  AssemblyInv'
<1>1. ResolvedInv'
  BY DEF AssemblyInv, ResolvedInv, Buildable, PassesChecks
<1>2. /\ \A s : HasInvocation(s)' <=> HasInvocation(s)
      /\ \A f : InUse(f)' = InUse(f) /\ Configured(f)' = Configured(f)
  BY DEF HasInvocation, InUse, Configured
<1>3. FileInv'
  BY <1>2 DEF AssemblyInv, FileInv, AfterFile, AfterLlm, AfterLlmProviders
<1>4. QED
  BY <1>1, <1>3 DEF AssemblyInv

\* The secrets are given to the log, if there is one.
LEMMA HideSecretsKeeps ==
  ASSUME AssemblyInv, HideSecrets
  PROVE  AssemblyInv'
<1>1. /\ part = "hide" /\ part' = "runners" /\ hidden' \in {None, SecretsOf(resolved)}
      /\ UNCHANGED <<invocations, resolved, opened, failure>>
  BY DEF HideSecrets
<1>2. opened = {}
  BY <1>1 DEF AssemblyInv, ClientInv
<1>3. ClientInv'
  BY <1>1, <1>2, AfterDomain DEF AssemblyInv, ClientInv, SecretsOf, WithClient
<1>4. QED
  BY <1>1, <1>3, RuntimeKeeps DEF AfterFile

\* The agents that were accepted have a harness that build knows.
LEMMA BuildRunnersKeeps ==
  ASSUME AssemblyInv, BuildRunners
  PROVE  AssemblyInv'
<1>1. \A r \in Runners : PassesChecks(r)
  BY DEF AssemblyInv, ResolvedInv, Buildable, Runners
<1>2. /\ part = "runners" /\ part' = "build"
      /\ UNCHANGED <<invocations, resolved, hidden, opened, failure>>
  BY <1>1 DEF BuildRunners
<1>3. ClientInv'
  BY <1>2, AfterDomain DEF AssemblyInv, ClientInv, SecretsOf, WithClient
<1>4. QED
  BY <1>2, <1>3, RuntimeKeeps DEF AfterFile

\* A client is opened only with secrets that are hidden, and its checks pass.
LEMMA BuildProviderKeeps ==
  ASSUME AssemblyInv, NEW r \in resolved, BuildProvider(r)
  PROVE  AssemblyInv'
<1>1. /\ part = "build" /\ r \in WithClient
      /\ UNCHANGED <<invocations, resolved, hidden>>
  BY DEF BuildProvider, First
<1>2. Buildable(r) /\ r.family # "agent"
  BY <1>1 DEF AssemblyInv, ResolvedInv, WithClient, Rank
<1>3. PassesChecks(r)
  BY <1>2 DEF Buildable
<1>4. /\ opened' = opened \cup {r}
      /\ \/ UNCHANGED <<part, failure>>
         \/ part' = "failed" /\ failure' = "factory"
  BY <1>3 DEF BuildProvider
<1>5. /\ hidden \in {None, SecretsOf(resolved)} /\ opened \subseteq WithClient
      /\ hidden # None => SecretsOf(opened) \subseteq hidden
  BY <1>1 DEF AssemblyInv, ClientInv
<1>6. hidden # None => SecretsOf(opened') \subseteq hidden
  BY <1>4, <1>5 DEF SecretsOf
<1>7. ClientInv'
  BY <1>1, <1>4, <1>5, <1>6, AfterDomain DEF AssemblyInv, ClientInv, SecretsOf, WithClient
<1>8. QED
  BY <1>1, <1>4, <1>7, RuntimeKeeps DEF AfterFile

\* aclose.
LEMMA CloseKeeps ==
  ASSUME AssemblyInv, (\E r \in resolved : CloseClient(r)) \/ RuntimeReady \/ Closed
  PROVE  AssemblyInv'
<1>1. /\ part \in {"build", "open", "closing"} /\ part' \in {"open", "closing", "closed"}
      /\ UNCHANGED <<invocations, resolved, hidden>> /\ opened' \subseteq opened
      /\ part' = "open" => opened' = WithClient
      /\ failure' \in {failure, "close"}
  BY DEF CloseClient, RuntimeReady, Closed
<1>2. /\ hidden \in {None, SecretsOf(resolved)}
      /\ hidden # None => SecretsOf(opened) \subseteq hidden
      /\ opened \subseteq WithClient /\ failure # "check"
  BY <1>1 DEF AssemblyInv, ClientInv
<1>3. hidden # None => SecretsOf(opened') \subseteq hidden
  BY <1>1, <1>2 DEF SecretsOf
<1>4. WithClient' = WithClient /\ SecretsOf(resolved') = SecretsOf(resolved)
  BY <1>1 DEF WithClient, SecretsOf
<1>5. ClientInv'
  BY <1>1, <1>2, <1>3, <1>4, AfterDomain DEF ClientInv, SecretsOf
<1>6. QED
  BY <1>1, <1>5, RuntimeKeeps DEF AfterFile

\* Every step of configuration and assembly keeps the invariant.
LEMMA AssemblyStep == AssemblyInv /\ [AssemblyNext]_assemblyVars => AssemblyInv'
<1> SUFFICES ASSUME AssemblyInv, [AssemblyNext]_assemblyVars PROVE AssemblyInv'
  OBVIOUS
<1>1. ASSUME NEW fetch, NEW global, ReadScopes(fetch, global) PROVE AssemblyInv'
  <2>1. UNCHANGED <<part, seen, invocations, resolved, hidden, opened, failure>>
    BY <1>1 DEF ReadScopes
  <2>2. QED
    BY <2>1 DEF AssemblyInv, ResolvedInv, Buildable, PassesChecks, FileInv, HasInvocation, InUse,
       Configured, ClientInv, SecretsOf, WithClient
<1>2. CASE UNCHANGED assemblyVars
  BY <1>2 DEF assemblyVars, AssemblyInv, ResolvedInv, Buildable, PassesChecks, FileInv,
     HasInvocation, InUse, Configured, ClientInv, SecretsOf, WithClient
<1>3. ASSUME NEW t \in AcademicTables,
             \/ \E n \in AcademicNames : ResolveAcademic(n, t)
             \/ \E n \in ResolverNames : ResolveResolver(n, t)
      PROVE  AssemblyInv'
  BY <1>3, AcademicKeeps, ResolverKeeps
<1>4. CASE AssemblyNext
  BY <1>1, <1>3, <1>4, WebKeeps, StageKeeps, SearchEntryKeeps, LLMKeeps, AgentEntryKeeps,
     AgentKeeps, RetryKeeps, NextPartKeeps, HideSecretsKeeps, BuildRunnersKeeps, BuildProviderKeeps, CloseKeeps
  DEF AssemblyNext, AcademicTables
<1>5. QED
  BY <1>2, <1>4

\* The inductive invariant holds from the first table to the last close.
THEOREM AssemblyInvariant == AssemblySpec => []AssemblyInv
BY AssemblyInitial, AssemblyStep, PTL DEF AssemblySpec

\* Whatever is in the file and in the registry, what resolve_config accepts passes
\* the checks of Runtime.build, and a running gateway has a provider under a usable
\* quota for each of its invocations and no secret that its log would show.
THEOREM AcceptedCanBeBuilt == AssemblySpec => []AcceptedIsBuildable
<1>1. AssemblyInv => AcceptedIsBuildable
  <2> SUFFICES ASSUME AssemblyInv PROVE AcceptedIsBuildable
    OBVIOUS
  <2>1. failure # "check" /\ (hidden # None => SecretsOf(opened) \subseteq hidden)
    BY DEF AssemblyInv, ClientInv
  <2>2. ASSUME part = "open"
        PROVE  \A i \in invocations : \E r \in opened \cup Runners :
                 r.family = i.family /\ r.name = i.provider
    <3> SUFFICES ASSUME NEW i \in invocations
                 PROVE  \E r \in opened \cup Runners : r.family = i.family /\ r.name = i.provider
      OBVIOUS
    <3>1. i.family \in {"llm", "agent"}
      BY DEF AssemblyInv, ResolvedInv
    <3>2. /\ InUse("llm") \subseteq Configured("llm") /\ InUse("agent") \subseteq Configured("agent")
          /\ opened = WithClient
      BY <2>2 DEF AssemblyInv, FileInv, ClientInv, AfterFile, AfterLlmProviders
    <3>3. i.provider \in InUse(i.family)
      BY DEF InUse
    <3>4. PICK r \in resolved : r.family = i.family /\ r.name = i.provider
      BY <3>1, <3>2, <3>3 DEF Configured
    <3>5. r \in WithClient \cup Runners
      BY <3>1, <3>4 DEF WithClient, Runners, Rank
    <3>6. QED
      BY <3>2, <3>4, <3>5
  <2>3. ASSUME part = "open" PROVE \A s \in Stages : HasInvocation(s)
    BY <2>3 DEF AssemblyInv, FileInv, AfterLlm, AfterLlmProviders, AfterFile
  <2>4. \A r \in resolved : r.limit = "good"
    BY DEF AssemblyInv, ResolvedInv, Buildable
  <2>5. Cardinality(Configured("resolver")) <= 1
    <3>1. \A n, m \in Configured("resolver") : n = m
      BY DEF Configured, AssemblyInv, ResolvedInv
    <3>2. Configured("resolver") = {} \/ \E n : Configured("resolver") = {n}
      BY <3>1
    <3>3. QED
      <4>1. \A S : (S = {} \/ \E n : S = {n}) => Cardinality(S) \in {0, 1}
        BY FS_EmptySet, FS_Singleton
      <4>2. QED
        BY <3>2, <4>1
  <2>6. QED
    BY <2>1, <2>2, <2>3, <2>4, <2>5 DEF AcceptedIsBuildable, HasInvocation
<1>2. QED
  BY <1>1, AssemblyInvariant, PTL
=============================================================================
