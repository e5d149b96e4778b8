------------------------ MODULE FetchSchedulerProofs ------------------------
(***************************************************************************)
(* The fetch scheduler, for any number of jobs, other callers, providers   *)
(* and limits.                                                             *)
(*                                                                         *)
(* It uses the gates only as CapacityGate allows, so their invariant       *)
(* carries over.  The outcome of a job and the absence of leaks need a     *)
(* fuller picture of each job: which gate a lease, a wait or a watcher     *)
(* belongs to in each phase, and what the attempts so far have been.       *)
(***************************************************************************)
EXTENDS FetchScheduler, CapacityGateProofs

\* One step of coroutine t on gate g.
GateStepOf(t, g) ==
  \/ TryLease(t, g) \/ Acquire(t, g) \/ WatchAvailable(t, g)
  \/ Resume(t, g) \/ Release(t, g) \/ CancelWaiter(t, g)

\* What job j has of the gates: the web lease of its attempt, and the lease, or
\* the wait for the lease, of the judge; watchers exist from asyncio.wait to the
\* end of the drain, or outlive a job that was cancelled.
JobGates(j) ==
  /\ \A g \in Gates :
       /\ <<j, g>> \in leases =>
            \/ g = current[j]
            \/ g = LlmGate /\ phase[j] \in {"judge", "release"}
       /\ waiting[<<j, g>>] = "claim" => g = LlmGate /\ phase[j] \in {"judge", "release"}
       /\ waiting[<<j, g>>] = "watch" => g \in WebGates /\ watchers[<<j, g>>] = "waiting"
  /\ ~NoWatchers(j) =>
       \/ phase[j] \in {"watch", "drain"}
       \/ phase[j] = "done" /\ verdict[j] = "cancelled"

\* What is known of the attempts of a job that goes on: every provider it has
\* finished with failed, and a rejected body has been noted.
JobHistory(j) ==
  /\ current[j] \notin remaining[j]
  /\ \A g \in remaining[j] \cup ({current[j]} \ {NoGate}) : attempts[j][g] = "none"
  /\ semantic_failure_seen[j] <=> \E g \in WebGates : attempts[j][g] = "semantic_failure"
  /\ phase[j] \notin {"idle", "done"} =>
       \A g \in WebGates \ (remaining[j] \cup {current[j]}) :
         attempts[j][g] \in {"semantic_failure", "execution_failure"}

\* The verdicts possible in each phase.
JobVerdict(j) ==
  /\ phase[j] \in {"idle", "select", "watch", "fetch", "judge"} => verdict[j] = "none"
  /\ phase[j] = "drain" => verdict[j] \in {"none", "cancelled"}
  /\ phase[j] = "release" => verdict[j] # "none"
  /\ phase[j] = "idle" => \A g \in WebGates : attempts[j][g] = "none"

\* How the outcome of a finished job follows from its attempts.
JobOutcome(j) ==
  phase[j] = "done" =>
    \/ verdict[j] = "accepted" /\ \E g \in WebGates : attempts[j][g] = "accepted"
    \/ /\ verdict[j] = "semantic_failure"
       /\ \E g \in WebGates : attempts[j][g] = "semantic_failure"
       /\ \A g \in WebGates : attempts[j][g] \in {"semantic_failure", "execution_failure"}
    \/ /\ verdict[j] = "execution_failure"
       /\ \A g \in WebGates : attempts[j][g] = "execution_failure"
    \/ verdict[j] = "judge_failed" /\ \E g \in WebGates : attempts[j][g] = "judge_failed"
    \/ verdict[j] = "cancelled"

JobInv(j) == JobGates(j) /\ JobHistory(j) /\ JobVerdict(j) /\ JobOutcome(j)

\* The inductive invariant of the scheduler, beside that of the gates.
SchedulerInv ==
  /\ GateInv
  /\ SchedulerTypeOK
  /\ \A j \in Jobs : JobInv(j)

-----------------------------------------------------------------------------
\* Fetch providers have web gates; the judge's gate is another one.
LEMMA WebGatesAreGates ==
  WebGates \subseteq Gates /\ LlmGate \notin WebGates /\ LlmGate \in Gates /\ NoGate \notin Gates
BY SchedulerAssumption DEF WebGates

\* A gate step of one coroutine touches nobody else's leases and waits.
LEMMA GateStepFrame ==
  ASSUME TypeOK, NEW t \in Tasks, NEW h \in Gates, GateStepOf(t, h) \/ UNCHANGED gateVars,
         NEW k \in Tasks, k # t, NEW g \in Gates
  PROVE  (<<k, g>> \in leases' <=> <<k, g>> \in leases) /\ waiting'[<<k, g>>] = waiting[<<k, g>>]
BY DEF GateStepOf, TryLease, Acquire, WatchAvailable, Resume, Release, CancelWaiter, Claim,
       NoClaim, TypeOK, gateVars

\* Nor does it touch what the same coroutine has of another gate.
LEMMA GateStepLocal ==
  ASSUME TypeOK, NEW t \in Tasks, NEW h \in Gates, GateStepOf(t, h), NEW g \in Gates, g # h
  PROVE  (<<t, g>> \in leases' <=> <<t, g>> \in leases) /\ waiting'[<<t, g>>] = waiting[<<t, g>>]
BY DEF GateStepOf, TryLease, Acquire, WatchAvailable, Resume, Release, CancelWaiter, Claim,
       NoClaim, TypeOK

\* A job that a step does not concern keeps its invariant.
LEMMA JobFrame ==
  ASSUME NEW k \in Jobs, JobInv(k),
         \A g \in Gates : /\ <<k, g>> \in leases' <=> <<k, g>> \in leases
                          /\ waiting'[<<k, g>>] = waiting[<<k, g>>],
         phase'[k] = phase[k], remaining'[k] = remaining[k], current'[k] = current[k],
         verdict'[k] = verdict[k], semantic_failure_seen'[k] = semantic_failure_seen[k],
         attempts'[k] = attempts[k],
         \A g \in WebGates : watchers'[<<k, g>>] = watchers[<<k, g>>]
  PROVE  JobInv(k)'
<1>1. JobGates(k)'
  BY DEF JobInv, JobGates, NoWatchers
<1>2. JobHistory(k)'
  BY DEF JobInv, JobHistory
<1>3. JobVerdict(k)' /\ JobOutcome(k)'
  BY DEF JobInv, JobVerdict, JobOutcome
<1>4. QED
  BY <1>1, <1>2, <1>3 DEF JobInv

\* The jobs other than j keep their invariant in a step of j.
LEMMA OtherJobs ==
  ASSUME SchedulerInv, NEW j \in Jobs,
         UNCHANGED gateVars \/ \E h \in Gates : GateStepOf(j, h),
         \A k \in Jobs \ {j} :
           /\ phase'[k] = phase[k] /\ remaining'[k] = remaining[k] /\ current'[k] = current[k]
           /\ verdict'[k] = verdict[k] /\ attempts'[k] = attempts[k]
           /\ semantic_failure_seen'[k] = semantic_failure_seen[k]
           /\ \A g \in WebGates : watchers'[<<k, g>>] = watchers[<<k, g>>],
         JobInv(j)'
  PROVE  \A k \in Jobs : JobInv(k)'
<1> SUFFICES ASSUME NEW k \in Jobs, k # j PROVE JobInv(k)'
  OBVIOUS
<1>1. k \in Tasks /\ j \in Tasks /\ TypeOK /\ JobInv(k)
  BY SchedulerAssumption DEF SchedulerInv, GateInv
<1>2. \A g \in Gates : /\ <<k, g>> \in leases' <=> <<k, g>> \in leases
                       /\ waiting'[<<k, g>>] = waiting[<<k, g>>]
  BY <1>1, GateStepFrame DEF gateVars
<1>3. QED
  BY <1>1, <1>2, JobFrame

-----------------------------------------------------------------------------
\* fetch_until_accepted begins.
LEMMA StartJobStep ==
  ASSUME SchedulerInv, NEW j \in Jobs, StartJob(j)
  PROVE  SchedulerTypeOK' /\ \A k \in Jobs : JobInv(k)'
<1> USE WebGatesAreGates DEF SchedulerInv
<1>1. SchedulerTypeOK'
  BY DEF StartJob, SchedulerTypeOK
<1>2. JobGates(j)'
  BY DEF StartJob, SchedulerTypeOK, JobInv, JobGates, NoWatchers, gateVars
<1>a. /\ phase[j] = "idle" /\ phase'[j] = "select" /\ remaining'[j] = WebGates
      /\ current[j] = NoGate /\ current'[j] = NoGate /\ attempts' = attempts
      /\ verdict' = verdict /\ semantic_failure_seen' = semantic_failure_seen
  BY DEF StartJob, SchedulerTypeOK
<1>3. JobHistory(j)' /\ JobVerdict(j)' /\ JobOutcome(j)'
  <2>1. \A g \in WebGates : attempts[j][g] = "none"
    BY <1>a DEF JobInv, JobVerdict
  <2>2. JobHistory(j)'
    BY <1>a, <2>1 DEF JobInv, JobHistory
  <2>3. JobVerdict(j)' /\ JobOutcome(j)'
    BY <1>a DEF JobInv, JobVerdict, JobOutcome
  <2>4. QED
    BY <2>2, <2>3
<1>4. QED
  BY <1>1, <1>2, <1>3, OtherJobs DEF StartJob, SchedulerTypeOK, JobInv

\* _select_available_provider takes a provider.
LEMMA SelectStep ==
  ASSUME SchedulerInv, NEW j \in Jobs, Select(j)
  PROVE  SchedulerTypeOK' /\ \A k \in Jobs : JobInv(k)'
<1> USE WebGatesAreGates DEF SchedulerInv
<1> PICK g \in WebGates : /\ FirstFree(j, g) /\ TryLease(j, g)
                         /\ current' = [current EXCEPT ![j] = g]
                         /\ remaining' = [remaining EXCEPT ![j] = @ \ {g}]
  BY DEF Select
<1>a. g \in remaining[j]
  BY DEF FirstFree
<1>1. SchedulerTypeOK'
  BY <1>a DEF Select, SchedulerTypeOK
<1>2. JobGates(j)'
  <2>1. TypeOK /\ j \in Tasks
    BY SchedulerAssumption DEF GateInv
  <2>2. \A h \in Gates : /\ <<j, h>> \in leases' => <<j, h>> \in leases \/ h = g
                         /\ waiting'[<<j, h>>] = waiting[<<j, h>>]
    BY DEF TryLease, Claim
  <2>3. current[j] = NoGate /\ current'[j] = g /\ phase[j] = "select" /\ phase'[j] = "fetch"
    BY DEF Select, SchedulerTypeOK
  <2>4. QED
    BY <2>2, <2>3 DEF Select, JobInv, JobGates, NoWatchers
<1>3. JobHistory(j)' /\ JobVerdict(j)' /\ JobOutcome(j)'
  <2>1. /\ phase[j] = "select" /\ phase'[j] = "fetch" /\ current[j] = NoGate /\ current'[j] = g
        /\ remaining'[j] = remaining[j] \ {g} /\ attempts' = attempts
        /\ verdict' = verdict /\ semantic_failure_seen' = semantic_failure_seen
    BY DEF Select, SchedulerTypeOK
  <2>2. JobHistory(j)'
    BY <1>a, <2>1 DEF JobInv, JobHistory
  <2>3. JobVerdict(j)' /\ JobOutcome(j)'
    BY <2>1 DEF JobInv, JobVerdict, JobOutcome
  <2>4. QED
    BY <2>2, <2>3
<1>4. QED
  BY <1>1, <1>2, <1>3, OtherJobs DEF Select, SchedulerTypeOK, JobInv, GateStepOf

\* No provider is free: the watchers are created.
LEMMA WatchStep ==
  ASSUME SchedulerInv, NEW j \in Jobs, Watch(j)
  PROVE  SchedulerTypeOK' /\ \A k \in Jobs : JobInv(k)'
<1> USE WebGatesAreGates DEF SchedulerInv
<1>1. SchedulerTypeOK'
  BY DEF Watch, SchedulerTypeOK
<1>a. /\ phase[j] = "select" /\ phase'[j] = "watch"
      /\ UNCHANGED <<gateVars, remaining, current, verdict, semantic_failure_seen, attempts>>
  BY DEF Watch, SchedulerTypeOK
<1>2. JobGates(j)'
  <2>1. NoWatchers(j)
    BY <1>a DEF JobInv, JobGates
  <2>2. \A g \in Gates : waiting[<<j, g>>] # "watch"
    BY <2>1 DEF JobInv, JobGates, NoWatchers
  <2>3. QED
    BY <1>a, <2>2 DEF JobInv, JobGates, gateVars
<1>3. JobHistory(j)' /\ JobVerdict(j)' /\ JobOutcome(j)'
  BY <1>a DEF JobInv, JobHistory, JobVerdict, JobOutcome
<1>4. QED
  BY <1>1, <1>2, <1>3, OtherJobs DEF Watch, SchedulerTypeOK, JobInv

\* A watcher finds its gate free, or suspends.
LEMMA WatcherStartsStep ==
  ASSUME SchedulerInv, NEW j \in Jobs, NEW g \in WebGates, WatcherStarts(j, g)
  PROVE  SchedulerTypeOK' /\ \A k \in Jobs : JobInv(k)'
<1> USE WebGatesAreGates DEF SchedulerInv
<1>1. SchedulerTypeOK'
  BY DEF WatcherStarts, SchedulerTypeOK
<1>2. JobGates(j)'
  <2>1. TypeOK /\ j \in Tasks
    BY SchedulerAssumption DEF GateInv
  <2>2. CASE UNCHANGED gateVars /\ watchers' = [watchers EXCEPT ![<<j, g>>] = "done"]
    <3>1. /\ watchers[<<j, g>>] = "created" /\ watchers'[<<j, g>>] = "done"
          /\ \A h \in WebGates \ {g} : watchers'[<<j, h>>] = watchers[<<j, h>>]
          /\ UNCHANGED <<leases, waiting, phase, current, verdict>>
      BY <2>2 DEF WatcherStarts, SchedulerTypeOK, gateVars
    <3>2. QED
      BY <3>1 DEF JobInv, JobGates, NoWatchers
  <2>3. CASE WatchAvailable(j, g) /\ watchers' = [watchers EXCEPT ![<<j, g>>] = "waiting"]
    <3>1. \A h \in Gates : /\ <<j, h>> \in leases' <=> <<j, h>> \in leases
                           /\ waiting'[<<j, h>>] = IF h = g THEN "watch" ELSE waiting[<<j, h>>]
      BY <2>1, <2>3 DEF WatchAvailable, NoClaim, TypeOK
    <3>2. /\ watchers[<<j, g>>] = "created" /\ watchers'[<<j, g>>] = "waiting"
          /\ \A h \in WebGates \ {g} : watchers'[<<j, h>>] = watchers[<<j, h>>]
          /\ UNCHANGED <<phase, current, verdict>>
      BY <2>3 DEF WatcherStarts, SchedulerTypeOK
    <3>3. QED
      BY <3>1, <3>2 DEF JobInv, JobGates, NoWatchers
  <2>4. QED
    BY <2>2, <2>3 DEF WatcherStarts
<1>3. JobHistory(j)' /\ JobVerdict(j)' /\ JobOutcome(j)'
  BY DEF WatcherStarts, JobInv, JobHistory, JobVerdict, JobOutcome
<1>4. QED
  BY <1>1, <1>2, <1>3, OtherJobs DEF WatcherStarts, SchedulerTypeOK, JobInv, GateStepOf

\* A notified watcher goes on; it claims nothing.
LEMMA WatcherResumesStep ==
  ASSUME SchedulerInv, NEW j \in Jobs, NEW g \in WebGates, WatcherResumes(j, g)
  PROVE  SchedulerTypeOK' /\ \A k \in Jobs : JobInv(k)'
<1> USE WebGatesAreGates DEF SchedulerInv
<1>1. SchedulerTypeOK'
  BY DEF WatcherResumes, SchedulerTypeOK
<1>2. JobGates(j)'
  <2>1. TypeOK /\ j \in Tasks /\ waiting[<<j, g>>] # "claim"
    BY SchedulerAssumption DEF GateInv, JobInv, JobGates
  <2>2. \A h \in Gates :
          /\ <<j, h>> \in leases' <=> <<j, h>> \in leases
          /\ waiting'[<<j, h>>] = IF h = g /\ Available(g) THEN "no" ELSE waiting[<<j, h>>]
    BY <2>1 DEF WatcherResumes, Resume, NoClaim, TypeOK
  <2>3. QED
    BY <2>2 DEF WatcherResumes, SchedulerTypeOK, JobInv, JobGates, NoWatchers
<1>3. JobHistory(j)' /\ JobVerdict(j)' /\ JobOutcome(j)'
  BY DEF WatcherResumes, JobInv, JobHistory, JobVerdict, JobOutcome
<1>4. QED
  BY <1>1, <1>2, <1>3, OtherJobs DEF WatcherResumes, SchedulerTypeOK, JobInv, GateStepOf

\* A watcher goes away, and its wait with it.
LEMMA DrainStep ==
  ASSUME SchedulerInv, NEW j \in Jobs, NEW g \in WebGates, Drain(j, g)
  PROVE  SchedulerTypeOK' /\ \A k \in Jobs : JobInv(k)'
<1> USE WebGatesAreGates DEF SchedulerInv
<1>1. SchedulerTypeOK'
  BY DEF Drain, SchedulerTypeOK
<1>2. JobGates(j)'
  <2>1. TypeOK /\ j \in Tasks
    BY SchedulerAssumption DEF GateInv
  <2>2. \A h \in Gates :
          /\ <<j, h>> \in leases' <=> <<j, h>> \in leases
          /\ waiting'[<<j, h>>] = IF h = g /\ watchers[<<j, g>>] = "waiting" THEN "no"
                                  ELSE waiting[<<j, h>>]
    BY <2>1 DEF Drain, CancelWaiter, NoClaim, TypeOK, gateVars
  <2>3. /\ watchers'[<<j, g>>] = "none" /\ watchers[<<j, g>>] # "none"
        /\ \A h \in WebGates \ {g} : watchers'[<<j, h>>] = watchers[<<j, h>>]
        /\ UNCHANGED <<phase, current, verdict>>
    BY DEF Drain, SchedulerTypeOK
  <2>4. QED
    BY <2>2, <2>3 DEF JobInv, JobGates, NoWatchers
<1>3. JobHistory(j)' /\ JobVerdict(j)' /\ JobOutcome(j)'
  BY DEF Drain, JobInv, JobHistory, JobVerdict, JobOutcome
<1>4. QED
  BY <1>1, <1>2, <1>3, OtherJobs DEF Drain, SchedulerTypeOK, JobInv, GateStepOf

\* asyncio.wait returns.
LEMMA WatchEndsStep ==
  ASSUME SchedulerInv, NEW j \in Jobs, WatchEnds(j)
  PROVE  SchedulerTypeOK' /\ \A k \in Jobs : JobInv(k)'
<1> USE WebGatesAreGates DEF SchedulerInv
<1>1. SchedulerTypeOK'
  BY DEF WatchEnds, SchedulerTypeOK, Verdicts
<1>a. /\ phase[j] = "watch" /\ phase'[j] = "drain" /\ verdict'[j] = verdict[j]
      /\ UNCHANGED <<gateVars, remaining, current, semantic_failure_seen, watchers, attempts>>
  BY DEF WatchEnds, SchedulerTypeOK
<1>2. JobGates(j)'
  BY <1>a DEF JobInv, JobGates, NoWatchers, gateVars
<1>3. JobHistory(j)' /\ JobVerdict(j)' /\ JobOutcome(j)'
  BY <1>a DEF JobInv, JobHistory, JobVerdict, JobOutcome
<1>4. QED
  BY <1>1, <1>2, <1>3, OtherJobs DEF WatchEnds, SchedulerTypeOK, JobInv

\* The gather of the cancelled watchers returns.
LEMMA DrainedStep ==
  ASSUME SchedulerInv, NEW j \in Jobs, Drained(j)
  PROVE  SchedulerTypeOK' /\ \A k \in Jobs : JobInv(k)'
<1> USE WebGatesAreGates DEF SchedulerInv
<1>1. SchedulerTypeOK'
  BY DEF Drained, SchedulerTypeOK, Verdicts
<1>a. /\ phase[j] = "drain" /\ verdict'[j] = verdict[j] /\ NoWatchers(j)
      /\ phase'[j] = IF verdict[j] = "cancelled" THEN "done" ELSE "select"
      /\ UNCHANGED <<gateVars, remaining, current, semantic_failure_seen, watchers, attempts>>
  BY DEF Drained, SchedulerTypeOK
<1>2. JobGates(j)'
  BY <1>a DEF JobInv, JobGates, NoWatchers, gateVars
<1>3. JobHistory(j)' /\ JobVerdict(j)' /\ JobOutcome(j)'
  BY <1>a DEF JobInv, JobHistory, JobVerdict, JobOutcome
<1>4. QED
  BY <1>1, <1>2, <1>3, OtherJobs DEF Drained, SchedulerTypeOK, JobInv

\* The attempt ends without a judge.
LEMMA FetchEndsStep ==
  ASSUME SchedulerInv, NEW j \in Jobs, NEW v \in Verdicts, FetchEnds(j, v)
  PROVE  SchedulerTypeOK' /\ \A k \in Jobs : JobInv(k)'
<1> USE WebGatesAreGates DEF SchedulerInv
<1>1. SchedulerTypeOK'
  BY DEF FetchEnds, SchedulerTypeOK, Verdicts
<1>a. /\ phase[j] = "fetch" /\ phase'[j] = "release" /\ verdict'[j] = v /\ v # "none"
      /\ UNCHANGED <<gateVars, remaining, current, semantic_failure_seen, watchers, attempts>>
  BY DEF FetchEnds, SchedulerTypeOK
<1>2. JobGates(j)'
  BY <1>a DEF JobInv, JobGates, NoWatchers, gateVars
<1>3. JobHistory(j)' /\ JobVerdict(j)' /\ JobOutcome(j)'
  BY <1>a DEF JobInv, JobHistory, JobVerdict, JobOutcome
<1>4. QED
  BY <1>1, <1>2, <1>3, OtherJobs DEF FetchEnds, SchedulerTypeOK, JobInv

\* CancelledError is raised in a suspended job.
LEMMA CancelJobStep ==
  ASSUME SchedulerInv, NEW j \in Jobs, CancelJob(j)
  PROVE  SchedulerTypeOK' /\ \A k \in Jobs : JobInv(k)'
<1> USE WebGatesAreGates DEF SchedulerInv
<1>1. SchedulerTypeOK'
  BY DEF CancelJob, SchedulerTypeOK, Verdicts
<1>a. /\ verdict'[j] = "cancelled"
      /\ \/ phase[j] = "watch" /\ phase'[j] = "done"
         \/ phase[j] = "drain" /\ phase'[j] = "drain"
         \/ phase[j] \in {"fetch", "judge"} /\ phase'[j] = "release"
      /\ UNCHANGED <<gateVars, remaining, current, semantic_failure_seen, watchers, attempts>>
  BY DEF CancelJob, SchedulerTypeOK
<1>2. JobGates(j)'
  BY <1>a DEF JobInv, JobGates, NoWatchers, gateVars
<1>3. JobHistory(j)' /\ JobVerdict(j)' /\ JobOutcome(j)'
  BY <1>a DEF JobInv, JobHistory, JobVerdict, JobOutcome
<1>4. QED
  BY <1>1, <1>2, <1>3, OtherJobs DEF CancelJob, SchedulerTypeOK, JobInv

\* What a step of job j on the judge's gate leaves of its other gates, and the
\* lease or wait it can have of that one.
LEMMA LlmStep ==
  ASSUME SchedulerInv, NEW j \in Jobs, GateStepOf(j, LlmGate), ~WatchAvailable(j, LlmGate),
         JobHistory(j)', JobVerdict(j)', JobOutcome(j)', SchedulerTypeOK',
         phase[j] \in {"fetch", "judge", "release"}, phase'[j] \in {"judge", "release"},
         current' = current, watchers' = watchers,
         \A k \in Jobs \ {j} :
           /\ phase'[k] = phase[k] /\ remaining'[k] = remaining[k]
           /\ verdict'[k] = verdict[k] /\ attempts'[k] = attempts[k]
           /\ semantic_failure_seen'[k] = semantic_failure_seen[k]
  PROVE  SchedulerTypeOK' /\ \A k \in Jobs : JobInv(k)'
<1> USE WebGatesAreGates DEF SchedulerInv
<1>1. TypeOK /\ j \in Tasks
  BY SchedulerAssumption DEF GateInv
<1>2. \A g \in Gates \ {LlmGate} : /\ <<j, g>> \in leases' <=> <<j, g>> \in leases
                                   /\ waiting'[<<j, g>>] = waiting[<<j, g>>]
  BY <1>1, GateStepLocal
<1>3. waiting[<<j, LlmGate>>] # "watch"
  BY DEF JobInv, JobGates
<1>4. waiting'[<<j, LlmGate>>] # "watch"
  BY <1>1, <1>3 DEF GateStepOf, TryLease, Acquire, Resume, Release, CancelWaiter, TypeOK
<1>5. JobGates(j)'
  BY <1>2, <1>4 DEF JobInv, JobGates, NoWatchers
<1>6. QED
  BY <1>5, OtherJobs DEF JobInv

\* provider.fetch returns a candidate: the judge's lease is asked for.
LEMMA FetchReturnsStep ==
  ASSUME SchedulerInv, NEW j \in Jobs, FetchReturns(j)
  PROVE  SchedulerTypeOK' /\ \A k \in Jobs : JobInv(k)'
<1> USE DEF SchedulerInv
<1>1. SchedulerTypeOK'
  BY DEF FetchReturns, SchedulerTypeOK
<1>a. /\ phase[j] = "fetch" /\ phase'[j] = "judge" /\ verdict' = verdict /\ current' = current
      /\ remaining' = remaining /\ attempts' = attempts /\ watchers' = watchers
      /\ semantic_failure_seen' = semantic_failure_seen
  BY DEF FetchReturns, SchedulerTypeOK
<1>2. JobHistory(j)' /\ JobVerdict(j)' /\ JobOutcome(j)'
  BY <1>a DEF JobInv, JobHistory, JobVerdict, JobOutcome
<1>3. GateStepOf(j, LlmGate) /\ ~WatchAvailable(j, LlmGate)
  <2>1. TypeOK /\ j \in Tasks /\ LlmGate \in Gates
    BY SchedulerAssumption DEF GateInv
  <2>2. Acquire(j, LlmGate)
    BY DEF FetchReturns
  <2>3. ~WatchAvailable(j, LlmGate)
    BY <2>1, <2>2 DEF Acquire, WatchAvailable, Claim, NoClaim, TypeOK
  <2>4. QED
    BY <2>2, <2>3 DEF GateStepOf
<1>4. QED
  BY <1>1, <1>a, <1>2, <1>3, LlmStep DEF FetchReturns, SchedulerTypeOK

\* A notified, suspended or leasing coroutine is not the one that begins a watch.
LEMMA EngagedDoesNotWatch ==
  ASSUME GateInv, NEW t \in Tasks, NEW g \in Gates,
         Resume(t, g) \/ Release(t, g) \/ CancelWaiter(t, g)
  PROVE  GateStepOf(t, g) /\ ~WatchAvailable(t, g)
BY DEF GateInv, NotifiedAreWaiting, Resume, Release, CancelWaiter, GateStepOf, WatchAvailable,
       Unengaged

\* The wait for the judge's lease goes on or ends; a cancelled job leaves it.
LEMMA LlmGateStep ==
  ASSUME SchedulerInv, NEW j \in Jobs, JudgeResumes(j) \/ UnwindLlm(j)
  PROVE  SchedulerTypeOK' /\ \A k \in Jobs : JobInv(k)'
<1> USE DEF SchedulerInv
<1>1. UNCHANGED jobVars /\ phase[j] \in {"judge", "release"}
  BY DEF JudgeResumes, UnwindLlm
<1>2. SchedulerTypeOK' /\ JobHistory(j)' /\ JobVerdict(j)' /\ JobOutcome(j)'
  BY <1>1 DEF jobVars, SchedulerTypeOK, JobInv, JobHistory, JobVerdict, JobOutcome
<1>3. j \in Tasks /\ LlmGate \in Gates
  BY SchedulerAssumption
<1>4. GateStepOf(j, LlmGate) /\ ~WatchAvailable(j, LlmGate)
  BY <1>3, EngagedDoesNotWatch DEF JudgeResumes, UnwindLlm
<1>5. QED
  BY <1>1, <1>2, <1>4, LlmStep DEF jobVars

\* The judge call ends and gives its lease back.
LEMMA JudgedStep ==
  ASSUME SchedulerInv, NEW j \in Jobs, NEW v \in Verdicts, Judged(j, v)
  PROVE  SchedulerTypeOK' /\ \A k \in Jobs : JobInv(k)'
<1> USE DEF SchedulerInv
<1>1. SchedulerTypeOK'
  BY DEF Judged, SchedulerTypeOK
<1>a. /\ phase[j] = "judge" /\ phase'[j] = "release" /\ verdict'[j] = v /\ v # "none"
      /\ remaining' = remaining /\ attempts' = attempts /\ watchers' = watchers
      /\ semantic_failure_seen' = semantic_failure_seen /\ current' = current
  BY DEF Judged, SchedulerTypeOK
<1>2. JobHistory(j)' /\ JobVerdict(j)' /\ JobOutcome(j)'
  BY <1>a DEF JobInv, JobHistory, JobVerdict, JobOutcome
<1>3. j \in Tasks /\ LlmGate \in Gates
  BY SchedulerAssumption
<1>4. GateStepOf(j, LlmGate) /\ ~WatchAvailable(j, LlmGate)
  BY <1>3, EngagedDoesNotWatch DEF Judged
<1>5. QED
  BY <1>1, <1>a, <1>2, <1>4, LlmStep DEF Judged, SchedulerTypeOK

\* The attempt ends: its web lease is given back, its verdict noted, and the job
\* goes on or is classified.
LEMMA AttemptEndsStep ==
  ASSUME SchedulerInv, NEW j \in Jobs, AttemptEnds(j)
  PROVE  SchedulerTypeOK' /\ \A k \in Jobs : JobInv(k)'
<1> USE WebGatesAreGates DEF SchedulerInv
<1> DEFINE g == current[j]
<1>1. g \in WebGates /\ g \in Gates /\ TypeOK /\ j \in Tasks
  BY SchedulerAssumption DEF AttemptEnds, SchedulerTypeOK, GateInv
<1>2. /\ phase[j] = "release" /\ phase'[j] = IF Classified(j) = "none" THEN "select" ELSE "done"
      /\ current'[j] = NoGate /\ remaining' = remaining /\ watchers' = watchers
      /\ verdict'[j] = Classified(j) /\ verdict[j] \in Verdicts
      /\ attempts'[j] = [attempts[j] EXCEPT ![g] = verdict[j]]
      /\ attempts[j] \in [WebGates -> Verdicts]
      /\ semantic_failure_seen'[j] = (semantic_failure_seen[j] \/ verdict[j] = "semantic_failure")
  BY DEF AttemptEnds, SchedulerTypeOK
<1>3. Classified(j) \in Verdicts
  BY <1>2 DEF Classified, Verdicts
<1>4. SchedulerTypeOK'
  <2>1. phase' \in [Jobs -> {"idle", "select", "watch", "drain", "fetch", "judge", "release", "done"}]
        /\ verdict' \in [Jobs -> Verdicts] /\ current' \in [Jobs -> WebGates \cup {NoGate}]
    BY <1>3 DEF AttemptEnds, SchedulerTypeOK
  <2>2. attempts' \in [Jobs -> [WebGates -> Verdicts]]
    BY <1>1, <1>2 DEF AttemptEnds, SchedulerTypeOK
  <2>3. semantic_failure_seen' \in [Jobs -> BOOLEAN]
    BY DEF AttemptEnds, SchedulerTypeOK
  <2>4. \A k \in Jobs : current'[k] # NoGate <=> phase'[k] \in {"fetch", "judge", "release"}
    <3> SUFFICES ASSUME NEW k \in Jobs
                 PROVE  current'[k] # NoGate <=> phase'[k] \in {"fetch", "judge", "release"}
      OBVIOUS
    <3>1. CASE k = j
      BY <1>2, <3>1
    <3>2. CASE k # j
      BY <3>2 DEF AttemptEnds, SchedulerTypeOK
    <3>3. QED
      BY <3>1, <3>2
  <2>5. QED
    BY <2>1, <2>2, <2>3, <2>4 DEF AttemptEnds, SchedulerTypeOK
<1>5. JobGates(j)'
  <2>1. \A h \in Gates :
          /\ <<j, h>> \in leases' <=> <<j, h>> \in leases /\ h # g
          /\ waiting'[<<j, h>>] = waiting[<<j, h>>]
    BY <1>1 DEF AttemptEnds, Release
  <2>2. \A h \in Gates : <<j, h>> \notin leases' /\ waiting'[<<j, h>>] # "claim"
    BY <2>1 DEF AttemptEnds, JobInv, JobGates
  <2>3. QED
    BY <1>2, <2>1, <2>2 DEF JobInv, JobGates, NoWatchers
<1>6. JobHistory(j)'
  <2>1. NoGate \notin remaining[j] /\ g \notin remaining[j] /\ remaining[j] \subseteq WebGates
    BY DEF JobInv, JobHistory, SchedulerTypeOK
  <2>2. \A h \in remaining'[j] \cup ({current'[j]} \ {NoGate}) : attempts'[j][h] = "none"
    BY <1>1, <1>2, <2>1 DEF JobInv, JobHistory
  <2>3. attempts[j][g] = "none"
    BY <1>1 DEF JobInv, JobHistory
  <2>4. semantic_failure_seen'[j] <=> \E h \in WebGates : attempts'[j][h] = "semantic_failure"
    <3>1. semantic_failure_seen[j] <=> \E h \in WebGates : attempts[j][h] = "semantic_failure"
      BY DEF JobInv, JobHistory
    <3>2. \A h \in WebGates : attempts'[j][h] = IF h = g THEN verdict[j] ELSE attempts[j][h]
      BY <1>2
    <3>3. QED
      BY <1>1, <1>2, <2>3, <3>1, <3>2
  <2>5. ASSUME phase'[j] = "select", NEW h \in WebGates \ remaining[j]
        PROVE  attempts'[j][h] \in {"semantic_failure", "execution_failure"}
    <3>1. verdict[j] \in {"semantic_failure", "execution_failure"}
      BY <1>2, <2>5 DEF Classified, Verdicts, JobInv, JobVerdict
    <3>2. QED
      BY <1>1, <1>2, <2>5, <3>1 DEF JobInv, JobHistory
  <2>6. QED
    BY <1>2, <2>1, <2>2, <2>4, <2>5 DEF JobHistory
<1>7. JobVerdict(j)'
  BY <1>2 DEF JobVerdict
<1>8. JobOutcome(j)'
  <2> SUFFICES ASSUME Classified(j) # "none" PROVE JobOutcome(j)'
    BY <1>2 DEF JobOutcome
  <2>1. verdict[j] # "none"
    BY <1>2 DEF JobInv, JobVerdict
  <2>2. \A h \in WebGates : attempts'[j][h] = IF h = g THEN verdict[j] ELSE attempts[j][h]
    BY <1>2
  <2>3. CASE verdict[j] \in {"accepted", "judge_failed", "cancelled"}
    BY <1>1, <1>2, <2>2, <2>3 DEF Classified, JobOutcome
  <2>4. CASE verdict[j] \in {"semantic_failure", "execution_failure"}
    <3>1. remaining[j] = {}
      BY <2>4 DEF Classified
    <3>2. \A h \in WebGates : attempts'[j][h] \in {"semantic_failure", "execution_failure"}
      BY <1>2, <2>2, <2>4, <3>1 DEF JobInv, JobHistory
    <3>3. semantic_failure_seen'[j] <=> \E h \in WebGates : attempts'[j][h] = "semantic_failure"
      BY <1>6 DEF JobHistory
    <3>4. Classified(j) = IF semantic_failure_seen'[j] THEN "semantic_failure" ELSE "execution_failure"
      BY <1>2, <2>4, <3>1 DEF Classified
    <3>5. QED
      BY <1>2, <3>2, <3>3, <3>4 DEF JobOutcome
  <2>5. QED
    BY <1>2, <2>1, <2>3, <2>4 DEF Verdicts
<1>9. QED
  <2>1. GateStepOf(j, g)
    BY DEF AttemptEnds, GateStepOf
  <2>2. JobInv(j)'
    BY <1>5, <1>6, <1>7, <1>8 DEF JobInv
  <2>3. QED
    BY <1>1, <1>4, <2>1, <2>2, OtherJobs DEF AttemptEnds, SchedulerTypeOK

\* Other users of the quotas do not disturb the jobs.
LEMMA CallerStep ==
  ASSUME SchedulerInv, NEW c \in Callers, NEW g \in Gates,
         CallerAcquires(c, g) \/ CallerGoesOn(c, g) \/ CallerCancelled(c, g)
  PROVE  SchedulerTypeOK' /\ \A k \in Jobs : JobInv(k)'
<1> USE DEF SchedulerInv
<1>1. c \in Tasks /\ c \notin Jobs /\ TypeOK
  BY SchedulerAssumption DEF GateInv
<1>2. /\ UNCHANGED <<phase, remaining, current, verdict, semantic_failure_seen, watchers, attempts>>
      /\ called' \subseteq Callers
  BY DEF CallerAcquires, CallerGoesOn, CallerCancelled, jobVars, SchedulerTypeOK
<1>3. SchedulerTypeOK'
  BY <1>2 DEF SchedulerTypeOK
<1>4. GateStepOf(c, g)
  BY DEF CallerAcquires, CallerGoesOn, CallerCancelled, GateStepOf
<1>5. ASSUME NEW k \in Jobs PROVE JobInv(k)'
  <2>1. k \in Tasks /\ k # c
    BY <1>1, SchedulerAssumption
  <2>2. QED
    BY <1>1, <1>2, <1>4, <2>1, GateStepFrame, JobFrame
<1>6. QED
  BY <1>3, <1>5

-----------------------------------------------------------------------------
\* Every step of the scheduler is a step of one coroutine on one gate, or leaves
\* the gates alone.
LEMMA StepUsesGates ==
  ASSUME SchedulerTypeOK, [SchedulerNext]_schedulerVars
  PROVE  [Next]_gateVars
<1> USE WebGatesAreGates
<1>1. Jobs \subseteq Tasks /\ Callers \subseteq Tasks
  BY SchedulerAssumption
<1>2. \A t \in Tasks, g \in Gates : GateStepOf(t, g) => Next
  BY DEF GateStepOf, Next
<1>3. ASSUME NEW j \in Jobs, StartJob(j) \/ CancelJob(j) \/ JobProgress(j)
      PROVE  UNCHANGED gateVars \/ \E g \in Gates : GateStepOf(j, g)
  <2>1. CASE StartJob(j) \/ CancelJob(j) \/ Watch(j) \/ WatchEnds(j) \/ Drained(j)
             \/ \E v \in Verdicts : FetchEnds(j, v)
    BY <2>1 DEF StartJob, CancelJob, Watch, WatchEnds, Drained, FetchEnds
  <2>2. CASE Select(j)
    BY <2>2 DEF Select, GateStepOf
  <2>3. CASE FetchReturns(j) \/ JudgeResumes(j) \/ UnwindLlm(j) \/ \E v \in Verdicts : Judged(j, v)
    BY <2>3 DEF FetchReturns, JudgeResumes, UnwindLlm, Judged, GateStepOf
  <2>4. CASE AttemptEnds(j)
    BY <2>4 DEF AttemptEnds, SchedulerTypeOK, GateStepOf
  <2>5. QED
    BY <1>3, <2>1, <2>2, <2>3, <2>4 DEF JobProgress
<1>4. ASSUME NEW j \in Jobs, NEW g \in WebGates, WatcherProgress(j, g)
      PROVE  UNCHANGED gateVars \/ GateStepOf(j, g)
  BY <1>4 DEF WatcherProgress, WatcherStarts, WatcherResumes, Drain, GateStepOf
<1>5. ASSUME NEW c \in Callers, NEW g \in Gates,
             CallerAcquires(c, g) \/ CallerGoesOn(c, g) \/ CallerCancelled(c, g)
      PROVE  GateStepOf(c, g)
  BY <1>5 DEF CallerAcquires, CallerGoesOn, CallerCancelled, GateStepOf
<1>6. CASE UNCHANGED schedulerVars
  BY <1>6 DEF schedulerVars
<1>7. QED
  BY <1>1, <1>2, <1>3, <1>4, <1>5, <1>6 DEF SchedulerNext

\* The first state satisfies the invariant.
LEMMA SchedulerInitial == SchedulerInit => SchedulerInv
<1> SUFFICES ASSUME SchedulerInit PROVE SchedulerInv
  OBVIOUS
<1> USE WebGatesAreGates
<1>1. GateInv
  BY GateInit DEF SchedulerInit
<1>2. SchedulerTypeOK
  BY DEF SchedulerInit, SchedulerTypeOK, Verdicts
<1>3. ASSUME NEW j \in Jobs PROVE JobInv(j)
  <2>1. j \in Tasks
    BY SchedulerAssumption
  <2>2. JobGates(j)
    BY <2>1 DEF SchedulerInit, Init, JobGates, NoWatchers
  <2>3. JobHistory(j) /\ JobVerdict(j) /\ JobOutcome(j)
    BY DEF SchedulerInit, JobHistory, JobVerdict, JobOutcome
  <2>4. QED
    BY <2>2, <2>3 DEF JobInv
<1>4. QED
  BY <1>1, <1>2, <1>3 DEF SchedulerInv

\* Every step preserves it.
LEMMA SchedulerStep == SchedulerInv /\ [SchedulerNext]_schedulerVars => SchedulerInv'
<1> SUFFICES ASSUME SchedulerInv, [SchedulerNext]_schedulerVars PROVE SchedulerInv'
  OBVIOUS
<1>1. GateInv'
  BY StepUsesGates, GateStep DEF SchedulerInv
<1>2. SchedulerTypeOK' /\ \A k \in Jobs : JobInv(k)'
  <2>1. CASE UNCHANGED schedulerVars
    <3>1. UNCHANGED <<leases, waiting, phase, remaining, current, verdict, semantic_failure_seen,
                      watchers, attempts, called>>
      BY <2>1 DEF schedulerVars, gateVars, jobVars
    <3>2. QED
      BY <3>1, JobFrame DEF SchedulerInv, SchedulerTypeOK
  <2>2. ASSUME NEW j \in Jobs, StartJob(j) \/ JobProgress(j) \/ CancelJob(j)
        PROVE  SchedulerTypeOK' /\ \A k \in Jobs : JobInv(k)'
    BY <2>2, StartJobStep, SelectStep, WatchStep, WatchEndsStep, DrainedStep, FetchEndsStep,
       JudgedStep, FetchReturnsStep, LlmGateStep, AttemptEndsStep, CancelJobStep
       DEF JobProgress
  <2>3. ASSUME NEW j \in Jobs, NEW g \in WebGates, WatcherProgress(j, g)
        PROVE  SchedulerTypeOK' /\ \A k \in Jobs : JobInv(k)'
    BY <2>3, WatcherStartsStep, WatcherResumesStep, DrainStep DEF WatcherProgress
  <2>4. QED
    BY <2>1, <2>2, <2>3, CallerStep DEF SchedulerNext
<1>3. QED
  BY <1>1, <1>2 DEF SchedulerInv

\* Every reachable state of the scheduler satisfies the inductive invariant.
THEOREM SchedulerInvariant == SchedulerSpec => []SchedulerInv
BY SchedulerInitial, SchedulerStep, PTL DEF SchedulerSpec

\* fetch_until_accepted and the other callers use try_lease, lease and
\* wait_until_available only as the gates allow: every behaviour of the scheduler
\* is one of the gates.
THEOREM SchedulerUsesGates == SchedulerSpec => UsesGates
<1>1. SchedulerInit => Init
  BY DEF SchedulerInit
<1>2. SchedulerInv /\ [SchedulerNext]_schedulerVars => [Next]_gateVars
  BY StepUsesGates DEF SchedulerInv
<1>3. QED
  BY <1>1, <1>2, SchedulerInvariant, PTL DEF SchedulerSpec, UsesGates, Spec

\* Quotas hold and no wakeup is lost while jobs hold one gate and wait for
\* another, whatever is cancelled.
THEOREM SchedulerKeepsQuotas == SchedulerSpec => [](QuotaBound /\ NoLostWakeup)
BY SchedulerInvariant, PTL DEF SchedulerInv, GateInv

\* What fetch_until_accepted returns is justified by its attempts, at most one
\* per provider; semantic_failure, which makes a URL unavailable for good, needs
\* a rejected body and no provider left untried.
THEOREM SchedulerOutcomes == SchedulerSpec => []OutcomeJustified
<1>1. SchedulerInv => OutcomeJustified
  <2> SUFFICES ASSUME SchedulerInv PROVE OutcomeJustified
    OBVIOUS
  <2>1. \A j \in Jobs : JobHistory(j) /\ JobOutcome(j)
    BY DEF SchedulerInv, JobInv
  <2>2. QED
    BY <2>1 DEF JobHistory, JobOutcome, OutcomeJustified
<1>2. QED
  BY <1>1, SchedulerInvariant, PTL

\* A job that has ended, in whatever way, holds no lease and waits for none, and
\* no watcher claims anything.
THEOREM SchedulerLeaksNothing == SchedulerSpec => []NothingLeaks
<1>1. SchedulerInv => NothingLeaks
  <2> SUFFICES ASSUME SchedulerInv, NEW j \in Jobs, phase[j] \in {"idle", "select", "done"},
                      NEW g \in Gates
               PROVE  /\ <<j, g>> \notin leases /\ waiting[<<j, g>>] # "claim"
                      /\ verdict[j] # "cancelled" => NoWatchers(j) /\ waiting[<<j, g>>] = "no"
    BY SchedulerAssumption DEF NothingLeaks
  <2>1. JobGates(j) /\ JobVerdict(j) /\ current[j] = NoGate /\ j \in Tasks
    BY SchedulerAssumption DEF SchedulerInv, JobInv, SchedulerTypeOK
  <2>2. waiting[<<j, g>>] \in {"no", "claim", "watch"}
    BY <2>1 DEF SchedulerInv, GateInv, TypeOK, WaitKinds
  <2>3. QED
    BY <2>1, <2>2, WebGatesAreGates DEF JobGates, NoWatchers
<1>2. QED
  BY <1>1, SchedulerInvariant, PTL

-----------------------------------------------------------------------------
(* Nobody waits in a circle. *)

\* A job has what its phase needs to go on: the web lease of its attempt, the
\* judge's lease or a place in its queue, a provider left to try, and watchers
\* that really wait.
WorkInv(j) ==
  /\ phase[j] \in {"fetch", "judge", "release"} => <<j, current[j]>> \in leases
  /\ phase[j] = "judge" => <<j, LlmGate>> \in leases \/ waiting[<<j, LlmGate>>] = "claim"
  /\ phase[j] \in {"select", "watch", "drain"} => remaining[j] # {}
  /\ phase[j] = "watch" => \A g \in remaining[j] : watchers[<<j, g>>] # "none"
  /\ \A g \in WebGates : watchers[<<j, g>>] = "waiting" => waiting[<<j, g>>] = "watch"

\* Only callers that have begun use a gate.
CallersInv ==
  \A c \in Callers, g \in Gates :
    <<c, g>> \in leases \/ waiting[<<c, g>>] # "no" => c \in called

\* Inductive beside SchedulerInv.
ProgressInv == (\A j \in Jobs : WorkInv(j)) /\ CallersInv

\* The next step of coroutine t is up to no other coroutine: it has been woken,
\* or is suspended in a call of its own, or has not suspended at all.
CanGoOn(t) ==
  \/ /\ t \in Jobs
     /\ \/ phase[t] \in {"select", "drain", "fetch", "release"}
        \/ phase[t] = "judge" /\ <<t, LlmGate>> \in leases \cup notified
        \/ /\ phase[t] = "watch"
           /\ \E g \in WebGates :
                watchers[<<t, g>>] \in {"created", "done"} \/ <<t, g>> \in notified
  \/ t \in called /\ \E g \in Gates : <<t, g>> \in leases \cup notified

\* s waits for a gate of which t has a lease.
Blocks(t, s) == \E g \in Gates : waiting[<<s, g>>] # "no" /\ <<t, g>> \in leases

\* A job in progress goes on, or waits for one that does, or for one that waits for
\* one that does: an attempt holds its provider's slot while it waits for the
\* judge's, and the judge's slot is held by nobody who waits.
NoCircularWait ==
  \A j \in Jobs : phase[j] \notin {"idle", "done"} =>
    \/ CanGoOn(j)
    \/ \E t \in Tasks :
         /\ Blocks(t, j)
         /\ CanGoOn(t) \/ \E u \in Tasks : Blocks(u, t) /\ CanGoOn(u)

\* A job that a step does not concern keeps what it needs.
LEMMA WorkFrame ==
  ASSUME NEW k \in Jobs, WorkInv(k),
         \A g \in Gates : /\ <<k, g>> \in leases' <=> <<k, g>> \in leases
                          /\ waiting'[<<k, g>>] = waiting[<<k, g>>],
         current[k] \in Gates \/ phase[k] \notin {"fetch", "judge", "release"},
         phase'[k] = phase[k], remaining'[k] = remaining[k], current'[k] = current[k],
         \A g \in WebGates : watchers'[<<k, g>>] = watchers[<<k, g>>],
         remaining[k] \subseteq WebGates
  PROVE  WorkInv(k)'
BY WebGatesAreGates DEF WorkInv

\* The types of a job, and that it is a coroutine.
LEMMA JobTypes ==
  ASSUME SchedulerInv, NEW j \in Jobs
  PROVE  /\ j \in Tasks /\ TypeOK /\ remaining[j] \subseteq WebGates
         /\ phase[j] \in {"fetch", "judge", "release"} => current[j] \in WebGates
         /\ phase[j] \in {"idle", "select", "watch", "drain", "fetch", "judge", "release", "done"}
         /\ \A g \in WebGates : watchers[<<j, g>>] \in {"none", "created", "waiting", "done"}
BY SchedulerAssumption DEF SchedulerInv, GateInv, SchedulerTypeOK

\* The steps of job j that leave the gates alone.
LEMMA QuietJobWorks ==
  ASSUME SchedulerInv, NEW j \in Jobs, WorkInv(j),
         \/ StartJob(j) \/ CancelJob(j) \/ Watch(j) \/ WatchEnds(j) \/ Drained(j)
         \/ \E v \in Verdicts : FetchEnds(j, v)
  PROVE  WorkInv(j)'
<1>1. /\ phase \in [Jobs -> {"idle", "select", "watch", "drain", "fetch", "judge", "release", "done"}]
      /\ remaining \in [Jobs -> SUBSET WebGates]
  BY DEF SchedulerInv, SchedulerTypeOK
<1>2. WebGates # {}
  BY SchedulerAssumption DEF WebGates
<1>3. CASE StartJob(j)
  BY <1>1, <1>2, <1>3 DEF StartJob, WorkInv, gateVars
<1>4. CASE CancelJob(j)
  BY <1>1, <1>4 DEF CancelJob, WorkInv, gateVars
<1>5. CASE Watch(j)
  <2>1. /\ phase[j] = "select" /\ phase'[j] = "watch"
        /\ UNCHANGED <<leases, waiting, remaining, current>>
        /\ \A g \in WebGates : watchers'[<<j, g>>] =
             IF g \in remaining[j] THEN "created" ELSE watchers[<<j, g>>]
    BY <1>1, <1>5 DEF Watch, gateVars
  <2>2. QED
    BY <1>1, <2>1 DEF WorkInv
<1>6. CASE WatchEnds(j)
  BY <1>1, <1>6 DEF WatchEnds, WorkInv, gateVars
<1>7. CASE Drained(j)
  BY <1>1, <1>7 DEF Drained, WorkInv, gateVars
<1>8. CASE \E v \in Verdicts : FetchEnds(j, v)
  BY <1>1, <1>8 DEF FetchEnds, WorkInv, gateVars
<1>9. QED
  BY <1>3, <1>4, <1>5, <1>6, <1>7, <1>8

\* The steps of job j on a gate.
LEMMA GateJobWorks ==
  ASSUME SchedulerInv, NEW j \in Jobs, WorkInv(j),
         \/ Select(j) \/ FetchReturns(j) \/ JudgeResumes(j) \/ UnwindLlm(j) \/ AttemptEnds(j)
         \/ \E v \in Verdicts : Judged(j, v)
  PROVE  WorkInv(j)'
<1> USE WebGatesAreGates
<1>1. /\ phase \in [Jobs -> {"idle", "select", "watch", "drain", "fetch", "judge", "release", "done"}]
      /\ remaining \in [Jobs -> SUBSET WebGates] /\ current \in [Jobs -> WebGates \cup {NoGate}]
  BY DEF SchedulerInv, SchedulerTypeOK
<1>2. /\ j \in Tasks /\ TypeOK /\ JobGates(j)
      /\ phase[j] \in {"fetch", "judge", "release"} => current[j] \in WebGates
  BY JobTypes DEF SchedulerInv, JobInv
<1>3. CASE Select(j)
  <2>1. PICK g \in WebGates : TryLease(j, g) /\ current' = [current EXCEPT ![j] = g]
    BY <1>3 DEF Select
  <2>2. /\ <<j, g>> \in leases' /\ waiting' = waiting /\ current'[j] = g
        /\ phase'[j] = "fetch" /\ watchers' = watchers
    BY <1>1, <1>3, <2>1 DEF Select, TryLease, Claim
  <2>3. QED
    BY <2>2 DEF WorkInv
<1>4. ASSUME NEW h \in Gates, h = LlmGate, GateStepOf(j, h), phase[j] \in {"fetch", "judge", "release"},
             phase'[j] \in {"judge", "release"}, UNCHANGED <<current, watchers>>,
             phase'[j] = "judge" => <<j, LlmGate>> \in leases' \/ waiting'[<<j, LlmGate>>] = "claim"
      PROVE  WorkInv(j)'
  <2>1. /\ <<j, current[j]>> \in leases'
        /\ \A g \in WebGates : waiting'[<<j, g>>] = waiting[<<j, g>>]
    BY <1>2, <1>4, GateStepLocal DEF WorkInv
  <2>2. QED
    BY <1>4, <2>1 DEF WorkInv
<1>5. CASE FetchReturns(j)
  <2>1. /\ Acquire(j, LlmGate) /\ phase[j] = "fetch" /\ phase'[j] = "judge"
        /\ UNCHANGED <<current, watchers>>
    BY <1>1, <1>5 DEF FetchReturns
  <2>2. <<j, LlmGate>> \in leases' \/ waiting'[<<j, LlmGate>>] = "claim"
    BY <1>2, <2>1 DEF Acquire, Claim, TypeOK
  <2>3. QED
    BY <1>4, <2>1, <2>2 DEF GateStepOf
<1>6. CASE JudgeResumes(j)
  <2>1. Resume(j, LlmGate) /\ phase[j] = "judge" /\ UNCHANGED <<phase, current, watchers>>
    BY <1>6 DEF JudgeResumes, jobVars
  <2>2. <<j, LlmGate>> \in leases' \/ waiting'[<<j, LlmGate>>] = "claim"
    BY <1>2, <2>1 DEF Resume, Claim, NoClaim, TypeOK, WorkInv
  <2>3. QED
    BY <1>4, <2>1, <2>2 DEF GateStepOf
<1>7. CASE UnwindLlm(j)
  <2>1. /\ CancelWaiter(j, LlmGate) \/ Release(j, LlmGate)
        /\ phase[j] = "release" /\ UNCHANGED <<phase, current, watchers>>
    BY <1>7 DEF UnwindLlm, jobVars
  <2>2. QED
    BY <1>4, <2>1 DEF GateStepOf
<1>8. CASE \E v \in Verdicts : Judged(j, v)
  <2>1. /\ Release(j, LlmGate) /\ phase[j] = "judge" /\ phase'[j] = "release"
        /\ UNCHANGED <<current, watchers>>
    BY <1>1, <1>8 DEF Judged
  <2>2. QED
    BY <1>4, <2>1 DEF GateStepOf
<1>9. CASE AttemptEnds(j)
  <2>1. /\ waiting' = waiting /\ watchers' = watchers /\ remaining' = remaining
        /\ phase'[j] = IF Classified(j) = "none" THEN "select" ELSE "done"
    BY <1>1, <1>9 DEF AttemptEnds, Release
  <2>2. phase[j] = "release" /\ verdict[j] # "none"
    BY <1>9 DEF AttemptEnds, SchedulerInv, JobInv, JobVerdict
  <2>3. Classified(j) = "none" => remaining[j] # {}
    BY <2>2 DEF Classified
  <2>4. QED
    BY <2>1, <2>3 DEF WorkInv
<1>10. QED
  BY <1>3, <1>5, <1>6, <1>7, <1>8, <1>9

\* The steps of the watchers of job j.
LEMMA WatcherWorks ==
  ASSUME SchedulerInv, NEW j \in Jobs, NEW g \in WebGates, WorkInv(j), WatcherProgress(j, g)
  PROVE  WorkInv(j)'
<1> USE WebGatesAreGates
<1>1. /\ watchers \in [Jobs \X WebGates -> {"none", "created", "waiting", "done"}]
      /\ j \in Tasks /\ TypeOK /\ JobGates(j) /\ remaining[j] \subseteq WebGates
      /\ phase[j] \in {"fetch", "judge", "release"} => current[j] \in WebGates
  BY JobTypes DEF SchedulerInv, SchedulerTypeOK, JobInv
<1>2. /\ UNCHANGED <<phase, remaining, current>>
      /\ \A h \in WebGates \ {g} : watchers'[<<j, h>>] = watchers[<<j, h>>]
  BY <1>1 DEF WatcherProgress, WatcherStarts, WatcherResumes, Drain
<1>3. phase[j] \notin {"fetch", "judge", "release", "select"}
  BY <1>1 DEF WatcherProgress, WatcherStarts, WatcherResumes, Drain, JobGates, NoWatchers
<1>4. UNCHANGED gateVars \/ GateStepOf(j, g)
  BY DEF WatcherProgress, WatcherStarts, WatcherResumes, Drain, GateStepOf
<1>5. \A h \in WebGates \ {g} : waiting'[<<j, h>>] = waiting[<<j, h>>]
  BY <1>1, <1>4, GateStepLocal DEF gateVars
<1>6. /\ watchers'[<<j, g>>] = "waiting" => waiting'[<<j, g>>] = "watch"
      /\ phase[j] = "watch" => watchers'[<<j, g>>] # "none"
  <2>1. CASE WatcherStarts(j, g)
    BY <1>1, <2>1 DEF WatcherStarts, WatchAvailable, TypeOK
  <2>2. CASE WatcherResumes(j, g)
    BY <1>1, <2>2 DEF WatcherResumes, Resume, TypeOK, WorkInv
  <2>3. CASE Drain(j, g)
    BY <1>1, <2>3 DEF Drain
  <2>4. QED
    BY <2>1, <2>2, <2>3 DEF WatcherProgress
<1>7. QED
  BY <1>1, <1>2, <1>3, <1>5, <1>6 DEF WorkInv

\* Every step keeps what the jobs need.
LEMMA WorkStep ==
  ASSUME SchedulerInv, \A j \in Jobs : WorkInv(j), CallersInv, [SchedulerNext]_schedulerVars
  PROVE  (\A j \in Jobs : WorkInv(j)') /\ CallersInv'
<1> USE WebGatesAreGates
<1>1. ASSUME NEW t \in Tasks, NEW k \in Jobs, k # t,
             UNCHANGED gateVars \/ \E h \in Gates : GateStepOf(t, h),
             phase'[k] = phase[k], remaining'[k] = remaining[k], current'[k] = current[k],
             \A g \in WebGates : watchers'[<<k, g>>] = watchers[<<k, g>>]
      PROVE  WorkInv(k)'
  <2>1. \A g \in Gates : /\ <<k, g>> \in leases' <=> <<k, g>> \in leases
                         /\ waiting'[<<k, g>>] = waiting[<<k, g>>]
    BY <1>1, JobTypes, GateStepFrame DEF gateVars
  <2>2. QED
    BY <1>1, <2>1, JobTypes, WorkFrame
<1>2. ASSUME NEW j \in Jobs, UNCHANGED gateVars \/ \E h \in Gates : GateStepOf(j, h), called' = called
      PROVE  CallersInv'
  <2>1. \A c \in Callers : c \in Tasks /\ c # j /\ j \in Tasks /\ TypeOK
    BY SchedulerAssumption DEF SchedulerInv, GateInv
  <2>2. QED
    BY <1>2, <2>1, GateStepFrame DEF CallersInv, gateVars
<1>3. ASSUME NEW j \in Jobs, StartJob(j) \/ CancelJob(j) \/ JobProgress(j)
      PROVE  (\A k \in Jobs : WorkInv(k)') /\ CallersInv'
  <2>1. UNCHANGED gateVars \/ \E h \in Gates : GateStepOf(j, h)
    <3>1. CASE \/ StartJob(j) \/ CancelJob(j) \/ Watch(j) \/ WatchEnds(j) \/ Drained(j)
               \/ \E v \in Verdicts : FetchEnds(j, v)
      BY <3>1 DEF StartJob, CancelJob, Watch, WatchEnds, Drained, FetchEnds
    <3>2. CASE Select(j)
      BY <3>2 DEF Select, GateStepOf
    <3>3. CASE \/ FetchReturns(j) \/ JudgeResumes(j) \/ UnwindLlm(j)
               \/ \E v \in Verdicts : Judged(j, v)
      BY <3>3 DEF FetchReturns, JudgeResumes, UnwindLlm, Judged, GateStepOf
    <3>4. CASE AttemptEnds(j)
      BY <3>4 DEF AttemptEnds, SchedulerInv, SchedulerTypeOK, GateStepOf
    <3>5. QED
      BY <1>3, <3>1, <3>2, <3>3, <3>4 DEF JobProgress
  <2>2. WorkInv(j)'
    BY <1>3, QuietJobWorks, GateJobWorks DEF JobProgress
  <2>3. \A k \in Jobs \ {j} :
          /\ phase'[k] = phase[k] /\ remaining'[k] = remaining[k] /\ current'[k] = current[k]
          /\ \A g \in WebGates : watchers'[<<k, g>>] = watchers[<<k, g>>]
    BY <1>3 DEF StartJob, CancelJob, JobProgress, Select, Watch, WatchEnds, Drained, FetchEnds, Judged,
                FetchReturns, JudgeResumes, UnwindLlm, AttemptEnds, jobVars, SchedulerInv, SchedulerTypeOK
  <2>4. called' = called
    BY <1>3 DEF StartJob, CancelJob, JobProgress, Select, Watch, WatchEnds, Drained, FetchEnds, Judged,
                FetchReturns, JudgeResumes, UnwindLlm, AttemptEnds, jobVars
  <2>5. QED
    BY <1>1, <1>2, <2>1, <2>2, <2>3, <2>4, JobTypes
<1>4. ASSUME NEW j \in Jobs, NEW g \in WebGates, WatcherProgress(j, g)
      PROVE  (\A k \in Jobs : WorkInv(k)') /\ CallersInv'
  <2>1. UNCHANGED gateVars \/ \E h \in Gates : GateStepOf(j, h)
    BY <1>4 DEF WatcherProgress, WatcherStarts, WatcherResumes, Drain, GateStepOf
  <2>2. /\ UNCHANGED <<phase, remaining, current, called>>
        /\ \A k \in Jobs \ {j}, h \in WebGates : watchers'[<<k, h>>] = watchers[<<k, h>>]
    BY <1>4 DEF WatcherProgress, WatcherStarts, WatcherResumes, Drain, SchedulerInv, SchedulerTypeOK
  <2>3. QED
    BY <1>1, <1>2, <1>4, <2>1, <2>2, JobTypes, WatcherWorks
<1>5. ASSUME NEW c \in Callers, NEW g \in Gates,
             CallerAcquires(c, g) \/ CallerGoesOn(c, g) \/ CallerCancelled(c, g)
      PROVE  (\A k \in Jobs : WorkInv(k)') /\ CallersInv'
  <2>1. c \in Tasks /\ c \notin Jobs /\ TypeOK
    BY SchedulerAssumption DEF SchedulerInv, GateInv
  <2>2. GateStepOf(c, g)
    BY <1>5 DEF CallerAcquires, CallerGoesOn, CallerCancelled, GateStepOf
  <2>3. UNCHANGED <<phase, remaining, current, watchers>>
    BY <1>5 DEF CallerAcquires, CallerGoesOn, CallerCancelled, jobVars
  <2>4. called \subseteq called' /\ c \in called'
    BY <1>5 DEF CallerAcquires, CallerGoesOn, CallerCancelled, jobVars
  <2>5. CallersInv'
    <3>1. ASSUME NEW d \in Callers, NEW h \in Gates, <<d, h>> \in leases' \/ waiting'[<<d, h>>] # "no"
          PROVE  d \in called'
      <4>1. CASE d = c
        BY <2>4, <4>1
      <4>2. CASE d # c
        <5>1. d \in Tasks
          BY SchedulerAssumption
        <5>2. <<d, h>> \in leases \/ waiting[<<d, h>>] # "no"
          BY <2>1, <2>2, <3>1, <4>2, <5>1, GateStepFrame
        <5>3. QED
          BY <2>4, <5>2 DEF CallersInv
      <4>3. QED
        BY <4>1, <4>2
    <3>2. QED
      BY <3>1 DEF CallersInv
  <2>6. QED
    BY <1>1, <2>1, <2>2, <2>3, <2>5
<1>6. CASE UNCHANGED schedulerVars
  <2>1. UNCHANGED <<leases, waiting, phase, remaining, current, watchers, called>>
    BY <1>6 DEF schedulerVars, gateVars, jobVars
  <2>2. QED
    BY <2>1 DEF WorkInv, CallersInv
<1>7. QED
  BY <1>3, <1>4, <1>5, <1>6 DEF SchedulerNext

\* A full gate is held by someone.
LEMMA FullIsHeld ==
  ASSUME GateInv, NEW g \in Gates, ~Available(g)
  PROVE  \E t \in Tasks : <<t, g>> \in leases
<1>1. in_use[g] \in Int /\ Limit[g] \in Nat \ {0}
  BY LimitAssumption DEF GateInv, TypeOK
<1>2. in_use[g] = Cardinality(Holders(g)) /\ in_use[g] # 0
  BY <1>1 DEF GateInv, QuotaBound, Available
<1>3. Holders(g) # {}
  BY <1>2, FS_EmptySet
<1>4. QED
  BY <1>3 DEF Holders, GateInv, TypeOK

\* The quotas never bring the scheduler to a standstill: no job waits, directly or
\* through another, for itself.
THEOREM SchedulerNeverDeadlocks == SchedulerSpec => []NoCircularWait
<1>1. SchedulerInit => ProgressInv
  BY SchedulerAssumption, WebGatesAreGates DEF SchedulerInit, Init, ProgressInv, WorkInv, CallersInv
<1>2. ASSUME SchedulerInv, \A j \in Jobs : WorkInv(j), CallersInv
      PROVE  NoCircularWait
  <2>1. ASSUME NEW t \in Tasks, <<t, LlmGate>> \in leases
        PROVE  CanGoOn(t)
    <3>1. CASE t \in Jobs
      <4>1. phase[t] \in {"judge", "release"}
        BY <1>2, <2>1, <3>1, JobTypes, WebGatesAreGates DEF SchedulerInv, JobInv, JobGates, SchedulerTypeOK
      <4>2. QED
        BY <2>1, <3>1, <4>1 DEF CanGoOn
    <3>2. CASE t \in Callers
      BY <1>2, <2>1, <3>2, WebGatesAreGates DEF CallersInv, CanGoOn
    <3>3. QED
      BY <3>1, <3>2, SchedulerAssumption
  <2>2. ASSUME NEW j \in Jobs, phase[j] = "judge"
        PROVE  CanGoOn(j) \/ \E u \in Tasks : Blocks(u, j) /\ CanGoOn(u)
    <3>1. CASE <<j, LlmGate>> \in leases \cup notified
      BY <2>2, <3>1 DEF CanGoOn
    <3>2. CASE <<j, LlmGate>> \notin leases \cup notified
      <4>1. waiting[<<j, LlmGate>>] = "claim" /\ ~Available(LlmGate)
        BY <1>2, <2>2, <3>2, JobTypes, WebGatesAreGates
           DEF WorkInv, SchedulerInv, GateInv, NoLostWakeup
      <4>2. PICK u \in Tasks : <<u, LlmGate>> \in leases
        BY <1>2, <4>1, FullIsHeld, WebGatesAreGates DEF SchedulerInv
      <4>3. Blocks(u, j) /\ CanGoOn(u)
        BY <2>1, <4>1, <4>2, WebGatesAreGates DEF Blocks
      <4>4. QED
        BY <4>3
    <3>3. QED
      BY <3>1, <3>2
  <2>3. ASSUME NEW t \in Tasks, NEW g \in WebGates, <<t, g>> \in leases
        PROVE  CanGoOn(t) \/ \E u \in Tasks : Blocks(u, t) /\ CanGoOn(u)
    <3>1. CASE t \in Jobs
      <4>1. phase[t] \in {"fetch", "judge", "release"}
        BY <1>2, <2>3, <3>1, WebGatesAreGates DEF SchedulerInv, JobInv, JobGates, SchedulerTypeOK
      <4>2. CASE phase[t] = "judge"
        BY <2>2, <3>1, <4>2
      <4>3. CASE phase[t] \in {"fetch", "release"}
        BY <3>1, <4>3 DEF CanGoOn
      <4>4. QED
        BY <4>1, <4>2, <4>3
    <3>2. CASE t \in Callers
      BY <1>2, <2>3, <3>2, WebGatesAreGates DEF CallersInv, CanGoOn
    <3>3. QED
      BY <3>1, <3>2, SchedulerAssumption
  <2>4. ASSUME NEW j \in Jobs, phase[j] \notin {"idle", "done"}
        PROVE  \/ CanGoOn(j)
               \/ \E t \in Tasks :
                    /\ Blocks(t, j)
                    /\ CanGoOn(t) \/ \E u \in Tasks : Blocks(u, t) /\ CanGoOn(u)
    <3>1. CASE phase[j] \in {"select", "drain", "fetch", "release"}
      BY <3>1 DEF CanGoOn
    <3>2. CASE phase[j] = "judge"
      BY <2>2, <3>2
    <3>3. CASE phase[j] = "watch"
      <4>1. WorkInv(j)
        BY <1>2
      <4>2. PICK g \in remaining[j] : watchers[<<j, g>>] # "none"
        BY <3>3, <4>1 DEF WorkInv
      <4>3. g \in WebGates /\ g \in Gates /\ j \in Tasks
        BY <1>2, JobTypes, WebGatesAreGates
      <4>4. CASE watchers[<<j, g>>] \in {"created", "done"} \/ <<j, g>> \in notified
        BY <3>3, <4>3, <4>4 DEF CanGoOn
      <4>5. CASE watchers[<<j, g>>] = "waiting" /\ <<j, g>> \notin notified
        <5>1. waiting[<<j, g>>] = "watch"
          BY <4>1, <4>3, <4>5 DEF WorkInv
        <5>2. ~Available(g)
          BY <1>2, <4>3, <4>5, <5>1 DEF SchedulerInv, GateInv, NoLostWakeup
        <5>3. PICK t \in Tasks : <<t, g>> \in leases
          BY <1>2, <4>3, <5>2, FullIsHeld DEF SchedulerInv
        <5>4. Blocks(t, j)
          BY <4>3, <5>1, <5>3 DEF Blocks
        <5>5. QED
          BY <2>3, <4>3, <5>3, <5>4
      <4>6. QED
        BY <1>2, <4>2, <4>3, <4>4, <4>5, JobTypes
    <3>4. QED
      BY <1>2, <2>4, <3>1, <3>2, <3>3, JobTypes
  <2>5. QED
    BY <2>4 DEF NoCircularWait
<1>3. SchedulerInv /\ ProgressInv => NoCircularWait
  BY <1>2 DEF ProgressInv
<1>4. SchedulerInv /\ ProgressInv /\ [SchedulerNext]_schedulerVars => ProgressInv'
  BY WorkStep DEF ProgressInv
<1>5. QED
  BY <1>1, <1>3, <1>4, SchedulerInitial, SchedulerStep, PTL DEF SchedulerSpec
=============================================================================
