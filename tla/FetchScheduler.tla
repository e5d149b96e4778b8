--------------------------- MODULE FetchScheduler ---------------------------
(***************************************************************************)
(* FetchScheduler.fetch_until_accepted of scheduler/fetch.py on top of the *)
(* provider quotas: a job tries the configured URL-fetch providers, one at *)
(* a time, in the order of preference but never waiting for a busy         *)
(* provider while another one is free.  An attempt holds the web lease of  *)
(* its provider while it fetches, waits for the LLM quota and is judged.   *)
(*                                                                         *)
(* Other users of the quotas (keyword pipelines on web gates, LLM stages   *)
(* on the LLM gate) are the Callers: one lease each, for one call.         *)
(*                                                                         *)
(* Every step is one step of CapacityGate or leaves the gates alone.  The  *)
(* code gives back the LLM lease and the web lease, and selects again,     *)
(* without suspending in between; here these are successive steps.         *)
(***************************************************************************)
EXTENDS CapacityGate, Sequences

CONSTANTS Jobs,       \* fetch_until_accepted calls
          Callers,    \* other coroutines that use a gate once
          Providers,  \* the web gates of the fetch providers, in order
          LlmGate,    \* the gate of the judge's LLM provider
          NoGate

\* url_fetch does not call the scheduler without providers.
ASSUME SchedulerAssumption ==
  /\ Tasks = Jobs \cup Callers /\ Jobs \cap Callers = {}
  /\ Providers \in Seq(Gates \ {LlmGate}) /\ Providers # <<>>
  /\ LlmGate \in Gates /\ NoGate \notin Gates

VARIABLES
  phase,      \* phase[j]: where job j is
  remaining,  \* remaining[j]: providers not tried yet
  current,    \* current[j]: the provider of the attempt
  verdict,    \* verdict[j]: how the attempt, and finally the job, ended
  semantic_failure_seen,
  watchers,   \* watchers[j, g]: the tasks of wait_until_any_web_available
  attempts,   \* (history) attempts[j][g]: how the attempt at g ended
  called      \* callers that have made their call

jobVars == <<phase, remaining, current, verdict, semantic_failure_seen, watchers, attempts, called>>

schedulerVars == <<gateVars, jobVars>>

WebGates == {Providers[i] : i \in 1..Len(Providers)}

Verdicts == {"none", "accepted", "semantic_failure", "execution_failure", "judge_failed", "cancelled"}

\* The types, and that a job has a current provider exactly during an attempt.
SchedulerTypeOK ==
  /\ phase \in [Jobs -> {"idle", "select", "watch", "drain", "fetch", "judge", "release", "done"}]
  /\ remaining \in [Jobs -> SUBSET WebGates]
  /\ current \in [Jobs -> WebGates \cup {NoGate}]
  /\ \A j \in Jobs : current[j] # NoGate <=> phase[j] \in {"fetch", "judge", "release"}
  /\ verdict \in [Jobs -> Verdicts]
  /\ semantic_failure_seen \in [Jobs -> BOOLEAN]
  /\ watchers \in [Jobs \X WebGates -> {"none", "created", "waiting", "done"}]
  /\ attempts \in [Jobs -> [WebGates -> Verdicts]]
  /\ called \subseteq Callers

SchedulerInit ==
  /\ Init
  /\ phase = [j \in Jobs |-> "idle"]
  /\ remaining = [j \in Jobs |-> {}]
  /\ current = [j \in Jobs |-> NoGate]
  /\ verdict = [j \in Jobs |-> "none"]
  /\ semantic_failure_seen = [j \in Jobs |-> FALSE]
  /\ watchers = [p \in Jobs \X WebGates |-> "none"]
  /\ attempts = [j \in Jobs |-> [g \in WebGates |-> "none"]]
  /\ called = {}

-----------------------------------------------------------------------------
StartJob(j) ==
  /\ phase[j] = "idle"
  /\ phase' = [phase EXCEPT ![j] = "select"]
  /\ remaining' = [remaining EXCEPT ![j] = WebGates]
  /\ UNCHANGED <<gateVars, current, verdict, semantic_failure_seen, watchers, attempts, called>>

\* The first free provider in the configured order.
FirstFree(j, g) ==
  \E i \in 1..Len(Providers) :
    /\ Providers[i] = g /\ g \in remaining[j] /\ Available(g)
    /\ \A h \in 1..(i - 1) : Providers[h] \in remaining[j] => ~Available(Providers[h])

\* Mutant of Select: the preferred provider is taken without try_lease.
SelectUnchecked(j) ==
  /\ phase[j] = "select"
  /\ \E g \in remaining[j] :
       /\ Claim(j, g)
       /\ current' = [current EXCEPT ![j] = g]
       /\ remaining' = [remaining EXCEPT ![j] = @ \ {g}]
  /\ phase' = [phase EXCEPT ![j] = "fetch"]
  /\ UNCHANGED <<waiting, notified, verdict, semantic_failure_seen, watchers, attempts, called>>

\* _select_available_provider finds a free provider: the job takes it off its
\* list and starts the attempt.
Select(j) ==
  /\ phase[j] = "select"
  /\ \E g \in WebGates :
       /\ FirstFree(j, g)
       /\ TryLease(j, g)
       /\ current' = [current EXCEPT ![j] = g]
       /\ remaining' = [remaining EXCEPT ![j] = @ \ {g}]
  /\ phase' = [phase EXCEPT ![j] = "fetch"]
  /\ UNCHANGED <<verdict, semantic_failure_seen, watchers, attempts, called>>

\* No provider is free: wait_until_any_web_available creates a watcher task
\* per candidate and waits for the first one to end.
Watch(j) ==
  /\ phase[j] = "select"
  /\ \A g \in remaining[j] : ~Available(g)
  /\ phase' = [phase EXCEPT ![j] = "watch"]
  /\ watchers' = [p \in Jobs \X WebGates |->
                    IF p[1] = j /\ p[2] \in remaining[j] THEN "created" ELSE watchers[p]]
  /\ UNCHANGED <<gateVars, remaining, current, verdict, semantic_failure_seen, attempts, called>>

\* A watcher task starts: its gate may have become free since it was created.
WatcherStarts(j, g) ==
  /\ watchers[<<j, g>>] = "created"
  /\ \/ /\ Available(g)
        /\ watchers' = [watchers EXCEPT ![<<j, g>>] = "done"]
        /\ UNCHANGED gateVars
     \/ /\ WatchAvailable(j, g)
        /\ watchers' = [watchers EXCEPT ![<<j, g>>] = "waiting"]
  /\ UNCHANGED <<phase, remaining, current, verdict, semantic_failure_seen, attempts, called>>

\* A notified watcher runs.
WatcherResumes(j, g) ==
  /\ watchers[<<j, g>>] = "waiting"
  /\ Resume(j, g)
  /\ watchers' = [watchers EXCEPT ![<<j, g>>] = IF Available(g) THEN "done" ELSE @]
  /\ UNCHANGED <<phase, remaining, current, verdict, semantic_failure_seen, attempts, called>>

\* asyncio.wait returns: the other watchers are cancelled.
WatchEnds(j) ==
  /\ phase[j] = "watch"
  /\ \E g \in WebGates : watchers[<<j, g>>] = "done"
  /\ phase' = [phase EXCEPT ![j] = "drain"]
  /\ UNCHANGED <<gateVars, remaining, current, verdict, semantic_failure_seen, watchers, attempts,
                 called>>

\* Mutant of Drain: without the finally, a cancelled job leaves its watchers.
DrainAwaitedOnly(j, g) ==
  /\ phase[j] = "drain"
  /\ watchers[<<j, g>>] # "none"
  /\ IF watchers[<<j, g>>] = "waiting" THEN CancelWaiter(j, g) ELSE UNCHANGED gateVars
  /\ watchers' = [watchers EXCEPT ![<<j, g>>] = "none"]
  /\ UNCHANGED <<phase, remaining, current, verdict, semantic_failure_seen, attempts, called>>

\* One watcher is gone, cancelled or done.  Those of a job that was cancelled
\* in asyncio.wait outlive it: they are cancelled but not awaited.
Drain(j, g) ==
  /\ phase[j] \in {"drain", "done"}
  /\ watchers[<<j, g>>] # "none"
  /\ IF watchers[<<j, g>>] = "waiting" THEN CancelWaiter(j, g) ELSE UNCHANGED gateVars
  /\ watchers' = [watchers EXCEPT ![<<j, g>>] = "none"]
  /\ UNCHANGED <<phase, remaining, current, verdict, semantic_failure_seen, attempts, called>>

NoWatchers(j) == \A g \in WebGates : watchers[<<j, g>>] = "none"

\* gather of the cancelled watchers returns: try the providers again, or raise
\* the CancelledError that came meanwhile.
Drained(j) ==
  /\ phase[j] = "drain"
  /\ NoWatchers(j)
  /\ phase' = [phase EXCEPT ![j] = IF verdict[j] = "cancelled" THEN "done" ELSE "select"]
  /\ UNCHANGED <<gateVars, remaining, current, verdict, semantic_failure_seen, watchers, attempts,
                 called>>

\* provider.fetch fails or returns an invalid candidate, or one that
\* cheap_check refuses: the attempt ends without a judge.
FetchEnds(j, v) ==
  /\ phase[j] = "fetch"
  /\ v \in {"execution_failure", "semantic_failure"}
  /\ phase' = [phase EXCEPT ![j] = "release"]
  /\ verdict' = [verdict EXCEPT ![j] = v]
  /\ UNCHANGED <<gateVars, remaining, current, semantic_failure_seen, watchers, attempts, called>>

\* provider.fetch returns a candidate: the judge needs an LLM lease.
FetchReturns(j) ==
  /\ phase[j] = "fetch"
  /\ Acquire(j, LlmGate)
  /\ phase' = [phase EXCEPT ![j] = "judge"]
  /\ UNCHANGED <<remaining, current, verdict, semantic_failure_seen, watchers, attempts, called>>

\* The wait for the LLM lease goes on or ends.
JudgeResumes(j) ==
  /\ phase[j] = "judge"
  /\ Resume(j, LlmGate)
  /\ UNCHANGED jobVars

\* The judge call ends and gives the LLM lease back.
Judged(j, v) ==
  /\ phase[j] = "judge"
  /\ v \in {"accepted", "semantic_failure", "judge_failed"}
  /\ Release(j, LlmGate)
  /\ phase' = [phase EXCEPT ![j] = "release"]
  /\ verdict' = [verdict EXCEPT ![j] = v]
  /\ UNCHANGED <<remaining, current, semantic_failure_seen, watchers, attempts, called>>

\* Mutant of Classified: the last attempt decides.
ClassifiedByLast(j) ==
  IF verdict[j] \in {"accepted", "judge_failed", "cancelled"} THEN verdict[j]
  ELSE IF remaining[j] # {} THEN "none"
  ELSE verdict[j]

\* How the job ends after an attempt: "none" if it goes on to the next provider.
\* A judge failure is raised through fetch_until_accepted.
Classified(j) ==
  IF verdict[j] \in {"accepted", "judge_failed", "cancelled"} THEN verdict[j]
  ELSE IF remaining[j] # {} THEN "none"
  ELSE IF semantic_failure_seen[j] \/ verdict[j] = "semantic_failure" THEN "semantic_failure"
  ELSE "execution_failure"

\* Mutant of AttemptEnds: a raised judge failure skips the lease's __aexit__.
AttemptEndsLeaky(j) ==
  /\ phase[j] = "release"
  /\ current[j] # NoGate
  /\ <<j, LlmGate>> \notin leases /\ waiting[<<j, LlmGate>>] = "no"
  /\ IF verdict[j] = "judge_failed" THEN UNCHANGED gateVars ELSE Release(j, current[j])
  /\ current' = [current EXCEPT ![j] = NoGate]
  /\ attempts' = [attempts EXCEPT ![j][current[j]] = verdict[j]]
  /\ semantic_failure_seen' =
       [semantic_failure_seen EXCEPT ![j] = @ \/ verdict[j] = "semantic_failure"]
  /\ verdict' = [verdict EXCEPT ![j] = Classified(j)]
  /\ phase' = [phase EXCEPT ![j] = IF Classified(j) = "none" THEN "select" ELSE "done"]
  /\ UNCHANGED <<remaining, watchers, called>>

\* The lease's __aexit__ gives the web lease back, whatever happened; then the
\* job returns, raises, or goes on to another provider.
AttemptEnds(j) ==
  /\ phase[j] = "release"
  /\ current[j] # NoGate
  /\ <<j, LlmGate>> \notin leases /\ waiting[<<j, LlmGate>>] = "no"
  /\ Release(j, current[j])
  /\ current' = [current EXCEPT ![j] = NoGate]
  /\ attempts' = [attempts EXCEPT ![j][current[j]] = verdict[j]]
  /\ semantic_failure_seen' =
       [semantic_failure_seen EXCEPT ![j] = @ \/ verdict[j] = "semantic_failure"]
  /\ verdict' = [verdict EXCEPT ![j] = Classified(j)]
  /\ phase' = [phase EXCEPT ![j] = IF Classified(j) = "none" THEN "select" ELSE "done"]
  /\ UNCHANGED <<remaining, watchers, called>>

-----------------------------------------------------------------------------
\* CancelledError is raised in a suspended job.  In an attempt it unwinds the
\* leases; in asyncio.wait the job ends at once; while it awaits the cancelled
\* watchers it ends when they are gone.
CancelJob(j) ==
  /\ phase[j] \in {"watch", "drain", "fetch", "judge"}
  /\ phase' = [phase EXCEPT ![j] = CASE @ = "watch" -> "done"
                                     [] @ = "drain" -> "drain"
                                     [] OTHER -> "release"]
  /\ verdict' = [verdict EXCEPT ![j] = "cancelled"]
  /\ UNCHANGED <<gateVars, remaining, current, semantic_failure_seen, watchers, attempts, called>>

\* A cancelled job leaves the LLM gate: it stops waiting or releases.
UnwindLlm(j) ==
  /\ phase[j] = "release"
  /\ CancelWaiter(j, LlmGate) \/ Release(j, LlmGate)
  /\ UNCHANGED jobVars

\* Another user of the quotas: acquire, call, release; or give up waiting.
CallerAcquires(c, g) ==
  /\ c \notin called
  /\ called' = called \cup {c}
  /\ Acquire(c, g)
  /\ UNCHANGED <<phase, remaining, current, verdict, semantic_failure_seen, watchers, attempts>>

CallerGoesOn(c, g) ==
  /\ c \in called
  /\ Resume(c, g) \/ Release(c, g)
  /\ UNCHANGED jobVars

CallerCancelled(c, g) ==
  /\ c \in called
  /\ CancelWaiter(c, g)
  /\ UNCHANGED jobVars

\* Steps of j that some awaited call or wakeup has made possible.
JobProgress(j) ==
  \/ Select(j) \/ Watch(j) \/ WatchEnds(j) \/ Drained(j)
  \/ \E v \in Verdicts : FetchEnds(j, v) \/ Judged(j, v)
  \/ FetchReturns(j) \/ JudgeResumes(j) \/ AttemptEnds(j) \/ UnwindLlm(j)

WatcherProgress(j, g) == WatcherStarts(j, g) \/ WatcherResumes(j, g) \/ Drain(j, g)

SchedulerNext ==
  \/ \E j \in Jobs : StartJob(j) \/ JobProgress(j) \/ CancelJob(j)
  \/ \E j \in Jobs, g \in WebGates : WatcherProgress(j, g)
  \/ \E c \in Callers, g \in Gates :
       CallerAcquires(c, g) \/ CallerGoesOn(c, g) \/ CallerCancelled(c, g)

SchedulerSpec == SchedulerInit /\ [][SchedulerNext]_schedulerVars

\* Provider and LLM calls end (each has a timeout) and the event loop runs
\* every coroutine that is ready.  Nothing is assumed about who of several
\* waiters gets a freed slot.
SchedulerFairSpec ==
  /\ SchedulerSpec
  /\ \A j \in Jobs : WF_schedulerVars(JobProgress(j))
  /\ \A j \in Jobs, g \in WebGates : WF_schedulerVars(WatcherProgress(j, g))
  /\ \A c \in Callers, g \in Gates : WF_schedulerVars(CallerGoesOn(c, g))

-----------------------------------------------------------------------------
\* The final kind of a job is what its attempts, at most one per provider,
\* justify.  In particular the semantic_failure that makes url_fetch mark a URL
\* unavailable needs a body that was rejected, and is never concluded from
\* providers that failed, were not tried, or were cut off by a cancellation.
OutcomeJustified ==
  \A j \in Jobs :
    /\ \A g \in remaining[j] \cup ({current[j]} \ {NoGate}) : attempts[j][g] = "none"
    /\ phase[j] = "done" =>
         LET ended == {attempts[j][g] : g \in WebGates} IN
         CASE verdict[j] = "accepted" -> "accepted" \in ended
           [] verdict[j] = "semantic_failure" ->
                /\ "semantic_failure" \in ended
                /\ ended \subseteq {"semantic_failure", "execution_failure"}
           [] verdict[j] = "execution_failure" -> ended \subseteq {"execution_failure"}
           [] verdict[j] = "judge_failed" -> "judge_failed" \in ended
           [] OTHER -> verdict[j] = "cancelled"

\* A job that has ended, normally, by failure or by cancellation in any of its
\* suspensions, holds no lease and waits for none; only the watchers of a
\* cancelled job may outlive it, and they claim nothing.
NothingLeaks ==
  \A j \in Jobs :
    phase[j] \in {"idle", "select", "done"} =>
      /\ \A g \in Gates : <<j, g>> \notin leases /\ waiting[<<j, g>>] # "claim"
      /\ verdict[j] # "cancelled" =>
           NoWatchers(j) /\ \A g \in Gates : waiting[<<j, g>>] = "no"

\* The scheduler uses the quotas only in the ways CapacityGate allows, so what
\* is proved of the gates holds here.
UsesGates == Spec

\* Every job ends and its watchers with it, though attempts hold a web
\* lease while they wait for the LLM quota and jobs wait for providers that
\* other jobs hold.
JobsEnd == \A j \in Jobs : phase[j] # "idle" ~> phase[j] = "done" /\ NoWatchers(j)

\* The error-handling design says of a URL fetch attempt: "or judge execution
\* failure marks this URL fetch provider attempt as execution failure", after
\* which "the fetch scheduler can try another URL fetch provider".  Stated of
\* a finished job: it ends by a judge failure only if no provider is left.
JudgeFailureFallsBack ==
  \A j \in Jobs : phase[j] = "done" /\ verdict[j] = "judge_failed" => remaining[j] = {}
=============================================================================
