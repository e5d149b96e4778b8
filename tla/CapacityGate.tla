---------------------------- MODULE CapacityGate ----------------------------
(***************************************************************************)
(* The provider quotas of concurrency.py: one CapacityGate per configured  *)
(* provider (ProviderQuotaManager keeps them in the maps _web, _llm,       *)
(* _academic and _agent), each an in-use counter guarded by an             *)
(* asyncio.Condition.                                                      *)
(*                                                                         *)
(* Nothing suspends while a Condition's lock is held, except wait_for,     *)
(* which releases it.  So each section under the lock is one step, and the *)
(* lock itself never delays anyone: it is not part of the state.  What     *)
(* does interleave is the time between notify_all() and the step of the    *)
(* notified coroutine, in which newcomers may take the freed slot.         *)
(*                                                                         *)
(* A task of this module is one coroutine that uses gates: a web pipeline, *)
(* a fetch job, one LLM call, or one of the watcher tasks that             *)
(* wait_until_any_web_available creates.                                   *)
(***************************************************************************)
EXTENDS Integers, FiniteSets

CONSTANTS Tasks,   \* coroutines that use the gates
          Gates,   \* the configured providers, one gate each
          Limit    \* Limit[g]: the configured concurrency limit of g

\* CapacityGate.__init__ refuses a limit that is not positive.
ASSUME LimitAssumption == Limit \in [Gates -> Nat \ {0}]

\* There are finitely many coroutines at any time.
ASSUME TasksAssumption == IsFiniteSet(Tasks)

VARIABLES
  in_use,                \* in_use[g]: the counter of gate g
  max_observed_in_use,   \* max_observed_in_use[g]: its high-water mark
  leases,                \* pairs <<t, g>>: t has an unreleased lease of g
  waiting,               \* waiting[<<t, g>>]: what t is suspended in wait_for for
  notified               \* pairs <<t, g>>: t's wait future is already set

gateVars == <<in_use, max_observed_in_use, leases, waiting, notified>>

\* "claim": suspended in _acquire; "watch": suspended in wait_until_available.
WaitKinds == {"no", "claim", "watch"}

TypeOK ==
  /\ in_use \in [Gates -> Int]
  /\ max_observed_in_use \in [Gates -> Int]
  /\ leases \subseteq Tasks \X Gates
  /\ waiting \in [Tasks \X Gates -> WaitKinds]
  /\ notified \subseteq Tasks \X Gates

Init ==
  /\ in_use = [g \in Gates |-> 0]
  /\ max_observed_in_use = [g \in Gates |-> 0]
  /\ leases = {}
  /\ waiting = [p \in Tasks \X Gates |-> "no"]
  /\ notified = {}

-----------------------------------------------------------------------------
Available(g) == in_use[g] < Limit[g]

\* A coroutine uses a gate through one lease object at a time.
Unengaged(t, g) == <<t, g>> \notin leases /\ waiting[<<t, g>>] = "no"

\* _claim: count the lease and raise the high-water mark.
Claim(t, g) ==
  /\ in_use' = [in_use EXCEPT ![g] = @ + 1]
  /\ max_observed_in_use' =
       [max_observed_in_use EXCEPT ![g] = IF in_use[g] + 1 > @ THEN in_use[g] + 1 ELSE @]
  /\ leases' = leases \cup {<<t, g>>}

NoClaim == UNCHANGED <<in_use, max_observed_in_use, leases>>

\* try_lease that succeeds; one that returns None changes nothing.
TryLease(t, g) ==
  /\ Unengaged(t, g)
  /\ Available(g)
  /\ Claim(t, g)
  /\ UNCHANGED <<waiting, notified>>

\* lease().__aenter__ -> _acquire: wait_for tests its predicate before it
\* suspends, so a free gate is claimed at once.
Acquire(t, g) ==
  /\ Unengaged(t, g)
  /\ \/ /\ Available(g)
        /\ Claim(t, g)
        /\ UNCHANGED waiting
     \/ /\ ~Available(g)
        /\ waiting' = [waiting EXCEPT ![<<t, g>>] = "claim"]
        /\ NoClaim
  /\ UNCHANGED notified

\* wait_until_available on a full gate; on a free one it returns at once.
WatchAvailable(t, g) ==
  /\ Unengaged(t, g)
  /\ ~Available(g)
  /\ waiting' = [waiting EXCEPT ![<<t, g>>] = "watch"]
  /\ NoClaim
  /\ UNCHANGED notified

\* Mutant of Resume: the notified coroutine claims without testing again.
ResumeUnchecked(t, g) ==
  /\ <<t, g>> \in notified
  /\ notified' = notified \ {<<t, g>>}
  /\ waiting' = [waiting EXCEPT ![<<t, g>>] = "no"]
  /\ IF waiting[<<t, g>>] = "claim" THEN Claim(t, g) ELSE NoClaim

\* The step of a notified coroutine: wait_for tests the predicate again and
\* either leaves (claiming, in _acquire) or suspends once more.
Resume(t, g) ==
  /\ <<t, g>> \in notified
  /\ notified' = notified \ {<<t, g>>}
  /\ \/ /\ Available(g)
        /\ waiting' = [waiting EXCEPT ![<<t, g>>] = "no"]
        /\ IF waiting[<<t, g>>] = "claim" THEN Claim(t, g) ELSE NoClaim
     \/ /\ ~Available(g)
        /\ NoClaim
        /\ UNCHANGED waiting

Waiters(g) == {p \in Tasks \X Gates : p[2] = g /\ waiting[p] # "no"}

\* Mutant of Release: notify() instead of notify_all().
ReleaseNotifyOne(t, g) ==
  /\ <<t, g>> \in leases
  /\ in_use' = [in_use EXCEPT ![g] = @ - 1]
  /\ leases' = leases \ {<<t, g>>}
  /\ \/ Waiters(g) \subseteq notified /\ UNCHANGED notified
     \/ \E p \in Waiters(g) \ notified : notified' = notified \cup {p}
  /\ UNCHANGED <<max_observed_in_use, waiting>>

\* CapacityLease.release -> _release: at most once per lease (_released),
\* decrement, wake every waiter of this gate.
Release(t, g) ==
  /\ <<t, g>> \in leases
  /\ in_use' = [in_use EXCEPT ![g] = @ - 1]
  /\ leases' = leases \ {<<t, g>>}
  /\ notified' = notified \cup Waiters(g)
  /\ UNCHANGED <<max_observed_in_use, waiting>>

\* CancelledError is raised in the suspended wait (notified or not): the
\* waiter leaves, having claimed nothing.
CancelWaiter(t, g) ==
  /\ waiting[<<t, g>>] # "no"
  /\ waiting' = [waiting EXCEPT ![<<t, g>>] = "no"]
  /\ notified' = notified \ {<<t, g>>}
  /\ NoClaim

Next ==
  \E t \in Tasks, g \in Gates :
    \/ TryLease(t, g)
    \/ Acquire(t, g)
    \/ WatchAvailable(t, g)
    \/ Resume(t, g)
    \/ Release(t, g)
    \/ CancelWaiter(t, g)

Spec == Init /\ [][Next]_gateVars

-----------------------------------------------------------------------------
Holders(g) == {p \in leases : p[2] = g}

\* The counter of a gate is the number of unreleased leases, and the number
\* of concurrent provider calls never exceeds the configured limit, nor ever
\* did (the high-water mark), however waiters, newcomers, releases and
\* cancellations interleave.
QuotaBound ==
  \A g \in Gates :
    /\ in_use[g] = Cardinality(Holders(g))
    /\ in_use[g] <= max_observed_in_use[g]
    /\ max_observed_in_use[g] <= Limit[g]

\* No lost wakeup: a coroutine asleep in wait_for with nothing scheduled to
\* wake it is asleep only while the gate is really full.  _release relies on
\* notify_all() for this: a woken watcher takes no slot and passes the
\* notification on to nobody.
NoLostWakeup ==
  \A t \in Tasks, g \in Gates :
    waiting[<<t, g>>] # "no" /\ <<t, g>> \notin notified => ~Available(g)
=============================================================================
