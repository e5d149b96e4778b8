----------------------------- MODULE KeyedMutex -----------------------------
(***************************************************************************)
(* What PerKeyLockPool promises to the URL-fetch orchestrator: one         *)
(* coroutine at a time is inside the critical section of a key, a          *)
(* cancelled waiter leaves empty-handed, and every waiter gets its turn or *)
(* is cancelled.  How the pool does it is in KeyedLock.                    *)
(***************************************************************************)
CONSTANTS Tasks,   \* coroutines that use the pool
          Keys,    \* normalized URLs
          NoKey    \* the key of a coroutine that is outside

VARIABLES
  pc,    \* pc[t]: "out", "waiting" for, or "inside" the section of key[t]
  key    \* key[t]: the key of t's lease, NoKey outside

mutexVars == <<pc, key>>

Init ==
  /\ pc = [t \in Tasks |-> "out"]
  /\ key = [t \in Tasks |-> NoKey]

Free(k) == \A t \in Tasks : ~(pc[t] = "inside" /\ key[t] = k)

\* Entering a free section may succeed at once; it may also have to queue.
Request(t, k) ==
  /\ pc[t] = "out"
  /\ key' = [key EXCEPT ![t] = k]
  /\ \/ pc' = [pc EXCEPT ![t] = "waiting"]
     \/ Free(k) /\ pc' = [pc EXCEPT ![t] = "inside"]

Grant(t) ==
  /\ pc[t] = "waiting"
  /\ Free(key[t])
  /\ pc' = [pc EXCEPT ![t] = "inside"]
  /\ UNCHANGED key

Leave(t, from) ==
  /\ pc[t] = from
  /\ pc' = [pc EXCEPT ![t] = "out"]
  /\ key' = [key EXCEPT ![t] = NoKey]

GiveUp(t) == Leave(t, "waiting")

Release(t) == Leave(t, "inside")

Next ==
  \E t \in Tasks :
    \/ \E k \in Keys : Request(t, k)
    \/ Grant(t)
    \/ GiveUp(t)
    \/ Release(t)

Spec == Init /\ [][Next]_mutexVars

\* Holders finish, and a waiter that keeps seeing its section free enters it
\* or is cancelled: it does not wait forever while others pass.
Fairness ==
  \A t \in Tasks : WF_mutexVars(Release(t)) /\ SF_mutexVars(Grant(t) \/ GiveUp(t))

FairSpec == Spec /\ Fairness
=============================================================================
