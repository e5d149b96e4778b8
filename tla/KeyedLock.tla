------------------------------ MODULE KeyedLock ------------------------------
(***************************************************************************)
(* PerKeyLockPool of concurrency.py: a dictionary from keys to             *)
(* reference-counted asyncio.Lock objects, created on demand and deleted   *)
(* by the last user.  The pool serializes the complete fetch workflow of a *)
(* URL, across all focus values.                                           *)
(*                                                                         *)
(* asyncio.Lock is modelled with its deque of waiter futures, because the  *)
(* pool is exposed to its corner cases: release() only sets the future of  *)
(* the first waiter, the lock is free until that waiter runs, and in       *)
(* between the waiter may be cancelled and newcomers arrive.  The pool's   *)
(* _guard lock is never held across a suspension, so it delays nobody.     *)
(***************************************************************************)
EXTENDS Integers, FiniteSets

CONSTANTS Tasks,    \* coroutines that use the pool
          Keys,     \* normalized URLs
          Locks,    \* identities of _LockEntry objects
          NoKey,    \* the key of a coroutine without a lease
          NoLock    \* the absence of an entry

ASSUME LockAssumption == NoKey \notin Keys /\ NoLock \notin Locks

ASSUME FiniteTasks == IsFiniteSet(Tasks)

VARIABLES
  pc,            \* pc[t]: "out", "waiting" or "inside"
  key,           \* key[t]: _KeyedLockLease._key
  entry,         \* entry[t]: _KeyedLockLease._entry
  entries,       \* entries[k]: the pool's dictionary
  references,    \* references[l]: _LockEntry.references
  locked,        \* locked[l]: asyncio.Lock._locked
  ahead,         \* ahead[t]: the waiters before t in the deque of its lock
  future,        \* future[t]: of t's wait: "pending", "set", "cancelled"
  must_cancel    \* waiters cancelled after their future was set

vars == <<pc, key, entry, entries, references, locked, ahead, future, must_cancel>>

TypeOK ==
  /\ pc \in [Tasks -> {"out", "waiting", "inside"}]
  /\ key \in [Tasks -> Keys \cup {NoKey}]
  /\ entry \in [Tasks -> Locks \cup {NoLock}]
  /\ entries \in [Keys -> Locks \cup {NoLock}]
  /\ references \in [Locks -> Int]
  /\ locked \in [Locks -> BOOLEAN]
  /\ ahead \in [Tasks -> SUBSET Tasks]
  /\ future \in [Tasks -> {"pending", "set", "cancelled"}]
  /\ must_cancel \in SUBSET Tasks

Init ==
  /\ pc = [t \in Tasks |-> "out"]
  /\ key = [t \in Tasks |-> NoKey]
  /\ entry = [t \in Tasks |-> NoLock]
  /\ entries = [k \in Keys |-> NoLock]
  /\ references = [l \in Locks |-> 0]
  /\ locked = [l \in Locks |-> FALSE]
  /\ ahead = [t \in Tasks |-> {}]
  /\ future = [t \in Tasks |-> "pending"]
  /\ must_cancel = {}

-----------------------------------------------------------------------------
Users(l) == {t \in Tasks : entry[t] = l}

Waiters(l) == {t \in Tasks : pc[t] = "waiting" /\ entry[t] = l}

\* Mutant of EntryFor: a second user of an entry is not counted.
EntryForUncounted(k, l) ==
  IF entries[k] = NoLock
  THEN /\ Users(l) = {}
       /\ entries' = [entries EXCEPT ![k] = l]
       /\ references' = [references EXCEPT ![l] = 1]
  ELSE l = entries[k] /\ UNCHANGED <<entries, references>>

\* _reserve: find the entry of k or create one (an object nobody refers to),
\* and count the user.
EntryFor(k, l) ==
  IF entries[k] = NoLock
  THEN /\ Users(l) = {}
       /\ entries' = [entries EXCEPT ![k] = l]
       /\ references' = [references EXCEPT ![l] = 1]
  ELSE /\ l = entries[k]
       /\ references' = [references EXCEPT ![l] = @ + 1]
       /\ UNCHANGED entries

\* Mutant of FastPath: a free lock is taken over the head of a waiter that
\* was already woken.
FastPathBarging(l) == ~locked[l]

\* asyncio.Lock.acquire takes the lock at once only if every queued future
\* is cancelled.
FastPath(l) == ~locked[l] /\ \A u \in Waiters(l) : future[u] = "cancelled"

\* __aenter__: _reserve, then lock.acquire() up to its first suspension.
Enter(t, k) ==
  /\ pc[t] = "out"
  /\ \E l \in Locks :
       /\ EntryFor(k, l)
       /\ key' = [key EXCEPT ![t] = k]
       /\ entry' = [entry EXCEPT ![t] = l]
       /\ \/ /\ FastPath(l)
             /\ locked' = [locked EXCEPT ![l] = TRUE]
             /\ pc' = [pc EXCEPT ![t] = "inside"]
             /\ UNCHANGED ahead
          \/ /\ ~FastPath(l)
             /\ pc' = [pc EXCEPT ![t] = "waiting"]
             /\ ahead' = [ahead EXCEPT ![t] = Waiters(l)]
             /\ UNCHANGED locked
  /\ UNCHANGED <<future, must_cancel>>

\* task.cancel() on a waiter: it cancels a pending future, and otherwise asks
\* that the next step of the task raises CancelledError.
Cancel(t) ==
  /\ pc[t] = "waiting"
  /\ IF future[t] = "pending"
     THEN future' = [future EXCEPT ![t] = "cancelled"] /\ UNCHANGED must_cancel
     ELSE must_cancel' = must_cancel \cup {t} /\ UNCHANGED future
  /\ UNCHANGED <<pc, key, entry, entries, references, locked, ahead>>

\* The deque after t left it.
WithoutWaiter(t) == [u \in Tasks |-> IF u = t THEN {} ELSE ahead[u] \ {t}]

\* _wake_up_first: set the future of the first waiter, unless it is done.
\* q is the deque and W its members.
WakeUpFirst(q, W) ==
  [u \in Tasks |->
     IF u \in W /\ q[u] = {} /\ future[u] = "pending" THEN "set" ELSE future[u]]

\* Mutant of Unreserve: the last user leaves its entry in the dictionary.
UnreserveLeaks(t) ==
  /\ references' = [references EXCEPT ![entry[t]] = @ - 1]
  /\ UNCHANGED entries
  /\ key' = [key EXCEPT ![t] = NoKey]
  /\ entry' = [entry EXCEPT ![t] = NoLock]
  /\ pc' = [pc EXCEPT ![t] = "out"]

\* _unreserve, and the lease forgets its entry.
Unreserve(t) ==
  /\ references' = [references EXCEPT ![entry[t]] = @ - 1]
  /\ entries' = IF references[entry[t]] = 1
                THEN [entries EXCEPT ![key[t]] = NoLock]
                ELSE entries
  /\ key' = [key EXCEPT ![t] = NoKey]
  /\ entry' = [entry EXCEPT ![t] = NoLock]
  /\ pc' = [pc EXCEPT ![t] = "out"]

Cancelled(t) == future[t] = "cancelled" \/ t \in must_cancel

\* The woken waiter runs: it leaves the deque and takes the lock.
Resume(t) ==
  /\ pc[t] = "waiting"
  /\ future[t] = "set" /\ ~Cancelled(t)
  /\ pc' = [pc EXCEPT ![t] = "inside"]
  /\ locked' = [locked EXCEPT ![entry[t]] = TRUE]
  /\ ahead' = WithoutWaiter(t)
  /\ future' = [future EXCEPT ![t] = "pending"]
  /\ UNCHANGED <<key, entry, entries, references, must_cancel>>

\* The cancelled waiter runs: it leaves the deque, wakes the next waiter if
\* the lock is free, and __aenter__ unreserves before it re-raises.
ResumeCancelled(t) ==
  /\ pc[t] = "waiting"
  /\ Cancelled(t)
  /\ ahead' = WithoutWaiter(t)
  /\ future' = [IF locked[entry[t]]
                THEN future
                ELSE WakeUpFirst(WithoutWaiter(t), Waiters(entry[t]) \ {t})
                EXCEPT ![t] = "pending"]
  /\ must_cancel' = must_cancel \ {t}
  /\ Unreserve(t)
  /\ UNCHANGED locked

\* __aexit__, whether the section returned, failed or was cancelled.
Exit(t) ==
  /\ pc[t] = "inside"
  /\ locked' = [locked EXCEPT ![entry[t]] = FALSE]
  /\ future' = WakeUpFirst(ahead, Waiters(entry[t]))
  /\ Unreserve(t)
  /\ UNCHANGED <<ahead, must_cancel>>

Next ==
  \E t \in Tasks :
    \/ \E k \in Keys : Enter(t, k)
    \/ Cancel(t)
    \/ Resume(t)
    \/ ResumeCancelled(t)
    \/ Exit(t)

Spec == Init /\ [][Next]_vars

\* The event loop runs every ready task; every section ends (each await in
\* it has a timeout).
Fairness ==
  \A t \in Tasks :
    WF_vars(Resume(t)) /\ WF_vars(ResumeCancelled(t)) /\ WF_vars(Exit(t))

FairSpec == Spec /\ Fairness

-----------------------------------------------------------------------------
\* Two coroutines are never inside the section of one key, even if the entry
\* of the key is deleted and created again while others come and go.
MutualExclusion ==
  \A t, u \in Tasks :
    pc[t] = "inside" /\ pc[u] = "inside" /\ key[t] = key[u] => t = u

\* The dictionary and the reference counts describe the live leases exactly:
\* everyone using a key uses the entry the dictionary has for it, and an
\* entry is there only while someone uses it (the pool does not grow with
\* the URLs seen).
EntryAccounting ==
  /\ \A t \in Tasks : pc[t] # "out" => entries[key[t]] = entry[t]
  /\ \A k \in Keys :
       entries[k] # NoLock =>
         /\ references[entries[k]] = Cardinality(Users(entries[k]))
         /\ references[entries[k]] > 0

\* A free lock with a queue is always about to be taken or handed on: its
\* first waiter has been woken or cancelled and will run.
NoStrandedWaiter ==
  \A l \in Locks :
    ~locked[l] => \A t \in Waiters(l) : ahead[t] = {} => future[t] # "pending"

\* The pool implements per-key mutual exclusion in which every waiter gets
\* its turn or is cancelled.
Mutex == INSTANCE KeyedMutex

ImplementsKeyedMutex == Mutex!FairSpec
=============================================================================
