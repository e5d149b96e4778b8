-------------------------- MODULE KeyedLockProofs --------------------------
(***************************************************************************)
(* PerKeyLockPool keeps mutual exclusion, exact reference counts and a     *)
(* waking queue for every number of coroutines, URLs and entry objects,    *)
(* and every step of it is a step of KeyedMutex.                           *)
(*                                                                         *)
(* Why the inductive invariant is stronger than MutualExclusion: a woken   *)
(* waiter takes the lock without looking, so the proof has to know that    *)
(* the lock is still free then.  It is, because only the first waiter is   *)
(* ever woken (WokenIsFirst), the queue has one first waiter (QueueTotal), *)
(* and newcomers do not overtake a waiter whose future is not cancelled.   *)
(***************************************************************************)
EXTENDS KeyedLock, FiniteSetTheorems, TLAPS

\* A lease knows its key and the entry the dictionary has for it.
LeasesAgree ==
  \A t \in Tasks :
    IF pc[t] = "out"
    THEN key[t] = NoKey /\ entry[t] = NoLock
    ELSE key[t] \in Keys /\ entry[t] \in Locks /\ entries[key[t]] = entry[t]

\* Two keys never share an entry.
EntriesDistinct ==
  \A k, m \in Keys : entries[k] # NoLock /\ entries[k] = entries[m] => k = m

\* The reference count of an entry is the number of leases that use it.
Counted ==
  \A k \in Keys :
    entries[k] # NoLock =>
      /\ references[entries[k]] = Cardinality(Users(entries[k]))
      /\ references[entries[k]] > 0

\* One coroutine is inside a lock, and then the lock is taken.
OneInside ==
  /\ \A t \in Tasks : pc[t] = "inside" => locked[entry[t]] = TRUE
  /\ \A t, u \in Tasks :
       pc[t] = "inside" /\ pc[u] = "inside" /\ entry[t] = entry[u] => t = u

\* A woken waiter is the first of its queue and its lock is free.
WokenIsFirst ==
  \A t \in Tasks :
    /\ pc[t] # "waiting" => future[t] = "pending"
    /\ future[t] = "set" => locked[entry[t]] = FALSE /\ ahead[t] = {}

\* Of two waiters of a lock, one is ahead of the other.
QueueTotal ==
  \A t, u \in Tasks :
    pc[t] = "waiting" /\ pc[u] = "waiting" /\ entry[t] = entry[u] /\ t # u
      => t \in ahead[u] \/ u \in ahead[t]

\* Whoever is ahead of a waiter waits for the same lock.
QueueLocal ==
  \A t, u \in Tasks :
    pc[u] = "waiting" /\ t \in ahead[u] => pc[t] = "waiting" /\ entry[t] = entry[u]

\* The inductive invariant.
LockInv ==
  /\ TypeOK
  /\ LeasesAgree
  /\ EntriesDistinct
  /\ Counted
  /\ OneInside
  /\ WokenIsFirst
  /\ QueueTotal
  /\ QueueLocal
  /\ NoStrandedWaiter

-----------------------------------------------------------------------------
\* A lock has finitely many users.
LEMMA UsersFinite == \A l : IsFiniteSet(Users(l))
BY FiniteTasks, FS_Subset DEF Users

\* The initial state satisfies the invariant.
LEMMA LockInit == Init => LockInv
<1> SUFFICES ASSUME Init PROVE LockInv
  OBVIOUS
<1>1. TypeOK
  BY DEF Init, TypeOK
<1>2. LeasesAgree /\ EntriesDistinct /\ Counted
  BY DEF Init, LeasesAgree, EntriesDistinct, Counted
<1>3. OneInside /\ WokenIsFirst /\ QueueTotal /\ QueueLocal /\ NoStrandedWaiter
  BY DEF Init, OneInside, WokenIsFirst, QueueTotal, QueueLocal, NoStrandedWaiter, Waiters
<1>4. QED
  BY <1>1, <1>2, <1>3 DEF LockInv

-----------------------------------------------------------------------------
\* _reserve keeps the dictionary in agreement with the leases.
LEMMA EnterBooks ==
  ASSUME LockInv, NEW t \in Tasks, NEW k \in Keys, NEW l \in Locks,
         pc[t] = "out", EntryFor(k, l),
         key' = [key EXCEPT ![t] = k], entry' = [entry EXCEPT ![t] = l],
         pc'[t] # "out", \A u \in Tasks \ {t} : pc'[u] = pc[u]
  PROVE  /\ entries' \in [Keys -> Locks \cup {NoLock}]
         /\ references' \in [Locks -> Int]
         /\ LeasesAgree' /\ EntriesDistinct' /\ Counted'
         /\ entries[k] = NoLock => Users(l) = {}
<1> USE DEF LockInv
<1>0. entry[t] = NoLock /\ NoLock \notin Locks
  BY LockAssumption DEF LeasesAgree
<1>1. CASE entries[k] = NoLock
  <2>1. Users(l) = {} /\ entries' = [entries EXCEPT ![k] = l]
        /\ references' = [references EXCEPT ![l] = 1]
    BY <1>1 DEF EntryFor
  <2>2. entries' \in [Keys -> Locks \cup {NoLock}] /\ references' \in [Locks -> Int]
    BY <2>1 DEF TypeOK
  <2>3. Users(l)' = {t}
    BY <2>1 DEF Users, TypeOK
  <2>4. \A m \in Keys : entries[m] # l
    <3> SUFFICES ASSUME NEW m \in Keys, entries[m] = l PROVE FALSE
      OBVIOUS
    <3>1. references[l] = Cardinality(Users(l)) /\ references[l] > 0
      BY <1>0 DEF Counted
    <3>2. Cardinality({}) = 0
      BY FS_EmptySet
    <3>3. QED
      BY <2>1, <3>1, <3>2
  <2>5. \A m \in Keys \ {k} : entries'[m] = entries[m]
    BY <2>1 DEF TypeOK
  <2>6. entries'[k] = l
    BY <2>1 DEF TypeOK
  <2>7. LeasesAgree'
    BY <1>0, <1>1, <2>5, <2>6 DEF LeasesAgree, TypeOK
  <2>8. EntriesDistinct'
    BY <2>4, <2>5, <2>6 DEF EntriesDistinct
  <2>9. Counted'
    <3> SUFFICES ASSUME NEW m \in Keys, NEW x \in Locks, entries'[m] = x
                 PROVE  references'[x] = Cardinality(Users(x)') /\ references'[x] > 0
      BY <2>2 DEF Counted, Users
    <3>1. CASE m = k
      <4>1. Cardinality({t}) = 1
        BY FS_Singleton
      <4>2. x = l /\ references'[l] = 1
        BY <2>1, <2>6, <3>1 DEF TypeOK
      <4>3. QED
        BY <2>3, <4>1, <4>2
    <3>2. CASE m # k
      <4>1. entries[m] = x /\ x # l
        BY <2>4, <2>5, <3>2
      <4>2. Users(x)' = Users(x)
        BY <1>0, <4>1 DEF Users, TypeOK
      <4>3. references'[x] = references[x]
        BY <2>1, <4>1 DEF TypeOK
      <4>4. QED
        BY <1>0, <4>1, <4>2, <4>3 DEF Counted
    <3>3. QED
      BY <3>1, <3>2
  <2>10. QED
    BY <2>1, <2>2, <2>7, <2>8, <2>9
<1>2. CASE entries[k] # NoLock
  <2>1. l = entries[k] /\ entries' = entries
        /\ references' = [references EXCEPT ![l] = @ + 1]
    BY <1>2 DEF EntryFor
  <2>2. entries' \in [Keys -> Locks \cup {NoLock}] /\ references' \in [Locks -> Int]
    BY <2>1 DEF TypeOK
  <2>3. LeasesAgree'
    BY <2>1 DEF LeasesAgree, TypeOK
  <2>4. EntriesDistinct'
    BY <2>1 DEF EntriesDistinct
  <2>5. Counted'
    <3> SUFFICES ASSUME NEW m \in Keys, NEW x \in Locks, entries[m] = x
                 PROVE  references'[x] = Cardinality(Users(x)') /\ references'[x] > 0
      BY <2>1 DEF Counted, Users, TypeOK
    <3>1. CASE m = k
      <4>1. x = l /\ Users(l)' = Users(l) \cup {t} /\ t \notin Users(l)
        BY <1>0, <2>1, <3>1 DEF Users, TypeOK
      <4>2. Cardinality(Users(l)') = Cardinality(Users(l)) + 1
        BY <4>1, UsersFinite, FS_AddElement
      <4>3. references'[l] = references[l] + 1 /\ references[l] \in Int
        BY <2>1 DEF TypeOK
      <4>4. references[l] = Cardinality(Users(l)) /\ references[l] > 0
        BY <1>0, <2>1 DEF Counted
      <4>5. QED
        BY <4>1, <4>2, <4>3, <4>4
    <3>2. CASE m # k
      <4>1. x # l
        BY <1>0, <2>1, <3>2 DEF EntriesDistinct
      <4>2. Users(x)' = Users(x)
        BY <1>0, <4>1 DEF Users, TypeOK
      <4>3. references'[x] = references[x]
        BY <2>1, <4>1 DEF TypeOK
      <4>4. QED
        BY <1>0, <4>2, <4>3 DEF Counted
    <3>3. QED
      BY <3>1, <3>2
  <2>6. QED
    BY <1>2, <2>2, <2>3, <2>4, <2>5
<1>3. QED
  BY <1>1, <1>2

\* _unreserve keeps the dictionary in agreement with the leases: the entry is
\* deleted exactly when its last user leaves.
LEMMA UnreserveBooks ==
  ASSUME LockInv, NEW t \in Tasks, pc[t] # "out", Unreserve(t)
  PROVE  /\ entries' \in [Keys -> Locks \cup {NoLock}]
         /\ references' \in [Locks -> Int]
         /\ key' \in [Tasks -> Keys \cup {NoKey}]
         /\ entry' \in [Tasks -> Locks \cup {NoLock}]
         /\ pc' \in [Tasks -> {"out", "waiting", "inside"}]
         /\ LeasesAgree' /\ EntriesDistinct' /\ Counted'
<1> USE DEF LockInv
<1>0. PICK l \in Locks, k \in Keys :
        l = entry[t] /\ k = key[t] /\ entries[k] = l /\ NoLock \notin Locks
  BY LockAssumption DEF LeasesAgree
<1>1. /\ entries' \in [Keys -> Locks \cup {NoLock}]
      /\ references' \in [Locks -> Int]
      /\ key' \in [Tasks -> Keys \cup {NoKey}]
      /\ entry' \in [Tasks -> Locks \cup {NoLock}]
      /\ pc' \in [Tasks -> {"out", "waiting", "inside"}]
  BY <1>0 DEF Unreserve, TypeOK
<1>2. references[l] = Cardinality(Users(l)) /\ t \in Users(l)
  BY <1>0 DEF Counted, Users
<1>3. references[l] = 1 => Users(l) = {t}
  <2> SUFFICES ASSUME references[l] = 1 PROVE Users(l) = {t}
    OBVIOUS
  <2>1. \E x : Users(l) = {x}
    BY <1>2, UsersFinite, FS_Singleton
  <2>2. QED
    BY <1>2, <2>1
<1>4. \A m \in Keys : entries'[m] = entries[m] \/ (m = k /\ entries'[m] = NoLock /\ references[l] = 1)
  BY <1>0 DEF Unreserve, TypeOK
<1>5. \A u \in Tasks \ {t} : pc'[u] = pc[u] /\ key'[u] = key[u] /\ entry'[u] = entry[u]
  BY DEF Unreserve, TypeOK
<1>6. pc'[t] = "out" /\ key'[t] = NoKey /\ entry'[t] = NoLock
  BY DEF Unreserve, TypeOK
<1>7. LeasesAgree'
  <2> SUFFICES ASSUME NEW u \in Tasks, u # t, pc[u] # "out"
               PROVE  entries'[key[u]] = entry[u]
    BY <1>5, <1>6 DEF LeasesAgree
  <2>1. key[u] \in Keys /\ entries[key[u]] = entry[u]
    BY DEF LeasesAgree
  <2>2. CASE key[u] = k /\ references[l] = 1
    <3>1. u \in Users(l)
      BY <1>0, <2>1, <2>2 DEF Users
    <3>2. QED
      BY <1>3, <2>2, <3>1
  <2>3. QED
    BY <1>4, <2>1, <2>2
<1>8. EntriesDistinct'
  BY <1>4 DEF EntriesDistinct
<1>9. Counted'
  <2> SUFFICES ASSUME NEW m \in Keys, NEW x \in Locks, entries'[m] = x
               PROVE  references'[x] = Cardinality(Users(x)') /\ references'[x] > 0
    BY <1>1 DEF Counted, Users
  <2>0. entries[m] = x
    BY <1>0, <1>4
  <2>1. CASE m = k
    <3>1. references[l] # 1
      BY <1>0, <2>0, <2>1 DEF Unreserve, TypeOK
    <3>2. Users(l)' = Users(l) \ {t}
      BY <1>0, <1>5, <1>6 DEF Users
    <3>3. Cardinality(Users(l)') = Cardinality(Users(l)) - 1
      BY <1>2, <3>2, UsersFinite, FS_RemoveElement
    <3>4. references'[l] = references[l] - 1 /\ references[l] \in Int
      BY <1>0 DEF Unreserve, TypeOK
    <3>5. references[l] > 0
      BY <1>0 DEF Counted
    <3>6. x = l
      BY <1>0, <2>0, <2>1
    <3>7. QED
      BY <1>2, <3>1, <3>3, <3>4, <3>5, <3>6
  <2>2. CASE m # k
    <3>1. x # l
      BY <1>0, <2>0, <2>2 DEF EntriesDistinct
    <3>2. Users(x)' = Users(x)
      BY <1>5, <1>6, <1>0, <3>1 DEF Users
    <3>3. references'[x] = references[x]
      BY <1>0, <3>1 DEF Unreserve, TypeOK
    <3>4. QED
      BY <1>0, <2>0, <3>2, <3>3 DEF Counted
  <2>3. QED
    BY <2>1, <2>2
<1>10. QED
  BY <1>1, <1>7, <1>8, <1>9

-----------------------------------------------------------------------------
\* Entering: a newcomer takes the lock only if nobody is inside and nobody has
\* been woken, and otherwise queues behind every waiter.
LEMMA LockEnter ==
  ASSUME LockInv, NEW t \in Tasks, NEW k \in Keys, Enter(t, k)
  PROVE  LockInv'
<1> USE DEF LockInv
<1>1. PICK l \in Locks :
        /\ EntryFor(k, l)
        /\ key' = [key EXCEPT ![t] = k]
        /\ entry' = [entry EXCEPT ![t] = l]
        /\ \/ /\ FastPath(l)
              /\ locked' = [locked EXCEPT ![l] = TRUE]
              /\ pc' = [pc EXCEPT ![t] = "inside"]
              /\ UNCHANGED ahead
           \/ /\ ~FastPath(l)
              /\ pc' = [pc EXCEPT ![t] = "waiting"]
              /\ ahead' = [ahead EXCEPT ![t] = Waiters(l)]
              /\ UNCHANGED locked
  BY DEF Enter
<1>2. /\ pc[t] = "out" /\ future' = future /\ must_cancel' = must_cancel
      /\ entry[t] = NoLock /\ NoLock \notin Locks /\ future[t] = "pending"
  BY LockAssumption DEF Enter, LeasesAgree, WokenIsFirst
<1>3. /\ pc'[t] # "out" /\ pc' \in [Tasks -> {"out", "waiting", "inside"}]
      /\ \A u \in Tasks \ {t} : pc'[u] = pc[u] /\ entry'[u] = entry[u]
      /\ entry'[t] = l
  BY <1>1 DEF TypeOK
<1>4. /\ entries' \in [Keys -> Locks \cup {NoLock}] /\ references' \in [Locks -> Int]
      /\ LeasesAgree' /\ EntriesDistinct' /\ Counted'
  BY <1>1, <1>2, <1>3, EnterBooks
<1>5. TypeOK'
  <2>1. Waiters(l) \in SUBSET Tasks
    BY DEF Waiters
  <2>2. ahead' \in [Tasks -> SUBSET Tasks] /\ locked' \in [Locks -> BOOLEAN]
    BY <1>1, <2>1 DEF TypeOK
  <2>3. key' \in [Tasks -> Keys \cup {NoKey}] /\ entry' \in [Tasks -> Locks \cup {NoLock}]
    BY <1>1 DEF TypeOK
  <2>4. QED
    BY <1>2, <1>3, <1>4, <2>2, <2>3 DEF TypeOK
<1>6. CASE /\ FastPath(l)
           /\ locked' = [locked EXCEPT ![l] = TRUE]
           /\ pc' = [pc EXCEPT ![t] = "inside"]
           /\ UNCHANGED ahead
  <2>1. \A u \in Tasks : pc[u] = "inside" => entry[u] # l
    BY <1>6 DEF FastPath, OneInside
  <2>2. \A u \in Tasks : pc[u] = "waiting" /\ entry[u] = l => future[u] = "cancelled"
    BY <1>6 DEF FastPath, Waiters
  <2>3. /\ pc'[t] = "inside" /\ locked'[l] = TRUE
        /\ \A m \in Locks \ {l} : locked'[m] = locked[m]
    BY <1>6 DEF TypeOK
  <2>4. OneInside'
    <3>1. \A u \in Tasks : pc'[u] = "inside" => u = t \/ (pc[u] = "inside" /\ u # t)
      BY <1>3
    <3>2. \A u \in Tasks : pc[u] = "inside" => locked[entry[u]] = TRUE /\ entry[u] \in Locks
      BY DEF OneInside, LeasesAgree
    <3>3. \A u \in Tasks : pc'[u] = "inside" => locked'[entry'[u]] = TRUE
      BY <1>3, <2>1, <2>3, <3>1, <3>2
    <3>4. \A u, v \in Tasks :
            pc'[u] = "inside" /\ pc'[v] = "inside" /\ entry'[u] = entry'[v] => u = v
      BY <1>3, <2>1, <3>1 DEF OneInside
    <3>5. QED
      BY <3>3, <3>4 DEF OneInside
  <2>5. WokenIsFirst'
    <3> SUFFICES ASSUME NEW u \in Tasks
                 PROVE  /\ pc'[u] # "waiting" => future[u] = "pending"
                        /\ future[u] = "set" => locked'[entry'[u]] = FALSE /\ ahead[u] = {}
      BY <1>2, <1>6 DEF WokenIsFirst
    <3>1. CASE u = t
      BY <1>2, <3>1
    <3>2. CASE u # t
      <4>1. pc'[u] # "waiting" => future[u] = "pending"
        BY <1>3, <3>2 DEF WokenIsFirst
      <4>2. future[u] = "set" => pc[u] = "waiting" /\ entry[u] # l /\ entry[u] \in Locks
        BY <2>2 DEF WokenIsFirst, LeasesAgree
      <4>3. QED
        BY <1>3, <2>3, <3>2, <4>1, <4>2 DEF WokenIsFirst
    <3>3. QED
      BY <3>1, <3>2
  <2>6. QueueTotal' /\ QueueLocal'
    BY <1>2, <1>3, <1>6, <2>3 DEF QueueTotal, QueueLocal
  <2>7. NoStrandedWaiter'
    BY <1>2, <1>3, <1>6, <2>3 DEF NoStrandedWaiter, Waiters
  <2>8. QED
    BY <1>4, <1>5, <2>4, <2>5, <2>6, <2>7
<1>7. CASE /\ ~FastPath(l)
           /\ pc' = [pc EXCEPT ![t] = "waiting"]
           /\ ahead' = [ahead EXCEPT ![t] = Waiters(l)]
           /\ UNCHANGED locked
  <2>1. /\ pc'[t] = "waiting" /\ ahead'[t] = Waiters(l)
        /\ \A u \in Tasks \ {t} : ahead'[u] = ahead[u]
    BY <1>7 DEF TypeOK
  <2>2. OneInside'
    BY <1>3, <1>7, <2>1 DEF OneInside
  <2>3. WokenIsFirst'
    BY <1>2, <1>3, <1>7, <2>1 DEF WokenIsFirst
  <2>4. QueueTotal' /\ QueueLocal'
    BY <1>2, <1>3, <2>1 DEF QueueTotal, QueueLocal, Waiters
  <2>5. NoStrandedWaiter'
    <3> SUFFICES ASSUME NEW m \in Locks, ~locked[m], NEW u \in Tasks,
                        pc'[u] = "waiting", entry'[u] = m, ahead'[u] = {}
                 PROVE  future[u] # "pending"
      BY <1>2, <1>7 DEF NoStrandedWaiter, Waiters
    <3>1. u # t
      BY <1>3, <1>7, <2>1 DEF FastPath
    <3>2. QED
      BY <1>3, <2>1, <3>1 DEF NoStrandedWaiter, Waiters
  <2>6. QED
    BY <1>4, <1>5, <2>2, <2>3, <2>4, <2>5
<1>8. QED
  BY <1>1, <1>6, <1>7

\* Cancelling a waiter touches nothing but its future.
LEMMA LockCancel ==
  ASSUME LockInv, NEW t \in Tasks, Cancel(t)
  PROVE  LockInv'
<1> USE DEF LockInv
<1>1. /\ UNCHANGED <<pc, key, entry, entries, references, locked, ahead>>
      /\ pc[t] = "waiting"
      /\ \A u \in Tasks : future'[u] = future[u] \/ (u = t /\ future'[u] = "cancelled")
      /\ future' \in [Tasks -> {"pending", "set", "cancelled"}]
      /\ must_cancel' \in SUBSET Tasks
  BY DEF Cancel, TypeOK
<1>2. TypeOK' /\ LeasesAgree' /\ EntriesDistinct' /\ Counted'
  BY <1>1 DEF TypeOK, LeasesAgree, EntriesDistinct, Counted, Users
<1>3. OneInside' /\ QueueTotal' /\ QueueLocal' /\ WokenIsFirst'
  BY <1>1 DEF OneInside, QueueTotal, QueueLocal, WokenIsFirst
<1>4. NoStrandedWaiter'
  BY <1>1 DEF NoStrandedWaiter, Waiters
<1>5. QED
  BY <1>2, <1>3, <1>4

\* A woken waiter finds the lock free, because it is the first of its queue.
LEMMA LockResume ==
  ASSUME LockInv, NEW t \in Tasks, Resume(t)
  PROVE  LockInv'
<1> USE DEF LockInv
<1>1. PICK l \in Locks : l = entry[t]
  BY DEF Resume, LeasesAgree
<1>2. /\ pc[t] = "waiting" /\ future[t] = "set" /\ locked[l] = FALSE /\ ahead[t] = {}
      /\ UNCHANGED <<key, entry, entries, references, must_cancel>>
  BY <1>1 DEF Resume, WokenIsFirst
<1>3. /\ pc'[t] = "inside" /\ locked'[l] = TRUE /\ future'[t] = "pending"
      /\ \A u \in Tasks \ {t} : /\ pc'[u] = pc[u] /\ future'[u] = future[u]
                                /\ ahead'[u] = ahead[u] \ {t}
      /\ \A m \in Locks \ {l} : locked'[m] = locked[m]
  BY <1>1 DEF Resume, TypeOK, WithoutWaiter
<1>4. TypeOK'
  BY <1>1 DEF Resume, TypeOK, WithoutWaiter
<1>5. LeasesAgree' /\ EntriesDistinct' /\ Counted'
  BY <1>2, <1>3 DEF LeasesAgree, EntriesDistinct, Counted, Users
<1>6. OneInside'
  BY <1>1, <1>2, <1>3 DEF OneInside, LeasesAgree
<1>7. \A u \in Tasks : pc[u] = "waiting" /\ entry[u] = l /\ u # t => future[u] # "set"
  BY <1>1, <1>2 DEF QueueTotal, WokenIsFirst
<1>8. WokenIsFirst'
  <2> SUFFICES ASSUME NEW u \in Tasks, u # t
               PROVE  /\ pc[u] # "waiting" => future[u] = "pending"
                      /\ future[u] = "set" => locked'[entry[u]] = FALSE /\ ahead[u] \ {t} = {}
    BY <1>2, <1>3 DEF WokenIsFirst
  <2>1. future[u] = "set" => pc[u] = "waiting" /\ entry[u] # l /\ entry[u] \in Locks
    BY <1>7 DEF WokenIsFirst, LeasesAgree
  <2>2. QED
    BY <1>3, <2>1 DEF WokenIsFirst
<1>9. QueueTotal' /\ QueueLocal'
  BY <1>2, <1>3 DEF QueueTotal, QueueLocal
<1>10. NoStrandedWaiter'
  <2> SUFFICES ASSUME NEW m \in Locks, ~locked'[m], NEW u \in Tasks,
                      pc'[u] = "waiting", entry[u] = m, ahead'[u] = {}
               PROVE  future'[u] # "pending"
    BY <1>2 DEF NoStrandedWaiter, Waiters
  <2>1. m # l /\ u # t /\ pc[u] = "waiting"
    BY <1>3
  <2>2. t \notin ahead[u]
    BY <1>1, <1>2, <2>1 DEF QueueLocal
  <2>3. QED
    BY <1>3, <2>1, <2>2 DEF NoStrandedWaiter, Waiters
<1>11. QED
  BY <1>4, <1>5, <1>6, <1>8, <1>9, <1>10

\* A cancelled waiter hands the free lock on to the next one.
LEMMA LockResumeCancelled ==
  ASSUME LockInv, NEW t \in Tasks, ResumeCancelled(t)
  PROVE  LockInv'
<1> USE DEF LockInv
<1>1. PICK l \in Locks : l = entry[t] /\ NoLock \notin Locks
  BY LockAssumption DEF ResumeCancelled, LeasesAgree
<1>2. pc[t] = "waiting" /\ Unreserve(t) /\ locked' = locked
  BY DEF ResumeCancelled
<1>3. /\ entries' \in [Keys -> Locks \cup {NoLock}] /\ references' \in [Locks -> Int]
      /\ key' \in [Tasks -> Keys \cup {NoKey}] /\ entry' \in [Tasks -> Locks \cup {NoLock}]
      /\ pc' \in [Tasks -> {"out", "waiting", "inside"}]
      /\ LeasesAgree' /\ EntriesDistinct' /\ Counted'
  BY <1>2, UnreserveBooks
<1>4. /\ pc'[t] = "out" /\ entry'[t] = NoLock
      /\ \A u \in Tasks \ {t} : pc'[u] = pc[u] /\ entry'[u] = entry[u]
  BY <1>2 DEF Unreserve, TypeOK
<1>5. /\ future'[t] = "pending" /\ ahead'[t] = {}
      /\ \A u \in Tasks \ {t} : ahead'[u] = ahead[u] \ {t}
      /\ future' \in [Tasks -> {"pending", "set", "cancelled"}]
      /\ ahead' \in [Tasks -> SUBSET Tasks] /\ must_cancel' \in SUBSET Tasks
  BY DEF ResumeCancelled, WithoutWaiter, WakeUpFirst, TypeOK
<1>6. \A u \in Tasks \ {t} :
        future'[u] = IF /\ ~locked[l] /\ u \in Waiters(l) /\ ahead'[u] = {}
                        /\ future[u] = "pending"
                     THEN "set" ELSE future[u]
  BY <1>1 DEF ResumeCancelled, WithoutWaiter, WakeUpFirst, TypeOK
<1>7. TypeOK'
  BY <1>2, <1>3, <1>5 DEF TypeOK
<1>8. OneInside'
  BY <1>2, <1>4 DEF OneInside
<1>9. WokenIsFirst'
  <2> SUFFICES ASSUME NEW u \in Tasks, u # t
               PROVE  /\ pc[u] # "waiting" => future'[u] = "pending"
                      /\ future'[u] = "set" => locked[entry[u]] = FALSE /\ ahead'[u] = {}
    BY <1>2, <1>4, <1>5 DEF WokenIsFirst
  <2>1. CASE future'[u] = future[u]
    BY <1>5, <2>1 DEF WokenIsFirst
  <2>2. CASE future'[u] # future[u]
    BY <1>1, <1>6, <2>2 DEF Waiters, TypeOK
  <2>3. QED
    BY <2>1, <2>2
<1>10. QueueTotal' /\ QueueLocal'
  BY <1>4, <1>5 DEF QueueTotal, QueueLocal
<1>11. NoStrandedWaiter'
  <2> SUFFICES ASSUME NEW m \in Locks, ~locked[m], NEW u \in Tasks,
                      pc'[u] = "waiting", entry'[u] = m, ahead'[u] = {}
               PROVE  future'[u] # "pending"
    BY <1>2 DEF NoStrandedWaiter, Waiters
  <2>1. u # t /\ pc[u] = "waiting" /\ entry[u] = m
    BY <1>4
  <2>2. CASE m = l
    BY <1>6, <2>1, <2>2 DEF Waiters
  <2>3. CASE m # l
    <3>1. ahead[u] = {}
      BY <1>1, <1>5, <2>1, <2>3 DEF QueueLocal
    <3>2. QED
      BY <1>6, <2>1, <2>3, <3>1 DEF NoStrandedWaiter, Waiters
  <2>4. QED
    BY <2>2, <2>3
<1>12. QED
  BY <1>3, <1>7, <1>8, <1>9, <1>10, <1>11

\* __aexit__ frees the lock and wakes the first waiter.
LEMMA LockExit ==
  ASSUME LockInv, NEW t \in Tasks, Exit(t)
  PROVE  LockInv'
<1> USE DEF LockInv
<1>1. PICK l \in Locks : l = entry[t] /\ NoLock \notin Locks
  BY LockAssumption DEF Exit, LeasesAgree
<1>2. /\ pc[t] = "inside" /\ Unreserve(t) /\ UNCHANGED <<ahead, must_cancel>>
      /\ future[t] = "pending"
  BY DEF Exit, WokenIsFirst
<1>3. /\ entries' \in [Keys -> Locks \cup {NoLock}] /\ references' \in [Locks -> Int]
      /\ key' \in [Tasks -> Keys \cup {NoKey}] /\ entry' \in [Tasks -> Locks \cup {NoLock}]
      /\ pc' \in [Tasks -> {"out", "waiting", "inside"}]
      /\ LeasesAgree' /\ EntriesDistinct' /\ Counted'
  BY <1>2, UnreserveBooks
<1>4. /\ pc'[t] = "out" /\ entry'[t] = NoLock
      /\ \A u \in Tasks \ {t} : pc'[u] = pc[u] /\ entry'[u] = entry[u]
  BY <1>2 DEF Unreserve, TypeOK
<1>5. /\ locked'[l] = FALSE /\ \A m \in Locks \ {l} : locked'[m] = locked[m]
      /\ locked' \in [Locks -> BOOLEAN]
  BY <1>1 DEF Exit, TypeOK
<1>6. /\ future' \in [Tasks -> {"pending", "set", "cancelled"}]
      /\ \A u \in Tasks :
           future'[u] = IF u \in Waiters(l) /\ ahead[u] = {} /\ future[u] = "pending"
                        THEN "set" ELSE future[u]
  BY <1>1 DEF Exit, WakeUpFirst, TypeOK
<1>7. TypeOK'
  BY <1>2, <1>3, <1>5, <1>6 DEF TypeOK
<1>8. OneInside'
  BY <1>1, <1>2, <1>4, <1>5 DEF OneInside, LeasesAgree
<1>9. WokenIsFirst'
  <2> SUFFICES ASSUME NEW u \in Tasks
               PROVE  /\ pc'[u] # "waiting" => future'[u] = "pending"
                      /\ future'[u] = "set" => locked'[entry'[u]] = FALSE /\ ahead[u] = {}
    BY <1>2 DEF WokenIsFirst
  <2>0. future'[t] = "pending"
    BY <1>2, <1>6 DEF Waiters
  <2>1. CASE u # t /\ future'[u] = future[u]
    <3>1. pc'[u] # "waiting" => future'[u] = "pending"
      BY <1>4, <2>1 DEF WokenIsFirst
    <3>2. future[u] = "set" => locked[entry[u]] = FALSE /\ ahead[u] = {} /\ entry[u] \in Locks
      BY DEF WokenIsFirst, LeasesAgree
    <3>3. QED
      BY <1>4, <1>5, <2>1, <3>1, <3>2
  <2>2. CASE u # t /\ future'[u] # future[u]
    BY <1>4, <1>5, <1>6, <2>2 DEF Waiters, TypeOK
  <2>3. QED
    BY <2>0, <2>1, <2>2
<1>10. QueueTotal' /\ QueueLocal'
  BY <1>2, <1>4 DEF QueueTotal, QueueLocal
<1>11. NoStrandedWaiter'
  <2> SUFFICES ASSUME NEW m \in Locks, ~locked'[m], NEW u \in Tasks,
                      pc'[u] = "waiting", entry'[u] = m, ahead[u] = {}
               PROVE  future'[u] # "pending"
    BY <1>2 DEF NoStrandedWaiter, Waiters
  <2>1. u # t /\ pc[u] = "waiting" /\ entry[u] = m
    BY <1>4
  <2>2. QED
    BY <1>5, <1>6, <2>1 DEF NoStrandedWaiter, Waiters
<1>12. QED
  BY <1>3, <1>7, <1>8, <1>9, <1>10, <1>11

-----------------------------------------------------------------------------
\* Every step preserves the invariant.
LEMMA LockStep == LockInv /\ [Next]_vars => LockInv'
<1> SUFFICES ASSUME LockInv, [Next]_vars PROVE LockInv'
  OBVIOUS
<1>1. CASE UNCHANGED vars
  BY <1>1 DEF vars, LockInv, TypeOK, LeasesAgree, EntriesDistinct, Counted, Users, OneInside,
              WokenIsFirst, QueueTotal, QueueLocal, NoStrandedWaiter, Waiters
<1>2. CASE Next
  BY <1>2, LockEnter, LockCancel, LockResume, LockResumeCancelled, LockExit DEF Next
<1>3. QED
  BY <1>1, <1>2

\* Every reachable state of the pool satisfies the inductive invariant.
THEOREM LockInvariant == Spec => []LockInv
BY LockInit, LockStep, PTL DEF Spec

\* At most one coroutine is inside the section PerKeyLockPool guards for a URL.
THEOREM PoolMutualExclusion == Spec => []MutualExclusion
<1>1. LockInv => MutualExclusion
  BY DEF LockInv, LeasesAgree, OneInside, MutualExclusion
<1>2. QED
  BY <1>1, LockInvariant, PTL

\* _reserve and _unreserve keep the dictionary and its counts exact.
THEOREM PoolAccounting == Spec => []EntryAccounting
<1>1. LockInv => EntryAccounting
  BY DEF LockInv, LeasesAgree, Counted, EntryAccounting
<1>2. QED
  BY <1>1, LockInvariant, PTL

\* A free lock with a queue always has a first waiter that is about to run.
THEOREM PoolNeverStrands == Spec => []NoStrandedWaiter
BY LockInvariant, PTL DEF LockInv

\* The pool implements the safety part of the per-key mutex: every step of
\* __aenter__, __aexit__ and cancellation is a step of KeyedMutex or a stutter.
THEOREM PoolImplementsMutex == Spec => Mutex!Spec
<1>1. Init => Mutex!Init
  BY DEF Init, Mutex!Init
<1>2. LockInv /\ [Next]_vars => [Mutex!Next]_(Mutex!mutexVars)
  <2> SUFFICES ASSUME LockInv, [Next]_vars
               PROVE  Mutex!Next \/ UNCHANGED <<pc, key>>
    BY DEF Mutex!mutexVars
  <2> USE DEF LockInv
  <2>1. CASE UNCHANGED vars
    BY <2>1 DEF vars
  <2>2. ASSUME NEW t \in Tasks, NEW k \in Keys, Enter(t, k) PROVE Mutex!Request(t, k)
    <3>1. PICK l \in Locks :
            /\ EntryFor(k, l)
            /\ \/ FastPath(l) /\ pc' = [pc EXCEPT ![t] = "inside"]
               \/ pc' = [pc EXCEPT ![t] = "waiting"]
      BY <2>2 DEF Enter
    <3>2. FastPath(l) => Mutex!Free(k)
      <4> SUFFICES ASSUME ~locked[l], NEW u \in Tasks, pc[u] = "inside", key[u] = k
                   PROVE  FALSE
        BY DEF FastPath, Mutex!Free
      <4>1. locked[entry[u]] = TRUE /\ entries[k] = entry[u] /\ entry[u] \in Locks
        BY DEF OneInside, LeasesAgree
      <4>2. entry[u] = l
        BY <3>1, <4>1, LockAssumption DEF EntryFor
      <4>3. QED
        BY <4>1, <4>2
    <3>3. pc[t] = "out" /\ key' = [key EXCEPT ![t] = k]
      BY <2>2 DEF Enter
    <3>4. QED
      BY <3>1, <3>2, <3>3 DEF Mutex!Request
  <2>3. ASSUME NEW t \in Tasks, Cancel(t) PROVE UNCHANGED <<pc, key>>
    BY <2>3 DEF Cancel
  <2>4. ASSUME NEW t \in Tasks, Resume(t) PROVE Mutex!Grant(t)
    BY <2>4 DEF Resume, Mutex!Grant, Mutex!Free, WokenIsFirst, OneInside, LeasesAgree
  <2>5. ASSUME NEW t \in Tasks, ResumeCancelled(t) PROVE Mutex!GiveUp(t)
    BY <2>5 DEF ResumeCancelled, Unreserve, Mutex!GiveUp, Mutex!Leave
  <2>6. ASSUME NEW t \in Tasks, Exit(t) PROVE Mutex!Release(t)
    BY <2>6 DEF Exit, Unreserve, Mutex!Release, Mutex!Leave
  <2>7. QED
    BY <2>1, <2>2, <2>3, <2>4, <2>5, <2>6 DEF Next, Mutex!Next
<1>3. QED
  BY <1>1, <1>2, LockInvariant, PTL DEF Spec, Mutex!Spec
=============================================================================
