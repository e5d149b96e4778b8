------------------------- MODULE CapacityGateProofs -------------------------
(***************************************************************************)
(* The quotas hold for every set of gates, limits and coroutines.          *)
(* QuotaBound and NoLostWakeup are inductive together with TypeOK and two  *)
(* more facts: only suspended coroutines are notified, and none of them    *)
(* already holds a lease of the gate it waits for.                         *)
(***************************************************************************)
EXTENDS CapacityGate, FiniteSetTheorems, TLAPS

\* Only coroutines that are suspended in wait_for have a set wait future.
NotifiedAreWaiting ==
  \A p \in notified : waiting[p] # "no"

\* A coroutine suspended for a lease does not hold one of the same gate.
WaitersHoldNothing ==
  \A p \in leases : waiting[p] = "no"

\* The inductive invariant.
GateInv ==
  /\ TypeOK
  /\ QuotaBound
  /\ NotifiedAreWaiting
  /\ WaitersHoldNothing
  /\ NoLostWakeup

-----------------------------------------------------------------------------
\* Every gate is held through finitely many leases.
LEMMA HoldersFinite ==
  ASSUME TypeOK, NEW g \in Gates
  PROVE  IsFiniteSet(Holders(g))
<1> DEFINE Img == {<<t, g>> : t \in Tasks}
<1>1. IsFiniteSet(Img)
  <2> DEFINE f == [t \in Tasks |-> <<t, g>>]
  <2>1. f \in Surjection(Tasks, Img)
    BY DEF Surjection
  <2>2. QED
    BY <2>1, TasksAssumption, FS_Surjection
<1>2. Holders(g) \subseteq Img
  BY DEF TypeOK, Holders
<1>3. QED
  BY <1>1, <1>2, FS_Subset

\* A claim on a free gate keeps the accounting.
LEMMA ClaimKeepsQuota ==
  ASSUME TypeOK, QuotaBound, NEW t \in Tasks, NEW g \in Gates,
         <<t, g>> \notin leases, Available(g), Claim(t, g)
  PROVE  /\ QuotaBound'
         /\ in_use' \in [Gates -> Int]
         /\ max_observed_in_use' \in [Gates -> Int]
         /\ leases' \subseteq Tasks \X Gates
         /\ \A h \in Gates : in_use[h] <= in_use'[h]
<1>1. /\ in_use' \in [Gates -> Int]
      /\ max_observed_in_use' \in [Gates -> Int]
      /\ leases' \subseteq Tasks \X Gates
      /\ \A h \in Gates : in_use[h] <= in_use'[h]
  BY DEF TypeOK, Claim
<1>2. QuotaBound'
  <2> SUFFICES ASSUME NEW h \in Gates
               PROVE  /\ in_use'[h] = Cardinality(Holders(h)')
                      /\ in_use'[h] <= max_observed_in_use'[h]
                      /\ max_observed_in_use'[h] <= Limit[h]
    BY DEF QuotaBound
  <2>1. CASE h = g
    <3>1. Holders(g)' = Holders(g) \cup {<<t, g>>} /\ <<t, g>> \notin Holders(g)
      BY DEF Claim, Holders
    <3>2. Cardinality(Holders(g)') = Cardinality(Holders(g)) + 1
      BY <3>1, HoldersFinite, FS_AddElement
    <3>3. in_use'[g] = in_use[g] + 1
      BY DEF TypeOK, Claim
    <3>4. in_use'[g] = Cardinality(Holders(g)')
      BY <3>2, <3>3 DEF QuotaBound
    <3>5. in_use'[g] <= max_observed_in_use'[g] /\ max_observed_in_use'[g] <= Limit[g]
      <4>1. in_use[g] \in Int /\ max_observed_in_use[g] \in Int /\ Limit[g] \in Int
        BY LimitAssumption DEF TypeOK
      <4>2. max_observed_in_use'[g] = IF in_use[g] + 1 > max_observed_in_use[g]
                                      THEN in_use[g] + 1 ELSE max_observed_in_use[g]
        BY DEF TypeOK, Claim
      <4>3. in_use[g] < Limit[g] /\ max_observed_in_use[g] <= Limit[g]
        BY DEF QuotaBound, Available
      <4>4. QED
        BY <3>3, <4>1, <4>2, <4>3
    <3>6. QED
      BY <2>1, <3>4, <3>5
  <2>2. CASE h # g
    <3>1. Holders(h)' = Holders(h)
      BY <2>2 DEF Claim, Holders
    <3>2. in_use'[h] = in_use[h] /\ max_observed_in_use'[h] = max_observed_in_use[h]
      BY <2>2 DEF TypeOK, Claim
    <3>3. QED
      BY <3>1, <3>2 DEF QuotaBound
  <2>3. QED
    BY <2>1, <2>2
<1>3. QED
  BY <1>1, <1>2

\* Steps that touch no lease keep the accounting.
LEMMA NoClaimKeepsQuota ==
  ASSUME TypeOK, QuotaBound, NoClaim
  PROVE  /\ QuotaBound'
         /\ in_use' \in [Gates -> Int]
         /\ max_observed_in_use' \in [Gates -> Int]
         /\ leases' \subseteq Tasks \X Gates
  BY DEF TypeOK, QuotaBound, Holders, NoClaim

-----------------------------------------------------------------------------
\* The new gates of ProviderQuotaManager satisfy the invariant.
LEMMA GateInit == Init => GateInv
<1> SUFFICES ASSUME Init PROVE GateInv
  OBVIOUS
<1>1. TypeOK
  BY DEF Init, TypeOK, WaitKinds
<1>2. QuotaBound
  <2>1. \A g \in Gates : Holders(g) = {}
    BY DEF Init, Holders
  <2>2. Cardinality({}) = 0
    BY FS_EmptySet
  <2>3. QED
    BY <2>1, <2>2, LimitAssumption DEF Init, QuotaBound
<1>3. NotifiedAreWaiting /\ WaitersHoldNothing /\ NoLostWakeup
  BY DEF Init, NotifiedAreWaiting, WaitersHoldNothing, NoLostWakeup
<1>4. QED
  BY <1>1, <1>2, <1>3 DEF GateInv

\* try_lease preserves the invariant.
LEMMA GateTryLease ==
  ASSUME GateInv, NEW t \in Tasks, NEW g \in Gates, TryLease(t, g)
  PROVE  GateInv'
<1> USE DEF GateInv
<1>1. TypeOK' /\ QuotaBound' /\ \A h \in Gates : in_use[h] <= in_use'[h]
  BY ClaimKeepsQuota DEF TryLease, Unengaged, TypeOK
<1>2. NotifiedAreWaiting' /\ WaitersHoldNothing'
  BY DEF TryLease, Unengaged, Claim, NotifiedAreWaiting, WaitersHoldNothing
<1>3. NoLostWakeup'
  BY <1>1, LimitAssumption DEF TryLease, NoLostWakeup, Available, TypeOK
<1>4. QED
  BY <1>1, <1>2, <1>3

\* _acquire up to its first suspension preserves the invariant.
LEMMA GateAcquire ==
  ASSUME GateInv, NEW t \in Tasks, NEW g \in Gates, Acquire(t, g)
  PROVE  GateInv'
<1> USE DEF GateInv
<1>1. CASE Available(g) /\ Claim(t, g) /\ UNCHANGED waiting
  <2>1. TypeOK' /\ QuotaBound' /\ \A h \in Gates : in_use[h] <= in_use'[h]
    BY <1>1, ClaimKeepsQuota DEF Acquire, Unengaged, TypeOK
  <2>2. NotifiedAreWaiting' /\ WaitersHoldNothing'
    BY <1>1 DEF Acquire, Unengaged, Claim, NotifiedAreWaiting, WaitersHoldNothing
  <2>3. NoLostWakeup'
    BY <1>1, <2>1, LimitAssumption DEF Acquire, NoLostWakeup, Available, TypeOK
  <2>4. QED
    BY <2>1, <2>2, <2>3
<1>2. CASE ~Available(g) /\ waiting' = [waiting EXCEPT ![<<t, g>>] = "claim"] /\ NoClaim
  <2>1. TypeOK' /\ QuotaBound'
    BY <1>2, NoClaimKeepsQuota DEF Acquire, TypeOK, WaitKinds
  <2>2. NotifiedAreWaiting' /\ WaitersHoldNothing'
    BY <1>2 DEF Acquire, Unengaged, NoClaim, NotifiedAreWaiting, WaitersHoldNothing, TypeOK
  <2>3. NoLostWakeup'
    BY <1>2 DEF Acquire, NoClaim, NoLostWakeup, Available, TypeOK
  <2>4. QED
    BY <2>1, <2>2, <2>3
<1>3. QED
  BY <1>1, <1>2 DEF Acquire

\* wait_until_available up to its suspension preserves the invariant.
LEMMA GateWatch ==
  ASSUME GateInv, NEW t \in Tasks, NEW g \in Gates, WatchAvailable(t, g)
  PROVE  GateInv'
<1> USE DEF GateInv
<1>1. TypeOK' /\ QuotaBound'
  BY NoClaimKeepsQuota DEF WatchAvailable, TypeOK, WaitKinds
<1>2. NotifiedAreWaiting' /\ WaitersHoldNothing'
  BY DEF WatchAvailable, Unengaged, NoClaim, NotifiedAreWaiting, WaitersHoldNothing, TypeOK
<1>3. NoLostWakeup'
  BY DEF WatchAvailable, NoClaim, NoLostWakeup, Available, TypeOK
<1>4. QED
  BY <1>1, <1>2, <1>3

\* Cancelling a suspended waiter preserves the invariant.
LEMMA GateCancel ==
  ASSUME GateInv, NEW t \in Tasks, NEW g \in Gates, CancelWaiter(t, g)
  PROVE  GateInv'
<1> USE DEF GateInv
<1>1. TypeOK' /\ QuotaBound'
  BY NoClaimKeepsQuota DEF CancelWaiter, TypeOK, WaitKinds
<1>2. NotifiedAreWaiting' /\ WaitersHoldNothing'
  BY DEF CancelWaiter, NoClaim, NotifiedAreWaiting, WaitersHoldNothing, TypeOK
<1>3. NoLostWakeup'
  BY DEF CancelWaiter, NoClaim, NoLostWakeup, Available, TypeOK
<1>4. QED
  BY <1>1, <1>2, <1>3

\* The step of a notified waiter preserves the invariant.
LEMMA GateResume ==
  ASSUME GateInv, NEW t \in Tasks, NEW g \in Gates, Resume(t, g)
  PROVE  GateInv'
<1> USE DEF GateInv
<1>a. waiting[<<t, g>>] # "no" /\ notified' = notified \ {<<t, g>>}
  BY DEF Resume, NotifiedAreWaiting
<1>1. CASE ~Available(g) /\ NoClaim /\ UNCHANGED waiting
  <2>1. TypeOK' /\ QuotaBound'
    BY <1>a, <1>1, NoClaimKeepsQuota DEF TypeOK
  <2>2. NotifiedAreWaiting' /\ WaitersHoldNothing'
    BY <1>a, <1>1 DEF NoClaim, NotifiedAreWaiting, WaitersHoldNothing
  <2>3. NoLostWakeup'
    BY <1>a, <1>1 DEF NoClaim, NoLostWakeup, Available
  <2>4. QED
    BY <2>1, <2>2, <2>3
<1>2. CASE /\ Available(g)
           /\ waiting' = [waiting EXCEPT ![<<t, g>>] = "no"]
           /\ waiting[<<t, g>>] # "claim" /\ NoClaim
  <2>1. TypeOK' /\ QuotaBound'
    BY <1>a, <1>2, NoClaimKeepsQuota DEF TypeOK, WaitKinds
  <2>2. NotifiedAreWaiting' /\ WaitersHoldNothing'
    BY <1>a, <1>2 DEF NoClaim, NotifiedAreWaiting, WaitersHoldNothing, TypeOK
  <2>3. NoLostWakeup'
    BY <1>a, <1>2 DEF NoClaim, NoLostWakeup, Available, TypeOK
  <2>4. QED
    BY <2>1, <2>2, <2>3
<1>3. CASE /\ Available(g)
           /\ waiting' = [waiting EXCEPT ![<<t, g>>] = "no"]
           /\ waiting[<<t, g>>] = "claim" /\ Claim(t, g)
  <2>1. <<t, g>> \notin leases
    BY <1>a DEF WaitersHoldNothing
  <2>2. TypeOK' /\ QuotaBound' /\ \A h \in Gates : in_use[h] <= in_use'[h]
    BY <1>a, <1>3, <2>1, ClaimKeepsQuota DEF TypeOK, WaitKinds
  <2>3. NotifiedAreWaiting'
    BY <1>a, <1>3 DEF NotifiedAreWaiting, TypeOK
  <2>4. WaitersHoldNothing'
    BY <1>3 DEF WaitersHoldNothing, Claim, TypeOK
  <2>5. NoLostWakeup'
    <3> SUFFICES ASSUME NEW u \in Tasks, NEW h \in Gates,
                        waiting'[<<u, h>>] # "no", <<u, h>> \notin notified',
                        in_use'[h] < Limit[h]
                 PROVE  FALSE
      BY DEF NoLostWakeup, Available
    <3>1. <<u, h>> # <<t, g>> /\ waiting[<<u, h>>] # "no"
      BY <1>3 DEF TypeOK
    <3>2. <<u, h>> \notin notified
      BY <1>a, <3>1
    <3>3. in_use[h] < Limit[h]
      BY <2>2, LimitAssumption DEF TypeOK
    <3>4. QED
      BY <3>1, <3>2, <3>3 DEF NoLostWakeup, Available
  <2>6. QED
    BY <2>2, <2>3, <2>4, <2>5
<1>4. QED
  BY <1>1, <1>2, <1>3 DEF Resume

\* _release preserves the invariant: notify_all leaves no sleeper behind.
LEMMA GateRelease ==
  ASSUME GateInv, NEW t \in Tasks, NEW g \in Gates, Release(t, g)
  PROVE  GateInv'
<1> USE DEF GateInv
<1>1. TypeOK'
  BY DEF Release, TypeOK, Waiters
<1>2. QuotaBound'
  <2> SUFFICES ASSUME NEW h \in Gates
               PROVE  /\ in_use'[h] = Cardinality(Holders(h)')
                      /\ in_use'[h] <= max_observed_in_use'[h]
                      /\ max_observed_in_use'[h] <= Limit[h]
    BY DEF QuotaBound
  <2>1. CASE h = g
    <3>1. Holders(g)' = Holders(g) \ {<<t, g>>} /\ <<t, g>> \in Holders(g)
      BY DEF Release, Holders
    <3>2. Cardinality(Holders(g)') = Cardinality(Holders(g)) - 1
      BY <3>1, HoldersFinite, FS_RemoveElement
    <3>3. in_use'[g] = in_use[g] - 1 /\ max_observed_in_use' = max_observed_in_use
      BY DEF TypeOK, Release
    <3>4. QED
      BY <2>1, <3>2, <3>3, LimitAssumption DEF QuotaBound, TypeOK
  <2>2. CASE h # g
    <3>1. Holders(h)' = Holders(h)
      BY <2>2 DEF Release, Holders
    <3>2. in_use'[h] = in_use[h] /\ max_observed_in_use'[h] = max_observed_in_use[h]
      BY <2>2 DEF TypeOK, Release
    <3>3. QED
      BY <3>1, <3>2 DEF QuotaBound
  <2>3. QED
    BY <2>1, <2>2
<1>3. NotifiedAreWaiting'
  BY DEF Release, NotifiedAreWaiting, Waiters
<1>4. WaitersHoldNothing'
  BY DEF Release, WaitersHoldNothing
<1>5. NoLostWakeup'
  <2> SUFFICES ASSUME NEW u \in Tasks, NEW h \in Gates,
                      waiting'[<<u, h>>] # "no", <<u, h>> \notin notified'
               PROVE  ~(in_use'[h] < Limit[h])
    BY DEF NoLostWakeup, Available
  <2>1. h # g
    BY DEF Release, Waiters
  <2>2. in_use'[h] = in_use[h]
    BY <2>1 DEF Release, TypeOK
  <2>3. QED
    BY <2>2 DEF Release, NoLostWakeup, Available
<1>6. QED
  BY <1>1, <1>2, <1>3, <1>4, <1>5

-----------------------------------------------------------------------------
\* Every step of the gates preserves the invariant.
LEMMA GateStep == GateInv /\ [Next]_gateVars => GateInv'
<1> SUFFICES ASSUME GateInv, [Next]_gateVars PROVE GateInv'
  OBVIOUS
<1>1. CASE UNCHANGED gateVars
  BY <1>1 DEF gateVars, GateInv, TypeOK, QuotaBound, Holders, NotifiedAreWaiting,
              WaitersHoldNothing, NoLostWakeup, Available
<1>2. CASE Next
  BY <1>2, GateTryLease, GateAcquire, GateWatch, GateResume, GateRelease, GateCancel
     DEF Next
<1>3. QED
  BY <1>1, <1>2

\* Every reachable state of the gates satisfies the inductive invariant.
THEOREM GateInvariant == Spec => []GateInv
BY GateInit, GateStep, PTL DEF Spec

\* The gates' variables keep their types.
THEOREM GateTypeCorrect == Spec => []TypeOK
BY GateInvariant, PTL DEF GateInv

\* _claim and _release keep the counter of every gate equal to the number of
\* unreleased leases and never above the configured limit.
THEOREM QuotaRespected == Spec => []QuotaBound
BY GateInvariant, PTL DEF GateInv

\* notify_all in _release loses no wakeup: whoever sleeps with nobody about to
\* wake it, sleeps on a gate that is full.
THEOREM NoWakeupLost == Spec => []NoLostWakeup
BY GateInvariant, PTL DEF GateInv
=============================================================================
