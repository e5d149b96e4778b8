CONSTANTS
  t1 = t1
  t2 = t2
  t3 = t3
  k1 = k1
  k2 = k2
  l1 = l1
  l2 = l2
  l3 = l3
  Tasks = {t1, t2, t3}
  Keys = {k1, k2}
  Locks = {l1, l2, l3}
  NoKey = NoKey
  NoLock = NoLock
SPECIFICATION FairSpec
INVARIANTS MutualExclusion EntryAccounting
PROPERTY ImplementsKeyedMutex
