---------------------------- MODULE MCKeyedLock ----------------------------
(* TLC instance: three coroutines, two keys; three entry objects are enough *)
(* because only entries with a user exist.                                  *)
EXTENDS KeyedLock

CONSTANTS t1, t2, t3, k1, k2, l1, l2, l3
=============================================================================
