-------------------------- MODULE MCFetchScheduler --------------------------
(* TLC instance: two providers and the judge's LLM, all with one slot. *)
EXTENDS FetchScheduler

CONSTANTS j1, j2, c1, w1, w2, llm

MCProviders == <<w1, w2>>
MCLimit == [g \in Gates |-> 1]
=============================================================================
