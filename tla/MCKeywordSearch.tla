-------------------------- MODULE MCKeywordSearch --------------------------
(* TLC instance: two searches over two providers; answers with a clean body, *)
(* a raw body, a white-space body, duplicates and unusable hits.             *)
EXTENDS KeywordSearch

CONSTANTS u1, u2, a, b, s1, s2

Hit(u, raw, clean) == [url |-> u, raw_content |-> raw, content |-> clean, kind |-> "ok"]

MCHitLists ==
  {<<Hit(u1, a, NoText), Hit(u1, b, Blank)>>,
   <<Hit(u2, NoText, NoText), Hit(u1, a, b)>>,
   <<[Hit(u2, a, a) EXCEPT !.kind = "no_abstract"],
     [Hit(u2, NoText, b) EXCEPT !.kind = "invalid"]>>}
=============================================================================
