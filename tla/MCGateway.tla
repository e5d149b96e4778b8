------------------------------ MODULE MCGateway ------------------------------
(* TLC instance: one URL, three requests for it (two equal ones and one with *)
(* a focus), and a keyword search that may bring it a raw or a clean body.   *)
EXTENDS Gateway, TLC

CONSTANTS u1, a, b, r1, r2, r3, f1, s1, p1

MCUrlOf == [r \in Requests |-> u1]
MCFocusOf == (r1 :> NoFocus) @@ (r2 :> NoFocus) @@ (r3 :> f1)

Hit(raw, clean) == [url |-> u1, raw_content |-> raw, content |-> clean, kind |-> "ok"]

MCHitLists == {<<Hit(a, NoText)>>, <<Hit(b, a)>>, <<Hit(Blank, NoText)>>}
=============================================================================
