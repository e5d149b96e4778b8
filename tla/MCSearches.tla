----------------------------- MODULE MCSearches -----------------------------
(* TLC instance: a behaviour either runs searches on the URL store or        *)
(* aggregates the hits of one search; the two share no state.                *)
(*                                                                           *)
(* Searches: a keyword search over two providers (answers with a clean body, *)
(* a raw body, a white-space body, duplicates and unusable hits) and a text  *)
(* search over two agent invocations (one without a model), one LLM and one  *)
(* academic provider (answers with usable, skipped and malformed blocks;     *)
(* three papers, two with DOIs).                                             *)
(*                                                                           *)
(* Aggregation: hits that agree, conflict, bridge and match only weakly;     *)
(* "dx" spells the DOI "d" differently and "junk" is no identifier.          *)
EXTENDS AllSearches, PaperAggregator

CONSTANTS u1, u2, a, b, s1, t1, p1, p2, p3, d1, d2, x, y

VARIABLE component   \* what the behaviour is about

Found(u, raw, clean) == [url |-> u, raw_content |-> raw, content |-> clean, kind |-> "ok"]

MCHitLists ==
  {<<Found(u1, a, NoText), Found(u1, b, Blank)>>,
   <<Found(u2, NoText, NoText), Found(u1, a, b)>>,
   <<[Found(u2, a, a) EXCEPT !.kind = "no_abstract"],
     [Found(u2, NoText, b) EXCEPT !.kind = "invalid"]>>}

MCConfig ==
  [k \in Kinds |->
     CASE k = "llm" -> <<[provider |-> x, model |-> y]>>
       [] k = "agent" -> <<[provider |-> x, model |-> NoName], [provider |-> y, model |-> x]>>
       [] k = "paper" -> <<[provider |-> x, model |-> NoName]>>]

MCWebReplies ==
  {<<[url |-> u1, form |-> "ok"], [url |-> u2, form |-> "no_abstract"]>>,
   <<[url |-> u2, form |-> "ok"], [url |-> u1, form |-> "bad"]>>}

MCPaperReplies ==
  {<<>>,
   <<[paper |-> p1, form |-> "ok"], [paper |-> p2, form |-> "ok"]>>,
   <<[paper |-> p3, form |-> "ok"]>>,
   <<[paper |-> p3, form |-> "ok"], [paper |-> p1, form |-> "bad"]>>}

MCPaperUrl == [p \in Papers |-> IF p = p1 THEN u1 ELSE u2]

MCPaperDoi == [p \in Papers |-> IF p = p1 THEN d1 ELSE IF p = p2 THEN d2 ELSE NoDoi]

Hit(s, id, doi, ax, t, as, yr, ab) ==
  [source |-> s, source_id |-> id, doi |-> doi, arxiv_id |-> ax, title |-> t,
   authors |-> as, year |-> yr, abstract |-> ab, form |-> "ok"]

MCHitPool ==
  {Hit("openalex", "w1", "d", "", "T", {"a"}, 1, ""),
   Hit("openalex", "w1", "e", "", "T", {"a"}, 1, "o"),
   Hit("openalex", "w1", "", "", "T", {"a", "b"}, 1, "p"),
   Hit("crossref", "dx", "", "", "T", {}, NoYear, "c"),
   Hit("crossref", "e", "d", "", "T", {"a"}, 1, "c"),
   Hit("openalex", "w1", "", "x", "T", {"a"}, 1, ""),
   Hit("arxiv", "x", "d", "", "U", {"a"}, 2, ""),
   Hit("arxiv", "x", "", "", "U", {"a"}, 2, ""),
   Hit("arxiv", "x", "", "junk", "U", {"a"}, 2, ""),
   Hit("llm:m", "l1", "dx", "x", "T", {"a"}, 1, "l"),
   Hit("llm:m", "l2", "e", "x", "T", {"a"}, 1, ""),
   Hit("llm:m", "l3", "", "", "T", {"b", "k"}, 1, "l"),
   Hit("dblp", "k1", "", "", "T", {"k"}, 1, "k"),
   Hit("dblp", "k2", "", "", "T", {"z"}, 1, "")}

MCSources == {"openalex", "crossref", "arxiv", "llm:m", "dblp"}

\* As Runtime.build lists them: academic providers first.
MCPriority ==
  [s \in MCSources |-> CASE s = "arxiv" -> 0 [] s = "openalex" -> 1 [] s = "crossref" -> 2
                         [] s = "dblp" -> 3 [] s = "llm:m" -> 4]

MCNameOrder ==
  [s \in MCSources |-> CASE s = "arxiv" -> 1 [] s = "crossref" -> 2 [] s = "dblp" -> 3
                         [] s = "llm:m" -> 4 [] s = "openalex" -> 5]

MCCanon ==
  [d |-> 1, dx |-> 1, e |-> 2, x |-> 3, w1 |-> 4, l1 |-> 5, l2 |-> 6, l3 |-> 7,
   k1 |-> 8, k2 |-> 9, junk |-> 0]

-----------------------------------------------------------------------------
MCInit ==
  /\ AllSearchesInit
  /\ \/ component = "searches" /\ hits = <<>> /\ pending = {} /\ clusters = {} /\ refused = {}
     \/ component = "papers" /\ AggregatorInit

\* Bound: the keyword search runs before the text search starts, or not at all.
KeywordFirst ==
  (\E s \in Searches : search'[s] = "running") => \A t \in TextSearches : text'[t].phase = "idle"

MCNext ==
  \/ component = "searches" /\ AllSearchesNext /\ KeywordFirst /\ UNCHANGED <<aggregatorVars, component>>
  \/ component = "papers" /\ AggregatorNext /\ UNCHANGED <<allSearchVars, component>>

mcVars == <<allSearchVars, aggregatorVars, component>>

MCSpec == MCInit /\ [][MCNext]_mcVars /\ TextFairness
=============================================================================
