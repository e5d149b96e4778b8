---------------------------- MODULE AllSearches ----------------------------
(***************************************************************************)
(* The searches of one daemon on its URL store: keyword searches beside    *)
(* LLM, agent and paper searches.                                          *)
(***************************************************************************)
EXTENDS KeywordSearch, TextSearch

allSearchVars == <<storeVars, searchVars, textVars>>

AllSearchesInit == StoreInit /\ SearchInit /\ TextInit

KeywordSteps == SearchNext /\ UNCHANGED textVars

TextSteps == TextNext /\ UNCHANGED searchVars

AllSearchesNext == KeywordSteps \/ TextSteps

\* The event loop runs what is ready, pipelines unwind (the cleanup of an
\* agent process is bounded) and the deadline fires.  The HTTP calls of llm
\* and paper searches have timeouts; nothing is assumed of what an agent's
\* processes, or the resolver behind them, answer.
TextFairness ==
  \A s \in TextSearches :
    /\ WF_allSearchVars(LoopSteps(s) /\ UNCHANGED searchVars)
    /\ WF_allSearchVars(Deadline(s) /\ UNCHANGED searchVars)
    /\ WF_allSearchVars(text[s].kind # "agent" /\ Answers(s) /\ UNCHANGED searchVars)

AllSearchesSpec ==
  AllSearchesInit /\ [][AllSearchesNext]_allSearchVars /\ TextFairness

-----------------------------------------------------------------------------
\* A URL is admitted exactly when a keyword search committed it or a branch of
\* a text search returned with it, and a branch returns everything its pipelines
\* listed: searches and branches that failed or were cancelled before, even
\* while their hits were judged or their papers enriched, leave no trace, and
\* neither failed pipelines nor resolver failures take anything away.  (In scope
\* "all" a branch may have returned although the search was cancelled later.)
AdmissionAccounted ==
  \A u \in Urls :
    store[u].admitted <=>
      \/ \E s \in Searches : search[s] \in {"done", "unwritten"} /\ u \in results[s]
      \/ \E s \in TextSearches, b \in Sides :
           branch[s][b].phase = "returned" /\ u \in UrlsOf(b, AllFound(s, b))
=============================================================================
