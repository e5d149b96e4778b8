----------------------------- MODULE TextSearch -----------------------------
(***************************************************************************)
(* llm_search, agent_search (orchestrators/search.py) and paper_search     *)
(* (orchestrators/paper.py).  A search has a web branch, a paper branch or *)
(* both; a branch gathers one pipeline per selected invocation, and the    *)
(* paper branch then awaits the open-access resolver for each DOI.  A      *)
(* branch admits its URLs in the step in which it returns.  In scope "all" *)
(* the branches are tasks of their own and the search goes on when both    *)
(* have ended; in the other scopes the branch runs in the search's task.   *)
(*                                                                         *)
(* A paper stands for what PaperAggregator makes of the hits about it; the *)
(* quotas the pipelines hold are in CapacityGate.                          *)
(***************************************************************************)
EXTENDS UrlStore, Integers, Sequences

CONSTANTS TextSearches,
          Config,       \* Config[kind]: sequence of [provider, model]
          Names,        \* provider and model names
          BlankName, NoName,
          Papers, NoDoi,
          PaperUrl,     \* PaperUrl[p]: the landing page of p
          PaperDoi,     \* PaperDoi[p]: its DOI or NoDoi
          WebReplies,   \* answers: sequences of [url, form]
          PaperReplies, \* answers: sequences of [paper, form]
          HasResolver   \* an OA resolver is configured

Kinds == {"llm", "agent", "paper"}

Invs == UNION {DOMAIN Config[k] : k \in Kinds}

ASSUME TextAssumptions ==
  /\ Config \in [Kinds -> Seq([provider : Names, model : Names \cup {NoName}])]
  /\ WebReplies \subseteq Seq([url : Urls, form : {"ok", "no_abstract", "bad"}])
  /\ PaperReplies \subseteq Seq([paper : Papers, form : {"ok", "bad"}])
  /\ PaperUrl \in [Papers -> Urls]

VARIABLES
  text,     \* text[s]: [phase, kind, scope, cause]
  branch    \* branch[s][b]: the branch of s over "web" or "paper"

textVars == <<text, branch>>

Sides == {"web", "paper"}

Scopes == {"web", "paper", "all"}

TextEnded == {"done", "unwritten", "failed", "timeout", "cancelled", "rejected"}

\* cause: why the search's task was cancelled.
SearchStates ==
  [phase : {"idle", "running"} \cup TextEnded, kind : Kinds, scope : Scopes,
   cause : {"none", "deadline", "caller"}]

\* phase "none": the branch is not in the scope.  found[i]: what invocation i
\* listed; records: what the branch returns (URLs or papers); todo: DOIs the
\* resolver has not been asked about.
Branches ==
  [phase : {"none", "gather", "enrich", "returned", "failed", "cancelled"},
   pipe : [Invs -> {"none", "running", "listed", "failed", "cancelled"}],
   found : [Invs -> SUBSET (Urls \cup Papers)],
   records : SUBSET (Urls \cup Papers),
   todo : SUBSET ({PaperDoi[p] : p \in Papers} \ {NoDoi})]

\* The types; in particular the resolver is only asked about DOIs.
TextTypeOK ==
  /\ StoreTypeOK
  /\ text \in [TextSearches -> SearchStates]
  /\ branch \in [TextSearches -> [Sides -> Branches]]

NoBranch ==
  [phase |-> "none", pipe |-> [i \in Invs |-> "none"],
   found |-> [i \in Invs |-> {}], records |-> {}, todo |-> {}]

TextInit ==
  /\ text = [s \in TextSearches |->
               [phase |-> "idle", kind |-> "llm", scope |-> "web", cause |-> "none"]]
  /\ branch = [s \in TextSearches |-> [b \in Sides |-> NoBranch]]

InScope(s, b) == text[s].scope \in {b, "all"}

-----------------------------------------------------------------------------
\* _select_text_invocations: the configured invocations with the asked provider
\* and model, if asked.  paper_search selects by provider alone.
Selected(kind, provider, model) ==
  {i \in DOMAIN Config[kind] :
     /\ provider \in {NoName, Config[kind][i].provider}
     /\ model \in {NoName, Config[kind][i].model}}

\* The request is refused when no invocation is selected (none is configured,
\* the name is blank, or nothing matches); otherwise the branches start.
StartText(s, kind, scope, sel) ==
  /\ text[s].phase = "idle"
  /\ text' = [text EXCEPT ![s] = [phase |-> IF sel = {} THEN "rejected" ELSE "running",
                                  kind |-> kind, scope |-> scope, cause |-> "none"]]
  /\ branch' = [branch EXCEPT ![s] = [b \in Sides |->
       IF sel # {} /\ scope \in {b, "all"}
       THEN [NoBranch EXCEPT !.phase = "gather",
                             !.pipe = [i \in Invs |-> IF i \in sel THEN "running" ELSE "none"]]
       ELSE NoBranch]]
  /\ UNCHANGED storeVars

LlmSearch(s, scope, provider, model) ==
  StartText(s, "llm", scope, Selected("llm", provider, model))

AgentSearch(s, scope, provider, model) ==
  StartText(s, "agent", scope, Selected("agent", provider, model))

PaperSearch(s, provider) == StartText(s, "paper", "paper", Selected("paper", provider, NoName))

-----------------------------------------------------------------------------
\* parse_search_markdown: no block, or one that is malformed or whose URL is
\* empty or invalid, fails the whole answer; blocks with no abstract are left
\* out.
ParsesWeb(reply) == reply # <<>> /\ \A n \in DOMAIN reply : reply[n].form # "bad"

WebFound(reply) ==
  {reply[n].url : n \in {m \in DOMAIN reply : reply[m].form = "ok"}}

\* parse_paper_markdown: one or more blocks of the exact grammar, or nothing.
ParsesPaper(reply) == reply # <<>> /\ \A n \in DOMAIN reply : reply[n].form = "ok"

PaperFound(reply) == {reply[n].paper : n \in DOMAIN reply}

\* No CancelledError is under way to the tasks of s.
Undisturbed(s) == text[s].cause = "none"

PipeRuns(s, b, i) == branch[s][b].pipe[i] = "running"

EndPipe(s, b, i, how, found) ==
  /\ PipeRuns(s, b, i)
  /\ branch' = [branch EXCEPT ![s][b] =
                  [branch[s][b] EXCEPT !.pipe[i] = how, !.found[i] = found]]
  /\ UNCHANGED <<storeVars, text>>

\* generate, or provider.search, raises: the pipeline fails.
PipeFails(s, b, i) == Undisturbed(s) /\ EndPipe(s, b, i, "failed", {})

\* _run_text_web_pipeline has its markdown.
WebReplied(s, i, reply) ==
  /\ Undisturbed(s)
  /\ IF ParsesWeb(reply) THEN EndPipe(s, "web", i, "listed", WebFound(reply))
     ELSE EndPipe(s, "web", i, "failed", {})

\* _run_text_paper_pipeline has its markdown.
PaperReplied(s, i, reply) ==
  /\ Undisturbed(s) /\ text[s].kind # "paper"
  /\ IF ParsesPaper(reply) THEN EndPipe(s, "paper", i, "listed", PaperFound(reply))
     ELSE EndPipe(s, "paper", i, "failed", {})

\* _run_provider: an academic provider returns a list, maybe empty, of hits or
\* of something that is no hit.
HitsReturned(s, i, reply) ==
  /\ Undisturbed(s) /\ text[s].kind = "paper"
  /\ IF \A n \in DOMAIN reply : reply[n].form = "ok"
     THEN EndPipe(s, "paper", i, "listed", PaperFound(reply))
     ELSE EndPipe(s, "paper", i, "failed", {})

\* A pipeline of a cancelled search unwinds; its cleanup may take a while and
\* may itself fail, but it no longer lists anything.
PipeUnwinds(s, b, i, how) == ~Undisturbed(s) /\ EndPipe(s, b, i, how, {})

-----------------------------------------------------------------------------
PipesEnded(s, b) == \A i \in Invs : ~PipeRuns(s, b, i)

Listed(s, b) == {i \in Invs : branch[s][b].pipe[i] = "listed"}

AllFound(s, b) == UNION {branch[s][b].found[i] : i \in Listed(s, b)}

UrlsOf(b, items) == IF b = "web" THEN items ELSE {PaperUrl[p] : p \in items}

\* Without a task of its own the branch ends the search in the same step.
AfterBranch(s, phase) ==
  text' = IF text[s].scope = "all" THEN text ELSE [text EXCEPT ![s].phase = phase]

\* The branch admits what it found and returns it; outside scope "all" the
\* result file is written next, which may fail.
Return(s, b, items, written) ==
  /\ branch' = [branch EXCEPT ![s][b] =
                  [branch[s][b] EXCEPT !.phase = "returned", !.records = items]]
  /\ AdmitBare(UrlsOf(b, items))
  /\ AfterBranch(s, IF written THEN "done" ELSE "unwritten")

\* gather has all outcomes; with no list among them the branch fails.
Gathered(s, b) == branch[s][b].phase = "gather" /\ PipesEnded(s, b) /\ Undisturbed(s)

BranchFails(s, b) ==
  /\ Gathered(s, b) /\ Listed(s, b) = {}
  /\ branch' = [branch EXCEPT ![s][b].phase = "failed"]
  /\ AfterBranch(s, "failed")
  /\ UNCHANGED storeVars

\* _text_web_records after its gather.
WebReturns(s, written) ==
  /\ Gathered(s, "web") /\ Listed(s, "web") # {}
  /\ Return(s, "web", AllFound(s, "web"), written)

\* The DOIs that enrich_paper_records asks the resolver about, once each.
DoisOf(items) ==
  IF HasResolver THEN {PaperDoi[p] : p \in items} \ {NoDoi} ELSE {}

\* finalize_paper_hits suspends in the resolver.
Enrich(s, items) ==
  /\ branch' = [branch EXCEPT ![s]["paper"] =
                  [branch[s]["paper"] EXCEPT !.phase = "enrich", !.records = items,
                                             !.todo = DoisOf(items)]]
  /\ UNCHANGED <<storeVars, text>>

\* _text_paper_records, and paper_search, after their gather: the hits are
\* aggregated and, with no DOI to resolve, returned.
PapersGathered(s, written) ==
  LET items == AllFound(s, "paper") IN
  /\ Gathered(s, "paper") /\ Listed(s, "paper") # {}
  /\ IF DoisOf(items) # {} THEN Enrich(s, items) ELSE Return(s, "paper", items, written)

\* resolver.resolve answers or fails for one DOI: _apply_resolution fills in
\* missing access data and a resolver that fails has nothing to say, so the
\* records stay.  After the last DOI the landing pages are admitted and the
\* branch returns.
Resolved(s, doi, written) ==
  /\ branch[s]["paper"].phase = "enrich" /\ Undisturbed(s)
  /\ doi \in branch[s]["paper"].todo
  /\ IF branch[s]["paper"].todo = {doi}
     THEN Return(s, "paper", branch[s]["paper"].records, written)
     ELSE /\ branch' = [branch EXCEPT ![s]["paper"].todo = @ \ {doi}]
          /\ UNCHANGED <<storeVars, text>>

-----------------------------------------------------------------------------
BranchEnded(s, b) == branch[s][b].phase \notin {"gather", "enrich"}

\* Mutant of BranchesEnded: the first branch to end decides.
SomeBranchEnded(s) == \E b \in Sides : InScope(s, b) /\ BranchEnded(s, b)

\* The gather of _text_search has both outcomes.
BranchesEnded(s) == \A b \in Sides : BranchEnded(s, b)

\* _text_search in scope "all" when both branches have ended: fail if both
\* failed, else write the records of those that returned.
SearchResumes(s, written) ==
  /\ text[s].phase = "running" /\ text[s].scope = "all"
  /\ Undisturbed(s) /\ BranchesEnded(s)
  /\ text' = [text EXCEPT ![s].phase =
       IF \A b \in Sides : branch[s][b].phase # "returned" THEN "failed"
       ELSE IF written THEN "done" ELSE "unwritten"]
  /\ UNCHANGED <<storeVars, branch>>

\* Mutant of Deadline: an enrichment is not interrupted.
DeadlineLate(s) ==
  /\ text[s].phase = "running" /\ text[s].kind = "agent" /\ text[s].cause = "none"
  /\ branch[s]["paper"].phase # "enrich"
  /\ text' = [text EXCEPT ![s].cause = "deadline"]
  /\ UNCHANGED <<storeVars, branch>>

\* asyncio.timeout of agent_search expires: the task, and through its gathers
\* every branch and pipeline, is cancelled.
Deadline(s) ==
  /\ text[s].phase = "running" /\ text[s].kind = "agent" /\ text[s].cause = "none"
  /\ text' = [text EXCEPT ![s].cause = "deadline"]
  /\ UNCHANGED <<storeVars, branch>>

\* The daemon cancels the workflow; this also wins over an expired deadline.
CancelText(s) ==
  /\ text[s].phase = "running" /\ text[s].cause # "caller"
  /\ text' = [text EXCEPT ![s].cause = "caller"]
  /\ UNCHANGED <<storeVars, branch>>

\* CancelledError reaches a branch that has not ended, once its gather has
\* seen the end of every pipeline.
BranchUnwinds(s, b) ==
  /\ ~Undisturbed(s) /\ ~BranchEnded(s, b) /\ PipesEnded(s, b)
  /\ branch' = [branch EXCEPT ![s][b].phase = "cancelled"]
  /\ UNCHANGED <<storeVars, text>>

\* ... and then the search's task; only an expired deadline is a failure.
SearchUnwinds(s) ==
  /\ text[s].phase = "running" /\ ~Undisturbed(s) /\ BranchesEnded(s)
  /\ text' = [text EXCEPT ![s].phase =
                IF text[s].cause = "deadline" THEN "timeout" ELSE "cancelled"]
  /\ UNCHANGED <<storeVars, branch>>

\* Awaited answers: HTTP calls and agent processes.
Answers(s) ==
  \/ \E b \in Sides, i \in Invs : PipeFails(s, b, i)
  \/ \E i \in Invs, reply \in WebReplies : WebReplied(s, i, reply)
  \/ \E i \in Invs, reply \in PaperReplies : PaperReplied(s, i, reply) \/ HitsReturned(s, i, reply)
  \/ \E p \in Papers, written \in BOOLEAN : Resolved(s, PaperDoi[p], written)

\* Steps of the event loop once what a task awaits is there, and unwinding.
LoopSteps(s) ==
  \/ \E b \in Sides : BranchFails(s, b) \/ BranchUnwinds(s, b)
  \/ \E b \in Sides, i \in Invs, how \in {"failed", "cancelled"} : PipeUnwinds(s, b, i, how)
  \/ \E written \in BOOLEAN :
       WebReturns(s, written) \/ PapersGathered(s, written) \/ SearchResumes(s, written)
  \/ SearchUnwinds(s)

Asked == Names \cup {BlankName, NoName}

TextNext ==
  \E s \in TextSearches :
    \/ \E scope \in Scopes, provider, model \in Asked :
         LlmSearch(s, scope, provider, model) \/ AgentSearch(s, scope, provider, model)
    \/ \E provider \in Asked : PaperSearch(s, provider)
    \/ Answers(s)
    \/ LoopSteps(s)
    \/ Deadline(s)
    \/ CancelText(s)

-----------------------------------------------------------------------------
\* A search succeeds only if no deadline and no cancellation hit it and some
\* branch returned; it fails only if every branch of its scope failed; only an
\* agent search times out.  A deadline never turns a branch that has returned
\* into a partial success.  However it ends, it leaves no pipeline, and so no
\* agent process or quota, and no enrichment behind.
RepliesJustified ==
  \A s \in TextSearches :
    /\ text[s].phase \in {"done", "unwritten"} =>
         /\ text[s].cause = "none"
         /\ \E b \in Sides : branch[s][b].phase = "returned"
    /\ text[s].phase = "failed" =>
         \A b \in Sides : InScope(s, b) => branch[s][b].phase = "failed"
    /\ text[s].phase = "timeout" => text[s].kind = "agent"
    /\ text[s].phase \in TextEnded =>
         \A b \in Sides : PipesEnded(s, b) /\ BranchEnded(s, b)

\* Every search ends, an agent search even if its agents never answer.
TextSearchesEnd ==
  \A s \in TextSearches : text[s].phase = "running" ~> text[s].phase \in TextEnded
=============================================================================
