---------------------------- MODULE KeywordSearch ----------------------------
(***************************************************************************)
(* keyword_search of orchestrators/search.py: one pipeline per selected    *)
(* provider queries it and stages its hits one after the other, awaiting   *)
(* the judge for each hit that brings a body; when all pipelines have      *)
(* ended, everything staged is committed to the URL store in one step.     *)
(* Searches take no URL lock, so a hit is staged against a store that      *)
(* fetches and other searches change while the judge is awaited.           *)
(*                                                                         *)
(* The web quota a pipeline holds during its query is in CapacityGate.     *)
(***************************************************************************)
EXTENDS UrlStore, Integers, Sequences

CONSTANTS Searches,    \* keyword_search calls
          NProviders,  \* keyword providers, in configuration order
          HitLists     \* the answers a provider may give, sequences of hits

\* A hit has a kind: "ok", "no_abstract" (neither snippet nor title, skipped)
\* or "invalid" (wrong types or a URL normalize_url refuses).
Hits == [url : Urls, raw_content : Bodies, content : Bodies,
         kind : {"ok", "no_abstract", "invalid"}]

ASSUME SearchAssumption == NProviders \in Nat \ {0} /\ HitLists \subseteq Seq(Hits)

VARIABLES
  search,   \* search[s]: the state of the call
  pipe,     \* pipe[s][p]: the pipeline of provider p
  results   \* results[s]: the URLs of the records of s

searchVars == <<search, pipe, results>>

Providers == 1..NProviders

\* phase: "none" (not selected), "query", "judge" (of Head(hits)), "staged"
\* (returned its list) or "failed" (raised).  staged: the hits gone through so
\* far, among them the ones without an abstract, which are skipped.
Pipelines ==
  [phase : {"none", "query", "judge", "staged", "failed"},
   hits : Seq(Hits), staged : Seq(Hits), hit_failure : BOOLEAN]

Pipe(ph) == [phase |-> ph, hits |-> <<>>, staged |-> <<>>, hit_failure |-> FALSE]

\* The types; in particular only texts that pass cheap_check are ever vetted.
SearchTypeOK ==
  /\ StoreTypeOK
  /\ search \in [Searches -> {"idle", "running", "done", "unwritten", "failed", "cancelled"}]
  /\ pipe \in [Searches -> [Providers -> Pipelines]]
  /\ results \in [Searches -> SUBSET Urls]

SearchInit ==
  /\ search = [s \in Searches |-> "idle"]
  /\ pipe = [s \in Searches |-> [p \in Providers |-> Pipe("none")]]
  /\ results = [s \in Searches |-> {}]

-----------------------------------------------------------------------------
\* keyword_search with the providers it selects: all of them, or the one the
\* request names.
StartSearch(s, selected) ==
  /\ search[s] = "idle"
  /\ search' = [search EXCEPT ![s] = "running"]
  /\ pipe' = [pipe EXCEPT ![s] = [p \in Providers |->
                IF p \in selected THEN Pipe("query") ELSE Pipe("none")]]
  /\ UNCHANGED <<storeVars, results>>

\* A body of white space is dropped from the hit.
Stripped(body) == IF CheapCheck(body) THEN body ELSE NoText

\* A hit staged without its body, and with it.
Bare(hit) == [hit EXCEPT !.raw_content = NoText, !.content = NoText]

WithBody(hit) ==
  [hit EXCEPT !.raw_content = Stripped(@), !.content = Stripped(@)]

\* What the judge is asked about.
Judged(hit) == FirstNonEmpty(WithBody(hit).content, WithBody(hit).raw_content)

\* _stage_keyword_hit stops at this hit: it is invalid, or it has a body and
\* its URL has not been found unavailable, so the judge is awaited.
StopsAt(hit) ==
  \/ hit.kind = "invalid"
  \/ /\ hit.kind = "ok"
     /\ store[hit.url].available
     /\ Judged(hit) # NoText

\* A hit that is not skipped.
IsKept(hit) == hit.kind = "ok"

\* The pipeline has come to the end of its hits: it fails if judge failures are
\* all it has.
Exhausted(staged, failure) ==
  [phase |-> IF failure /\ \A i \in DOMAIN staged : ~IsKept(staged[i]) THEN "failed" ELSE "staged",
   hits |-> <<>>, staged |-> staged, hit_failure |-> failure]

\* The pipeline runs on from a list of hits to its next suspension: hits that
\* need no judge are staged bare, or skipped.
RunOn(hits, staged, failure) ==
  LET stops == {i \in 1..Len(hits) : StopsAt(hits[i])}
      first == CHOOSE i \in stops : \A j \in stops : i <= j
      Passed(n) == staged \o [i \in 1..n |-> Bare(hits[i])]
  IN
  IF stops = {} THEN Exhausted(Passed(Len(hits)), failure)
  ELSE IF hits[first].kind = "invalid" THEN Pipe("failed")
  ELSE [phase |-> "judge", hits |-> SubSeq(hits, first, Len(hits)),
        staged |-> Passed(first - 1), hit_failure |-> failure]

SetPipe(s, p, new) == pipe' = [pipe EXCEPT ![s][p] = new]

Running(s, p, ph) == search[s] = "running" /\ pipe[s][p].phase = ph

\* provider.search fails, or the result is no list.
QueryFailed(s, p) ==
  /\ Running(s, p, "query")
  /\ SetPipe(s, p, Pipe("failed"))
  /\ UNCHANGED <<storeVars, search, results>>

\* provider.search returns hits.
QueryDone(s, p, hits) ==
  /\ Running(s, p, "query")
  /\ SetPipe(s, p, RunOn(hits, <<>>, FALSE))
  /\ UNCHANGED <<storeVars, search, results>>

\* The judge decides: the hit is staged, with its body only if accepted.
JudgeSays(s, p, ok) ==
  LET hit == Head(pipe[s][p].hits) IN
  /\ Running(s, p, "judge")
  /\ vetted' = IF ok THEN vetted \cup {Judged(hit)} ELSE vetted
  /\ SetPipe(s, p, RunOn(Tail(pipe[s][p].hits),
                         Append(pipe[s][p].staged, IF ok THEN WithBody(hit) ELSE Bare(hit)),
                         pipe[s][p].hit_failure))
  /\ UNCHANGED <<store, search, results>>

\* The judge call fails with an ExecutionFailure: this hit is dropped.
JudgeFailed(s, p) ==
  /\ Running(s, p, "judge")
  /\ SetPipe(s, p, RunOn(Tail(pipe[s][p].hits), pipe[s][p].staged, TRUE))
  /\ UNCHANGED <<storeVars, search, results>>

\* The judge call fails with anything else: the pipeline is given up.
JudgeBroke(s, p) ==
  /\ Running(s, p, "judge")
  /\ SetPipe(s, p, Pipe("failed"))
  /\ UNCHANGED <<storeVars, search, results>>

-----------------------------------------------------------------------------
Ended(s) == \A p \in Providers : pipe[s][p].phase \notin {"query", "judge"}

\* Positions of s's staged hits of URL u.
Staged(s, u) ==
  LET Of(p) == {i \in DOMAIN pipe[s][p].staged :
                  IsKept(pipe[s][p].staged[i]) /\ pipe[s][p].staged[i].url = u}
  IN UNION {{p} \X Of(p) : p \in {q \in Providers : pipe[s][q].phase = "staged"}}

\* Commit order: by provider, then by rank.
Before(d, e) == d[1] < e[1] \/ (d[1] = e[1] /\ d[2] <= e[2])

\* Among bodies at these positions, the first that is not empty: what the
\* successive admits of one commit leave.
FirstStaged(body, D) ==
  LET full == {d \in D : body[d] # NoText} IN
  IF full = {} THEN NoText
  ELSE body[CHOOSE d \in full : \A e \in full : Before(d, e)]

\* The store after every staged hit has been admitted.
Committed(s) ==
  [u \in Urls |->
     LET D == Staged(s, u)
         raw == [d \in D |-> pipe[s][d[1]].staged[d[2]].raw_content]
         clean == [d \in D |-> pipe[s][d[1]].staged[d[2]].content]
     IN
     IF D = {} THEN store[u]
     ELSE AdmittedRecord(store[u], FirstStaged(raw, D), FirstStaged(clean, D))]

\* The coroutines of s are gone.
Gone(s) == pipe' = [pipe EXCEPT ![s] = [p \in Providers |-> Pipe("none")]]

\* Mutant of Commit: records are admitted as pipelines return, before gather
\* has all outcomes.
CommitEarly(s, written) ==
  /\ search[s] = "running"
  /\ store' = Committed(s)
  /\ IF Ended(s)
     THEN /\ search' = [search EXCEPT ![s] = IF written THEN "done" ELSE "unwritten"]
          /\ results' = [results EXCEPT ![s] = {u \in Urls : Staged(s, u) # {}}]
          /\ Gone(s)
     ELSE UNCHANGED <<search, results, pipe>>
  /\ UNCHANGED vetted

\* gather has all outcomes: fail if no pipeline returned a list, and else
\* admit everything staged, in order, and write the records; the write may
\* fail, after the admissions.
Commit(s, written) ==
  /\ search[s] = "running"
  /\ Ended(s)
  /\ IF \A p \in Providers : pipe[s][p].phase # "staged"
     THEN /\ search' = [search EXCEPT ![s] = "failed"]
          /\ UNCHANGED <<store, results>>
     ELSE /\ search' = [search EXCEPT ![s] = IF written THEN "done" ELSE "unwritten"]
          /\ store' = Committed(s)
          /\ results' = [results EXCEPT ![s] = {u \in Urls : Staged(s, u) # {}}]
  /\ Gone(s)
  /\ UNCHANGED vetted

\* The call is cancelled before its commit: gather cancels the pipelines and
\* what they had staged is dropped.
CancelSearch(s) ==
  /\ search[s] = "running"
  /\ search' = [search EXCEPT ![s] = "cancelled"]
  /\ Gone(s)
  /\ UNCHANGED <<storeVars, results>>

\* The pipelines of s that some awaited call has made ready run, and so does
\* the commit.
SearchProgress(s) ==
  \/ \E p \in Providers :
       \/ QueryFailed(s, p)
       \/ \E hits \in HitLists : QueryDone(s, p, hits)
       \/ \E ok \in StageDecisions : JudgeSays(s, p, ok)
       \/ JudgeFailed(s, p)
       \/ JudgeBroke(s, p)
  \/ \E written \in BOOLEAN : Commit(s, written)

Selections == {Providers} \cup {{p} : p \in Providers}

SearchNext ==
  \E s \in Searches :
    \/ \E selected \in Selections : StartSearch(s, selected)
    \/ SearchProgress(s)
    \/ CancelSearch(s)

Init == StoreInit /\ SearchInit

vars == <<storeVars, searchVars>>

Spec == Init /\ [][SearchNext]_vars

-----------------------------------------------------------------------------
\* The error-handling document: a URL in the store was emitted in a search
\* result file.
AdmittedWasEmitted ==
  \A u \in Urls :
    store[u].admitted => \E s \in Searches : search[s] = "done" /\ u \in results[s]
=============================================================================
