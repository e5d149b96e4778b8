---------------------------- MODULE SearchProofs ----------------------------
(***************************************************************************)
(* The searches of one daemon, for any searches, providers, configured     *)
(* invocations and answers, and then the aggregation of papers, for any    *)
(* hits.                                                                   *)
(***************************************************************************)
EXTENDS AllSearches, PaperAggregator, FiniteSetTheorems, FunctionTheorems,
        WellFoundedInduction, TLAPS

-----------------------------------------------------------------------------
(* The inductive invariant. *)

\* What the pipelines of a branch have listed.
FoundIn(br) == UNION {br.found[i] : i \in {j \in Invs : br.pipe[j] = "listed"}}

\* The state t of a search and its branches B go together: only a branch that
\* gathers has pipelines, only a cancelled search has cancelled branches, exactly
\* the branches in the scope have started, the paper branch lists papers, an
\* enrichment keeps what was found, and a search ends after its branches, as they
\* did.
Sound(t, B) ==
  /\ \A b \in Sides :
       /\ B[b].phase # "gather" => \A i \in Invs : B[b].pipe[i] # "running"
       /\ B[b].phase = "cancelled" => t.cause # "none"
       /\ B[b].phase # "none" <=> t.phase \notin {"idle", "rejected"} /\ t.scope \in {b, "all"}
       /\ t.phase \in TextEnded => B[b].phase \notin {"gather", "enrich"}
       /\ t.phase = "failed" /\ t.scope \in {b, "all"} => B[b].phase = "failed"
  /\ \A i \in Invs : B["paper"].found[i] \subseteq Papers
  /\ B["paper"].phase = "enrich" => B["paper"].records = FoundIn(B["paper"])
  /\ t.cause = "deadline" \/ t.phase = "timeout" => t.kind = "agent"
  /\ t.phase \in {"done", "unwritten"} =>
       t.cause = "none" /\ \E b \in Sides : B[b].phase = "returned"

\* u is among what the branches B have returned.
ReturnedBy(B, u) ==
  \E b \in Sides : B[b].phase = "returned" /\ u \in UrlsOf(b, FoundIn(B[b]))

\* u is among what keyword search s has committed.
CommittedBy(s, u) == search[s] \in {"done", "unwritten"} /\ u \in results[s]

\* The types that the argument needs: of the store, that its records have their
\* fields.
ShapeOK ==
  /\ text \in [TextSearches -> SearchStates]
  /\ branch \in [TextSearches -> [Sides -> Branches]]
  /\ search \in [Searches -> {"idle", "running", "done", "unwritten", "failed", "cancelled"}]
  /\ results \in [Searches -> SUBSET Urls]
  /\ \A u \in Urls : DOMAIN store[u] = {"admitted", "raw_content", "content", "available"}
  /\ \A u \in Urls : store[u].admitted \in BOOLEAN

\* The inductive invariant of the searches.
SearchesInv ==
  /\ ShapeOK
  /\ \A s \in TextSearches : Sound(text[s], branch[s])
  /\ AdmissionAccounted

\* Nothing has been asked for or found.
LEMMA SearchesInitial == AllSearchesInit => SearchesInv
<1> SUFFICES ASSUME AllSearchesInit PROVE SearchesInv
  OBVIOUS
<1> USE DEF AllSearchesInit
<1>1. NoBranch \in Branches /\ NoBranch.phase = "none" /\ \A i \in Invs : NoBranch.pipe[i] = "none" /\ NoBranch.found[i] = {}
  BY DEF NoBranch, Branches
<1> DEFINE idle == [phase |-> "idle", kind |-> "llm", scope |-> "web", cause |-> "none"]
<1>2. idle \in SearchStates /\ idle.phase = "idle" /\ idle.cause = "none"
  BY DEF SearchStates, Kinds, Scopes
<1>3. \A s \in TextSearches : /\ text[s] = idle
                              /\ \A b \in Sides : branch[s][b] = NoBranch
  BY DEF TextInit
<1> HIDE DEF idle
<1>4. \A u \in Urls : /\ DOMAIN store[u] = {"admitted", "raw_content", "content", "available"}
                      /\ store[u].admitted = FALSE
  BY DEF StoreInit, NoRecord
<1>5. ShapeOK
  <2>1. text \in [TextSearches -> SearchStates] /\ branch \in [TextSearches -> [Sides -> Branches]]
    BY <1>1, <1>2 DEF TextInit, idle
  <2>2. /\ search \in [Searches -> {"idle", "running", "done", "unwritten", "failed", "cancelled"}]
        /\ results \in [Searches -> SUBSET Urls]
    BY DEF SearchInit
  <2>3. QED
    BY <1>4, <2>1, <2>2 DEF ShapeOK
<1>6. ASSUME NEW s \in TextSearches PROVE Sound(text[s], branch[s])
  BY <1>1, <1>2, <1>3 DEF Sound, TextEnded, Sides
<1>7. AdmissionAccounted
  BY <1>1, <1>3, <1>4 DEF AdmissionAccounted, SearchInit
<1>8. QED
  BY <1>5, <1>6, <1>7 DEF SearchesInv

-----------------------------------------------------------------------------
(* The store. *)

\* admit sets the flag and keeps the fields.
LEMMA AdmittedShape ==
  ASSUME NEW record, NEW raw, NEW clean,
         DOMAIN record = {"admitted", "raw_content", "content", "available"}
  PROVE  /\ DOMAIN AdmittedRecord(record, raw, clean) = DOMAIN record
         /\ AdmittedRecord(record, raw, clean).admitted = TRUE
BY DEF AdmittedRecord, MergedBody

\* The URLs that a step adds to the store.
Adds(found) ==
  \A u \in Urls : /\ DOMAIN store'[u] = {"admitted", "raw_content", "content", "available"}
                  /\ store'[u].admitted \in BOOLEAN
                  /\ store'[u].admitted <=> store[u].admitted \/ u \in found

\* admit of URLs without bodies.
LEMMA AdmitBareAdds ==
  ASSUME SearchesInv, NEW found, AdmitBare(found)
  PROVE  Adds(found)
<1> SUFFICES ASSUME NEW u \in Urls
             PROVE  /\ DOMAIN store'[u] = {"admitted", "raw_content", "content", "available"}
                    /\ store'[u].admitted \in BOOLEAN
                    /\ store'[u].admitted <=> store[u].admitted \/ u \in found
  BY DEF Adds
<1>1. /\ DOMAIN store[u] = {"admitted", "raw_content", "content", "available"}
      /\ store[u].admitted \in BOOLEAN
  BY DEF SearchesInv, ShapeOK
<1>2. store'[u] = IF u \in found THEN AdmittedRecord(store[u], NoText, NoText) ELSE store[u]
  BY DEF AdmitBare
<1>3. QED
  BY <1>1, <1>2, AdmittedShape

\* The commit of a keyword search.
LEMMA CommitAdds ==
  ASSUME SearchesInv, NEW s \in Searches, store' = Committed(s)
  PROVE  Adds({u \in Urls : Staged(s, u) # {}})
<1> SUFFICES ASSUME NEW u \in Urls
             PROVE  /\ DOMAIN store'[u] = {"admitted", "raw_content", "content", "available"}
                    /\ store'[u].admitted \in BOOLEAN
                    /\ store'[u].admitted <=> store[u].admitted \/ Staged(s, u) # {}
  BY DEF Adds
<1>1. /\ DOMAIN store[u] = {"admitted", "raw_content", "content", "available"}
      /\ store[u].admitted \in BOOLEAN
  BY DEF SearchesInv, ShapeOK
<1>2. Staged(s, u) = {} => store'[u] = store[u]
  BY DEF Committed
<1>3. Staged(s, u) # {} => \E raw, clean : store'[u] = AdmittedRecord(store[u], raw, clean)
  BY DEF Committed
<1>4. CASE Staged(s, u) # {}
  <2>1. PICK raw, clean : store'[u] = AdmittedRecord(store[u], raw, clean)
    BY <1>3, <1>4
  <2>2. DOMAIN store'[u] = DOMAIN store[u] /\ store'[u].admitted = TRUE
    BY <1>1, <2>1, AdmittedShape
  <2>3. QED
    BY <1>1, <1>4, <2>2
<1>5. QED
  BY <1>1, <1>2, <1>4

\* The store as it was.
LEMMA NothingAdded ==
  ASSUME SearchesInv, store' = store
  PROVE  Adds({})
BY DEF SearchesInv, ShapeOK, Adds

-----------------------------------------------------------------------------
(* Steps of the searches. *)

\* What is admitted, in terms of the parts of the state.
LEMMA AccountedMeans ==
  AdmissionAccounted <=>
    \A u \in Urls :
      store[u].admitted <=> \/ \E s \in Searches : CommittedBy(s, u)
                            \/ \E s \in TextSearches : ReturnedBy(branch[s], u)
BY DEF AdmissionAccounted, CommittedBy, ReturnedBy, AllFound, Listed, FoundIn

\* A step of text search s: its state and branches stay sound, and what it adds to
\* the store is what its branches have returned with.
LEMMA TextStep ==
  ASSUME SearchesInv, NEW s \in TextSearches, NEW t \in SearchStates,
         NEW B \in [Sides -> Branches], NEW found,
         text' = [text EXCEPT ![s] = t], branch' = [branch EXCEPT ![s] = B],
         UNCHANGED searchVars, Adds(found), Sound(t, B),
         \A u \in Urls : ReturnedBy(B, u) <=> ReturnedBy(branch[s], u) \/ u \in found
  PROVE  SearchesInv'
<1>1. ShapeOK
  BY DEF SearchesInv
<1>2. /\ text' \in [TextSearches -> SearchStates] /\ branch' \in [TextSearches -> [Sides -> Branches]]
      /\ text'[s] = t /\ branch'[s] = B
      /\ \A z \in TextSearches \ {s} : text'[z] = text[z] /\ branch'[z] = branch[z]
  BY <1>1 DEF ShapeOK
<1>3. ShapeOK'
  BY <1>1, <1>2 DEF ShapeOK, Adds, searchVars
<1>4. \A z \in TextSearches : Sound(text'[z], branch'[z])
  BY <1>2 DEF SearchesInv
<1>5. ASSUME NEW u \in Urls
      PROVE  store'[u].admitted <=>
               \/ \E z \in Searches : CommittedBy(z, u)
               \/ \E z \in TextSearches : ReturnedBy(branch'[z], u)
  <2>1. store[u].admitted <=> \/ \E z \in Searches : CommittedBy(z, u)
                              \/ \E z \in TextSearches : ReturnedBy(branch[z], u)
    BY AccountedMeans DEF SearchesInv
  <2>2. store'[u].admitted <=> store[u].admitted \/ u \in found
    BY DEF Adds
  <2>3. \A z \in TextSearches \ {s} : ReturnedBy(branch'[z], u) <=> ReturnedBy(branch[z], u)
    BY <1>2
  <2>4. ReturnedBy(branch'[s], u) <=> ReturnedBy(branch[s], u) \/ u \in found
    BY <1>2
  <2>5. QED
    BY <2>1, <2>2, <2>3, <2>4
<1>6. AdmissionAccounted'
  BY <1>5 DEF AdmissionAccounted, CommittedBy, ReturnedBy, AllFound, Listed, FoundIn, searchVars, UrlsOf
<1>7. QED
  BY <1>3, <1>4, <1>6 DEF SearchesInv, Sound, FoundIn

\* What the invariant says of one search.
LEMMA TextTypes ==
  ASSUME SearchesInv, NEW s \in TextSearches
  PROVE  /\ text[s] \in SearchStates /\ branch[s] \in [Sides -> Branches]
         /\ \A b \in Sides : branch[s][b] \in Branches
         /\ text = [text EXCEPT ![s] = text[s]] /\ branch = [branch EXCEPT ![s] = branch[s]]
         /\ Sound(text[s], branch[s])
BY DEF SearchesInv, ShapeOK

\* A step of one pipeline.
LEMMA PipeStep ==
  ASSUME SearchesInv, NEW s \in TextSearches, NEW b \in Sides, NEW i \in Invs,
         NEW how \in {"listed", "failed", "cancelled"},
         NEW found \in SUBSET (IF b = "paper" THEN Papers ELSE Urls \cup Papers),
         EndPipe(s, b, i, how, found), UNCHANGED searchVars
  PROVE  SearchesInv'
<1> DEFINE t == text[s]  B == branch[s]  old == B[b]
           new == [old EXCEPT !.pipe = [old.pipe EXCEPT ![i] = how],
                              !.found = [old.found EXCEPT ![i] = found]]
           C == [B EXCEPT ![b] = new]
<1>1. /\ t \in SearchStates /\ B \in [Sides -> Branches] /\ old \in Branches
      /\ text = [text EXCEPT ![s] = t] /\ Sound(t, B)
  BY TextTypes
<1>2. /\ UNCHANGED storeVars /\ text' = text /\ old.pipe[i] = "running"
      /\ branch' = [branch EXCEPT ![s] = C]
  BY DEF EndPipe, PipeRuns
<1> HIDE DEF t, B
<1>3. /\ new \in Branches /\ new.phase = old.phase
      /\ \A j \in Invs : new.pipe[j] = IF j = i THEN how ELSE old.pipe[j]
      /\ \A j \in Invs : new.found[j] = IF j = i THEN found ELSE old.found[j]
  BY <1>1 DEF Branches
<1> HIDE DEF old, new
<1>4. C \in [Sides -> Branches] /\ C[b] = new /\ \A a \in Sides \ {b} : C[a] = B[a]
  BY <1>1, <1>3
<1>5. old.phase = "gather" /\ B[b] = old
  BY <1>1, <1>2 DEF Sound, old
<1> HIDE DEF C
<1>6. Sound(t, C)
  <2>1. /\ \A a \in Sides : C[a].phase = B[a].phase
        /\ \A a \in Sides : C[a].phase # "gather" => C[a] = B[a]
    BY <1>3, <1>4, <1>5
  <2>2. "paper" \in Sides
    BY DEF Sides
  <2>3. QED
    <3>1. \A j \in Invs : C["paper"].found[j] \subseteq Papers
      BY <1>1, <1>3, <1>4, <1>5, <2>2 DEF Sound
    <3>2. QED
      BY <1>1, <2>1, <2>2, <3>1 DEF Sound
<1>7. \A u \in Urls : ReturnedBy(C, u) <=> ReturnedBy(B, u) \/ u \in {}
  BY <1>3, <1>4, <1>5 DEF ReturnedBy
<1>8. Adds({})
  BY <1>2, NothingAdded DEF storeVars
<1>9. QED
  BY <1>1, <1>2, <1>4, <1>6, <1>7, <1>8, TextStep DEF t, B

\* A branch moves on to a phase without pipelines.
LEMMA BranchStep ==
  ASSUME SearchesInv, NEW s \in TextSearches, NEW b \in Sides, NEW new \in Branches,
         NEW t \in SearchStates, NEW found,
         branch' = [branch EXCEPT ![s] = [branch[s] EXCEPT ![b] = new]],
         text' = [text EXCEPT ![s] = t], UNCHANGED searchVars, Adds(found),
         branch[s][b].phase \in {"gather", "enrich"}, PipesEnded(s, b),
         new.phase \notin {"none", "gather"},
         new.pipe = branch[s][b].pipe, new.found = branch[s][b].found,
         new.phase = "enrich" =>
           /\ t = text[s] /\ found = {}
           /\ b = "paper" => new.records = FoundIn(branch[s][b]),
         new.phase = "cancelled" => t = text[s] /\ text[s].cause # "none" /\ found = {},
         new.phase = "failed" => found = {},
         new.phase = "returned" =>
           \A u \in Urls : u \in found <=> u \in UrlsOf(b, FoundIn(branch[s][b])),
         \/ t = text[s]
         \/ /\ text[s].scope # "all" /\ text[s].cause = "none"
            /\ t = [text[s] EXCEPT !.phase = t.phase]
            /\ \/ new.phase = "failed" /\ t.phase = "failed"
               \/ new.phase = "returned" /\ t.phase \in {"done", "unwritten"}
  PROVE  SearchesInv'
<1> DEFINE o == text[s]  B == branch[s]  old == B[b]  C == [B EXCEPT ![b] = new]
<1>1. o \in SearchStates /\ B \in [Sides -> Branches] /\ old \in Branches /\ Sound(o, B)
  BY TextTypes
<1>2. C \in [Sides -> Branches] /\ C[b] = new /\ \A a \in Sides \ {b} : C[a] = B[a]
  BY <1>1
<1>3. \A i \in Invs : new.pipe[i] # "running"
  BY DEF PipesEnded, PipeRuns
<1>4. FoundIn(new) = FoundIn(old)
  BY DEF FoundIn
<1>5. /\ t.kind = o.kind /\ t.scope = o.scope /\ t.cause = o.cause
      /\ t.phase # o.phase => o.scope # "all" /\ o.cause = "none"
  BY <1>1 DEF SearchStates
<1>6. /\ o.phase = "running" /\ o.scope \in {b, "all"}
      /\ \A a \in Sides \ {b} : o.scope # "all" => B[a].phase = "none"
  BY <1>1 DEF Sound, SearchStates, TextEnded, Sides, Scopes
<1>7. t.phase \in {"running", "failed", "done", "unwritten"}
  BY <1>6
<1>8. Sound(t, C)
  <2>1. ASSUME NEW a \in Sides
        PROVE  /\ C[a].phase # "gather" => \A i \in Invs : C[a].pipe[i] # "running"
               /\ C[a].phase = "cancelled" => t.cause # "none"
               /\ C[a].phase # "none" <=> t.phase \notin {"idle", "rejected"} /\ t.scope \in {a, "all"}
               /\ t.phase \in TextEnded => C[a].phase \notin {"gather", "enrich"}
               /\ t.phase = "failed" /\ t.scope \in {a, "all"} => C[a].phase = "failed"
    <3>1. CASE a = b
      BY <1>2, <1>3, <1>5, <1>6, <1>7, <3>1 DEF TextEnded
    <3>2. CASE a # b
      <4>1. C[a] = B[a]
        BY <1>2, <3>2
      <4>2. t.phase \in TextEnded => o.scope # "all" /\ B[a].phase = "none"
        BY <1>6, <3>2 DEF TextEnded
      <4>3. QED
        BY <1>1, <1>5, <1>6, <1>7, <3>2, <4>1, <4>2 DEF Sound, TextEnded
    <3>3. QED
      BY <3>1, <3>2
  <2>2. C["paper"].phase = "enrich" => C["paper"].records = FoundIn(C["paper"])
    <3>1. CASE b = "paper"
      BY <1>2, <1>4, <3>1
    <3>2. CASE b # "paper"
      <4>1. C["paper"] = B["paper"]
        BY <1>2, <3>2 DEF Sides
      <4>2. QED
        BY <1>1, <4>1 DEF Sound
    <3>3. QED
      BY <3>1, <3>2
  <2>3. t.cause = "deadline" \/ t.phase = "timeout" => t.kind = "agent"
    BY <1>1, <1>5, <1>7 DEF Sound
  <2>4. t.phase \in {"done", "unwritten"} => t.cause = "none" /\ C[b].phase = "returned"
    BY <1>2, <1>5, <1>6
  <2>5. \A i \in Invs : C["paper"].found[i] \subseteq Papers
    BY <1>1, <1>2 DEF Sound, Sides
  <2>6. QED
    BY <2>1, <2>2, <2>3, <2>4, <2>5 DEF Sound
<1>9. \A u \in Urls : ReturnedBy(C, u) <=> ReturnedBy(B, u) \/ u \in found
  <2> SUFFICES ASSUME NEW u \in Urls
               PROVE  ReturnedBy(C, u) <=> ReturnedBy(B, u) \/ u \in found
    OBVIOUS
  <2>1. B[b].phase # "returned"
    OBVIOUS
  <2>2. new.phase = "returned" /\ u \in UrlsOf(b, FoundIn(new)) <=> u \in found
    BY <1>4 DEF Branches
  <2>3. QED
    BY <1>2, <2>1, <2>2 DEF ReturnedBy
<1> HIDE DEF C
<1>10. QED
  BY <1>2, <1>8, <1>9, TextStep DEF C

-----------------------------------------------------------------------------
(* The steps of a text search. *)

\* A step that changes only the state of the search.
LEMMA StateStep ==
  ASSUME SearchesInv, NEW s \in TextSearches, NEW t \in SearchStates,
         text' = [text EXCEPT ![s] = t], UNCHANGED <<branch, storeVars, searchVars>>,
         Sound(t, branch[s])
  PROVE  SearchesInv'
<1>1. branch[s] \in [Sides -> Branches] /\ branch' = [branch EXCEPT ![s] = branch[s]]
  BY TextTypes
<1>2. Adds({})
  BY NothingAdded DEF storeVars
<1>3. \A u \in Urls : ReturnedBy(branch[s], u) <=> ReturnedBy(branch[s], u) \/ u \in {}
  OBVIOUS
<1>4. QED
  BY <1>1, <1>2, <1>3, TextStep DEF searchVars

\* A text search begins or is rejected.
LEMMA StartTextStep ==
  ASSUME SearchesInv, NEW s \in TextSearches, NEW kind \in Kinds, NEW scope \in Scopes,
         NEW sel, StartText(s, kind, scope, sel), UNCHANGED searchVars
  PROVE  SearchesInv'
<1> DEFINE t == [phase |-> IF sel = {} THEN "rejected" ELSE "running",
                 kind |-> kind, scope |-> scope, cause |-> "none"]
           started == [NoBranch EXCEPT !.phase = "gather",
                         !.pipe = [i \in Invs |-> IF i \in sel THEN "running" ELSE "none"]]
           B == [b \in Sides |-> IF sel # {} /\ scope \in {b, "all"} THEN started ELSE NoBranch]
<1>1. /\ text[s].phase = "idle" /\ text' = [text EXCEPT ![s] = t]
      /\ branch' = [branch EXCEPT ![s] = B] /\ UNCHANGED storeVars
  BY DEF StartText
<1>2. /\ NoBranch \in Branches /\ NoBranch.phase = "none"
      /\ \A i \in Invs : NoBranch.pipe[i] # "running" /\ NoBranch.found[i] = {}
  BY DEF NoBranch, Branches
<1>3. started \in Branches /\ started.phase = "gather" /\ \A i \in Invs : started.found[i] = {}
  BY DEF NoBranch, Branches
<1>4. t \in SearchStates /\ t.cause = "none" /\ t.scope = scope
      /\ t.phase = IF sel = {} THEN "rejected" ELSE "running"
  BY DEF SearchStates, TextEnded
<1> HIDE DEF t, started
<1>5. /\ B \in [Sides -> Branches]
      /\ \A b \in Sides : B[b] = IF sel # {} /\ scope \in {b, "all"} THEN started ELSE NoBranch
  BY <1>2, <1>3
<1> HIDE DEF B
<1>6. Sound(t, B)
  <2>1. "paper" \in Sides /\ \A b \in Sides : B[b].phase \in {"none", "gather"}
    BY <1>2, <1>3, <1>5 DEF Sides
  <2>2. \A b \in Sides : B[b].phase = "gather" <=> sel # {} /\ scope \in {b, "all"}
    BY <1>2, <1>3, <1>5
  <2>3. \A b \in Sides : B[b].phase # "gather" => \A i \in Invs : B[b].pipe[i] # "running"
    BY <1>2, <1>3, <1>5
  <2>4. \A i \in Invs : B["paper"].found[i] \subseteq Papers
    BY <1>2, <1>3, <1>5, <2>1
  <2>5. QED
    BY <1>4, <2>1, <2>2, <2>3, <2>4 DEF Sound, TextEnded
<1>7. Adds({})
  BY <1>1, NothingAdded DEF storeVars
<1>8. \A b \in Sides : branch[s][b].phase = "none" /\ B[b].phase # "returned"
  BY <1>1, <1>2, <1>3, <1>5, TextTypes DEF Sound
<1>9. \A u \in Urls : ReturnedBy(B, u) <=> ReturnedBy(branch[s], u) \/ u \in {}
  BY <1>8 DEF ReturnedBy
<1>10. QED
  BY <1>1, <1>4, <1>5, <1>6, <1>7, <1>9, TextStep

\* The elements of a sequence.
LEMMA SeqElement ==
  ASSUME NEW S, NEW q \in Seq(S), NEW n \in DOMAIN q
  PROVE  q[n] \in S
OBVIOUS

\* What a reply is parsed to.
LEMMA FoundTypes ==
  /\ \A reply \in WebReplies : WebFound(reply) \in SUBSET Urls
  /\ \A reply \in PaperReplies : PaperFound(reply) \in SUBSET Papers
<1>1. ASSUME NEW reply \in WebReplies PROVE WebFound(reply) \in SUBSET Urls
  <2>1. reply \in Seq([url : Urls, form : {"ok", "no_abstract", "bad"}])
    BY TextAssumptions
  <2>2. \A n \in DOMAIN reply : reply[n] \in [url : Urls, form : {"ok", "no_abstract", "bad"}]
    BY <2>1, SeqElement, Zenon
  <2>3. \A n \in DOMAIN reply : reply[n].url \in Urls
    BY <2>2
  <2>4. QED
    BY <2>3 DEF WebFound
<1>2. ASSUME NEW reply \in PaperReplies PROVE PaperFound(reply) \in SUBSET Papers
  <2>1. reply \in Seq([paper : Papers, form : {"ok", "bad"}])
    BY TextAssumptions
  <2>2. \A n \in DOMAIN reply : reply[n] \in [paper : Papers, form : {"ok", "bad"}]
    BY <2>1, SeqElement, Zenon
  <2>3. \A n \in DOMAIN reply : reply[n].paper \in Papers
    BY <2>2
  <2>4. QED
    BY <2>3 DEF PaperFound
<1>3. QED
  BY <1>1, <1>2

\* A pipeline ends, by its provider's answer or because its search is cancelled.
LEMMA PipesStep ==
  ASSUME SearchesInv, NEW s \in TextSearches, UNCHANGED searchVars,
         \/ \E b \in Sides, i \in Invs : PipeFails(s, b, i)
         \/ \E i \in Invs, reply \in WebReplies : WebReplied(s, i, reply)
         \/ \E i \in Invs, reply \in PaperReplies :
              PaperReplied(s, i, reply) \/ HitsReturned(s, i, reply)
         \/ \E b \in Sides, i \in Invs, how \in {"failed", "cancelled"} : PipeUnwinds(s, b, i, how)
  PROVE  SearchesInv'
<1>1. "web" \in Sides /\ "paper" \in Sides
  BY DEF Sides
<1>2. ASSUME NEW b \in Sides, NEW i \in Invs, PipeFails(s, b, i) PROVE SearchesInv'
  BY <1>1, <1>2, PipeStep DEF PipeFails
<1>3. ASSUME NEW i \in Invs, NEW reply \in WebReplies, WebReplied(s, i, reply) PROVE SearchesInv'
  BY <1>1, <1>3, FoundTypes, PipeStep DEF WebReplied
<1>4. ASSUME NEW i \in Invs, NEW reply \in PaperReplies, PaperReplied(s, i, reply)
      PROVE  SearchesInv'
  BY <1>1, <1>4, FoundTypes, PipeStep DEF PaperReplied
<1>5. ASSUME NEW i \in Invs, NEW reply \in PaperReplies, HitsReturned(s, i, reply)
      PROVE  SearchesInv'
  BY <1>1, <1>5, FoundTypes, PipeStep DEF HitsReturned
<1>6. ASSUME NEW b \in Sides, NEW i \in Invs, NEW how \in {"failed", "cancelled"},
             PipeUnwinds(s, b, i, how)
      PROVE  SearchesInv'
  BY <1>1, <1>6, PipeStep DEF PipeUnwinds
<1>7. QED
  BY <1>2, <1>3, <1>4, <1>5, <1>6

\* Where the search stands after one of its branches has ended.
LEMMA AfterBranchState ==
  ASSUME SearchesInv, NEW s \in TextSearches, NEW phase \in {"done", "unwritten", "failed"},
         AfterBranch(s, phase), branch[s]["web"].phase \in {"gather", "enrich"}
                                  \/ branch[s]["paper"].phase \in {"gather", "enrich"}
  PROVE  \E t \in SearchStates :
           /\ text' = [text EXCEPT ![s] = t]
           /\ \/ t = text[s]
              \/ /\ text[s].scope # "all" /\ t = [text[s] EXCEPT !.phase = t.phase]
                 /\ t.phase = phase
<1>1. text[s] \in SearchStates /\ text = [text EXCEPT ![s] = text[s]]
  BY TextTypes
<1>2. CASE text[s].scope = "all"
  BY <1>1, <1>2 DEF AfterBranch
<1>3. CASE text[s].scope # "all"
  <2> DEFINE t == [text[s] EXCEPT !.phase = phase]
  <2>1. text' = [text EXCEPT ![s] = t]
    BY <1>3 DEF AfterBranch
  <2>2. t \in SearchStates /\ t.phase = phase /\ t = [text[s] EXCEPT !.phase = t.phase]
    BY <1>1 DEF SearchStates, TextEnded
  <2>3. QED
    BY <1>3, <2>1, <2>2
<1>4. QED
  BY <1>2, <1>3

\* The branches that fail.
LEMMA BranchFailsStep ==
  ASSUME SearchesInv, NEW s \in TextSearches, NEW b \in Sides,
         BranchFails(s, b), UNCHANGED searchVars
  PROVE  SearchesInv'
<1> DEFINE new == [branch[s][b] EXCEPT !.phase = "failed"]
<1>1. branch[s][b] \in Branches /\ branch[s] \in [Sides -> Branches]
  BY TextTypes
<1>2. /\ branch[s][b].phase = "gather" /\ PipesEnded(s, b) /\ text[s].cause = "none"
      /\ AfterBranch(s, "failed") /\ UNCHANGED storeVars
      /\ branch' = [branch EXCEPT ![s] = [branch[s] EXCEPT ![b] = new]]
  BY DEF BranchFails, Gathered, Undisturbed
<1>3. /\ new \in Branches /\ new.phase = "failed"
      /\ new.pipe = branch[s][b].pipe /\ new.found = branch[s][b].found
  BY <1>1 DEF Branches
<1> HIDE DEF new
<1>4. PICK t \in SearchStates :
        /\ text' = [text EXCEPT ![s] = t]
        /\ \/ t = text[s]
           \/ /\ text[s].scope # "all" /\ t = [text[s] EXCEPT !.phase = t.phase]
              /\ t.phase = "failed"
  BY <1>2, AfterBranchState DEF Sides
<1>5. Adds({})
  BY <1>2, NothingAdded DEF storeVars
<1>6. QED
  BY <1>2, <1>3, <1>4, <1>5, BranchStep

\* The branches that return with all that their pipelines have listed.
LEMMA ReturnStep ==
  ASSUME SearchesInv, NEW s \in TextSearches, NEW b \in Sides, NEW written \in BOOLEAN,
         NEW items, items = FoundIn(branch[s][b]),
         branch[s][b].phase \in {"gather", "enrich"}, PipesEnded(s, b), Undisturbed(s),
         Return(s, b, items, written), UNCHANGED searchVars
  PROVE  SearchesInv'
<1> DEFINE new == [branch[s][b] EXCEPT !.phase = "returned", !.records = items]
           phase == IF written THEN "done" ELSE "unwritten"
<1>1. branch[s][b] \in Branches /\ branch[s] \in [Sides -> Branches]
  BY TextTypes
<1>2. /\ branch' = [branch EXCEPT ![s] = [branch[s] EXCEPT ![b] = new]]
      /\ AdmitBare(UrlsOf(b, items)) /\ AfterBranch(s, phase)
  BY DEF Return
<1>3. items \in SUBSET (Urls \cup Papers)
  BY <1>1 DEF FoundIn, Branches
<1>4. /\ new \in Branches /\ new.phase = "returned"
      /\ new.pipe = branch[s][b].pipe /\ new.found = branch[s][b].found
  BY <1>1, <1>3 DEF Branches
<1> HIDE DEF new
<1>5. phase \in {"done", "unwritten"}
  OBVIOUS
<1> HIDE DEF phase
<1>6. PICK t \in SearchStates :
        /\ text' = [text EXCEPT ![s] = t]
        /\ \/ t = text[s]
           \/ /\ text[s].scope # "all" /\ t = [text[s] EXCEPT !.phase = t.phase]
              /\ t.phase = phase
  BY <1>2, <1>5, AfterBranchState DEF Sides
<1>7. Adds(UrlsOf(b, items))
  BY <1>2, AdmitBareAdds
<1>8. text[s].cause = "none"
  BY DEF Undisturbed
<1>9. QED
  BY <1>2, <1>4, <1>5, <1>6, <1>7, <1>8, BranchStep

\* What the pipelines of a branch have listed is what it returns.
LEMMA AllFoundIs == \A s, b : AllFound(s, b) = FoundIn(branch[s][b])
BY DEF AllFound, FoundIn, Listed

\* The web branch has all its pipelines' answers.
LEMMA WebReturnsStep ==
  ASSUME SearchesInv, NEW s \in TextSearches, NEW written \in BOOLEAN,
         WebReturns(s, written), UNCHANGED searchVars
  PROVE  SearchesInv'
<1>1. "web" \in Sides
  BY DEF Sides
<1>2. /\ branch[s]["web"].phase = "gather" /\ PipesEnded(s, "web") /\ Undisturbed(s)
      /\ Return(s, "web", AllFound(s, "web"), written)
  BY DEF WebReturns, Gathered
<1>3. QED
  BY <1>1, <1>2, AllFoundIs, ReturnStep

\* The paper branch starts or goes on with its enrichment.
LEMMA EnrichStep ==
  ASSUME SearchesInv, NEW s \in TextSearches, NEW new \in Branches,
         branch[s]["paper"].phase \in {"gather", "enrich"}, PipesEnded(s, "paper"),
         branch' = [branch EXCEPT ![s] = [branch[s] EXCEPT !["paper"] = new]],
         new.phase = "enrich", new.records = FoundIn(branch[s]["paper"]),
         new.pipe = branch[s]["paper"].pipe, new.found = branch[s]["paper"].found,
         UNCHANGED <<storeVars, text, searchVars>>
  PROVE  SearchesInv'
<1>1. text[s] \in SearchStates /\ text' = [text EXCEPT ![s] = text[s]] /\ "paper" \in Sides
  BY TextTypes DEF Sides
<1>2. Adds({})
  BY NothingAdded DEF storeVars
<1>3. QED
  BY <1>1, <1>2, BranchStep DEF searchVars

\* The paper branch has all its pipelines' answers.
LEMMA PapersGatheredStep ==
  ASSUME SearchesInv, NEW s \in TextSearches, NEW written \in BOOLEAN,
         PapersGathered(s, written), UNCHANGED searchVars
  PROVE  SearchesInv'
<1> DEFINE items == AllFound(s, "paper")
           new == [branch[s]["paper"] EXCEPT !.phase = "enrich", !.records = items,
                                             !.todo = DoisOf(items)]
<1>1. /\ "paper" \in Sides /\ branch[s]["paper"] \in Branches
      /\ branch[s] \in [Sides -> Branches]
  BY TextTypes DEF Sides
<1>2. items = FoundIn(branch[s]["paper"])
  BY AllFoundIs
<1>3. branch[s]["paper"].phase = "gather" /\ PipesEnded(s, "paper") /\ Undisturbed(s)
  BY DEF PapersGathered, Gathered
<1>4. CASE Return(s, "paper", items, written)
  BY <1>1, <1>2, <1>3, <1>4, ReturnStep
<1>5. CASE Enrich(s, items) /\ DoisOf(items) # {}
  <2>1. items \in SUBSET (Urls \cup Papers)
    BY <1>1, <1>2 DEF FoundIn, Branches
  <2>2. DoisOf(items) \in SUBSET ({PaperDoi[p] : p \in Papers} \ {NoDoi})
    <3>1. items \subseteq Papers
      BY <1>2, TextTypes DEF FoundIn, Sound
    <3>2. QED
      BY <3>1 DEF DoisOf
  <2>3. branch' = [branch EXCEPT ![s] = [branch[s] EXCEPT !["paper"] = new]]
    BY <1>5 DEF Enrich
  <2>4. /\ new \in Branches /\ new.phase = "enrich" /\ new.records = items
        /\ new.pipe = branch[s]["paper"].pipe /\ new.found = branch[s]["paper"].found
    BY <1>1, <2>1, <2>2 DEF Branches
  <2> HIDE DEF new
  <2>5. QED
    BY <1>2, <1>3, <1>5, <2>3, <2>4, EnrichStep DEF Enrich
<1>6. QED
  BY <1>4, <1>5 DEF PapersGathered

\* The resolver has answered.
LEMMA ResolvedStep ==
  ASSUME SearchesInv, NEW s \in TextSearches, NEW doi, NEW written \in BOOLEAN,
         Resolved(s, doi, written), UNCHANGED searchVars
  PROVE  SearchesInv'
<1> DEFINE old == branch[s]["paper"]
           new == [old EXCEPT !.todo = old.todo \ {doi}]
<1>1. "paper" \in Sides /\ old \in Branches /\ branch[s] \in [Sides -> Branches]
  BY TextTypes DEF Sides
<1>2. old.phase = "enrich" /\ Undisturbed(s)
  BY DEF Resolved
<1>3. old.records = FoundIn(old) /\ \A i \in Invs : old.pipe[i] # "running"
  BY <1>1, <1>2, TextTypes DEF Sound
<1>4. PipesEnded(s, "paper")
  BY <1>3 DEF PipesEnded, PipeRuns
<1>5. CASE Return(s, "paper", old.records, written)
  BY <1>1, <1>2, <1>3, <1>4, <1>5, ReturnStep
<1>6. CASE /\ branch' = [branch EXCEPT ![s]["paper"].todo = old.todo \ {doi}]
           /\ UNCHANGED <<storeVars, text>>
  <2>1. branch' = [branch EXCEPT ![s] = [branch[s] EXCEPT !["paper"] = new]]
    BY <1>6
  <2>2. /\ new \in Branches /\ new.phase = "enrich" /\ new.records = old.records
        /\ new.pipe = old.pipe /\ new.found = old.found
    BY <1>1, <1>2 DEF Branches
  <2> HIDE DEF new
  <2>3. QED
    BY <1>2, <1>3, <1>4, <1>6, <2>1, <2>2, EnrichStep
<1>7. QED
  BY <1>5, <1>6 DEF Resolved

\* A cancelled branch ends.
LEMMA BranchUnwindsStep ==
  ASSUME SearchesInv, NEW s \in TextSearches, NEW b \in Sides,
         BranchUnwinds(s, b), UNCHANGED searchVars
  PROVE  SearchesInv'
<1> DEFINE new == [branch[s][b] EXCEPT !.phase = "cancelled"]
<1>1. /\ branch[s][b] \in Branches /\ branch[s] \in [Sides -> Branches]
      /\ text[s] \in SearchStates /\ text = [text EXCEPT ![s] = text[s]]
  BY TextTypes
<1>2. /\ branch[s][b].phase \in {"gather", "enrich"} /\ PipesEnded(s, b)
      /\ text[s].cause # "none" /\ UNCHANGED <<storeVars, text>>
      /\ branch' = [branch EXCEPT ![s] = [branch[s] EXCEPT ![b] = new]]
  BY DEF BranchUnwinds, BranchEnded, Undisturbed
<1>3. /\ new \in Branches /\ new.phase = "cancelled"
      /\ new.pipe = branch[s][b].pipe /\ new.found = branch[s][b].found
  BY <1>1 DEF Branches
<1> HIDE DEF new
<1>4. Adds({})
  BY <1>2, NothingAdded DEF storeVars
<1>5. QED
  BY <1>1, <1>2, <1>3, <1>4, BranchStep

\* The steps of the search's own task.
LEMMA TaskStep ==
  ASSUME SearchesInv, NEW s \in TextSearches, UNCHANGED searchVars,
         \/ \E written \in BOOLEAN : SearchResumes(s, written)
         \/ Deadline(s) \/ CancelText(s) \/ SearchUnwinds(s)
  PROVE  SearchesInv'
<1> DEFINE o == text[s]  B == branch[s]
<1>1. /\ o \in SearchStates /\ Sound(o, B) /\ text \in [TextSearches -> SearchStates]
  BY TextTypes DEF SearchesInv, ShapeOK
<1>2. o.phase = "running" /\ UNCHANGED <<branch, storeVars>>
  BY DEF SearchResumes, Deadline, CancelText, SearchUnwinds
<1>3. ASSUME NEW written \in BOOLEAN, SearchResumes(s, written) PROVE SearchesInv'
  <2> DEFINE phase == IF \A b \in Sides : branch[s][b].phase # "returned" THEN "failed"
                      ELSE IF written THEN "done" ELSE "unwritten"
             t == [o EXCEPT !.phase = phase]
  <2>1. /\ text' = [text EXCEPT ![s] = t] /\ o.scope = "all" /\ o.cause = "none"
        /\ \A b \in Sides : B[b].phase \notin {"gather", "enrich"}
    BY <1>3 DEF SearchResumes, Undisturbed, BranchesEnded, BranchEnded
  <2>2. /\ phase = "failed" => \A b \in Sides : B[b].phase # "returned"
        /\ phase \in {"done", "unwritten"} => \E b \in Sides : B[b].phase = "returned"
        /\ phase \in {"failed", "done", "unwritten"}
    OBVIOUS
  <2> HIDE DEF phase
  <2>3. /\ t \in SearchStates /\ t.phase = phase
        /\ t.kind = o.kind /\ t.scope = o.scope /\ t.cause = o.cause
    BY <1>1, <2>2 DEF SearchStates, TextEnded
  <2> HIDE DEF t
  <2>4. \A b \in Sides : B[b].phase \in {"returned", "failed"}
    <3>1. \A b \in Sides : B[b].phase # "none" /\ B[b].phase # "cancelled"
      BY <1>1, <1>2, <2>1 DEF Sound
    <3>2. \A b \in Sides : B[b] \in Branches
      BY TextTypes
    <3>3. QED
      BY <2>1, <3>1, <3>2 DEF Branches
  <2>5. Sound(t, B)
    BY <1>1, <1>2, <2>1, <2>2, <2>3, <2>4 DEF Sound, TextEnded
  <2>6. QED
    BY <1>2, <2>1, <2>3, <2>5, StateStep
<1>4. ASSUME NEW why \in {"deadline", "caller"}, text' = [text EXCEPT ![s].cause = why],
             why = "deadline" => o.kind = "agent"
      PROVE  SearchesInv'
  <2> DEFINE t == [o EXCEPT !.cause = why]
  <2>1. text' = [text EXCEPT ![s] = t]
    BY <1>4
  <2>2. /\ t \in SearchStates /\ t.phase = o.phase
        /\ t.kind = o.kind /\ t.scope = o.scope /\ t.cause = why
    BY <1>1 DEF SearchStates
  <2> HIDE DEF t
  <2>3. Sound(t, B)
    BY <1>1, <1>2, <1>4, <2>2 DEF Sound
  <2>4. QED
    BY <1>2, <2>1, <2>2, <2>3, StateStep
<1>5. ASSUME SearchUnwinds(s) PROVE SearchesInv'
  <2> DEFINE phase == IF o.cause = "deadline" THEN "timeout" ELSE "cancelled"
             t == [o EXCEPT !.phase = phase]
  <2>1. /\ text' = [text EXCEPT ![s] = t] /\ o.cause # "none"
        /\ \A b \in Sides : B[b].phase \notin {"gather", "enrich"}
    BY <1>5 DEF SearchUnwinds, Undisturbed, BranchesEnded, BranchEnded
  <2>2. phase \in {"timeout", "cancelled"} /\ (phase = "timeout" => o.cause = "deadline")
    OBVIOUS
  <2> HIDE DEF phase
  <2>3. /\ t \in SearchStates /\ t.phase = phase
        /\ t.kind = o.kind /\ t.scope = o.scope /\ t.cause = o.cause
    BY <1>1, <2>2 DEF SearchStates, TextEnded
  <2> HIDE DEF t
  <2>4. Sound(t, B)
    BY <1>1, <1>2, <2>1, <2>2, <2>3 DEF Sound, TextEnded
  <2>5. QED
    BY <1>2, <2>1, <2>3, <2>4, StateStep
<1>6. QED
  BY <1>3, <1>4, <1>5 DEF Deadline, CancelText

-----------------------------------------------------------------------------
(* The steps of a keyword search. *)

\* Keyword search s is then in state st with the URLs found, having added them.
LEMMA KeywordStep ==
  ASSUME SearchesInv, NEW s \in Searches,
         NEW st \in {"running", "done", "unwritten", "failed", "cancelled"},
         NEW found \in SUBSET Urls,
         search' = [search EXCEPT ![s] = st], search[s] \in {"idle", "running"},
         UNCHANGED textVars,
         \/ st \in {"done", "unwritten"} /\ results' = [results EXCEPT ![s] = found] /\ Adds(found)
         \/ st \notin {"done", "unwritten"} /\ UNCHANGED results /\ Adds({})
  PROVE  SearchesInv'
<1>1. ShapeOK
  BY DEF SearchesInv
<1>2. ShapeOK'
  BY <1>1 DEF ShapeOK, Adds, textVars
<1>3. \A z \in TextSearches : Sound(text[z], branch[z])'
  BY DEF SearchesInv, Sound, FoundIn, textVars
<1>4. \A z \in Searches \ {s} : search'[z] = search[z] /\ results'[z] = results[z]
  BY <1>1 DEF ShapeOK
<1>5. search'[s] = st /\ (st \in {"done", "unwritten"} => results'[s] = found)
  BY <1>1 DEF ShapeOK
<1>6. ASSUME NEW u \in Urls
      PROVE  store'[u].admitted <=>
               \/ \E z \in Searches : search'[z] \in {"done", "unwritten"} /\ u \in results'[z]
               \/ \E z \in TextSearches : ReturnedBy(branch[z], u)
  <2>1. store[u].admitted <=> \/ \E z \in Searches : CommittedBy(z, u)
                              \/ \E z \in TextSearches : ReturnedBy(branch[z], u)
    BY AccountedMeans DEF SearchesInv
  <2>2. store'[u].admitted <=>
          store[u].admitted \/ (st \in {"done", "unwritten"} /\ u \in found)
    BY DEF Adds
  <2>3. ~CommittedBy(s, u)
    BY DEF CommittedBy
  <2>4. \A z \in Searches \ {s} :
          CommittedBy(z, u) <=> search'[z] \in {"done", "unwritten"} /\ u \in results'[z]
    BY <1>4 DEF CommittedBy
  <2>5. QED
    BY <1>5, <2>1, <2>2, <2>3, <2>4
<1>7. AdmissionAccounted'
  BY <1>6 DEF AdmissionAccounted, ReturnedBy, AllFound, Listed, FoundIn, textVars, UrlsOf
<1>8. QED
  BY <1>2, <1>3, <1>7 DEF SearchesInv

\* Every step of a keyword search.
LEMMA KeywordStepsKeep ==
  ASSUME SearchesInv, NEW s \in Searches, UNCHANGED textVars,
         \/ \E selected \in Selections : StartSearch(s, selected)
         \/ SearchProgress(s)
         \/ CancelSearch(s)
  PROVE  SearchesInv'
<1>1. search = [search EXCEPT ![s] = search[s]]
  BY DEF SearchesInv, ShapeOK
<1>2. ASSUME NEW selected, StartSearch(s, selected) PROVE SearchesInv'
  <2>1. Adds({})
    BY <1>2, NothingAdded DEF StartSearch, storeVars
  <2>2. QED
    BY <1>2, <2>1, KeywordStep DEF StartSearch
<1>3. ASSUME CancelSearch(s) PROVE SearchesInv'
  <2>1. Adds({})
    BY <1>3, NothingAdded DEF CancelSearch, storeVars
  <2>2. QED
    BY <1>3, <2>1, KeywordStep DEF CancelSearch
<1>4. ASSUME search[s] = "running", UNCHANGED <<store, search, results>> PROVE SearchesInv'
  <2>1. Adds({})
    BY <1>4, NothingAdded
  <2>2. QED
    BY <1>1, <1>4, <2>1, KeywordStep
<1>5. ASSUME NEW written \in BOOLEAN, Commit(s, written) PROVE SearchesInv'
  <2> DEFINE found == {u \in Urls : Staged(s, u) # {}}
             st == IF written THEN "done" ELSE "unwritten"
  <2>1. search[s] = "running" /\ st \in {"done", "unwritten"} /\ found \in SUBSET Urls
    BY <1>5 DEF Commit
  <2>2. CASE \A p \in Providers : pipe[s][p].phase # "staged"
    <3>1. search' = [search EXCEPT ![s] = "failed"] /\ UNCHANGED <<store, results>>
      BY <1>5, <2>2 DEF Commit
    <3>2. Adds({})
      BY <3>1, NothingAdded
    <3>3. QED
      BY <2>1, <3>1, <3>2, KeywordStep
  <2>3. CASE \E p \in Providers : pipe[s][p].phase = "staged"
    <3>1. /\ search' = [search EXCEPT ![s] = st] /\ store' = Committed(s)
          /\ results' = [results EXCEPT ![s] = found]
      BY <1>5, <2>3 DEF Commit
    <3>2. Adds(found)
      BY <3>1, CommitAdds
    <3> HIDE DEF found, st
    <3>3. QED
      BY <2>1, <3>1, <3>2, KeywordStep
  <2>4. QED
    BY <2>2, <2>3
<1>6. ASSUME NEW p \in Providers,
             \/ QueryFailed(s, p)
             \/ \E answer \in HitLists : QueryDone(s, p, answer)
             \/ \E ok \in StageDecisions : JudgeSays(s, p, ok)
             \/ JudgeFailed(s, p)
             \/ JudgeBroke(s, p)
      PROVE  SearchesInv'
  <2>1. search[s] = "running" /\ UNCHANGED <<store, search, results>>
    BY <1>6 DEF QueryFailed, QueryDone, JudgeSays, JudgeFailed, JudgeBroke, Running, storeVars
  <2>2. QED
    BY <1>4, <2>1
<1>7. QED
  BY <1>2, <1>3, <1>5, <1>6 DEF SearchProgress

-----------------------------------------------------------------------------
(* The specification. *)

\* Every step of any search keeps the invariant.
LEMMA SearchesStep == SearchesInv /\ [AllSearchesNext]_allSearchVars => SearchesInv'
<1> SUFFICES ASSUME SearchesInv, [AllSearchesNext]_allSearchVars PROVE SearchesInv'
  OBVIOUS
<1>1. CASE KeywordSteps
  BY <1>1, KeywordStepsKeep DEF KeywordSteps, SearchNext
<1>2. CASE TextSteps
  <2>1. PICK s \in TextSearches :
          \/ \E scope \in Scopes, provider, model \in Asked :
               LlmSearch(s, scope, provider, model) \/ AgentSearch(s, scope, provider, model)
          \/ \E provider \in Asked : PaperSearch(s, provider)
          \/ Answers(s)
          \/ LoopSteps(s)
          \/ Deadline(s)
          \/ CancelText(s)
    BY <1>2 DEF TextSteps, TextNext
  <2>2. UNCHANGED searchVars
    BY <1>2 DEF TextSteps
  <2>3. CASE \/ \E scope \in Scopes, provider, model \in Asked :
                  LlmSearch(s, scope, provider, model) \/ AgentSearch(s, scope, provider, model)
             \/ \E provider \in Asked : PaperSearch(s, provider)
    <3>1. {"llm", "agent", "paper"} \subseteq Kinds /\ "paper" \in Scopes
      BY DEF Kinds, Scopes
    <3>2. QED
      BY <2>2, <2>3, <3>1, StartTextStep DEF LlmSearch, AgentSearch, PaperSearch
  <2>4. CASE Answers(s)
    BY <2>2, <2>4, PipesStep, ResolvedStep DEF Answers
  <2>5. CASE LoopSteps(s)
    BY <2>2, <2>5, PipesStep, BranchFailsStep, BranchUnwindsStep, WebReturnsStep,
       PapersGatheredStep, TaskStep DEF LoopSteps
  <2>6. CASE Deadline(s) \/ CancelText(s)
    BY <2>2, <2>6, TaskStep
  <2>7. QED
    BY <2>1, <2>3, <2>4, <2>5, <2>6
<1>3. CASE UNCHANGED allSearchVars
  <2>1. ShapeOK'
    BY <1>3 DEF SearchesInv, ShapeOK, allSearchVars, storeVars, searchVars, textVars
  <2>2. \A s \in TextSearches : Sound(text[s], branch[s])'
    BY <1>3 DEF SearchesInv, Sound, FoundIn, allSearchVars, textVars
  <2>3. AdmissionAccounted'
    BY <1>3 DEF SearchesInv, AdmissionAccounted, AllFound, Listed, UrlsOf,
       allSearchVars, storeVars, searchVars, textVars
  <2>4. QED
    BY <2>1, <2>2, <2>3 DEF SearchesInv
<1>4. QED
  BY <1>1, <1>2, <1>3 DEF AllSearchesNext

\* The inductive invariant holds in every state of the searches.
THEOREM SearchesInvariant == AllSearchesSpec => []SearchesInv
BY SearchesInitial, SearchesStep, PTL DEF AllSearchesSpec

\* Whatever the searches do beside each other, a URL is in the store exactly when
\* a keyword search has committed it or a branch has returned with it, and a branch
\* returns all that its pipelines listed: what was cancelled, failed or timed out
\* before its branch returned leaves no trace.
THEOREM AdmissionsAreAccounted == AllSearchesSpec => []AdmissionAccounted
<1>1. SearchesInv => AdmissionAccounted
  BY DEF SearchesInv
<1>2. QED
  BY <1>1, SearchesInvariant, PTL

\* An LLM, agent or paper search replies with success only if nothing cancelled it
\* and a branch returned, fails only if all its branches did, times out only as an
\* agent search, and ends only after its pipelines and branches.
THEOREM RepliesAreJustified == AllSearchesSpec => []RepliesJustified
<1>1. SearchesInv => RepliesJustified
  <2> SUFFICES ASSUME SearchesInv, NEW s \in TextSearches
               PROVE  /\ text[s].phase \in {"done", "unwritten"} =>
                           /\ text[s].cause = "none"
                           /\ \E b \in Sides : branch[s][b].phase = "returned"
                      /\ text[s].phase = "failed" =>
                           \A b \in Sides : InScope(s, b) => branch[s][b].phase = "failed"
                      /\ text[s].phase = "timeout" => text[s].kind = "agent"
                      /\ text[s].phase \in TextEnded =>
                           \A b \in Sides : PipesEnded(s, b) /\ BranchEnded(s, b)
    BY DEF RepliesJustified
  <2>1. Sound(text[s], branch[s])
    BY DEF SearchesInv
  <2>2. QED
    BY <2>1 DEF Sound, InScope, PipesEnded, PipeRuns, BranchEnded
<1>2. QED
  BY <1>1, SearchesInvariant, PTL

-----------------------------------------------------------------------------
(* The aggregation: its inductive invariant. *)

\* Candidates that count as evidence of one paper.
Linked(c, d) == Identified(c, d) \/ FingerprintsMatch(c, d)

\* The cluster hangs together: each of its proper parts has a link out of it.
Connected(cluster) ==
  \A part \in SUBSET cluster :
    part \notin {{}, cluster} => \E c \in part, d \in cluster \ part : Linked(c, d)

\* c and the clusters it shares identifiers with, among cs.
Near(c, cs) == (UNION {x \in cs : \E d \in x : Identified(c, d)}) \cup {c}

\* These candidates bring two DOIs or two arXiv ids.
Conflicting(candidates) ==
  Cardinality(Dois(candidates)) > 1 \/ Cardinality(ArxivIds(candidates)) > 1

\* The inductive invariant of the aggregation: CandidatesPlaced, NoMixedCluster and
\* NoFalseMerge, and that there are finitely many candidates, no empty cluster, and a
\* pending candidate is nowhere else.
PapersInv ==
  /\ hits \in BoundedSeq(HitPool, MaxHits)
  /\ IsFiniteSet(Candidates(hits))
  /\ {} \notin clusters
  /\ pending \cap ((UNION clusters) \cup refused) = {}
  /\ CandidatesPlaced
  /\ NoMixedCluster
  /\ \A cluster \in clusters : Connected(cluster)

-----------------------------------------------------------------------------
\* A set that a function covers from a finite one is finite.
LEMMA FiniteImage ==
  ASSUME NEW S, IsFiniteSet(S), NEW T, NEW f, \A t \in T : \E x \in S : t = f[x]
  PROVE  IsFiniteSet(T)
<1> DEFINE R == {f[x] : x \in S}
           g == [x \in S |-> f[x]]
<1>1. g \in Surjection(S, R)
  BY DEF Surjection
<1>2. IsFiniteSet(R)
  BY <1>1, FS_Surjection
<1>3. T \in SUBSET R
  OBVIOUS
<1>4. QED
  BY <1>2, <1>3, FS_Subset

\* There are only finitely many identifiers.
LEMMA FiniteIds ==
  ASSUME NEW cs, IsFiniteSet(cs)
  PROVE  /\ IsFiniteSet(Dois(cs)) /\ Cardinality(Dois(cs)) \in Nat
         /\ IsFiniteSet(ArxivIds(cs)) /\ Cardinality(ArxivIds(cs)) \in Nat
<1>1. IsFiniteSet(Dois(cs))
  <2> DEFINE f == [c \in cs |-> c.doi]
  <2>1. \A t \in Dois(cs) : \E c \in cs : t = f[c]
    BY DEF Dois
  <2> HIDE DEF f
  <2>2. QED
    BY <2>1, FiniteImage
<1>2. IsFiniteSet(ArxivIds(cs))
  <2> DEFINE f == [c \in cs |-> c.arxiv_id]
  <2>1. \A t \in ArxivIds(cs) : \E c \in cs : t = f[c]
    BY DEF ArxivIds
  <2> HIDE DEF f
  <2>2. QED
    BY <2>1, FiniteImage
<1>3. QED
  BY <1>1, <1>2, FS_CardinalityType

\* More candidates cannot resolve a conflict.
LEMMA ConflictGrows ==
  ASSUME NEW S, IsFiniteSet(S), NEW T \in SUBSET S, Conflicting(T)
  PROVE  Conflicting(S)
<1>1. IsFiniteSet(T)
  BY FS_Subset
<1>2. Dois(T) \in SUBSET Dois(S) /\ ArxivIds(T) \in SUBSET ArxivIds(S)
  BY DEF Dois, ArxivIds
<1>3. /\ Cardinality(Dois(T)) <= Cardinality(Dois(S))
      /\ Cardinality(ArxivIds(T)) <= Cardinality(ArxivIds(S))
  BY <1>2, FiniteIds, FS_Subset
<1>4. QED
  BY <1>1, <1>3, FiniteIds DEF Conflicting

\* hs as a function on an initial segment of the numbers.
LEMMA HitsAre ==
  ASSUME NEW hs \in BoundedSeq(HitPool, MaxHits)
  PROVE  \E m \in Nat : hs \in [1..m -> HitPool] /\ DOMAIN hs = 1..m
<1>1. PICK m \in 0..MaxHits : hs \in [1..m -> HitPool]
  BY DEF BoundedSeq, SeqOf
<1>2. MaxHits \in Nat
  BY AggregatorAssumption
<1>3. m \in Nat
  BY <1>2
<1>4. QED
  BY <1>1, <1>3

\* A hit for every candidate.
LEMMA FiniteCandidates ==
  ASSUME NEW hs \in BoundedSeq(HitPool, MaxHits)
  PROVE  IsFiniteSet(Candidates(hs))
<1>1. PICK m \in Nat : hs \in [1..m -> HitPool] /\ DOMAIN hs = 1..m
  BY HitsAre
<1>2. IsFiniteSet(1..m)
  BY FS_Interval
<1> DEFINE f == [n \in 1..m |-> Candidate(hs, n)]
<1>3. \A t \in Candidates(hs) : \E n \in 1..m : t = f[n]
  BY <1>1 DEF Candidates
<1> HIDE DEF f
<1>4. QED
  BY <1>2, <1>3, FiniteImage

\* No candidate has been attached.
LEMMA PapersInitial == AggregatorInit => PapersInv
<1> SUFFICES ASSUME AggregatorInit PROVE PapersInv
  OBVIOUS
<1>1. IsFiniteSet(Candidates(hits))
  BY FiniteCandidates DEF AggregatorInit
<1>2. QED
  BY <1>1 DEF AggregatorInit, PapersInv, CandidatesPlaced, NoMixedCluster

-----------------------------------------------------------------------------
(* The clusters that a candidate refers to. *)

\* Sharing an identifier goes both ways.
LEMMA IdentifiedSymmetric == \A c, d : Identified(c, d) <=> Identified(d, c)
BY DEF Identified

\* The strong indexes find exactly the clusters with a candidate that shares an
\* identifier.
LEMMA StrongRefsAre ==
  ASSUME NEW c
  PROVE  StrongRefs(c) = {x \in clusters : \E d \in x : Identified(c, d)}
<1>1. ASSUME NEW x
      PROVE  (\E d \in x : Identified(c, d)) <=>
               \/ c.doi \in Dois(x)
               \/ c.arxiv_id \in ArxivIds(x)
               \/ <<c.source, c.source_id>> \in SourceKeys(x)
  BY DEF Identified, Dois, ArxivIds, SourceKeys
<1>2. QED
  BY <1>1 DEF StrongRefs

\* What a candidate refers to: clusters it is linked with, all that share its
\* identifiers among them; a conflict is one of identifiers.
LEMMA ReferencesAre ==
  ASSUME NEW c
  PROVE  /\ References(c) \subseteq clusters
         /\ \A x \in References(c) : \E d \in x : Linked(c, d)
         /\ \A x \in clusters : (\E d \in x : Identified(c, d)) => x \in References(c)
         /\ StrongConflict(References(c), c) => Conflicting(Near(c, clusters))
<1>1. StrongRefs(c) = {x \in clusters : \E d \in x : Identified(c, d)}
  BY StrongRefsAre
<1>2. CASE References(c) = StrongRefs(c)
  <2>1. Near(c, clusters) = (UNION References(c)) \cup {c}
    BY <1>1, <1>2 DEF Near
  <2>2. QED
    BY <1>1, <1>2, <2>1 DEF Linked, StrongConflict, Conflicting
<1>3. CASE StrongRefs(c) = {} /\ c.doi = 0 /\ c.arxiv_id = 0 /\ References(c) = WeakRefs(c)
  <2>1. /\ WeakRefs(c) \subseteq clusters
        /\ \A x \in WeakRefs(c) : /\ \E d \in x : FingerprintsMatch(c, d)
                                  /\ Dois(x) = {} /\ ArxivIds(x) = {}
    BY DEF WeakRefs, HasGlobalStrongId
  <2>2. \A d \in (UNION WeakRefs(c)) \cup {c} : d.doi = 0 /\ d.arxiv_id = 0
    BY <1>3, <2>1 DEF Dois, ArxivIds
  <2>3. /\ Dois((UNION WeakRefs(c)) \cup {c}) = {}
        /\ ArxivIds((UNION WeakRefs(c)) \cup {c}) = {}
    BY <2>2 DEF Dois, ArxivIds
  <2>4. ~StrongConflict(References(c), c)
    <3>1. Cardinality({}) = 0
      BY FS_EmptySet
    <3>2. /\ Cardinality(Dois((UNION References(c)) \cup {c})) = 0
          /\ Cardinality(ArxivIds((UNION References(c)) \cup {c})) = 0
      BY <1>3, <2>3, <3>1
    <3>3. ~(0 > 1)
      OBVIOUS
    <3>4. QED
      BY <3>2, <3>3 DEF StrongConflict
  <2>5. QED
    BY <1>1, <1>3, <2>1, <2>4 DEF Linked
<1>4. QED
  BY <1>2, <1>3 DEF References

\* Clusters that have nothing in common.
Apart(x, y) ==
  /\ x \cap y = {}
  /\ Dois(x) \cap Dois(y) = {}
  /\ ArxivIds(x) \cap ArxivIds(y) = {}
  /\ SourceKeys(x) \cap SourceKeys(y) = {}

\* The places of the candidates, in these terms.
LEMMA PlacedMeans ==
  CandidatesPlaced <=>
    /\ (UNION clusters) \cup refused \cup pending = Candidates(hits)
    /\ (UNION clusters) \cap refused = {}
    /\ \A c \in refused : Conflicting(Near(c, clusters))
    /\ \A x, y \in clusters : x # y => Apart(x, y)
BY DEF CandidatesPlaced, Conflicting, Near, Apart

\* The cluster that c joins and the clusters it does not refer to.
LEMMA JoinedApart ==
  ASSUME NEW c, NEW refs, NEW y, refs \subseteq clusters, y \in clusters \ refs,
         \A x, z \in clusters : x # z => Apart(x, z),
         c \notin y, \A d \in y : ~Identified(c, d)
  PROVE  Apart((UNION refs) \cup {c}, y)
<1> DEFINE N == (UNION refs) \cup {c}
<1>1. \A x \in refs : Apart(x, y)
  OBVIOUS
<1>2. N \cap y = {}
  BY <1>1 DEF Apart
<1>3. \A d \in y : /\ d.doi # 0 => c.doi # d.doi
                   /\ d.arxiv_id # 0 => c.arxiv_id # d.arxiv_id
                   /\ <<c.source, c.source_id>> # <<d.source, d.source_id>>
  BY DEF Identified
<1>4. \A x \in refs : \A e \in x, d \in y : /\ d.doi # 0 => e.doi # d.doi
                                            /\ d.arxiv_id # 0 => e.arxiv_id # d.arxiv_id
  <2> SUFFICES ASSUME NEW x \in refs, NEW e \in x, NEW d \in y
               PROVE  /\ d.doi # 0 => e.doi # d.doi
                      /\ d.arxiv_id # 0 => e.arxiv_id # d.arxiv_id
    OBVIOUS
  <2>1. e.doi \in Dois(x) \cup {0} /\ d.doi \in Dois(y) \cup {0}
    BY DEF Dois
  <2>2. e.arxiv_id \in ArxivIds(x) \cup {0} /\ d.arxiv_id \in ArxivIds(y) \cup {0}
    BY DEF ArxivIds
  <2>3. QED
    BY <1>1, <2>1, <2>2 DEF Apart
<1>5. \A x \in refs : \A e \in x, d \in y : <<e.source, e.source_id>> # <<d.source, d.source_id>>
  <2> SUFFICES ASSUME NEW x \in refs, NEW e \in x, NEW d \in y
               PROVE  <<e.source, e.source_id>> # <<d.source, d.source_id>>
    OBVIOUS
  <2>1. <<e.source, e.source_id>> \in SourceKeys(x) /\ <<d.source, d.source_id>> \in SourceKeys(y)
    BY DEF SourceKeys
  <2>2. QED
    BY <1>1, <2>1 DEF Apart
<1>6. \A e \in N, d \in y : /\ d.doi # 0 => e.doi # d.doi
                            /\ d.arxiv_id # 0 => e.arxiv_id # d.arxiv_id
                            /\ <<e.source, e.source_id>> # <<d.source, d.source_id>>
  BY <1>3, <1>4, <1>5
<1> HIDE DEF N
<1>7. Dois(N) \cap Dois(y) = {} /\ ArxivIds(N) \cap ArxivIds(y) = {}
  BY <1>6 DEF Dois, ArxivIds
<1>8. SourceKeys(N) \cap SourceKeys(y) = {}
  BY <1>6 DEF SourceKeys
<1>9. QED
  BY <1>2, <1>7, <1>8 DEF Apart, N

\* So does evidence in general.
LEMMA LinkedSymmetric == \A c, d : Linked(c, d) <=> Linked(d, c)
BY DEF Linked, Identified, FingerprintsMatch

\* A candidate that is linked with each of some connected clusters connects them.
LEMMA JoinedConnected ==
  ASSUME NEW c, NEW refs, \A x \in refs : Connected(x) /\ \E d \in x : Linked(c, d),
         \A x \in refs : c \notin x
  PROVE  Connected((UNION refs) \cup {c})
<1> DEFINE N == (UNION refs) \cup {c}
<1> SUFFICES ASSUME NEW part \in SUBSET N, part # {}, part # N
             PROVE  \E e \in part, d \in N \ part : Linked(e, d)
  BY DEF Connected
<1>1. CASE \E x \in refs : x \cap part # {} /\ ~(x \subseteq part)
  <2>1. PICK x \in refs : x \cap part # {} /\ ~(x \subseteq part)
    BY <1>1
  <2> DEFINE inside == x \cap part
  <2>2. inside \in SUBSET x /\ inside # {} /\ inside # x /\ x \subseteq N
    BY <2>1
  <2> HIDE DEF inside
  <2>3. PICK e \in inside, d \in x \ inside : Linked(e, d)
    BY <2>2 DEF Connected
  <2>4. QED
    BY <2>2, <2>3 DEF inside
<1>2. CASE \A x \in refs : x \cap part = {} \/ x \subseteq part
  <2>1. CASE c \in part
    <3>1. PICK e \in N : e \notin part
      OBVIOUS
    <3>2. PICK x \in refs : e \in x
      BY <2>1, <3>1
    <3>3. x \cap part = {} /\ x \subseteq N
      BY <1>2, <3>1, <3>2
    <3>4. PICK d \in x : Linked(c, d)
      OBVIOUS
    <3>5. QED
      BY <2>1, <3>3, <3>4
  <2>2. CASE c \notin part
    <3>1. PICK e \in part : TRUE
      OBVIOUS
    <3>2. PICK x \in refs : e \in x
      BY <2>2, <3>1
    <3>3. x \subseteq part
      BY <1>2, <3>1, <3>2
    <3>4. PICK d \in x : Linked(d, c)
      BY LinkedSymmetric
    <3>5. QED
      BY <2>2, <3>3, <3>4
  <2>3. QED
    BY <2>1, <2>2
<1>3. QED
  BY <1>1, <1>2

-----------------------------------------------------------------------------
(* The steps. *)

\* _attach_candidate keeps the invariant.
LEMMA AttachKeeps ==
  ASSUME PapersInv, NEW c \in pending, Attach(c)
  PROVE  PapersInv'
<1> DEFINE all == Candidates(hits)
           refs == References(c)
           N == (UNION refs) \cup {c}
<1>1. /\ (UNION clusters) \cup refused \cup pending = all
      /\ (UNION clusters) \cap refused = {}
      /\ \A e \in refused : Conflicting(Near(e, clusters))
      /\ \A x, y \in clusters : x # y => Apart(x, y)
  BY PlacedMeans DEF PapersInv
<1>2. /\ IsFiniteSet(all) /\ pending \cap ((UNION clusters) \cup refused) = {}
      /\ hits \in BoundedSeq(HitPool, MaxHits) /\ {} \notin clusters
      /\ \A x \in clusters : Connected(x)
      /\ NoMixedCluster
  BY DEF PapersInv
<1>3. hits' = hits /\ pending' = pending \ {c} /\ Candidates(hits)' = all
  BY DEF Attach
<1>4. c \in all /\ c \notin refused /\ c \notin UNION clusters
  BY <1>1, <1>2
<1>5. /\ refs \subseteq clusters
      /\ \A x \in refs : \E d \in x : Linked(c, d)
      /\ \A x \in clusters : (\E d \in x : Identified(c, d)) => x \in refs
      /\ StrongConflict(refs, c) => Conflicting(Near(c, clusters))
  BY ReferencesAre
<1> HIDE DEF all, refs
<1>6. CASE StrongConflict(refs, c)
  <2>1. refused' = refused \cup {c} /\ clusters' = clusters
    BY <1>6 DEF Attach, refs
  <2>2. (UNION clusters) \cup refused' \cup pending' = all
    BY <1>1, <1>3, <1>4, <2>1
  <2>3. (UNION clusters) \cap refused' = {} /\ pending' \cap ((UNION clusters) \cup refused') = {}
    BY <1>1, <1>2, <1>3, <1>4, <2>1
  <2>4. \A e \in refused' : Conflicting(Near(e, clusters))
    BY <1>1, <1>5, <1>6, <2>1
  <2>5. CandidatesPlaced'
    BY <1>1, <1>3, <2>1, <2>2, <2>3, <2>4 DEF CandidatesPlaced, Conflicting, Near, Apart
  <2>6. NoMixedCluster'
    BY <1>2, <2>1 DEF NoMixedCluster
  <2>7. QED
    BY <1>2, <1>3, <2>1, <2>3, <2>5, <2>6 DEF PapersInv
<1>7. CASE ~StrongConflict(refs, c)
  <2>1. refused' = refused /\ clusters' = (clusters \ refs) \cup {N}
    BY <1>7 DEF Attach, Attached, refs
  <2>2. UNION clusters' = (UNION clusters) \cup {c}
    BY <1>5, <2>1
  <2>3. \A x \in clusters : \E y \in clusters' : x \subseteq y
    BY <1>5, <2>1
  <2>4. (UNION clusters') \cup refused' \cup pending' = all
    BY <1>1, <1>3, <1>4, <2>1, <2>2
  <2>5. /\ (UNION clusters') \cap refused' = {}
        /\ pending' \cap ((UNION clusters') \cup refused') = {}
    <3>1. \A e \in UNION clusters' : e \notin refused /\ e \notin pending \ {c}
      BY <1>1, <1>2, <1>4, <2>2
    <3>2. \A e \in refused : e \notin pending
      BY <1>2
    <3> HIDE DEF N
    <3>3. QED
      BY <1>3, <2>1, <3>1, <3>2
  <2>6. ASSUME NEW e \in refused PROVE Conflicting(Near(e, clusters'))
    <3>1. Near(e, clusters) \in SUBSET Near(e, clusters')
      BY <2>3 DEF Near
    <3>2. Near(e, clusters') \in SUBSET all
      BY <1>1, <2>1, <2>4 DEF Near
    <3>3. IsFiniteSet(Near(e, clusters'))
      BY <1>2, <3>2, FS_Subset
    <3>4. QED
      BY <1>1, <3>1, <3>3, ConflictGrows
  <2>7. ASSUME NEW y \in clusters \ refs PROVE Apart(N, y) /\ Apart(y, N)
    <3>1. c \notin y /\ \A d \in y : ~Identified(c, d)
      BY <1>4, <1>5
    <3>2. Apart(N, y)
      BY <1>1, <1>5, <3>1, JoinedApart
    <3>3. QED
      BY <3>2 DEF Apart
  <2>8. N \in SUBSET all /\ IsFiniteSet(N)
    <3>1. N \in SUBSET all
      BY <1>1, <1>4, <1>5
    <3>2. QED
      BY <1>2, <3>1, FS_Subset
  <2>9. Cardinality(Dois(N)) <= 1 /\ Cardinality(ArxivIds(N)) <= 1
    <3>1. ~(Cardinality(Dois(N)) > 1) /\ ~(Cardinality(ArxivIds(N)) > 1)
      BY <1>7 DEF StrongConflict
    <3>2. QED
      BY <2>8, <3>1, FiniteIds
  <2>10. Connected(N)
    <3>1. \A x \in refs : c \notin x
      BY <1>4, <1>5
    <3>2. QED
      BY <1>2, <1>5, <3>1, JoinedConnected
  <2>11. {} \notin clusters'
    BY <1>2, <2>1
  <2> HIDE DEF N
  <2>12. \A x, y \in clusters' : x # y => Apart(x, y)
    BY <1>1, <2>1, <2>7
  <2>13. CandidatesPlaced'
    BY <1>3, <2>1, <2>4, <2>5, <2>6, <2>12 DEF CandidatesPlaced, Conflicting, Near, Apart
  <2>14. NoMixedCluster'
    BY <1>2, <2>1, <2>9 DEF NoMixedCluster
  <2>15. \A x \in clusters' : Connected(x)
    BY <1>2, <2>1, <2>10
  <2>16. QED
    BY <1>2, <1>3, <2>5, <2>13, <2>14, <2>15, <2>11 DEF PapersInv
<1>8. QED
  BY <1>6, <1>7

\* Every step of the aggregation keeps the invariant.
LEMMA PapersStep == PapersInv /\ [AggregatorNext]_aggregatorVars => PapersInv'
<1> SUFFICES ASSUME PapersInv, [AggregatorNext]_aggregatorVars PROVE PapersInv'
  OBVIOUS
<1>1. CASE AggregatorNext
  BY <1>1, AttachKeeps DEF AggregatorNext
<1>2. CASE UNCHANGED aggregatorVars
  BY <1>2 DEF aggregatorVars, PapersInv, CandidatesPlaced, NoMixedCluster
<1>3. QED
  BY <1>1, <1>2

\* The inductive invariant holds throughout every aggregation.
THEOREM PapersInvariant == AggregatorSpec => []PapersInv
BY PapersInitial, PapersStep, PTL DEF AggregatorSpec

\* No record mixes papers that their DOIs or arXiv ids tell apart, for any hits.
THEOREM ClustersStayPure == AggregatorSpec => []NoMixedCluster
<1>1. PapersInv => NoMixedCluster
  BY DEF PapersInv
<1>2. QED
  BY <1>1, PapersInvariant, PTL

\* Every candidate has one place, a refusal stays justified while clusters are
\* bridged, and records of one identified paper have been merged.
THEOREM CandidatesArePlaced == AggregatorSpec => []CandidatesPlaced
<1>1. PapersInv => CandidatesPlaced
  BY DEF PapersInv
<1>2. QED
  BY <1>1, PapersInvariant, PTL

\* Whatever bridges it, a cluster hangs together by evidence between its own
\* candidates.
THEOREM MergesHaveEvidence == AggregatorSpec => []NoFalseMerge
<1>1. PapersInv => NoFalseMerge
  BY DEF PapersInv, Connected, Linked, FingerprintsMatch, NoFalseMerge
<1>2. QED
  BY <1>1, PapersInvariant, PTL
-----------------------------------------------------------------------------
(* Lexicographic order. *)

\* A nonempty set of natural numbers has a least one.
LEMMA LeastNatural ==
  ASSUME NEW S, S \subseteq Nat, S # {}
  PROVE  \E n \in S : \A m \in S : n <= m
<1>1. PICK n \in S : \A m \in S : <<m, n>> \notin OpToRel(<, Nat)
  BY NatLessThanWellFounded, WFMin
<1>2. \A m \in S : ~(m < n)
  BY <1>1 DEF OpToRel
<1>3. QED
  BY <1>2

\* Keys of one length, of integers.
Keys(len) == [1..len -> Int]

\* Two different keys differ first at some place: one of them is less.
LEMMA KeysTotal ==
  ASSUME NEW len \in Nat, NEW a \in Keys(len), NEW b \in Keys(len), a # b
  PROVE  KeyLess(a, b) \/ KeyLess(b, a)
<1> DEFINE D == {n \in 1..len : a[n] # b[n]}
<1>1. D \subseteq Nat /\ D # {}
  BY DEF Keys
<1>2. PICK n \in D : \A m \in D : n <= m
  BY <1>1, LeastNatural
<1>3. n \in 1..len /\ a[n] # b[n]
  BY <1>2
<1>4. \A k \in 1..(n - 1) : a[k] = b[k]
  <2> SUFFICES ASSUME NEW k \in 1..(n - 1) PROVE a[k] = b[k]
    OBVIOUS
  <2>1. k \in 1..len /\ ~(n <= k)
    BY <1>3
  <2>2. QED
    BY <1>2, <2>1
<1>5. DOMAIN a = 1..len /\ DOMAIN b = 1..len /\ a[n] \in Int /\ b[n] \in Int
  BY <1>3 DEF Keys
<1>6. a[n] < b[n] \/ b[n] < a[n]
  BY <1>3, <1>5
<1> HIDE DEF D
<1>7. QED
  BY <1>3, <1>4, <1>5, <1>6 DEF KeyLess

\* No key is less than itself.
LEMMA KeysIrreflexive ==
  ASSUME NEW len \in Nat, NEW a \in Keys(len)
  PROVE  ~KeyLess(a, a)
BY DEF Keys, KeyLess

\* The order is transitive: the earlier of the two places decides.
LEMMA KeysTransitive ==
  ASSUME NEW len \in Nat, NEW a \in Keys(len), NEW b \in Keys(len), NEW c \in Keys(len),
         KeyLess(a, b), KeyLess(b, c)
  PROVE  KeyLess(a, c)
<1>1. PICK n \in 1..len : a[n] < b[n] /\ \A k \in 1..(n - 1) : a[k] = b[k]
  BY DEF Keys, KeyLess
<1>2. PICK m \in 1..len : b[m] < c[m] /\ \A k \in 1..(m - 1) : b[k] = c[k]
  BY DEF Keys, KeyLess
<1>3. \A i \in 1..len : a[i] \in Int /\ b[i] \in Int /\ c[i] \in Int
  BY DEF Keys
<1>4. DOMAIN a = 1..len
  BY DEF Keys
<1>5. CASE n <= m
  <2>1. a[n] < c[n]
    <3>1. CASE n = m
      BY <1>1, <1>2, <1>3, <3>1
    <3>2. CASE n < m
      <4>1. n \in 1..(m - 1)
        BY <3>2
      <4>2. b[n] = c[n]
        BY <1>2, <4>1
      <4>3. QED
        BY <1>1, <4>2
    <3>3. QED
      BY <1>5, <3>1, <3>2
  <2>2. \A k \in 1..(n - 1) : a[k] = c[k]
    <3> SUFFICES ASSUME NEW k \in 1..(n - 1) PROVE a[k] = c[k]
      OBVIOUS
    <3>1. k \in 1..(m - 1)
      BY <1>5
    <3>2. QED
      BY <1>1, <1>2, <3>1
  <2>3. QED
    BY <1>4, <2>1, <2>2 DEF KeyLess
<1>6. CASE m < n
  <2>1. m \in 1..(n - 1)
    BY <1>6
  <2>2. a[m] < c[m]
    BY <1>1, <1>2, <2>1
  <2>3. \A k \in 1..(m - 1) : a[k] = c[k]
    <3> SUFFICES ASSUME NEW k \in 1..(m - 1) PROVE a[k] = c[k]
      OBVIOUS
    <3>1. k \in 1..(n - 1)
      BY <1>6
    <3>2. QED
      BY <1>1, <1>2, <3>1
  <2>4. QED
    BY <1>4, <2>2, <2>3 DEF KeyLess
<1>7. QED
  BY <1>5, <1>6

\* Finitely many things with different keys can be listed by key: each stands
\* after as many as have a lesser key.
LEMMA SortedByKey ==
  ASSUME NEW len \in Nat, NEW S, IsFiniteSet(S), NEW key \in [S -> Keys(len)],
         \A x, y \in S : key[x] = key[y] => x = y
  PROVE  \E order \in Bijection(1..Cardinality(S), S) :
           \A m, n \in DOMAIN order : m < n => KeyLess(key[order[m]], key[order[n]])
<1> DEFINE N == Cardinality(S)
           below(x) == {y \in S : KeyLess(key[y], key[x])}
           place == [x \in S |-> Cardinality(below(x)) + 1]
           order == [i \in 1..N |-> CHOOSE x \in S : place[x] = i]
<1>1. N \in Nat
  BY FS_CardinalityType
<1>2. ASSUME NEW x \in S
      PROVE  /\ IsFiniteSet(below(x)) /\ Cardinality(below(x)) \in Nat
             /\ x \notin below(x) /\ Cardinality(below(x)) + 1 <= N
  <2>1. x \notin below(x)
    BY KeysIrreflexive
  <2>2. below(x) \in SUBSET S /\ below(x) # S
    BY <2>1
  <2> HIDE DEF below
  <2>3. /\ IsFiniteSet(below(x)) /\ Cardinality(below(x)) <= N
        /\ N = Cardinality(below(x)) => S = below(x)
    BY <2>2, FS_Subset
  <2>4. Cardinality(below(x)) \in Nat
    BY <2>3, FS_CardinalityType
  <2> HIDE DEF N
  <2>5. QED
    BY <1>1, <2>1, <2>2, <2>3, <2>4
<1>3. ASSUME NEW x \in S, NEW y \in S, KeyLess(key[x], key[y])
      PROVE  place[x] < place[y]
  <2>1. below(x) \in SUBSET below(y)
    <3> SUFFICES ASSUME NEW z \in S, KeyLess(key[z], key[x]) PROVE KeyLess(key[z], key[y])
      OBVIOUS
    <3>1. key[x] \in Keys(len) /\ key[y] \in Keys(len) /\ key[z] \in Keys(len)
      OBVIOUS
    <3>2. QED
      BY <1>3, <3>1, KeysTransitive
  <2>2. x \in below(y) /\ x \notin below(x)
    BY <1>2, <1>3
  <2> HIDE DEF below
  <2>3. IsFiniteSet(below(y)) /\ Cardinality(below(x)) \in Nat /\ Cardinality(below(y)) \in Nat
    BY <1>2
  <2>4. /\ Cardinality(below(x)) <= Cardinality(below(y))
        /\ Cardinality(below(y)) = Cardinality(below(x)) => below(y) = below(x)
    BY <2>1, <2>3, FS_Subset
  <2>5. QED
    BY <2>2, <2>3, <2>4
<1>4. place \in [S -> 1..N]
  <2> SUFFICES ASSUME NEW x \in S PROVE Cardinality(below(x)) + 1 \in 1..N
    OBVIOUS
  <2> HIDE DEF below, N
  <2>1. QED
    BY <1>1, <1>2
<1> HIDE DEF place, below
<1>5. ASSUME NEW x \in S, NEW y \in S, x # y
      PROVE  KeyLess(key[x], key[y]) \/ KeyLess(key[y], key[x])
  <2>1. key[x] \in Keys(len) /\ key[y] \in Keys(len) /\ key[x] # key[y]
    BY <1>5
  <2>2. QED
    BY <2>1, KeysTotal
<1>6. \A x \in S : place[x] \in Int
  <2> HIDE DEF N
  <2>1. QED
    BY <1>1, <1>4
<1>7. \A x, y \in S : place[x] = place[y] => x = y
  BY <1>3, <1>5, <1>6
<1>8. place \in Injection(S, 1..N)
  BY <1>4, <1>7, Fun_IsInj
<1>9. IsFiniteSet(1..N) /\ Cardinality(1..N) = N
  <2> HIDE DEF N
  <2>1. QED
    BY <1>1, FS_Interval
<1>10. place \in Surjection(S, 1..N)
  BY <1>8, <1>9, FS_Injection
<1>11. \A i \in 1..N : \E x \in S : place[x] = i
  BY <1>10, Fun_SurjectionProperties
<1> HIDE DEF N
<1>12. \A i \in 1..N : order[i] \in S /\ place[order[i]] = i
  BY <1>11
<1>13. \A x \in S : place[x] \in 1..N /\ order[place[x]] = x
  BY <1>4, <1>7, <1>12
<1>14. order \in [1..N -> S]
  BY <1>12
<1> HIDE DEF order
<1>15. order \in Bijection(1..N, S)
  <2>1. order \in Injection(1..N, S)
    BY <1>12, <1>14, Fun_IsInj
  <2>2. order \in Surjection(1..N, S)
    BY <1>13, <1>14, Fun_IsSurj
  <2>3. QED
    BY <2>1, <2>2 DEF Bijection
<1>16. ASSUME NEW m \in 1..N, NEW n \in 1..N, m < n
       PROVE  KeyLess(key[order[m]], key[order[n]])
  <2>1. order[m] # order[n]
    BY <1>12, <1>16
  <2>2. ~KeyLess(key[order[n]], key[order[m]])
    <3>1. ~(n < m)
      BY <1>1, <1>16
    <3>2. QED
      BY <1>3, <1>12, <3>1
  <2>3. QED
    BY <1>5, <1>12, <2>1, <2>2
<1>17. DOMAIN order = 1..N
  BY <1>14
<1>18. QED
  BY <1>15, <1>16, <1>17 DEF N

\* So one of them, if there is any, has the least key.
LEMMA LeastKey ==
  ASSUME NEW len \in Nat, NEW S, IsFiniteSet(S), S # {}, NEW key \in [S -> Keys(len)],
         \A x, y \in S : key[x] = key[y] => x = y
  PROVE  \E x \in S : \A y \in S \ {x} : KeyLess(key[x], key[y])
<1>1. PICK order \in Bijection(1..Cardinality(S), S) :
        \A m, n \in DOMAIN order : m < n => KeyLess(key[order[m]], key[order[n]])
  BY SortedByKey
<1>2. /\ order \in [1..Cardinality(S) -> S]
      /\ \A y \in S : \E n \in 1..Cardinality(S) : order[n] = y
  BY <1>1 DEF Bijection, Injection, Surjection
<1>3. Cardinality(S) \in Nat /\ Cardinality(S) # 0
  BY FS_CardinalityType, FS_EmptySet
<1>4. 1 \in 1..Cardinality(S) /\ order[1] \in S
  BY <1>2, <1>3
<1>5. ASSUME NEW y \in S \ {order[1]} PROVE KeyLess(key[order[1]], key[y])
  <2>1. PICK n \in 1..Cardinality(S) : order[n] = y
    BY <1>2
  <2>2. n # 1
    BY <2>1
  <2>3. 1 < n
    BY <1>3, <2>2
  <2>4. QED
    BY <1>1, <1>2, <1>4, <2>1, <2>3
<1>6. QED
  BY <1>4, <1>5

-----------------------------------------------------------------------------
(* The candidates and their keys. *)

\* _source_rank is a number.
LEMMA RankType == ASSUME NEW s \in Sources PROVE SourceRank(s) \in Nat
<1> DEFINE R == {t \in Sources : Priority[t] # NoRank}
<1>1. IsFiniteSet(R)
  <2>1. R \in SUBSET Sources
    OBVIOUS
  <2>2. QED
    BY <2>1, FS_Subset, AggregatorAssumption
<1>2. Cardinality(R) \in Nat
  BY <1>1, FS_CardinalityType
<1>3. SourceRank(s) = IF Priority[s] # NoRank THEN Priority[s]
                      ELSE IF s \in Generated THEN Cardinality(R) + 2 ELSE Cardinality(R) + 1
  BY DEF SourceRank
<1>4. Priority[s] # NoRank => Priority[s] \in Nat
  BY AggregatorAssumption
<1> HIDE DEF R
<1>5. QED
  BY <1>2, <1>3, <1>4

\* The discovery index grows along the hits of a source.
LEMMA IndexGrows ==
  ASSUME NEW hs, NEW n \in Nat
  PROVE  /\ DiscoveryIndex(hs, n) \in Nat
         /\ \A m \in Nat : m < n /\ m > 0 /\ hs[m].source = hs[n].source =>
              DiscoveryIndex(hs, m) < DiscoveryIndex(hs, n)
<1> DEFINE upTo(i) == {k \in 1..i : hs[k].source = hs[i].source}
<1>1. ASSUME NEW i \in Nat
      PROVE  IsFiniteSet(upTo(i)) /\ Cardinality(upTo(i)) \in Nat
  <2>1. IsFiniteSet(1..i)
    BY FS_Interval
  <2>2. upTo(i) \in SUBSET 1..i
    OBVIOUS
  <2> HIDE DEF upTo
  <2>3. IsFiniteSet(upTo(i))
    BY <2>1, <2>2, FS_Subset
  <2>4. QED
    BY <2>3, FS_CardinalityType
<1>2. ASSUME NEW m \in Nat, m < n, m > 0, hs[m].source = hs[n].source
      PROVE  Cardinality(upTo(m)) < Cardinality(upTo(n))
  <2>1. upTo(m) \in SUBSET upTo(n)
    BY <1>2
  <2>2. n \in upTo(n) /\ n \notin upTo(m)
    BY <1>2
  <2> HIDE DEF upTo
  <2>3. /\ Cardinality(upTo(m)) <= Cardinality(upTo(n))
        /\ Cardinality(upTo(n)) = Cardinality(upTo(m)) => upTo(n) = upTo(m)
    BY <1>1, <2>1, FS_Subset
  <2>4. QED
    BY <1>1, <2>2, <2>3
<1>3. \A i : DiscoveryIndex(hs, i) = Cardinality(upTo(i))
  BY DEF DiscoveryIndex
<1> HIDE DEF upTo
<1>4. QED
  BY <1>1, <1>2, <1>3

\* The fields that the keys are made of.
LEMMA CandidateTypes ==
  ASSUME NEW hs \in BoundedSeq(HitPool, MaxHits), NEW c \in Candidates(hs)
  PROVE  /\ c.source \in Sources /\ c.rank \in Nat /\ c.index \in Nat /\ c.source_id \in Nat
         /\ NameOrder[c.source] \in Nat
<1>1. PICK m \in Nat : hs \in [1..m -> HitPool] /\ DOMAIN hs = 1..m
  BY HitsAre
<1>2. PICK n \in 1..m : c = Candidate(hs, n)
  BY <1>1 DEF Candidates
<1>3. hs[n] \in HitPool /\ n \in Nat
  BY <1>1
<1>4. hs[n].source \in Sources /\ (hs[n].source_id # "" => Canon[hs[n].source_id] \in Nat)
  BY <1>3, AggregatorAssumption
<1>5. Native(hs[n]) \in Nat
  BY <1>4 DEF Native, Field
<1>6. SourceRank(hs[n].source) \in Nat /\ DiscoveryIndex(hs, n) \in Nat
  BY <1>3, <1>4, RankType, IndexGrows
<1>7. /\ c.source = hs[n].source /\ c.source_id = Native(hs[n])
      /\ c.rank = SourceRank(hs[n].source) /\ c.index = DiscoveryIndex(hs, n)
  BY <1>2 DEF Candidate
<1>8. NameOrder[c.source] \in Nat
  BY <1>4, <1>7, AggregatorAssumption
<1>9. QED
  BY <1>4, <1>5, <1>6, <1>7, <1>8

\* A source and an index name one candidate.
LEMMA CandidatesDiffer ==
  ASSUME NEW hs \in BoundedSeq(HitPool, MaxHits), NEW c \in Candidates(hs), NEW d \in Candidates(hs),
         c.source = d.source, c.index = d.index
  PROVE  c = d
<1>1. PICK m \in Nat : hs \in [1..m -> HitPool] /\ DOMAIN hs = 1..m
  BY HitsAre
<1>2. PICK n \in 1..m : c = Candidate(hs, n)
  BY <1>1 DEF Candidates
<1>3. PICK k \in 1..m : d = Candidate(hs, k)
  BY <1>1 DEF Candidates
<1>4. /\ c.source = hs[n].source /\ c.index = DiscoveryIndex(hs, n)
      /\ d.source = hs[k].source /\ d.index = DiscoveryIndex(hs, k)
  BY <1>2, <1>3 DEF Candidate
<1>5. n \in Nat /\ n > 0 /\ k \in Nat /\ k > 0
  OBVIOUS
<1>6. DiscoveryIndex(hs, n) = DiscoveryIndex(hs, k) /\ DiscoveryIndex(hs, n) \in Nat
  BY <1>4, <1>5, IndexGrows
<1>7. ~(n < k)
  <2>1. hs[n].source = hs[k].source
    BY <1>4
  <2>2. n < k => DiscoveryIndex(hs, n) < DiscoveryIndex(hs, k)
    BY <1>5, <2>1, IndexGrows
  <2>3. QED
    BY <1>6, <2>2
<1>8. ~(k < n)
  <2>1. hs[k].source = hs[n].source
    BY <1>4
  <2>2. k < n => DiscoveryIndex(hs, k) < DiscoveryIndex(hs, n)
    BY <1>5, <2>1, IndexGrows
  <2>3. QED
    BY <1>6, <2>2
<1>9. n = k
  BY <1>5, <1>7, <1>8
<1>10. QED
  BY <1>2, <1>3, <1>9

\* Both keys tell candidates apart.
LEMMA KeysOfCandidates ==
  ASSUME NEW hs \in BoundedSeq(HitPool, MaxHits), NEW c \in Candidates(hs)
  PROVE  /\ ProcessingKey(c) \in Keys(4) /\ Precedence(c) \in Keys(5)
         /\ \A d \in Candidates(hs) : ProcessingKey(c) = ProcessingKey(d) => c = d
         /\ \A d \in Candidates(hs) : Precedence(c) = Precedence(d) => c = d
<1>1. ASSUME NEW d \in Candidates(hs)
      PROVE  /\ d.source \in Sources /\ d.rank \in Nat /\ d.index \in Nat /\ d.source_id \in Nat
             /\ NameOrder[d.source] \in Nat
  BY CandidateTypes
<1>2. ProcessingKey(c) \in Keys(4)
  BY <1>1 DEF ProcessingKey, Keys
<1>3. Precedence(c) \in Keys(5)
  BY <1>1 DEF Precedence, Keys
<1>4. ASSUME NEW d \in Candidates(hs), NameOrder[c.source] = NameOrder[d.source], c.index = d.index
      PROVE  c = d
  <2>1. c.source = d.source
    BY <1>1, <1>4, AggregatorAssumption
  <2>2. QED
    BY <1>4, <2>1, CandidatesDiffer
<1>5. ASSUME NEW d \in Candidates(hs), ProcessingKey(c) = ProcessingKey(d) PROVE c = d
  <2>1. ProcessingKey(c)[2] = c.index /\ ProcessingKey(c)[3] = NameOrder[c.source]
    BY DEF ProcessingKey
  <2>2. ProcessingKey(d)[2] = d.index /\ ProcessingKey(d)[3] = NameOrder[d.source]
    BY DEF ProcessingKey
  <2>3. QED
    BY <1>4, <1>5, <2>1, <2>2
<1>6. ASSUME NEW d \in Candidates(hs), Precedence(c) = Precedence(d) PROVE c = d
  <2>1. Precedence(c)[5] = -c.index /\ Precedence(c)[3] = NameOrder[c.source]
    BY DEF Precedence
  <2>2. Precedence(d)[5] = -d.index /\ Precedence(d)[3] = NameOrder[d.source]
    BY DEF Precedence
  <2>3. c.index = d.index
    BY <1>1, <1>6, <2>1, <2>2
  <2>4. QED
    BY <1>4, <1>6, <2>1, <2>2, <2>3
<1>7. QED
  BY <1>2, <1>3, <1>5, <1>6

\* min and sorted by the processing key: there is a first one.
LEMMA FirstProcessed ==
  ASSUME NEW hs \in BoundedSeq(HitPool, MaxHits), IsFiniteSet(Candidates(hs)),
         NEW cs \in SUBSET Candidates(hs), cs # {}
  PROVE  LET first == LeastBy(ProcessingKey, cs) IN
         /\ first \in cs
         /\ \A d \in cs \ {first} : KeyLess(ProcessingKey(first), ProcessingKey(d))
<1> DEFINE key == [c \in cs |-> ProcessingKey(c)]
<1>1. IsFiniteSet(cs)
  BY FS_Subset
<1>2. key \in [cs -> Keys(4)] /\ \A x, y \in cs : key[x] = key[y] => x = y
  BY KeysOfCandidates
<1>3. \A x \in cs : key[x] = ProcessingKey(x)
  OBVIOUS
<1> HIDE DEF key
<1>4. PICK x \in cs : \A y \in cs \ {x} : KeyLess(key[x], key[y])
  BY <1>1, <1>2, LeastKey
<1>5. \E c \in cs : \A d \in cs \ {c} : KeyLess(ProcessingKey(c), ProcessingKey(d))
  BY <1>3, <1>4
<1>6. QED
  BY <1>5 DEF LeastBy

\* sorted by precedence: there is a first one.
LEMMA FirstByPrecedence ==
  ASSUME NEW hs \in BoundedSeq(HitPool, MaxHits), IsFiniteSet(Candidates(hs)),
         NEW cs \in SUBSET Candidates(hs), cs # {}
  PROVE  LET first == LeastBy(Precedence, cs) IN
         /\ first \in cs
         /\ \A d \in cs \ {first} : KeyLess(Precedence(first), Precedence(d))
<1> DEFINE key == [c \in cs |-> Precedence(c)]
<1>1. IsFiniteSet(cs)
  BY FS_Subset
<1>2. key \in [cs -> Keys(5)] /\ \A x, y \in cs : key[x] = key[y] => x = y
  BY KeysOfCandidates
<1>3. \A x \in cs : key[x] = Precedence(x)
  OBVIOUS
<1> HIDE DEF key
<1>4. PICK x \in cs : \A y \in cs \ {x} : KeyLess(key[x], key[y])
  BY <1>1, <1>2, LeastKey
<1>5. \E c \in cs : \A d \in cs \ {c} : KeyLess(Precedence(c), Precedence(d))
  BY <1>3, <1>4
<1>6. QED
  BY <1>5 DEF LeastBy

-----------------------------------------------------------------------------
(* The records. *)

\* next(... for candidate in candidates if ...): the field of the first candidate by
\* precedence that has one, if there is one.
LEMMA FirstOfIs ==
  ASSUME NEW hs \in BoundedSeq(HitPool, MaxHits), IsFiniteSet(Candidates(hs)),
         NEW cs \in SUBSET Candidates(hs), NEW field, NEW none
  PROVE  \/ FirstOf(cs, field, none) = none /\ \A c \in cs : c[field] = none
         \/ \E c \in cs : /\ c[field] # none /\ FirstOf(cs, field, none) = c[field]
                          /\ \A d \in cs : d[field] # none /\ d # c =>
                               KeyLess(Precedence(c), Precedence(d))
<1> DEFINE some == {c \in cs : c[field] # none}
           first == LeastBy(Precedence, some)
<1>1. CASE some = {}
  BY <1>1 DEF FirstOf
<1>2. CASE some # {}
  <2>1. some \in SUBSET Candidates(hs)
    OBVIOUS
  <2> HIDE DEF some
  <2>2. first \in some /\ \A d \in some \ {first} : KeyLess(Precedence(first), Precedence(d))
    BY <1>2, <2>1, FirstByPrecedence
  <2>3. FirstOf(cs, field, none) = first[field]
    BY <1>2 DEF FirstOf, some
  <2> HIDE DEF first
  <2>4. first \in cs /\ first[field] # none
    BY <2>2 DEF some
  <2>5. \A d \in cs : d[field] # none /\ d # first => KeyLess(Precedence(first), Precedence(d))
    BY <2>2 DEF some
  <2>6. QED
    BY <2>3, <2>4, <2>5
<1>3. QED
  BY <1>1, <1>2

\* A generated candidate never precedes an academic one.
LEMMA AcademicFirst ==
  ASSUME NEW c, NEW d, KeyLess(Precedence(c), Precedence(d)), d.source \notin Generated
  PROVE  c.source \notin Generated
<1> SUFFICES ASSUME c.source \in Generated PROVE FALSE
  OBVIOUS
<1>1. Precedence(c)[1] = 1 /\ Precedence(d)[1] = 0 /\ DOMAIN Precedence(c) = 1..5
  BY DEF Precedence
<1>2. PICK n \in 1..5 : /\ Precedence(c)[n] < Precedence(d)[n]
                        /\ \A k \in 1..(n - 1) : Precedence(c)[k] = Precedence(d)[k]
  BY <1>1 DEF KeyLess
<1>3. CASE n = 1
  BY <1>1, <1>2, <1>3
<1>4. CASE n # 1
  <2>1. 1 \in 1..(n - 1)
    BY <1>4
  <2>2. QED
    BY <1>1, <1>2, <2>1
<1>5. QED
  BY <1>3, <1>4

\* Of at most one identifier, any is the only one.
LEMMA OnlyIdentifier ==
  ASSUME NEW S, IsFiniteSet(S), Cardinality(S) <= 1, NEW x \in S
  PROVE  S = {x}
<1>1. IsFiniteSet({x}) /\ Cardinality({x}) = 1 /\ {x} \in SUBSET S
  BY FS_Singleton
<1>2. Cardinality(S) \in Nat
  BY FS_CardinalityType
<1>3. /\ Cardinality({x}) <= Cardinality(S)
      /\ Cardinality(S) = Cardinality({x}) => S = {x}
  BY <1>1, FS_Subset
<1>4. QED
  BY <1>1, <1>2, <1>3

\* The record of a cluster has its identifiers, and an abstract that an academic
\* provider gave if one did.
LEMMA RecordOfCluster ==
  ASSUME PapersInv, NEW cluster \in clusters
  PROVE  LET rec == MergeCluster(cluster)
             said == {c.abstract : c \in {d \in cluster : d.source \notin Generated}} \ {""}
         IN
         /\ {rec.doi} \ {0} = Dois(cluster)
         /\ {rec.arxiv_id} \ {0} = ArxivIds(cluster)
         /\ said # {} => rec.abstract \in said
<1> DEFINE rec == MergeCluster(cluster)
           said == {c.abstract : c \in {d \in cluster : d.source \notin Generated}} \ {""}
<1>1. /\ hits \in BoundedSeq(HitPool, MaxHits) /\ IsFiniteSet(Candidates(hits))
      /\ cluster \in SUBSET Candidates(hits)
      /\ Cardinality(Dois(cluster)) <= 1 /\ Cardinality(ArxivIds(cluster)) <= 1
  BY DEF PapersInv, CandidatesPlaced, NoMixedCluster
<1>2. IsFiniteSet(cluster)
  BY <1>1, FS_Subset
<1>3. IsFiniteSet(Dois(cluster)) /\ IsFiniteSet(ArxivIds(cluster))
  BY <1>2, FiniteIds
<1>4. /\ rec.doi = FirstOf(cluster, "doi", 0) /\ rec.arxiv_id = FirstOf(cluster, "arxiv_id", 0)
      /\ rec.abstract = FirstOf(cluster, "abstract", "")
  BY DEF MergeCluster
<1> HIDE DEF rec
<1>5. {rec.doi} \ {0} = Dois(cluster)
  <2>1. \/ FirstOf(cluster, "doi", 0) = 0 /\ \A c \in cluster : c["doi"] = 0
        \/ \E c \in cluster : c["doi"] # 0 /\ FirstOf(cluster, "doi", 0) = c["doi"]
    BY <1>1, FirstOfIs
  <2>2. CASE rec.doi = 0 /\ \A c \in cluster : c.doi = 0
    BY <2>2 DEF Dois
  <2>3. CASE \E c \in cluster : c.doi # 0 /\ rec.doi = c.doi
    <3>1. rec.doi \in Dois(cluster) /\ rec.doi # 0
      BY <2>3 DEF Dois
    <3>2. QED
      BY <1>1, <1>3, <3>1, OnlyIdentifier
  <2>4. QED
    BY <1>4, <2>1, <2>2, <2>3
<1>6. {rec.arxiv_id} \ {0} = ArxivIds(cluster)
  <2>1. \/ FirstOf(cluster, "arxiv_id", 0) = 0 /\ \A c \in cluster : c["arxiv_id"] = 0
        \/ \E c \in cluster : c["arxiv_id"] # 0 /\ FirstOf(cluster, "arxiv_id", 0) = c["arxiv_id"]
    BY <1>1, FirstOfIs
  <2>2. CASE rec.arxiv_id = 0 /\ \A c \in cluster : c.arxiv_id = 0
    BY <2>2 DEF ArxivIds
  <2>3. CASE \E c \in cluster : c.arxiv_id # 0 /\ rec.arxiv_id = c.arxiv_id
    <3>1. rec.arxiv_id \in ArxivIds(cluster) /\ rec.arxiv_id # 0
      BY <2>3 DEF ArxivIds
    <3>2. QED
      BY <1>1, <1>3, <3>1, OnlyIdentifier
  <2>4. QED
    BY <1>4, <2>1, <2>2, <2>3
<1>7. ASSUME said # {} PROVE rec.abstract \in said
  <2>1. PICK d \in cluster : d.source \notin Generated /\ d.abstract # ""
    BY <1>7
  <2>2. PICK c \in cluster :
          /\ c.abstract # "" /\ rec.abstract = c.abstract
          /\ \A e \in cluster : e.abstract # "" /\ e # c => KeyLess(Precedence(c), Precedence(e))
    <3>1. \/ /\ FirstOf(cluster, "abstract", "") = ""
             /\ \A c \in cluster : c["abstract"] = ""
          \/ \E c \in cluster :
               /\ c["abstract"] # "" /\ FirstOf(cluster, "abstract", "") = c["abstract"]
               /\ \A e \in cluster : e["abstract"] # "" /\ e # c =>
                    KeyLess(Precedence(c), Precedence(e))
      BY <1>1, FirstOfIs
    <3>2. QED
      BY <1>4, <2>1, <3>1
  <2>3. c.source \notin Generated
    BY <2>1, <2>2, AcademicFirst
  <2>4. QED
    BY <2>2, <2>3
<1>8. QED
  BY <1>5, <1>6, <1>7 DEF rec

\* The origin of a cluster is the key of its first candidate.
LEMMA OriginIs ==
  ASSUME PapersInv, NEW x \in clusters
  PROVE  \E c \in x : /\ c \in Candidates(hits) /\ Origin(x) = ProcessingKey(c)
                      /\ \A d \in x \ {c} : KeyLess(ProcessingKey(c), ProcessingKey(d))
<1> DEFINE first == LeastBy(ProcessingKey, x)
<1>1. /\ hits \in BoundedSeq(HitPool, MaxHits) /\ IsFiniteSet(Candidates(hits))
      /\ x \in SUBSET Candidates(hits) /\ x # {}
  BY DEF PapersInv, CandidatesPlaced
<1>2. first \in x /\ \A d \in x \ {first} : KeyLess(ProcessingKey(first), ProcessingKey(d))
  BY <1>1, FirstProcessed
<1>3. Origin(x) = ProcessingKey(first)
  BY DEF Origin
<1> HIDE DEF first
<1>4. QED
  BY <1>1, <1>2, <1>3

\* sorted by origin_rank: the origins of the clusters differ, so that there is one
\* such order, with one place for each cluster.
LEMMA ClustersAreOrdered ==
  ASSUME PapersInv
  PROVE  /\ Cardinality(clusters) \in Nat
         /\ ByOrigin \in Bijection(1..Cardinality(clusters), clusters)
         /\ \A m, n \in DOMAIN ByOrigin : m < n => KeyLess(Origin(ByOrigin[m]), Origin(ByOrigin[n]))
<1> DEFINE all == Candidates(hits)
           key == [x \in clusters |-> Origin(x)]
<1>1. /\ hits \in BoundedSeq(HitPool, MaxHits) /\ IsFiniteSet(all)
      /\ clusters \in SUBSET SUBSET all
      /\ \A x, y \in clusters : x # y => x \cap y = {}
  BY DEF PapersInv, CandidatesPlaced
<1>2. IsFiniteSet(clusters) /\ Cardinality(clusters) \in Nat
  <2>1. IsFiniteSet(SUBSET all)
    BY <1>1, FS_SUBSET
  <2>2. IsFiniteSet(clusters)
    BY <1>1, <2>1, FS_Subset
  <2>3. QED
    BY <2>2, FS_CardinalityType
<1>3. \A x \in clusters : \E c \in x : c \in all /\ Origin(x) = ProcessingKey(c)
  BY OriginIs
<1>4. \A x \in clusters : Origin(x) \in Keys(4)
  BY <1>1, <1>3, KeysOfCandidates
<1>5. ASSUME NEW x \in clusters, NEW y \in clusters, Origin(x) = Origin(y) PROVE x = y
  <2>1. PICK c \in x : c \in all /\ Origin(x) = ProcessingKey(c)
    BY <1>3
  <2>2. PICK d \in y : d \in all /\ Origin(y) = ProcessingKey(d)
    BY <1>3
  <2>3. c = d
    BY <1>1, <1>5, <2>1, <2>2, KeysOfCandidates
  <2>4. QED
    BY <1>1, <2>1, <2>2, <2>3
<1>6. key \in [clusters -> Keys(4)] /\ \A x, y \in clusters : key[x] = key[y] => x = y
  BY <1>4, <1>5
<1>7. \A x \in clusters : key[x] = Origin(x)
  OBVIOUS
<1> HIDE DEF key
<1>8. PICK order \in Bijection(1..Cardinality(clusters), clusters) :
        \A m, n \in DOMAIN order : m < n => KeyLess(key[order[m]], key[order[n]])
  BY <1>2, <1>6, SortedByKey
<1>9. \A n \in DOMAIN order : order[n] \in clusters
  BY <1>8 DEF Bijection, Injection
<1>10. \A m, n \in DOMAIN order : m < n => KeyLess(Origin(order[m]), Origin(order[n]))
  BY <1>7, <1>8, <1>9
<1>11. QED
  BY <1>2, <1>8, <1>10 DEF ByOrigin

\* What aggregate returns has one record per cluster, with the cluster's identifiers,
\* and prefers what an academic provider said: for any hits, sources and ranks.
THEOREM RecordsAreFaithful == AggregatorSpec => []RecordsFaithful
<1>1. ASSUME PapersInv PROVE Len(Aggregate) = Cardinality(clusters)
  <2> DEFINE N == Cardinality(clusters)
  <2>1. N \in Nat /\ ByOrigin \in [1..N -> clusters]
    BY <1>1, ClustersAreOrdered DEF Bijection, Injection
  <2>2. Aggregate = [n \in 1..N |-> MergeCluster(ByOrigin[n])]
    BY <2>1 DEF Aggregate
  <2> HIDE DEF N
  <2>3. Len([n \in 1..N |-> MergeCluster(ByOrigin[n])]) = N
    BY <2>1
  <2>4. QED
    BY <2>2, <2>3 DEF N
<1>2. PapersInv => RecordsFaithful
  BY <1>1, RecordOfCluster DEF RecordsFaithful
<1>3. QED
  BY <1>2, PapersInvariant, PTL

\* The result lists every cluster once, and a record stands before another because
\* one of its hits comes before all hits of the other in processing order.
RecordsOrdered ==
  /\ ByOrigin \in Bijection(1..Cardinality(clusters), clusters)
  /\ \A m, n \in 1..Cardinality(clusters) : m < n =>
       \E c \in ByOrigin[m] : \A d \in ByOrigin[n] : KeyLess(ProcessingKey(c), ProcessingKey(d))

\* The order of the result is well defined, for any hits, sources and ranks: no two
\* clusters are equal in it.
THEOREM RecordsAreOrdered == AggregatorSpec => []RecordsOrdered
<1>1. ASSUME PapersInv, NEW m \in 1..Cardinality(clusters), NEW n \in 1..Cardinality(clusters), m < n
      PROVE  \E c \in ByOrigin[m] : \A d \in ByOrigin[n] : KeyLess(ProcessingKey(c), ProcessingKey(d))
  <2> DEFINE x == ByOrigin[m]
             y == ByOrigin[n]
  <2>1. ByOrigin \in [1..Cardinality(clusters) -> clusters]
    BY <1>1, ClustersAreOrdered DEF Bijection, Injection
  <2>2. x \in clusters /\ y \in clusters /\ KeyLess(Origin(x), Origin(y))
    BY <1>1, <2>1, ClustersAreOrdered
  <2> HIDE DEF x, y
  <2>3. PICK c \in x : c \in Candidates(hits) /\ Origin(x) = ProcessingKey(c)
    BY <1>1, <2>2, OriginIs
  <2>4. PICK e \in y : /\ e \in Candidates(hits) /\ Origin(y) = ProcessingKey(e)
                       /\ \A d \in y \ {e} : KeyLess(ProcessingKey(e), ProcessingKey(d))
    BY <1>1, <2>2, OriginIs
  <2>5. ASSUME NEW d \in y PROVE KeyLess(ProcessingKey(c), ProcessingKey(d))
    <3>1. CASE d = e
      BY <2>2, <2>3, <2>4, <3>1
    <3>2. CASE d # e
      <4>1. hits \in BoundedSeq(HitPool, MaxHits) /\ d \in Candidates(hits)
        BY <1>1, <2>2 DEF PapersInv, CandidatesPlaced
      <4>2. /\ ProcessingKey(c) \in Keys(4) /\ ProcessingKey(d) \in Keys(4)
            /\ ProcessingKey(e) \in Keys(4)
        BY <2>3, <2>4, <4>1, KeysOfCandidates
      <4>3. KeyLess(ProcessingKey(c), ProcessingKey(e)) /\ KeyLess(ProcessingKey(e), ProcessingKey(d))
        BY <2>2, <2>3, <2>4, <3>2
      <4>4. QED
        BY <4>2, <4>3, KeysTransitive
    <3>3. QED
      BY <3>1, <3>2
  <2>6. QED
    BY <2>5 DEF x, y
<1>2. PapersInv => RecordsOrdered
  BY <1>1, ClustersAreOrdered DEF RecordsOrdered
<1>3. QED
  BY <1>2, PapersInvariant, PTL

-----------------------------------------------------------------------------
(* The order of arrival. *)

\* moved are the hits hs in another order, in which each source's hits come as before.
Reorders(perm, hs, moved) ==
  /\ perm \in Bijection(DOMAIN hs, DOMAIN hs)
  /\ \A i, j \in DOMAIN hs :
       i < j /\ hs[perm[i]].source = hs[perm[j]].source => perm[i] < perm[j]
  /\ moved = [n \in DOMAIN hs |-> hs[perm[n]]]

\* That leaves every discovery index as it was.
LEMMA IndexMoves ==
  ASSUME NEW hs \in BoundedSeq(HitPool, MaxHits), NEW perm, NEW moved, Reorders(perm, hs, moved),
         NEW n \in DOMAIN hs
  PROVE  DiscoveryIndex(moved, n) = DiscoveryIndex(hs, perm[n])
<1>1. PICK m \in Nat : DOMAIN hs = 1..m
  BY HitsAre
<1> DEFINE A == {k \in 1..n : moved[k].source = moved[n].source}
           B == {k \in 1..perm[n] : hs[k].source = hs[perm[n]].source}
           g == [k \in A |-> perm[k]]
<1>2. /\ perm \in [1..m -> 1..m]
      /\ \A i, j \in 1..m : perm[i] = perm[j] => i = j
      /\ \A j \in 1..m : \E i \in 1..m : perm[i] = j
  BY <1>1 DEF Reorders, Bijection, Injection, Surjection, IsInjective
<1>3. /\ n \in 1..m /\ \A k \in 1..m : moved[k] = hs[perm[k]]
      /\ \A i, j \in 1..m : i < j /\ hs[perm[i]].source = hs[perm[j]].source => perm[i] < perm[j]
  BY <1>1 DEF Reorders
<1>4. \A k \in A : k \in 1..m /\ k <= n /\ hs[perm[k]].source = hs[perm[n]].source
  BY <1>3
<1>5. ASSUME NEW k \in A PROVE perm[k] \in B
  <2>1. k \in 1..m /\ (k < n \/ k = n) /\ hs[perm[k]].source = hs[perm[n]].source
    BY <1>3, <1>4
  <2>2. perm[k] \in 1..m /\ perm[n] \in 1..m
    BY <1>2, <1>3, <2>1
  <2>3. perm[k] <= perm[n]
    BY <1>3, <2>1, <2>2
  <2>4. perm[k] \in 1..perm[n]
    BY <2>2, <2>3
  <2>5. QED
    BY <2>1, <2>4
<1>6. ASSUME NEW j \in B PROVE \E k \in A : perm[k] = j
  <2>1. perm[n] \in 1..m
    BY <1>2, <1>3
  <2>2. j \in 1..m /\ j <= perm[n] /\ hs[j].source = hs[perm[n]].source
    BY <2>1
  <2>3. PICK k \in 1..m : perm[k] = j
    BY <1>2, <2>2
  <2>4. ~(n < k)
    <3>1. n < k => perm[n] < perm[k]
      BY <1>3, <2>2, <2>3
    <3>2. QED
      BY <2>1, <2>2, <2>3, <3>1
  <2>5. k \in 1..n
    BY <1>3, <2>3, <2>4
  <2>6. QED
    BY <1>3, <2>2, <2>3, <2>5
<1>7. IsFiniteSet(A)
  <2>1. IsFiniteSet(1..n) /\ A \in SUBSET 1..n
    BY <1>3, FS_Interval
  <2>2. QED
    BY <2>1, FS_Subset
<1> HIDE DEF A, B
<1>8. g \in [A -> B] /\ \A k \in A : g[k] = perm[k]
  BY <1>5
<1> HIDE DEF g
<1>9. g \in Injection(A, B)
  <2>1. \A i, j \in A : g[i] = g[j] => i = j
    BY <1>2, <1>4, <1>8
  <2>2. QED
    BY <1>8, <2>1, Fun_IsInj
<1>10. g \in Surjection(A, B)
  <2>1. \A j \in B : \E k \in A : g[k] = j
    BY <1>6, <1>8
  <2>2. QED
    BY <1>8, <2>1, Fun_IsSurj
<1>11. ExistsBijection(A, B)
  BY <1>9, <1>10 DEF ExistsBijection, Bijection
<1>12. Cardinality(B) = Cardinality(A)
  BY <1>7, <1>11, FS_Bijection
<1>13. QED
  BY <1>12 DEF DiscoveryIndex, A, B

\* So the candidates are the same.
LEMMA CandidatesMove ==
  ASSUME NEW hs \in BoundedSeq(HitPool, MaxHits), NEW perm, NEW moved, Reorders(perm, hs, moved)
  PROVE  Candidates(moved) = Candidates(hs)
<1>1. PICK m \in Nat : DOMAIN hs = 1..m
  BY HitsAre
<1>2. /\ perm \in [1..m -> 1..m]
      /\ \A j \in 1..m : \E i \in 1..m : perm[i] = j
  BY <1>1 DEF Reorders, Bijection, Injection, Surjection, IsInjective
<1>3. DOMAIN moved = 1..m /\ \A n \in 1..m : moved[n] = hs[perm[n]]
  BY <1>1 DEF Reorders
<1>4. \A n \in 1..m : DiscoveryIndex(moved, n) = DiscoveryIndex(hs, perm[n])
  BY <1>1, IndexMoves
<1>5. ASSUME NEW n \in 1..m
      PROVE  /\ Candidate(moved, n) = Candidate(hs, perm[n])
             /\ Accepted(moved[n]) <=> Accepted(hs[perm[n]])
  <2>1. moved[n] = hs[perm[n]]
    BY <1>3
  <2>2. Candidate(moved, n) = Candidate(hs, perm[n])
    BY <1>4, <2>1 DEF Candidate
  <2>3. QED
    BY <2>1, <2>2
<1>6. ASSUME NEW c \in Candidates(moved) PROVE c \in Candidates(hs)
  <2>1. PICK n \in 1..m : Accepted(moved[n]) /\ c = Candidate(moved, n)
    BY <1>3 DEF Candidates
  <2>2. perm[n] \in 1..m /\ Accepted(hs[perm[n]]) /\ c = Candidate(hs, perm[n])
    BY <1>2, <1>5, <2>1
  <2>3. QED
    BY <1>1, <2>2 DEF Candidates
<1>7. ASSUME NEW c \in Candidates(hs) PROVE c \in Candidates(moved)
  <2>1. PICK j \in 1..m : Accepted(hs[j]) /\ c = Candidate(hs, j)
    BY <1>1 DEF Candidates
  <2>2. PICK n \in 1..m : perm[n] = j
    BY <1>2
  <2>3. Accepted(moved[n]) /\ c = Candidate(moved, n)
    BY <1>5, <2>1, <2>2
  <2>4. QED
    BY <1>3, <2>3 DEF Candidates
<1>8. QED
  BY <1>6, <1>7

\* In whatever order the sources answer, the same candidates are attached in the
\* same order: for any hits, sources and ranks.
THEOREM OrderOfArrivalIsIrrelevant == AggregatorSpec => []ArrivalOrderIrrelevant
<1>1. ASSUME PapersInv, NEW c \in pending, NEW d \in pending, c # d
      PROVE  \/ KeyLess(ProcessingKey(c), ProcessingKey(d))
             \/ KeyLess(ProcessingKey(d), ProcessingKey(c))
  <2>1. /\ hits \in BoundedSeq(HitPool, MaxHits)
        /\ c \in Candidates(hits) /\ d \in Candidates(hits)
    BY <1>1 DEF PapersInv, CandidatesPlaced
  <2>2. /\ ProcessingKey(c) \in Keys(4) /\ ProcessingKey(d) \in Keys(4)
        /\ ProcessingKey(c) # ProcessingKey(d)
    BY <1>1, <2>1, KeysOfCandidates
  <2>3. QED
    BY <2>2, KeysTotal
<1>2. ASSUME PapersInv, clusters = {}, refused = {},
             NEW perm \in Bijection(DOMAIN hits, DOMAIN hits),
             \A i, j \in DOMAIN hits :
               i < j /\ hits[perm[i]].source = hits[perm[j]].source => perm[i] < perm[j]
      PROVE  Candidates([n \in DOMAIN hits |-> hits[perm[n]]]) = pending
  <2>1. hits \in BoundedSeq(HitPool, MaxHits) /\ pending = Candidates(hits)
    BY <1>2 DEF PapersInv, CandidatesPlaced
  <2> DEFINE moved == [n \in DOMAIN hits |-> hits[perm[n]]]
  <2>2. Reorders(perm, hits, moved)
    BY <1>2 DEF Reorders
  <2> HIDE DEF moved
  <2>3. Candidates(moved) = pending
    BY <2>1, <2>2, CandidatesMove
  <2>4. QED
    BY <2>3 DEF moved
<1>3. PapersInv => ArrivalOrderIrrelevant
  BY <1>1, <1>2 DEF ArrivalOrderIrrelevant
<1>4. QED
  BY <1>3, PapersInvariant, PTL

\* c is the candidate that the loop of aggregate takes next.
TakenNext(c) == \A d \in pending \ {c} : KeyLess(ProcessingKey(c), ProcessingKey(d))

\* While candidates are left, exactly one of them is next.
NextIsDetermined ==
  pending # {} => \E c \in pending : \A d \in pending : TakenNext(d) <=> d = c

\* The loop never stops early and leaves no choice: with OrderOfArrivalIsIrrelevant,
\* the clusters are a function of what each source found.
THEOREM AggregationIsDetermined == AggregatorSpec => []NextIsDetermined
<1>1. ASSUME PapersInv, pending # {}
      PROVE  \E c \in pending : \A d \in pending : TakenNext(d) <=> d = c
  <2> DEFINE first == LeastBy(ProcessingKey, pending)
  <2>1. /\ hits \in BoundedSeq(HitPool, MaxHits) /\ IsFiniteSet(Candidates(hits))
        /\ pending \in SUBSET Candidates(hits)
    BY <1>1 DEF PapersInv, CandidatesPlaced
  <2>2. first \in pending /\ TakenNext(first)
    BY <1>1, <2>1, FirstProcessed DEF TakenNext
  <2> HIDE DEF first
  <2>3. ASSUME NEW d \in pending, TakenNext(d), d # first PROVE FALSE
    <3>1. KeyLess(ProcessingKey(first), ProcessingKey(d)) /\ KeyLess(ProcessingKey(d), ProcessingKey(first))
      BY <2>2, <2>3 DEF TakenNext
    <3>2. ProcessingKey(first) \in Keys(4) /\ ProcessingKey(d) \in Keys(4)
      BY <2>1, <2>2, KeysOfCandidates
    <3>3. KeyLess(ProcessingKey(d), ProcessingKey(d))
      BY <3>1, <3>2, KeysTransitive
    <3>4. QED
      BY <3>2, <3>3, KeysIrreflexive
  <2>4. QED
    BY <2>2, <2>3
<1>2. PapersInv => NextIsDetermined
  BY <1>1 DEF NextIsDetermined
<1>3. QED
  BY <1>2, PapersInvariant, PTL
=============================================================================
