------------------------------ MODULE UrlStore ------------------------------
(***************************************************************************)
(* URLStore of url_store.py: the daemon's in-memory record of every URL    *)
(* that a search admitted.  A record collects a raw body and a clean body  *)
(* (each kept once it is there) and an availability flag.  The abstract is *)
(* left out: it is never empty in a record and nothing here depends on it. *)
(*                                                                         *)
(* Bodies are texts.  Blank stands for text that is not empty but has only *)
(* white space: Python's `or` takes it, cheap_check rejects it.            *)
(***************************************************************************)
CONSTANTS Urls,     \* normalized URLs
          Texts,    \* bodies with something in them
          Blank,    \* a body of white space
          NoText    \* the empty string

ASSUME TextAssumption == Blank \notin Texts /\ NoText \notin Texts /\ Blank # NoText

VARIABLES
  store,    \* store[u]: the URLRecord of u
  vetted    \* (history) texts the judge accepted, or content_clean made of those

storeVars == <<store, vetted>>

Bodies == Texts \cup {Blank, NoText}

Records ==
  [admitted : BOOLEAN, raw_content : Bodies, content : Bodies, available : BOOLEAN]

StoreTypeOK ==
  /\ store \in [Urls -> Records]
  /\ vetted \subseteq Texts

\* No record of u: _records.get(u) is None.
NoRecord ==
  [admitted |-> FALSE, raw_content |-> NoText, content |-> NoText, available |-> TRUE]

StoreInit ==
  /\ store = [u \in Urls |-> NoRecord]
  /\ vetted = {}

-----------------------------------------------------------------------------
\* Mutant of FirstNonEmpty: the newest text wins.
LastNonEmpty(existing, candidate) == IF candidate # NoText THEN candidate ELSE existing

\* _first_non_empty, and Python's `existing or candidate`.
FirstNonEmpty(existing, candidate) == IF existing # NoText THEN existing ELSE candidate

\* cheap_check: something is left when the white space is stripped.
CheapCheck(text) == text \notin {Blank, NoText}

\* What an LLM stage may return: a text stage strips its answer and refuses an
\* empty one, a decision stage takes nothing but a Boolean ok.
StageTexts == Texts

StageDecisions == BOOLEAN

\* The record after merge_body.
MergedBody(record, raw, clean) ==
  [record EXCEPT !.raw_content = FirstNonEmpty(@, raw),
                 !.content = FirstNonEmpty(@, clean)]

\* The record after admit: created, or merged like a body.
AdmittedRecord(record, raw, clean) ==
  [MergedBody(record, raw, clean) EXCEPT !.admitted = TRUE]

MergeBody(u, raw, clean) == store' = [store EXCEPT ![u] = MergedBody(@, raw, clean)]

\* Searches without bodies admit the URLs they found in one step.
AdmitBare(found) ==
  /\ store' = [u \in Urls |-> IF u \in found THEN AdmittedRecord(store[u], NoText, NoText)
                              ELSE store[u]]
  /\ UNCHANGED vetted

\* mark_unavailable: there is no operation that clears it.
MarkUnavailable(u) == store' = [store EXCEPT ![u].available = FALSE]

-----------------------------------------------------------------------------
\* What may be shown to a user or given to content_clean has been judged: a
\* record's clean body is vetted, and while there is none its raw body is.
\* (The raw body that comes with a clean one is not judged, and never used.)
BodiesVetted ==
  \A u \in Urls :
    /\ store[u].content # NoText => store[u].content \in vetted
    /\ store[u].content = NoText /\ store[u].raw_content # NoText
         => store[u].raw_content \in vetted

\* Records only grow: no step of any workflow replaces a body that is there,
\* makes an unavailable URL available again, or forgets a URL.
RecordsOnlyGrow ==
  [][\A u \in Urls :
       /\ store[u].raw_content # NoText => store'[u].raw_content = store[u].raw_content
       /\ store[u].content # NoText => store'[u].content = store[u].content
       /\ ~store[u].available => ~store'[u].available
       /\ store[u].admitted => store'[u].admitted]_storeVars
=============================================================================
