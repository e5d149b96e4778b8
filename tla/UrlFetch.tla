------------------------------ MODULE UrlFetch ------------------------------
(***************************************************************************)
(* url_fetch of orchestrators/fetch.py: concurrent requests for admitted   *)
(* URLs, merged by SingleflightGroup when URL and focus are equal and      *)
(* serialized per URL by PerKeyLockPool (here by what KeyedMutex promises  *)
(* of it).  A step is what a coroutine runs between two suspensions; it is *)
(* suspended in the lock, in the fetch scheduler or in an LLM stage.       *)
(*                                                                         *)
(* The scheduler appears by its outcomes; how it reaches them is in        *)
(* FetchScheduler.                                                         *)
(***************************************************************************)
EXTENDS UrlStore

CONSTANTS Requests,          \* url_fetch calls
          Focuses,           \* focus strings
          NoFocus,           \* the focus of a request without one
          UrlOf, FocusOf,    \* what each request asks for
          FetchProviders,    \* scheduler.provider_names
          NoRequest

ASSUME RequestAssumption ==
  /\ UrlOf \in [Requests -> Urls]
  /\ FocusOf \in [Requests -> Focuses \cup {NoFocus}]
  /\ NoFocus \notin Focuses
  /\ NoRequest \notin Requests

VARIABLES
  phase,      \* phase[r]: where the coroutine of r is suspended
  text,       \* text[r]: the body r's current LLM stage works on
  outcome,    \* outcome[r]: what url_fetch returned or raised for r
  leader,     \* leader[r]: whose future r's request uses
  inflight,   \* inflight[u, f]: the request whose future the group holds
  holder,     \* holder[u]: the request inside the URL lock of u
  safe,       \* (history) pairs <<r, t>>: t passed r's safety stage
  accepted,   \* (history) accepted[u]: requests that got a provider body
  cancelled   \* (history) requests that were cancelled

fetchVars == <<phase, text, outcome, leader, inflight, holder, safe, accepted, cancelled>>

Phases == {"idle", "follower", "lock", "fetch", "clean", "safety", "focus", "done"}

\* The phases inside the URL lock.
Working == {"fetch", "clean", "safety", "focus"}

\* "content" and "summary" carry the text they serve or summarize.
Outcomes ==
  [kind : {"none", "error", "unavailable", "cancelled"}, text : {NoText}]
    \cup [kind : {"content", "summary"}, text : Bodies]

Result(k, t) == [kind |-> k, text |-> t]

KeySet == Urls \X (Focuses \cup {NoFocus})

Key(r) == <<UrlOf[r], FocusOf[r]>>

FetchTypeOK ==
  /\ phase \in [Requests -> Phases]
  /\ text \in [Requests -> Bodies]
  /\ outcome \in [Requests -> Outcomes]
  /\ leader \in [Requests -> Requests \cup {NoRequest}]
  /\ inflight \in [KeySet -> Requests \cup {NoRequest}]
  /\ holder \in [Urls -> Requests \cup {NoRequest}]
  /\ safe \subseteq Requests \X Bodies
  /\ accepted \in [Urls -> SUBSET Requests]
  /\ cancelled \subseteq Requests

FetchInit ==
  /\ phase = [r \in Requests |-> "idle"]
  /\ text = [r \in Requests |-> NoText]
  /\ outcome = [r \in Requests |-> Result("none", NoText)]
  /\ leader = [r \in Requests |-> NoRequest]
  /\ inflight = [k \in KeySet |-> NoRequest]
  /\ holder = [u \in Urls |-> NoRequest]
  /\ safe = {}
  /\ accepted = [u \in Urls |-> {}]
  /\ cancelled = {}

-----------------------------------------------------------------------------
\* Mutant of Finish: a failed workflow does not release the URL lock.
FinishKeepsLock(r, result) ==
  /\ phase' = [phase EXCEPT ![r] = "done"]
  /\ text' = [text EXCEPT ![r] = NoText]
  /\ outcome' = [outcome EXCEPT ![r] = result]
  /\ inflight' = [inflight EXCEPT ![Key(r)] = NoRequest]
  /\ holder' = [holder EXCEPT ![UrlOf[r]] =
                  IF @ = r /\ result.kind # "error" THEN NoRequest ELSE @]

\* The workflow of leader r ends: the lock is released, the future gets the
\* result, exception or cancellation, and _cleanup removes it from the group.
Finish(r, result) ==
  /\ phase' = [phase EXCEPT ![r] = "done"]
  /\ text' = [text EXCEPT ![r] = NoText]
  /\ outcome' = [outcome EXCEPT ![r] = result]
  /\ inflight' = [inflight EXCEPT ![Key(r)] = NoRequest]
  /\ holder' = [holder EXCEPT ![UrlOf[r]] = IF @ = r THEN NoRequest ELSE @]

\* Leader r suspends inside the lock, in the scheduler or in an LLM stage.
Suspend(r, ph, t) ==
  /\ phase' = [phase EXCEPT ![r] = ph]
  /\ text' = [text EXCEPT ![r] = t]
  /\ inflight' = [inflight EXCEPT ![Key(r)] = r]
  /\ holder' = [holder EXCEPT ![UrlOf[r]] = r]
  /\ UNCHANGED outcome

\* Mutant of NextStage: a raw body in the store does not spare the providers.
NextStageRefetch(record) == IF record.content # NoText THEN "safety" ELSE "fetch"

\* _prepare_content: what has to be done next for a record.
NextStage(record) ==
  IF record.content # NoText THEN "safety"
  ELSE IF record.raw_content # NoText THEN "clean"
  ELSE "fetch"

\* Go on with the next stage of a record, on the body that stage reads.
Continue(r, record) ==
  Suspend(r, NextStage(record), FirstNonEmpty(record.content, record.raw_content))

\* _serialized_url_fetch and _prepare_content from the moment the lock is
\* held up to the first suspension, or to the end if there is none.
RunLocked(r) ==
  LET record == store[UrlOf[r]] IN
  IF ~record.admitted THEN Finish(r, Result("error", NoText))
  ELSE IF ~record.available THEN Finish(r, Result("unavailable", NoText))
  ELSE IF NextStage(record) = "fetch" /\ FetchProviders = {}
       THEN Finish(r, Result("error", NoText))
  ELSE Continue(r, record)

\* Mutant of Busy: the holder of the lock is not looked at.
BusyQueueOnly(u) == \E q \in Requests : phase[q] = "lock" /\ UrlOf[q] = u

\* The lock of u is held, or others are queued for it.
Busy(u) ==
  holder[u] # NoRequest \/ \E q \in Requests : phase[q] = "lock" /\ UrlOf[q] = u

\* SingleflightGroup.do finds a future for the key: wait for it.
Join(r) ==
  /\ phase[r] = "idle"
  /\ inflight[Key(r)] # NoRequest
  /\ phase' = [phase EXCEPT ![r] = "follower"]
  /\ leader' = [leader EXCEPT ![r] = inflight[Key(r)]]
  /\ UNCHANGED <<storeVars, text, outcome, inflight, holder, safe, accepted, cancelled>>

\* SingleflightGroup.do finds none: lead, and enter or queue for the URL lock.
Lead(r) ==
  /\ phase[r] = "idle"
  /\ inflight[Key(r)] = NoRequest
  /\ leader' = [leader EXCEPT ![r] = r]
  /\ \/ /\ ~Busy(UrlOf[r])
        /\ RunLocked(r)
     \/ /\ Busy(UrlOf[r])
        /\ phase' = [phase EXCEPT ![r] = "lock"]
        /\ inflight' = [inflight EXCEPT ![Key(r)] = r]
        /\ UNCHANGED <<text, outcome, holder>>
  /\ UNCHANGED <<storeVars, safe, accepted, cancelled>>

\* A queued leader gets the lock.
EnterLock(r) ==
  /\ phase[r] = "lock"
  /\ holder[UrlOf[r]] = NoRequest
  /\ RunLocked(r)
  /\ UNCHANGED <<storeVars, leader, safe, accepted, cancelled>>

\* The scheduler ends in execution_failure or raises a judge failure, or the
\* LLM call of a stage fails: the store is left alone.
StageFailed(r) ==
  /\ phase[r] \in Working
  /\ Finish(r, Result("error", NoText))
  /\ UNCHANGED <<storeVars, leader, safe, accepted, cancelled>>

\* The scheduler ends in semantic_failure, or the safety stage says no.
Rejected(r) ==
  /\ phase[r] \in {"fetch", "safety"}
  /\ MarkUnavailable(UrlOf[r])
  /\ Finish(r, Result("unavailable", NoText))
  /\ UNCHANGED <<vetted, leader, safe, accepted, cancelled>>

\* Mutant of Candidate: the raw body is judged, whatever the clean one is.
CandidateRaw(raw, clean) == raw

\* The body the judge sees: the clean one if there is one.
Candidate(raw, clean) == FirstNonEmpty(clean, raw)

\* The scheduler ends in accepted, with a raw body that is not empty: merge,
\* and let what the store has afterwards decide how to go on, since a search
\* may have committed a body meanwhile.
FetchAccepted(r, raw, clean) ==
  LET u == UrlOf[r] IN
  /\ phase[r] = "fetch"
  /\ CheapCheck(Candidate(raw, clean))
  /\ vetted' = vetted \cup {Candidate(raw, clean)}
  /\ MergeBody(u, raw, clean)
  /\ accepted' = [accepted EXCEPT ![u] = @ \cup {r}]
  /\ Continue(r, MergedBody(store[u], raw, clean))
  /\ UNCHANGED <<leader, safe, cancelled>>

\* Mutant of CleanDone: the safety stage gets the cleaned text, not what the
\* store holds after the merge.
CleanDoneOwnText(r, cleaned) ==
  LET u == UrlOf[r] IN
  /\ phase[r] = "clean"
  /\ vetted' = IF text[r] \in vetted THEN vetted \cup {cleaned} ELSE vetted
  /\ MergeBody(u, NoText, cleaned)
  /\ Suspend(r, "safety", cleaned)
  /\ UNCHANGED <<leader, safe, accepted, cancelled>>

\* content_clean returned (never empty): merge, and go on with the clean body
\* the store has now.
CleanDone(r, cleaned) ==
  LET u == UrlOf[r] IN
  /\ phase[r] = "clean"
  /\ vetted' = IF text[r] \in vetted THEN vetted \cup {cleaned} ELSE vetted
  /\ MergeBody(u, NoText, cleaned)
  /\ Continue(r, MergedBody(store[u], NoText, cleaned))
  /\ UNCHANGED <<leader, safe, accepted, cancelled>>

\* The safety stage says yes: serve, or summarize first.
SafetyPassed(r) ==
  /\ phase[r] = "safety"
  /\ safe' = safe \cup {<<r, text[r]>>}
  /\ IF FocusOf[r] = NoFocus THEN Finish(r, Result("content", text[r]))
     ELSE Suspend(r, "focus", text[r])
  /\ UNCHANGED <<storeVars, leader, accepted, cancelled>>

\* focus_summary returned.
FocusDone(r) ==
  /\ phase[r] = "focus"
  /\ Finish(r, Result("summary", text[r]))
  /\ UNCHANGED <<storeVars, leader, safe, accepted, cancelled>>

\* The leader's future is done: the follower returns or raises the same.
FollowerDone(r) ==
  /\ phase[r] = "follower"
  /\ outcome[leader[r]].kind # "none"
  /\ phase' = [phase EXCEPT ![r] = "done"]
  /\ outcome' = [outcome EXCEPT ![r] = outcome[leader[r]]]
  /\ UNCHANGED <<storeVars, text, leader, inflight, holder, safe, accepted, cancelled>>

\* Mutant of CancelRequest: the shared future is awaited without shield, so a
\* cancelled follower cancels it for everyone.
CancelRequestUnshielded(r) ==
  /\ phase[r] \notin {"idle", "done"}
  /\ cancelled' = cancelled \cup {r}
  /\ IF phase[r] = "follower"
     THEN /\ phase' = [phase EXCEPT ![r] = "done"]
          /\ outcome' = [outcome EXCEPT ![r] = Result("cancelled", NoText),
                                       ![leader[r]] = Result("cancelled", NoText)]
          /\ UNCHANGED <<text, inflight, holder>>
     ELSE Finish(r, Result("cancelled", NoText))
  /\ UNCHANGED <<storeVars, leader, safe, accepted>>

\* CancelledError is raised where r is suspended.  A follower only stops
\* waiting (shield); a leader leaves queue or lock and cancels its future.
CancelRequest(r) ==
  /\ phase[r] \notin {"idle", "done"}
  /\ cancelled' = cancelled \cup {r}
  /\ IF phase[r] = "follower"
     THEN /\ phase' = [phase EXCEPT ![r] = "done"]
          /\ outcome' = [outcome EXCEPT ![r] = Result("cancelled", NoText)]
          /\ UNCHANGED <<text, inflight, holder>>
     ELSE Finish(r, Result("cancelled", NoText))
  /\ UNCHANGED <<storeVars, leader, safe, accepted>>

\* A step of r that some awaited call has made possible.
FetchProgress(r) ==
  \/ EnterLock(r)
  \/ StageFailed(r)
  \/ Rejected(r)
  \/ \E raw \in Bodies \ {NoText}, clean \in Bodies : FetchAccepted(r, raw, clean)
  \/ \E cleaned \in StageTexts : CleanDone(r, cleaned)
  \/ SafetyPassed(r)
  \/ FocusDone(r)
  \/ FollowerDone(r)

FetchNext == \E r \in Requests : Join(r) \/ Lead(r) \/ FetchProgress(r) \/ CancelRequest(r)

-----------------------------------------------------------------------------
\* Whatever is served has been judged and has passed the safety stage of the
\* very workflow that serves it, and it is the clean body the store keeps for
\* this URL, though searches write to the store without taking the lock.
ServedIsChecked ==
  \A r \in Requests :
    outcome[r].kind \in {"content", "summary"} =>
      /\ outcome[r].text \in vetted
      /\ <<leader[r], outcome[r].text>> \in safe
      /\ outcome[r].text = store[UrlOf[r]].content

\* However many requests ask for a URL, with whatever focus, the providers
\* deliver an accepted body for it at most once.
OneProviderBody ==
  \A u \in Urls : \A r, q \in accepted[u] : r = q

\* Cancelling one request never cancels an unrelated one: only the cancelled
\* request and the followers of its future see CancelledError.
CancellationIsScoped ==
  \A r \in Requests :
    outcome[r].kind = "cancelled" => r \in cancelled \/ leader[r] \in cancelled

\* Every request ends: the queue for a URL lock, the singleflight future and
\* the stages never leave one hanging.
RequestsEnd == \A r \in Requests : phase[r] # "idle" ~> phase[r] = "done"

\* The URL lock is used as KeyedMutex prescribes.
UrlLock == INSTANCE KeyedMutex WITH
  Tasks <- Requests,
  Keys <- Urls,
  NoKey <- NoRequest,
  pc <- [r \in Requests |-> IF phase[r] = "lock" THEN "waiting"
                            ELSE IF holder[UrlOf[r]] = r THEN "inside" ELSE "out"],
  key <- [r \in Requests |-> IF phase[r] = "lock" \/ holder[UrlOf[r]] = r
                             THEN UrlOf[r] ELSE NoRequest]

UsesUrlLock == UrlLock!Spec
=============================================================================
