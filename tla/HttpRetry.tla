----------------------------- MODULE HttpRetry -----------------------------
(***************************************************************************)
(* Provider calls over HTTP.  HttpJsonExecutor (providers/http.py) retries *)
(* timeouts, transport errors and retryable statuses; the chat client      *)
(* (providers/llm/openai_chat.py) wraps it, under a lease of its quota, in *)
(* a second retry_async that retries malformed answers only; the LLM       *)
(* stages (llm/stages.py) judge the content.  Web and academic adapters    *)
(* use the executor alone.                                                 *)
(***************************************************************************)
EXTENDS Integers, FiniteSets

CONSTANTS Calls,
          MaxAttempts,  \* retry policy: max_attempts
          BaseDelay, MaxDelay,
          Capacity      \* max_concurrency of the LLM provider

ASSUME RetryAssumption ==
  /\ IsFiniteSet(Calls)
  /\ {MaxAttempts, Capacity} \subseteq Nat \ {0}
  /\ {BaseDelay, MaxDelay} \subseteq Nat

\* decision and text stages of an LLM, and the executor's two requests.
LlmKinds == {"decision", "text"}

Kinds == LlmKinds \cup {"request_json", "request_text"}

\* What a request may bring: a good answer; JSON that is no chat completion;
\* content that is no JSON object; an object that is no decision; no JSON;
\* 408, 429 or 5xx; another status outside 2xx; a timeout or transport error;
\* any other exception.
Replies == {"good", "no_choices", "no_object", "no_decision", "no_json",
            "retry_status", "status", "transport", "broken"}

VARIABLES
  call,     \* call[c]: phase, kind and attempt counters of the two loops
  leases,   \* calls that hold a lease of the LLM quota
  log       \* (history) log[c]: requests sent, time slept and consecutive HTTP
            \* failures

retryVars == <<call, leases, log>>

Ended == {"done", "failed", "cancelled"}

Phases == {"idle", "queued", "request", "http_sleep", "llm_sleep"} \cup Ended

\* The types of the calls and of their history.
RetryTypeOK ==
  /\ call \in [Calls -> [phase : Phases, kind : Kinds, http : 0..MaxAttempts, llm : 0..MaxAttempts]]
  /\ leases \subseteq Calls
  /\ log \in [Calls -> [sent : Nat, slept : Nat, streak : Nat]]

RetryInit ==
  /\ call = [c \in Calls |-> [phase |-> "idle", kind |-> "text", http |-> 0, llm |-> 0]]
  /\ leases = {}
  /\ log = [c \in Calls |-> [sent |-> 0, slept |-> 0, streak |-> 0]]

-----------------------------------------------------------------------------
\* The exceptions retryable for HttpJsonExecutor.
HttpRetryable == {"retry_status", "transport"}

\* request_json refuses a body that is no JSON; request_text takes any.
Undecodable(kind) == IF kind = "request_text" THEN {} ELSE {"no_json"}

\* _extract_content wants a completion with content, complete_json an object.
ContentRefused(kind) ==
  (IF kind \in LlmKinds THEN {"no_choices"} ELSE {})
    \cup (IF kind = "decision" THEN {"no_object"} ELSE {})

\* The replies that raise ProtocolFailure.
ProtocolFailures(kind) == Undecodable(kind) \cup ContentRefused(kind)

\* _parse_decision refuses an object without a Boolean ok, or with a reason that
\* is no string; this is no ProtocolFailure.
NoDecision(kind) == IF kind = "decision" THEN {"no_decision"} ELSE {}

\* Replies that end the call with a failure no loop retries.
Fatal(kind) == {"status", "broken"} \cup NoDecision(kind)

\* The delay after a failed attempt.
Delay(attempt) ==
  LET d == BaseDelay * 2^(attempt - 1) IN IF d < MaxDelay THEN d ELSE MaxDelay

\* retry_async goes round again after this attempt failed retryably.
Again(attempt) == attempt < MaxAttempts

\* Leaving `async with self._quota.lease()`, on every way out.
Release(c, phase) == leases' = leases \ {c}

\* The outcome leaves the client, and the stage hands it on whatever it is.
End(c, phase) ==
  /\ call' = [call EXCEPT ![c].phase = phase]
  /\ Release(c, phase)

Sleep(c, loop) ==
  /\ call' = [call EXCEPT ![c].phase = loop]
  /\ UNCHANGED leases

\* A call starts.  An invocation that _client or _validate_invocation refuses
\* (unknown provider, reserved body key) fails before it asks for a lease.
Start(c, kind, valid) ==
  /\ call[c].phase = "idle"
  /\ kind \notin LlmKinds => valid
  /\ call' = [call EXCEPT ![c] =
       [phase |-> IF ~valid THEN "failed" ELSE IF kind \in LlmKinds THEN "queued" ELSE "request",
        kind |-> kind, http |-> 1, llm |-> 1]]
  /\ log' = [log EXCEPT ![c].sent = IF kind \in LlmKinds THEN 0 ELSE 1]
  /\ UNCHANGED leases

\* Mutant of Lease: off by one.
LeaseStrict(c) ==
  /\ call[c].phase = "queued"
  /\ Cardinality(leases) + 1 < Capacity
  /\ leases' = leases \cup {c}
  /\ call' = [call EXCEPT ![c].phase = "request"]
  /\ log' = [log EXCEPT ![c].sent = 1]

\* The lease is there: the first request is sent.
Lease(c) ==
  /\ call[c].phase = "queued"
  /\ Cardinality(leases) < Capacity
  /\ leases' = leases \cup {c}
  /\ call' = [call EXCEPT ![c].phase = "request"]
  /\ log' = [log EXCEPT ![c].sent = 1]

\* Mutant of Verdict: the outer loop retries every failure.
VerdictGreedy(c, reply) ==
  CASE reply \in HttpRetryable /\ Again(call[c].http) -> "http_sleep"
    [] reply \in HttpRetryable \cup ProtocolFailures(call[c].kind) /\ call[c].kind \in LlmKinds
         /\ Again(call[c].llm) -> "llm_sleep"
    [] OTHER -> IF reply \in HttpRetryable \cup ProtocolFailures(call[c].kind) \cup Fatal(call[c].kind)
                THEN "failed" ELSE "done"

\* Where an answer leads: the executor's loop sees it first, and what it gives
\* up is no ProtocolFailure, so the chat client's loop does not retry it.
Verdict(c, reply) ==
  CASE reply \in HttpRetryable ->
         IF Again(call[c].http) THEN "http_sleep" ELSE "failed"
    [] reply \in ProtocolFailures(call[c].kind) ->
         IF call[c].kind \in LlmKinds /\ Again(call[c].llm) THEN "llm_sleep" ELSE "failed"
    [] reply \in Fatal(call[c].kind) -> "failed"
    [] OTHER -> "done"

\* An attempt of _request_response ends.
Replied(c, reply) ==
  LET next == Verdict(c, reply)
      attempt == IF next = "http_sleep" THEN call[c].http ELSE call[c].llm
  IN
  /\ call[c].phase = "request"
  /\ IF next \in Ended THEN End(c, next) ELSE Sleep(c, next)
  /\ log' = [log EXCEPT ![c].streak = IF reply \in HttpRetryable THEN @ + 1 ELSE 0,
                        ![c].slept = IF next \in Ended THEN @ ELSE @ + Delay(attempt)]

\* The backoff is over: the next attempt; the outer loop starts a new inner one.
Wake(c) ==
  /\ call[c].phase \in {"http_sleep", "llm_sleep"}
  /\ LET inner == call[c].phase = "http_sleep" IN
     call' = [call EXCEPT ![c].phase = "request",
                          ![c].http = IF inner THEN @ + 1 ELSE 1,
                          ![c].llm = IF inner THEN @ ELSE @ + 1]
  /\ log' = [log EXCEPT ![c].sent = @ + 1]
  /\ UNCHANGED leases

\* CancelledError reaches the call, in the queue, a request or a backoff; no
\* loop retries it.
Cancel(c) ==
  /\ call[c].phase \in Phases \ ({"idle"} \cup Ended)
  /\ End(c, "cancelled")
  /\ UNCHANGED log

\* Requests have a timeout and timers fire, so this always goes on.
Progress(c) == Lease(c) \/ Wake(c) \/ \E reply \in Replies : Replied(c, reply)

RetryNext ==
  \E c \in Calls :
    \/ \E kind \in Kinds, valid \in BOOLEAN : Start(c, kind, valid)
    \/ Progress(c)
    \/ Cancel(c)

RetrySpec == RetryInit /\ [][RetryNext]_retryVars /\ \A c \in Calls : WF_retryVars(Progress(c))

-----------------------------------------------------------------------------
\* A call costs at most max_attempts squared requests, and backoffs between
\* them; without the outer loop at most max_attempts.  The nested loops do not
\* multiply the retries of one kind of failure: no call meets more than
\* max_attempts HTTP failures in a row.
CallBudget ==
  \A c \in Calls :
    LET n == IF call[c].kind \in LlmKinds THEN MaxAttempts * MaxAttempts ELSE MaxAttempts IN
    /\ log[c].sent <= n
    /\ log[c].slept <= (n - 1) * MaxDelay
    /\ log[c].streak <= MaxAttempts

\* Every call that has started ends, the ones that wait for a lease too: no way
\* out of a call keeps its lease.
CallsEnd == \A c \in Calls : call[c].phase \notin {"idle"} \cup Ended ~> call[c].phase \in Ended
=============================================================================
