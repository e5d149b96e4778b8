------------------------------ MODULE Gateway ------------------------------
(***************************************************************************)
(* The orchestrators of one daemon on its URL store: url_fetch requests,   *)
(* keyword searches, and the commits of LLM, agent and paper searches (of  *)
(* which TextSearch has the detail), interleaved at every suspension of    *)
(* the event loop.                                                         *)
(***************************************************************************)
EXTENDS UrlFetch, KeywordSearch

gatewayVars == <<storeVars, fetchVars, searchVars>>

\* The types of the store and of both orchestrators.
TypeOK == FetchTypeOK /\ SearchTypeOK

GatewayInit == StoreInit /\ FetchInit /\ SearchInit

FetchSteps(r) == FetchProgress(r) /\ UNCHANGED searchVars

Next ==
  \/ FetchNext /\ UNCHANGED searchVars
  \/ SearchNext /\ UNCHANGED fetchVars
  \/ \E found \in SUBSET Urls : AdmitBare(found) /\ UNCHANGED <<fetchVars, searchVars>>

GatewaySpec == GatewayInit /\ [][Next]_gatewayVars

\* The scheduler and the LLM stages return (every call under them has a
\* timeout), the event loop runs what they made ready, and the URL lock is
\* starvation-free (KeyedLock implements KeyedMutex with its fairness).
GatewayFairSpec ==
  /\ GatewaySpec
  /\ \A r \in Requests :
       WF_gatewayVars(FetchSteps(r)) /\ SF_gatewayVars(EnterLock(r) /\ UNCHANGED searchVars)
=============================================================================
