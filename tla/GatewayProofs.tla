--------------------------- MODULE GatewayProofs ---------------------------
(***************************************************************************)
(* The URL store, the url_fetch requests and the keyword searches together, *)
(* for any URLs, requests, focuses, texts, searches and answers of the     *)
(* providers.                                                              *)
(***************************************************************************)
EXTENDS Gateway, WellFoundedInduction, SequenceTheorems, TLAPS

-----------------------------------------------------------------------------
(* The inductive invariant. *)

\* A leader that has not finished: its future is in the group.
Leading == {"lock"} \cup Working

\* Singleflight and the URL lock.  A request leads or follows a leader of its own
\* key; the group holds exactly the futures of the leaders that have not
\* finished, and the lock of a URL is held by the one that works on it.
FlightInv ==
  /\ \A r \in Requests :
       /\ phase[r] = "idle" => leader[r] = NoRequest
       /\ phase[r] \in Leading => leader[r] = r /\ inflight[Key(r)] = r
       /\ phase[r] \in Working <=> holder[UrlOf[r]] = r
       /\ phase[r] \in {"follower", "done"} =>
            /\ leader[r] \in Requests /\ Key(leader[r]) = Key(r)
            /\ leader[leader[r]] = leader[r]
       /\ phase[r] = "follower" => leader[r] # r
       /\ outcome[r].kind # "none" <=> phase[r] = "done"
  /\ \A k \in KeySet : inflight[k] # NoRequest =>
       Key(inflight[k]) = k /\ phase[inflight[k]] \in Leading
  /\ \A u \in Urls : holder[u] # NoRequest => UrlOf[holder[u]] = u

\* What a suspended leader works on, and what a request ended with, though
\* searches write to the store meanwhile.
RequestInv(r) ==
  /\ phase[r] = "clean" => text[r] \in vetted
  /\ phase[r] \in {"safety", "focus"} =>
       text[r] # NoText /\ text[r] = store[UrlOf[r]].content
  /\ phase[r] = "focus" => <<r, text[r]>> \in safe
  /\ phase[r] = "fetch" => accepted[UrlOf[r]] = {}
  /\ outcome[r].kind \in {"content", "summary"} =>
       /\ outcome[r].text \in vetted
       /\ <<leader[r], outcome[r].text>> \in safe
       /\ outcome[r].text = store[UrlOf[r]].content
  /\ outcome[r].kind = "cancelled" => r \in cancelled \/ leader[r] \in cancelled

\* A URL whose providers delivered has a raw body, and they delivered once.
AcceptedInv ==
  /\ \A u \in Urls : accepted[u] # {} => store[u].raw_content # NoText
  /\ OneProviderBody

\* What may follow from a record or a hit with these bodies is among the judged
\* texts.
VettedIn(judged, raw, clean) ==
  /\ clean # NoText => clean \in judged
  /\ clean = NoText /\ raw # NoText => raw \in judged

Vetted(raw, clean) == VettedIn(vetted, raw, clean)

\* Everything a keyword pipeline has staged has been judged, or is bare; what it
\* waits for the judge about is a body with something in it.
PipeInv ==
  \A s \in Searches, p \in Providers :
    /\ \A i \in DOMAIN pipe[s][p].staged :
         Vetted(pipe[s][p].staged[i].raw_content, pipe[s][p].staged[i].content)
    /\ pipe[s][p].phase = "judge" =>
         pipe[s][p].hits # <<>> /\ Judged(Head(pipe[s][p].hits)) # NoText

\* The inductive invariant of the gateway.
GatewayInv ==
  /\ TypeOK /\ FlightInv /\ AcceptedInv /\ PipeInv /\ BodiesVetted
  /\ \A r \in Requests : RequestInv(r)

\* Nothing has been asked for or found.
LEMMA GatewayInitial == GatewayInit => GatewayInv
<1> SUFFICES ASSUME GatewayInit PROVE GatewayInv
  OBVIOUS
<1> USE DEF GatewayInit
<1>1. FetchTypeOK
  BY DEF FetchInit, FetchTypeOK, Phases, Bodies, Outcomes, Result
<1>2. SearchTypeOK
  <2>1. StoreTypeOK
    BY DEF StoreInit, StoreTypeOK, NoRecord, Records, Bodies
  <2>2. Pipe("none") \in Pipelines
    BY EmptySeq DEF Pipe, Pipelines
  <2>3. QED
    BY <2>1, <2>2 DEF SearchInit, SearchTypeOK
<1>3. FlightInv
  BY RequestAssumption DEF FetchInit, FlightInv, Leading, Working, Result
<1>4. AcceptedInv
  BY DEF FetchInit, AcceptedInv, OneProviderBody
<1>5. PipeInv
  BY DEF SearchInit, PipeInv, Pipe
<1>6. BodiesVetted
  BY DEF StoreInit, BodiesVetted, NoRecord
<1>7. \A r \in Requests : RequestInv(r)
  BY DEF FetchInit, RequestInv, Result
<1>8. QED
  BY <1>1, <1>2, <1>3, <1>4, <1>5, <1>6, <1>7 DEF GatewayInv, TypeOK

-----------------------------------------------------------------------------
(* The store. *)

\* A record becomes another one by growing.
GrowsTo(old, new) ==
  /\ old.raw_content # NoText => new.raw_content = old.raw_content
  /\ old.content # NoText => new.content = old.content
  /\ ~old.available => ~new.available
  /\ old.admitted => new.admitted

\* A step lets the store, and the history of what was judged, grow.
StoreGrows == vetted \subseteq vetted' /\ \A u \in Urls : GrowsTo(store[u], store'[u])

\* merge_body gives a record its first raw and its first clean body.
LEMMA MergedBodyGrows ==
  ASSUME NEW record \in Records, NEW raw \in Bodies, NEW clean \in Bodies
  PROVE  /\ MergedBody(record, raw, clean) \in Records
         /\ GrowsTo(record, MergedBody(record, raw, clean))
         /\ MergedBody(record, raw, clean).raw_content = FirstNonEmpty(record.raw_content, raw)
         /\ MergedBody(record, raw, clean).content = FirstNonEmpty(record.content, clean)
BY DEF MergedBody, Records, GrowsTo, FirstNonEmpty

\* admit merges the same way.
LEMMA AdmittedRecordGrows ==
  ASSUME NEW record \in Records, NEW raw \in Bodies, NEW clean \in Bodies
  PROVE  /\ AdmittedRecord(record, raw, clean) \in Records
         /\ GrowsTo(record, AdmittedRecord(record, raw, clean))
         /\ AdmittedRecord(record, raw, clean).raw_content = FirstNonEmpty(record.raw_content, raw)
         /\ AdmittedRecord(record, raw, clean).content = FirstNonEmpty(record.content, clean)
<1> DEFINE m == MergedBody(record, raw, clean)
           a == [m EXCEPT !.admitted = TRUE]
<1>1. /\ m \in Records /\ GrowsTo(record, m)
      /\ m.raw_content = FirstNonEmpty(record.raw_content, raw)
      /\ m.content = FirstNonEmpty(record.content, clean)
  BY MergedBodyGrows
<1> HIDE DEF m
<1>2. /\ a \in Records /\ a.raw_content = m.raw_content /\ a.content = m.content
      /\ a.available = m.available /\ a.admitted
  BY <1>1 DEF Records
<1> HIDE DEF a
<1>3. GrowsTo(record, a)
  BY <1>1, <1>2 DEF GrowsTo
<1>4. AdmittedRecord(record, raw, clean) = a
  BY DEF AdmittedRecord, a, m
<1>5. QED
  BY <1>1, <1>2, <1>3, <1>4

\* A body that may follow from what has been judged has been judged: the clean
\* one of a record wins over what is merged into it, and while there is none both
\* raw bodies are judged.
LEMMA MergeVets ==
  ASSUME NEW raw \in Bodies, NEW clean \in Bodies, NEW raw2 \in Bodies, NEW clean2 \in Bodies,
         Vetted(raw, clean), Vetted(raw2, clean2)
  PROVE  Vetted(FirstNonEmpty(raw, raw2), FirstNonEmpty(clean, clean2))
BY DEF Vetted, VettedIn, FirstNonEmpty

\* A searches' commit without bodies, for all of its URLs.
LEMMA AdmitBareGrows ==
  ASSUME GatewayInv, NEW found \in SUBSET Urls, AdmitBare(found)
  PROVE  StoreTypeOK' /\ StoreGrows /\ BodiesVetted'
<1>1. StoreTypeOK
  BY DEF GatewayInv, TypeOK, SearchTypeOK
<1>2. ASSUME NEW u \in Urls
      PROVE  /\ store'[u] \in Records /\ GrowsTo(store[u], store'[u])
             /\ store'[u].raw_content = store[u].raw_content
             /\ store'[u].content = store[u].content
  <2>1. store[u] \in Records /\ NoText \in Bodies
    BY <1>1 DEF StoreTypeOK, Bodies
  <2>2. /\ AdmittedRecord(store[u], NoText, NoText) \in Records
        /\ GrowsTo(store[u], AdmittedRecord(store[u], NoText, NoText))
        /\ AdmittedRecord(store[u], NoText, NoText).raw_content = store[u].raw_content
        /\ AdmittedRecord(store[u], NoText, NoText).content = store[u].content
    BY <2>1, AdmittedRecordGrows DEF FirstNonEmpty
  <2>3. GrowsTo(store[u], store[u])
    BY DEF GrowsTo
  <2>4. store'[u] = IF u \in found THEN AdmittedRecord(store[u], NoText, NoText) ELSE store[u]
    BY DEF AdmitBare
  <2>5. QED
    BY <2>1, <2>2, <2>3, <2>4
<1>3. vetted' = vetted /\ store' = [u \in Urls |-> store'[u]]
  BY DEF AdmitBare
<1>4. StoreTypeOK' /\ StoreGrows
  BY <1>1, <1>2, <1>3 DEF StoreTypeOK, StoreGrows
<1>5. BodiesVetted'
  BY <1>2, <1>3 DEF GatewayInv, BodiesVetted
<1>6. QED
  BY <1>4, <1>5

-----------------------------------------------------------------------------
(* Singleflight and the URL lock. *)

\* Leader r starts or goes on: it is about to lead with no future of its key in
\* the group, or it has been leading.
Leads(r) ==
  \/ phase[r] = "idle" /\ inflight[Key(r)] = NoRequest /\ leader' = [leader EXCEPT ![r] = r]
  \/ phase[r] \in Leading /\ leader' = leader

\* What the type invariant and the assumptions say of requests and keys.
LEMMA RequestTypes ==
  ASSUME GatewayInv, NEW r \in Requests
  PROVE  /\ UrlOf[r] \in Urls /\ Key(r) \in KeySet /\ Key(r) = <<UrlOf[r], FocusOf[r]>>
         /\ phase[r] \in Phases /\ leader[r] \in Requests \cup {NoRequest} /\ r # NoRequest
         /\ text[r] \in Bodies /\ outcome[r] \in Outcomes
         /\ store[UrlOf[r]] \in Records
BY RequestAssumption
   DEF GatewayInv, TypeOK, FetchTypeOK, SearchTypeOK, StoreTypeOK, Key, KeySet

\* The variables of singleflight and of the lock keep their types.
FlightTypeOK ==
  /\ phase \in [Requests -> Phases] /\ text \in [Requests -> Bodies]
  /\ outcome \in [Requests -> Outcomes]
  /\ leader \in [Requests -> Requests \cup {NoRequest}]
  /\ inflight \in [KeySet -> Requests \cup {NoRequest}]
  /\ holder \in [Urls -> Requests \cup {NoRequest}]

\* Leader r enters, or is in, a section nobody else holds, and suspends in it.
LEMMA SuspendFlies ==
  ASSUME GatewayInv, NEW r \in Requests, NEW ph \in Working, NEW t \in Bodies, Suspend(r, ph, t),
         Leads(r), holder[UrlOf[r]] \in {NoRequest, r}
  PROVE  FlightTypeOK' /\ FlightInv'
<1>1. FlightTypeOK /\ FlightInv
  BY DEF GatewayInv, TypeOK, FetchTypeOK, FlightTypeOK
<1>2. \A q \in Requests : UrlOf[q] \in Urls /\ Key(q) \in KeySet /\ q # NoRequest
  BY RequestTypes
<1>3. /\ phase'[r] = ph /\ inflight'[Key(r)] = r /\ holder'[UrlOf[r]] = r /\ leader'[r] = r
      /\ outcome' = outcome /\ outcome[r].kind = "none"
  BY <1>1, <1>2 DEF FlightTypeOK, FlightInv, Suspend, Leads, Leading, Working
<1>4. /\ \A q \in Requests \ {r} : phase'[q] = phase[q] /\ leader'[q] = leader[q]
      /\ \A k \in KeySet \ {Key(r)} : inflight'[k] = inflight[k]
      /\ \A u \in Urls \ {UrlOf[r]} : holder'[u] = holder[u]
  BY <1>1, <1>2 DEF FlightTypeOK, Suspend, Leads
<1>5. FlightTypeOK'
  BY <1>1, <1>2 DEF FlightTypeOK, Suspend, Leads, Phases, Working
<1>6. \A q \in Requests \ {r} :
        /\ phase[q] \in Leading => Key(q) # Key(r)
        /\ phase[q] \in Working => UrlOf[q] # UrlOf[r]
  BY <1>1, <1>2 DEF FlightInv, Leads, Leading, Working
<1>7. \A k \in KeySet : inflight'[k] # NoRequest =>
        Key(inflight'[k]) = k /\ phase'[inflight'[k]] \in Leading
  BY <1>1, <1>2, <1>3, <1>4 DEF FlightTypeOK, FlightInv, Leading
<1>8. \A u \in Urls : holder'[u] # NoRequest => UrlOf[holder'[u]] = u
  BY <1>1, <1>3, <1>4 DEF FlightInv
<1>9. ASSUME NEW q \in Requests
      PROVE  /\ phase'[q] = "idle" => leader'[q] = NoRequest
             /\ phase'[q] \in Leading => leader'[q] = q /\ inflight'[Key(q)] = q
             /\ phase'[q] \in Working <=> holder'[UrlOf[q]] = q
             /\ phase'[q] \in {"follower", "done"} =>
                  /\ leader'[q] \in Requests /\ Key(leader'[q]) = Key(q)
                  /\ leader'[leader'[q]] = leader'[q]
             /\ phase'[q] = "follower" => leader'[q] # q
             /\ outcome'[q].kind # "none" <=> phase'[q] = "done"
  <2>1. CASE q = r
    BY <1>3, <2>1 DEF Leading, Working
  <2>2. CASE q # r
    <3>1. phase'[q] = phase[q] /\ leader'[q] = leader[q] /\ outcome'[q] = outcome[q]
      BY <1>3, <1>4, <2>2
    <3>2. /\ phase[q] \in Leading => inflight'[Key(q)] = inflight[Key(q)]
          /\ phase[q] \in Working <=> holder'[UrlOf[q]] = q
      BY <1>1, <1>2, <1>3, <1>4, <1>6, <2>2 DEF FlightInv
    <3>3. leader[q] \in Requests /\ leader[leader[q]] = leader[q] => leader'[leader[q]] = leader[q]
      BY <1>3, <1>4
    <3>4. QED
      BY <1>1, <3>1, <3>2, <3>3 DEF FlightInv
  <2>3. QED
    BY <2>1, <2>2
<1>10. FlightInv'
  BY <1>7, <1>8, <1>9 DEF FlightInv, Key
<1>11. QED
  BY <1>5, <1>10

\* The workflow of leader r ends: with its lock, if it had it, and its future.
LEMMA FinishFlies ==
  ASSUME GatewayInv, NEW r \in Requests, NEW result \in Outcomes, result.kind # "none",
         Finish(r, result), Leads(r)
  PROVE  FlightTypeOK' /\ FlightInv'
<1>1. FlightTypeOK /\ FlightInv
  BY DEF GatewayInv, TypeOK, FetchTypeOK, FlightTypeOK
<1>2. \A q \in Requests : UrlOf[q] \in Urls /\ Key(q) \in KeySet /\ q # NoRequest
  BY RequestTypes
<1>3. /\ phase'[r] = "done" /\ inflight'[Key(r)] = NoRequest /\ leader'[r] = r
      /\ outcome'[r] = result
      /\ holder'[UrlOf[r]] = IF holder[UrlOf[r]] = r THEN NoRequest ELSE holder[UrlOf[r]]
  BY <1>1, <1>2 DEF FlightTypeOK, FlightInv, Finish, Leads, Leading
<1>4. /\ \A q \in Requests \ {r} :
           phase'[q] = phase[q] /\ leader'[q] = leader[q] /\ outcome'[q] = outcome[q]
      /\ \A k \in KeySet \ {Key(r)} : inflight'[k] = inflight[k]
      /\ \A u \in Urls \ {UrlOf[r]} : holder'[u] = holder[u]
  BY <1>1, <1>2 DEF FlightTypeOK, Finish, Leads
<1>5. FlightTypeOK'
  <2>1. NoText \in Bodies /\ "done" \in Phases
    BY DEF Bodies, Phases
  <2>2. QED
    BY <1>1, <1>2, <2>1 DEF FlightTypeOK, Finish, Leads
<1>6. \A q \in Requests \ {r} : phase[q] \in Leading => Key(q) # Key(r)
  BY <1>1, <1>2 DEF FlightInv, Leads, Leading, Working
<1>7. \A k \in KeySet : inflight'[k] # NoRequest =>
        Key(inflight'[k]) = k /\ phase'[inflight'[k]] \in Leading
  BY <1>1, <1>2, <1>3, <1>4 DEF FlightTypeOK, FlightInv
<1>8. \A u \in Urls : holder'[u] # NoRequest => UrlOf[holder'[u]] = u
  BY <1>1, <1>3, <1>4 DEF FlightInv
<1>9. ASSUME NEW q \in Requests
      PROVE  /\ phase'[q] = "idle" => leader'[q] = NoRequest
             /\ phase'[q] \in Leading => leader'[q] = q /\ inflight'[Key(q)] = q
             /\ phase'[q] \in Working <=> holder'[UrlOf[q]] = q
             /\ phase'[q] \in {"follower", "done"} =>
                  /\ leader'[q] \in Requests /\ Key(leader'[q]) = Key(q)
                  /\ leader'[leader'[q]] = leader'[q]
             /\ phase'[q] = "follower" => leader'[q] # q
             /\ outcome'[q].kind # "none" <=> phase'[q] = "done"
  <2>1. CASE q = r
    BY <1>2, <1>3, <2>1 DEF Leading, Working
  <2>2. CASE q # r
    <3>1. phase'[q] = phase[q] /\ leader'[q] = leader[q] /\ outcome'[q] = outcome[q]
      BY <1>3, <1>4, <2>2
    <3>2. /\ phase[q] \in Leading => inflight'[Key(q)] = inflight[Key(q)]
          /\ phase[q] \in Working <=> holder'[UrlOf[q]] = q
      BY <1>1, <1>2, <1>3, <1>4, <1>6, <2>2 DEF FlightInv
    <3>3. leader[q] \in Requests /\ leader[leader[q]] = leader[q] => leader'[leader[q]] = leader[q]
      BY <1>3, <1>4
    <3>4. QED
      BY <1>1, <3>1, <3>2, <3>3 DEF FlightInv
  <2>3. QED
    BY <2>1, <2>2
<1>10. FlightInv'
  BY <1>7, <1>8, <1>9 DEF FlightInv, Key
<1>11. QED
  BY <1>5, <1>10

\* A request that is not in the lock, and does not enter it: it queues, becomes a
\* follower or stops being one.
LEMMA OutsideFlies ==
  ASSUME GatewayInv, NEW r \in Requests, phase[r] \in {"idle", "follower"},
         NEW ph \in {"lock", "follower", "done"}, NEW l \in Requests, NEW o \in Outcomes,
         phase' = [phase EXCEPT ![r] = ph], leader' = [leader EXCEPT ![r] = l],
         outcome' = [outcome EXCEPT ![r] = o], text' = text, holder' = holder,
         o.kind # "none" <=> ph = "done",
         IF ph = "lock"
           THEN /\ l = r /\ inflight[Key(r)] = NoRequest
                /\ inflight' = [inflight EXCEPT ![Key(r)] = r]
           ELSE l # r /\ Key(l) = Key(r) /\ leader[l] = l /\ inflight' = inflight
  PROVE  FlightTypeOK' /\ FlightInv'
<1>1. FlightTypeOK /\ FlightInv
  BY DEF GatewayInv, TypeOK, FetchTypeOK, FlightTypeOK
<1>2. \A q \in Requests : UrlOf[q] \in Urls /\ Key(q) \in KeySet /\ q # NoRequest
  BY RequestTypes
<1>3. /\ phase'[r] = ph /\ leader'[r] = l /\ outcome'[r] = o
      /\ \A q \in Requests \ {r} :
           phase'[q] = phase[q] /\ leader'[q] = leader[q] /\ outcome'[q] = outcome[q]
      /\ \A k \in KeySet \ {Key(r)} : inflight'[k] = inflight[k]
      /\ ph = "lock" => inflight'[Key(r)] = r
      /\ ph # "lock" => inflight'[Key(r)] = inflight[Key(r)]
  BY <1>1, <1>2 DEF FlightTypeOK
<1>4. FlightTypeOK'
  BY <1>1, <1>2 DEF FlightTypeOK, Phases
<1>5. \A q \in Requests \ {r} : phase[q] \in Leading => inflight'[Key(q)] = inflight[Key(q)]
  BY <1>1, <1>2, <1>3 DEF FlightInv
<1>6. \A k \in KeySet : inflight'[k] # NoRequest =>
        Key(inflight'[k]) = k /\ phase'[inflight'[k]] \in Leading
  BY <1>1, <1>2, <1>3 DEF FlightTypeOK, FlightInv, Leading, Working
<1>7. \A u \in Urls : holder'[u] # NoRequest => UrlOf[holder'[u]] = u
  BY <1>1 DEF FlightInv
<1>8. leader[r] # r
  BY <1>1, <1>2 DEF FlightInv
<1>9. ASSUME NEW q \in Requests
      PROVE  /\ phase'[q] = "idle" => leader'[q] = NoRequest
             /\ phase'[q] \in Leading => leader'[q] = q /\ inflight'[Key(q)] = q
             /\ phase'[q] \in Working <=> holder'[UrlOf[q]] = q
             /\ phase'[q] \in {"follower", "done"} =>
                  /\ leader'[q] \in Requests /\ Key(leader'[q]) = Key(q)
                  /\ leader'[leader'[q]] = leader'[q]
             /\ phase'[q] = "follower" => leader'[q] # q
             /\ outcome'[q].kind # "none" <=> phase'[q] = "done"
  <2>1. CASE q = r
    BY <1>1, <1>2, <1>3, <2>1 DEF FlightInv, Leading, Working
  <2>2. CASE q # r
    <3>1. phase'[q] = phase[q] /\ leader'[q] = leader[q] /\ outcome'[q] = outcome[q]
      BY <1>3, <2>2
    <3>2. leader[q] \in Requests /\ leader[leader[q]] = leader[q] => leader'[leader[q]] = leader[q]
      BY <1>3, <1>8
    <3>3. QED
      BY <1>1, <1>5, <2>2, <3>1, <3>2 DEF FlightInv
  <2>3. QED
    BY <2>1, <2>2
<1>10. FlightInv'
  BY <1>6, <1>7, <1>9 DEF FlightInv, Key
<1>11. QED
  BY <1>4, <1>10

-----------------------------------------------------------------------------
(* Steps of requests. *)

\* A request that a step leaves alone keeps what it works on and what it served,
\* though the store grows.
LEMMA RequestFrame ==
  ASSUME GatewayInv, StoreGrows, safe \subseteq safe', cancelled \subseteq cancelled',
         NEW q \in Requests, phase'[q] = phase[q], text'[q] = text[q],
         outcome'[q] = outcome[q], leader'[q] = leader[q],
         phase[q] = "fetch" => accepted'[UrlOf[q]] = accepted[UrlOf[q]]
  PROVE  RequestInv(q)'
<1>1. RequestInv(q)
  BY DEF GatewayInv
<1>2. UrlOf[q] \in Urls
  BY RequestTypes
<1>3. vetted \subseteq vetted' /\ NoText \notin vetted
  BY TextAssumption DEF GatewayInv, TypeOK, SearchTypeOK, StoreTypeOK, StoreGrows
<1>4. store[UrlOf[q]].content # NoText => store'[UrlOf[q]].content = store[UrlOf[q]].content
  BY <1>2 DEF StoreGrows, GrowsTo
<1>5. QED
  BY <1>1, <1>3, <1>4 DEF RequestInv

\* A step of request r keeps the invariant if it does so for r, the store, the
\* singleflight group and the locks.
LEMMA RequestStep ==
  ASSUME GatewayInv, NEW r \in Requests,
         StoreTypeOK', StoreGrows, BodiesVetted', FlightTypeOK', FlightInv', RequestInv(r)',
         safe \subseteq safe', safe' \subseteq Requests \X Bodies,
         cancelled' \in {cancelled, cancelled \cup {r}},
         \A q \in Requests \ {r} : /\ phase'[q] = phase[q] /\ text'[q] = text[q]
                                   /\ outcome'[q] = outcome[q] /\ leader'[q] = leader[q],
         accepted' \in [Urls -> SUBSET Requests], AcceptedInv',
         \A q \in Requests \ {r} : phase[q] = "fetch" => accepted'[UrlOf[q]] = accepted[UrlOf[q]],
         UNCHANGED searchVars
  PROVE  GatewayInv'
<1>1. \A q \in Requests : RequestInv(q)'
  <2> SUFFICES ASSUME NEW q \in Requests, q # r PROVE RequestInv(q)'
    OBVIOUS
  <2>1. QED
    BY RequestFrame
<1>2. TypeOK'
  BY DEF GatewayInv, TypeOK, FetchTypeOK, FlightTypeOK, SearchTypeOK, searchVars
<1>3. PipeInv'
  BY DEF GatewayInv, PipeInv, Vetted, VettedIn, StoreGrows, searchVars, Judged, WithBody, Stripped, CheapCheck,
         FirstNonEmpty
<1>4. QED
  BY <1>1, <1>2, <1>3 DEF GatewayInv

\* A step that delivers no body keeps what the providers delivered.
LEMMA AcceptedFrame ==
  ASSUME GatewayInv, StoreGrows, accepted' = accepted
  PROVE  AcceptedInv' /\ accepted' \in [Urls -> SUBSET Requests]
BY DEF GatewayInv, TypeOK, FetchTypeOK, AcceptedInv, OneProviderBody, StoreGrows, GrowsTo

\* A step that leaves the store alone.
LEMMA StoreFrame ==
  ASSUME GatewayInv, UNCHANGED storeVars
  PROVE  StoreTypeOK' /\ StoreGrows /\ BodiesVetted'
BY DEF GatewayInv, TypeOK, SearchTypeOK, StoreTypeOK, StoreGrows, GrowsTo, BodiesVetted, storeVars

\* A leader ends without anything to serve.
LEMMA EndsEmpty ==
  ASSUME GatewayInv, NEW r \in Requests, Leads(r),
         NEW kind \in {"error", "unavailable", "cancelled"}, Finish(r, Result(kind, NoText)),
         StoreTypeOK', StoreGrows, BodiesVetted', safe' = safe, accepted' = accepted,
         cancelled' \in {cancelled, cancelled \cup {r}}, kind = "cancelled" => r \in cancelled',
         UNCHANGED searchVars
  PROVE  GatewayInv'
<1> DEFINE result == Result(kind, NoText)
<1>1. result \in Outcomes /\ result.kind = kind
  BY DEF Result, Outcomes
<1> HIDE DEF result
<1>2. FlightTypeOK' /\ FlightInv'
  BY <1>1, FinishFlies DEF result
<1>3. phase'[r] = "done" /\ outcome'[r] = result
  BY DEF Finish, result, GatewayInv, TypeOK, FetchTypeOK
<1>4. RequestInv(r)'
  BY <1>1, <1>3 DEF RequestInv
<1>5. \A q \in Requests \ {r} : /\ phase'[q] = phase[q] /\ text'[q] = text[q]
                                /\ outcome'[q] = outcome[q] /\ leader'[q] = leader[q]
  BY DEF Finish, Leads, GatewayInv, TypeOK, FetchTypeOK
<1>6. AcceptedInv' /\ accepted' \in [Urls -> SUBSET Requests]
  BY AcceptedFrame
<1>7. safe' \subseteq Requests \X Bodies
  BY DEF GatewayInv, TypeOK, FetchTypeOK
<1>8. QED
  BY <1>2, <1>4, <1>5, <1>6, <1>7, RequestStep

\* A leader suspends in the scheduler or in an LLM stage.
LEMMA GoesOn ==
  ASSUME GatewayInv, NEW r \in Requests, Leads(r), holder[UrlOf[r]] \in {NoRequest, r},
         NEW ph \in Working, NEW t \in Bodies, Suspend(r, ph, t),
         StoreTypeOK', StoreGrows, BodiesVetted', AcceptedInv',
         accepted' \in [Urls -> SUBSET Requests],
         \A q \in Requests \ {r} : phase[q] = "fetch" => accepted'[UrlOf[q]] = accepted[UrlOf[q]],
         safe \subseteq safe', safe' \subseteq Requests \X Bodies, cancelled' = cancelled,
         UNCHANGED searchVars,
         ph = "clean" => t \in vetted',
         ph \in {"safety", "focus"} => t # NoText /\ t = store'[UrlOf[r]].content,
         ph = "focus" => <<r, t>> \in safe',
         ph = "fetch" => accepted'[UrlOf[r]] = {}
  PROVE  GatewayInv'
<1>1. FlightTypeOK' /\ FlightInv'
  BY SuspendFlies
<1>2. phase'[r] = ph /\ text'[r] = t /\ ph # "done"
  BY DEF Suspend, GatewayInv, TypeOK, FetchTypeOK, Working
<1>3. outcome'[r].kind = "none"
  BY <1>1, <1>2 DEF FlightInv
<1>4. RequestInv(r)'
  BY <1>2, <1>3 DEF RequestInv
<1>5. \A q \in Requests \ {r} : /\ phase'[q] = phase[q] /\ text'[q] = text[q]
                                /\ outcome'[q] = outcome[q] /\ leader'[q] = leader[q]
  BY DEF Suspend, Leads, GatewayInv, TypeOK, FetchTypeOK
<1>6. QED
  BY <1>1, <1>4, <1>5, RequestStep

\* Which stage a record asks for, and what that stage may rely on.
LEMMA NextStageMeans ==
  ASSUME NEW record \in Records
  PROVE  /\ NextStage(record) \in {"safety", "clean", "fetch"}
         /\ FirstNonEmpty(record.content, record.raw_content) \in Bodies
         /\ NextStage(record) = "safety" =>
              /\ record.content # NoText
              /\ FirstNonEmpty(record.content, record.raw_content) = record.content
         /\ NextStage(record) = "clean" =>
              /\ record.content = NoText /\ record.raw_content # NoText
              /\ FirstNonEmpty(record.content, record.raw_content) = record.raw_content
         /\ NextStage(record) = "fetch" => record.content = NoText /\ record.raw_content = NoText
BY DEF NextStage, FirstNonEmpty, Records

\* The work inside the lock up to the first suspension.
LEMMA RunLockedKeeps ==
  ASSUME GatewayInv, NEW r \in Requests, Leads(r), holder[UrlOf[r]] = NoRequest, RunLocked(r),
         UNCHANGED <<storeVars, safe, accepted, cancelled, searchVars>>
  PROVE  GatewayInv'
<1> DEFINE u == UrlOf[r]  record == store[u]
<1>1. u \in Urls /\ record \in Records
  BY RequestTypes
<1>2. StoreTypeOK' /\ StoreGrows /\ BodiesVetted'
  BY StoreFrame
<1>3. CASE \E kind \in {"error", "unavailable"} : Finish(r, Result(kind, NoText))
  BY <1>2, <1>3, EndsEmpty
<1>4. CASE Continue(r, record)
  <2> DEFINE ph == NextStage(record)  t == FirstNonEmpty(record.content, record.raw_content)
  <2>1. Suspend(r, ph, t) /\ t \in Bodies /\ ph \in Working
    BY <1>1, <1>4, NextStageMeans DEF Continue, Working
  <2>2. ph = "clean" => t \in vetted
    BY <1>1, NextStageMeans DEF GatewayInv, BodiesVetted
  <2>3. ph \in {"safety", "focus"} => t # NoText /\ t = store[u].content
    BY <1>1, NextStageMeans
  <2>4. ph # "focus"
    BY <1>1, NextStageMeans
  <2>5. ph = "fetch" => accepted[u] = {}
    BY <1>1, NextStageMeans DEF GatewayInv, AcceptedInv
  <2>6. AcceptedInv' /\ accepted' \in [Urls -> SUBSET Requests]
    BY <1>2, AcceptedFrame
  <2>7. safe' \subseteq Requests \X Bodies
    BY DEF GatewayInv, TypeOK, FetchTypeOK
  <2>8. vetted' = vetted /\ store' = store
    BY DEF storeVars
  <2> HIDE DEF ph, t
  <2>9. QED
    BY <1>2, <2>1, <2>2, <2>3, <2>4, <2>5, <2>6, <2>7, <2>8, GoesOn
<1>5. QED
  BY <1>3, <1>4 DEF RunLocked

\* A new request joins a future of its key, leads and enters the lock, or leads
\* and queues for it.
LEMMA ArrivalKeeps ==
  ASSUME GatewayInv, NEW r \in Requests, Join(r) \/ Lead(r), UNCHANGED searchVars
  PROVE  GatewayInv'
<1>1. StoreTypeOK' /\ StoreGrows /\ BodiesVetted'
  BY StoreFrame DEF Join, Lead
<1>2. /\ UrlOf[r] \in Urls /\ Key(r) \in KeySet /\ phase[r] = "idle" /\ outcome[r] \in Outcomes
      /\ outcome[r].kind = "none"
  BY RequestTypes DEF Join, Lead, GatewayInv, FlightInv
<1>3. ASSUME NEW ph \in {"lock", "follower"}, phase' = [phase EXCEPT ![r] = ph],
             outcome' = outcome, text' = text, safe' = safe, cancelled' = cancelled,
             \A q \in Requests \ {r} : leader'[q] = leader[q],
             accepted' = accepted, FlightTypeOK', FlightInv'
      PROVE  GatewayInv'
  <2>1. phase'[r] = ph /\ \A q \in Requests \ {r} : phase'[q] = phase[q]
    BY <1>3 DEF GatewayInv, TypeOK, FetchTypeOK
  <2>2. RequestInv(r)'
    BY <1>2, <1>3, <2>1 DEF RequestInv
  <2>3. safe' \subseteq Requests \X Bodies
    BY <1>3 DEF GatewayInv, TypeOK, FetchTypeOK
  <2>4. AcceptedInv' /\ accepted' \in [Urls -> SUBSET Requests]
    BY <1>1, <1>3, AcceptedFrame
  <2>5. QED
    BY <1>1, <1>3, <2>1, <2>2, <2>3, <2>4, RequestStep
<1>4. outcome = [outcome EXCEPT ![r] = outcome[r]]
  BY DEF GatewayInv, TypeOK, FetchTypeOK
<1>5. CASE Join(r)
  <2> DEFINE l == inflight[Key(r)]
  <2>1. /\ l \in Requests /\ Key(l) = Key(r) /\ phase[l] \in Leading /\ leader[l] = l /\ l # r
    BY <1>2, <1>5 DEF Join, GatewayInv, FlightInv, TypeOK, FetchTypeOK, Leading, Working
  <2>2. /\ phase' = [phase EXCEPT ![r] = "follower"] /\ leader' = [leader EXCEPT ![r] = l]
        /\ UNCHANGED <<text, outcome, inflight, holder, safe, accepted, cancelled>>
    BY <1>5 DEF Join
  <2> HIDE DEF l
  <2>3. FlightTypeOK' /\ FlightInv'
    BY <1>2, <1>4, <2>1, <2>2, OutsideFlies
  <2>4. \A q \in Requests \ {r} : leader'[q] = leader[q]
    BY <2>2 DEF GatewayInv, TypeOK, FetchTypeOK
  <2>5. QED
    BY <1>3, <2>2, <2>3, <2>4
<1>6. CASE Lead(r) /\ ~Busy(UrlOf[r])
  <2>1. RunLocked(r) /\ Leads(r) /\ holder[UrlOf[r]] = NoRequest
    BY <1>6 DEF Lead, Leads, Busy
  <2>2. QED
    BY <1>6, <2>1, RunLockedKeeps DEF Lead
<1>7. CASE Lead(r) /\ Busy(UrlOf[r])
  <2>1. /\ phase' = [phase EXCEPT ![r] = "lock"] /\ leader' = [leader EXCEPT ![r] = r]
        /\ inflight[Key(r)] = NoRequest /\ inflight' = [inflight EXCEPT ![Key(r)] = r]
        /\ UNCHANGED <<text, outcome, holder, safe, accepted, cancelled>>
    BY <1>7 DEF Lead
  <2>2. FlightTypeOK' /\ FlightInv'
    BY <1>2, <1>4, <2>1, OutsideFlies
  <2>3. \A q \in Requests \ {r} : leader'[q] = leader[q]
    BY <2>1 DEF GatewayInv, TypeOK, FetchTypeOK
  <2>4. QED
    BY <1>3, <2>1, <2>2, <2>3
<1>8. QED
  BY <1>5, <1>6, <1>7

\* The queued leader gets the lock, a stage fails, or the URL is found
\* unavailable.
LEMMA PlainStepsKeep ==
  ASSUME GatewayInv, NEW r \in Requests, EnterLock(r) \/ StageFailed(r) \/ Rejected(r),
         UNCHANGED searchVars
  PROVE  GatewayInv'
<1>1. UrlOf[r] \in Urls /\ store[UrlOf[r]] \in Records
  BY RequestTypes
<1>2. Leads(r)
  BY DEF EnterLock, StageFailed, Rejected, Leads, Leading, Working
<1>3. CASE EnterLock(r)
  BY <1>2, <1>3, RunLockedKeeps DEF EnterLock
<1>4. CASE StageFailed(r)
  BY <1>2, <1>4, StoreFrame, EndsEmpty DEF StageFailed
<1>5. CASE Rejected(r)
  <2>1. /\ vetted' = vetted /\ store' = [store EXCEPT ![UrlOf[r]].available = FALSE]
    BY <1>5 DEF Rejected, MarkUnavailable
  <2>2. StoreTypeOK' /\ StoreGrows /\ BodiesVetted'
    <3>1. StoreTypeOK /\ BodiesVetted
      BY DEF GatewayInv, TypeOK, SearchTypeOK
    <3>2. StoreTypeOK'
      BY <2>1, <3>1 DEF StoreTypeOK, Records
    <3>3. ASSUME NEW u \in Urls
          PROVE  /\ store'[u].raw_content = store[u].raw_content
                 /\ store'[u].content = store[u].content
                 /\ store'[u].admitted = store[u].admitted
                 /\ ~store[u].available => ~store'[u].available
      <4>1. store[u] \in Records
        BY <3>1 DEF StoreTypeOK
      <4>2. CASE u = UrlOf[r]
        BY <2>1, <3>1, <4>1, <4>2 DEF StoreTypeOK, Records
      <4>3. CASE u # UrlOf[r]
        BY <2>1, <3>1, <4>3 DEF StoreTypeOK
      <4>4. QED
        BY <4>2, <4>3
    <3>4. StoreGrows
      BY <2>1, <3>3 DEF StoreGrows, GrowsTo
    <3>5. BodiesVetted'
      BY <2>1, <3>1, <3>3 DEF BodiesVetted
    <3>6. QED
      BY <3>2, <3>4, <3>5
  <2>3. QED
    BY <1>2, <1>5, <2>2, EndsEmpty DEF Rejected
<1>6. QED
  BY <1>3, <1>4, <1>5

\* A body that has been judged is merged into a record.
LEMMA MergeKeepsStore ==
  ASSUME GatewayInv, NEW u \in Urls, NEW raw \in Bodies, NEW clean \in Bodies,
         MergeBody(u, raw, clean), vetted \subseteq vetted', vetted' \subseteq Texts,
         Vetted(raw, clean)'
  PROVE  /\ StoreTypeOK' /\ StoreGrows /\ BodiesVetted'
         /\ store'[u] = MergedBody(store[u], raw, clean) /\ store'[u] \in Records
<1>1. StoreTypeOK /\ BodiesVetted /\ store[u] \in Records
  BY DEF GatewayInv, TypeOK, SearchTypeOK, StoreTypeOK
<1> DEFINE m == MergedBody(store[u], raw, clean)
<1>2. /\ m \in Records /\ GrowsTo(store[u], m)
      /\ m.raw_content = FirstNonEmpty(store[u].raw_content, raw)
      /\ m.content = FirstNonEmpty(store[u].content, clean)
  BY <1>1, MergedBodyGrows
<1>3. store' = [store EXCEPT ![u] = m]
  BY DEF MergeBody
<1> HIDE DEF m
<1>4. StoreTypeOK' /\ store'[u] = m
  BY <1>1, <1>2, <1>3 DEF StoreTypeOK
<1>5. \A v \in Urls \ {u} : store'[v] = store[v]
  BY <1>1, <1>3 DEF StoreTypeOK
<1>6. StoreGrows
  BY <1>2, <1>4, <1>5 DEF StoreGrows, GrowsTo
<1>7. BodiesVetted'
  <2> SUFFICES ASSUME NEW v \in Urls
               PROVE  /\ store'[v].content # NoText => store'[v].content \in vetted'
                      /\ store'[v].content = NoText /\ store'[v].raw_content # NoText
                           => store'[v].raw_content \in vetted'
    BY DEF BodiesVetted
  <2>1. CASE v = u
    BY <1>1, <1>2, <1>4, <2>1 DEF Vetted, VettedIn, BodiesVetted, FirstNonEmpty
  <2>2. CASE v # u
    BY <1>1, <1>5, <2>2 DEF BodiesVetted
  <2>3. QED
    BY <2>1, <2>2
<1>8. QED
  BY <1>2, <1>4, <1>6, <1>7 DEF m

\* The scheduler has an accepted body.
LEMMA FetchAcceptedKeeps ==
  ASSUME GatewayInv, NEW r \in Requests, NEW raw \in Bodies \ {NoText}, NEW clean \in Bodies,
         FetchAccepted(r, raw, clean), UNCHANGED searchVars
  PROVE  GatewayInv'
<1> DEFINE u == UrlOf[r]  m == MergedBody(store[u], raw, clean)
<1>1. u \in Urls /\ store[u] \in Records /\ phase[r] = "fetch" /\ accepted[u] = {}
  BY RequestTypes DEF FetchAccepted, GatewayInv, RequestInv
<1>2. Leads(r) /\ holder[u] = r
  BY <1>1 DEF FetchAccepted, Leads, Leading, Working, GatewayInv, FlightInv
<1>3. /\ Candidate(raw, clean) \in Texts /\ vetted' = vetted \cup {Candidate(raw, clean)}
      /\ Candidate(raw, clean) = IF clean # NoText THEN clean ELSE raw
  BY DEF FetchAccepted, Candidate, CheapCheck, FirstNonEmpty, Bodies
<1>4. vetted \subseteq vetted' /\ vetted' \subseteq Texts
  BY <1>3 DEF GatewayInv, TypeOK, SearchTypeOK, StoreTypeOK
<1>5. Vetted(raw, clean)'
  BY <1>3 DEF Vetted, VettedIn
<1>6. /\ StoreTypeOK' /\ StoreGrows /\ BodiesVetted'
      /\ store'[u] = m /\ m \in Records
  BY <1>1, <1>4, <1>5, MergeKeepsStore DEF FetchAccepted
<1>7. m.raw_content # NoText
  BY <1>1, MergedBodyGrows DEF FirstNonEmpty
<1> DEFINE ph == NextStage(m)  t == FirstNonEmpty(m.content, m.raw_content)
<1>8. Suspend(r, ph, t)
  BY DEF FetchAccepted, Continue
<1>9. accepted' = [accepted EXCEPT ![u] = {r}]
  BY <1>1 DEF FetchAccepted
<1>10. safe' = safe /\ cancelled' = cancelled
  BY DEF FetchAccepted
<1> HIDE DEF m
<1>11. /\ ph \in {"safety", "clean"} /\ t \in Bodies
       /\ ph = "safety" => t # NoText /\ t = store'[u].content
       /\ ph = "clean" => store'[u].content = NoText /\ t = store'[u].raw_content /\ t # NoText
  BY <1>6, <1>7, NextStageMeans
<1> HIDE DEF ph, t
<1>12. ph = "clean" => t \in vetted'
  BY <1>1, <1>6, <1>11 DEF BodiesVetted
<1>13. /\ accepted' \in [Urls -> SUBSET Requests] /\ accepted'[u] = {r}
       /\ \A v \in Urls \ {u} : accepted'[v] = accepted[v]
  BY <1>1, <1>9 DEF GatewayInv, TypeOK, FetchTypeOK
<1>14. AcceptedInv'
  <2>1. \A v \in Urls : accepted'[v] # {} => store'[v].raw_content # NoText
    BY <1>6, <1>7, <1>13 DEF GatewayInv, AcceptedInv, StoreGrows, GrowsTo
  <2>2. \A v \in Urls : \A p, q \in accepted'[v] : p = q
    BY <1>13 DEF GatewayInv, AcceptedInv, OneProviderBody
  <2>3. QED
    BY <2>1, <2>2 DEF AcceptedInv, OneProviderBody
<1>15. \A q \in Requests \ {r} : phase[q] = "fetch" => accepted'[UrlOf[q]] = accepted[UrlOf[q]]
  <2> SUFFICES ASSUME NEW q \in Requests \ {r}, phase[q] = "fetch"
               PROVE  UrlOf[q] \in Urls \ {u}
    BY <1>13
  <2>1. holder[UrlOf[q]] = q
    BY DEF GatewayInv, FlightInv, Working
  <2>2. QED
    BY <1>2, <2>1, RequestTypes
<1>16. safe' \subseteq Requests \X Bodies
  BY <1>10 DEF GatewayInv, TypeOK, FetchTypeOK
<1>17. ph \in Working /\ ph # "focus" /\ ph # "fetch"
  BY <1>11 DEF Working
<1>18. QED
  BY <1>2, <1>6, <1>8, <1>10, <1>11, <1>12, <1>13, <1>14, <1>15, <1>16, <1>17, GoesOn

\* content_clean has returned.
LEMMA CleanDoneKeeps ==
  ASSUME GatewayInv, NEW r \in Requests, NEW cleaned \in StageTexts, CleanDone(r, cleaned),
         UNCHANGED searchVars
  PROVE  GatewayInv'
<1> DEFINE u == UrlOf[r]  m == MergedBody(store[u], NoText, cleaned)
<1>1. u \in Urls /\ store[u] \in Records /\ phase[r] = "clean" /\ text[r] \in vetted
  BY RequestTypes DEF CleanDone, GatewayInv, RequestInv
<1>2. Leads(r) /\ holder[u] = r
  BY <1>1 DEF CleanDone, Leads, Leading, Working, GatewayInv, FlightInv
<1>3. cleaned \in Texts /\ cleaned \in Bodies /\ cleaned # NoText /\ NoText \in Bodies
  BY TextAssumption DEF StageTexts, Bodies
<1>4. vetted' = vetted \cup {cleaned}
  BY <1>1 DEF CleanDone
<1>5. vetted \subseteq vetted' /\ vetted' \subseteq Texts
  BY <1>3, <1>4 DEF GatewayInv, TypeOK, SearchTypeOK, StoreTypeOK
<1>6. Vetted(NoText, cleaned)'
  BY <1>3, <1>4 DEF Vetted, VettedIn
<1>7. /\ StoreTypeOK' /\ StoreGrows /\ BodiesVetted'
      /\ store'[u] = m /\ m \in Records
  BY <1>1, <1>3, <1>5, <1>6, MergeKeepsStore DEF CleanDone
<1>8. m.content # NoText
  BY <1>1, <1>3, MergedBodyGrows DEF FirstNonEmpty
<1> DEFINE ph == NextStage(m)  t == FirstNonEmpty(m.content, m.raw_content)
<1>9. Suspend(r, ph, t)
  BY DEF CleanDone, Continue
<1> HIDE DEF m
<1>10. ph = "safety" /\ t \in Bodies /\ t # NoText /\ t = store'[u].content
  BY <1>7, <1>8, NextStageMeans DEF NextStage
<1> HIDE DEF ph, t
<1>11. safe' = safe /\ cancelled' = cancelled /\ accepted' = accepted
  BY DEF CleanDone
<1>12. AcceptedInv' /\ accepted' \in [Urls -> SUBSET Requests]
  BY <1>7, <1>11, AcceptedFrame
<1>13. safe' \subseteq Requests \X Bodies
  BY <1>11 DEF GatewayInv, TypeOK, FetchTypeOK
<1>14. ph \in Working
  BY <1>10 DEF Working
<1>15. QED
  BY <1>2, <1>7, <1>9, <1>10, <1>11, <1>12, <1>13, <1>14, GoesOn

\* The safety stage says yes, or the summary is there.
LEMMA ServedKeeps ==
  ASSUME GatewayInv, NEW r \in Requests, SafetyPassed(r) \/ FocusDone(r), UNCHANGED searchVars
  PROVE  GatewayInv'
<1> DEFINE u == UrlOf[r]  t == text[r]
<1>1. /\ u \in Urls /\ t \in Bodies /\ store[u] \in Records /\ phase[r] \in {"safety", "focus"}
      /\ t # NoText /\ t = store[u].content /\ (phase[r] = "focus" => <<r, t>> \in safe)
  BY RequestTypes DEF SafetyPassed, FocusDone, GatewayInv, RequestInv
<1>2. Leads(r) /\ holder[u] = r /\ leader[r] = r /\ leader' = leader
  BY <1>1 DEF SafetyPassed, FocusDone, Leads, Leading, Working, GatewayInv, FlightInv
<1>3. StoreTypeOK' /\ StoreGrows /\ BodiesVetted' /\ store' = store /\ vetted' = vetted
  BY StoreFrame DEF SafetyPassed, FocusDone, storeVars
<1>4. accepted' = accepted /\ cancelled' = cancelled
  BY DEF SafetyPassed, FocusDone
<1>5. /\ safe \subseteq safe' /\ safe' \subseteq Requests \X Bodies /\ <<r, t>> \in safe'
  BY <1>1 DEF SafetyPassed, FocusDone, GatewayInv, TypeOK, FetchTypeOK
<1>6. AcceptedInv' /\ accepted' \in [Urls -> SUBSET Requests]
  BY <1>3, <1>4, AcceptedFrame
<1>7. t \in vetted
  BY <1>1 DEF GatewayInv, BodiesVetted
<1>8. ASSUME NEW kind \in {"content", "summary"}, Finish(r, Result(kind, t))
      PROVE  GatewayInv'
  <2> DEFINE result == Result(kind, t)
  <2>1. result \in Outcomes /\ result.kind = kind /\ result.text = t
    BY <1>1 DEF Result, Outcomes
  <2> HIDE DEF result
  <2>2. FlightTypeOK' /\ FlightInv'
    BY <1>2, <1>8, <2>1, FinishFlies DEF result
  <2>3. phase'[r] = "done" /\ outcome'[r] = result
    BY <1>8 DEF Finish, result, GatewayInv, TypeOK, FetchTypeOK
  <2>4. RequestInv(r)'
    BY <1>1, <1>2, <1>3, <1>5, <1>7, <2>1, <2>3 DEF RequestInv
  <2>5. \A q \in Requests \ {r} : /\ phase'[q] = phase[q] /\ text'[q] = text[q]
                                  /\ outcome'[q] = outcome[q] /\ leader'[q] = leader[q]
    BY <1>2, <1>8 DEF Finish, GatewayInv, TypeOK, FetchTypeOK
  <2>6. QED
    BY <1>3, <1>4, <1>5, <1>6, <2>2, <2>4, <2>5, RequestStep
<1>9. CASE SafetyPassed(r) /\ FocusOf[r] # NoFocus
  <2>1. Suspend(r, "focus", t) /\ "focus" \in Working
    BY <1>9 DEF SafetyPassed, Working
  <2>2. QED
    BY <1>1, <1>2, <1>3, <1>4, <1>5, <1>6, <2>1, GoesOn
<1>10. QED
  BY <1>8, <1>9 DEF SafetyPassed, FocusDone

\* A follower returns what its leader returned, or is cancelled alone.
LEMMA FollowerKeeps ==
  ASSUME GatewayInv, NEW r \in Requests, phase[r] = "follower", FollowerDone(r) \/ CancelRequest(r),
         UNCHANGED searchVars
  PROVE  GatewayInv'
<1> DEFINE l == leader[r]
<1>1. /\ l \in Requests /\ Key(l) = Key(r) /\ leader[l] = l /\ l # r
  BY DEF GatewayInv, FlightInv
<1>2. UrlOf[l] = UrlOf[r]
  BY <1>1 DEF Key
<1>3. StoreTypeOK' /\ StoreGrows /\ BodiesVetted' /\ store' = store /\ vetted' = vetted
  BY StoreFrame DEF FollowerDone, CancelRequest, storeVars
<1>4. PICK p \in Outcomes :
        /\ outcome' = [outcome EXCEPT ![r] = p] /\ p.kind # "none"
        /\ \/ p = outcome[l] /\ cancelled' = cancelled
           \/ p.kind = "cancelled" /\ cancelled' = cancelled \cup {r}
  <2>1. Result("cancelled", NoText) \in Outcomes /\ Result("cancelled", NoText).kind = "cancelled"
    BY DEF Result, Outcomes
  <2>2. outcome[l] \in Outcomes
    BY <1>1, RequestTypes
  <2>3. QED
    BY <2>1, <2>2 DEF FollowerDone, CancelRequest
<1>5. /\ phase' = [phase EXCEPT ![r] = "done"]
      /\ UNCHANGED <<text, leader, inflight, holder, safe, accepted>>
  BY DEF FollowerDone, CancelRequest
<1>6. leader' = [leader EXCEPT ![r] = l]
  BY <1>5 DEF GatewayInv, TypeOK, FetchTypeOK
<1> HIDE DEF l
<1>7. FlightTypeOK' /\ FlightInv'
  BY <1>1, <1>4, <1>5, <1>6, OutsideFlies
<1>8. phase'[r] = "done" /\ outcome'[r] = p /\ leader'[r] = l
  BY <1>4, <1>5, <1>6 DEF GatewayInv, TypeOK, FetchTypeOK
<1>9. RequestInv(r)'
  <2>1. RequestInv(l)
    BY <1>1 DEF GatewayInv
  <2>2. CASE p = outcome[l] /\ cancelled' = cancelled
    BY <1>1, <1>2, <1>3, <1>5, <1>8, <2>1, <2>2 DEF RequestInv
  <2>3. CASE p.kind = "cancelled" /\ cancelled' = cancelled \cup {r}
    BY <1>8, <2>3 DEF RequestInv
  <2>4. QED
    BY <1>4, <2>2, <2>3
<1>10. \A q \in Requests \ {r} : /\ phase'[q] = phase[q] /\ text'[q] = text[q]
                                 /\ outcome'[q] = outcome[q] /\ leader'[q] = leader[q]
  BY <1>4, <1>5 DEF GatewayInv, TypeOK, FetchTypeOK
<1>11. AcceptedInv' /\ accepted' \in [Urls -> SUBSET Requests] /\ safe' \subseteq Requests \X Bodies
  BY <1>3, <1>5, AcceptedFrame DEF GatewayInv, TypeOK, FetchTypeOK
<1>12. QED
  BY <1>3, <1>4, <1>5, <1>7, <1>9, <1>10, <1>11, RequestStep

\* A leader is cancelled where it is suspended.
LEMMA LeaderCancelKeeps ==
  ASSUME GatewayInv, NEW r \in Requests, phase[r] # "follower", CancelRequest(r),
         UNCHANGED searchVars
  PROVE  GatewayInv'
<1>1. Leads(r)
  BY RequestTypes DEF CancelRequest, Leads, Leading, Working, Phases
<1>2. StoreTypeOK' /\ StoreGrows /\ BodiesVetted'
  BY StoreFrame DEF CancelRequest
<1>3. QED
  BY <1>1, <1>2, EndsEmpty DEF CancelRequest

\* Every step of a request.
LEMMA FetchNextKeeps ==
  ASSUME GatewayInv, FetchNext, UNCHANGED searchVars
  PROVE  GatewayInv'
<1>1. PICK r \in Requests : Join(r) \/ Lead(r) \/ FetchProgress(r) \/ CancelRequest(r)
  BY DEF FetchNext
<1>2. FollowerDone(r) => phase[r] = "follower"
  BY DEF FollowerDone
<1>3. QED
  BY <1>1, <1>2, ArrivalKeeps, PlainStepsKeep, FetchAcceptedKeeps, CleanDoneKeeps, ServedKeeps,
     FollowerKeeps, LeaderCancelKeeps DEF FetchProgress

-----------------------------------------------------------------------------
(* Steps of keyword searches. *)

\* A set of natural numbers has a least one.
LEMMA LeastNatural ==
  ASSUME NEW S, S \subseteq Nat, S # {}
  PROVE  \E n \in S : \A m \in S : n <= m
<1>1. PICK n \in S : \A m \in S : <<m, n>> \notin OpToRel(<, Nat)
  BY NatLessThanWellFounded, WFMin
<1>2. \A m \in S : ~(m < n)
  BY <1>1 DEF OpToRel
<1>3. QED
  BY <1>2

\* A hit keeps its URL and its kind when its bodies are dropped or stripped.
LEMMA HitTypes ==
  ASSUME NEW hit \in Hits
  PROVE  /\ Bare(hit) \in Hits /\ Bare(hit).raw_content = NoText /\ Bare(hit).content = NoText
         /\ WithBody(hit) \in Hits
         /\ WithBody(hit).raw_content = Stripped(hit.raw_content)
         /\ WithBody(hit).content = Stripped(hit.content)
         /\ Stripped(hit.raw_content) \in Texts \cup {NoText}
         /\ Stripped(hit.content) \in Texts \cup {NoText}
BY DEF Bare, WithBody, Hits, Stripped, CheapCheck, Bodies

\* What is judged is a text that passes cheap_check, or nothing; and a hit with
\* its body is vetted when that text is.
LEMMA JudgedMeans ==
  ASSUME NEW hit \in Hits
  PROVE  /\ Judged(hit) \in Texts \cup {NoText}
         /\ Judged(hit) \in vetted => Vetted(WithBody(hit).raw_content, WithBody(hit).content)
         /\ Vetted(Bare(hit).raw_content, Bare(hit).content)
BY HitTypes DEF Judged, FirstNonEmpty, Vetted, VettedIn

\* The pipeline runs on: what it has staged is what was staged before and bare
\* hits, and if it stops for the judge, it stops at a hit with a body.
LEMMA RunOnMeans ==
  ASSUME NEW hits \in Seq(Hits), NEW staged \in Seq(Hits), NEW failure \in BOOLEAN
  PROVE  LET new == RunOn(hits, staged, failure) IN
         /\ new \in Pipelines
         /\ \A i \in DOMAIN new.staged :
              \/ new.staged[i].raw_content = NoText /\ new.staged[i].content = NoText
              \/ \E j \in DOMAIN staged : new.staged[i] = staged[j]
         /\ new.phase = "judge" => new.hits # <<>> /\ Judged(Head(new.hits)) # NoText
<1> DEFINE stops == {i \in 1..Len(hits) : StopsAt(hits[i])}
           first == CHOOSE i \in stops : \A j \in stops : i <= j
           Tail1(n) == [i \in 1..n |-> Bare(hits[i])]
           Passed(n) == staged \o Tail1(n)
           Old(new) == \A i \in DOMAIN new :
              \/ new[i].raw_content = NoText /\ new[i].content = NoText
              \/ \E j \in DOMAIN staged : new[i] = staged[j]
<1>1. ASSUME NEW n \in 0..Len(hits)
      PROVE  Passed(n) \in Seq(Hits) /\ Old(Passed(n))
  <2>1. \A i \in 1..n : hits[i] \in Hits
    BY ElementOfSeq
  <2>2. \A i \in 1..n : Bare(hits[i]) \in Hits /\ Bare(hits[i]).raw_content = NoText
                                               /\ Bare(hits[i]).content = NoText
    BY <2>1, HitTypes
  <2>3. n \in Nat /\ Tail1(n) \in [1..n -> Hits]
    BY <2>2
  <2>4. Tail1(n) \in Seq(Hits) /\ Len(Tail1(n)) = n
    BY <2>3, SeqDef
  <2>5. \A i \in 1..n : Tail1(n)[i].raw_content = NoText /\ Tail1(n)[i].content = NoText
    BY <2>2
  <2> HIDE DEF Tail1
  <2>6. /\ Passed(n) \in Seq(Hits) /\ DOMAIN Passed(n) = 1..(Len(staged) + n)
        /\ \A i \in 1..(Len(staged) + n) :
             Passed(n)[i] = IF i <= Len(staged) THEN staged[i] ELSE Tail1(n)[i - Len(staged)]
        /\ DOMAIN staged = 1..Len(staged) /\ Len(staged) \in Nat
    <3> DEFINE b == Tail1(n)
    <3>1. b \in Seq(Hits) /\ Len(b) = n
      BY <2>4
    <3> HIDE DEF b
    <3>2. /\ staged \o b \in Seq(Hits) /\ Len(staged \o b) = Len(staged) + n
          /\ \A i \in 1..(Len(staged) + n) :
               (staged \o b)[i] = IF i <= Len(staged) THEN staged[i] ELSE b[i - Len(staged)]
      BY <3>1, ConcatProperties
    <3>3. DOMAIN (staged \o b) = 1..(Len(staged) + n)
      BY <3>2, LenProperties
    <3>4. DOMAIN staged = 1..Len(staged) /\ Len(staged) \in Nat
      BY LenProperties
    <3>5. QED
      BY <3>2, <3>3, <3>4 DEF b
  <2>7. Old(Passed(n))
    BY <2>3, <2>5, <2>6
  <2>8. QED
    BY <2>6, <2>7
<1>2. Len(hits) \in Nat
  BY LenProperties
<1>3. stops # {} => /\ first \in stops /\ first \in 1..Len(hits) /\ first - 1 \in 0..Len(hits)
                    /\ StopsAt(hits[first])
  <2>1. stops \subseteq Nat
    BY <1>2
  <2>2. stops # {} => first \in stops
    BY <2>1, LeastNatural
  <2>3. QED
    BY <1>2, <2>2
<1> HIDE DEF Passed, Old, Tail1
<1>4. CASE stops = {}
  <2> DEFINE p == Passed(Len(hits))
  <2>1. p \in Seq(Hits) /\ Old(p)
    <3>1. Len(hits) \in 0..Len(hits)
      BY <1>2
    <3>2. QED
      BY <1>1, <3>1
  <2> HIDE DEF p
  <2>2. RunOn(hits, staged, failure) = Exhausted(p, failure)
    BY <1>4 DEF RunOn, p, Passed, Tail1
  <2>3. /\ Exhausted(p, failure) \in Pipelines /\ Exhausted(p, failure).staged = p
        /\ Exhausted(p, failure).phase # "judge"
    BY <2>1, EmptySeq DEF Exhausted, Pipelines
  <2>4. QED
    BY <2>1, <2>2, <2>3 DEF Old
<1>5. CASE stops # {} /\ hits[first].kind = "invalid"
  <2>1. RunOn(hits, staged, failure) = Pipe("failed")
    BY <1>5 DEF RunOn
  <2>2. /\ Pipe("failed") \in Pipelines /\ DOMAIN Pipe("failed").staged = {}
        /\ Pipe("failed").phase # "judge"
    BY EmptySeq DEF Pipe, Pipelines
  <2>3. QED
    BY <2>1, <2>2
<1>6. CASE stops # {} /\ hits[first].kind # "invalid"
  <2> DEFINE p == Passed(first - 1)  rest == SubSeq(hits, first, Len(hits))
             new == [phase |-> "judge", hits |-> rest, staged |-> p, hit_failure |-> failure]
  <2>1. p \in Seq(Hits) /\ Old(p)
    BY <1>1, <1>3, <1>6
  <2>2. RunOn(hits, staged, failure) = new
    BY <1>6 DEF RunOn, Passed, Tail1
  <2>3. /\ rest \in Seq(Hits) /\ Head(rest) = hits[first] /\ rest # <<>>
    <3>0. first \in 1..Len(hits)
      BY <1>3, <1>6
    <3> HIDE DEF first
    <3>1. first \in Int /\ Len(hits) \in Int /\ \A i \in first..Len(hits) : hits[i] \in Hits
      BY <1>2, <3>0, ElementOfSeq
    <3>2. rest \in Seq(Hits) /\ Len(rest) = IF first <= Len(hits) THEN Len(hits) - first + 1 ELSE 0
      BY <3>1, SubSeqProperties
    <3>3. Head(rest) = hits[first]
      <4>1. Len(hits) \in first..Len(hits)
        BY <1>2, <3>0
      <4>2. QED
        BY <3>0, <4>1, HeadTailOfSubSeq
    <3>4. rest # <<>>
      <4>1. Len(rest) # 0
        BY <1>2, <3>0, <3>2
      <4>2. QED
        BY <4>1, EmptySeq
    <3>5. QED
      BY <3>2, <3>3, <3>4
  <2>4. Judged(hits[first]) # NoText
    BY <1>3, <1>6 DEF StopsAt
  <2> HIDE DEF p, rest
  <2>5. new \in Pipelines /\ new.staged = p /\ new.hits = rest
    BY <2>1, <2>3 DEF Pipelines
  <2>6. QED
    BY <2>1, <2>2, <2>3, <2>4, <2>5 DEF Old
<1>7. QED
  BY <1>4, <1>5, <1>6

\* Positions have a first one in the order of the commit.
LEMMA FirstPosition ==
  ASSUME NEW D, D \subseteq Nat \X Nat, D # {}
  PROVE  \E d \in D : \A e \in D : Before(d, e)
<1>1. PICK p \in {d[1] : d \in D} : \A m \in {d[1] : d \in D} : p <= m
  <2>1. {d[1] : d \in D} \subseteq Nat /\ {d[1] : d \in D} # {}
    OBVIOUS
  <2>2. QED
    BY <2>1, LeastNatural
<1> DEFINE R == {d[2] : d \in {e \in D : e[1] = p}}
<1>2. R \subseteq Nat /\ R # {}
  OBVIOUS
<1>3. PICK i \in R : \A m \in R : i <= m
  BY <1>2, LeastNatural
<1>4. PICK d \in D : d[1] = p /\ d[2] = i
  BY <1>3
<1>5. \A e \in D : e[1] \in Nat /\ e[2] \in Nat
  OBVIOUS
<1>6. ASSUME NEW e \in D PROVE Before(d, e)
  <2>1. p <= e[1] /\ (e[1] = p => i <= e[2])
    BY <1>1, <1>3
  <2>2. QED
    BY <1>4, <1>5, <2>1 DEF Before
<1>7. QED
  BY <1>4, <1>6

\* The successive admits of a commit leave a body that was staged, if any was.
LEMMA FirstStagedMeans ==
  ASSUME NEW D, D \subseteq Nat \X Nat, NEW body \in [D -> Bodies]
  PROVE  /\ FirstStaged(body, D) \in Bodies
         /\ FirstStaged(body, D) = NoText => \A d \in D : body[d] = NoText
         /\ FirstStaged(body, D) # NoText => \E d \in D : body[d] = FirstStaged(body, D)
<1> DEFINE full == {d \in D : body[d] # NoText}
           first == CHOOSE d \in full : \A e \in full : Before(d, e)
<1>1. CASE full = {}
  <2>1. FirstStaged(body, D) = NoText
    BY <1>1 DEF FirstStaged
  <2>2. QED
    BY <1>1, <2>1 DEF Bodies
<1>2. CASE full # {}
  <2>1. full \subseteq Nat \X Nat
    OBVIOUS
  <2>2. \E d \in full : \A e \in full : Before(d, e)
    BY <1>2, <2>1, FirstPosition
  <2>3. first \in full
    BY <2>2
  <2>4. FirstStaged(body, D) = body[first]
    BY <1>2 DEF FirstStaged
  <2>5. QED
    BY <2>3, <2>4
<1>3. QED
  BY <1>1, <1>2

\* The positions of staged hits.
LEMMA StagedMeans ==
  ASSUME GatewayInv, NEW s \in Searches, NEW u \in Urls, NEW d \in Staged(s, u)
  PROVE  /\ d \in Nat \X Nat /\ d[1] \in Providers /\ d[2] \in DOMAIN pipe[s][d[1]].staged
         /\ pipe[s][d[1]].staged[d[2]] \in Hits
         /\ Vetted(pipe[s][d[1]].staged[d[2]].raw_content, pipe[s][d[1]].staged[d[2]].content)
<1>0. PICK p \in Providers : \E i \in DOMAIN pipe[s][p].staged : d = <<p, i>>
  BY DEF Staged
<1>1. PICK i \in DOMAIN pipe[s][p].staged : d = <<p, i>>
  BY <1>0
<1>2. pipe[s][p] \in Pipelines
  BY DEF GatewayInv, TypeOK, SearchTypeOK
<1>3. pipe[s][p].staged \in Seq(Hits)
  BY <1>2 DEF Pipelines
<1>4. i \in 1..Len(pipe[s][p].staged) /\ i \in Nat /\ pipe[s][p].staged[i] \in Hits
  <2> DEFINE q == pipe[s][p].staged
  <2>1. q \in Seq(Hits) /\ i \in DOMAIN q
    BY <1>3
  <2> HIDE DEF q
  <2>2. i \in 1..Len(q) /\ Len(q) \in Nat
    BY <2>1, LenProperties
  <2>3. q[i] \in Hits
    BY <2>1, <2>2, ElementOfSeq
  <2>4. QED
    BY <2>2, <2>3 DEF q
<1>5. p \in Nat
  BY SearchAssumption DEF Providers
<1>6. Vetted(pipe[s][p].staged[i].raw_content, pipe[s][p].staged[i].content)
  BY DEF GatewayInv, PipeInv
<1>7. QED
  BY <1>1, <1>4, <1>5, <1>6

\* The commit of a search lets every record grow, into one with judged bodies.
LEMMA CommittedMeans ==
  ASSUME GatewayInv, NEW s \in Searches, NEW u \in Urls
  PROVE  /\ Committed(s)[u] \in Records /\ GrowsTo(store[u], Committed(s)[u])
         /\ Vetted(Committed(s)[u].raw_content, Committed(s)[u].content)
<1> DEFINE D == Staged(s, u)
           raw == [d \in D |-> pipe[s][d[1]].staged[d[2]].raw_content]
           clean == [d \in D |-> pipe[s][d[1]].staged[d[2]].content]
           fr == FirstStaged(raw, D)
           fc == FirstStaged(clean, D)
<1>1. /\ store[u] \in Records
      /\ store[u].raw_content \in Bodies /\ store[u].content \in Bodies
      /\ Vetted(store[u].raw_content, store[u].content)
  BY DEF GatewayInv, TypeOK, SearchTypeOK, StoreTypeOK, BodiesVetted, Vetted, VettedIn, Records
<1>2. \A d \in D : /\ d \in Nat \X Nat /\ raw[d] \in Bodies /\ clean[d] \in Bodies
                   /\ Vetted(raw[d], clean[d])
  BY StagedMeans DEF Hits
<1>3. Committed(s)[u] = IF D = {} THEN store[u] ELSE AdmittedRecord(store[u], fr, fc)
  BY DEF Committed
<1>4. raw \in [D -> Bodies] /\ clean \in [D -> Bodies] /\ D \subseteq Nat \X Nat
  BY <1>2
<1> HIDE DEF D, raw, clean
<1>5. /\ fr \in Bodies /\ fc \in Bodies
      /\ fc = NoText => \A d \in D : clean[d] = NoText
      /\ fc # NoText => \E d \in D : clean[d] = fc
      /\ fr # NoText => \E d \in D : raw[d] = fr
  BY <1>4, FirstStagedMeans
<1> HIDE DEF fr, fc
<1>6. Vetted(fr, fc)
  BY <1>2, <1>5 DEF Vetted, VettedIn
<1>7. Vetted(FirstNonEmpty(store[u].raw_content, fr), FirstNonEmpty(store[u].content, fc))
  BY <1>1, <1>5, <1>6, MergeVets
<1>8. GrowsTo(store[u], store[u])
  BY DEF GrowsTo
<1> DEFINE a == AdmittedRecord(store[u], fr, fc)
<1>9. /\ a \in Records /\ GrowsTo(store[u], a)
      /\ a.raw_content = FirstNonEmpty(store[u].raw_content, fr)
      /\ a.content = FirstNonEmpty(store[u].content, fc)
  <2>1. store[u] \in Records /\ fr \in Bodies /\ fc \in Bodies
    BY <1>1, <1>5
  <2>2. QED
    BY <2>1, AdmittedRecordGrows, Zenon
<1> HIDE DEF a
<1>10. Vetted(a.raw_content, a.content)
  BY <1>7, <1>9
<1>11. Committed(s)[u] = IF D = {} THEN store[u] ELSE a
  BY <1>3 DEF a
<1>12. QED
  BY <1>1, <1>8, <1>9, <1>10, <1>11

\* A step of a search keeps the invariant if it does so for the pipelines and the
\* store: the requests are not disturbed.
LEMMA SearchStep ==
  ASSUME GatewayInv, StoreTypeOK', StoreGrows, BodiesVetted', SearchTypeOK', PipeInv',
         UNCHANGED fetchVars
  PROVE  GatewayInv'
<1>1. TypeOK' /\ FlightInv'
  BY DEF GatewayInv, TypeOK, FetchTypeOK, FlightInv, fetchVars, Key
<1>2. AcceptedInv'
  BY AcceptedFrame DEF fetchVars
<1>3. ASSUME NEW q \in Requests PROVE RequestInv(q)'
  BY RequestFrame DEF fetchVars
<1>4. QED
  BY <1>1, <1>2, <1>3 DEF GatewayInv

\* One pipeline gets a new state.
LEMMA PipeStep ==
  ASSUME GatewayInv, NEW s \in Searches, NEW p \in Providers, NEW new \in Pipelines,
         SetPipe(s, p, new), vetted \subseteq vetted', StoreTypeOK', search' = search,
         results' = results,
         \A i \in DOMAIN new.staged :
           VettedIn(vetted', new.staged[i].raw_content, new.staged[i].content),
         new.phase = "judge" => new.hits # <<>> /\ Judged(Head(new.hits)) # NoText
  PROVE  SearchTypeOK' /\ PipeInv'
<1>1. SearchTypeOK /\ PipeInv
  BY DEF GatewayInv, TypeOK
<1>2. /\ pipe' \in [Searches -> [Providers -> Pipelines]] /\ pipe'[s][p] = new
      /\ \A z \in Searches, q \in Providers : z # s \/ q # p => pipe'[z][q] = pipe[z][q]
  BY <1>1 DEF SearchTypeOK, SetPipe
<1>3. SearchTypeOK'
  BY <1>1, <1>2 DEF SearchTypeOK
<1>4. ASSUME NEW z \in Searches, NEW q \in Providers
      PROVE  /\ \A i \in DOMAIN pipe'[z][q].staged :
                  /\ pipe'[z][q].staged[i].content # NoText =>
                       pipe'[z][q].staged[i].content \in vetted'
                  /\ pipe'[z][q].staged[i].content = NoText /\ pipe'[z][q].staged[i].raw_content # NoText
                       => pipe'[z][q].staged[i].raw_content \in vetted'
             /\ pipe'[z][q].phase = "judge" =>
                  pipe'[z][q].hits # <<>> /\ Judged(Head(pipe'[z][q].hits)) # NoText
  <2>1. CASE z = s /\ q = p
    BY <1>2, <2>1 DEF Vetted, VettedIn
  <2>2. CASE z # s \/ q # p
    BY <1>1, <1>2, <2>2 DEF PipeInv, Vetted, VettedIn
  <2>3. QED
    BY <2>1, <2>2
<1>5. PipeInv'
  BY <1>4 DEF PipeInv, Vetted, VettedIn, Judged, WithBody, Stripped, CheapCheck, FirstNonEmpty
<1>6. QED
  BY <1>3, <1>5

\* A provider answers or fails, or the judge does.
LEMMA PipelineKeeps ==
  ASSUME GatewayInv, NEW s \in Searches, NEW p \in Providers, UNCHANGED fetchVars,
         \/ QueryFailed(s, p)
         \/ \E hits \in HitLists : QueryDone(s, p, hits)
         \/ \E ok \in StageDecisions : JudgeSays(s, p, ok)
         \/ JudgeFailed(s, p)
         \/ JudgeBroke(s, p)
  PROVE  GatewayInv'
<1> DEFINE old == pipe[s][p]
<1>1. /\ old \in Pipelines
      /\ \A i \in DOMAIN old.staged : Vetted(old.staged[i].raw_content, old.staged[i].content)
      /\ old.phase = "judge" => old.hits # <<>> /\ Judged(Head(old.hits)) # NoText
  BY DEF GatewayInv, TypeOK, SearchTypeOK, PipeInv
<1> HIDE DEF old
<1>2. /\ old.hits \in Seq(Hits) /\ old.staged \in Seq(Hits) /\ old.hit_failure \in BOOLEAN
  BY <1>1 DEF Pipelines
<1>3. ASSUME NEW new \in Pipelines, SetPipe(s, p, new), UNCHANGED <<storeVars, search, results>>,
             \A i \in DOMAIN new.staged :
               Vetted(new.staged[i].raw_content, new.staged[i].content),
             new.phase = "judge" => new.hits # <<>> /\ Judged(Head(new.hits)) # NoText
      PROVE  GatewayInv'
  <2>1. StoreTypeOK' /\ StoreGrows /\ BodiesVetted' /\ vetted' = vetted
    BY <1>3, StoreFrame DEF storeVars
  <2>2. \A i \in DOMAIN new.staged :
         VettedIn(vetted', new.staged[i].raw_content, new.staged[i].content)
    BY <1>3, <2>1 DEF Vetted, VettedIn
  <2>3. SearchTypeOK' /\ PipeInv'
    BY <1>3, <2>1, <2>2, PipeStep
  <2>4. QED
    BY <2>1, <2>3, SearchStep
<1>4. CASE QueryFailed(s, p) \/ JudgeBroke(s, p)
  <2> DEFINE new == Pipe("failed")
  <2>1. new \in Pipelines /\ DOMAIN new.staged = {} /\ new.phase # "judge"
    BY EmptySeq DEF Pipe, Pipelines
  <2> HIDE DEF new
  <2>2. SetPipe(s, p, new) /\ UNCHANGED <<storeVars, search, results>>
    BY <1>4 DEF QueryFailed, JudgeBroke, new
  <2>3. QED
    BY <1>3, <2>1, <2>2
<1>5. CASE \E hits \in HitLists : QueryDone(s, p, hits)
  <2>1. PICK hits \in HitLists : QueryDone(s, p, hits)
    BY <1>5
  <2> DEFINE none == <<>>
             new == RunOn(hits, none, FALSE)
  <2>2. hits \in Seq(Hits) /\ none \in Seq(Hits) /\ DOMAIN none = {} /\ FALSE \in BOOLEAN
    BY SearchAssumption, EmptySeq
  <2>3. /\ new \in Pipelines
        /\ \A i \in DOMAIN new.staged :
             new.staged[i].raw_content = NoText /\ new.staged[i].content = NoText
        /\ new.phase = "judge" => new.hits # <<>> /\ Judged(Head(new.hits)) # NoText
    <3> HIDE DEF none
    <3>1. QED
      BY <2>2, RunOnMeans
  <2>4. SetPipe(s, p, new) /\ UNCHANGED <<storeVars, search, results>>
    BY <2>1 DEF QueryDone
  <2> HIDE DEF new
  <2>5. QED
    BY <1>3, <2>3, <2>4 DEF Vetted, VettedIn
<1>6. CASE JudgeFailed(s, p)
  <2> DEFINE new == RunOn(Tail(old.hits), old.staged, TRUE)
  <2>1. SetPipe(s, p, new) /\ UNCHANGED <<storeVars, search, results>> /\ old.phase = "judge"
    BY <1>6 DEF JudgeFailed, Running, old
  <2>2. Tail(old.hits) \in Seq(Hits)
    BY <1>1, <1>2, <2>1, HeadTailProperties
  <2>3. /\ new \in Pipelines
        /\ \A i \in DOMAIN new.staged :
             \/ new.staged[i].raw_content = NoText /\ new.staged[i].content = NoText
             \/ \E j \in DOMAIN old.staged : new.staged[i] = old.staged[j]
        /\ new.phase = "judge" => new.hits # <<>> /\ Judged(Head(new.hits)) # NoText
    BY <1>2, <2>2, RunOnMeans
  <2> HIDE DEF new
  <2>4. \A i \in DOMAIN new.staged : Vetted(new.staged[i].raw_content, new.staged[i].content)
    BY <1>1, <2>3 DEF Vetted, VettedIn
  <2>5. QED
    BY <1>3, <2>1, <2>3, <2>4
<1>7. CASE \E ok \in StageDecisions : JudgeSays(s, p, ok)
  <2>1. PICK ok \in BOOLEAN : JudgeSays(s, p, ok)
    BY <1>7 DEF StageDecisions
  <2> DEFINE hit == Head(old.hits)
             kept == IF ok THEN WithBody(hit) ELSE Bare(hit)
             staged == Append(old.staged, kept)
             new == RunOn(Tail(old.hits), staged, old.hit_failure)
  <2>2. /\ SetPipe(s, p, new) /\ UNCHANGED <<store, search, results>> /\ old.phase = "judge"
        /\ vetted' = IF ok THEN vetted \cup {Judged(hit)} ELSE vetted
    BY <2>1 DEF JudgeSays, Running, old
  <2>3. Tail(old.hits) \in Seq(Hits) /\ hit \in Hits
    BY <1>1, <1>2, <2>2, HeadTailProperties
  <2>4. Judged(hit) \in Texts
    BY <1>1, <2>2, <2>3, JudgedMeans
  <2>5. vetted \subseteq vetted' /\ vetted' \subseteq Texts
    BY <2>2, <2>4 DEF GatewayInv, TypeOK, SearchTypeOK, StoreTypeOK
  <2>6. StoreTypeOK' /\ StoreGrows /\ BodiesVetted'
    BY <2>2, <2>5
       DEF GatewayInv, TypeOK, SearchTypeOK, StoreTypeOK, StoreGrows, GrowsTo, BodiesVetted
  <2>7. kept \in Hits
    BY <2>3, HitTypes
  <2>8. VettedIn(vetted', kept.raw_content, kept.content)
    <3>1. CASE ok
      <4>1. Judged(hit) \in vetted'
        BY <2>2, <3>1
      <4>2. QED
        BY <2>3, <3>1, <4>1, HitTypes DEF Vetted, VettedIn, Judged, FirstNonEmpty
    <3>2. CASE ~ok
      BY <2>3, <3>2, HitTypes DEF Vetted, VettedIn
    <3>3. QED
      BY <3>1, <3>2
  <2> HIDE DEF kept, hit
  <2>9. /\ staged \in Seq(Hits)
        /\ \A i \in DOMAIN staged :
             staged[i] = kept \/ (i \in DOMAIN old.staged /\ staged[i] = old.staged[i])
    <3> DEFINE b == old.staged
    <3>1. b \in Seq(Hits)
      BY <1>2
    <3> HIDE DEF b
    <3>2. /\ Append(b, kept) \in Seq(Hits) /\ Len(Append(b, kept)) = Len(b) + 1
          /\ \A i \in 1..Len(b) : Append(b, kept)[i] = b[i]
          /\ Append(b, kept)[Len(b) + 1] = kept
      BY <2>7, <3>1, AppendProperties
    <3>3. /\ DOMAIN Append(b, kept) = 1..(Len(b) + 1) /\ DOMAIN b = 1..Len(b) /\ Len(b) \in Nat
      BY <3>1, <3>2, LenProperties
    <3>4. QED
      BY <3>2, <3>3 DEF b
  <2> HIDE DEF staged
  <2>10. /\ new \in Pipelines
         /\ \A i \in DOMAIN new.staged :
              \/ new.staged[i].raw_content = NoText /\ new.staged[i].content = NoText
              \/ \E j \in DOMAIN staged : new.staged[i] = staged[j]
         /\ new.phase = "judge" => new.hits # <<>> /\ Judged(Head(new.hits)) # NoText
    BY <1>2, <2>3, <2>9, RunOnMeans
  <2> HIDE DEF new
  <2>11. \A j \in DOMAIN staged : VettedIn(vetted', staged[j].raw_content, staged[j].content)
    BY <1>1, <2>5, <2>8, <2>9 DEF Vetted, VettedIn
  <2>12. \A i \in DOMAIN new.staged :
         VettedIn(vetted', new.staged[i].raw_content, new.staged[i].content)
    BY <2>10, <2>11 DEF Vetted, VettedIn
  <2>13. SearchTypeOK' /\ PipeInv'
    BY <2>2, <2>5, <2>6, <2>10, <2>12, PipeStep
  <2>14. QED
    BY <2>6, <2>13, SearchStep
<1>8. QED
  BY <1>4, <1>5, <1>6, <1>7

\* All pipelines of a search start anew or are gone: nothing is staged in them.
LEMMA PipesReset ==
  ASSUME GatewayInv, NEW s \in Searches, NEW new \in [Providers -> Pipelines],
         \A p \in Providers : new[p].phase # "judge" /\ DOMAIN new[p].staged = {},
         pipe' = [pipe EXCEPT ![s] = new], vetted' = vetted, StoreTypeOK',
         search' \in [Searches -> {"idle", "running", "done", "unwritten", "failed", "cancelled"}],
         results' \in [Searches -> SUBSET Urls]
  PROVE  SearchTypeOK' /\ PipeInv'
<1>1. SearchTypeOK /\ PipeInv
  BY DEF GatewayInv, TypeOK
<1>2. /\ pipe' \in [Searches -> [Providers -> Pipelines]] /\ pipe'[s] = new
      /\ \A z \in Searches \ {s} : pipe'[z] = pipe[z]
  BY <1>1 DEF SearchTypeOK
<1>3. SearchTypeOK'
  BY <1>2 DEF SearchTypeOK
<1>4. ASSUME NEW z \in Searches, NEW q \in Providers
      PROVE  /\ \A i \in DOMAIN pipe'[z][q].staged :
                  VettedIn(vetted', pipe'[z][q].staged[i].raw_content, pipe'[z][q].staged[i].content)
             /\ pipe'[z][q].phase = "judge" =>
                  pipe'[z][q].hits # <<>> /\ Judged(Head(pipe'[z][q].hits)) # NoText
  BY <1>1, <1>2 DEF PipeInv, Vetted, VettedIn
<1>5. PipeInv'
  BY <1>4 DEF PipeInv, Vetted, VettedIn, Judged, WithBody, Stripped, CheapCheck, FirstNonEmpty
<1>6. QED
  BY <1>3, <1>5

\* A pipeline that has not staged anything.
LEMMA FreshPipe ==
  ASSUME NEW ph \in {"none", "query", "failed"}
  PROVE  Pipe(ph) \in Pipelines /\ Pipe(ph).phase # "judge" /\ DOMAIN Pipe(ph).staged = {}
BY EmptySeq DEF Pipe, Pipelines

\* A keyword search starts, is cancelled, or commits.
LEMMA WholeSearchKeeps ==
  ASSUME GatewayInv, NEW s \in Searches, UNCHANGED fetchVars,
         \/ \E selected \in Selections : StartSearch(s, selected)
         \/ \E written \in BOOLEAN : Commit(s, written)
         \/ CancelSearch(s)
  PROVE  GatewayInv'
<1>1. SearchTypeOK
  BY DEF GatewayInv, TypeOK
<1> DEFINE states == {"idle", "running", "done", "unwritten", "failed", "cancelled"}
           gone == [p \in Providers |-> Pipe("none")]
<1>2. ASSUME StoreTypeOK', StoreGrows, BodiesVetted', vetted' = vetted,
             NEW new \in [Providers -> Pipelines],
             \A p \in Providers : new[p].phase # "judge" /\ DOMAIN new[p].staged = {},
             pipe' = [pipe EXCEPT ![s] = new],
             search' \in [Searches -> states], results' \in [Searches -> SUBSET Urls]
      PROVE  GatewayInv'
  BY <1>2, PipesReset, SearchStep
<1>3. /\ gone \in [Providers -> Pipelines]
      /\ \A p \in Providers : gone[p].phase # "judge" /\ DOMAIN gone[p].staged = {}
  BY FreshPipe
<1>4. CASE \E selected \in Selections : StartSearch(s, selected)
  <2>1. PICK selected \in Selections : StartSearch(s, selected)
    BY <1>4
  <2> DEFINE new == [p \in Providers |-> IF p \in selected THEN Pipe("query") ELSE Pipe("none")]
  <2>2. /\ new \in [Providers -> Pipelines]
        /\ \A p \in Providers : new[p].phase # "judge" /\ DOMAIN new[p].staged = {}
    BY FreshPipe
  <2>3. /\ pipe' = [pipe EXCEPT ![s] = new] /\ UNCHANGED <<storeVars, results>>
        /\ search' = [search EXCEPT ![s] = "running"]
    BY <2>1 DEF StartSearch
  <2> HIDE DEF new
  <2>4. search' \in [Searches -> states] /\ results' \in [Searches -> SUBSET Urls]
    BY <1>1, <2>3 DEF SearchTypeOK
  <2>5. StoreTypeOK' /\ StoreGrows /\ BodiesVetted' /\ vetted' = vetted
    BY <2>3, StoreFrame DEF storeVars
  <2> HIDE DEF states
  <2>6. QED
    BY <1>2, <2>2, <2>3, <2>4, <2>5
<1>5. CASE CancelSearch(s)
  <2>1. /\ pipe' = [pipe EXCEPT ![s] = gone] /\ UNCHANGED <<storeVars, results>>
        /\ search' = [search EXCEPT ![s] = "cancelled"]
    BY <1>5 DEF CancelSearch, Gone
  <2> HIDE DEF gone
  <2>2. search' \in [Searches -> states] /\ results' \in [Searches -> SUBSET Urls]
    BY <1>1, <2>1 DEF SearchTypeOK
  <2>3. StoreTypeOK' /\ StoreGrows /\ BodiesVetted' /\ vetted' = vetted
    BY <2>1, StoreFrame DEF storeVars
  <2> HIDE DEF states
  <2>4. QED
    BY <1>2, <1>3, <2>1, <2>2, <2>3
<1>6. CASE \E written \in BOOLEAN : Commit(s, written)
  <2>1. /\ pipe' = [pipe EXCEPT ![s] = gone] /\ vetted' = vetted
        /\ store' = store \/ store' = Committed(s)
        /\ \E state \in states : search' = [search EXCEPT ![s] = state]
        /\ \E found \in SUBSET Urls : results' \in {results, [results EXCEPT ![s] = found]}
    BY <1>6 DEF Commit, Gone
  <2> HIDE DEF gone
  <2>2. search' \in [Searches -> states] /\ results' \in [Searches -> SUBSET Urls]
    BY <1>1, <2>1 DEF SearchTypeOK
  <2> HIDE DEF states
  <2>3. StoreTypeOK' /\ StoreGrows /\ BodiesVetted'
    <3>1. CASE store' = store
      BY <2>1, <3>1, StoreFrame DEF storeVars
    <3>2. CASE store' = Committed(s)
      <4>1. \A u \in Urls : /\ store'[u] \in Records /\ GrowsTo(store[u], store'[u])
                            /\ VettedIn(vetted, store'[u].raw_content, store'[u].content)
        BY <3>2, CommittedMeans DEF Vetted
      <4>2. store' \in [Urls -> Records]
        <5>1. store' = [u \in Urls |-> store'[u]]
          BY <3>2 DEF Committed
        <5>2. QED
          BY <4>1, <5>1
      <4>3. StoreTypeOK'
        BY <1>1, <2>1, <4>2 DEF SearchTypeOK, StoreTypeOK
      <4>4. StoreGrows
        BY <2>1, <4>1 DEF StoreGrows
      <4>5. BodiesVetted'
        BY <2>1, <4>1 DEF BodiesVetted, VettedIn
      <4>6. QED
        BY <4>3, <4>4, <4>5
    <3>3. QED
      BY <2>1, <3>1, <3>2
  <2>4. QED
    BY <1>2, <1>3, <2>1, <2>2, <2>3
<1>7. QED
  BY <1>4, <1>5, <1>6

\* Every step of the gateway keeps the inductive invariant.
LEMMA GatewayStep == GatewayInv /\ [Next]_gatewayVars => GatewayInv'
<1> SUFFICES ASSUME GatewayInv, [Next]_gatewayVars PROVE GatewayInv'
  OBVIOUS
<1>1. CASE FetchNext /\ UNCHANGED searchVars
  BY <1>1, FetchNextKeeps
<1>2. CASE SearchNext /\ UNCHANGED fetchVars
  BY <1>2, WholeSearchKeeps, PipelineKeeps DEF SearchNext, SearchProgress
<1>3. CASE \E found \in SUBSET Urls : AdmitBare(found) /\ UNCHANGED <<fetchVars, searchVars>>
  <2>1. StoreTypeOK' /\ StoreGrows /\ BodiesVetted' /\ vetted' = vetted
    BY <1>3, AdmitBareGrows DEF AdmitBare
  <2>2. SearchTypeOK' /\ PipeInv'
    BY <1>3, <2>1
       DEF GatewayInv, TypeOK, SearchTypeOK, PipeInv, Vetted, VettedIn, searchVars, Judged, WithBody,
           Stripped, CheapCheck, FirstNonEmpty
  <2>3. QED
    BY <1>3, <2>1, <2>2, SearchStep
<1>4. CASE UNCHANGED gatewayVars
  <2>1. UNCHANGED <<storeVars, fetchVars, searchVars>>
    BY <1>4 DEF gatewayVars
  <2>2. StoreTypeOK' /\ StoreGrows /\ BodiesVetted' /\ vetted' = vetted
    BY <2>1, StoreFrame DEF storeVars
  <2>3. SearchTypeOK' /\ PipeInv'
    BY <2>1, <2>2
       DEF GatewayInv, TypeOK, SearchTypeOK, PipeInv, Vetted, VettedIn, searchVars, Judged, WithBody,
           Stripped, CheapCheck, FirstNonEmpty
  <2>4. QED
    BY <2>1, <2>2, <2>3, SearchStep
<1>5. QED
  BY <1>1, <1>2, <1>3, <1>4 DEF Next

-----------------------------------------------------------------------------
(* What the gateway promises. *)

\* The inductive invariant, and with it the types, hold in every behaviour.
THEOREM GatewayInvariant == GatewaySpec => [](TypeOK /\ GatewayInv)
<1>1. GatewayInv => TypeOK
  BY DEF GatewayInv
<1>2. QED
  BY GatewayInitial, GatewayStep, <1>1, PTL DEF GatewaySpec

\* No body reaches a user or content_clean that the judge has not accepted.
THEOREM StoreIsVetted == GatewaySpec => []BodiesVetted
<1>1. GatewayInv => BodiesVetted
  BY DEF GatewayInv
<1>2. QED
  BY GatewayInvariant, <1>1, PTL

\* What url_fetch serves was judged, passed the safety stage of the workflow that
\* serves it, and is what the store keeps for the URL.
THEOREM OnlyCheckedIsServed == GatewaySpec => []ServedIsChecked
<1>1. GatewayInv => ServedIsChecked
  BY DEF GatewayInv, RequestInv, ServedIsChecked
<1>2. QED
  BY GatewayInvariant, <1>1, PTL

\* The providers deliver an accepted body for a URL at most once.
THEOREM ProvidersDeliverOnce == GatewaySpec => []OneProviderBody
<1>1. GatewayInv => OneProviderBody
  BY DEF GatewayInv, AcceptedInv
<1>2. QED
  BY GatewayInvariant, <1>1, PTL

\* Only the cancelled request and the followers of its future are cancelled.
THEOREM CancellationStaysScoped == GatewaySpec => []CancellationIsScoped
<1>1. GatewayInv => CancellationIsScoped
  BY DEF GatewayInv, RequestInv, CancellationIsScoped
<1>2. QED
  BY GatewayInvariant, <1>1, PTL

\* Request q is suspended in a call of its own, or what it waits for has happened:
\* its next step is up to no other request.
CanGoOn(q) ==
  \/ phase[q] \in Working
  \/ phase[q] = "lock" /\ holder[UrlOf[q]] = NoRequest
  \/ phase[q] = "follower" /\ outcome[leader[q]].kind # "none"

\* Requests never wait for each other in a circle, nor for one that is gone: of a
\* request in progress, its leader and the holder of its URL lock, one goes on.
\* This is the part of RequestsEnd that is about states: a future that nobody
\* would complete or a lock that nobody would release would break it.
NobodyIsStranded ==
  \A r \in Requests : phase[r] \notin {"idle", "done"} =>
    \E q \in Requests \cap {r, leader[r], holder[UrlOf[r]]} : CanGoOn(q)

\* Singleflight and the URL lock together leave no request waiting for nobody.
THEOREM NobodyWaitsForNobody == GatewaySpec => []NobodyIsStranded
<1>1. ASSUME GatewayInv, NEW r \in Requests, phase[r] \notin {"idle", "done"}
      PROVE  \E q \in Requests \cap {r, leader[r], holder[UrlOf[r]]} : CanGoOn(q)
  <2>1. FlightInv /\ FetchTypeOK
    BY <1>1 DEF GatewayInv, TypeOK
  <2>2. phase \in [Requests -> Phases] /\ holder \in [Urls -> Requests \cup {NoRequest}]
    BY <2>1 DEF FetchTypeOK
  <2>3. ASSUME NEW q \in Requests, phase[q] = "lock", UrlOf[q] = UrlOf[r]
        PROVE  \/ CanGoOn(q)
               \/ holder[UrlOf[r]] \in Requests /\ CanGoOn(holder[UrlOf[r]])
    <3>1. CASE holder[UrlOf[q]] = NoRequest
      BY <2>3, <3>1 DEF CanGoOn
    <3>2. CASE holder[UrlOf[q]] # NoRequest
      <4>1. UrlOf[q] \in Urls /\ holder[UrlOf[q]] \in Requests
        BY <2>2, <3>2, RequestAssumption
      <4>2. UrlOf[holder[UrlOf[q]]] = UrlOf[q]
        BY <2>1, <3>2, <4>1 DEF FlightInv
      <4>3. phase[holder[UrlOf[q]]] \in Working
        BY <2>1, <4>1, <4>2 DEF FlightInv
      <4>4. QED
        BY <2>3, <4>1, <4>3 DEF CanGoOn
    <3>3. QED
      BY <3>1, <3>2
  <2>4. CASE phase[r] \in Working
    BY <2>4 DEF CanGoOn
  <2>5. CASE phase[r] = "lock"
    BY <2>3, <2>5
  <2>6. CASE phase[r] = "follower"
    <3>1. /\ leader[r] \in Requests /\ Key(leader[r]) = Key(r)
          /\ leader[leader[r]] = leader[r]
      BY <2>1, <2>6 DEF FlightInv
    <3>2. phase[leader[r]] \notin {"idle", "follower"}
      BY <2>1, <3>1, RequestAssumption DEF FlightInv
    <3>3. UrlOf[leader[r]] = UrlOf[r]
      BY <3>1 DEF Key
    <3>4. CASE phase[leader[r]] = "done"
      <4>1. outcome[leader[r]].kind # "none"
        BY <2>1, <3>1, <3>4 DEF FlightInv
      <4>2. QED
        BY <2>6, <4>1 DEF CanGoOn
    <3>5. CASE phase[leader[r]] \in Working
      BY <3>1, <3>5 DEF CanGoOn
    <3>6. CASE phase[leader[r]] = "lock"
      BY <2>3, <3>1, <3>3, <3>6
    <3>7. QED
      BY <2>2, <3>1, <3>2, <3>4, <3>5, <3>6 DEF Phases, Working
  <2>7. QED
    BY <1>1, <2>2, <2>4, <2>5, <2>6 DEF Phases, Working
<1>2. GatewayInv => NobodyIsStranded
  BY <1>1 DEF NobodyIsStranded
<1>3. QED
  BY GatewayInvariant, <1>2, PTL

\* What a step may do to the store.
LEMMA StoreStep ==
  ASSUME [Next]_gatewayVars
  PROVE  \/ store' = store
         \/ \E u \in Urls, raw \in Bodies, clean \in Bodies : MergeBody(u, raw, clean)
         \/ \E u \in Urls : MarkUnavailable(u)
         \/ \E found \in SUBSET Urls : AdmitBare(found)
         \/ \E s \in Searches : store' = Committed(s)
<1>1. CASE FetchNext
  <2>1. PICK r \in Requests : Join(r) \/ Lead(r) \/ FetchProgress(r) \/ CancelRequest(r)
    BY <1>1 DEF FetchNext
  <2>2. UrlOf[r] \in Urls
    BY RequestAssumption
  <2>3. CASE FetchProgress(r)
    <3>1. CASE Rejected(r)
      BY <2>2, <3>1 DEF Rejected
    <3>2. CASE \E raw \in Bodies \ {NoText}, clean \in Bodies : FetchAccepted(r, raw, clean)
      BY <2>2, <3>2 DEF FetchAccepted
    <3>3. CASE \E cleaned \in StageTexts : CleanDone(r, cleaned)
      <4>1. NoText \in Bodies /\ StageTexts \subseteq Bodies
        BY DEF Bodies, StageTexts
      <4>2. QED
        BY <2>2, <3>3, <4>1 DEF CleanDone
    <3>4. CASE EnterLock(r) \/ StageFailed(r) \/ SafetyPassed(r) \/ FocusDone(r) \/ FollowerDone(r)
      BY <3>4 DEF EnterLock, StageFailed, SafetyPassed, FocusDone, FollowerDone, storeVars
    <3>5. QED
      BY <2>3, <3>1, <3>2, <3>3, <3>4 DEF FetchProgress
  <2>4. CASE Join(r) \/ Lead(r) \/ CancelRequest(r)
    BY <2>4 DEF Join, Lead, CancelRequest, storeVars
  <2>5. QED
    BY <2>1, <2>3, <2>4
<1>2. CASE SearchNext
  BY <1>2 DEF SearchNext, SearchProgress, StartSearch, CancelSearch, Commit, QueryFailed, QueryDone,
              JudgeSays, JudgeFailed, JudgeBroke, storeVars
<1>3. CASE UNCHANGED gatewayVars
  BY <1>3 DEF gatewayVars, storeVars
<1>4. QED
  BY <1>1, <1>2, <1>3 DEF Next

\* Every step lets every record grow.
LEMMA EveryStepGrows ==
  ASSUME GatewayInv, [Next]_gatewayVars, NEW u \in Urls
  PROVE  GrowsTo(store[u], store'[u])
<1>1. store \in [Urls -> Records] /\ store[u] \in Records
  BY DEF GatewayInv, TypeOK, SearchTypeOK, StoreTypeOK
<1>2. GrowsTo(store[u], store[u])
  BY DEF GrowsTo
<1>3. CASE store' = store
  BY <1>2, <1>3
<1>4. ASSUME NEW v \in Urls, NEW raw \in Bodies, NEW clean \in Bodies, MergeBody(v, raw, clean)
      PROVE  GrowsTo(store[u], store'[u])
  <2>1. store'[u] = IF u = v THEN MergedBody(store[u], raw, clean) ELSE store[u]
    BY <1>1, <1>4 DEF MergeBody
  <2>2. QED
    BY <1>1, <1>2, <2>1, MergedBodyGrows
<1>5. ASSUME NEW v \in Urls, MarkUnavailable(v)
      PROVE  GrowsTo(store[u], store'[u])
  <2>1. CASE u = v
    <3>1. store'[u] = [store[u] EXCEPT !.available = FALSE]
      BY <1>1, <1>5, <2>1 DEF MarkUnavailable
    <3>2. QED
      BY <1>1, <3>1 DEF GrowsTo, Records
  <2>2. CASE u # v
    BY <1>1, <1>2, <1>5, <2>2 DEF MarkUnavailable
  <2>3. QED
    BY <2>1, <2>2
<1>6. CASE \E found \in SUBSET Urls : AdmitBare(found)
  BY <1>6, AdmitBareGrows DEF StoreGrows
<1>7. CASE \E s \in Searches : store' = Committed(s)
  BY <1>7, CommittedMeans
<1>8. QED
  BY <1>3, <1>4, <1>5, <1>6, <1>7, StoreStep

\* No step of any workflow replaces a body, makes a URL available again or
\* forgets one.
THEOREM StoreOnlyGrows == GatewaySpec => RecordsOnlyGrow
<1>1. GatewayInv /\ [Next]_gatewayVars =>
        [\A u \in Urls :
           /\ store[u].raw_content # NoText => store'[u].raw_content = store[u].raw_content
           /\ store[u].content # NoText => store'[u].content = store[u].content
           /\ ~store[u].available => ~store'[u].available
           /\ store[u].admitted => store'[u].admitted]_storeVars
  BY EveryStepGrows DEF GrowsTo
<1>2. QED
  BY GatewayInvariant, <1>1, PTL DEF GatewaySpec, RecordsOnlyGrow

-----------------------------------------------------------------------------
(* The URL lock: url_fetch uses it as KeyedMutex prescribes. *)

\* The state of a request as a user of the lock, which its phase gives away.
LockState(ph) ==
  IF ph = "lock" THEN "waiting" ELSE IF ph \in Working THEN "inside" ELSE "out"

\* The refinement mapping of UrlLock in terms of phases.
LEMMA LockStates ==
  ASSUME FlightInv
  PROVE  /\ [r \in Requests |-> IF phase[r] = "lock" THEN "waiting"
                                ELSE IF holder[UrlOf[r]] = r THEN "inside" ELSE "out"]
              = [r \in Requests |-> LockState(phase[r])]
         /\ [r \in Requests |-> IF phase[r] = "lock" \/ holder[UrlOf[r]] = r
                                THEN UrlOf[r] ELSE NoRequest]
              = [r \in Requests |-> IF LockState(phase[r]) = "out" THEN NoRequest ELSE UrlOf[r]]
<1>1. \A r \in Requests : phase[r] \in Working <=> holder[UrlOf[r]] = r
  BY DEF FlightInv
<1>2. QED
  BY <1>1 DEF LockState

\* A step moves one request at most; it starts to wait from outside only, and it
\* gets in when nobody holds the lock of its URL.
LEMMA PhaseStep ==
  ASSUME GatewayInv, [Next]_gatewayVars
  PROVE  \/ phase' = phase
         \/ \E r \in Requests, ph \in Phases :
              /\ phase' = [phase EXCEPT ![r] = ph]
              /\ ph = "lock" => phase[r] = "idle"
              /\ ph \in Working /\ phase[r] \notin Working => holder[UrlOf[r]] = NoRequest
<1>1. CASE FetchNext
  <2>1. PICK r \in Requests : Join(r) \/ Lead(r) \/ FetchProgress(r) \/ CancelRequest(r)
    BY <1>1 DEF FetchNext
  <2> DEFINE Moves(ph) == /\ phase' = [phase EXCEPT ![r] = ph]
                          /\ ph = "lock" => phase[r] = "idle"
                          /\ ph \in Working /\ phase[r] \notin Working => holder[UrlOf[r]] = NoRequest
  <2>2. SUFFICES \E ph \in Phases : Moves(ph)
    OBVIOUS
  <2>3. "done" \notin Working /\ "lock" \notin Working /\ "follower" \notin Working
    BY DEF Working
  <2>4. \A result : Finish(r, result) => Moves("done")
    BY <2>3 DEF Finish
  <2>5. \A ph \in Working : \A t :
          Suspend(r, ph, t) /\ (phase[r] \in Working \/ holder[UrlOf[r]] = NoRequest) => Moves(ph)
    BY <2>3 DEF Suspend
  <2>6. \A record : NextStage(record) \in Working
    BY DEF NextStage, Working
  <2>7. Working \subseteq Phases /\ {"done", "lock", "follower"} \subseteq Phases
    BY DEF Working, Phases
  <2> HIDE DEF Moves
  <2>8. ASSUME NEW record, Continue(r, record), phase[r] \in Working \/ holder[UrlOf[r]] = NoRequest
        PROVE  \E ph \in Phases : Moves(ph)
    BY <2>5, <2>6, <2>7, <2>8 DEF Continue
  <2>9. RunLocked(r) /\ holder[UrlOf[r]] = NoRequest => \E ph \in Phases : Moves(ph)
    BY <2>4, <2>7, <2>8 DEF RunLocked
  <2>10. CASE Join(r)
    <3>1. Moves("follower")
      BY <2>3, <2>10 DEF Join, Moves
    <3>2. QED
      BY <2>7, <3>1
  <2>11. CASE Lead(r)
    <3>1. CASE Busy(UrlOf[r])
      <4>1. Moves("lock")
        BY <2>3, <2>11, <3>1 DEF Lead, Moves
      <4>2. QED
        BY <2>7, <4>1
    <3>2. CASE ~Busy(UrlOf[r])
      BY <2>9, <2>11, <3>2 DEF Lead, Busy
    <3>3. QED
      BY <3>1, <3>2
  <2>12. CASE EnterLock(r)
    BY <2>9, <2>12 DEF EnterLock
  <2>13. CASE StageFailed(r) \/ Rejected(r) \/ FocusDone(r)
    BY <2>4, <2>7, <2>13 DEF StageFailed, Rejected, FocusDone
  <2>14. CASE \/ \E raw \in Bodies \ {NoText}, clean \in Bodies : FetchAccepted(r, raw, clean)
              \/ \E cleaned \in StageTexts : CleanDone(r, cleaned)
    BY <2>8, <2>14 DEF FetchAccepted, CleanDone, Working
  <2>15. CASE SafetyPassed(r)
    BY <2>4, <2>5, <2>7, <2>15 DEF SafetyPassed, Working
  <2>16. CASE FollowerDone(r)
    <3>1. Moves("done")
      BY <2>3, <2>16 DEF FollowerDone, Moves
    <3>2. QED
      BY <2>7, <3>1
  <2>17. CASE CancelRequest(r)
    <3>1. Moves("done")
      BY <2>3, <2>4, <2>17 DEF CancelRequest, Moves
    <3>2. QED
      BY <2>7, <3>1
  <2>18. QED
    BY <2>1, <2>10, <2>11, <2>12, <2>13, <2>14, <2>15, <2>16, <2>17 DEF FetchProgress
<1>2. CASE UNCHANGED fetchVars
  BY <1>2 DEF fetchVars
<1>3. CASE UNCHANGED gatewayVars
  BY <1>3 DEF gatewayVars, fetchVars
<1>4. QED
  BY <1>1, <1>2, <1>3 DEF Next

\* url_fetch implements KeyedMutex: at most one request works on a URL, and a
\* request enters, queues, gives up and leaves as the lock prescribes.
THEOREM FetchUsesUrlLock == GatewaySpec => UsesUrlLock
<1> DEFINE st == [r \in Requests |-> LockState(phase[r])]
           ky == [r \in Requests |-> IF LockState(phase[r]) = "out" THEN NoRequest ELSE UrlOf[r]]
           pcBar == [r \in Requests |-> IF phase[r] = "lock" THEN "waiting"
                                        ELSE IF holder[UrlOf[r]] = r THEN "inside" ELSE "out"]
           keyBar == [r \in Requests |-> IF phase[r] = "lock" \/ holder[UrlOf[r]] = r
                                         THEN UrlOf[r] ELSE NoRequest]
<1>1. GatewayInit => UrlLock!Init
  <2> SUFFICES ASSUME GatewayInit PROVE UrlLock!Init
    OBVIOUS
  <2>1. \A r \in Requests : phase[r] = "idle" /\ holder[UrlOf[r]] # r
    BY RequestAssumption DEF GatewayInit, FetchInit
  <2>2. QED
    BY <2>1 DEF UrlLock!Init
<1>2. GatewayInv /\ GatewayInv' /\ [Next]_gatewayVars => [UrlLock!Next]_(UrlLock!mutexVars)
  <2> SUFFICES ASSUME GatewayInv, GatewayInv', [Next]_gatewayVars
               PROVE  [UrlLock!Next]_(UrlLock!mutexVars)
    OBVIOUS
  <2>1. pcBar = st /\ keyBar = ky
    BY LockStates DEF GatewayInv
  <2>2. pcBar' = st' /\ keyBar' = ky'
    <3>1. \A r \in Requests : phase'[r] \in Working <=> holder'[UrlOf[r]] = r
      BY DEF GatewayInv, FlightInv
    <3>2. QED
      BY <3>1 DEF LockState
  <2>3. CASE phase' = phase
    BY <2>1, <2>2, <2>3 DEF UrlLock!mutexVars
  <2>4. ASSUME NEW r \in Requests, NEW ph \in Phases, phase' = [phase EXCEPT ![r] = ph],
               ph = "lock" => phase[r] = "idle",
               ph \in Working /\ phase[r] \notin Working => holder[UrlOf[r]] = NoRequest
        PROVE  [UrlLock!Next]_(UrlLock!mutexVars)
    <3> DEFINE old == LockState(phase[r])  new == LockState(ph)
    <3>1. phase'[r] = ph /\ \A q \in Requests \ {r} : phase'[q] = phase[q]
      BY <2>4 DEF GatewayInv, TypeOK, FetchTypeOK
    <3>2. /\ old \in {"waiting", "inside", "out"} /\ new \in {"waiting", "inside", "out"}
          /\ new = "waiting" => old = "out"
          /\ new = "inside" /\ old # "inside" => holder[UrlOf[r]] = NoRequest
      BY <2>4 DEF LockState, Working
    <3>3. holder[UrlOf[r]] = NoRequest =>
            \A t \in Requests : ~(st[t] = "inside" /\ ky[t] = UrlOf[r])
      <4>1. \A t \in Requests : st[t] = "inside" => holder[UrlOf[t]] = t /\ ky[t] = UrlOf[t]
        BY DEF LockState, GatewayInv, FlightInv
      <4>2. QED
        BY <4>1, RequestAssumption
    <3>4. /\ st' = [st EXCEPT ![r] = new]
          /\ ky' = [ky EXCEPT ![r] = IF new = "out" THEN NoRequest ELSE UrlOf[r]]
          /\ st[r] = old /\ ky[r] = IF old = "out" THEN NoRequest ELSE UrlOf[r]
      BY <3>1
    <3>5. UrlOf[r] \in Urls
      BY RequestAssumption
    <3> HIDE DEF old, new, pcBar, keyBar
    <3>6. pcBar' = [pcBar EXCEPT ![r] = new]
      BY <2>1, <2>2, <3>4
    <3>7. keyBar' = [keyBar EXCEPT ![r] = IF new = "out" THEN NoRequest ELSE UrlOf[r]]
      BY <2>1, <2>2, <3>4
    <3>8. pcBar[r] = old /\ keyBar[r] = IF old = "out" THEN NoRequest ELSE UrlOf[r]
      BY <2>1, <3>4
    <3>9. holder[UrlOf[r]] = NoRequest =>
            \A t \in Requests : ~(pcBar[t] = "inside" /\ keyBar[t] = UrlOf[r])
      BY <2>1, <3>3
    <3>10. pcBar = [t \in Requests |-> pcBar[t]] /\ keyBar = [t \in Requests |-> keyBar[t]]
      BY <2>1
    <3>11. CASE new = old
      <4>1. pcBar' = pcBar /\ keyBar' = keyBar
        BY <3>6, <3>7, <3>8, <3>10, <3>11
      <4>2. QED
        BY <4>1 DEF UrlLock!mutexVars, pcBar, keyBar
    <3>12. CASE new = "waiting"
      <4>1. UrlLock!Request(r, UrlOf[r])
        BY <3>2, <3>6, <3>7, <3>8, <3>12 DEF UrlLock!Request, pcBar, keyBar
      <4>2. QED
        BY <3>5, <4>1 DEF UrlLock!Next
    <3>13. CASE new = "inside" /\ old = "out"
      <4>1. UrlLock!Free(UrlOf[r])
        BY <3>2, <3>9, <3>13 DEF UrlLock!Free, pcBar, keyBar
      <4>2. UrlLock!Request(r, UrlOf[r])
        BY <3>6, <3>7, <3>8, <3>13, <4>1 DEF UrlLock!Request, pcBar, keyBar
      <4>3. QED
        BY <3>5, <4>2 DEF UrlLock!Next
    <3>14. CASE new = "inside" /\ old = "waiting"
      <4>1. UrlLock!Free(UrlOf[r])
        BY <3>2, <3>9, <3>14 DEF UrlLock!Free, pcBar, keyBar
      <4>2. keyBar[r] = UrlOf[r] /\ keyBar' = keyBar
        BY <3>7, <3>8, <3>10, <3>14
      <4>3. UrlLock!Grant(r)
        BY <3>6, <3>8, <3>14, <4>1, <4>2 DEF UrlLock!Grant, pcBar, keyBar
      <4>4. QED
        BY <4>3 DEF UrlLock!Next
    <3>15. CASE new = "out" /\ old # "out"
      <4>1. old = "waiting" => UrlLock!GiveUp(r)
        BY <3>6, <3>7, <3>8, <3>15 DEF UrlLock!GiveUp, UrlLock!Leave, pcBar, keyBar
      <4>2. old = "inside" => UrlLock!Release(r)
        BY <3>6, <3>7, <3>8, <3>15 DEF UrlLock!Release, UrlLock!Leave, pcBar, keyBar
      <4>3. QED
        BY <3>2, <3>15, <4>1, <4>2 DEF UrlLock!Next
    <3>16. QED
      BY <3>2, <3>11, <3>12, <3>13, <3>14, <3>15
  <2>5. QED
    BY <2>3, <2>4, PhaseStep
<1>3. QED
  BY GatewayInvariant, <1>1, <1>2, PTL DEF GatewaySpec, UsesUrlLock, UrlLock!Spec
=============================================================================
