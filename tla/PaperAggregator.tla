--------------------------- MODULE PaperAggregator ---------------------------
(***************************************************************************)
(* PaperAggregator of academic/aggregator.py: hits are normalized, taken   *)
(* in the order of a processing key and attached one by one to clusters of *)
(* candidates that seem to be about the same paper; each cluster is then   *)
(* merged into one record.                                                 *)
(*                                                                         *)
(* Identifiers are natural numbers, and a hit spells them: Canon gives     *)
(* what the normalizers of academic/normalization.py make of a spelling.   *)
(* A cluster is a set: the code's list of candidates, newest first, only   *)
(* matters among candidates with one native identifier, which their index  *)
(* orders.                                                                 *)
(***************************************************************************)
EXTENDS Integers, Sequences, FiniteSets, SequencesExt

CONSTANTS HitPool,     \* the raw hits of the providers
          MaxHits,     \* bound: hits in one aggregation
          Sources,     \* source names
          Generated,   \* the sources llm:... and agent:...
          Priority,    \* Priority[s]: configured rank, in Nat, or NoRank
          NoRank,
          NameOrder,   \* NameOrder[s]: place of s among all source names
          Canon,       \* Canon[spelling]: identifier, 0 if it is none
          NoYear

ASSUME AggregatorAssumption ==
  /\ MaxHits \in Nat
  /\ IsFiniteSet(Sources) /\ Generated \subseteq Sources
  /\ \A s \in Sources : Priority[s] # NoRank => Priority[s] \in Nat
  /\ NameOrder \in [Sources -> Nat]
  /\ \A s, t \in Sources : NameOrder[s] = NameOrder[t] => s = t
  /\ \A hit \in HitPool :
       /\ hit.source \in Sources
       /\ \A raw \in {hit.source_id, hit.doi, hit.arxiv_id} : raw # "" => Canon[raw] \in Nat

VARIABLES
  hits,      \* the input of aggregate, in the order of the outcomes
  pending,   \* candidates that have not been attached
  clusters,  \* the clusters, sets of candidates
  refused    \* (history) candidates refused as identifier conflicts

aggregatorVars == <<hits, pending, clusters, refused>>

-----------------------------------------------------------------------------
\* _source_rank: configured, unknown and generated sources, in this order.
SourceRank(s) ==
  LET n == Cardinality({t \in Sources : Priority[t] # NoRank}) IN
  IF Priority[s] # NoRank THEN Priority[s] ELSE IF s \in Generated THEN n + 2 ELSE n + 1

\* _optional_identifier: an empty field is no identifier (0), one that the
\* normalizer refuses is an error.
FieldOK(raw) == raw = "" \/ Canon[raw] # 0

Field(raw) == IF raw = "" THEN 0 ELSE Canon[raw]

\* normalize_source_id, with the normalizer of the source.
Native(hit) == Field(hit.source_id)

\* crossref's native identifier is a DOI, arxiv's an arXiv id: it stands in for
\* an empty field and must agree with a full one.
WithNative(s, hit, raw) == IF hit.source = s THEN Native(hit) ELSE Field(raw)

NativeAgrees(s, hit, raw) == hit.source = s => Field(raw) \in {0, Native(hit)}

\* _normalize_hit returns a candidate.  form "bad": no source or title, a date
\* that is none, or a landing URL normalize_url refuses.
Accepted(hit) ==
  /\ hit.form = "ok"
  /\ Native(hit) # 0
  /\ FieldOK(hit.doi) /\ FieldOK(hit.arxiv_id)
  /\ NativeAgrees("crossref", hit, hit.doi)
  /\ NativeAgrees("arxiv", hit, hit.arxiv_id)

\* Mutant of DiscoveryIndex: the place among all hits.
GlobalIndex(hs, n) == n

\* The place of a hit among the hits of its source, refused ones included.
DiscoveryIndex(hs, n) == Cardinality({k \in 1..n : hs[k].source = hs[n].source})

Candidate(hs, n) ==
  LET hit == hs[n] IN
  [source |-> hit.source, source_id |-> Native(hit),
   doi |-> WithNative("crossref", hit, hit.doi),
   arxiv_id |-> WithNative("arxiv", hit, hit.arxiv_id),
   title |-> hit.title, authors |-> hit.authors, year |-> hit.year,
   abstract |-> hit.abstract,
   rank |-> SourceRank(hit.source), index |-> DiscoveryIndex(hs, n)]

\* _normalize_hits
Candidates(hs) == {Candidate(hs, n) : n \in {k \in DOMAIN hs : Accepted(hs[k])}}

\* Lexicographic order of key sequences.
KeyLess(a, b) ==
  \E n \in DOMAIN a : a[n] < b[n] /\ \A k \in 1..(n - 1) : a[k] = b[k]

ProcessingKey(c) == <<c.rank, c.index, NameOrder[c.source], c.source_id>>

\* Academic sources come before generated ones; of the hits with the same native
\* identifier the latest, which the stable sort finds first, comes first.
Precedence(c) ==
  <<IF c.source \in Generated THEN 1 ELSE 0, c.rank, NameOrder[c.source], c.source_id, -c.index>>

-----------------------------------------------------------------------------
\* The identifiers of a set of candidates.
Dois(cluster) == {c.doi : c \in cluster} \ {0}

ArxivIds(cluster) == {c.arxiv_id : c \in cluster} \ {0}

SourceKeys(cluster) == {<<c.source, c.source_id>> : c \in cluster}

HasGlobalStrongId(cluster) == Dois(cluster) \cup ArxivIds(cluster) # {}

\* The clusters that the strong indexes give for a candidate.
StrongRefs(c) ==
  {cluster \in clusters :
     \/ c.doi \in Dois(cluster)
     \/ c.arxiv_id \in ArxivIds(cluster)
     \/ <<c.source, c.source_id>> \in SourceKeys(cluster)}

\* Mutant of FingerprintsMatch: the authors are not compared.
TitlesMatch(c, d) == c.year # NoYear /\ c.title = d.title /\ c.year = d.year

\* bibliographic_fingerprints_match: a fingerprint needs authors and a year.
FingerprintsMatch(c, d) ==
  /\ c.year # NoYear /\ c.title = d.title /\ c.year = d.year
  /\ c.authors \cap d.authors # {}

\* The clusters without global identifiers that the weak index gives.
WeakRefs(c) ==
  {cluster \in clusters :
     ~HasGlobalStrongId(cluster) /\ \E d \in cluster : FingerprintsMatch(c, d)}

\* The weak index is for candidates with no identifier and no strong match.
References(c) ==
  IF StrongRefs(c) = {} /\ c.doi = 0 /\ c.arxiv_id = 0 THEN WeakRefs(c) ELSE StrongRefs(c)

\* Mutant of StrongConflict: each cluster is compared with the candidate alone.
PairwiseConflict(refs, c) ==
  \E cluster \in refs :
    \/ Cardinality(Dois(cluster \cup {c})) > 1
    \/ Cardinality(ArxivIds(cluster \cup {c})) > 1

\* Mutant of StrongConflict: any bridge between clusters is refused.
BridgeConflict(refs, c) == Cardinality(refs) > 1

\* _strong_conflict: together they would have two DOIs or two arXiv ids.
StrongConflict(refs, c) ==
  \/ Cardinality(Dois((UNION refs) \cup {c})) > 1
  \/ Cardinality(ArxivIds((UNION refs) \cup {c})) > 1

\* The clusters after c joined, and bridged, the ones it refers to.
Attached(refs, c) == (clusters \ refs) \cup {(UNION refs) \cup {c}}

AggregatorInit ==
  /\ hits \in BoundedSeq(HitPool, MaxHits)
  /\ pending = Candidates(hits)
  /\ clusters = {}
  /\ refused = {}

\* _attach_candidate, for the candidate that is next in processing order.
Attach(c) ==
  /\ \A d \in pending \ {c} : KeyLess(ProcessingKey(c), ProcessingKey(d))
  /\ pending' = pending \ {c}
  /\ IF StrongConflict(References(c), c)
     THEN refused' = refused \cup {c} /\ UNCHANGED clusters
     ELSE clusters' = Attached(References(c), c) /\ UNCHANGED refused
  /\ UNCHANGED hits

AggregatorNext == \E c \in pending : Attach(c)

AggregatorSpec == AggregatorInit /\ [][AggregatorNext]_aggregatorVars

-----------------------------------------------------------------------------
\* The least of some candidates by a key.
LeastBy(Key(_), cs) == CHOOSE c \in cs : \A d \in cs \ {c} : KeyLess(Key(c), Key(d))

\* Mutant of FirstOf: the candidates are left in the order of the cluster.
NewestOf(cluster, field, none) ==
  LET some == {c \in cluster : c[field] # none} IN
  IF some = {} THEN none
  ELSE (CHOOSE c \in some : \A d \in some \ {c} : KeyLess(ProcessingKey(d), ProcessingKey(c)))[field]

\* next(... for candidate in candidates if ...): by precedence, the first
\* candidate that has the field.
FirstOf(cluster, field, none) ==
  LET some == {c \in cluster : c[field] # none} IN
  IF some = {} THEN none ELSE LeastBy(Precedence, some)[field]

\* _merge_cluster: the title of the first candidate and, field by field, the
\* first value there is (abstract and identifiers stand for the other fields).
MergeCluster(cluster) ==
  [title |-> LeastBy(Precedence, cluster).title,
   abstract |-> FirstOf(cluster, "abstract", ""),
   doi |-> FirstOf(cluster, "doi", 0), arxiv_id |-> FirstOf(cluster, "arxiv_id", 0)]

\* origin_rank of a cluster.
Origin(cluster) == ProcessingKey(LeastBy(ProcessingKey, cluster))

\* The clusters, the ones with the earlier origin first.
ByOrigin ==
  CHOOSE order \in Bijection(1..Cardinality(clusters), clusters) :
    \A m, n \in DOMAIN order : m < n => KeyLess(Origin(order[m]), Origin(order[n]))

\* aggregate: the merged clusters by origin.
Aggregate == [n \in DOMAIN ByOrigin |-> MergeCluster(ByOrigin[n])]

-----------------------------------------------------------------------------
\* No cluster ever has two DOIs or two arXiv ids, however it was bridged: no
\* record mixes two papers that their identifiers tell apart.
NoMixedCluster ==
  \A cluster \in clusters :
    Cardinality(Dois(cluster)) <= 1 /\ Cardinality(ArxivIds(cluster)) <= 1

\* Two candidates share an identifier.
Identified(c, d) ==
  \/ c.doi # 0 /\ c.doi = d.doi
  \/ c.arxiv_id # 0 /\ c.arxiv_id = d.arxiv_id
  \/ c.source = d.source /\ c.source_id = d.source_id

\* A false merge is worse than a duplicate: every cluster hangs together by
\* evidence between its own candidates, a shared identifier or the same title
\* and year with a common author.
NoFalseMerge ==
  \A cluster \in clusters, part \in SUBSET UNION clusters :
    part \subseteq cluster /\ part \notin {{}, cluster} =>
      \E c \in part, d \in cluster \ part :
        \/ Identified(c, d)
        \/ /\ c.title = d.title /\ c.year = d.year /\ c.year # NoYear
           /\ \E a \in c.authors : a \in d.authors

\* Every candidate is in exactly one cluster or was refused, and it was refused
\* only if what it shares identifiers with brings a second DOI or arXiv id.
\* Clusters that share a DOI, an arXiv id or a native identifier have been
\* merged: no two records are about the same identified paper.
CandidatesPlaced ==
  /\ (UNION clusters) \cup refused \cup pending = Candidates(hits)
  /\ (UNION clusters) \cap refused = {}
  /\ \A c \in refused :
       LET near == UNION {x \in clusters : \E d \in x : Identified(c, d)} IN
       Cardinality(Dois(near \cup {c})) > 1 \/ Cardinality(ArxivIds(near \cup {c})) > 1
  /\ \A x, y \in clusters :
       x # y =>
         /\ x \cap y = {}
         /\ Dois(x) \cap Dois(y) = {}
         /\ ArxivIds(x) \cap ArxivIds(y) = {}
         /\ SourceKeys(x) \cap SourceKeys(y) = {}

\* The order in which sources are listed does not matter: candidates are the
\* same for every order that keeps each source's own hits in order, and no two
\* of them are equal in processing order.
ArrivalOrderIrrelevant ==
  LET Moved(perm) == [n \in DOMAIN hits |-> hits[perm[n]]]
      KeepsSources(perm) ==
        \A m, n \in DOMAIN hits :
          m < n /\ hits[perm[m]].source = hits[perm[n]].source => perm[m] < perm[n]
  IN
  clusters = {} /\ refused = {} =>
    /\ \A c, d \in pending : c # d =>
         KeyLess(ProcessingKey(c), ProcessingKey(d)) \/ KeyLess(ProcessingKey(d), ProcessingKey(c))
    /\ \A perm \in Bijection(DOMAIN hits, DOMAIN hits) :
         KeepsSources(perm) => Candidates(Moved(perm)) = pending

\* There is one record per cluster, with its identifiers, and what an LLM or an
\* agent generated never displaces what an academic provider says.
RecordsFaithful ==
  pending = {} =>
    /\ Len(Aggregate) = Cardinality(clusters)
    /\ \A cluster \in clusters :
         LET rec == MergeCluster(cluster)
             said == {c.abstract : c \in {d \in cluster : d.source \notin Generated}} \ {""}
         IN
         /\ {rec.doi} \ {0} = Dois(cluster)
         /\ {rec.arxiv_id} \ {0} = ArxivIds(cluster)
         /\ said # {} => rec.abstract \in said
=============================================================================
