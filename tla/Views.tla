--------------------------------- MODULE Views ---------------------------------
(***************************************************************************)
(* What the read endpoints derive from a store s, a record of the lists    *)
(* papers, claims and annotations: the projection of a paper               *)
(* (papers/projection.py, scopes.py), searches, authors, models, claims    *)
(* and their edges, and the totals of GET /stats.                          *)
(***************************************************************************)
EXTENDS Replication, SequencesExt

CONSTANTS
  AgentHandles, \* the handles that begin with agent: or @
  OrcidIds,     \* the strings of the form of an ORCID iD
  Lower(_)      \* a name in small letters

Annotated(s) == ToSet(s.annotations)

\* is_slug: rrxiv:YYMM.NNNNN, two segments.
IsSlug(id) == Len(id) = 2 /\ id[1] = "rrxiv"

\* claim_owner_key
OwnerKey(p) == IF p.id_slug = None THEN p.id ELSE p.id_slug

SupersededIds(papers) == {p.previous_version : p \in ToSet(papers)} \ {None}
IsHead(p, s) == p.id \notin SupersededIds(s.papers)

\* max() over some of the rows, in their order: the first of the largest.
NewestOf(rows, places) == rows[CHOOSE n \in places : \A m \in places :
  rows[m].submitted_at < rows[n].submitted_at \/ (rows[m].submitted_at = rows[n].submitted_at /\ n <= m)]

\* find_paper_by_slug
FindBySlug(slug, papers) ==
  LET candidates == {n \in DOMAIN papers : papers[n].id_slug = slug}
      heads == {n \in candidates : \A m \in candidates : papers[m].previous_version # papers[n].id}
  IN CASE candidates = {} -> None
       [] candidates # {} /\ heads = {} -> NewestOf(papers, candidates)
       [] OTHER -> NewestOf(papers, heads)

PaperIdFirstColon(id) == <<Head(id)>> \* mutant: up to the first colon

\* _paper_id_of_claim: two segments when they are a slug.
PaperIdOfClaim(id) ==
  IF Len(id) > 2 /\ IsSlug(SubSeq(id, 1, 2)) THEN SubSeq(id, 1, 2) ELSE <<Head(id)>>

\* _resolve_owner_paper
OwnerPapers(owner, papers) ==
  IF IsSlug(owner) THEN {FindBySlug(owner, papers)} \ {None}
  ELSE {p \in ToSet(papers) : p.id = owner}

DerivedStatus(c, owner, s) ==
  Status(c, Annotated(s), Quorum(UNION {p.topics : p \in OwnerPapers(owner, s.papers)}))

\* apply_derived_status passes the claim's own paper_id; compute_stats does not.
Shown(c, s) == DerivedStatus(c, c.paper_id, s)
Counted(c, s) == DerivedStatus(c, PaperIdOfClaim(c.id), s)

-----------------------------------------------------------------------------
(***************************************************************************)
(* Papers: compute_stats, scopes, filters.                                 *)
(***************************************************************************)
\* By their places in the list.
ClaimsOf(owner, s) == {n \in DOMAIN s.claims : s.claims[n].paper_id = owner}

RollUp(N, all, retracted, discussed) ==
  CASE retracted -> "retracted"
    [] ~retracted /\ (all = 0 \/ (~discussed /\ N["replicated"] + N["partial"] + N["contradicted"] = 0)) -> "preprint"
    [] OTHER ->
       CASE N["contradicted"] > 0 -> IF N["replicated"] > 0 THEN "contested" ELSE "contradicted"
         [] N["contradicted"] = 0 /\ N["replicated"] > 0 -> "replicated"
         [] OTHER -> IF N["partial"] > 0 THEN "partial" ELSE "untested"

ClaimStatuses == {"untested", "partial", "replicated", "contradicted", "retracted"}

Tally(statuses) == [st \in ClaimStatuses |-> Cardinality({n \in DOMAIN statuses : statuses[n] = st})]

\* Annotations of the paper are those whose target is its owner key.
Stats(owner, s) ==
  LET mine == ClaimsOf(owner, s)
      N == Tally([n \in mine |-> Counted(s.claims[n], s)])
      onPaper == {a \in Annotated(s) : a.target.id = owner}
      under == {a \in Annotated(s) : Len(a.target.id) > Len(owner) /\ IsPrefix(owner, a.target.id)}
  IN [claims |-> Cardinality(mine), counts |-> N,
      status |-> RollUp(N, Cardinality(mine), \E a \in onPaper : a.type = "erratum" /\ a.retracts,
                        onPaper \cup under # {})]

\* SCOPE_PREDICATES; which titles speak of agents is left out.
InScope(p, scope, day, s) ==
  LET stats == Stats(OwnerKey(p), s) IN
  CASE scope = "active" -> stats.status = "untested" /\ stats.claims > 4
    [] scope = "human" -> stats.counts["replicated"] > 0
    [] scope = "contested" -> stats.status = "contested" \/ stats.counts["contradicted"] > 0
    [] scope = "fresh" -> p.submitted_at >= day - 7
    [] OTHER -> TRUE

HasOrcid(p, orcid) == \E n \in DOMAIN p.authors : p.authors[n].orcid = orcid
HasHandle(p, handle) == \E n \in DOMAIN p.authors : p.authors[n].agent_handle = handle
Models(p) == UNION {p.authors[n].models : n \in DOMAIN p.authors}
HasFamily(p, family) == \E m \in Models(p) : m.family = family

\* The filters both listings have. Where a query gives several values, one is enough.
NoFilter == [topic |-> None, orcids |-> {}, handles |-> {}, families |-> {}, scope |-> None]
Accepts(f, p, day, s) ==
  /\ f.topic = None \/ f.topic \in p.topics
  /\ f.orcids = {} \/ \E orcid \in f.orcids : HasOrcid(p, orcid)
  /\ f.handles = {} \/ \E handle \in f.handles : HasHandle(p, handle)
  /\ f.families = {} \/ \E family \in f.families : HasFamily(p, family)
  /\ InScope(p, f.scope, day, s)

\* GET /papers lists the heads, GET /search/papers every version.
ListPapers(f, day, s) == {p \in ToSet(s.papers) : IsHead(p, s) /\ Accepts(f, p, day, s)}
SearchPapers(f, status, claims_min, day, s) ==
  {p \in ToSet(s.papers) : LET stats == Stats(OwnerKey(p), s) IN
     Accepts(f, p, day, s) /\ stats.claims >= claims_min /\ (status = None \/ stats.status = status)}

-----------------------------------------------------------------------------
(***************************************************************************)
(* Authors and models.                                                     *)
(***************************************************************************)
\* The identity of an author entry: an agent's handle, else an ORCID iD, else the name
\* (name:ann); a handle or an ORCID iD of another form is passed over.
AuthorKey(a) ==
  CASE a.agent_handle \in AgentHandles -> <<"agent", a.agent_handle>>
    [] a.agent_handle \notin AgentHandles /\ a.orcid \in OrcidIds -> <<"orcid", a.orcid>>
    [] OTHER -> <<"name", Lower(a.name)>>
AuthorKeys(p) == {AuthorKey(p.authors[n]) : n \in DOMAIN p.authors}

\* What a model is counted by: its pin, else its name, if it has one.
LowerName(m) == IF m.name = None THEN None ELSE Lower(m.name)
ModelKey(m) == IF m.release_pin # None THEN m.release_pin ELSE LowerName(m)

\* A corpus author: _author_records, and GET /authors/{ident} which adds the
\* papers' claims by their owner keys.
Author(key, s) ==
  LET mine == {p \in ToSet(s.papers) : key \in AuthorKeys(p)}
      owners == {OwnerKey(p) : p \in mine}
  IN [papers |-> {p.id : p \in mine},
      claims |-> [id \in {c.id : c \in {d \in ToSet(s.claims) : d.paper_id \in owners}} |->
                    Shown(CHOOSE c \in ToSet(s.claims) : c.id = id, s)],
      co_authors |-> (UNION {AuthorKeys(p) : p \in mine}) \ {key},
      models |-> {ModelKey(m) : m \in UNION {
                    UNION {p.authors[n].models : n \in {m \in DOMAIN p.authors : AuthorKey(p.authors[m]) = key}}
                    : p \in mine}} \ {None}]

\* _corpus_aggregation: a model counts once in a paper.
ModelKeys(p) == {ModelKey(m) : m \in Models(p)} \ {None}
ModelUse(key, s) ==
  LET using == {p \in ToSet(s.papers) : key \in ModelKeys(p)}
  IN [papers_count |-> Cardinality(using),
      last_seen_at |-> IF using = {} THEN None
                       ELSE CHOOSE d \in {p.submitted_at : p \in using} : \A p \in using : p.submitted_at <= d]

\* GET /models/registry: an entry gets what is counted under its pin, else under its name.
RegistryUse(entry, s) ==
  ModelUse(IF \E p \in ToSet(s.papers) : entry.release_pin \in ModelKeys(p) THEN entry.release_pin
           ELSE LowerName(entry), s)

-----------------------------------------------------------------------------
(***************************************************************************)
(* Claims and their edges.                                                 *)
(***************************************************************************)
EdgeKinds == {"depends_on", "supports", "contradicts", "extends"}

\* GET /search/claims, every row with the status it was stored with.
SearchClaims(s) == ToSet(s.claims)

\* _outgoing follows the claim's own list, _incoming looks through everyone's.
Outgoing(id, kind, s) ==
  UNION {{[source |-> id, target |-> c.edges[kind][n]] : n \in DOMAIN c.edges[kind]}
         : c \in {d \in ToSet(s.claims) : d.id = id}}
Incoming(id, kind, s) ==
  {[source |-> c.id, target |-> id] : c \in {d \in ToSet(s.claims) : id \in ToSet(d.edges[kind])}}

\* claim_neighborhood: every edge of a stored claim, and what is at the ends.
Neighborhood(id, s) ==
  LET known == {c.id : c \in ToSet(s.claims)}
      edges == IF id \notin known THEN {}
               ELSE UNION {Outgoing(id, k, s) \cup Incoming(id, k, s) : k \in EdgeKinds}
  IN [edges |-> edges,
      claims |-> (known \cap UNION {{e.source, e.target} : e \in edges}) \ {id}]

\* list_top_claims counts each time an id is depended on, twice in a list too.
DependentsCount(id, s) ==
  Cardinality(UNION {{n} \X {m \in DOMAIN s.claims[n].edges["depends_on"] : s.claims[n].edges["depends_on"][m] = id}
                     : n \in DOMAIN s.claims})
\* ... and ranks by it and half the claim's own supports (doubled here); the score also adds
\* the claim's replications, a field no claim has.
Influence(c, s) == 2 * DependentsCount(c.id, s) + Len(c.edges["supports"])
TopClaims(s, limit) ==
  LET Above(a, b) == Influence(a, s) > Influence(b, s)
  IN {n \in DOMAIN s.claims :
        Cardinality({m \in DOMAIN s.claims : Above(s.claims[m], s.claims[n])
                       \/ (m < n /\ ~Above(s.claims[n], s.claims[m]))}) < limit}

-----------------------------------------------------------------------------
\* GET /stats. Its by_status has no place for partial and contradicted papers.
CorpusStats(s) ==
  LET Count(type) == Cardinality({n \in DOMAIN s.annotations : s.annotations[n].type = type})
      With(st) == Cardinality({n \in DOMAIN s.papers : Stats(OwnerKey(s.papers[n]), s).status = st})
  IN [papers |-> Len(s.papers), claims |-> Len(s.claims), annotations |-> Len(s.annotations),
      head_papers |-> Cardinality({n \in DOMAIN s.papers : IsHead(s.papers[n], s)}),
      replications |-> Count("replication"), contradictions |-> Count("contradiction"),
      agent_authored |-> FoldLeft(LAMBDA sum, p : sum + Cardinality({n \in DOMAIN p.authors : p.authors[n].is_agent}),
                                  0, s.papers),
      by_status |-> [st \in {"preprint", "untested", "replicated", "contested", "retracted"} |-> With(st)]]
=============================================================================
