--------------------------------- MODULE Pulse ---------------------------------
(***************************************************************************)
(* compute_pulse of GET /stats/pulse (server/stats/pulse.py), a function   *)
(* of the store s, the views by claim and the day it is. Days are whole,   *)
(* day 0 a Monday; an identity is <<type, name>>, None when a record has   *)
(* no created_by (paper rows have none). Rates are given by their          *)
(* numerators.                                                             *)
(***************************************************************************)
EXTENDS Views, FiniteSetsExt

CONSTANTS
  Excluded, \* RRXIV_EXCLUDE_IDENTITIES
  TopN,     \* places on a leaderboard (5)
  Weeks     \* weeks of the activity curves (8)

Windows == {7, 30, 90, None}
InWindow(at, window, day) == window = None \/ at >= day - window
Week(at) == at \div 7

\* Everything written, with who wrote it and when: papers, then annotations.
PaperRecord(p) == [by |-> None, at |-> p.submitted_at]
Records(s) == {[by |-> a.by, at |-> a.created_at] : a \in Annotated(s)}
              \cup {PaperRecord(p) : p \in ToSet(s.papers)}
IsOf(by, type) == by # None /\ by[1] = type
IsExcluded(by) == by # None /\ by[2] \in Excluded

\* _paper_author_identities looks for these fields of an author entry only.
PaperAuthorIdentities(p) ==
  UNION {{p.authors[n][f] : f \in DOMAIN p.authors[n] \cap {"orcid_id", "identity", "handle"}}
         : n \in DOMAIN p.authors}
\* The last version stored stands for its slug.
PaperByOwner(owner, s) == s.papers[CHOOSE n \in DOMAIN s.papers :
  OwnerKey(s.papers[n]) = owner /\ \A m \in DOMAIN s.papers : OwnerKey(s.papers[m]) = owner => m <= n]
Owners(s) == {OwnerKey(p) : p \in ToSet(s.papers)}
OwnAuthors(owner, s) == IF owner \in Owners(s) THEN PaperAuthorIdentities(PaperByOwner(owner, s)) ELSE {}

\* _resolve_paper_id: the owner key of what an annotation is about, if found.
ResolvePaperId(t, s) ==
  LET byMachineId == {OwnerKey(p) : p \in {q \in ToSet(s.papers) : q.id = t.id}}
      byClaim == {c.paper_id : c \in {d \in ToSet(s.claims) : d.id = t.id}}
  IN CASE t.type = "paper" -> IF byMachineId = {} THEN {t.id} ELSE byMachineId
       [] t.type # "paper" /\ byClaim # {} -> byClaim
       [] OTHER -> IF "claim" \in ToSet(t.id)
                   THEN {SubSeq(t.id, 1, SelectInSeq(t.id, LAMBDA w : w = "claim") - 1)} ELSE {}

IsThirdParty(a, owner, s) == a.by # None /\ a.by[2] \notin OwnAuthors(owner, s)

-----------------------------------------------------------------------------
\* The windowed part: who wrote and how much.
Activity(s, window, day) ==
  LET fresh == {a \in Annotated(s) : InWindow(a.created_at, window, day) /\ ~IsExcluded(a.by)}
      papers == {p \in ToSet(s.papers) : InWindow(p.submitted_at, window, day)}
      Writers(type) == {a.by : a \in {b \in fresh : IsOf(b.by, type)}}
      Posted(types) == Cardinality({a \in fresh : a.type \in types})
  IN [humans |-> Cardinality(Writers("orcid")), agents |-> Cardinality(Writers("agent")),
      submissions |-> Cardinality({p \in papers : IsHead(p, s)}),
      revisions |-> Cardinality({p \in papers : p.previous_version # None}),
      annotations |-> Cardinality(fresh), replications |-> Posted({"replication"}),
      retractions |-> Posted({"claim_retraction", "paper_retraction"})]

\* The whole corpus. Claims count with the status their authors gave them.
Health(s) ==
  LET With(st) == Cardinality({n \in DOMAIN s.claims : s.claims[n].replication_status = st})
  IN [papers |-> Cardinality({p \in ToSet(s.papers) : IsHead(p, s)}), claims |-> Len(s.claims),
      replicated |-> With("replicated"), partial |-> With("partial"), contradicted |-> With("contradicted"),
      third_party |-> Cardinality({a \in Annotated(s) :
        \E owner \in ResolvePaperId(a.target, s) : IsThirdParty(a, owner, s)}),
      by_agents |-> Cardinality({a \in Annotated(s) : IsOf(a.by, "agent")})]

DrawnEdges(s) ==
  UNION {{[claim |-> s.claims[n], kind |-> k, place |-> m] : m \in DOMAIN s.claims[n].edges[k]}
         : n \in DOMAIN s.claims, k \in EdgeKinds}
CrossesPapers(e) ==
  LET t == e.claim.edges[e.kind][e.place] IN "claim" \notin ToSet(t) \/
    SubSeq(t, 1, SelectInSeq(t, LAMBDA w : w = "claim") - 1) # e.claim.paper_id

NamesAgent(a) == a.role = "agent" \/ a.is_agent \/ a.agent_handle \in AgentHandles

\* Writers, and whoever is named an author: agents by a handle and a sign of being one.
Growth(s) ==
  LET entries == UNION {ToSet(p.authors) : p \in ToSet(s.papers)}
      Wrote(type) == {r.by[2] : r \in {q \in Records(s) : IsOf(q.by, type)}} \ Excluded
      drawn == DrawnEdges(s)
  IN [humans |-> Cardinality(Wrote("orcid") \cup ({a.orcid : a \in entries} \ ({None} \cup Excluded))),
      agents |-> Cardinality(Wrote("agent") \cup
                   ({a.agent_handle : a \in {e \in entries : NamesAgent(e)}} \ ({None} \cup Excluded))),
      engaged |-> Cardinality({p \in ToSet(s.papers) : IsHead(p, s) /\ \E a \in Annotated(s) :
        OwnerKey(p) \in ResolvePaperId(a.target, s) /\ IsThirdParty(a, OwnerKey(p), s)}),
      edges |-> Cardinality(drawn),
      cross_paper_extends |-> Cardinality({e \in drawn : e.kind = "extends" /\ CrossesPapers(e)})]

-----------------------------------------------------------------------------
\* most_common(TopN): of equals the one met first.
Leaders(score, met) ==
  {k \in DOMAIN score : Cardinality({j \in DOMAIN score :
     score[j] > score[k] \/ (score[j] = score[k] /\ met[j] < met[k])}) < TopN}

\* The annotations about each paper, by their places in the list.
AboutPaper(s) ==
  [owner \in UNION {ResolvePaperId(a.target, s) : a \in Annotated(s)} |->
     {n \in DOMAIN s.annotations : owner \in ResolvePaperId(s.annotations[n].target, s)}]
\* Papers that are gone take a place before they are dropped.
TopPapers(s) ==
  LET about == AboutPaper(s)
      N == [owner \in DOMAIN about |-> Cardinality(about[owner])]
  IN [owner \in Leaders(N, [o \in DOMAIN about |-> Min(about[o])]) \cap Owners(s) |-> N[owner]]

\* Views are rows [key, row]: those of claims that are stored.
TopViewed(views, s) ==
  LET live == {n \in DOMAIN views : \E c \in ToSet(s.claims) : c.id = views[n].key}
      top == Leaders([n \in live |-> views[n].row], [n \in live |-> n])
  IN [id \in {views[n].key : n \in top} |-> (CHOOSE v \in ToSet(views) : v.key = id).row]

-----------------------------------------------------------------------------
CutoffWeekLess(day) == day - 7 * (Weeks - 1) \* mutant
Cutoff(day) == day - 7 * Weeks

Identities(s) == {r.by : r \in {q \in Records(s) : (IsOf(q.by, "orcid") \/ IsOf(q.by, "agent")) /\ ~IsExcluded(q.by)}}
FirstSeen(by, s) ==
  CHOOSE d \in {r.at : r \in {q \in Records(s) : q.by = by}} : \A r \in Records(s) : r.by = by => d <= r.at

\* _compute_cohorts: new identities by week, and the last weeks' distinct ones.
FirstWrites(s) ==
  LET weeks == {Week(FirstSeen(by, s)) : by \in Identities(s)}
  IN [w \in weeks |-> Cardinality({by \in Identities(s) : Week(FirstSeen(by, s)) = w})]
WeekOrder(day) == {Week(day - 7 * n) : n \in 0 .. Weeks - 1}
WeeklyActive(type, s, day) ==
  [w \in WeekOrder(day) |-> Cardinality({r.by : r \in {q \in Records(s) :
     IsOf(q.by, type) /\ ~IsExcluded(q.by) /\ q.at >= Cutoff(day) /\ Week(q.at) = w}})]
=============================================================================
