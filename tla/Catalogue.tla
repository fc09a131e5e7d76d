------------------------------- MODULE Catalogue -------------------------------
(***************************************************************************)
(* The corpus over time: requests whose store calls interleave on a        *)
(* SqliteStore (module Tables), and the views of modules Views and Pulse   *)
(* at every moment. A request passes its checks with what it first reads,  *)
(* then makes the calls of its handler one after the other; the handlers'  *)
(* own branches are in modules Submissions, Annotations, Sessions, Reseed. *)
(***************************************************************************)
EXTENDS Pulse, TLC

CONSTANTS
  Threads,
  Requests, \* what is asked of the server: see CallsOf; each at most once
  Days,     \* bound: the days that come, all others being skipped
  MayCrash  \* TRUE: the process can die between two calls

ASSUME CatalogueAssumption ==
  /\ Days \subseteq Nat /\ 0 \in Days /\ IsFiniteSet(Requests)
  /\ \A r \in Requests : r.at \in Days
  /\ TopN \in Nat \ {0} /\ Weeks \in Nat \ {0}
  /\ MayCrash \in BOOLEAN

\* What a request brings. Papers are submitted or seeded; a code is issued once,
\* being a new secret, and so is a row for it.
Brings(ops) == {r \in Requests : r.op \in ops}
PaperRows == {r.paper.row : r \in Brings({"submit", "reset", "reseed"})}
ClaimRows == UNION {ToSet(r.paper.claims) : r \in Brings({"submit", "reset", "reseed"})}
AnnotationRows == {r.row : r \in Brings({"annotate"})}
CodeTables == {"paste_codes", "challenges"}

ASSUME RequestsAssumption ==
  /\ \A r \in Requests : r.op \in {"submit", "annotate", "view", "reset", "reseed", "issue", "logout", "revoke", "redeem"}
  /\ \A r \in Brings({"submit", "reset", "reseed"}) : r.paper.claims \in Seq(ClaimRows)
  /\ \A r \in Brings({"issue"}) :
       /\ r.table \in CodeTables \cup {"tokens", "orcid_keys"}
       /\ r.table \in CodeTables =>
            \A q \in Brings({"issue"}) : q.table = r.table /\ q.key = r.key => q = r

\* Of the rows: a revision inherits its predecessor's slug (submit_paper), whose id was
\* minted before it; a claim's id is its owner's key and a suffix, and the segment
\* "rrxiv" begins slugs only; an identity is a pair of its type and its name.
ASSUME RowsAssumption ==
  /\ None \notin {"active", "human", "contested", "fresh"}
  /\ \A p \in PaperRows :
       /\ p.id # None /\ p.submitted_at \in Nat /\ p.authors \in Seq(ToSet(p.authors))
       /\ \A q \in PaperRows : q.previous_version = p.id /\ p.id_slug # None => q.id_slug = p.id_slug
  /\ \A S \in SUBSET PaperRows : S # {} => \E p \in S : \A q \in S : q.previous_version # p.id
  /\ \A c \in ClaimRows :
       /\ c.id \in Seq(ToSet(c.id)) /\ Len(c.id) > Len(c.paper_id)
       /\ c.paper_id = SubSeq(c.id, 1, Len(c.paper_id))
       /\ IsSlug(c.paper_id) \/ (Len(c.paper_id) = 1 /\ c.paper_id # <<"rrxiv">>)
       /\ \A kind \in EdgeKinds : c.edges[kind] \in Seq(ToSet(c.edges[kind]))
  /\ \A a \in AnnotationRows : a.created_at \in Nat /\ (a.by = None \/ a.by = <<a.by[1], a.by[2]>>)

VARIABLES
  tables, held, \* the store: see module Tables
  todo,         \* by thread: calls still to make, the one under way first
  seeding,      \* the seeder is at work
  served, day,
  last          \* history: the call that ended last, and whether it was an odd one

vars == <<tables, held, todo, seeding, served, day, last>>

INSTANCE Tables

Init ==
  /\ StoreInit
  /\ todo = [t \in Threads |-> << >>] /\ seeding = FALSE
  /\ served = {} /\ day = 0 /\ last = [odd |-> FALSE, call |-> None]

-----------------------------------------------------------------------------
AddCall(table, key, row) == [op |-> "add", table |-> table, key |-> key, row |-> row]

\* submit_paper and seed_one: the bundle, the PDF, the paper, its CIR, its claims.
StoreCalls(paper) ==
  <<AddCall("sources", paper.row.id, paper.row), AddCall("rendered_pdfs", paper.row.id, paper.row),
    AddCall("papers", paper.row.id, paper.row), AddCall("cirs", paper.row.id, paper.row)>>
  \o [n \in DOMAIN paper.claims |-> AddCall("claims", paper.claims[n].id, paper.claims[n])]

CallsOf(r) ==
  CASE r.op = "submit" -> StoreCalls(r.paper)
    [] r.op = "annotate" -> <<AddCall("annotations", r.row.id, r.row)>>
    [] r.op = "view" -> <<[op |-> "bump", key |-> r.claim]>>
    [] r.op = "reset" -> <<[op |-> "clear"]>> \o StoreCalls(r.paper)
    [] r.op = "reseed" -> <<[op |-> "replace", ids |-> <<r.paper.row.id>>]>> \o StoreCalls(r.paper)
    [] r.op = "issue" -> <<AddCall(r.table, r.key, r.row)>>
    [] r.op = "logout" -> <<[op |-> "remove", table |-> "tokens", key |-> r.key]>>
    [] r.op = "revoke" -> <<[op |-> "revoke", key |-> r.key, at |-> r.now]>>
    [] r.op = "redeem" -> <<[op |-> "consume", table |-> "paste_codes", key |-> r.key],
                            AddCall("tokens", r.token, [code |-> r.key])>>

\* What the handler looks up before it goes on.
Passes(r) ==
  CASE r.op = "submit" -> r.paper.row.previous_version = None \/ Has("papers", r.paper.row.previous_version)
    [] r.op = "annotate" -> Has(IF r.row.target.type = "paper" THEN "papers" ELSE "claims", r.row.target.id)
    [] r.op = "view" -> Has("claims", r.claim)
    [] r.op = "revoke" -> Has("orcid_keys", r.key)
    [] r.op = "redeem" -> Has("paste_codes", r.key) /\ ~Got("paste_codes", r.key).consumed
    [] OTHER -> TRUE

IsSeeder(r) == r.op \in {"reset", "reseed"}
OnCorpus(r) == r.op \in {"submit", "annotate", "view", "reset", "reseed"}
Idle(t) == todo[t] = << >>

\* Bound: one behaviour has requests about the corpus or about identities, which
\* share no table. The seeder runs by itself.
Receive(t, r) ==
  /\ Idle(t) /\ r \notin served /\ r.at = day
  /\ ~seeding /\ (IsSeeder(r) => \A u \in Threads : Idle(u))
  /\ \A q \in served : OnCorpus(q) = OnCorpus(r)
  /\ Passes(r)
  /\ todo' = [todo EXCEPT ![t] = CallsOf(r)]
  /\ seeding' = IsSeeder(r)
  /\ served' = served \cup {r}
  /\ UNCHANGED <<tables, held, day, last>>

\* The next call of t, or the first half of it.
CallStore(t) ==
  /\ ~Idle(t)
  /\ \/ /\ Ends(t, Head(todo[t]))
        /\ todo' = [todo EXCEPT ![t] = Tail(@)]
        /\ last' = [odd |-> ~last.odd, call |-> Head(todo[t])]
     \/ TakeRow(t, Head(todo[t])) /\ UNCHANGED <<todo, last>>
  /\ seeding' = (seeding /\ \E u \in Threads : todo'[u] # << >>)
  /\ UNCHANGED <<served, day>>

Crash ==
  /\ MayCrash /\ \E t \in Threads : ~Idle(t)
  /\ todo' = [t \in Threads |-> << >>] /\ held' = [t \in Threads |-> None]
  /\ seeding' = FALSE
  /\ UNCHANGED <<tables, served, day, last>>

NextDay ==
  /\ \A t \in Threads : Idle(t)
  /\ \E d \in Days : d > day /\ (\A e \in Days : e > day => d <= e) /\ day' = d
  /\ UNCHANGED <<tables, held, todo, seeding, served, last>>

Next ==
  \/ \E t \in Threads : CallStore(t) \/ \E r \in Requests : Receive(t, r)
  \/ Crash \/ NextDay

Spec == Init /\ [][Next]_vars

-----------------------------------------------------------------------------
(***************************************************************************)
(* Properties.                                                             *)
(***************************************************************************)
Corpus == [papers |-> Listed("papers"), claims |-> Listed("claims"), annotations |-> Listed("annotations")]

\* SqliteStore does what MemoryStore does, call for call: rows are replaced and
\* counted, not doubled; a reseed drops exactly its papers with their claims and
\* views; a key keeps its first revocation; a code consumed under two locks is
\* consumed once.
Promised == INSTANCE Dicts WITH
  dicts <- [t \in Names |-> [k \in {e.key : e \in ToSet(tables[t])} |-> Got(t, k)]],
  Calls <- UNION {ToSet(CallsOf(r)) : r \in Requests}
ImplementsDicts == Promised!Spec

\* Claims are keyed by slugs, papers by machine ids, and the status of a claim
\* is derived along several paths. At every moment a paper's counts and scopes
\* are those of the claims its page lists, and its authors' profiles show these
\* claims with the same statuses.
PaperAgrees(p, s) ==
  LET stats == Stats(OwnerKey(p), s)
      page == ClaimsOf(OwnerKey(p), s)
      Shows(st) == \E n \in page : Shown(s.claims[n], s) = st
  IN /\ stats.counts = Tally([n \in page |-> Shown(s.claims[n], s)])
     /\ InScope(p, "contested", day, s) = Shows("contradicted")
     /\ InScope(p, "human", day, s) = Shows("replicated")
     /\ \A key \in AuthorKeys(p) : LET author == Author(key, s) IN
          /\ p.id \in author.papers
          /\ \A n \in page : LET c == s.claims[n] IN
               c.id \in DOMAIN author.claims /\ author.claims[c.id] = Shown(c, s)

\* GET /papers lists the version a slug stands for. A search by handle or by ORCID iD
\* finds what the profile under it lists; with an ORCID iD also what its owner signed
\* by an agent's handle. A search for a model's family finds no fewer papers than the
\* registry counts for the model, and as many when the family has no other model.
SearchAgrees(p, s) ==
  LET Found(f) == SearchPapers(f, None, 0, day, s) IN
  /\ p.id_slug # None => FindBySlug(p.id_slug, s.papers) \in ListPapers(NoFilter, day, s)
  /\ \A n \in DOMAIN p.authors : LET a == p.authors[n] IN
       /\ AuthorKey(a) = <<"agent", a.agent_handle>> =>
            Author(AuthorKey(a), s).papers = {q.id : q \in Found([NoFilter EXCEPT !.handles = {a.agent_handle}])}
       /\ AuthorKey(a) = <<"orcid", a.orcid>> =>
            LET his == Found([NoFilter EXCEPT !.orcids = {a.orcid}])
            IN /\ p \in his /\ Author(AuthorKey(a), s).papers \subseteq {q.id : q \in his}
               /\ \A q \in his : q.id \notin Author(AuthorKey(a), s).papers =>
                    \E m \in DOMAIN q.authors : q.authors[m].orcid = a.orcid /\ q.authors[m].agent_handle \in AgentHandles
  /\ \A m \in Models(p) : ModelKey(m) # None =>
       LET use == RegistryUse(m, s).papers_count
           found == Cardinality(Found([NoFilter EXCEPT !.families = {m.family}]))
           odd == {o \in UNION {Models(q) : q \in ToSet(s.papers)} : (ModelKey(o) = ModelKey(m)) # (o.family = m.family)}
       IN /\ (\A o \in odd : o.family = m.family) => use <= found
          /\ odd = {} => use = found

\* An edge is at both its ends, unless its other end is not stored; claims are
\* ranked by the dependents their neighbourhoods show, a claim that lists the same
\* one twice being two.
ClaimAgrees(c, s) ==
  LET near == Neighborhood(c.id, s) IN
  /\ \A e \in near.edges : LET other == IF e.source = c.id THEN e.target ELSE e.source IN
       other \in near.claims => e \in Neighborhood(other, s).edges
  /\ LET dependents == Cardinality(Incoming(c.id, "depends_on", s)) IN
     /\ DependentsCount(c.id, s) >= dependents
     /\ (\A d \in ToSet(s.claims) : IsInjective(d.edges["depends_on"])) => DependentsCount(c.id, s) = dependents
  /\ \A n \in TopClaims(s, 1) : Influence(c, s) <= Influence(s.claims[n], s)

\* The views of one corpus agree, whatever was stored between which two calls.
ViewsAgree ==
  LET s == Corpus IN
  /\ \A p \in ToSet(s.papers) : PaperAgrees(p, s) /\ SearchAgrees(p, s)
  /\ \A c \in ToSet(s.claims) : ClaimAgrees(c, s)

\* A search answers with the status claims have now (claims/replication.py:3, "on every
\* read path the server recomputes the status").
SearchShowsStatus ==
  \A c \in SearchClaims(Corpus) : c.replication_status = Shown(c, Corpus)

\* Every displayed week of the activity curves is counted whole.
CurvesWhole(s) ==
  \A type \in {"orcid", "agent"} : LET curve == WeeklyActive(type, s, day) IN
    \A w \in DOMAIN curve : curve[w] =
      Cardinality({by \in Identities(s) : IsOf(by, type) /\ \E r \in Records(s) : r.by = by /\ Week(r.at) = w})

\* Who ever wrote is one newcomer of one week, whatever section counts them, and a
\* longer window never counts less.
WritersAgree(s) ==
  LET ever == Activity(s, None, day)
      growth == Growth(s)
  IN /\ SumFunction(FirstWrites(s)) = ever.humans + ever.agents
     /\ growth.humans >= ever.humans /\ growth.agents >= ever.agents
     /\ \A v, w \in Windows : v # None /\ (w = None \/ v <= w) =>
          LET short == Activity(s, v, day) long == Activity(s, w, day)
          IN \A f \in DOMAIN short : short[f] <= long[f]

\* GET /stats and the pulse count the same heads, and the same annotations but for those
\* of excluded identities; a paper counts as engaged only for annotations that count
\* as third-party, unless the paper has two heads, which share them.
TotalsAgree(s) ==
  LET ever == Activity(s, None, day)
      growth == Growth(s)
      health == Health(s)
      totals == CorpusStats(s)
      hidden == {a \in Annotated(s) : IsExcluded(a.by)}
      heads == {p \in ToSet(s.papers) : IsHead(p, s)}
  IN /\ totals.head_papers = health.papers /\ health.papers = ever.submissions
     /\ totals.annotations = ever.annotations + Cardinality(hidden)
     /\ totals.replications = ever.replications + Cardinality({a \in hidden : a.type = "replication"})
     /\ (\A p, q \in heads : OwnerKey(p) = OwnerKey(q) => p = q) => growth.engaged <= health.third_party

\* No place among the most viewed goes to a claim that is gone (sqlite.py clear_corpus:
\* else "the leaderboard surfaces dead claim ids"), and no stored paper is discussed
\* more than one of the most discussed.
LeadersFit(s) ==
  LET about == AboutPaper(s)
      top == TopPapers(s)
      views == tables["claim_views"]
  IN /\ Cardinality(DOMAIN TopViewed(views, s)) = Min({TopN, Len(views)})
     /\ \A p \in DOMAIN top, q \in (Owners(s) \cap DOMAIN about) \ DOMAIN top : Cardinality(about[q]) <= top[p]

\* The sections of the pulse, and GET /stats, add up at every moment.
PulseAddsUp ==
  LET s == Corpus IN CurvesWhole(s) /\ WritersAgree(s) /\ TotalsAgree(s) /\ LeadersFit(s)
=============================================================================
