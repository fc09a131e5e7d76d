-------------------------------- MODULE Pipeline --------------------------------
(***************************************************************************)
(* A paper from its LaTeX source to its versions on a server: the author   *)
(* edits and compiles it, `rrxiv parse' makes a CIR of the source and the  *)
(* sidecar that compiling left (src/src/rrxiv/parser/build.py, build_cir), *)
(* and POST /submissions stores it under its citable slug                  *)
(* (server/submissions/router.py). Modules Parser, FrontMatter, Revisions  *)
(* and ClaimGraph are put to work on one source, step by step.             *)
(*                                                                         *)
(* Nothing ties a sidecar to the source it was made from: an author who    *)
(* edits and parses without compiling gives the parser a stale one.        *)
(***************************************************************************)
EXTENDS FrontMatter, Revisions, ClaimGraph

CONSTANTS
  Sources,      \* the papers an author may start with
  MintedSlug,   \* what the server mints for one that has no slug
  MaxEdits, MaxVersions,
  MaxLines      \* longer papers are not edited

\* What can stand on a line of a source.
Line ==
  [k : {"env"}, env : Kinds, label : Seq(STRING), text : STRING, title : STRING, wrapped : BOOLEAN,
   numbered : BOOLEAN, keys : Seq([key : STRING, eq : BOOLEAN, value : STRING]),
   figs : Seq([dir : STRING, name : STRING, figure : BOOLEAN])]
    \cup [k : {"edge"}, kind : EdgeKinds, source : Seq(STRING), target : Seq(STRING)]
    \cup [k : {"input"}, file : STRING, off : BOOLEAN]
    \cup [k : {"label"}, label : Seq(STRING)] \cup [k : {"section"}, title : STRING]
    \cup [k : {"cite", "bibitem"}, key : STRING] \cup [k : {"text", "figure"}]

\* A slug is rrxiv:YYMM.NNNNN (papers/slug.py), <<>> where there is none. A sidecar's author
\* record has no empty fields (sidecar.py:214).
IsSource(s) ==
  /\ s = [files |-> s.files, flat |-> s.flat, front |-> s.front, piped |-> s.piped]
  /\ IsFiniteSet(DOMAIN s.files) /\ "main" \in DOMAIN s.files
  /\ s.files \in [DOMAIN s.files -> Seq(Line)]
  /\ s.flat \in BOOLEAN /\ s.piped \in BOOLEAN
  /\ s.front.id \in Seq(STRING)
  /\ s.front.meta.id_slug \in Seq(STRING) /\ Len(s.front.meta.id_slug) \in {0, 2}
  /\ s.front.authors \in Seq(STRING)
  /\ s.front.records \in Seq(ToSet(s.front.records))
  /\ \A r \in ToSet(s.front.records) : "name" \in DOMAIN r => r["name"] # ""
  /\ s.front.meta.authors \in Seq(ToSet(s.front.meta.authors))
ASSUME SourcesAssumption ==
  /\ \A s \in Sources : IsSource(s)
  /\ MintedSlug \in Seq(STRING) /\ Len(MintedSlug) = 2

\* The words below.
ASSUME WordsAssumption == {"claim", "main", "new", "none", "prop", "reworded"} \subseteq STRING

VARIABLES src,      \* the author's files: [files, flat, front, piped]
          sidecar,  \* the .rrxiv.aux of the last compilation
          cir,      \* what the last parse wrote
          stored,   \* the versions on the server, oldest first
          reply,    \* the revision diff in the last answer
          edits

vars == <<src, sidecar, cir, stored, reply, edits>>

NoSidecar == [id |-> <<>>, none |-> TRUE]
NoCir == [id |-> <<>>, claims |-> <<>>]
NoDiff == [added |-> {}, removed |-> {}, modified |-> {}, unchanged |-> 0]

-----------------------------------------------------------------------------
Paper(s) == [files |-> s.files, flat |-> s.flat]

Sidecar(s) == CompileSidecar(s.files, s.front.id, s.piped, s.front.records)

\* A claim key that is not known stops the whole parse.
Parses(s) == \A i \in ToSet(OfKind(Nodes(Paper(s)), {"claim"})) : KeysValid(Nodes(Paper(s))[i].keys)

BuildCir(s, aux) ==
  LET nodes == Nodes(Paper(s))
      pid == PaperId(s.front, aux)
      map == SourceMap(Paper(s))
  IN [id |-> pid, id_slug |-> IdSlug(s.front),
      authors |-> BuildAuthors(s.front, aux.authors),
      sections |-> Sections(nodes),
      citations |-> BuildCitations(nodes, s.files, s.front.bib),
      claims |-> BuildClaims(nodes, aux, pid, map) \o BuildFoundationalClaims(nodes, aux, pid, map),
      of |-> s, aux |-> aux]      \* what it was built from

Init ==
  /\ src \in Sources
  /\ sidecar = NoSidecar /\ cir = NoCir
  /\ stored = <<>> /\ reply = NoDiff
  /\ edits = 0

-----------------------------------------------------------------------------
(* The author (external): one line of main.tex at a time. *)

Main == src.files["main"]
Rewrites(n) ==
  {RemoveAt(Main, n)}
    \cup (IF n < Len(Main) THEN {ReplaceAt(ReplaceAt(Main, n, Main[n + 1]), n + 1, Main[n])} ELSE {})
    \cup (IF Main[n].k # "env" THEN {}
          ELSE {ReplaceAt(Main, n, [Main[n] EXCEPT !.text = "reworded"]),
                ReplaceAt(Main, n, [Main[n] EXCEPT !.label = <<"prop", "new">>])})

\* Before the first parse an edit would only make another source to start with.
Edit ==
  /\ edits < MaxEdits /\ Len(Main) <= MaxLines /\ cir # NoCir
  /\ \E n \in DOMAIN Main : \E text \in Rewrites(n) : src' = [src EXCEPT !.files["main"] = text]
  /\ edits' = edits + 1
  /\ UNCHANGED <<sidecar, cir, stored, reply>>

Compile ==
  /\ sidecar # Sidecar(src)
  /\ sidecar' = Sidecar(src)
  /\ UNCHANGED <<src, cir, stored, reply, edits>>

\* build_cir: there is no parsing without a sidecar, but any one will do.
Parse ==
  /\ sidecar # NoSidecar
  /\ Parses(src)
  /\ cir' = BuildCir(src, sidecar)
  /\ cir' # cir
  /\ UNCHANGED <<src, sidecar, stored, reply, edits>>

-----------------------------------------------------------------------------
(* POST /submissions; what else it does is in module Submissions. *)

Last1 == stored[Len(stored)]
SlugFor(c) ==
  IF c.id_slug # <<>> THEN c.id_slug ELSE IF stored # <<>> THEN Last1.slug ELSE MintedSlug

\* The ids are moved to the slug in cir_data, which is stored; the reply's diff is
\* computed from cir_obj, validated before that.
Submit ==
  /\ cir # NoCir /\ Len(stored) < MaxVersions
  /\ stored' = Append(stored, [slug |-> SlugFor(cir), parsed |-> cir,
                               claims |-> CanonicaliseClaimIds(cir.claims, SlugFor(cir))])
  /\ reply' = IF stored = <<>> THEN NoDiff ELSE ComputeRevisionDiff(Last1.claims, cir.claims)
  /\ UNCHANGED <<src, sidecar, cir, edits>>

\* GET /papers/{id}/diff, between two versions of the paper.
GetRevisionDiff(from, to) == ComputeRevisionDiff(stored[from].claims, stored[to].claims)

Next == Edit \/ Compile \/ Parse \/ Submit
Spec == Init /\ [][Next]_vars

-----------------------------------------------------------------------------
(* What the author said *)

\* The environments a record is made of, by the author's reckoning.
Bears(x) == x.k = "env" /\ ~x.wrapped /\ (x.env = "claim" \/ (x.env \in {"scope", "remark"} /\ x.label # <<>> /\ x.text # ""))
Labelled(s) == {x \in ToSet(Typeset(s.files)) : x.k = "env" /\ ~x.wrapped /\ x.label # <<>>}
Edges(s) == {x \in ToSet(Typeset(s.files)) : x.k = "edge"}

\* No label is set twice, or is what a claim without one is called (_claim_id).
LabelsUnique(s) ==
  LET nodes == Nodes(Paper(s))
      labelled == {n \in Environments(nodes) : nodes[n].label # <<>>}
  IN /\ \A i, j \in labelled : nodes[i].label = nodes[j].label => i = j
     /\ \A i \in labelled, n \in DOMAIN nodes : nodes[i].label # <<"claim", Numeral(n)>>

\* What the walker meets is what LaTeX sets, and so what the author reads: no file is
\* inlined from a comment.
SetAsWalked(s) ==
  LET nodes == Nodes(Paper(s))
  IN {nodes[i] : i \in Environments(nodes)} = {x \in ToSet(Typeset(s.files)) : x.k = "env" /\ ~x.wrapped}

\* What an end of an edge names: a label, with or without the paper's id before it, or
\* the end of a label, a claim's before another's.
Meant(c, raw) ==
  LET own == IsStrictPrefix(c.id, raw)
      label == IF own THEN SubSeq(raw, Len(c.id) + 1, Len(raw)) ELSE raw
      exact == {x \in Labelled(c.of) : x.label = label}
      short == {x \in Labelled(c.of) : ~own /\ Len(x.label) > 1 /\ Tail(x.label) = raw}
      claims == {x \in short : x.env = "claim"}
  IN IF exact # {} THEN exact ELSE IF claims # {} THEN claims ELSE short

\* Every claim marker came with a number.
AllNumbered(aux) == \A m \in ToSet(aux.markers) : m.kind = "claim" => m.index # NoIndex

Fresh(c) == c.aux = Sidecar(c.of)
RecordsOf(c, label) == {n \in DOMAIN c.claims : c.claims[n].id = c.id \o label}

\* No file but main.tex includes another, and what stands at a place is an \input.
IncludesNone(s) ==
  \A f \in DOMAIN s.files \ {"main"} : \A x \in ToSet(s.files[f]) : ~(x.k = "input" /\ x.file \in DOMAIN s.files)
IsDirective(s, p) == p.mark = "line" /\ s.files[p.file][p.line].k = "input"
LocatedAt(claim, place) == claim.location.file = place.file /\ claim.location.line_start = place.line

IdsDistinct(claims) == \A m, n \in DOMAIN claims : claims[m].id = claims[n].id => m = n

-----------------------------------------------------------------------------
(* Properties *)

\* Whichever sidecar it was parsed with, one of an earlier text included, as long as its
\* claim markers carry numbers, a source that sets no label twice gives every claim an id
\* of its own: those without a label take a number, of a marker or counted on (_claim_id,
\* _pair_envs_with_sidecar). A label that looks like such a number can be that of
\* another claim.
IdsUnique == cir # NoCir /\ LabelsUnique(cir.of) /\ AllNumbered(cir.aux) => IdsDistinct(cir.claims)

\* An edge the author drew between two things that have records is, in the version on the
\* server, an edge between those two records: through the marker line, the label
\* resolver and the move to the slug.
EdgesLand ==
  \A v \in DOMAIN stored :
    LET c == stored[v].parsed
    IN Fresh(c) /\ SetAsWalked(c.of) =>
         \A e \in Edges(c.of) :
           LET from == Meant(c, e.source)
               to == Meant(c, e.target)
           IN (c.of.piped \/ Len(e.source) = Len(e.target)) =>
              \A x \in from, y \in to :
                Cardinality(from) = 1 /\ Cardinality(to) = 1 /\ Bears(x) /\ Bears(y) =>
                  \E n \in RecordsOf(c, x.label), m \in RecordsOf(c, y.label) :
                    stored[v].claims[m].id \in ToSet(stored[v].claims[n].edges[e.kind])

\* Evidence that carries its claim's name is that claim's proof, wherever it stands behind
\* the claim and whatever stands in between, and no evidence proves two claims
\* (_pair_claims_with_evidence).
EvidencePaired ==
  cir # NoCir =>
    LET nodes == Nodes(Paper(cir.of))
        claims == OfKind(nodes, {"claim"})
        paired == PairClaimsWithEvidence(nodes)
        Same(i, kind) == {j \in ToSet(OfKind(nodes, {kind})) :
                            /\ nodes[j].label # <<>>
                            /\ LabelSuffix(nodes[j].label) = LabelSuffix(nodes[i].label)}
    IN /\ \A n \in DOMAIN claims : \A e \in Same(claims[n], "evidence") :
            /\ nodes[claims[n]].label # <<>> /\ e > claims[n]
            /\ Same(claims[n], "claim") = {claims[n]} /\ Same(claims[n], "evidence") = {e}
            => cir.claims[n].proof = nodes[e].text
       /\ \A m, n \in DOMAIN paired : paired[m] = paired[n] /\ paired[m] # 0 => m = n

\* A claim's source_location is the line of the author's file it stands on, as long as the
\* parser has replaced no directive before it: in main.tex as the author wrote it, with no
\* directive before the claim, and in an included file of a flattened paper, over
\* the marks flatten-tex left, if no included file includes another.
LocTrue ==
  cir # NoCir =>
    LET s == cir.of
        main == s.files["main"]
        claims == OfKind(Nodes(Paper(s)), {"claim"})
    IN \A n \in DOMAIN claims :
         LET i == claims[n]
             place == Body(Paper(s))[i]
         IN \/ /\ i \in DOMAIN main
               /\ \A j \in 1 .. i : main[j].k # "input" /\ (s.flat => main[j].k # "figure")
            \/ /\ s.flat /\ place.file # "main" /\ IncludesNone(s)
               /\ \A j \in DOMAIN RawText(Paper(s)) : j <= i => ~IsDirective(s, RawText(Paper(s))[j])
            => LocatedAt(cir.claims[n], place)

\* Everyone one of the three layers names is an author, once, and a field is what
\* rrxiv-meta.json says, or else the last \rrxivauthor that gives it (_build_authors).
AuthorsMerged ==
  cir # NoCir =>
    LET front == cir.of.front
        records == {i \in DOMAIN cir.aux.authors : "name" \in DOMAIN cir.aux.authors[i]}
        meta == MetaAuthors(front)
        names == (ToSet(front.authors) \ {""}) \cup {cir.aux.authors[i]["name"] : i \in records}
                   \cup {meta[i]["name"] : i \in DOMAIN meta}
        Last2(S) == CHOOSE i \in S : \A j \in S : j <= i
    IN (\A i, j \in DOMAIN meta : meta[i]["name"] = meta[j]["name"] => i = j) =>
       /\ names # {} => {a["name"] : a \in ToSet(cir.authors)} = names
       /\ \A i, j \in DOMAIN cir.authors : cir.authors[i]["name"] = cir.authors[j]["name"] => i = j
       /\ \A a \in ToSet(cir.authors), f \in {"orcid", "role", "affiliation"} :
            LET said == {m \in ToSet(meta) : m["name"] = a["name"] /\ f \in DOMAIN m}
                told == {i \in records : cir.aux.authors[i]["name"] = a["name"] /\ f \in DOMAIN cir.aux.authors[i]}
            IN Get(a, f) = IF said # {} THEN (CHOOSE m \in said : TRUE)[f]
                           ELSE IF told # {} THEN cir.aux.authors[Last2(told)][f] ELSE None

\* find_cycles reports a cycle exactly when there is one, whichever claim it starts from,
\* and what it reports are cycles, no claim twice on one, the others on it all among
\* the claims each depends on and those that depend on it (graph.py).
CyclesFound ==
  LET edges == GraphEdges(cir.claims, "depends_on")
      nodes == GraphNodes(cir.claims)
      Cyclic == \E S \in (SUBSET nodes) \ {{}} : \A u \in S : \E v \in S : <<u, v>> \in edges
      IsCycle(path) == /\ path # <<>>
                       /\ \A i, j \in DOMAIN path : path[i] = path[j] => i = j
                       /\ \A i \in DOMAIN path : <<path[i], path[(i % Len(path)) + 1]>> \in edges
  IN edges # {} => \A order \in SetToSeqs(nodes) :
       LET found == FindCycles(cir.claims, "depends_on", order)
       IN /\ AssertNoCycles(cir.claims, "depends_on", order) <=> ~Cyclic
          /\ \A path \in ToSet(found) :
               /\ IsCycle(path)
               /\ ToSet(path) \cap DanglingTargets(cir.claims, {"depends_on"}) = {}
               /\ \A u \in ToSet(path) \cap nodes :
                    ToSet(path) \ {u} \subseteq Dependencies(cir.claims, u, Cardinality(nodes))
                                              \cap Dependents(cir.claims, u, Cardinality(nodes))

\* The diff served between two versions leaves no claim out and counts none twice; a claim
\* whose label is in both is neither added nor removed, and its statement is called
\* changed exactly when the author changed it. `rrxiv diff' on the two CIRs agrees, but
\* for the claims the server matched by what they say. (A paper whose id is `rrxiv' could
\* have claims that look moved to the slug before they are.)
DiffTruthful ==
  \A v, w \in DOMAIN stored :
    LET old == stored[v]
        new == stored[w]
        d == GetRevisionDiff(v, w)
        Env1(c, label) == CHOOSE x \in Labelled(c.of) : x.label = label
        shared == {x.label : x \in {y \in Labelled(old.parsed.of) : Bears(y)}}
                    \cap {x.label : x \in {y \in Labelled(new.parsed.of) : Bears(y)}}
        Plain(c) == LabelsUnique(c.of) /\ SetAsWalked(c.of) /\ AllNumbered(c.aux)
    IN v < w /\ Plain(old.parsed) /\ Plain(new.parsed) /\ old.parsed.id # <<Head(old.slug)>> =>
       /\ Cardinality(d.removed) + Cardinality(d.modified) + d.unchanged = Len(old.claims)
       /\ Cardinality(d.added) + Cardinality(d.modified) + d.unchanged = Len(new.claims)
       /\ \A label \in shared :
            \A m \in RecordsOf(old.parsed, label), n \in RecordsOf(new.parsed, label) :
              /\ m \notin d.removed /\ n \notin d.added
              /\ (\E p \in d.modified : p.from = m /\ p.to = n /\ "statement" \in p.fields)
                   <=> Env1(old.parsed, label).text # Env1(new.parsed, label).text
       /\ LET local == DiffCir(old.claims, new.claims)
          IN /\ {old.claims[n].id : n \in d.removed} \subseteq local.claim_removed
             /\ {new.claims[n].id : n \in d.added} \subseteq local.claim_added
             /\ \A p \in d.modified :
                  "statement" \in p.fields /\ old.claims[p.from].id = new.claims[p.to].id =>
                    old.claims[p.from].id \in local.claim_changed

-----------------------------------------------------------------------------
(* What the source says and the code does not do *)

\* papers/diff.py:3-6: claims are matched by rules that survive the rebase of their ids,
\* and the reply to a revision carries that diff.
ReplyIsTheDiff ==
  reply # NoDiff => reply = GetRevisionDiff(Len(stored) - 1, Len(stored))

\* sidecar.py:68-71: a marker that fired before its counter was stepped has an empty index,
\* and such markers are filtered before pairing. A sidecar with no others would leave the
\* claims to be counted, each with an id of its own.
EmptyIndicesFiltered ==
  cir # NoCir /\ LabelsUnique(cir.of) /\ (\A m \in ToSet(cir.aux.markers) : m.index = NoIndex)
    => IdsDistinct(cir.claims)

\* test_meaty_claims.py:140-143: the line in the author's file is exact, even when flatten-tex
\* could not resolve an \input.
LocExact ==
  cir # NoCir /\ cir.of.flat =>
    LET claims == OfKind(Nodes(Paper(cir.of)), {"claim"})
    IN \A n \in DOMAIN claims :
         LET place == Body(Paper(cir.of))[claims[n]]
         IN IncludesNone(cir.of) /\ place.file # "main" => LocatedAt(cir.claims[n], place)
=============================================================================
