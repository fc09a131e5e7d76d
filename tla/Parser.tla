--------------------------------- MODULE Parser ---------------------------------
(***************************************************************************)
(* From a LaTeX source and its sidecar to the claims of a CIR              *)
(* (src/src/rrxiv/parser/build.py, sidecar.py).                            *)
(*                                                                         *)
(* Ids, labels and edge endpoints are sequences of colon-separated         *)
(* segments. Environments are their positions in the parsed text. The      *)
(* cleaning of prose is gone: macros that the cleaner strips are nodes of  *)
(* their own here.                                                         *)
(***************************************************************************)
EXTENDS SourceMaps

EdgeKinds == {"depends_on", "supports", "contradicts", "extends"}

-----------------------------------------------------------------------------
(* The sidecar *)

NoIndex == "none"   \* the empty index

\* rrxiv.cls: a marker at each \begin of a semantic environment, wrapped or not,
\* with the number LaTeX gave it, or with none when it fires too early; each edge with
\* its ends, joined by a pipe, or by a colon before v0.2; the id and the authors that
\* the author declared.
CompileSidecar(files, id, piped, authors) ==
  LET set == Typeset(files)
      envs == Picked(set, {i \in DOMAIN set : set[i].k = "env"})
      Nth(i) == Cardinality({j \in 1 .. i : envs[j].env = envs[i].env})
  IN [id |-> id, piped |-> piped, authors |-> authors,
      markers |-> [i \in DOMAIN envs |-> [kind |-> envs[i].env, index |-> IF envs[i].numbered THEN Numeral(Nth(i)) ELSE NoIndex]],
      edges |-> Picked(set, {i \in DOMAIN set : set[i].k = "edge"})]

\* The v0.1 fallback: the joined tokens are cut in the middle, or, when they
\* are odd in number, before the last.
SplitV01(kind, tokens) ==
  LET cut == IF Len(tokens) % 2 = 0 THEN Len(tokens) \div 2 ELSE Len(tokens) - 1
  IN Edge(kind, SubSeq(tokens, 1, cut), SubSeq(tokens, cut + 1, Len(tokens)))

\* parse_sidecar_text.
ParseEdges(sidecar) ==
  LET Read(e) == IF sidecar.piped THEN e ELSE SplitV01(e.kind, e.source \o e.target)
      read == [i \in DOMAIN sidecar.edges |-> Read(sidecar.edges[i])]
  IN Picked(read, {i \in DOMAIN read : read[i].source # <<>> /\ read[i].target # <<>>})

-----------------------------------------------------------------------------
(* Labels *)

LabelSuffix(label) == IF Len(label) > 1 THEN Tail(label) ELSE label

\* _pair_envs_with_sidecar and _claim_id: the nth claim takes the number of the
\* nth claim marker, be it empty, or its own when the sidecar has fewer.
ClaimIndexAnyKind(nodes, sidecar, n) == \* mutant: the nth marker of any kind
  IF n <= Len(sidecar.markers) THEN sidecar.markers[n].index ELSE Numeral(n)

ClaimIndex(nodes, sidecar, n) ==
  LET markers == Picked(sidecar.markers, {i \in DOMAIN sidecar.markers : sidecar.markers[i].kind = "claim"})
  IN IF n <= Len(markers) THEN markers[n].index ELSE Numeral(n)

ClaimId(pid, label, index) == IF label # <<>> THEN pid \o label ELSE pid \o <<"claim", index>>

\* _build_label_resolver: what an author may write for an environment. Full labels
\* win over suffixes, a claim's suffix over another's, the last of two claims and the
\* first of two others.
LabelResolver(nodes, pid) ==
  LET labelled == {i \in Environments(nodes) : nodes[i].label # <<>>}
      full == {nodes[i].label : i \in labelled}
      claims == {i \in labelled : nodes[i].env = "claim"}
      Called(s, set) == {i \in set : LabelSuffix(nodes[i].label) = s}
      Named(s) == IF s \in full THEN s
                  ELSE IF Called(s, claims) # {} THEN nodes[Max(Called(s, claims))].label
                  ELSE nodes[Min(Called(s, labelled))].label
  IN [s \in full \cup {LabelSuffix(l) : l \in full} |-> pid \o Named(s)]

\* mutant: colons make it another paper's before the labels are asked.
ResolveForeignFirst(raw, pid, resolver) ==
  IF Len(raw) > 1 /\ <<Head(raw)>> # pid THEN raw
  ELSE IF raw \in DOMAIN resolver THEN resolver[raw] ELSE pid \o raw

\* _resolve_edge_endpoint: what has colons and is not known here is another
\* paper's.
ResolveEndpoint(raw, pid, resolver) ==
  CASE IsStrictPrefix(pid, raw) -> raw
    [] ~IsStrictPrefix(pid, raw) /\ raw \in DOMAIN resolver -> resolver[raw]
    [] ~IsStrictPrefix(pid, raw) /\ raw \notin DOMAIN resolver ->
         IF Len(raw) > 1 /\ <<Head(raw)>> # pid THEN raw ELSE pid \o raw

\* The targets of the edges of one kind that leave a claim, in document order.
Targets(cid, kind, edges, pid, resolver) ==
  LET mine == Picked(edges, {i \in DOMAIN edges : /\ edges[i].kind = kind
                                                  /\ ResolveEndpoint(edges[i].source, pid, resolver) = cid})
  IN [i \in DOMAIN mine |-> ResolveEndpoint(mine[i].target, pid, resolver)]

-----------------------------------------------------------------------------
(* Evidence *)

NamesEqual(label, other) == label # <<>> /\ label = other \* mutant
NamesSame(label, other) ==
  label # <<>> /\ other # <<>> /\ LabelSuffix(label) = LabelSuffix(other)

\* _pair_claims_with_evidence: claim by claim, the first free evidence after it
\* with the same label suffix, or else the first one before the next claim.
PairClaimsWithEvidence(nodes) ==
  LET claims == OfKind(nodes, {"claim"})
      evidence == ToSet(OfKind(nodes, {"evidence"}))
      pair[n \in 0 .. Len(claims)] ==
        IF n = 0 THEN <<>>
        ELSE LET before == pair[n - 1]
                 c == claims[n]
                 after == {e \in evidence : e > c /\ e \notin ToSet(before)}
                 named == {e \in after : NamesSame(nodes[c].label, nodes[e].label)}
                 near == {e \in after : n < Len(claims) => e < claims[n + 1]}
             IN Append(before, IF named # {} THEN Min(named)
                               ELSE IF near # {} THEN Min(near) ELSE 0)
  IN pair[Len(claims)]    \* 0: no evidence

-----------------------------------------------------------------------------
(* Claim keys (RRP-0030): the entries of a claim's optional argument *)

ClaimTypes == {"empirical", "theoretical", "definitional", "methodological", "computational"}
EvidenceTypes == {"proof", "experiment", "simulation", "observation", "argument", "definition", "convention"}
ScopeKeys == {"models", "datasets", "regimes", "assumptions"}
FloatKeys == {"confidence", "confidence-low", "confidence-high"}
KnownClaimKeys == {"title", "type", "evidence", "rationale", "labels"} \cup ScopeKeys \cup FloatKeys
UnitInterval == {"0", "0.5", "1"}

\* An argument without any = is a title.
IsKeyList(entries) == \E e \in ToSet(entries) : e.eq

KeyMap(entries) ==
  [k \in {e.key : e \in ToSet(entries)} |->
     entries[Max({i \in DOMAIN entries : entries[i].key = k})].value]

\* _parse_claim_keys raises ClaimKeyError otherwise, and nothing is built.
KeysValid(entries) ==
  IsKeyList(entries) =>
    /\ \A e \in ToSet(entries) : /\ e.eq /\ e.key \in KnownClaimKeys
                                 /\ e.key \in FloatKeys => e.value \in UnitInterval
    /\ \A k \in DOMAIN KeyMap(entries) :
         /\ k = "type" => KeyMap(entries)[k] \in ClaimTypes
         /\ k = "evidence" => KeyMap(entries)[k] \in EvidenceTypes

\* confidence, rationale, labels and scope.
Declared(entries) ==
  IF ~IsKeyList(entries) THEN <<>>
  ELSE [k \in DOMAIN KeyMap(entries) \ {"title", "type", "evidence"} |-> KeyMap(entries)[k]]

KeyOr(entries, key, default) ==
  IF IsKeyList(entries) /\ key \in DOMAIN KeyMap(entries) THEN KeyMap(entries)[key] ELSE default

-----------------------------------------------------------------------------
(* Claim records *)

\* _build_claim_figures over the \input references in an evidence block: those that
\* read_tex_resolving_inputs has left, by directory, and this takes for a figure, by
\* directory or (figure) for a /figures/ further down or a figure in the name of a .tex.
ClaimFigures(refs) ==
  SelectSeq(refs, LAMBDA r : r.dir \in {"figures", "fig"} /\ (r.dir = "figures" \/ r.figure))

\* The record of the environment at i, proved by that at e (0: by none).
Record(nodes, sidecar, pid, map, i, id, class, declared, e) ==
  LET edges == ParseEdges(sidecar)
      resolver == LabelResolver(nodes, pid)
  IN [id |-> id, paper_id |-> pid, statement |-> nodes[i].text,
      claim_type |-> class[1], evidence_type |-> class[2], declared |-> declared,
      proof |-> IF e = 0 THEN "" ELSE nodes[e].text,
      figures |-> IF e = 0 THEN <<>> ELSE ClaimFigures(nodes[e].figs),
      edges |-> [k \in EdgeKinds |-> Targets(id, k, edges, pid, resolver)],
      location |-> SourceLocation(map, i, IF e = 0 THEN i ELSE e)]

BuildClaims(nodes, sidecar, pid, map) ==
  LET claims == OfKind(nodes, {"claim"})
      paired == PairClaimsWithEvidence(nodes)
      Build(n) ==
        LET c == nodes[claims[n]]
        IN Record(nodes, sidecar, pid, map, claims[n],
                  ClaimId(pid, c.label, ClaimIndex(nodes, sidecar, n)),
                  <<KeyOr(c.keys, "type", "theoretical"), KeyOr(c.keys, "evidence", "argument")>>,
                  Declared(c.keys), paired[n])
  IN [n \in DOMAIN claims |-> Build(n)]

\* _classify_foundational: by the first word of the title, else by environment.
TitleRules == ("definition" :> <<"definitional", "definition">>) @@
              [t \in {"postulate", "common notion", "axiom"} |-> <<"theoretical", "convention">>] @@
              [t \in {"lemma", "corollary", "remark"} |-> <<"theoretical", "argument">>]
ClassifyFoundational(env, title) ==
  IF title \in DOMAIN TitleRules THEN TitleRules[title]
  ELSE IF env = "scope" THEN <<"definitional", "definition">> ELSE <<"theoretical", "convention">>

\* Scopes and remarks are nodes of the claim graph when they can be named and say
\* something.
Foundational(nodes) ==
  InOrder({i \in Environments(nodes) : nodes[i].env \in {"scope", "remark"} /\ nodes[i].label # <<>> /\ nodes[i].text # ""})

BuildFoundationalClaims(nodes, sidecar, pid, map) ==
  LET Build(i) == Record(nodes, sidecar, pid, map, i, pid \o nodes[i].label,
                         ClassifyFoundational(nodes[i].env, nodes[i].title), <<>>, 0)
  IN [n \in DOMAIN Foundational(nodes) |-> Build(Foundational(nodes)[n])]
=============================================================================
