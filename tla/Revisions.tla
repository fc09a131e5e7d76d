-------------------------------- MODULE Revisions --------------------------------
(***************************************************************************)
(* What happens to a CIR between two versions of a paper: its ids move to  *)
(* the citable slug (server/papers/claim_ids.py), and the versions are     *)
(* compared, by the server claim by claim (server/papers/diff.py) and by   *)
(* the command line id by id (diff.py).                                    *)
(*                                                                         *)
(* A CIR is a record with its claims, the records of module Parser. The    *)
(* hunks of a word diff are not modelled: what a diff says is which claims *)
(* it relates and which of their fields it calls changed.                  *)
(***************************************************************************)
EXTENDS Parser

-----------------------------------------------------------------------------
(* canonicalise_claim_ids *)

\* Everything that starts with the first segment of the first claim's id.
Rewrite(id, old, slug) == IF Len(id) > 1 /\ Head(id) = old THEN slug \o Tail(id) ELSE id

CanonicaliseClaimIds(claims, slug) ==
  IF claims = <<>> THEN claims
  ELSE IF IsStrictPrefix(slug, claims[1].id) THEN claims
  ELSE LET old == Head(claims[1].id)
           Moved(c) == [c EXCEPT !.id = Rewrite(@, old, slug), !.paper_id = slug,
                          !.edges = [k \in EdgeKinds |->
                             [n \in DOMAIN c.edges[k] |-> Rewrite(c.edges[k][n], old, slug)]]]
       IN [n \in DOMAIN claims |-> Moved(claims[n])]

-----------------------------------------------------------------------------
(* compute_revision_diff *)

\* claim_local_id: the first segment is taken for the whole of the paper's id.
ClaimLocalIdLast(id) == <<Last(id)>> \* mutant: split on the last colon
ClaimLocalId(id) == Tail(id)

\* The claims, by position, with that local id.
Bucket(claims, local) == {n \in DOMAIN claims : ClaimLocalId(claims[n].id) = local}

\* Pass 1 of _match_claims: one claim of that local id on each side.
LocalPairs(prev, curr) ==
  {p \in (DOMAIN prev) \X (DOMAIN curr) :
     LET local == ClaimLocalId(prev[p[1]].id)
     IN Bucket(prev, local) = {p[1]} /\ Bucket(curr, local) = {p[2]}}

\* Claims are told apart by id: one whose twin is matched counts as matched.
Unmatched(claims, taken) ==
  {n \in DOMAIN claims : claims[n].id \notin {claims[m].id : m \in taken}}

\* Pass 2: the same statement, said once among what is left of the previous version;
\* the first claim to say it in the current one takes it.
MatchClaims(prev, curr) ==
  LET byLocal == LocalPairs(prev, curr)
      left == Unmatched(prev, {p[1] : p \in byLocal})
      Says(n) == {m \in left : prev[m].statement = curr[n].statement}
      rest == Unmatched(curr, {p[2] : p \in byLocal})
      First(n) == \A m \in rest : m < n => curr[m].statement # curr[n].statement
      byStatement == {p \in left \X rest : Says(p[2]) = {p[1]} /\ First(p[2])}
  IN byLocal \cup byStatement

TrackedFields == {"statement", "proof", "claim_type", "evidence_type", "figures", "location"} \cup EdgeKinds

\* _normalise_field: the order of edges and figures does not count.
AsBag(s) == [x \in ToSet(s) |-> Cardinality({n \in DOMAIN s : s[n] = x})]
SameField(f, before, after) ==
  CASE f \in EdgeKinds -> AsBag(before.edges[f]) = AsBag(after.edges[f])
    [] f = "figures" -> AsBag(before.figures) = AsBag(after.figures)
    [] OTHER -> before[f] = after[f]

FieldsChanged(before, after) == {f \in TrackedFields : ~SameField(f, before, after)}

ComputeRevisionDiff(prev, curr) ==
  LET pairs == MatchClaims(prev, curr)
      Changed(p) == FieldsChanged(prev[p[1]], curr[p[2]])
  IN [added |-> Unmatched(curr, {p[2] : p \in pairs}),
      removed |-> Unmatched(prev, {p[1] : p \in pairs}),
      modified |-> {[from |-> p[1], to |-> p[2], fields |-> Changed(p)] :
                      p \in {q \in pairs : Changed(q) # {}}},
      unchanged |-> Cardinality({q \in pairs : Changed(q) = {}})]

-----------------------------------------------------------------------------
(* diff_cir, behind `rrxiv diff' *)

ClaimIds(claims) == {c.id : c \in ToSet(claims)}

\* Of claims that share an id the last one counts.
ById(claims, id) == claims[Max({n \in DOMAIN claims : claims[n].id = id})]

EdgesOf(claims) ==
  UNION {UNION {{<<c.id, t, k>> : t \in ToSet(c.edges[k])} : k \in EdgeKinds} : c \in ToSet(claims)}

DiffCir(before, after) ==
  LET kept == ClaimIds(before) \cap ClaimIds(after)
      Differs(id) == \E f \in {"statement", "claim_type", "evidence_type"} :
                       ById(before, id)[f] # ById(after, id)[f]
  IN [claim_added |-> ClaimIds(after) \ ClaimIds(before),
      claim_removed |-> ClaimIds(before) \ ClaimIds(after),
      claim_changed |-> {id \in kept : Differs(id)},
      edge_added |-> EdgesOf(after) \ EdgesOf(before),
      edge_removed |-> EdgesOf(before) \ EdgesOf(after)]
=============================================================================
