------------------------------ MODULE FrontMatter ------------------------------
(***************************************************************************)
(* The parts of a CIR that are not claims: authors merged from three       *)
(* layers, citations from three sources, identity from the sidecar, the    *)
(* source and rrxiv-meta.json (src/src/rrxiv/parser/build.py,              *)
(* bibliography.py).                                                       *)
(*                                                                         *)
(* An author is a function from field names to values; provenance blocks   *)
(* are functions too, with a sequence of model descriptors at "models".    *)
(***************************************************************************)
EXTENDS Manuscripts

None == "none"    \* an absent field; an absent rrxiv-meta.json is one without authors or slug
Get(f, k) == IF k \in DOMAIN f THEN f[k] ELSE None
Only(f, keys) == [k \in DOMAIN f \cap keys |-> f[k]]
Field(key, value) == [k \in {key} |-> value]
NoFields == [k \in {} |-> None]
Only1(f, key, as) == IF key \in DOMAIN f THEN Field(as, f[key]) ELSE NoFields
Over(new, old) == [k \in DOMAIN new \cup DOMAIN old |-> IF k \in DOMAIN new THEN new[k] ELSE old[k]]

-----------------------------------------------------------------------------
(* Provenance (RRP-0026) *)

\* _provenance_from_sidecar. A v0.6 slug stands in for the pin, and for the name.
Descriptor(fields) ==
  LET slug == IF "model_release_pin" \in DOMAIN fields THEN None ELSE Get(fields, "model_slug")
      given == Only1(fields, "model_name", "name") @@ Only1(fields, "model_family", "family")
               @@ Only1(fields, "model_release_pin", "release_pin")
               @@ Only1(fields, "model_release_date", "release_date")
      lifted == given @@ (IF slug = None THEN <<>> ELSE ("release_pin" :> slug) @@ ("name" :> slug))
  IN IF lifted = <<>> \/ "name" \in DOMAIN lifted THEN lifted
     ELSE lifted @@ ("name" :> IF "release_pin" \in DOMAIN lifted THEN lifted["release_pin"] ELSE "unknown-model")

\* _lift_flat_provenance: RRP-0025 fields become the one model, unless there are models.
FlatFields == {"model_slug", "model_family", "model_release_date"}
LiftFlatProvenance(prov) ==
  LET flat == Only(prov, FlatFields)
      lifted == Only1(flat, "model_slug", "release_pin") @@ Only1(flat, "model_family", "family")
                @@ Only1(flat, "model_release_date", "release_date")
                @@ ("name" :> IF "model_slug" \in DOMAIN flat THEN flat["model_slug"] ELSE "unknown-model")
  IN IF "models" \in DOMAIN prov \/ flat = <<>> THEN prov
     ELSE Only(prov, DOMAIN prov \ FlatFields) @@ ("models" :> <<lifted>>)

-----------------------------------------------------------------------------
(* Authors *)

Named(authors, name) == {i \in DOMAIN authors : authors[i]["name"] = name}

\* Layer 1, \author{}: pieces between \and, blank ones and repetitions dropped.
AddName(done, name) ==
  IF name = "" \/ Named(done, name) # {} THEN done ELSE Append(done, Field("name", name))

TexAuthors(names) ==
  LET add[n \in 0 .. Len(names)] == IF n = 0 THEN <<>> ELSE AddName(add[n - 1], names[n])
  IN add[Len(names)]

\* Layer 2, \rrxivauthor: the first author of that name, or a new one, takes the fields.
SidecarFields(fields) ==
  Over(Only(fields, {"orcid", "role", "affiliation", "email", "is_agent"}),
       Over(Only1(fields, "handle", "agent_handle"),
            IF Descriptor(fields) = <<>> THEN NoFields
            ELSE Field("provenance", Field("models", <<Descriptor(fields)>>))))

TakeRecord(done, record) ==
  LET name == record["name"]
      same == Named(done, name)
  IN IF "name" \notin DOMAIN record THEN done
     ELSE IF same = {} THEN Append(done, Over(SidecarFields(record), Field("name", name)))
     ELSE [done EXCEPT ![Min(same)] = Over(SidecarFields(record), @)]

OverlaySidecar(authors, records) ==
  LET add[n \in 0 .. Len(records)] == IF n = 0 THEN authors ELSE TakeRecord(add[n - 1], records[n])
  IN add[Len(records)]

\* _coerce_author_record.
CoerceAuthorRecord(raw) ==
  LET known == Only(raw, {"name", "orcid", "affiliation", "email", "is_agent", "agent_handle", "role", "provenance"})
  IN [k \in DOMAIN known |-> IF k = "provenance" THEN LiftFlatProvenance(known[k]) ELSE known[k]]

OverlayUnder(author, new) == Over(author, new) \* mutant: what the source says stays
Overlay(author, new) == Over(Only(new, DOMAIN new \ {"name"}), author)

\* Layer 3, rrxiv-meta.json (_merge_meta_onto_authors): each record goes to one author
\* of its name, whose name stays; those left over are appended.
TakeMeta(taken, meta, name) ==      \* the record of that name that is left, 0 for none
  LET free == Named(meta, name) \ ToSet(taken) IN Append(taken, IF free = {} THEN 0 ELSE Min(free))

MergeMetaOntoAuthors(parsed, meta) ==
  LET pick[n \in 0 .. Len(parsed)] == IF n = 0 THEN <<>> ELSE TakeMeta(pick[n - 1], meta, parsed[n]["name"])
      picks == pick[Len(parsed)]
      rest == InOrder(DOMAIN meta \ ToSet(picks))
      Merged(n) == IF picks[n] = 0 THEN parsed[n] ELSE Overlay(parsed[n], CoerceAuthorRecord(meta[picks[n]]))
  IN IF meta = <<>> THEN parsed
     ELSE [n \in DOMAIN parsed |-> Merged(n)] \o [i \in DOMAIN rest |-> CoerceAuthorRecord(meta[rest[i]])]

\* _parse_meta_json_authors keeps the records with a name.
MetaAuthors(front) ==
  Picked(front.meta.authors, {i \in DOMAIN front.meta.authors : "name" \in DOMAIN front.meta.authors[i]})

BuildAuthors(front, records) ==
  LET all == MergeMetaOntoAuthors(OverlaySidecar(TexAuthors(front.authors), records), MetaAuthors(front))
  IN IF all = <<>> THEN <<Field("name", "Unknown")>> ELSE all

-----------------------------------------------------------------------------
(* Citations and identity *)

\* _build_citations over the merged bibliography of build_cir: a .bib entry
\* before an inline one of the same key; a key without an entry is kept.
BuildCitations(nodes, files, bib) ==
  [key \in CitedKeys(nodes) \cup bib \cup InlineKeys(files) |->
     IF key \in bib THEN "bib" ELSE IF key \in InlineKeys(files) THEN "inline" ELSE "dangling"]

\* The paper's id: what the sidecar says, what the source says, the file's name.
PaperId(front, sidecar) ==
  IF sidecar.id # <<>> THEN sidecar.id ELSE IF front.id # <<>> THEN front.id ELSE <<"main">>

\* _parse_meta_json_id_slug.
IdSlug(front) == front.meta.id_slug
=============================================================================
