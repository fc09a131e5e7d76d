--------------------------------- MODULE Dicts ---------------------------------
(***************************************************************************)
(* What a Store promises (server/store/protocol.py), as its plainest       *)
(* implementation keeps it: MemoryStore (server/store/memory.py), one      *)
(* dictionary a table, every call one step. The rate window is module      *)
(* Retries', snapshots are module Reads'. The order of a dictionary's keys *)
(* is left out.                                                            *)
(***************************************************************************)
EXTENDS Integers, Sequences, Functions

CONSTANTS
  None,
  Calls \* the calls that change something: see Call in module Tables

VARIABLES
  dicts, \* a dictionary for each name in TableNames
  last   \* the latest call, and whether it was an odd one: none goes without its effect

\* The tables of a paper, keyed by its machine id, and those beside them.
PaperTables == {"papers", "cirs", "sources", "rendered_pdfs"}
CorpusTables == PaperTables \cup {"claims", "claim_views", "annotations"}
TableNames == CorpusTables \cup {"tokens", "orcid_keys", "paste_codes", "challenges"}

Init == dicts = [t \in TableNames |-> << >>] /\ last = [odd |-> FALSE, call |-> None]

Dropped(dict, keys) == Restrict(dict, DOMAIN dict \ keys)
\* The key's earlier row, if any, is overwritten.
Put(dict, key, row) == [k \in DOMAIN dict \cup {key} |-> IF k = key THEN row ELSE dict[k]]

\* add_*, save_*
Add(c) == c.op = "add" /\ dicts' = [dicts EXCEPT ![c.table] = Put(@, c.key, c.row)]

\* revoke_token
Remove(c) == c.op = "remove" /\ dicts' = [dicts EXCEPT ![c.table] = Dropped(@, {c.key})]

\* bump_claim_view counts views of claims that are not there, too.
BumpClaimView(c) ==
  /\ c.op = "bump"
  /\ dicts' = [dicts EXCEPT !["claim_views"] =
       Put(@, c.key, IF c.key \in DOMAIN @ THEN @[c.key] + 1 ELSE 1)]

\* revoke_orcid_key: a key keeps the time of its first revocation.
RevokeOrcidKey(c) ==
  /\ c.op = "revoke"
  /\ dicts' = [dicts EXCEPT !["orcid_keys"] =
       IF c.key \in DOMAIN @ /\ @[c.key].revoked_at = None
       THEN [@ EXCEPT ![c.key].revoked_at = c.at] ELSE @]

\* consume_paste_code, consume_challenge
Consume(c) ==
  /\ c.op = "consume"
  /\ dicts' = [dicts EXCEPT ![c.table] =
       IF c.key \in DOMAIN @ THEN [@ EXCEPT ![c.key].consumed = TRUE] ELSE @]

\* clear_corpus
ClearCorpus(c) ==
  c.op = "clear" /\ dicts' = [t \in TableNames |-> IF t \in CorpusTables THEN << >> ELSE dicts[t]]

\* Claims belong to a paper by its slug, or by its id when it has none.
OwnerKeys(ids) ==
  ids \cup ({dicts["papers"][i].id_slug : i \in ids \cap DOMAIN dicts["papers"]} \ {None})

\* replace_seed_papers: the papers with all that is theirs but the annotations.
ReplaceSeedPapers(c) ==
  /\ c.op = "replace"
  /\ LET ids == {c.ids[n] : n \in DOMAIN c.ids}
         stale == {k \in DOMAIN dicts["claims"] : dicts["claims"][k].paper_id \in OwnerKeys(ids)}
     IN dicts' = [t \in TableNames |->
          CASE t \in PaperTables -> Dropped(dicts[t], ids)
            [] t \in {"claims", "claim_views"} -> Dropped(dicts[t], stale)
            [] OTHER -> dicts[t]]

Next == \E c \in Calls :
  /\ \/ Add(c) \/ Remove(c) \/ BumpClaimView(c) \/ RevokeOrcidKey(c) \/ Consume(c)
     \/ ClearCorpus(c) \/ ReplaceSeedPapers(c)
  /\ last' = [odd |-> ~last.odd, call |-> c]

Spec == Init /\ [][Next]_<<dicts, last>>
=============================================================================
