--------------------------------- MODULE Tables ---------------------------------
(***************************************************************************)
(* SqliteStore (server/store/sqlite.py): a table is its rows in rowid      *)
(* order, the order its SELECTs list them in. A call holds the store's     *)
(* lock and commits before it lets it go, so it is one step; consume_* are *)
(* the exception: they read a row, then add it anew.                       *)
(***************************************************************************)
EXTENDS Integers, Sequences, FiniteSets, SequencesExt

CONSTANTS None, Threads

VARIABLES
  tables, \* the rows of each table, [key, row] each
  held    \* by thread: what a consume call has read and not yet written

CorpusNames == {"papers", "cirs", "sources", "rendered_pdfs", "claims", "claim_views", "annotations"}
Names == CorpusNames \cup {"tokens", "orcid_keys", "paste_codes", "challenges"}

\* A call that changes something is a record of op and its arguments: add (table,
\* key, row), remove and consume (table, key), bump (key), revoke (key, at),
\* replace (ids), clear.

StoreInit ==
  /\ tables = [t \in Names |-> << >>]
  /\ held = [t \in Threads |-> None]

\* SELECT payload FROM a table; and by primary key.
Listed(t) == [n \in DOMAIN tables[t] |-> tables[t][n].row]
Has(t, key) == \E n \in DOMAIN tables[t] : tables[t][n].key = key
Got(t, key) == (CHOOSE e \in ToSet(tables[t]) : e.key = key).row

Deleted(rows, keys) ==
  LET kept[n \in 0 .. Len(rows)] ==
        IF n = 0 THEN << >>
        ELSE IF rows[n].key \in keys THEN kept[n - 1] ELSE Append(kept[n - 1], rows[n])
  IN kept[Len(rows)]
\* INSERT OR REPLACE gives the row a new rowid, the largest.
Replaced(rows, key, row) == Append(Deleted(rows, {key}), [key |-> key, row |-> row])
Updated(rows, key, row) ==
  [n \in DOMAIN rows |-> IF rows[n].key = key THEN [key |-> key, row |-> row] ELSE rows[n]]

-----------------------------------------------------------------------------
InsertOrReplace(c) ==
  /\ c.op = "add"
  /\ tables' = [tables EXCEPT ![c.table] = Replaced(@, c.key, c.row)]
  /\ UNCHANGED held

DeleteRow(c) ==
  /\ c.op = "remove"
  /\ tables' = [tables EXCEPT ![c.table] = Deleted(@, {c.key})]
  /\ UNCHANGED held

UpsertOne(c) == \* mutant: a new row each time
  /\ c.op = "bump"
  /\ tables' = [tables EXCEPT !["claim_views"] = Replaced(@, c.key, 1)]
  /\ UNCHANGED held

\* INSERT ... ON CONFLICT DO UPDATE leaves a row in its place.
Upsert(c) ==
  /\ c.op = "bump"
  /\ tables' = [tables EXCEPT !["claim_views"] =
       IF Has("claim_views", c.key) THEN Updated(@, c.key, Got("claim_views", c.key) + 1)
       ELSE Replaced(@, c.key, 1)]
  /\ UNCHANGED held

UpdateUnrevoked(c) ==
  /\ c.op = "revoke"
  /\ tables' = [tables EXCEPT !["orcid_keys"] =
       IF Has("orcid_keys", c.key) /\ Got("orcid_keys", c.key).revoked_at = None
       THEN Updated(@, c.key, [Got("orcid_keys", c.key) EXCEPT !.revoked_at = c.at]) ELSE @]
  /\ UNCHANGED held

\* consume_*: get the row under the lock ...
TakeRow(t, c) ==
  /\ c.op = "consume" /\ held[t] = None /\ Has(c.table, c.key)
  /\ held' = [held EXCEPT ![t] = Got(c.table, c.key)]
  /\ UNCHANGED tables
TakeNothing(t, c) ==
  c.op = "consume" /\ held[t] = None /\ ~Has(c.table, c.key) /\ UNCHANGED <<tables, held>>

\* ... and under the lock once more, add the copy with its flag set.
PutConsumed(t, c) ==
  /\ c.op = "consume" /\ held[t] # None
  /\ tables' = [tables EXCEPT ![c.table] = Replaced(@, c.key, [held[t] EXCEPT !.consumed = TRUE])]
  /\ held' = [held EXCEPT ![t] = None]

DeleteCorpus(c) ==
  /\ c.op = "clear"
  /\ tables' = [t \in Names |-> IF t \in CorpusNames THEN << >> ELSE tables[t]]
  /\ UNCHANGED held

\* One turn of replace_seed_papers' loop: the paper's slug is read off its row,
\* which goes only after the claims the slug owns.
WithoutPaper(tabs, pid) ==
  LET rows == {e.row : e \in {f \in ToSet(tabs["papers"]) : f.key = pid}}
      owners == {pid} \cup ({p.id_slug : p \in rows} \ {None})
      stale == {e.key : e \in {f \in ToSet(tabs["claims"]) : f.row.paper_id \in owners}}
  IN [t \in Names |->
        CASE t \in {"claims", "claim_views"} -> Deleted(tabs[t], stale)
          [] t \in {"papers", "cirs", "sources", "rendered_pdfs"} -> Deleted(tabs[t], {pid})
          [] OTHER -> tabs[t]]

\* The loop is one transaction.
DeleteSeedPapers(c) ==
  /\ c.op = "replace"
  /\ tables' = FoldLeft(WithoutPaper, tables, c.ids)
  /\ UNCHANGED held

\* The call c of thread t ends with this step, or (TakeRow) goes on.
Ends(t, c) ==
  \/ InsertOrReplace(c) \/ DeleteRow(c) \/ Upsert(c) \/ UpdateUnrevoked(c)
  \/ TakeNothing(t, c) \/ PutConsumed(t, c) \/ DeleteCorpus(c) \/ DeleteSeedPapers(c)
=============================================================================
