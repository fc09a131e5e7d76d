# rrxiv-python, modelled and proved

TLA+ models of the rrxiv server and its clients, the TLC runs that check them on
small instances, and TLAPS proofs of what matters most for every size. `src/`
is the repository; line numbers below are in `src/src/rrxiv/`.

## The system

One uvicorn process serves a FastAPI application over one SQLite file. There are
no transactions wider than one store call: `SqliteStore` takes a lock, runs one
statement and commits. Two kinds of handler share the store:

* `async def` handlers (submit_paper, create_annotation, the ORCID key routes) run
  on the event loop and are atomic between awaits;
* plain `def` handlers (the rest of /auth, create_snapshot, every GET) run in a
  threadpool, so that they interleave with each other and with the event loop
  between any two store calls.

On a user's machine every `rrxiv` command is a process over one keyring and one
credentials file, without a lock. Before anything is sent, the author's LaTeX goes through
a compiler, which leaves a sidecar, and the parser, which makes a CIR of both.

The seeder is a second process on the same file. The process may be killed at any
point; what the store committed stays.

| component | state it keeps | operations | what makes it correct |
|---|---|---|---|
| submissions (`server/submissions`, `papers/slug.py`, `ids.py`) | papers, CIRs, claims, annotations, blobs, idempotency | POST /submissions, versions, slug lookup | a slug is one acyclic lineage; an acknowledged paper is whole; a resent request stores nothing twice; a version never changes |
| identity (`server/auth`, `deps.py`) | tokens, agents, paste codes, challenges, ORCID keys | callback, render, exchange, challenge, verify, enroll, rotate, refresh | a code buys one token; a session passes on without gap or copy; a handle keeps its key |
| signature middleware, client signatures | (reads keys) | sign, verify | a signed write was signed by a key that was good |
| annotations, threads | annotations | create, bulk, thread | threads are trees; bulk replies match what was stored |
| claims, replication | (derived), view counters | status, neighborhood, top claims | the status follows from the annotations, whatever their order and whichever endpoint derives it |
| snapshots | manifest, blobs | create, list | a snapshot holds the CIR of whatever it speaks of; a manifest has its blob |
| pulse statistics | cache | get | stale by its time to live at most; sections that count the same things agree |
| paper lists, search, authors, models, statistics | (derived) | reads | one corpus, one answer |
| store (`store/protocol.py`, `memory.py`, `sqlite.py`) | the tables | add, bump, revoke, consume, clear, replace | both implementations do the same |
| rate window, client retry | window | record, back off | no more let through than the limit; a call ends and says what became of it |
| pagination | cursor | page | each row once |
| seeder, first boot | (corpus) | load, replace | idempotent; community papers survive |
| credential store, CLI logins (`cli/credentials.py`, `login.py`, `auth.py`) | keyring, JSON file | login, bind-key, keys revoke, logout, sign | no credential lost or brought back; a held key is a bound one |
| LaTeX parser (`parser/`) | none | files and sidecar to CIR | ids unique, edges land where the author pointed, proofs with their claims, lines true, nobody lost from the authors |
| revision diff, claim ids, claim graph | none | pure | nothing left out, nothing called changed that is not; a cycle is found exactly when there is one |

The hard parts are: the interleavings of threadpool handlers; a submission's
seven commits; clients that resend, reorder or repeat ids; crashes between
commits; two processes on one file; a parse whose sidecar is stale; one fact derived along several
paths. `PROJECT.json` lists them as hazards, each at
its line.

## Modules

| module | what it is | code |
|---|---|---|
| `Submissions` | the submission pipeline and the corpus | `server/submissions/router.py`, `papers/slug.py`, `papers/router.py` |
| `Lineages` | what the corpus promises: versions appended to lineages, roots with fresh slugs | abstract |
| `SubmissionsProofs` | proofs | |
| `Sessions` | codes, tokens and agents, one thread per request | `server/auth/router.py`, `deps.py`, `signature_middleware.py` |
| `Vouchers` | what a code promises: offered once, spent once, buys one token | abstract |
| `SessionsProofs` | proofs | |
| `Reseed` (EXTENDS `Submissions`) | the seeder, a second process on the same tables, and the container's boots | `cli/seed.py`, `store/sqlite.py`, `docker/entrypoint.sh` |
| `ReseedProofs` (EXTENDS `SubmissionsProofs`) | proofs | |
| `Replication` | the replication status of a claim, as a function of the annotations | `server/claims/replication.py` |
| `Annotations` (EXTENDS `Replication`) | single and bulk posts, and the submissions they are about | `server/annotations/router.py`, `threads.py` |
| `Threads` | what the discourse promises: one unchanging post per id, replies on what was there | abstract |
| `Reads` (EXTENDS `Annotations`) | reads that take several looks at the store: status, page walk, snapshot, pulse | `claims/replication.py`, `pagination.py`, `snapshots/router.py`, `stats/` |
| `DiscourseProofs` | proofs | |
| `Credentials` | a machine's credential store, one process per command | `cli/credentials.py` |
| `SignedWrites` (EXTENDS `Credentials`) | the commands over it, and the server that checks signed writes | `cli/login.py`, `auth.py`, `submit.py`, `annotation_post.py`, `signature_middleware.py` |
| `SignedProofs` | proofs | |
| `Manuscripts` | a paper's files, inlined into one text, and what the walker picks out | `parser/tex.py` |
| `SourceMaps` (EXTENDS `Manuscripts`) | flattened lines back to the author's | `parser/source_map.py` |
| `Parser` (EXTENDS `SourceMaps`) | sidecar, labels, edges, evidence, claim keys, claim records | `parser/build.py`, `sidecar.py` |
| `FrontMatter` | authors, provenance, citations, identity | `parser/build.py`, `bibliography.py` |
| `ClaimGraph` | the graph of a CIR and its traversals | `graph.py` |
| `Revisions` | claim ids moved to the slug; the server's diff and the command line's | `server/papers/claim_ids.py`, `diff.py`, `diff.py` |
| `Pipeline` (EXTENDS the four above) | a paper edited, compiled, parsed, submitted, revised | `build_cir`, `submit_paper` |
| `PipelineProofs` | proofs | |
| `Retries` | the client's retry loop against the server's rate window | `client/retry.py`, `client.py`, `server/deps.py` |
| `RetriesProofs` | proofs | |
| `Dicts` | what a store promises: MemoryStore, a dictionary per table | `store/protocol.py`, `memory.py` |
| `Tables` | SqliteStore, rows in order, calls under its lock | `store/sqlite.py` |
| `Views`, `Pulse` (EXTENDS `Views`) | what read endpoints derive from a corpus | `papers/projection.py`, `scopes.py`, `search/`, `authors/`, `models/`, `claims/router.py`, `stats/pulse.py` |
| `Catalogue` (EXTENDS `Pulse`, INSTANCE `Tables`) | handlers' store calls interleaved on the tables, and the views at every moment | those routers |
| `CatalogueProofs` | proofs | |
| `MCSubmissions`, `MCSessions`, `MCReseed`, `MCReads`, `MCSigned`, `MCPipeline`, `MCRetries`, `MCCatalogue` | the instances TLC checks | |

### Submissions

State: the corpus tables (`papers`, `cirs`, `claims`, notes, blobs, idempotency
entries), the requests in flight and the replies clients hold. One action per
store call of `submit_paper`, in its order: `Begin` or `Replay` (the checks up to
router.py:254, where the idempotency entry is read), `SaveSource`, `SavePdf`,
`AddPaper`, `AddCir`, `AddClaim` for each claim, `AddNote`, `AddIdempotency`,
`Respond`; `Crash` forgets the request in flight. submit_paper awaits only
its upload, before its first store call, so that one request runs at a time from
there on; the model keeps one job. Its steps are separate all the same, because
the threadpool's readers and a crash see the states between them. A paper id, a
slug counter, a claim and a body are model values or small records; UUIDs are
picked outside the ids in use. `IsNextSlug` is mint_slug with its five-digit
pattern, the overflow past it included. `SlugLookup`, `Listing` and `Versions`
are the readers' algorithms over the same tables.

### Sessions

A request is a thread: its place (`pc`), its parameters, the identity it acts for
and the token it made. `Receive` is the part of a handler up to its first
write; each later store call is a step of `Work`. Exchange of paste codes and of
challenges is one operation, with the captcha between marking and issuing for
the latter. Any request may purge an expired token; `Rotate` is the middleware's
decision, and `CheckRotation` and `Rekey` the handler's two calls after it.
The clock counts seconds, with a token good while `expires >= now`.
Signatures, payload freshness and ORCID's answer are guards the
environment meets or not: a request they refuse changes nothing.

### Reseed

The tables and the actions of `Submissions`, taken whole as `Community` (revisions of
seeds included), and a seeder that interleaves with them at every commit. `Start` is entrypoint.sh: no
database file means seed, and opening the store creates the file. `SeedStore` is
an operator's run, whose `Replace` (with --preserve-community) is the one
transaction of replace_seed_papers; then for each file `OpenFile` (the slug, minted when the
file has none), `SeedBlobs`, `SeedPaper`, `SeedCir`, `SeedClaim` for each claim,
`FileLoaded`; `SeedDone` ends the run. `Die` kills the container at any point.
A claim row is keyed by its slug and label, as canonicalised.

### Annotations, Replication and Reads

A post is a body with the id, target, type, reply, supersession and payload the
code looks at; wording and the other fields are gone. `Post` is create_annotation
up to its one commit, `Remember` the idempotency entry after it; `Bulk` and
`BulkItem` are the bulk handler, one item per step, each checked against what the
earlier items stored. The handlers await only the body, so that one request at a
time is between two commits; submissions are here by their commits in order and
by the idempotency entry, which shares the annotations' table. Ids of papers and
claims are sequences of their colon-separated segments, because
`_paper_id_of_target` cuts at the first colon.

`Reads` has one read at a time in a thread of its own: the steps between which
the writers move are the calls on the store. derive_replication_status lists the annotations
again for each question (`AskSuperseded`, `AskLifted`, `AskReplication`); a snapshot lists
papers, claims, annotations, papers again and each CIR, counts each table once more, and
saves its tarball before its manifest; a pulse counts for
its key, looks in the cache, gathers and keeps. A pulse is reduced to its totals and its
key to the two counts (the window and the excluded identities are parts of the key
that one client does not vary). `was`, `fixed` and `begun` are
histories the properties speak of; the program has none of them.

### Credentials and SignedWrites

A command is a list of steps (`todo`) that `SignedWrites` gives a process and
`Credentials` takes: `Put` writes the keyring; `Load`, `Open`, `Write` and `Replace` are
_file_update and _file_save, from reading the file to renaming the temporary one
over it; `Sweep` and `Forget` are logout and keys_revoke where they look at what
is stored and decide what to delete. All processes share one temporary file name: whoever has
it open when another renames it goes on writing to the file itself (`Moved`), and
two texts in one file may leave a mix (`Over`), which _file_load reads as
empty. `Crash` kills a command anywhere. With a keyring the file is an index: it names
bearers and agent keys, without secrets, and ORCID keys not at all (`Indexed`).

A secret is a number: a token, or a key pair and its id. A command's exchange with
the server is one action with its start, since it has stored nothing yet; what it then stores
can be lost. A write carries a token and possibly a signature; `Receive` is the
middleware up to where it awaits the body, `Verify` the part after it, `Admit` the
route's second look at the token, and `Accept` the handler. Cryptography, digest and clock window
are `Reject`, which may refuse any write whose body was read. `good` is a
history: whether the signing key was that identity's when the request arrived.
`Call` is any other user of the client library, with any token and any pair of key and id.

### Pipeline and its algorithms

A file is a sequence of lines with one construct each: an environment (with its label,
title, keys and figures), an `\input`, an edge macro, a citation, a heading, a label or
text. Labels, ids and edge ends are sequences of their colon-separated segments, since
that is what every rule of the parser cuts at. `RawText` is the file the paper is parsed
from, `Body` what read_tex_resolving_inputs makes of it, with the comments it writes
where a directive resolves to nothing and the rest of a directive's line behind what it inlines; `Nodes`
and `Environments` the walker. The source map indexes the former (`ScanMarks`) and is asked for
positions in the latter (`Offset`): both are counted in characters, of lines that are all of one
length but for the two that the parser writes. `CompileSidecar` is what LaTeX with rrxiv.cls leaves
(external, modelled from what sidecar.py reads; `numbered` says whether a marker has an index); `BuildCir` is build_cir. The state is what
lies on the author's disk and on the server: files, sidecar, CIR, versions, the last diff. `Edit` changes a
line, `Compile` renews the sidecar, `Parse` reads both (an unknown claim key stops it),
`Submit` moves ids to the slug and computes the reply's diff. Nothing makes the
author compile between an edit and a parse, and nothing in the code compares the two.

Recursion over files and lines and the search for cycles are recursive functions of one
record each, so that they can be reasoned about. Lists that the code filters are places in a
set, taken in order (`InOrder`, `Picked`); a claim's number is the `Numeral` of its place. In
find_cycles the node in progress is the one on the stack and the colour black is `done`; the
nodes are tried in any order.

The properties compare the CIR with `Typeset`, the order in which LaTeX sets the
environments and edges, and with the author's reading of labels (`Meant`), not with the
parser's own lookups.

### Retries

A call is at one of four places: sent, answered, asleep, or none. `React` is one turn of
`_json` from the response on. Times are ages and seconds left, so that no clock grows; the
client's fractions of a second are quarters. `TurnAway` and `Admit` are require_identity:
every request is counted, the refused too, then compared with the limit of its kind.
The client's reads name nobody and are not counted; the one limited read of the API,
`ListKeys`, is sent by another function without retries and shares the window. `Fail` is a handler that raises before or
after its row is stored, `ProxyFail` a server that saw nothing. `Lose` is a timeout: of an answer
that is lost, or before the handler has run, which then runs on for nobody (`RunOn`, or `RunPast` if
the client has made another call since). `served` is a history.

### Dicts, Tables, Views, Pulse and Catalogue

`Tables` has one action per SQL statement, on rows in rowid order, since lists are served
in that order and INSERT OR REPLACE moves a row to the end where ON CONFLICT DO UPDATE leaves
it. A call is one step, except consume_challenge and consume_paste_code, which take the lock twice
(`TakeRow`, `PutConsumed`). `Catalogue` gives each thread the calls of its handler in
order (`CallsOf`) after the lookups the handler starts with (`Passes`); the seeder runs
alone. Its properties are evaluated on the corpus after every call. `Views` and
`Pulse` are functions of a corpus, one operator per endpoint or section.

## Runs

| run | instance | shows |
|---|---|---|
| submissions_disciplined | clients that `Discipline` describes, crashes, resent requests | the lineages and the idempotency of POST /submissions; what was acknowledged stays whole (`AckedIsDurable`) |
| submissions_reused_cir_id | any client | a statement of the documentation that the code does not keep |
| sessions_careful | requests about one code, token or handle follow each other; crashes | no gap in a session, handles kept, `Vouchers` |
| sessions_progress | everything overlaps, no crash | spent codes buy, enrolled handles get tokens, refreshed tokens die (`NothingHalfDone`) |
| sessions_code_race | overlap | a statement of the documentation that the code does not keep |
| reseed_quiesced | papers and revisions, of seeds too, are submitted while no seeder runs; boots, deaths, reseeds | every whole run ends with the seeds whole; the rows of community papers survive it, and their claims unless a seed has their slug; no two first versions share a slug; a first boot ends served unless it dies |
| reseed_seed_revised | the same | a statement of the documentation that the code does not keep: claims of a revision of a seed are deleted (`OtherPapersIntact`) |
| discourse | careful clients post, batch and submit; the process dies; each kind of read | `Threads`, idempotent answers, truthful batches, and what each read does guarantee |
| signed_writes | commands about different slots overlap and are killed; keys revoked, rotated and tokens expired under way | no credential lost or brought back, what logout and bind-key leave behind; no signed write by a bad key |
| pipeline | some 2,200 papers, each edited once, compiled or not, parsed, submitted twice | ids, edges, proofs, lines, authors, cycles and diffs mean what the author wrote |
| retries | two clients and a command with one token, the default policy and retry_on_5xx | the rate is kept, a call says truly what it stored, and it ends |
| catalogue | two threads, a paper and its revision, notes, views, reseed and reset; codes, keys and tokens; crashes | SqliteStore implements MemoryStore; every view agrees with every other after any call |

Each property of a passing run is shown to have teeth by a mutant: an operator
next to the one it mutates, marked `mutant`, with which TLC finds the property
violated.

Four configurations beside these runs show, each by the violation of one property, other departures
of the code from what its docs and tests say:

* `revision_diff_rebased.cfg` (MCPipeline, `ReplyIsTheDiff`). papers/diff.py:3-6 promises a diff by "claim-matching rules that
  survive the per-version `claim_id` rebase"; submit_paper hands it the CIR from before the rebase (submissions/router.py:231),
  so that the reply to a paper sent again unchanged calls a claim modified that GET /papers/{id}/diff calls unchanged.
* `pipeline_unstepped.cfg` (MCPipeline, `EmptyIndicesFiltered`). parser/sidecar.py:68-71 says of markers with an empty index that
  they "are filtered before pairing with source environments"; nothing filters them (sidecar.py:250-254, build.py:247-270),
  and two claims without labels get one id (`ClaimId`).
* `pipeline_unresolved.cfg` (MCPipeline, `LocExact`). tests/test_meaty_claims.py:140-143 says that a line is "exact (no off-by-one
  even when flatten-tex couldn't resolve an \input)". The parser replaces such a directive by a comment 24 characters longer,
  and a newline (tex.py:662); the offset of a claim behind it is taken in that text and looked up in the file as it is on
  disk (build.py:1302), so that a claim that begins a line shorter than the difference is placed on a later one.
* `catalogue_search_stored.cfg` (MCCatalogue, `SearchShowsStatus`). replication.py:3 says that "on every read path the server
  recomputes the status"; GET /search/claims (search/router.py:221-236) answers with the stored one.

Other departures the models contain and no run is spent on:

* `Cached` compares no bodies (`body_sha256` is stored as `""`, router.py:331), so a key
  that comes again with another body is answered with the first reply, where the
  client documents a 409 (`client/errors.py:47`).
* `CreatedBy`: an ORCID author's summary note is attributed to agent `unknown`
  (submissions/router.py:366-373 reads `identity.orcid`; the field is `orcid_id`).
* `IsNextSlug` past the five-digit limit mints one slug for all papers of the month.
* Two revisions of one version fork its lineage (submit_paper accepts any stored
  `previous_version`), and GET /papers lists both heads; papers/router.py:107
  says "the lineage forms a chain". `AckedIsDurable` speaks of claims of lineages with one head.
* A first boot that dies while seeding is not seeded by the next: entrypoint.sh
  tests for the file (`Start`), src/Dockerfile:5 says "if it's empty".
* `OpenFile` mints a new slug for a slugless file each time it is loaded, so a
  plain seed-store run leaves the claims of the old slug behind.
* With `Overlap = TRUE` `HandleTaken` fails: two enrollments can both find a
  handle free, and the second replaces the key of the first.
* Between `Issue` and `Revoke` of a refresh both tokens are good, and a crash
  there leaves both; `SessionKept` is what the order of the two writes does buy.
* Anyone may retract a claim: annotations/payloads.py:167 says "author-only ... the
  server enforces", replication.py:7 "by the paper's author"; neither the router nor
  `Retracted` asks who posts.
* `FromReplications` honours the authored status whenever no replication stands, also
  when comments or lifted retractions exist; replication.py:189 says "only when no
  annotations exist".
* `Superseded` and `Lifted` take annotations of any time; their docstrings say "later".
* `PaperIdOfTarget` cuts at the first colon, so that all targets keyed by slug share one
  prefix and pass rule 2 of threads.py, while a reply about a paper to an
  annotation on one of that paper's own claims is refused.
* pulse.py:232 and claims/router.py:287 (neighborhood) count the stored status, where
  replication.py:3 says "On every read path the server recomputes the status".
* An annotation's idempotency key used again for a submission answers the submission
  with the annotation (`Known` in `Submit`); the other way round it is a 409.
* Two papers can have one slug when a seeder runs beside live submissions: both mint from what
  they read. cir_schema.py:38 says "unique per server instance"; `SlugsUnique` holds under `Quiesced`.
* With `Disciplined = FALSE` `OnlyOwnSlot` and `LogoutClears` fail: two commands that save
  the file together lose a row, bring back a deleted one, or leave a torn file. credentials.py:331
  says "best-effort locking only"; there is no lock.
* `rrxiv logout` is to "clear stored credentials" (login.py:9). With a keyring it leaves the keys of ORCID iDs
  that were logged in earlier, and agent keys whose process died before the index
  was written; `LogoutClears` says what it does clear.
* keys_revoke looks at the stored key and deletes it in two steps: a key that bind-key
  stores in between is deleted in its place. Commands on one slot do not overlap in signed_writes.
* A `login agent` killed before store_agent_key leaves a handle enrolled whose key nobody has.
* The server takes writes of an ORCID iD with a bearer alone also when keys are bound (`Receive`,
  `AcceptedWasGood`), where cli/auth.py:12 says "a stolen bearer alone can no longer forge a write".
* signature_middleware.py:16 says "For non-agent identities ... the middleware is a no-op"; it
  verifies whatever is signed.
* A snapshot's counts (`Manifest`) are taken after its tarball, and can exceed it.
* After a reseed whose claims a community revision had taken over, the seed's row is loaded anew and
  its claims are the first version's again, under a lineage whose head is the revision (`reseed_seed_revised`).
* derive_replication_status lists the annotations once for those about the claim and again in
  each `_is_superseded` and `_is_lifted`: a second retraction that supersedes the first and is stored between
  the two is missed by one and hides the first in the other, so that a claim that was retracted
  all along is answered as untested (payloads.py:169 says a retraction "overrides"). `StatusWasTrue` allows
  such an answer for the time a correction, or a paper that moves the quorum, arrives in, and for no other.
* A pulse computed after a submission's add_paper and before its add_claim calls is cached under
  the counts of the whole submission; stats/cache.py:9 says "never stale data". `PulseBounded` bounds it by the time to live.
* `submit` attaches signatures for agents only (cli/submit.py:229), where cli/auth.py:9 says that a
  submission as an ORCID iD with a bound key is signed (`Pairs`).

Of the parser:

* An `\input` in a comment is inlined (`Input.off`); an `fig/` input is left for the figures and
  then not taken for one (`ClaimFigures`).
* The source map is read from tex_path without its inputs resolved, so that of a paper of
  several files that was not flattened, and of main.tex after an inlined region, the lines are those of another
  text; regions inside regions are not subtracted. A directive the parser replaces, by a file or by a comment
  longer than itself, shifts every offset behind it (`pipeline_unresolved`). `LocTrue` says where lines are true.
* Semantic environments inside others are not walked, but have markers (`wrapped`).
* inline bibliographies are looked for in main.tex only (`InlineKeys`).
* An unlabelled proof goes to the claim before it and no further (`PairClaimsWithEvidence`), where the
  docstring (build.py:87) says the most recently opened unpaired claim before it.
* Colon-joined edges (v0.1) are cut in the middle, right only if both ends have as many segments.
* The label of a section is any label in the twelve nodes after it.
* Duplicate labels give duplicate ids, which the diff's second pass can lose (`MatchClaims`, `LabelsUnique`); so does a label
  `claim:2` beside the second claim, if that has none (`ClaimId`).
* Lines outside inlined regions are the flattened file's own (source_map.py:225), which the marks have shifted.

Of diff, ids and graph:

* `CanonicaliseClaimIds` takes what stands before the first colon as the paper's prefix, so that with
  `\rrxivid{rrxiv:2605.00004}` edges to other papers are rewritten too; claim_ids.py:33
  says "Only the OWN-paper prefix is rewritten".
* `ClaimLocalId` cuts at the first colon, inside a slug: two stored versions of one paper still match, since they share it.
* find_cycles does not list all simple cycles, as its docstring says; one through each is found (`CyclesFound`).

Of client and limit:

* A 429 says to come back in a second, while the window is sixty, and what is refused counts: a
  client that does as told may be refused until its budget is spent.
* With retry_on_5xx a 5xx between the row and its key stores the row twice (`Fail`).
* Jitter can exceed backoff_max by a quarter. client.py's docstring says "No automatic retries"; the default policy retries.
* optional_identity is used by no route: reads are not limited (deps.py:150).

Of the views:

* A posted erratum with `retracted` never makes a slugged paper retracted: it names the machine id, compute_stats looks
  for the slug; a paper_retraction is ignored (`Stats`).
* pulse.py looks for author fields no author has (`PaperAuthorIdentities`), so that authors' own annotations count as third-party.
* Paper rows have no created_by, so that who only submits is never an active author.
* GET /stats leaves partial and contradicted papers out of by_status; its agent-authored papers are author entries.
* `top_papers` loses places to papers that are gone; `TopViewed` does not.
* Search's `sort` has no effect: paginate sorts by date.
* Edges from a paper to its own `prop:` labels count as crossing papers in pulse.

### Bounds

Submissions: two UUIDs and one id from a file, three uploads, two claim labels,
one token, one key, counters to three. Three stored papers suffice for a root, a
revision and a fork or a cycle; two labels for a claim that a revision drops; one
key, or none, for a request sent again with the same or another body.

Sessions: two threads are enough for every race between two store calls; three
tokens let a session be refreshed twice, or a code be exchanged twice while
another request runs; a code and a token live one tick, and in sessions_careful the clock
stops after two, so that codes and tokens can expire while they are being used and every
comparison with the clock is taken on its boundary. sessions_progress has no challenge: a captcha that is
refused burns one, which then buys nothing. `TokensLeft` is the bound on
requests: none starts that could find no unminted token, so that `Issue`
never blocks for want of one. Threads, tokens and keys are interchangeable and
the runs without liveness use that symmetry.

Reseed: two files, one with blobs and a slug, one with neither; two claim labels;
two runs after the first boot, so that a run can follow one that died, with and
without --preserve-community; one or two community papers before, between and
after, each new or a revision of a seed or of the other. `Quiesced` is an operator's discipline: submissions wait for a whole run
and runs start between submissions.
Without it two papers can have one slug, and one's claims then replace the other's.

Discourse: a seeded paper and one to submit, with a claim each; five posts (a
replication with a minted id, a retraction, its lift, a retraction that supersedes
it, a post on the new claim) and two batches whose second item depends on the
first; three requests, so that a post, its correction and a submission can meet one read.
Two reads of one kind: two pulses share the cache; one snapshot, of which a second would
only replace the manifest; reads of different kinds share nothing they write. A page holds one row, a pulse
lives one tick.

Signed writes: two processes, one ORCID iD, one agent handle, both backends. Three commands
are a login, a binding and a logout or revocation, or two that overlap after one that died; three
secrets are a bearer, its bound key and another, or an agent's token, key and next
key. One write at a time: writes share nothing but the tables they read. `Disciplined` lets commands
overlap with a keyring when they are about different slots (they still share the
index file), and not at all with a file.

Pipeline: any three of twelve constructs in any order; any claim followed by claims and proofs with the
same, another or no name; every graph on three claims; four papers of up to three files, each
flattened and not; odd ones; three layers of author records that add to, repeat and contradict each other. One edit and two
versions make a revision; the edit comes after the first parse, because an earlier one only makes another source.

Retries: two calls and their retries exceed the limits of one write and one read in a window of one
second; two retries and a budget below what they may ask for, so that each way out of the loop is taken.

Catalogue: a paper, its revision with another claim and topic, records of days 0, 3, 52 and 59, so that
the eight weeks' cutoff falls inside a week that counts, a view on either side of a reset; one ORCID iD excluded from the statistics; an identity's key,
code and two redemptions. A behaviour has requests of one half only, because the two share no table. Each request comes once.

Runs set `CHECK_DEADLOCK FALSE`: ids, tokens and the clock run out, and then the
system legitimately stops.

### Fairness

`Reseed` assumes weak fairness of `Seed` (the seeder is a loop that waits for
nobody) and of `Start` (the platform restarts the container), and none of `Die`.

`Sessions` assumes weak fairness of each thread's `Work`: the threadpool runs
each started request to its end. Nothing is assumed of clients, of the clock, or of
crashes. The progress properties are checked without crashes because with one
they do not hold: a code marked consumed whose request died is burned, and a
handle stored without its first token is taken for good (it cannot be enrolled again, and
rotation needs a token). These two are hazards of the code's order of writes.

`Retries` assumes weak fairness of the clock, of each client's loop (it runs in its caller's thread)
and of the server's answer to a request; none of proxies' or handlers' failures in particular, and none of new calls. A
request that is never answered is `Lose`, httpx's timeout.

## Proofs

All for any number of papers, claims, keys, clients, threads, tokens, codes, processes and files.
Each theorem's comment says what it means; `PROJECT.json` lists the theorems. A theorem that
needs a discipline of the environment names it in its ASSUME: `Disciplined` clients or users,
requests that do not overlap (`~Overlap`), `Quiesced` submissions. The runs that violate
something (submissions_reused_cir_id, sessions_code_race) show two of these to be needed.

| module | theorems | the inductive invariant behind them |
|---|---|---|
| `SubmissionsProofs` | `TypeCorrect`, `ReplyAgreement`, `OneWrite`, of any client | a reply under a key is the key's entry (`KeyInv`); a row written under a key is that of the entry, or of the one submission under way, which found none (`WriteInv`) |
| | `Immutability`, `Acyclicity`, `LineageRefinement`, `MonthOfPapers`, `Disciplined` | the job fits the rows it found (`LineageInv`); its new slug is still the next one when its row is added (`FreshInv`) |
| | `Durability`, `Disciplined` | what is written so far is the job's own (`JobInv`), what an entry or a reply names is complete (`RecordedInv`) |
| `SessionsProofs` | `TypeCorrect`, `IdentityKept`, of any client | which operation can be at which place (`PlaceInv`); a stored token is the row it was born with, and a refresh acts for the identity of a token that was born (`Lineal`) |
| | `SingleUse`, `VoucherRefinement`, `~Overlap` | an exchange is alone with its code, nothing was bought before it issues, and from `Consume` on the code is marked (`CodeInv`) |
| | `RefreshSafe`, `~Overlap` | the old token is no other refresh's to revoke, the new one in nobody's hands before the answer (`RefreshInv`) |
| | `HandleRefused`, `~Overlap` | an enrollment finds its handle free until it adds the row; whoever acts for a handle finds it enrolled (`HandleInv`) |
| `RetriesProofs` | `WithinRpm`, of any clients | in every second of the window no more was let through than was counted (`Windows`) |
| | `TruthfulCalls`, by its property where retry_on_5xx is off | what a call's place says of its row (`TellInv`) |
| `SignedProofs` | `KeysAreBound`, of any commands | every row fits what the server knows, wherever it is: in the keyring, the file, a torn or temporary copy, a command's memory, or its steps still to do (`HoldInv`) |
| | `StoredWasGood`, of any requests | a request was checked against what can only have got worse (`ReqInv`): no key becomes good again |
| | `LogoutLeavesNothing`, `NothingComesBack`, `Disciplined` | commands under way have slots of their own, copies of the file are exact, and a logout's steps still to do cover what is left to delete (`CarefulInv`) |
| `DiscourseProofs` | `TypeCorrect`, `KeysAgree`, `ReadersOnlyRead`, of any client | whoever writes an idempotency entry found none, and no request ran in between (`KeysInv`) |
| | `ThreadRefinement`, `BatchTruth`, `StatusesMonotone`, `Disciplined` | every stored row is one that would still be accepted, a bulk request knows what became of its items (`CarefulInv`), and so every step `Grows` the tables; one more annotation adds at most one to the counts of a claim's status, whatever its quorum, and one that corrects none changes no other's standing |
| | `PulsesBounded`, `SnapshotsWhole`, of any client | every step adds rows and removes none (`Adds`), so that counts grow; the cache counts what there was when its entry was made (`PulseInv`); every claim has its CIR, every reply its parent (`HomeInv`), and a snapshot lists in an order that keeps it so (`SnapshotInv`) |
| | `WalksWhole`, `Disciplined` | the cursor separates what was shown from what is owed (`PageInv`) |
| | `StatusesTrue`, `Disciplined` | while no correction is stored, the later lists answer for the rows of the first as those rows alone would (`Asks`, `StatusInv`) |
| `CatalogueProofs` | `PrimaryKeys`, `StoreRefinement`, of any requests, threads and crashes | no table has two rows of one key; stored rows are rows that requests brought; a code in a thread's hands between consume's two statements is still in its table, and one about to be stored is in none (`StoreInv`) |
| | `CorpusViewsAgree` | none beyond the keys: views of one corpus agree because each derives the same index sets of it (`ViewedInv` adds that a viewed claim is stored, because the seeder runs alone) |
| | `PulseAlwaysAddsUp` | the same: what the sections of a pulse count are partitions of the same rows, summed along different ways |
| `PipelineProofs` | `EvidenceGoesToItsClaim`, `EdgesReachTheServer`, of any papers | the CIR is what build_cir makes of some source and of the sidecar of some source, which need not be the same; a stored version is a CIR under a slug of two segments (`IInv`) |
| | `ClaimIdsDistinct`, `DiffTellsTheTruth`, with `NumeralsApart`, of sidecars whose claim markers carry numbers | the same |
| | `CyclesAreFound` | none of the steps; of find_cycles: its stack is a path, what it reports are rings, and while it has reported none, what is done is closed under edges and holds no cycle (`Sound`, `Settled`) |
| | `AuthorsAreMerged` | none of the steps; of the folds of build_authors: one author to a name, each field what the last record with it says (`Overlaid`), and each takes one rrxiv-meta record of its name (`IsPick`) |
| | `LocationsAreTrue` | none of the steps; reading along a flattened text one is, at each line, at a line of one file (`Moves`, composed along the text by `Leads`), and the scan of its marks keeps, up to each line, its regions apart and the lines of each counted (`ScanFits`); where the parser has replaced nothing the parsed text begins as the file does (`BodyBegins`), so that an offset in the one is found on the same line of the other (`OffsetIs`, `LocateThere`) |
| `ReseedProofs` | `SeedsServed`, `SlugsApart`, `CommunityStays`, `Disciplined` and `Quiesced` | seeder and submissions take turns (`PhaseInv`); a seed shares its slug with its own revisions only, a slug named in a file is that file's (`ApartInv`); files before the one being loaded are complete, their claims unless revised (`LoadedInv`) |

Other assumptions, and why the code justifies them:

* `[]MonthFits` (`LineageRefinement`, the theorems of `ReseedProofs`): no stored counter is past the five
  digits of SLUG_PATTERN. Past it mint_slug repeats itself (the departure listed above), and the
  statements are false. For submissions alone `MonthOfPapers` derives it from the number of ids, since
  minted counters leave no gaps; seed files may name any counter.
* `SeedsOrderly` (`ReseedProofs`): the seed files have different ids and slugs, those without a slug come last, and
  a predecessor one of them names is no paper a submission is stored as. The
  eight files of `src/seed/` all name a slug, and the one that names a predecessor (reproducibility-budgets) names one that
  nothing stores. Without the order a slugless file could be minted
  the very slug that a later file names; with a predecessor among the submissions two lineages could meet.
* `FiniteSeed` (`DiscourseProofs`): the reads count rows, so the corpus they start from is finite.
* `RequestsAssumption` (`Catalogue`): the requests are finitely many, and no two store the same code:
  codes come from `secrets.token_urlsafe`. A code stored twice would be revived by INSERT OR REPLACE.
* `RowsAssumption` (`Catalogue`): a revision has the slug of what it revises (submissions/router.py:183-186),
  `previous_version` chains are no rings (a new id is minted for each), a claim's id is its paper's slug
  or id and a label, and an identity is a kind and a name.

* `SourcesAssumption`, `WordsAssumption` (`Pipeline`): a source is a finite set of files with a main.tex, whose
  lines are the constructs of `Line`; a slug has two segments (papers/slug.py); authors and records are sequences,
  and a sidecar's author record has no empty name (sidecar.py:214). The words the parser
  writes into ids are strings, which the prover does not know of literals.
* `NumeralsApart` (`PipelineProofs`): two numbers are not written alike. `Numeral` is TLC's ToString, which has no
  definition to prove that from.

How some of them go. In `Durability`, that a slug has a head follows from acyclicity and counting
(`HeadExists`), and that the page of versions reaches the root from the walk's length: a walk
that is not cut short visits as many papers as there are ids. Sums over a window, walks and smallest
keys are reasoned about by their least counterexample, with WellFoundedInduction's fact that
< on Nat is well-founded, where an induction theorem would take an operator as a parameter. In
`ReseedProofs` the two halves support each other: a slugless paper gets a new slug only because the files
before it, which `LoadedInv` says are stored, hold the slugs they name; and a loaded file stays complete only because
`ApartInv` says no other paper but a revision of it, of which `Complete` knows, writes claims under its slug.

In `CatalogueProofs` a list that is served in rowid order is reasoned about by its set of rows, once
for every filter (`Views` derives index sets and cuts them to lists last). Folds and sums are given closed
forms: a leaderboard is what `Rank` of its rows says, a sum over all weeks is the number of rows with a
week, and the newcomers of a week are those whose least row falls in it.

In `PipelineProofs` the work is in the functions, not in the steps. What a recursive function
computes is characterised once, by a least counterexample (`Recursion`, `Chain`): an inlined text is made of
lines of the files, and the sidecar's markers are those of the lines LaTeX sets. Then: labels and
numbers give different ids because a number is never a label's last segment where labels are unique; what is paired with a
claim is the first free evidence, and free evidence of its name stays free until its turn; the resolver, the
declared ids and the rewrite to the slug each keep apart what the author named apart, so that an edge's two ends
meet the same two records; the diff's pairs are one to one because a local id, and then a statement,
is paired only where it is single on both sides. The search for cycles calls itself on functions that exist because each call leaves
fewer nodes unvisited and gives back the stack it was called with (`RecursionAmong`). Of the authors, each fold keeps one
author to a name: after the records (`Overlaid`) each field is what the last record that gives it says, and then every author takes the one
record of rrxiv-meta.json of its name that is left (`IsPick`). A claim's location is counted back from the marks of the flattened
text: where no included file includes another, the line is as far below its file's opening mark as there are lines that are not marks,
and it is that line of the parsed text as long as no directive stands before it.

Places where a proof attempt corrected the model's statement of a property. Of `Pipeline`: `IdsUnique` and `DiffTruthful`
except a label that looks like the number of an unlabelled claim, `claim:2` (build.py:47-55 gives both one
id); `EdgesLand` and `DiffTruthful` speak of sources in which no file is inlined from a comment, because the walker
then meets environments LaTeX never sets; `LocTrue` had not excepted a flattened main file, whose marks
shift its lines, nor what stands behind a directive, whose replacement shifts its offset; `IdsUnique` needs markers with
numbers (`pipeline_unstepped` shows what happens without); `DiffTruthful` excepts an author's id that is just `rrxiv`, whose ids look moved to the slug
before they are. The instance of `pipeline` got sources of each kind. `SnapshotWhole`
speaks of annotations on claims, and not of those on papers: after a crash between
add_paper and add_cir a stored paper has no CIR, can be annotated, and a snapshot then holds
the annotation alone. `StatusWasTrue` excepts reads during which a
paper that moves the claim's quorum is stored, not only those that met a correction: the quorum
is read last (replication.py:240), a revision can change the topics it comes from, and the replications counted
against it were listed before. `SearchAgrees` had compared pages that differ for an agent that also has
an ORCID iD (a search finds it by both, its profile is the handle's), and for a model asked for by its family where records pin a
version. `CommunityIntact` had spoken of all claims of community papers, which is `OtherPapersIntact` and false. `ClaimAgrees` had the neighborhood's dependents equal to list_top_claims's, which counts a
dependency twice that is listed twice (claims/router.py). `TotalsAgree` had not said that an excluded identity is
counted by GET /stats and not by the pulse, nor that two heads of a forked lineage share the
key under which their claims are found. The instance of `catalogue` then got an excluded identity, which it had lacked.

Only model-checked: every liveness property (`NothingHalfDone`, `BootSeeds` and the others: fairness and ENABLED
are beyond the prover).

## Plan

1. The listings of several servers in one credentials file; the archive reader of GET /papers/{id}/source.

## Not modelled, and why

HTML templates, error wording, metrics, logging, the OpenAPI dump, the search
ranking and the command-line output are formatting. The LaTeX tokenizer, the prose cleaner and BibTeX
are text processing below the constructs the parser's rules are about. Test doubles are for the tests. ORCID, hCaptcha and the file
system are environment: their answers are choices. Generated model classes are
the types of the rows.
