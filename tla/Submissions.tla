------------------------------ MODULE Submissions ------------------------------
(***************************************************************************)
(* POST /submissions of the reference server and the corpus tables it      *)
(* writes: src/src/rrxiv/server/submissions/router.py over the Store.      *)
(*                                                                         *)
(* submit_paper is an async handler with no await between its first read   *)
(* of the store and its last write, so one submission at a time is between *)
(* those points (`job') and its validation is one step.  Each write is a   *)
(* commit of its own (sqlite.py), so every prefix of the writes can be     *)
(* seen by a reader thread, and is what remains after a crash.             *)
(*                                                                         *)
(* Slugs rrxiv:YYMM.NNNNN are their counter NNNNN: one month is modelled.  *)
(* A paper row, its CIR and its blobs carry the upload they came from in   *)
(* place of their text.                                                    *)
(***************************************************************************)
EXTENDS Integers, FiniteSets, Sequences

CONSTANTS
  Uuids,       \* machine ids the server can mint (uuid7)
  FileIds,     \* ids authors write in their CIR files ("main", ...)
  Uploads,     \* what a client can upload: see Upload
  Labels,      \* local claim labels ("claim:c1", ...)
  Tokens,      \* bearer tokens of named identities
  AgentTokens, \* those of them whose identity is an agent, not an ORCID iD
  Keys,        \* Idempotency-Key values
  SlugLimit,   \* the largest counter SLUG_PATTERN matches (99999)
  Disciplined, \* TRUE: clients submit only what Discipline allows
  MayCrash,    \* TRUE: the process can die between two writes
  None         \* an absent row, header or field

Ids == Uuids \cup FileIds
Slugs == 1 .. SlugLimit + 1

\* The CIR file with the parts uploaded next to it. `doc' tells apart files
\* that agree on every other field.
Upload == [doc : STRING, id : Ids \cup {None}, id_slug : Slugs \cup {None},
           previous_version : Ids \cup {None}, labels : SUBSET Labels,
           pdf : BOOLEAN, summary : BOOLEAN, submitted_at : Nat]

PaperRow == [id_slug : Slugs, previous_version : Ids \cup {None},
             upload : Uploads]
Response == [paper_id : Ids, id_slug : Slugs]

ASSUME ConstantsAssumption ==
  /\ IsFiniteSet(Ids) /\ Uuids \cap FileIds = {}
  /\ SlugLimit \in Nat \ {0}
  /\ Uploads \subseteq Upload
  /\ \A up \in Uploads : up.id_slug # None => up.id_slug <= SlugLimit
  /\ AgentTokens \subseteq Tokens
  /\ {Disciplined, MayCrash} \subseteq BOOLEAN
  /\ None \notin Ids /\ None \notin Keys /\ None \notin Slugs /\ None \notin Uploads
  /\ None \notin PaperRow /\ None \notin Response
  /\ None \notin [id_slug : Slugs, previous_version : Ids \cup {None}]
  /\ "unknown" \notin Tokens

VARIABLES
  papers,    \* paper rows by machine id
  cirs,      \* full CIRs by machine id
  sources,   \* source bundles by machine id
  pdfs,      \* rendered PDFs by machine id
  claims,    \* claim rows by (slug, local label)
  notes,     \* synthesised revision_summary annotations
  idem,      \* idempotency entries by (token, key)
  minted,    \* UUIDs the server has handed out
  pc, job,   \* the submission being persisted: next write, and its locals
  writes,    \* history: which keyed request wrote which paper row, since the start
  replies    \* history: the 201 responses clients have received

tables == <<papers, cirs, sources, pdfs, claims, notes, idem>>
vars == <<tables, minted, pc, job, writes, replies>>

Request == [token : Tokens, key : Keys \cup {None}, upload : Uploads,
            previous_version : Ids \cup {None}]
Job == [req : Request, paper_id : Ids, row : PaperRow, todo : SUBSET Labels]
Write == [token : Tokens, key : Keys, paper_id : Ids]
Reply == [token : Tokens, key : Keys \cup {None}, upload : Uploads,
          response : Response]
Note == [target_id : Ids, previous_version_id : Ids,
         created_by : Tokens \cup {"unknown"}, submitter : Tokens]
Stages == {"source", "pdf", "paper", "cir", "claims", "note", "remember", "reply"}

TypeOK ==
  /\ papers \in [Ids -> PaperRow \cup {None}]
  /\ cirs \in [Ids -> PaperRow \cup {None}]
  /\ sources \in [Ids -> Uploads \cup {None}]
  /\ pdfs \in [Ids -> Uploads \cup {None}]
  /\ claims \in [Slugs \X Labels -> Uploads \cup {None}]
  /\ notes \subseteq Note
  /\ idem \in [Tokens \X Keys -> Response \cup {None}]
  /\ minted \subseteq Uuids
  /\ \/ pc = "idle" /\ job = None
     \/ pc \in Stages /\ job \in Job
  /\ writes \subseteq Write
  /\ replies \subseteq Reply

Init ==
  /\ papers = [i \in Ids |-> None]
  /\ cirs = [i \in Ids |-> None]
  /\ sources = [i \in Ids |-> None]
  /\ pdfs = [i \in Ids |-> None]
  /\ claims = [c \in Slugs \X Labels |-> None]
  /\ notes = {}
  /\ idem = [k \in Tokens \X Keys |-> None]
  /\ minted = {}
  /\ pc = "idle" /\ job = None
  /\ writes = {} /\ replies = {}

-----------------------------------------------------------------------------
(***************************************************************************)
(* Reading the corpus: slug.py, and the head and version rules of the      *)
(* papers and submissions routers.                                         *)
(***************************************************************************)

Stored == {i \in Ids : papers[i] # None}

\* mint_slug: one more than the largest counter that matches SLUG_PATTERN.
Counters == {papers[i].id_slug : i \in Stored} \cap 1 .. SlugLimit
IsTakenSlug(s) == s \in Counters \cup {1} /\ \A n \in Counters : n <= s \* mutant
IsNextSlug(s) == s - 1 \in Counters \cup {0} /\ \A n \in Counters : n < s

Candidates(s) == {i \in Stored : papers[i].id_slug = s}
Superseded(S) == {papers[i].previous_version : i \in S} \ {None}
Heads(s) == Candidates(s) \ Superseded(Candidates(s))

\* GET /papers drops whatever any stored paper supersedes.
Listing == Stored \ Superseded(Stored)

\* find_paper_by_slug: the head, or the newest of several heads, or the newest
\* candidate when there is no head. Ties go to the first row: any of them here.
Newest(S) == {i \in S : \A j \in S :
                papers[j].upload.submitted_at <= papers[i].upload.submitted_at}
SlugLookup(s) == Newest(IF Heads(s) = {} THEN Candidates(s) ELSE Heads(s))

\* GET /papers/{id}/versions, newest first: follow previous_version until it
\* is absent, already visited or not in the store.
Older(chain) ==
  LET prev == papers[chain[Len(chain)]].previous_version
  IN IF prev \in Stored /\ \A k \in DOMAIN chain : chain[k] # prev THEN Append(chain, prev) ELSE chain
Versions(id) ==
  LET walk[n \in 0 .. Cardinality(Ids)] == IF n = 0 THEN <<id>> ELSE Older(walk[n - 1])
  IN walk[Cardinality(Ids)]

-----------------------------------------------------------------------------
(***************************************************************************)
(* What clients send.                                                      *)
(***************************************************************************)

\* The request's key has been answered before.
NeverCached(token, key) == FALSE \* mutant
Cached(token, key) == key # None /\ idem[<<token, key>>] # None

\* A CIR carries a server-minted id only if it was made from a stored paper.
Authored(up) == up.id \in Uuids => up.id \in Stored

\* Careful clients. A new paper names no predecessor and no slug; a revision
\* carries an id that is unused or its predecessor's, unless this very request
\* has stored it before, nothing has revised it since, and it is being sent
\* again; and no slug but its predecessor's. A key is kept for one upload.
Discipline(token, key, up, prev) ==
  /\ prev = None => up.previous_version = None /\ up.id_slug = None
  /\ prev # None => up.id_slug \in {None, papers[prev].id_slug}
  /\ prev # None /\ up.id \in Stored \ {prev} =>
       /\ papers[up.id].upload = up /\ papers[up.id].previous_version = prev
       /\ up.id \notin Superseded(Stored)
  /\ Cached(token, key) => papers[idem[<<token, key>>].paper_id].upload = up

\* Up to the first write: a revision needs a stored predecessor whose CIR still
\* validates, and validation wants a five-digit slug.
Accepted(token, key, up, prev) ==
  /\ Authored(up)
  /\ prev # None => prev \in Stored /\ papers[prev].id_slug <= SlugLimit
  /\ Disciplined => Discipline(token, key, up, prev)

\* ID assignment: a revision keeps the id of its CIR unless that is its
\* predecessor's; everything else gets a fresh UUID.
KeepsAnyId(up, prev) == up.id \notin {None, prev} \* mutant
KeepsCirId(up, prev) == prev # None /\ up.id \notin {None, prev}
AssignedId(up, prev, id) ==
  IF KeepsCirId(up, prev) THEN id = up.id
  ELSE id \in Uuids \ minted /\ (prev = None => id \notin Stored)

\* Slug assignment: the CIR's own, else the predecessor's, else a new one.
AssignedFreshSlug(up, prev, s) == \* mutant
  IF up.id_slug # None THEN s = up.id_slug ELSE IsNextSlug(s)
AssignedSlug(up, prev, s) ==
  CASE up.id_slug # None                -> s = up.id_slug
    [] up.id_slug = None /\ prev # None -> s = papers[prev].id_slug
    [] OTHER                            -> IsNextSlug(s)

-----------------------------------------------------------------------------
(***************************************************************************)
(* submit_paper                                                            *)
(***************************************************************************)

Goto(from, to) == pc = from /\ pc' = to

\* The summary annotation and the idempotency entry are written only when there
\* is one to write.
AfterNoteReply(r) == "reply" \* mutant
AfterNote(r) == IF r.key = None THEN "reply" ELSE "remember"
AfterClaims(r) ==
  IF r.previous_version # None /\ r.upload.summary THEN "note" ELSE AfterNote(r)

Begin(token, key, up, prev) ==
  /\ pc = "idle"
  /\ Accepted(token, key, up, prev)
  /\ ~Cached(token, key)
  /\ \E id \in Ids, s \in Slugs :
       /\ AssignedId(up, prev, id)
       /\ AssignedSlug(up, prev, s)
       /\ minted' = IF KeepsCirId(up, prev) THEN minted ELSE minted \cup {id}
       /\ job' = [req |-> [token |-> token, key |-> key, upload |-> up,
                           previous_version |-> prev],
                  paper_id |-> id,
                  row |-> [id_slug |-> s, upload |-> up,
                           previous_version |->
                             IF prev # None THEN prev ELSE up.previous_version],
                  todo |-> up.labels]
  /\ pc' = "source"
  /\ UNCHANGED <<tables, writes, replies>>

\* A known key answers from the entry, whatever the body is. The id minted on
\* the way is dropped. A dry run likewise leaves no trace.
Replay(token, key, up, prev) ==
  /\ pc = "idle"
  /\ Accepted(token, key, up, prev)
  /\ Cached(token, key)
  /\ replies' = replies \cup
       {[token |-> token, key |-> key, upload |-> up, response |-> idem[<<token, key>>]]}
  /\ UNCHANGED <<tables, minted, pc, job, writes>>

SaveSource ==
  /\ Goto("source", IF job.req.upload.pdf THEN "pdf" ELSE "paper")
  /\ sources' = [sources EXCEPT ![job.paper_id] = job.req.upload]
  /\ UNCHANGED <<papers, cirs, pdfs, claims, notes, idem, minted, job, writes, replies>>

SavePdf ==
  /\ Goto("pdf", "paper")
  /\ pdfs' = [pdfs EXCEPT ![job.paper_id] = job.req.upload]
  /\ UNCHANGED <<papers, cirs, sources, claims, notes, idem, minted, job, writes, replies>>

AddPaper ==
  /\ Goto("paper", "cir")
  /\ papers' = [papers EXCEPT ![job.paper_id] = job.row]
  /\ writes' = IF job.req.key = None THEN writes
               ELSE writes \cup {[token |-> job.req.token, key |-> job.req.key,
                                  paper_id |-> job.paper_id]}
  /\ UNCHANGED <<cirs, sources, pdfs, claims, notes, idem, minted, job, replies>>

AddCir ==
  /\ Goto("cir", "claims")
  /\ cirs' = [cirs EXCEPT ![job.paper_id] = job.row]
  /\ UNCHANGED <<papers, sources, pdfs, claims, notes, idem, minted, job, writes, replies>>

InsertClaim == \* mutant: keeps a claim that is there
  /\ pc = "claims"
  /\ \E l \in job.todo :
       /\ claims' = [claims EXCEPT ![<<job.row.id_slug, l>>] =
                       IF @ = None THEN job.req.upload ELSE @]
       /\ job' = [job EXCEPT !.todo = @ \ {l}]
  /\ UNCHANGED <<papers, cirs, sources, pdfs, notes, idem, minted, pc, writes, replies>>

AddClaim ==
  /\ pc = "claims"
  /\ \E l \in job.todo :
       /\ claims' = [claims EXCEPT ![<<job.row.id_slug, l>>] = job.req.upload]
       /\ job' = [job EXCEPT !.todo = @ \ {l}]
  /\ UNCHANGED <<papers, cirs, sources, pdfs, notes, idem, minted, pc, writes, replies>>

ClaimsDone ==
  /\ Goto("claims", AfterClaims(job.req))
  /\ job.todo = {}
  /\ UNCHANGED <<tables, minted, job, writes, replies>>

\* created_by: the code looks for an attribute `orcid' that OrcidIdentity, whose
\* field is orcid_id, does not have.
CreatedBy(token) == IF token \in AgentTokens THEN token ELSE "unknown"

AddNote ==
  /\ Goto("note", AfterNote(job.req))
  /\ notes' = notes \cup {[target_id |-> job.paper_id,
                           previous_version_id |-> job.req.previous_version,
                           created_by |-> CreatedBy(job.req.token),
                           submitter |-> job.req.token]}
  /\ UNCHANGED <<papers, cirs, sources, pdfs, claims, idem, minted, job, writes, replies>>

ResponseOf(j) == [paper_id |-> j.paper_id, id_slug |-> j.row.id_slug]

AddIdempotency ==
  /\ Goto("remember", "reply")
  /\ idem' = [idem EXCEPT ![<<job.req.token, job.req.key>>] = ResponseOf(job)]
  /\ UNCHANGED <<papers, cirs, sources, pdfs, claims, notes, minted, job, writes, replies>>

RespondTwice == \* mutant: the request is not dropped
  /\ pc = "reply"
  /\ replies' = replies \cup
       {[token |-> job.req.token, key |-> job.req.key, upload |-> job.req.upload,
         response |-> ResponseOf(job)]}
  /\ pc' = "idle" /\ UNCHANGED <<tables, minted, job, writes>>

Respond ==
  /\ pc = "reply"
  /\ replies' = replies \cup
       {[token |-> job.req.token, key |-> job.req.key, upload |-> job.req.upload,
         response |-> ResponseOf(job)]}
  /\ pc' = "idle" /\ job' = None
  /\ UNCHANGED <<tables, minted, writes>>

\* The process dies and is started again on the same database file.
Crash ==
  /\ MayCrash /\ pc # "idle"
  /\ pc' = "idle" /\ job' = None /\ writes' = {}
  /\ UNCHANGED <<tables, minted, replies>>

Persist == \/ SaveSource \/ SavePdf \/ AddPaper \/ AddCir \/ AddClaim \/ ClaimsDone
           \/ AddNote \/ AddIdempotency \/ Respond

Next ==
  \/ \E token \in Tokens, key \in Keys \cup {None}, up \in Uploads,
        prev \in Ids \cup {None} :
       Begin(token, key, up, prev) \/ Replay(token, key, up, prev)
  \/ Persist
  \/ Crash

\* The event loop runs a handler that is not awaiting to its end.
Spec == Init /\ [][Next]_vars /\ WF_vars(Persist)

-----------------------------------------------------------------------------
(***************************************************************************)
(* Properties.                                                             *)
(***************************************************************************)

\* No version is, through previous_version, its own ancestor: in every set of
\* stored papers some paper's predecessor lies outside. With a cycle the whole
\* lineage drops out of GET /papers and the version walk is cut short.
NoCycle ==
  \A S \in (SUBSET Stored) \ {{}} : \E i \in S : papers[i].previous_version \notin S

\* A 201 is sent only for a submission that is completely stored, and stays so
\* through later submissions, crashes and retries; and while it is its slug's
\* only head, the claims served under the slug are its own, not those of a
\* version it replaced. Its slug leads to a paper that is listed, and each page of
\* versions walks back over stored papers of that slug, none twice.
AckedIsDurable ==
  \A r \in replies :
     LET id  == r.response.paper_id
         row == papers[id]
     IN /\ row # None /\ row.id_slug = r.response.id_slug
        /\ cirs[id] = row /\ sources[id] = row.upload
        /\ row.upload.pdf => pdfs[id] = row.upload
        /\ \A l \in row.upload.labels :
             LET claim == claims[<<row.id_slug, l>>]
             IN claim # None /\ (Heads(row.id_slug) = {id} => claim = row.upload)
        /\ SlugLookup(row.id_slug) # {} /\ SlugLookup(row.id_slug) \subseteq Listing
        /\ LET chain == Versions(id) IN
             /\ papers[chain[Len(chain)]].previous_version = None
             /\ \A k \in DOMAIN chain : papers[chain[k]] # None /\ papers[chain[k]].id_slug = row.id_slug
             /\ Cardinality(DOMAIN chain) = Cardinality({chain[k] : k \in DOMAIN chain})
        /\ row.upload.summary /\ row.previous_version # None =>
             \E n \in notes : n.target_id = id

\* Whoever sends a key twice, through crashes and lost replies, is told of one
\* paper only.
RepliesAgree ==
  \A q, r \in replies :
     q.token = r.token /\ q.key = r.key /\ q.key # None
     => q.response = r.response

\* One key, one paper row: a retry that arrives while, or after, the first
\* attempt is stored never stores a second paper. (Through a crash between the
\* paper row and the idempotency entry it does: the history starts anew.)
OneWritePerKey ==
  \A v, w \in writes :
     v.token = w.token /\ v.key = w.key => v.paper_id = w.paper_id

\* A stored version is never changed (cir_schema.py: "Each version is immutable
\* once submitted").
VersionsImmutable == [][\A i \in Stored : papers'[i] = papers[i]]_papers

\* A stored row as a version of a lineage.
Versioned ==
  [i \in Ids |-> IF papers[i] = None THEN None
                 ELSE [id_slug |-> papers[i].id_slug, previous_version |-> papers[i].previous_version]]

\* The stored rows, seen through their slugs and predecessors, evolve as
\* Lineages says: every step of a submission, a retry or a crash publishes a
\* new paper, adds a revision, or changes no row. Needs careful clients and a
\* month with at most SlugLimit papers.
Registry == INSTANCE Lineages WITH versions <- Versioned
ImplementsLineages == Registry!Spec
=============================================================================
