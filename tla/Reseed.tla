-------------------------------- MODULE Reseed --------------------------------
(***************************************************************************)
(* The seeder beside the server: a container's first boot                  *)
(* (docker/entrypoint.sh), `rrxiv seed-store' run by an operator on a live *)
(* instance (cli/seed.py, with and without --preserve-community), and the  *)
(* submissions of module Submissions on the same tables.                   *)
(*                                                                         *)
(* The seeder is another process: it and the server interleave between any *)
(* two commits.                                                            *)
(***************************************************************************)
EXTENDS Submissions

CONSTANTS
  SeedFiles,     \* the CIR files of the seed directory, in the order they are read
  MaxRuns,       \* bound: runs of seed-store after the first boot
  Quiesced       \* TRUE: submissions are taken only after a whole run of the seeder,
                 \* and runs start only while none is being stored

SeedIds == {SeedFiles[n].id : n \in DOMAIN SeedFiles}

ASSUME SeedAssumption ==
  /\ SeedFiles \in Seq(Upload) /\ None \notin SeedIds
  /\ {SeedFiles[n] : n \in DOMAIN SeedFiles} \subseteq Uploads
  /\ SeedIds \cap Uuids = {}
  /\ MaxRuns \in Nat /\ Quiesced \in BOOLEAN

VARIABLES
  db,     \* the database file exists
  boot,   \* the container: off, seeding before uvicorn is started, or up
  spc,    \* the seeder's next commit
  at,     \* the file it is loading
  slug,   \* ... its id_slug
  left,   \* ... and its claims not yet stored
  runs,   \* runs of seed-store so far
  whole   \* history: the last run of the seeder came to its end

seeder == <<db, boot, spc, at, slug, left, runs, whole>>
rvars == <<vars, seeder>>

SeederTypeOK ==
  /\ TypeOK
  /\ db \in BOOLEAN /\ whole \in BOOLEAN
  /\ boot \in {"off", "seeding", "up"}
  /\ spc \in {"idle", "replace", "open", "blobs", "paper", "cir", "claims"}
  /\ at \in 1 .. Len(SeedFiles) + 1
  /\ slug \in Slugs \cup {None}
  /\ left \subseteq Labels
  /\ runs \in 0 .. MaxRuns

SeederInit ==
  /\ Init
  /\ db = FALSE /\ boot = "off"
  /\ spc = "idle" /\ at = 1 /\ slug = None /\ left = {}
  /\ runs = 0 /\ whole = FALSE

File == SeedFiles[at]

-----------------------------------------------------------------------------
(***************************************************************************)
(* The container.                                                          *)
(***************************************************************************)

\* entrypoint.sh seeds when there is no database file, and opening the store
\* creates the file.
Start ==
  /\ boot = "off"
  /\ IF db THEN boot' = "up" /\ UNCHANGED <<db, spc, at, whole>>
     ELSE boot' = "seeding" /\ db' = TRUE /\ spc' = "open" /\ at' = 1 /\ whole' = FALSE
  /\ UNCHANGED <<vars, slug, left, runs>>

\* The container dies: server and seeder with it, the volume stays.
Die ==
  /\ MayCrash /\ boot # "off"
  /\ boot' = "off" /\ spc' = "idle" /\ slug' = None /\ left' = {}
  /\ pc' = "idle" /\ job' = None /\ writes' = {}
  /\ UNCHANGED <<tables, minted, replies, db, at, runs, whole>>

-----------------------------------------------------------------------------
(***************************************************************************)
(* seed-store                                                              *)
(***************************************************************************)

SeedStore(preserve) ==
  /\ boot = "up" /\ spc = "idle" /\ runs < MaxRuns
  /\ Quiesced => pc = "idle"
  /\ runs' = runs + 1 /\ at' = 1 /\ whole' = FALSE
  /\ spc' = IF preserve THEN "replace" ELSE "open"
  /\ UNCHANGED <<vars, db, boot, slug, left>>

\* replace_seed_papers, one transaction: the papers, their CIRs and blobs, and
\* every claim that carries the slug of one of them.
ReplaceAll == \* mutant: clears the corpus
  /\ spc = "replace" /\ spc' = "open"
  /\ papers' = [i \in Ids |-> None]
  /\ cirs' = [i \in Ids |-> None]
  /\ sources' = [i \in Ids |-> None]
  /\ pdfs' = [i \in Ids |-> None]
  /\ claims' = [c \in Slugs \X Labels |-> None]
  /\ UNCHANGED <<notes, idem, minted, pc, job, writes, replies, db, boot, at, slug, left, runs, whole>>

Without(table) == [i \in Ids |-> IF i \in SeedIds THEN None ELSE table[i]]

Replace ==
  /\ spc = "replace" /\ spc' = "open"
  /\ papers' = Without(papers)
  /\ cirs' = Without(cirs)
  /\ sources' = Without(sources)
  /\ pdfs' = Without(pdfs)
  /\ LET owners == {papers[i].id_slug : i \in SeedIds \cap Stored} IN
     claims' = [c \in Slugs \X Labels |-> IF c[1] \in owners THEN None ELSE claims[c]]
  /\ UNCHANGED <<notes, idem, minted, pc, job, writes, replies, db, boot, at, slug, left, runs, whole>>

\* load_cir_into_store reads a file; one without a slug gets the next free one.
OpenNewFile == \* mutant: takes a stored row for a loaded file
  /\ spc = "open" /\ at <= Len(SeedFiles)
  /\ IF File.id \in Stored THEN at' = at + 1 /\ UNCHANGED <<spc, slug, left>>
     ELSE /\ spc' = "blobs" /\ left' = File.labels
          /\ \E s \in Slugs :
               /\ IF File.id_slug # None THEN s = File.id_slug ELSE IsNextSlug(s)
               /\ slug' = s
          /\ UNCHANGED at
  /\ UNCHANGED <<vars, db, boot, runs, whole>>

OpenFile ==
  /\ spc = "open" /\ at <= Len(SeedFiles)
  /\ spc' = "blobs" /\ left' = File.labels
  /\ \E s \in Slugs :
       /\ IF File.id_slug # None THEN s = File.id_slug ELSE IsNextSlug(s)
       /\ slug' = s
  /\ UNCHANGED <<vars, db, boot, at, runs, whole>>

\* A file has its tarball and its PDF next to it, or neither. (Two commits, of
\* tables nothing else here reads in between.)
SeedBlobs ==
  /\ spc = "blobs" /\ spc' = "paper"
  /\ sources' = IF File.pdf THEN [sources EXCEPT ![File.id] = File] ELSE sources
  /\ pdfs' = IF File.pdf THEN [pdfs EXCEPT ![File.id] = File] ELSE pdfs
  /\ UNCHANGED <<papers, cirs, claims, notes, idem, minted, pc, job, writes, replies,
                 db, boot, at, slug, left, runs, whole>>

SeedRow == [id_slug |-> slug, upload |-> File, previous_version |-> File.previous_version]

SeedPaper ==
  /\ spc = "paper" /\ spc' = "cir"
  /\ papers' = [papers EXCEPT ![File.id] = SeedRow]
  /\ UNCHANGED <<cirs, sources, pdfs, claims, notes, idem, minted, pc, job, writes, replies,
                 db, boot, at, slug, left, runs, whole>>

SeedCir ==
  /\ spc = "cir" /\ spc' = "claims"
  /\ cirs' = [cirs EXCEPT ![File.id] = SeedRow]
  /\ UNCHANGED <<papers, sources, pdfs, claims, notes, idem, minted, pc, job, writes, replies,
                 db, boot, at, slug, left, runs, whole>>

SeedClaim ==
  /\ spc = "claims"
  /\ \E l \in left :
       /\ claims' = [claims EXCEPT ![<<slug, l>>] = File]
       /\ left' = left \ {l}
  /\ UNCHANGED <<papers, cirs, sources, pdfs, notes, idem, minted, pc, job, writes, replies,
                 db, boot, spc, at, slug, runs, whole>>

FileLoaded ==
  /\ spc = "claims" /\ left = {}
  /\ spc' = "open" /\ at' = at + 1 /\ slug' = None
  /\ UNCHANGED <<vars, db, boot, left, runs, whole>>

SeedDoneOnly == \* mutant: the entrypoint stops with the seeder
  /\ spc = "open" /\ at > Len(SeedFiles)
  /\ spc' = "idle" /\ whole' = TRUE
  /\ UNCHANGED <<vars, db, boot, at, slug, left, runs>>

\* The seeder exits; the entrypoint goes on to uvicorn.
SeedDone ==
  /\ spc = "open" /\ at > Len(SeedFiles)
  /\ spc' = "idle" /\ whole' = TRUE
  /\ boot' = "up"
  /\ UNCHANGED <<vars, db, at, slug, left, runs>>

Seed == \/ Replace \/ OpenFile \/ SeedBlobs \/ SeedPaper \/ SeedCir
        \/ SeedClaim \/ FileLoaded \/ SeedDone

-----------------------------------------------------------------------------
Community ==
  /\ boot = "up"
  /\ \/ /\ Quiesced => whole
        /\ \E token \in Tokens, key \in Keys \cup {None}, up \in Uploads,
              prev \in Ids \cup {None} : Begin(token, key, up, prev) \/ Replay(token, key, up, prev)
     \/ Persist
  /\ UNCHANGED seeder

SeederNext == Start \/ Die \/ (\E preserve \in BOOLEAN : SeedStore(preserve)) \/ Seed \/ Community

SeederSpec == SeederInit /\ [][SeederNext]_rvars /\ WF_rvars(Seed) /\ WF_rvars(Start)

-----------------------------------------------------------------------------
(***************************************************************************)
(* Properties.                                                             *)
(***************************************************************************)

Unrevised(i) == i \notin Superseded(Stored)

\* However earlier runs of the seeder ended, and whatever was submitted since,
\* once a run has come to its end every seed paper is served complete, as its
\* file has it (seed.py: "Idempotent on rebuild"); its claims are, unless somebody
\* has revised it.
SeedsWhole ==
  whole => \A n \in DOMAIN SeedFiles :
    LET f == SeedFiles[n]
        row == papers[f.id]
    IN /\ row # None /\ row.upload = f /\ cirs[f.id] = row
       /\ f.pdf => sources[f.id] = f /\ pdfs[f.id] = f
       /\ Unrevised(f.id) => \A l \in f.labels : claims[<<row.id_slug, l>>] = f

RowsStay(i) ==
  /\ papers'[i] = papers[i] /\ cirs'[i] = cirs[i]
  /\ sources'[i] = sources[i] /\ pdfs'[i] = pdfs[i]
ClaimsStay(i) ==
  \A l \in Labels : claims'[<<papers[i].id_slug, l>>] = claims[<<papers[i].id_slug, l>>]
SeedSlugs == {papers[j].id_slug : j \in SeedIds \cap Stored}

\* What --preserve-community does leave intact: no step of the seeder touches a row of
\* a paper that is not a seed, a revision of a seed included, nor the claims served
\* under its slug, unless a seed has that slug.
CommunityIntact ==
  [][Seed => \A i \in Stored \ SeedIds :
       RowsStay(i) /\ (papers[i].id_slug \notin SeedSlugs => ClaimsStay(i))]_rvars

\* What it says it leaves: "every OTHER paper and ALL annotations intact"
\* (store/protocol.py:235), and a paper's claims are part of it.
OtherPapersIntact ==
  [][Seed => \A i \in Stored \ SeedIds : RowsStay(i) /\ ClaimsStay(i)]_rvars

\* cir_schema.py: a slug is "unique per server instance": no two first versions
\* share one, seeds included.
SlugsUnique ==
  \A i, j \in Stored :
     /\ papers[i].previous_version = None /\ papers[j].previous_version = None
     /\ papers[i].id_slug = papers[j].id_slug /\ papers[i].id_slug <= SlugLimit
     => i = j

\* A first boot ends with the seeds served, unless the container dies.
BootSeeds == boot = "seeding" ~> (boot = "off" \/ (boot = "up" /\ whole))
=============================================================================
