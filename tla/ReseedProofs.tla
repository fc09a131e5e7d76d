------------------------------- MODULE ReseedProofs -------------------------------
(***************************************************************************)
(* Proofs about the seeder beside the server: with quiesced submissions    *)
(* and careful clients, whatever files it is given (SeedsOrderly) and      *)
(* wherever it or the container dies.                                      *)
(***************************************************************************)
EXTENDS Reseed, SubmissionsProofs

\* Ids under which a submission can be stored.
Known == (Uuids \cup {up.id : up \in Uploads}) \ {None}

\* The files name different papers and different slugs, and those that leave the
\* slug to the server come last; a predecessor a file names is none a submission is
\* stored as. (The files of seed/ all name a slug, and one an id nothing else has.)
SeedsOrderly ==
  \A m, n \in DOMAIN SeedFiles :
    /\ SeedFiles[m].previous_version \notin Known
    /\ m # n => SeedFiles[m].id # SeedFiles[n].id
    /\ m # n /\ SeedFiles[m].id_slug # None => SeedFiles[m].id_slug # SeedFiles[n].id_slug
    /\ m < n /\ SeedFiles[m].id_slug = None => SeedFiles[n].id_slug = None

Loading == spc \in {"blobs", "paper", "cir", "claims"}

-----------------------------------------------------------------------------
(***************************************************************************)
(* Types, and who may write when.                                          *)
(***************************************************************************)

LEMMA FileFacts ==
  ASSUME NEW n \in DOMAIN SeedFiles
  PROVE  /\ SeedFiles[n] \in Upload /\ SeedFiles[n] \in Uploads
         /\ SeedFiles[n].id \in SeedIds /\ SeedFiles[n].id \in Ids /\ SeedFiles[n].id # None
         /\ SeedFiles[n].id_slug \in Slugs \cup {None}
         /\ SeedFiles[n].id_slug # None => SeedFiles[n].id_slug <= SlugLimit
         /\ SeedFiles[n].previous_version \in Ids \cup {None}
         /\ SeedFiles[n].labels \in SUBSET Labels
<1>1. SeedFiles[n] \in Uploads /\ SeedFiles[n].id \in SeedIds /\ None \notin SeedIds
  BY SeedAssumption DEF SeedIds
<1>2. SeedFiles[n] \in Upload /\ (SeedFiles[n].id_slug # None => SeedFiles[n].id_slug <= SlugLimit)
  BY <1>1, ConstantsAssumption
<1> QED
  BY <1>1, <1>2 DEF Upload

LEMMA SeedIdsNamed ==
  ASSUME NEW i \in SeedIds
  PROVE  i \in Ids /\ \E n \in DOMAIN SeedFiles : SeedFiles[n].id = i
  BY FileFacts DEF SeedIds

\* The seeder and the submissions take turns.
PhaseInv ==
  /\ pc # "idle" => whole /\ spc = "idle" /\ boot = "up"
  /\ spc # "idle" => ~whole
  /\ boot = "off" => spc = "idle" /\ pc = "idle"
  /\ Loading => at \in DOMAIN SeedFiles /\ slug \in Slugs
  /\ spc = "replace" => at = 1

SeederBase == SeederTypeOK /\ StageInv /\ PhaseInv

LEMMA Files == DOMAIN SeedFiles = 1 .. Len(SeedFiles) /\ Len(SeedFiles) \in Nat
  BY SeedAssumption

LEMMA SeederBegins == SeederInit => SeederBase
<1>1. 1 \in 1 .. Len(SeedFiles) + 1 /\ 0 \in 0 .. MaxRuns
  BY Files, SeedAssumption
<1>2. SeederInit => TypeOK /\ StageInv
  BY DEF SeederInit, Init, TypeOK, StageInv
<1>3. SeederInit => pc = "idle"
  BY DEF SeederInit, Init
<1> QED
  BY <1>1, <1>2, <1>3 DEF SeederInit, SeederBase, SeederTypeOK, PhaseInv, Loading

\* The rows a loading step writes.
LEMMA RowType ==
  ASSUME SeederBase, Loading
  PROVE  /\ SeedRow \in PaperRow /\ SeedRow # None /\ File.id \in Ids /\ File \in Uploads
         /\ File.labels \in SUBSET Labels
         /\ SeedRow.id_slug = slug /\ SeedRow.upload = File
<1>1. at \in DOMAIN SeedFiles /\ slug \in Slugs
  BY DEF SeederBase, PhaseInv
<1>2. SeedRow \in PaperRow
  BY <1>1, FileFacts DEF SeedRow, File, PaperRow
<1> QED
  BY <1>1, <1>2, FileFacts, ConstantsAssumption DEF File, SeedRow

LEMMA TablesTyped ==
  ASSUME SeederBase, Seed
  PROVE  TypeOK' /\ StageInv'
<1>1. CASE Replace
  BY <1>1 DEF Replace, Without, SeederBase, SeederTypeOK, TypeOK, StageInv
<1>2. CASE SeedBlobs
  <2>1. Loading
    BY <1>2 DEF SeedBlobs, Loading
  <2> QED
    BY <1>2, <2>1, RowType DEF SeedBlobs, SeederBase, SeederTypeOK, TypeOK, StageInv
<1>3. CASE SeedPaper
  <2>1. Loading
    BY <1>3 DEF SeedPaper, Loading
  <2> QED
    BY <1>3, <2>1, RowType DEF SeedPaper, SeederBase, SeederTypeOK, TypeOK, StageInv
<1>4. CASE SeedCir
  <2>1. Loading
    BY <1>4 DEF SeedCir, Loading
  <2> QED
    BY <1>4, <2>1, RowType DEF SeedCir, SeederBase, SeederTypeOK, TypeOK, StageInv
<1>5. CASE SeedClaim
  <2>1. Loading
    BY <1>5 DEF SeedClaim, Loading
  <2>2. File \in Uploads
    BY <2>1, RowType
  <2>3. PICK l \in left : claims' = [claims EXCEPT ![<<slug, l>>] = File]
    BY <1>5 DEF SeedClaim
  <2>4. claims' \in [Slugs \X Labels -> Uploads \cup {None}]
    BY <2>2, <2>3 DEF SeederBase, SeederTypeOK, TypeOK
  <2> QED
    BY <1>5, <2>4 DEF SeedClaim, SeederBase, SeederTypeOK, TypeOK, StageInv
<1>6. CASE OpenFile \/ FileLoaded \/ SeedDone
  BY <1>6 DEF OpenFile, FileLoaded, SeedDone, vars, tables, SeederBase, SeederTypeOK, TypeOK, StageInv
<1> QED
  BY <1>1, <1>2, <1>3, <1>4, <1>5, <1>6 DEF Seed

LEMMA StartPhase ==
  ASSUME SeederBase, Start
  PROVE  /\ pc' = pc /\ pc = "idle" /\ spc = "idle" /\ UNCHANGED <<slug, left, runs>>
         /\ db' \in BOOLEAN /\ boot' \in {"seeding", "up"} /\ at' \in {1, at} /\ whole' \in BOOLEAN
         /\ spc' # "idle" => spc' = "open" /\ ~whole'
<1>1. pc' = pc /\ pc = "idle" /\ spc = "idle" /\ UNCHANGED <<slug, left, runs>>
  BY DEF Start, vars, SeederBase, PhaseInv
<1>2. CASE db
  <2>1. boot' = "up" /\ UNCHANGED <<db, spc, at, whole>>
    BY <1>2 DEF Start
  <2>2. db' \in BOOLEAN /\ whole' \in BOOLEAN
    BY <2>1 DEF SeederBase, SeederTypeOK
  <2>3. boot' \in {"seeding", "up"} /\ at' \in {1, at} /\ spc' = "idle"
    BY <1>1, <2>1
  <2> QED
    BY <1>1, <2>2, <2>3
<1>3. CASE ~db
  <2>1. boot' = "seeding" /\ db' = TRUE /\ spc' = "open" /\ at' = 1 /\ whole' = FALSE
    BY <1>3 DEF Start
  <2> QED
    BY <1>1, <2>1
<1> QED
  BY <1>2, <1>3

LEMMA SeederKept ==
  ASSUME Quiesced, SeederBase, [SeederNext]_rvars
  PROVE  SeederBase'
<1> USE Files DEF SeederBase, SeederTypeOK, PhaseInv, Loading
<1>7. 1 \in 1 .. Len(SeedFiles) + 1
  OBVIOUS
<1>1. CASE Seed
  <2>1. TypeOK' /\ StageInv' /\ UNCHANGED <<pc, db, runs>>
    BY <1>1, TablesTyped DEF Seed, Replace, OpenFile, SeedBlobs, SeedPaper, SeedCir, SeedClaim,
       FileLoaded, SeedDone, vars
  <2>2. spc # "idle" /\ pc = "idle" /\ ~whole
    BY <1>1 DEF Seed, Replace, OpenFile, SeedBlobs, SeedPaper, SeedCir, SeedClaim, FileLoaded, SeedDone
  <2>3. CASE OpenFile
    <3>1. at \in DOMAIN SeedFiles /\ left' = SeedFiles[at].labels
      BY <2>3 DEF OpenFile, File
    <3>2. left' \subseteq Labels
      BY <3>1, FileFacts
    <3> QED
      BY <2>1, <2>2, <2>3, <3>1, <3>2 DEF OpenFile
  <2>4. CASE SeedClaim
    BY <2>1, <2>2, <2>4 DEF SeedClaim
  <2>5. CASE FileLoaded
    BY <2>1, <2>2, <2>5 DEF FileLoaded
  <2>6. CASE Replace \/ SeedBlobs \/ SeedPaper \/ SeedCir
    <3>1. /\ UNCHANGED <<at, slug, left, boot, whole>>
          /\ spc' \in {"open", "paper", "cir", "claims"}
          /\ spc' # "open" => Loading
      BY <2>6 DEF Replace, SeedBlobs, SeedPaper, SeedCir
    <3> QED
      BY <2>1, <2>2, <3>1
  <2>7. CASE SeedDone
    BY <2>1, <2>2, <2>7 DEF SeedDone
  <2> QED
    BY <1>1, <2>3, <2>4, <2>5, <2>6, <2>7 DEF Seed
<1>2. CASE Community
  <2>1. Next /\ UNCHANGED seeder
    BY <1>2 DEF Community, Next
  <2>2. TypeOK' /\ StageInv'
    BY <2>1, TypesInductive
  <2>3. boot = "up" /\ (pc = "idle" => whole \/ pc' = "idle")
    BY <1>2 DEF Community, Persist, SaveSource, SavePdf, AddPaper, AddCir, AddClaim,
         ClaimsDone, AddNote, AddIdempotency, Respond, Goto
  <2> QED
    BY <2>1, <2>2, <2>3 DEF seeder
<1>3. CASE Start
  <2>1. TypeOK' /\ StageInv'
    BY <1>3 DEF Start, vars, tables, TypeOK, StageInv
  <2>2. /\ pc' = pc /\ pc = "idle" /\ spc = "idle" /\ UNCHANGED <<slug, left, runs>>
        /\ db' \in BOOLEAN /\ boot' \in {"seeding", "up"} /\ at' \in {1, at} /\ whole' \in BOOLEAN
        /\ spc' # "idle" => spc' = "open" /\ ~whole'
    BY <1>3, StartPhase
  <2> QED
    BY <2>1, <2>2, <1>7
<1>4. CASE Die
  BY <1>4 DEF Die, tables, TypeOK, StageInv
<1>5. ASSUME NEW preserve \in BOOLEAN, SeedStore(preserve)
      PROVE  SeederBase'
  <2>1. TypeOK' /\ StageInv'
    BY <1>5 DEF SeedStore, vars, tables, TypeOK, StageInv
  <2>2. /\ pc' = pc /\ pc = "idle" /\ UNCHANGED <<slug, left, db, boot>>
        /\ at' = 1 /\ whole' = FALSE /\ boot = "up" /\ runs' \in 0 .. MaxRuns
        /\ spc' \in {"replace", "open"}
    BY <1>5, SeedAssumption DEF SeedStore, vars
  <2> QED
    BY <2>1, <2>2, <1>7
<1>6. CASE UNCHANGED rvars
  BY <1>6 DEF rvars, seeder, vars, tables, TypeOK, StageInv
<1> QED
  BY <1>1, <1>2, <1>3, <1>4, <1>5, <1>6 DEF SeederNext
-----------------------------------------------------------------------------
(***************************************************************************)
(* Slugs.  A seed shares its slug with revisions only, and a slug a file   *)
(* names belongs to that file's paper and to revisions.                    *)
(***************************************************************************)
Named == {SeedFiles[n].id_slug : n \in DOMAIN SeedFiles} \ {None}

\* A revision that came with a submission.
MayShare(id, row) == id \notin SeedIds /\ row.previous_version # None

OwnSlug(id, row) ==
  /\ \A n \in DOMAIN SeedFiles :
       SeedFiles[n].id = id /\ SeedFiles[n].id_slug # None => row.id_slug = SeedFiles[n].id_slug
  /\ row.id_slug \in Named /\ ~MayShare(id, row) =>
       \E n \in DOMAIN SeedFiles : SeedFiles[n].id = id /\ SeedFiles[n].id_slug = row.id_slug
  /\ id \in SeedIds => row.previous_version \notin Known

RowsApart ==
  \A i, j \in Stored :
    papers[i].id_slug = papers[j].id_slug =>
      i = j \/ MayShare(i, papers[i]) \/ MayShare(j, papers[j])

\* What the minted ids are, and what a row stored over another leaves.
MintedInv ==
  /\ Stored \cap Uuids \subseteq minted
  /\ pc # "idle" =>
       /\ job.paper_id \in Uuids => job.paper_id \in minted
       /\ job.paper_id \in Stored =>
            papers[job.paper_id].previous_version = job.row.previous_version

\* Whoever has the slug of a seed, or one a file names, revises that seed or has an
\* ancestor that does.
Follows(row, i) == row.previous_version = i \/ i \in Superseded(Stored)
SharesInv ==
  /\ \A j \in Stored \ SeedIds :
       /\ \A n \in DOMAIN SeedFiles :
            SeedFiles[n].id_slug = papers[j].id_slug => SeedFiles[n].id \in Superseded(Stored)
       /\ \A i \in SeedIds \cap Stored :
            papers[i].id_slug = papers[j].id_slug => i \in Superseded(Stored)
  /\ Loading =>
       \A j \in Stored \ SeedIds : papers[j].id_slug = slug => File.id \in Superseded(Stored)
  /\ pc # "idle" =>
       /\ \A n \in DOMAIN SeedFiles :
            SeedFiles[n].id_slug = job.row.id_slug => Follows(job.row, SeedFiles[n].id)
       /\ \A i \in SeedIds \cap Stored :
            papers[i].id_slug = job.row.id_slug => Follows(job.row, i)

ApartInv ==
  /\ RowsApart /\ MintedInv /\ SharesInv
  /\ \A i \in Stored : i \in Known /\ OwnSlug(i, papers[i])
  /\ Loading => /\ OwnSlug(File.id, SeedRow)
                /\ \A j \in Stored \ {File.id} : papers[j].id_slug = slug => MayShare(j, papers[j])
  /\ pc # "idle" =>
       /\ job.paper_id \in Known \ SeedIds /\ OwnSlug(job.paper_id, job.row)
       /\ pc \notin {"source", "pdf", "paper"} => papers[job.paper_id] = job.row
  /\ pc \in {"source", "pdf", "paper"} /\ job.row.previous_version = None =>
       \A j \in Stored : papers[j].id_slug # job.row.id_slug

\* A row stored under a slug it may have.
LEMMA StoreApart ==
  ASSUME TypeOK, RowsApart, \A i \in Stored : i \in Known /\ OwnSlug(i, papers[i]),
         NEW id \in Ids, NEW row \in PaperRow, papers' = [papers EXCEPT ![id] = row],
         id \in Known, OwnSlug(id, row),
         \A j \in Stored \ {id} : papers[j].id_slug = row.id_slug => MayShare(id, row) \/ MayShare(j, papers[j])
  PROVE  /\ RowsApart' /\ \A i \in Stored' : i \in Known /\ OwnSlug(i, papers'[i])
         /\ Stored' = Stored \cup {id} /\ papers'[id] = row
<1>1. row # None
  BY ConstantsAssumption
<1>2. \A i \in Ids : papers'[i] = IF i = id THEN row ELSE papers[i]
  BY DEF TypeOK
<1>3. Stored' = Stored \cup {id}
  BY <1>1, <1>2 DEF Stored
<1>4. \A i \in Stored' : i \in Known /\ OwnSlug(i, papers'[i])
  BY <1>2, <1>3 DEF Stored
<1>5. ASSUME NEW i \in Stored', NEW j \in Stored', papers'[i].id_slug = papers'[j].id_slug, i # j
      PROVE  MayShare(i, papers'[i]) \/ MayShare(j, papers'[j])
  <2>1. i \in Ids /\ j \in Ids
    BY DEF Stored
  <2>2. CASE i = id
    BY <1>2, <1>3, <1>5, <2>1, <2>2
  <2>3. CASE j = id
    BY <1>2, <1>3, <1>5, <2>1, <2>3
  <2>4. CASE i # id /\ j # id
    BY <1>2, <1>3, <1>5, <2>1, <2>4 DEF RowsApart
  <2> QED
    BY <2>2, <2>3, <2>4
<1> QED
  BY <1>2, <1>3, <1>4, <1>5 DEF RowsApart

\* A paper that is revised stays so when a row is stored, unless that row was what
\* revised it.
LEMMA StaysRevised ==
  ASSUME TypeOK, NEW id \in Ids, NEW row \in PaperRow, papers' = [papers EXCEPT ![id] = row],
         NEW x \in Superseded(Stored),
         id \in Stored => papers[id].previous_version # x \/ row.previous_version = x
  PROVE  x \in Superseded(Stored)'
<1>1. PICK k \in Stored : papers[k].previous_version = x /\ x # None
  BY DEF Superseded
<1>2. row # None
  BY ConstantsAssumption
<1>3. \A i \in Ids : papers'[i] = IF i = id THEN row ELSE papers[i]
  BY DEF TypeOK
<1>4. k \in Stored' /\ papers'[k].previous_version = x
  BY <1>1, <1>2, <1>3 DEF Stored
<1> QED
  BY <1>1, <1>4 DEF Superseded

LEMMA SharesRest ==
  ASSUME MintedInv, SharesInv, UNCHANGED papers, minted \subseteq minted',
         Loading' => Loading /\ slug' = slug /\ File.id' = File.id,
         pc' = "idle" \/ (pc # "idle" /\ job'.paper_id = job.paper_id /\ job'.row = job.row)
  PROVE  MintedInv' /\ SharesInv'
<1>1. Stored' = Stored /\ Superseded(Stored)' = Superseded(Stored)
  BY DEF Stored, Superseded
<1>2. MintedInv'
  BY <1>1 DEF MintedInv
<1>3. /\ \A j \in Stored' \ SeedIds :
            /\ \A n \in DOMAIN SeedFiles :
                 SeedFiles[n].id_slug = papers'[j].id_slug => SeedFiles[n].id \in Superseded(Stored)'
            /\ \A i \in SeedIds \cap Stored' :
                 papers'[i].id_slug = papers'[j].id_slug => i \in Superseded(Stored)'
      /\ Loading' =>
            \A j \in Stored' \ SeedIds : papers'[j].id_slug = slug' => File.id' \in Superseded(Stored)'
  BY <1>1 DEF SharesInv
<1>4. pc' # "idle" =>
       /\ \A n \in DOMAIN SeedFiles :
            SeedFiles[n].id_slug = job'.row.id_slug => Follows(job.row, SeedFiles[n].id)'
       /\ \A i \in SeedIds \cap Stored' :
            papers'[i].id_slug = job'.row.id_slug => Follows(job.row, i)'
  <2>1. SUFFICES ASSUME pc' # "idle"
                 PROVE  /\ \A n \in DOMAIN SeedFiles :
                            SeedFiles[n].id_slug = job'.row.id_slug => Follows(job.row, SeedFiles[n].id)'
                        /\ \A i \in SeedIds \cap Stored' :
                            papers'[i].id_slug = job'.row.id_slug => Follows(job.row, i)'
    OBVIOUS
  <2>2. \A i : Follows(job.row, i)' <=> Follows(job.row, i)
    BY <1>1, <2>1 DEF Follows
  <2> QED
    BY <1>1, <2>1, <2>2 DEF SharesInv
<1> QED
  BY <1>2, <1>3, <1>4 DEF SharesInv

\* While every stored counter matches SLUG_PATTERN, the next one is new.
LEMMA NextIsNew ==
  ASSUME TypeOK, MonthFits, NEW s \in Slugs, IsNextSlug(s), NEW j \in Stored
  PROVE  papers[j].id_slug # s
<1>1. papers[j].id_slug \in Slugs /\ papers[j].id_slug <= SlugLimit
  BY DEF TypeOK, Stored, MonthFits, PaperRow
<1>2. papers[j].id_slug \in Counters /\ papers[j].id_slug \in Nat /\ s \in Nat
  BY <1>1, ConstantsAssumption DEF Counters, Slugs
<1> QED
  BY <1>2 DEF IsNextSlug

-----------------------------------------------------------------------------
(***************************************************************************)
(* Loaded files.                                                           *)
(***************************************************************************)
Complete(f) ==
  /\ papers[f.id] # None /\ papers[f.id].upload = f /\ cirs[f.id] = papers[f.id]
  /\ f.pdf => sources[f.id] = f /\ pdfs[f.id] = f
  /\ Unrevised(f.id) => \A l \in f.labels : claims[<<papers[f.id].id_slug, l>>] = f

LoadedInv ==
  /\ spc \notin {"idle", "replace"} =>
       \A n \in DOMAIN SeedFiles : n < at => Complete(SeedFiles[n])
  /\ whole => \A n \in DOMAIN SeedFiles : Complete(SeedFiles[n])
  /\ spc \in {"paper", "cir", "claims"} /\ File.pdf =>
       sources[File.id] = File /\ pdfs[File.id] = File
  /\ spc \in {"blobs", "paper", "cir"} => left = File.labels
  /\ spc \in {"cir", "claims"} => papers[File.id] = SeedRow
  /\ spc = "claims" =>
       /\ cirs[File.id] = SeedRow
       /\ \A l \in File.labels \ left : claims[<<slug, l>>] = File

LEMMA CompleteKept ==
  ASSUME NEW f, Complete(f), papers'[f.id] = papers[f.id], cirs'[f.id] = cirs[f.id],
         sources'[f.id] = sources[f.id], pdfs'[f.id] = pdfs[f.id],
         Unrevised(f.id)' =>
           /\ Unrevised(f.id)
           /\ \A l \in f.labels : claims'[<<papers[f.id].id_slug, l>>] = claims[<<papers[f.id].id_slug, l>>]
  PROVE  Complete(f)'
  BY DEF Complete

LEMMA TablesStay ==
  ASSUME UNCHANGED tables
  PROVE  /\ \A f : Complete(f) => Complete(f)'
         /\ Stored' = Stored /\ (RowsApart => RowsApart')
<1>1. Stored' = Stored /\ Superseded(Stored)' = Superseded(Stored)
  BY DEF tables, Stored, Superseded
<1> QED
  BY <1>1 DEF tables, Complete, Unrevised, RowsApart

LEMMA CompleteStored ==
  ASSUME NEW n \in DOMAIN SeedFiles, Complete(SeedFiles[n])
  PROVE  SeedFiles[n].id \in SeedIds \cap Stored
  BY FileFacts DEF Complete, Stored

-----------------------------------------------------------------------------
(***************************************************************************)
(* Steps of the seeder.                                                    *)
(***************************************************************************)

\* The slug a file gets.
LEMMA OpenApart ==
  ASSUME SeedsOrderly, SeederBase, MonthFits, ApartInv, LoadedInv, OpenFile
  PROVE  ApartInv'
<1>1. /\ at \in DOMAIN SeedFiles /\ at' = at /\ File' = File /\ pc' = pc /\ job' = job
      /\ papers' = papers /\ spc = "open" /\ pc = "idle" /\ File.id \in SeedIds
  <2>1. at \in DOMAIN SeedFiles /\ at' = at
    BY Files DEF OpenFile, SeederBase, SeederTypeOK
  <2>2. File.id \in SeedIds /\ File' = File
    BY <2>1 DEF SeedIds, File
  <2> QED
    BY <2>1, <2>2 DEF OpenFile, SeederBase, PhaseInv, vars, tables
<1>2. PICK s \in Slugs : /\ IF File.id_slug # None THEN s = File.id_slug ELSE IsNextSlug(s)
                         /\ slug' = s
  BY DEF OpenFile
<1> DEFINE Row == [id_slug |-> s, upload |-> File, previous_version |-> File.previous_version]
<1>0. SeedRow' = Row /\ Row.previous_version \notin Known
  BY <1>1, <1>2 DEF SeedRow, SeedsOrderly, File
<1>3. \A n \in DOMAIN SeedFiles : n # at => /\ SeedFiles[n].id # File.id
                                            /\ File.id_slug # None => SeedFiles[n].id_slug # File.id_slug
  BY <1>1 DEF SeedsOrderly, File
<1>6. ASSUME OwnSlug(File.id, Row),
             \A j \in Stored \ {File.id} : papers[j].id_slug = s => MayShare(j, papers[j]),
             \A j \in Stored \ SeedIds : papers[j].id_slug = s => File.id \in Superseded(Stored)
      PROVE  ApartInv'
  <2>1. Stored' = Stored /\ Superseded(Stored)' = Superseded(Stored) /\ minted' = minted /\ slug' = s
        /\ pc' = "idle"
    BY <1>1, <1>2 DEF Stored, Superseded, OpenFile, vars
  <2>2. MintedInv'
    BY <1>1, <2>1 DEF ApartInv, MintedInv
  <2>3. SharesInv'
    BY <1>1, <1>6, <2>1 DEF ApartInv, SharesInv
  <2>4. OwnSlug(File.id, SeedRow)'
    BY <1>0, <1>1, <1>6 DEF OwnSlug
  <2>5. \A j \in Stored' \ {File.id'} : papers'[j].id_slug = slug' => MayShare(j, papers'[j])
    BY <1>1, <1>6, <2>1
  <2>6. RowsApart' /\ \A i \in Stored' : i \in Known /\ OwnSlug(i, papers'[i])
    BY <1>1, <2>1 DEF ApartInv, RowsApart
  <2> QED
    BY <2>1, <2>2, <2>3, <2>4, <2>5, <2>6 DEF ApartInv
<1>4. CASE File.id_slug # None
  <2>1. s = File.id_slug /\ s \in Named
    BY <1>1, <1>2, <1>4 DEF Named, File
  <2>2. OwnSlug(File.id, Row)
    BY <1>0, <1>1, <1>3, <2>1 DEF OwnSlug, File
  <2>3. ASSUME NEW j \in Stored, papers[j].id_slug = s, ~MayShare(j, papers[j]) PROVE j = File.id
    <3>1. PICK n \in DOMAIN SeedFiles : SeedFiles[n].id = j /\ SeedFiles[n].id_slug = s
      BY <2>1, <2>3 DEF ApartInv, OwnSlug
    <3>2. n = at
      BY <1>3, <1>4, <2>1, <3>1
    <3> QED
      BY <3>1, <3>2 DEF File
  <2>4. \A j \in Stored \ SeedIds : papers[j].id_slug = s => File.id \in Superseded(Stored)
    BY <1>1, <2>1 DEF ApartInv, SharesInv, File
  <2> QED
    BY <1>6, <2>2, <2>3, <2>4
<1>5. CASE File.id_slug = None
  <2>1. \A j \in Stored : papers[j].id_slug # s
    BY <1>2, <1>5, NextIsNew DEF SeederBase, SeederTypeOK
  <2>2. s \notin Named
    <3> SUFFICES ASSUME s \in Named PROVE FALSE
      OBVIOUS
    <3>1. PICK n \in DOMAIN SeedFiles : SeedFiles[n].id_slug = s /\ s # None
      BY DEF Named
    <3>2. n # at /\ ~(at < n)
      BY <1>1, <1>5, <3>1 DEF SeedsOrderly, File
    <3>3. n < at
      BY <1>1, <3>2, Files
    <3>4. Complete(SeedFiles[n])
      BY <1>1, <3>3 DEF LoadedInv
    <3>5. SeedFiles[n].id \in Stored
      BY <3>4, CompleteStored
    <3>6. papers[SeedFiles[n].id].id_slug = s
      BY <3>1, <3>5 DEF ApartInv, OwnSlug
    <3> QED
      BY <2>1, <3>5, <3>6
  <2>3. OwnSlug(File.id, Row)
    BY <1>0, <1>3, <1>5, <2>2, <1>1 DEF OwnSlug, File
  <2> QED
    BY <1>6, <2>1, <2>3
<1> QED
  BY <1>4, <1>5

LEMMA PaperApart ==
  ASSUME SeederBase, ApartInv, SeedPaper
  PROVE  ApartInv'
<1>1. /\ Loading /\ Loading' /\ File' = File /\ SeedRow' = SeedRow /\ slug' = slug /\ pc' = pc /\ job' = job
      /\ pc = "idle" /\ papers' = [papers EXCEPT ![File.id] = SeedRow]
  BY DEF SeedPaper, Loading, File, SeedRow, SeederBase, PhaseInv
<1>2. TypeOK /\ File.id \in Ids /\ File.id \in Known /\ SeedRow \in PaperRow /\ SeedRow.id_slug = slug
  <2>1. File \in Uploads /\ File.id # None
    BY <1>1, RowType, ConstantsAssumption
  <2> QED
    BY <1>1, <2>1, RowType DEF SeederBase, SeederTypeOK, Known
<1>3. OwnSlug(File.id, SeedRow) /\ \A j \in Stored \ {File.id} : papers[j].id_slug = slug => MayShare(j, papers[j])
  BY <1>1 DEF ApartInv
<1>4. /\ RowsApart' /\ \A i \in Stored' : i \in Known /\ OwnSlug(i, papers'[i])
      /\ Stored' = Stored \cup {File.id}
  BY <1>1, <1>2, <1>3, StoreApart DEF ApartInv
<1>5. \A j \in Stored' \ {File.id} : papers'[j].id_slug = slug => MayShare(j, papers'[j])
  BY <1>1, <1>2, <1>3, <1>4 DEF TypeOK, Stored
<1>6. File.id \in SeedIds /\ File.id \notin Uuids /\ pc' = "idle" /\ minted' = minted
  BY <1>1, FileFacts, SeedAssumption DEF SeedPaper, SeederBase, PhaseInv, File
<1>7. MintedInv'
  BY <1>4, <1>6 DEF ApartInv, MintedInv
<1>8. ASSUME NEW x \in Known, x \in Superseded(Stored) PROVE x \in Superseded(Stored)'
  <2>1. File.id \in Stored => papers[File.id].previous_version # x
    BY <1>6, <1>8 DEF ApartInv, OwnSlug
  <2> QED
    BY <1>1, <1>2, <1>8, <2>1, StaysRevised
<1>9. SeedIds \subseteq Known
  BY SeedAssumption DEF SeedIds, Known
<1>10. \A i \in Ids : papers'[i] = IF i = File.id THEN SeedRow ELSE papers[i]
  BY <1>1, <1>2 DEF TypeOK
<1>11. Stored \subseteq Ids
  BY DEF Stored
<1>12. ASSUME NEW j \in Stored' \ SeedIds
       PROVE  /\ \A n \in DOMAIN SeedFiles :
                   SeedFiles[n].id_slug = papers'[j].id_slug => SeedFiles[n].id \in Superseded(Stored)'
              /\ \A i \in SeedIds \cap Stored' :
                   papers'[i].id_slug = papers'[j].id_slug => i \in Superseded(Stored)'
              /\ papers'[j].id_slug = slug => File.id \in Superseded(Stored)'
  <2>1. j \in Stored \ SeedIds /\ papers'[j] = papers[j]
    BY <1>4, <1>6, <1>10, <1>11
  <2>2. papers'[j].id_slug = slug => File.id \in Superseded(Stored)'
    BY <1>1, <1>6, <1>8, <1>9, <2>1 DEF ApartInv, SharesInv
  <2>3. ASSUME NEW n \in DOMAIN SeedFiles, SeedFiles[n].id_slug = papers'[j].id_slug
        PROVE  SeedFiles[n].id \in Superseded(Stored)'
    <3>1. SeedFiles[n].id \in SeedIds /\ SeedFiles[n].id \in Superseded(Stored)
      BY <2>1, <2>3, FileFacts DEF ApartInv, SharesInv
    <3> QED
      BY <1>8, <1>9, <3>1
  <2>4. ASSUME NEW i \in SeedIds \cap Stored', papers'[i].id_slug = papers'[j].id_slug
        PROVE  i \in Superseded(Stored)'
    <3>1. CASE i = File.id
      <4>1. papers'[i].id_slug = slug
        BY <1>2, <1>10, <3>1
      <4> QED
        BY <2>2, <2>4, <3>1, <4>1
    <3>2. CASE i # File.id
      <4>1. i \in SeedIds \cap Stored /\ papers'[i] = papers[i]
        BY <1>4, <1>10, <1>11, <3>2
      <4>2. i \in Superseded(Stored)
        BY <2>1, <2>4, <4>1 DEF ApartInv, SharesInv
      <4> QED
        BY <1>8, <1>9, <4>1, <4>2
    <3> QED
      BY <3>1, <3>2
  <2> QED
    BY <2>2, <2>3, <2>4
<1>13. SharesInv'
  BY <1>1, <1>6, <1>12 DEF SharesInv
<1> QED
  BY <1>1, <1>3, <1>4, <1>5, <1>6, <1>7, <1>13 DEF ApartInv

LEMMA ReplaceApart ==
  ASSUME SeederBase, ApartInv, Replace
  PROVE  ApartInv'
<1>1. pc = "idle" /\ pc' = pc /\ spc' = "open"
  BY DEF Replace, SeederBase, PhaseInv
<1>2. \A i \in Ids : papers'[i] = IF i \in SeedIds THEN None ELSE papers[i]
  BY DEF Replace, Without
<1>3. Stored' = Stored \ SeedIds /\ \A i \in Stored' : papers'[i] = papers[i]
  BY <1>2 DEF Stored
<1>4. MintedInv'
  BY <1>1, <1>3 DEF ApartInv, MintedInv, Replace
<1>5. ASSUME NEW x \in Superseded(Stored), x \in Known PROVE x \in Superseded(Stored)'
  <2>1. PICK k \in Stored : papers[k].previous_version = x /\ x # None
    BY DEF Superseded
  <2>2. k \notin SeedIds
    BY <1>5, <2>1 DEF ApartInv, OwnSlug
  <2> QED
    BY <1>3, <2>1, <2>2 DEF Superseded
<1>6. \A n \in DOMAIN SeedFiles : SeedFiles[n].id \in Known
  BY SeedAssumption DEF SeedIds, Known
<1>7. SharesInv'
  <2>1. \A j \in Stored' \ SeedIds : \A n \in DOMAIN SeedFiles :
           SeedFiles[n].id_slug = papers'[j].id_slug => SeedFiles[n].id \in Superseded(Stored)'
    BY <1>3, <1>5, <1>6 DEF ApartInv, SharesInv
  <2> QED
    BY <1>1, <1>3, <2>1 DEF SharesInv, Loading
<1>8. RowsApart' /\ \A i \in Stored' : i \in Known /\ OwnSlug(i, papers'[i])
  BY <1>3 DEF ApartInv, RowsApart
<1> QED
  BY <1>1, <1>4, <1>7, <1>8 DEF ApartInv, Loading

LEMMA SeedApart ==
  ASSUME SeedsOrderly, SeederBase, MonthFits, ApartInv, LoadedInv, Seed
  PROVE  ApartInv'
<1>1. CASE SeedBlobs \/ SeedCir \/ SeedClaim \/ FileLoaded \/ SeedDone
  <2>1. /\ papers' = papers /\ pc' = pc /\ pc = "idle"
        /\ spc' \notin {"open", "idle"} => Loading /\ at' = at /\ slug' = slug /\ SeedRow' = SeedRow
    BY <1>1 DEF SeedBlobs, SeedCir, SeedClaim, FileLoaded, SeedDone, vars, tables, Loading,
       SeederBase, PhaseInv, SeedRow, File
  <2>2. minted' = minted /\ (Loading' => File' = File /\ Loading)
    BY <1>1, <2>1 DEF SeedBlobs, SeedCir, SeedClaim, FileLoaded, SeedDone, vars, File, Loading
  <2>3. Loading' => slug' = slug /\ SeedRow' = SeedRow
    BY <2>1 DEF Loading
  <2>4. MintedInv' /\ SharesInv'
    BY <2>1, <2>2, <2>3, SharesRest DEF ApartInv
  <2> QED
    BY <2>1, <2>2, <2>3, <2>4 DEF ApartInv, RowsApart, Stored
<1> QED
  BY <1>1, OpenApart, PaperApart, ReplaceApart DEF Seed
\* What is loaded stays while the seeder writes nothing, or for another paper and
\* another slug.
LEMMA LoadedStays ==
  ASSUME SeedsOrderly, SeederBase, ApartInv, LoadedInv, spc \notin {"idle", "replace"},
         NEW n \in DOMAIN SeedFiles, n < at,
         at \in DOMAIN SeedFiles =>
           \A i \in Ids \ {File.id} : /\ papers'[i] = papers[i] /\ cirs'[i] = cirs[i]
                                      /\ sources'[i] = sources[i] /\ pdfs'[i] = pdfs[i],
         at \notin DOMAIN SeedFiles => UNCHANGED tables,
         \/ claims' = claims
         \/ /\ Loading
            /\ \A s \in Slugs \ {slug}, l \in Labels : claims'[<<s, l>>] = claims[<<s, l>>]
  PROVE  Complete(SeedFiles[n])'
<1>1. PICK f : f = SeedFiles[n]
  OBVIOUS
<1>2. Complete(f) /\ f.id \in SeedIds \cap Stored /\ f.id \in Ids /\ f.labels \subseteq Labels
  BY <1>1, CompleteStored, FileFacts DEF LoadedInv
<1>3. at \in DOMAIN SeedFiles => f.id # File.id
  <2>1. n # at
    BY Files DEF SeederBase, SeederTypeOK
  <2> QED
    BY <1>1, <2>1 DEF SeedsOrderly, File
<1>4. /\ papers'[f.id] = papers[f.id] /\ cirs'[f.id] = cirs[f.id]
      /\ sources'[f.id] = sources[f.id] /\ pdfs'[f.id] = pdfs[f.id]
  <2>1. CASE at \in DOMAIN SeedFiles
    BY <1>2, <1>3, <2>1
  <2>2. CASE at \notin DOMAIN SeedFiles
    BY <2>2 DEF tables
  <2> QED
    BY <2>1, <2>2
<1>5. papers[f.id].id_slug \in Slugs
  BY <1>2 DEF SeederBase, SeederTypeOK, TypeOK, Stored, PaperRow
<1>6. Loading => papers[f.id].id_slug # slug
  BY <1>2, <1>3 DEF ApartInv, MayShare, SeederBase, PhaseInv
<1>7. \A l \in f.labels : claims'[<<papers[f.id].id_slug, l>>] = claims[<<papers[f.id].id_slug, l>>]
  BY <1>2, <1>5, <1>6
<1>9. ASSUME f.id \in Superseded(Stored) PROVE f.id \in Superseded(Stored)'
  <2>1. PICK k \in Stored : papers[k].previous_version = f.id /\ f.id # None
    BY <1>9 DEF Superseded
  <2>2. f.id \in Known
    BY <1>2, SeedAssumption DEF SeedIds, Known
  <2>3. k \notin SeedIds /\ k \in Ids
    BY <2>1, <2>2 DEF ApartInv, OwnSlug, Stored
  <2>4. papers'[k] = papers[k]
    <3>1. CASE at \in DOMAIN SeedFiles
      <4>1. k # File.id
        BY <2>3, <3>1 DEF SeedIds, File
      <4> QED
        BY <2>3, <3>1, <4>1
    <3>2. CASE at \notin DOMAIN SeedFiles
      BY <3>2 DEF tables
    <3> QED
      BY <3>1, <3>2
  <2> QED
    BY <2>1, <2>3, <2>4 DEF Superseded, Stored
<1>8. Complete(f)'
  BY <1>2, <1>4, <1>7, <1>9, CompleteKept DEF Unrevised
<1> QED
  BY <1>1, <1>8

\* ... and the file being loaded becomes complete.
LEMMA SeedLoads ==
  ASSUME SeedsOrderly, SeederBase, ApartInv, LoadedInv, Seed
  PROVE  LoadedInv'
<1>1. ~whole /\ pc = "idle" /\ at \in Nat
  BY Files DEF Seed, Replace, OpenFile, SeedBlobs, SeedPaper, SeedCir, SeedClaim, FileLoaded,
     SeedDone, SeederBase, PhaseInv, SeederTypeOK
<1>2. CASE Replace
  <2>1. spc' = "open" /\ ~whole' /\ at' = 1
    BY <1>1, <1>2 DEF Replace, SeederBase, PhaseInv
  <2> QED
    BY <2>1, Files DEF LoadedInv
<1>3. CASE OpenFile
  <2>1. /\ spc = "open" /\ spc' = "blobs" /\ at' = at /\ ~whole' /\ UNCHANGED tables
        /\ File' = File /\ left' = File.labels
    BY <1>1, <1>3 DEF OpenFile, vars, File
  <2>2. \A n \in DOMAIN SeedFiles : n < at => Complete(SeedFiles[n])'
    BY <2>1, LoadedStays DEF tables
  <2> QED
    BY <2>1, <2>2 DEF LoadedInv
<1>4. CASE SeedBlobs
  <2>1. /\ spc = "blobs" /\ spc' = "paper" /\ at' = at /\ ~whole' /\ File' = File
        /\ UNCHANGED <<papers, cirs, claims, left>> /\ Loading /\ at \in DOMAIN SeedFiles
    BY <1>1, <1>4 DEF SeedBlobs, File, Loading, SeederBase, PhaseInv
  <2>2. File.id \in Ids
    BY <2>1, RowType
  <2>3. /\ \A i \in Ids \ {File.id} : sources'[i] = sources[i] /\ pdfs'[i] = pdfs[i]
        /\ File.pdf => sources'[File.id] = File /\ pdfs'[File.id] = File
    BY <1>4, <2>2 DEF SeedBlobs, SeederBase, SeederTypeOK, TypeOK
  <2>4. \A n \in DOMAIN SeedFiles : n < at => Complete(SeedFiles[n])'
    BY <2>1, <2>3, LoadedStays
  <2> QED
    BY <2>1, <2>3, <2>4 DEF LoadedInv
<1>5. CASE SeedPaper
  <2>1. /\ spc = "paper" /\ spc' = "cir" /\ at' = at /\ ~whole' /\ File' = File /\ SeedRow' = SeedRow
        /\ UNCHANGED <<cirs, sources, pdfs, claims, left>> /\ Loading /\ at \in DOMAIN SeedFiles
    BY <1>1, <1>5 DEF SeedPaper, File, SeedRow, Loading, SeederBase, PhaseInv
  <2>2. File.id \in Ids
    BY <2>1, RowType
  <2>3. /\ \A i \in Ids \ {File.id} : papers'[i] = papers[i]
        /\ papers'[File.id] = SeedRow
    BY <1>5, <2>2 DEF SeedPaper, SeederBase, SeederTypeOK, TypeOK
  <2>4. \A n \in DOMAIN SeedFiles : n < at => Complete(SeedFiles[n])'
    BY <2>1, <2>3, LoadedStays
  <2> QED
    BY <2>1, <2>3, <2>4 DEF LoadedInv
<1>6. CASE SeedCir
  <2>1. /\ spc = "cir" /\ spc' = "claims" /\ at' = at /\ ~whole' /\ File' = File /\ SeedRow' = SeedRow
        /\ UNCHANGED <<papers, sources, pdfs, claims, slug, left>> /\ Loading /\ at \in DOMAIN SeedFiles
    BY <1>1, <1>6 DEF SeedCir, File, SeedRow, Loading, SeederBase, PhaseInv
  <2>2. File.id \in Ids
    BY <2>1, RowType
  <2>3. /\ \A i \in Ids \ {File.id} : cirs'[i] = cirs[i]
        /\ cirs'[File.id] = SeedRow
    BY <1>6, <2>2 DEF SeedCir, SeederBase, SeederTypeOK, TypeOK
  <2>4. \A n \in DOMAIN SeedFiles : n < at => Complete(SeedFiles[n])'
    BY <2>1, <2>3, LoadedStays
  <2>5. File.labels \ left = {}
    BY <2>1 DEF LoadedInv
  <2> QED
    BY <2>1, <2>3, <2>4, <2>5 DEF LoadedInv
<1>7. CASE SeedClaim
  <2>1. /\ spc = "claims" /\ spc' = "claims" /\ at' = at /\ ~whole' /\ File' = File /\ SeedRow' = SeedRow
        /\ UNCHANGED <<papers, cirs, sources, pdfs, slug>> /\ Loading /\ at \in DOMAIN SeedFiles
        /\ slug \in Slugs
    BY <1>1, <1>7 DEF SeedClaim, File, SeedRow, Loading, SeederBase, PhaseInv
  <2>2. PICK k \in left : claims' = [claims EXCEPT ![<<slug, k>>] = File] /\ left' = left \ {k}
    BY <1>7 DEF SeedClaim
  <2>3. left \subseteq Labels /\ File.labels \in SUBSET Labels
    BY <2>1, RowType DEF SeederBase, SeederTypeOK
  <2>4. \A s \in Slugs, l \in Labels :
          claims'[<<s, l>>] = IF s = slug /\ l = k THEN File ELSE claims[<<s, l>>]
    BY <2>1, <2>2, <2>3 DEF SeederBase, SeederTypeOK, TypeOK
  <2>5. \A n \in DOMAIN SeedFiles : n < at => Complete(SeedFiles[n])'
    BY <2>1, <2>4, LoadedStays
  <2>6. \A l \in File.labels \ left' : claims'[<<slug, l>>] = File
    BY <2>1, <2>2, <2>3, <2>4 DEF LoadedInv
  <2> QED
    BY <2>1, <2>5, <2>6 DEF LoadedInv
<1>8. CASE FileLoaded
  <2>1. /\ spc = "claims" /\ spc' = "open" /\ at' = at + 1 /\ ~whole' /\ UNCHANGED tables
        /\ left = {} /\ Loading /\ at \in DOMAIN SeedFiles
    BY <1>1, <1>8 DEF FileLoaded, vars, Loading, SeederBase, PhaseInv
  <2>2. \A n \in DOMAIN SeedFiles : n < at => Complete(SeedFiles[n])'
    BY <2>1, LoadedStays DEF tables
  <2>3. Complete(File)
    BY <2>1, RowType DEF LoadedInv, Complete
  <2>4. PICK m \in DOMAIN SeedFiles : m = at
    BY <2>1
  <2>5. Complete(SeedFiles[m])'
    <3>1. PICK f : f = SeedFiles[m]
      OBVIOUS
    <3>2. Complete(f)'
      BY <2>1, <2>3, <2>4, <3>1, TablesStay DEF File
    <3> QED
      BY <3>1, <3>2
  <2>6. \A n \in DOMAIN SeedFiles : n < at' => n < at \/ n = m
    BY <1>1, <2>1, <2>4, Files
  <2> QED
    BY <2>1, <2>2, <2>5, <2>6 DEF LoadedInv
<1>9. CASE SeedDone
  <2>1. /\ spc = "open" /\ spc' = "idle" /\ at > Len(SeedFiles) /\ UNCHANGED tables
    BY <1>9 DEF SeedDone, vars
  <2>2. \A n \in DOMAIN SeedFiles : n < at => Complete(SeedFiles[n])'
    BY <2>1, LoadedStays DEF tables
  <2> QED
    BY <1>1, <2>1, <2>2, Files DEF LoadedInv
<1> QED
  BY <1>2, <1>3, <1>4, <1>5, <1>6, <1>7, <1>8, <1>9 DEF Seed

-----------------------------------------------------------------------------
(***************************************************************************)
(* Steps of the community.                                                 *)
(***************************************************************************)

\* A submission starts only between seeds that are whole, and takes a new slug or
\* that of the paper it revises.
LEMMA BeginApart ==
  ASSUME Disciplined, SeederBase, MonthFits, ApartInv, LoadedInv, whole, UNCHANGED seeder,
         NEW token \in Tokens, NEW key \in Keys \cup {None}, NEW up \in Uploads,
         NEW prev \in Ids \cup {None}, Begin(token, key, up, prev)
  PROVE  ApartInv'
<1>1. /\ Discipline(token, key, up, prev) /\ (prev # None => prev \in Stored) /\ Authored(up)
      /\ papers' = papers /\ pc' = "source" /\ pc = "idle" /\ spc' = spc /\ spc = "idle"
  BY DEF Begin, Accepted, tables, seeder, SeederBase, PhaseInv
<1>11. PICK id \in Ids, s \in Slugs :
        /\ AssignedId(up, prev, id)
        /\ AssignedSlug(up, prev, s)
        /\ minted' = IF KeepsCirId(up, prev) THEN minted ELSE minted \cup {id}
        /\ job' = [req |-> [token |-> token, key |-> key, upload |-> up,
                            previous_version |-> prev],
                   paper_id |-> id,
                   row |-> [id_slug |-> s, upload |-> up,
                            previous_version |->
                              IF prev # None THEN prev ELSE up.previous_version],
                   todo |-> up.labels]
  BY DEF Begin
<1>2. /\ AssignedId(up, prev, id) /\ AssignedSlug(up, prev, s)
      /\ job'.paper_id = id /\ job'.row.id_slug = s
      /\ job'.row.previous_version = IF prev # None THEN prev ELSE up.previous_version
      /\ minted' = IF KeepsCirId(up, prev) THEN minted ELSE minted \cup {id}
  BY <1>11
<1>3. PICK row : row = job'.row
  OBVIOUS
<1>4. Stored' = Stored /\ Superseded(Stored)' = Superseded(Stored) /\ minted \subseteq minted'
  BY <1>1, <1>2 DEF Stored, Superseded
<1>5. ASSUME NEW n \in DOMAIN SeedFiles
      PROVE  /\ SeedFiles[n].id \in SeedIds \cap Stored
             /\ SeedFiles[n].id_slug # None => papers[SeedFiles[n].id].id_slug = SeedFiles[n].id_slug
  BY CompleteStored DEF LoadedInv, ApartInv, OwnSlug
<1>6. /\ id \in Known \ SeedIds /\ (id \in Uuids => id \in minted')
      /\ id \in Stored => prev # None /\ papers[id].previous_version = prev
  <2>1. CASE KeepsCirId(up, prev)
    <3>1. id = up.id /\ id # None /\ prev # None /\ id # prev /\ prev \in Stored
      BY <1>1, <1>2, <2>1 DEF AssignedId, KeepsCirId
    <3>2. id \in Stored => papers[id].previous_version = prev
      BY <1>1, <3>1 DEF Discipline
    <3>3. id \notin SeedIds
      <4> SUFFICES ASSUME id \in SeedIds PROVE FALSE
        OBVIOUS
      <4>1. id \in Stored
        BY <1>5, SeedIdsNamed
      <4>2. papers[id].previous_version \notin Known /\ prev \in Known
        BY <3>1, <4>1 DEF ApartInv, OwnSlug
      <4> QED
        BY <3>2, <4>1, <4>2
    <3>4. id \in Uuids => id \in minted'
      BY <1>1, <1>4, <3>1 DEF Authored, ApartInv, MintedInv
    <3> QED
      BY <3>1, <3>2, <3>3, <3>4 DEF Known
  <2>2. CASE ~KeepsCirId(up, prev)
    <3>1. id \in Uuids \ minted /\ id \in minted'
      BY <1>2, <2>2 DEF AssignedId
    <3>2. id \notin Stored
      BY <3>1 DEF ApartInv, MintedInv
    <3> QED
      BY <3>1, <3>2, SeedAssumption, ConstantsAssumption DEF Known, Ids
  <2> QED
    BY <2>1, <2>2
<1>7. MintedInv'
  BY <1>1, <1>2, <1>4, <1>6 DEF ApartInv, MintedInv
<1>8. ASSUME OwnSlug(id, row),
             row.previous_version = None => \A j \in Stored : papers[j].id_slug # s,
             \A n \in DOMAIN SeedFiles : SeedFiles[n].id_slug = s => Follows(row, SeedFiles[n].id),
             \A i \in SeedIds \cap Stored : papers[i].id_slug = s => Follows(row, i)
      PROVE  ApartInv'
  <2>1. \A i : Follows(row, i) => Follows(job.row, i)'
    BY <1>3, <1>4 DEF Follows
  <2>2. SharesInv'
    BY <1>1, <1>2, <1>4, <1>8, <2>1 DEF ApartInv, SharesInv, Loading
  <2>3. RowsApart' /\ \A i \in Stored' : i \in Known /\ OwnSlug(i, papers'[i])
    BY <1>1, <1>4 DEF ApartInv, RowsApart
  <2>4. ~Loading'
    BY <1>1 DEF Loading
  <2> QED
    BY <1>1, <1>2, <1>3, <1>4, <1>6, <1>7, <1>8, <2>2, <2>3, <2>4 DEF ApartInv
<1>9. CASE prev = None
  <2>1. up.previous_version = None /\ IsNextSlug(s)
    BY <1>1, <1>2, <1>9 DEF Discipline, AssignedSlug
  <2>2. \A j \in Stored : papers[j].id_slug # s
    BY <2>1, NextIsNew DEF SeederBase, SeederTypeOK
  <2>3. \A n \in DOMAIN SeedFiles : SeedFiles[n].id_slug # s
    BY <1>5, <2>2, ConstantsAssumption
  <2>4. s \notin Named
    BY <2>3 DEF Named
  <2>5. OwnSlug(id, row)
    BY <1>2, <1>3, <1>6, <2>4 DEF OwnSlug, SeedIds
  <2> QED
    BY <1>8, <2>2, <2>3, <2>5
<1>10. CASE prev # None
  <2>1. prev \in Stored /\ s = papers[prev].id_slug /\ row.previous_version = prev
    BY <1>1, <1>2, <1>3, <1>10 DEF Discipline, AssignedSlug
  <2>2. MayShare(id, row)
    BY <1>6, <1>10, <2>1 DEF MayShare
  <2>3. OwnSlug(id, row)
    BY <1>6, <2>2 DEF OwnSlug, SeedIds
  <2>4. ASSUME NEW i \in SeedIds \cap Stored, papers[i].id_slug = s PROVE Follows(row, i)
    <3>1. CASE prev \in SeedIds
      BY <2>1, <2>4, <3>1 DEF ApartInv, RowsApart, MayShare, Follows
    <3>2. CASE prev \notin SeedIds
      BY <2>1, <2>4, <3>2 DEF ApartInv, SharesInv, Follows
    <3> QED
      BY <3>1, <3>2
  <2>5. ASSUME NEW n \in DOMAIN SeedFiles, SeedFiles[n].id_slug = s PROVE Follows(row, SeedFiles[n].id)
    BY <1>5, <2>4, <2>5, ConstantsAssumption
  <2> QED
    BY <1>8, <1>10, <2>1, <2>3, <2>4, <2>5
<1> QED
  BY <1>9, <1>10

LEMMA PersistJob ==
  ASSUME SeederBase, Persist, UNCHANGED seeder
  PROVE  /\ pc # "idle" /\ spc = "idle" /\ spc' = spc /\ minted' = minted /\ job \in Job
         /\ pc' \in {"source", "pdf", "paper"} => pc \in {"source", "pdf", "paper"}
         /\ pc' = "idle" \/ (job'.paper_id = job.paper_id /\ job'.row = job.row)
         /\ ~AddPaper => /\ papers' = papers
                         /\ pc' \notin {"idle", "source", "pdf", "paper"} => pc \notin {"source", "pdf", "paper"}
<1>1. CASE AddClaim
  <2>1. TypeOK /\ pc = "claims" /\ pc' = pc
    BY <1>1 DEF AddClaim, SeederBase, SeederTypeOK
  <2>2. job \in Job
    BY <2>1 DEF TypeOK
  <2> QED
    BY <1>1, <2>1, <2>2 DEF AddClaim, Job, seeder, SeederBase, PhaseInv
<1>2. CASE Respond
  BY <1>2 DEF Respond, seeder, tables, SeederBase, SeederTypeOK, PhaseInv, TypeOK
<1>3. CASE SaveSource \/ SavePdf \/ AddPaper \/ AddCir \/ ClaimsDone \/ AddNote \/ AddIdempotency
  BY <1>3 DEF SaveSource, SavePdf, AddPaper, AddCir, ClaimsDone, AddNote, AddIdempotency, Goto,
     AfterClaims, AfterNote, seeder, tables, SeederBase, SeederTypeOK, PhaseInv, TypeOK
<1> QED
  BY <1>1, <1>2, <1>3 DEF Persist

LEMMA PersistApart ==
  ASSUME SeederBase, ApartInv, Persist, UNCHANGED seeder
  PROVE  ApartInv'
<1>1. /\ pc # "idle" /\ spc = "idle" /\ spc' = spc /\ minted' = minted /\ job \in Job
      /\ pc' \in {"source", "pdf", "paper"} => pc \in {"source", "pdf", "paper"}
      /\ pc' = "idle" \/ (job'.paper_id = job.paper_id /\ job'.row = job.row)
      /\ ~AddPaper => /\ papers' = papers
                      /\ pc' \notin {"idle", "source", "pdf", "paper"} => pc \notin {"source", "pdf", "paper"}
  BY PersistJob
<1>6. ~Loading /\ ~Loading'
  BY <1>1 DEF Loading
<1>2. CASE AddPaper
  <2>1. /\ papers' = [papers EXCEPT ![job.paper_id] = job.row] /\ pc = "paper" /\ pc' = "cir"
        /\ TypeOK /\ job' = job
    BY <1>2 DEF AddPaper, Goto, SeederBase, SeederTypeOK
  <2>2. job.paper_id \in Ids /\ job.row \in PaperRow
    BY <1>1 DEF Job
  <2>3. /\ job.paper_id \in Known \ SeedIds /\ OwnSlug(job.paper_id, job.row)
        /\ job.row.previous_version = None => \A j \in Stored : papers[j].id_slug # job.row.id_slug
    BY <2>1 DEF ApartInv
  <2>4. \A j \in Stored \ {job.paper_id} : papers[j].id_slug = job.row.id_slug =>
          MayShare(job.paper_id, job.row) \/ MayShare(j, papers[j])
    BY <2>3 DEF MayShare
  <2>5. /\ RowsApart' /\ \A i \in Stored' : i \in Known /\ OwnSlug(i, papers'[i])
        /\ Stored' = Stored \cup {job.paper_id} /\ papers'[job.paper_id] = job.row
    BY <2>1, <2>2, <2>3, <2>4, StoreApart DEF ApartInv
  <2>6. \A x \in Superseded(Stored) : x \in Superseded(Stored)'
    BY <1>1, <2>1, <2>2, StaysRevised DEF ApartInv, MintedInv
  <2>7. \A i : i # None /\ Follows(job.row, i) => i \in Superseded(Stored)'
    BY <2>5, <2>6 DEF Follows, Superseded
  <2>8. MintedInv'
    BY <1>1, <2>1, <2>5 DEF ApartInv, MintedInv
  <2>9. \A i \in Ids : papers'[i] = IF i = job.paper_id THEN job.row ELSE papers[i]
    BY <2>1, <2>2 DEF TypeOK
  <2>10. SeedIds \cap Stored' = SeedIds \cap Stored /\ \A i \in SeedIds \cap Stored : papers'[i] = papers[i]
    BY <2>3, <2>5, <2>9 DEF Stored
  <2>11. ASSUME NEW j \in Stored' \ SeedIds
         PROVE  /\ \A n \in DOMAIN SeedFiles :
                     SeedFiles[n].id_slug = papers'[j].id_slug => SeedFiles[n].id \in Superseded(Stored)'
                /\ \A i \in SeedIds \cap Stored' :
                     papers'[i].id_slug = papers'[j].id_slug => i \in Superseded(Stored)'
    <3>1. CASE j = job.paper_id
      <4>1. papers'[j] = job.row
        BY <2>5, <3>1
      <4>2. /\ \A n \in DOMAIN SeedFiles :
                 SeedFiles[n].id_slug = job.row.id_slug => Follows(job.row, SeedFiles[n].id)
            /\ \A i \in SeedIds \cap Stored :
                 papers[i].id_slug = job.row.id_slug => Follows(job.row, i)
        BY <1>1 DEF ApartInv, SharesInv
      <4>3. \A n \in DOMAIN SeedFiles : SeedFiles[n].id # None
        BY FileFacts
      <4>4. \A i \in SeedIds : i # None
        BY SeedAssumption
      <4> QED
        BY <2>7, <2>10, <4>1, <4>2, <4>3, <4>4
    <3>2. CASE j # job.paper_id
      <4>1. j \in Stored \ SeedIds /\ papers'[j] = papers[j]
        BY <2>5, <2>9, <3>2 DEF Stored
      <4>2. /\ \A n \in DOMAIN SeedFiles :
                 SeedFiles[n].id_slug = papers[j].id_slug => SeedFiles[n].id \in Superseded(Stored)
            /\ \A i \in SeedIds \cap Stored :
                 papers[i].id_slug = papers[j].id_slug => i \in Superseded(Stored)
        BY <4>1 DEF ApartInv, SharesInv
      <4> QED
        BY <2>6, <2>10, <4>1, <4>2
    <3> QED
      BY <3>1, <3>2
  <2>12. \A i : Follows(job.row, i) => Follows(job.row, i)'
    BY <2>1, <2>6 DEF Follows
  <2>13. SharesInv'
    BY <1>1, <1>6, <2>1, <2>10, <2>11, <2>12 DEF ApartInv, SharesInv
  <2> QED
    BY <1>1, <1>6, <2>1, <2>3, <2>5, <2>8, <2>13 DEF ApartInv
<1>3. CASE ~AddPaper
  <2>1. papers' = papers /\ Stored' = Stored
    BY <1>1, <1>3 DEF Stored
  <2>2. MintedInv' /\ SharesInv'
    BY <1>1, <1>6, <2>1, SharesRest DEF ApartInv
  <2>3. RowsApart' /\ \A i \in Stored' : i \in Known /\ OwnSlug(i, papers'[i])
    BY <2>1 DEF ApartInv, RowsApart
  <2> QED
    BY <1>1, <1>3, <1>6, <2>1, <2>2, <2>3 DEF ApartInv
<1> QED
  BY <1>2, <1>3

\* A submission writes no row of a seed's, and no claim of one nobody revises.
LEMMA PersistLoaded ==
  ASSUME SeederBase, ApartInv, LoadedInv, Persist, UNCHANGED seeder
  PROVE  LoadedInv'
<1>1. spc = "idle" /\ spc' = spc /\ whole' = whole /\ pc # "idle" /\ TypeOK
  BY PersistJob DEF seeder, SeederBase, SeederTypeOK
<1>2. job \in Job
  BY <1>1 DEF TypeOK
<1>3. /\ \A i \in Ids \ {job.paper_id} : /\ papers'[i] = papers[i] /\ cirs'[i] = cirs[i]
                                         /\ sources'[i] = sources[i] /\ pdfs'[i] = pdfs[i]
      /\ \A s \in Slugs \ {job.row.id_slug}, l \in Labels : claims'[<<s, l>>] = claims[<<s, l>>]
  BY <1>1, <1>2 DEF Persist, SaveSource, SavePdf, AddPaper, AddCir, AddClaim, ClaimsDone, AddNote,
     AddIdempotency, Respond, tables, TypeOK
<1>4. \A x \in Superseded(Stored) : x \in Superseded(Stored)'
  <2>1. CASE AddPaper
    <3>1. papers' = [papers EXCEPT ![job.paper_id] = job.row] /\ job.paper_id \in Ids /\ job.row \in PaperRow
      BY <1>2, <2>1 DEF AddPaper, Job
    <3> QED
      BY <1>1, <3>1, StaysRevised DEF ApartInv, MintedInv
  <2>2. CASE ~AddPaper
    BY <2>2, PersistJob DEF Superseded, Stored
  <2> QED
    BY <2>1, <2>2
<1>5. claims' = claims \/ AddClaim
  BY DEF Persist, SaveSource, SavePdf, AddPaper, AddCir, ClaimsDone, AddNote, AddIdempotency, Respond, tables
<1>6. ASSUME NEW n \in DOMAIN SeedFiles, Complete(SeedFiles[n])
      PROVE  Complete(SeedFiles[n])'
  <2>1. PICK f : f = SeedFiles[n]
    OBVIOUS
  <2>2. f.id \in SeedIds \cap Stored /\ f.id \in Ids /\ f.labels \subseteq Labels /\ Complete(f)
    BY <1>6, <2>1, CompleteStored, FileFacts
  <2>3. f.id # job.paper_id
    BY <1>1, <2>2 DEF ApartInv
  <2>4. papers[f.id].id_slug \in Slugs
    BY <1>1, <2>2 DEF TypeOK, Stored, PaperRow
  <2>5. ASSUME f.id \notin Superseded(Stored)
        PROVE  \A l \in f.labels : claims'[<<papers[f.id].id_slug, l>>] = claims[<<papers[f.id].id_slug, l>>]
    <3>1. CASE AddClaim
      <4>1. pc = "claims" /\ papers[job.paper_id] = job.row /\ job.paper_id \in Ids \ SeedIds
        BY <1>2, <3>1 DEF AddClaim, ApartInv, Job
      <4>2. job.paper_id \in Stored \ SeedIds
        BY <1>2, <4>1, ConstantsAssumption DEF Stored, Job
      <4>3. papers[f.id].id_slug # job.row.id_slug
        BY <2>2, <2>5, <4>1, <4>2 DEF ApartInv, SharesInv
      <4> QED
        BY <1>3, <2>2, <2>4, <4>3
    <3> QED
      BY <1>5, <3>1
  <2>6. Complete(f)'
    BY <1>3, <1>4, <2>2, <2>3, <2>5, CompleteKept DEF Unrevised
  <2> QED
    BY <2>1, <2>6
<1> QED
  BY <1>1, <1>6 DEF LoadedInv

LEMMA RestApart ==
  ASSUME ApartInv, LoadedInv, UNCHANGED tables, SeederBase,
         \/ spc' \in {"idle", "replace"} \/ (spc' = "open" /\ at' = 1),
         whole' => whole, minted' = minted, pc' = "idle" \/ (pc' = pc /\ job' = job)
  PROVE  ApartInv' /\ LoadedInv'
<1>1. LoadedInv'
  BY TablesStay, Files DEF LoadedInv
<1>2. papers' = papers /\ Stored' = Stored /\ ~Loading'
  BY TablesStay DEF tables, Loading
<1>3. MintedInv' /\ SharesInv'
  BY <1>2, SharesRest DEF ApartInv
<1>4. RowsApart' /\ \A i \in Stored' : i \in Known /\ OwnSlug(i, papers'[i])
  BY <1>2 DEF ApartInv, RowsApart
<1> QED
  BY <1>1, <1>2, <1>3, <1>4 DEF ApartInv

-----------------------------------------------------------------------------
(***************************************************************************)
(* The theorems.                                                           *)
(***************************************************************************)

LEMMA ReseedBegins == SeederInit => SeederBase /\ ApartInv /\ LoadedInv
<1> SUFFICES ASSUME SeederInit PROVE SeederBase /\ ApartInv /\ LoadedInv
  OBVIOUS
<1>1. Stored = {} /\ spc = "idle" /\ pc = "idle" /\ ~whole
  BY DEF SeederInit, Init, Stored
<1> QED
  BY <1>1, SeederBegins DEF ApartInv, RowsApart, MintedInv, SharesInv, LoadedInv, Loading

LEMMA ReseedKept ==
  ASSUME Quiesced, Disciplined, SeedsOrderly, SeederBase, MonthFits, ApartInv, LoadedInv,
         [SeederNext]_rvars
  PROVE  SeederBase' /\ ApartInv' /\ LoadedInv'
<1>1. SeederBase'
  BY SeederKept
<1>2. CASE Seed
  BY <1>1, <1>2, SeedApart, SeedLoads
<1>3. CASE Community
  <2>1. UNCHANGED seeder
    BY <1>3 DEF Community
  <2>2. CASE Persist
    BY <1>1, <2>1, <2>2, PersistApart, PersistLoaded
  <2>3. ASSUME NEW token \in Tokens, NEW key \in Keys \cup {None}, NEW up \in Uploads,
               NEW prev \in Ids \cup {None}, whole, Begin(token, key, up, prev)
        PROVE  ApartInv' /\ LoadedInv'
    <3>1. UNCHANGED tables /\ spc' = spc /\ whole' = whole /\ spc = "idle"
      BY <2>1, <2>3 DEF Begin, seeder, SeederBase, PhaseInv
    <3>2. LoadedInv'
      BY <3>1, TablesStay DEF LoadedInv
    <3> QED
      BY <2>1, <2>3, <3>2, BeginApart
  <2>4. ASSUME NEW token \in Tokens, NEW key \in Keys \cup {None}, NEW up \in Uploads,
               NEW prev \in Ids \cup {None}, whole, Replay(token, key, up, prev)
        PROVE  ApartInv' /\ LoadedInv'
    <3>1. UNCHANGED <<tables, minted, pc, job>> /\ spc' = spc /\ whole' = whole /\ spc = "idle"
      BY <2>1, <2>4 DEF Replay, seeder, SeederBase, PhaseInv
    <3> QED
      BY <3>1, RestApart
  <2> QED
    BY <1>1, <1>3, <2>2, <2>3, <2>4 DEF Community
<1>4. CASE Start
  <2>1. UNCHANGED vars /\ (spc' = "idle" \/ (spc' = "open" /\ at' = 1)) /\ (whole' => whole)
    BY <1>4 DEF Start, SeederBase, PhaseInv
  <2> QED
    BY <1>1, <2>1, RestApart DEF vars
<1>5. CASE Die
  <2>1. UNCHANGED <<tables, minted>> /\ spc' = "idle" /\ whole' = whole /\ pc' = "idle"
    BY <1>5 DEF Die
  <2> QED
    BY <1>1, <2>1, RestApart
<1>6. ASSUME NEW preserve \in BOOLEAN, SeedStore(preserve)
      PROVE  ApartInv' /\ LoadedInv'
  <2>1. /\ UNCHANGED vars /\ whole' = FALSE /\ at' = 1
        /\ spc' = "replace" \/ spc' = "open"
    BY <1>6 DEF SeedStore
  <2> QED
    BY <2>1, RestApart DEF vars
<1>7. CASE UNCHANGED rvars
  <2>1. UNCHANGED <<tables, minted, pc, job, spc, at, slug, left, whole>>
    BY <1>7 DEF rvars, vars, seeder
  <2>2. papers' = papers /\ Stored' = Stored /\ (Loading' <=> Loading) /\ File' = File /\ SeedRow' = SeedRow
    BY <2>1, TablesStay DEF tables, Loading, File, SeedRow
  <2>3. MintedInv' /\ SharesInv'
    BY <2>1, <2>2, SharesRest DEF ApartInv
  <2>4. RowsApart' /\ \A i \in Stored' : i \in Known /\ OwnSlug(i, papers'[i])
    BY <2>2 DEF ApartInv, RowsApart
  <2>5. ApartInv'
    BY <2>1, <2>2, <2>3, <2>4 DEF ApartInv
  <2>6. LoadedInv'
    BY <2>1, <2>2, TablesStay DEF LoadedInv, tables
  <2> QED
    BY <1>1, <2>5, <2>6
<1> QED
  BY <1>1, <1>2, <1>3, <1>4, <1>5, <1>6, <1>7 DEF SeederNext

LEMMA ReseedStands ==
  ASSUME Quiesced, Disciplined, SeedsOrderly
  PROVE  SeederSpec /\ []MonthFits => [](SeederBase /\ ApartInv /\ LoadedInv)
<1>1. MonthFits /\ (SeederBase /\ ApartInv /\ LoadedInv) /\ [SeederNext]_rvars
        => (SeederBase /\ ApartInv /\ LoadedInv)'
  BY ReseedKept
<1> QED
  BY <1>1, ReseedBegins, PTL DEF SeederSpec

\* Once a run of the seeder has come to its end every seed paper is served
\* complete, and stays so through whatever is submitted, killed or restarted
\* after it.
THEOREM SeedsServed ==
  ASSUME Quiesced, Disciplined, SeedsOrderly
  PROVE  SeederSpec /\ []MonthFits => []SeedsWhole
<1>1. LoadedInv => SeedsWhole
  BY DEF LoadedInv, Complete, SeedsWhole
<1> QED
  BY <1>1, ReseedStands, PTL

\* No two first versions share a slug, whether the seeder or a submission
\* stored them.
THEOREM SlugsApart ==
  ASSUME Quiesced, Disciplined, SeedsOrderly
  PROVE  SeederSpec /\ []MonthFits => []SlugsUnique
<1>1. ApartInv => SlugsUnique
  BY DEF ApartInv, RowsApart, MayShare, SlugsUnique
<1> QED
  BY <1>1, ReseedStands, PTL

\* No write of the seeder, the deletes of --preserve-community included, falls on a
\* row of a paper that is not a seed, revisions of seeds included; and none falls on
\* the claims under its slug unless a seed has that slug.
THEOREM CommunityStays ==
  ASSUME Quiesced, Disciplined, SeedsOrderly
  PROVE  SeederSpec /\ []MonthFits => CommunityIntact
<1>1. ASSUME SeederBase, ApartInv, LoadedInv, Seed, NEW i \in Stored \ SeedIds
      PROVE  RowsStay(i) /\ (papers[i].id_slug \notin SeedSlugs => ClaimsStay(i))
  <2>1. i \in Ids /\ TypeOK /\ papers[i].id_slug \in Slugs
    BY <1>1 DEF Stored, SeederBase, SeederTypeOK, TypeOK, PaperRow
  <2>2. Loading => File.id # i /\ File.id \in SeedIds
    BY <1>1 DEF SeederBase, PhaseInv, SeedIds, File
  <2>3. CASE Replace
    <3>1. PICK owners : /\ owners = {papers[j].id_slug : j \in SeedIds \cap Stored}
                        /\ claims' = [c \in Slugs \X Labels |->
                                        IF c[1] \in owners THEN None ELSE claims[c]]
      BY <2>3 DEF Replace
    <3>2. RowsStay(i)
      BY <1>1, <2>1, <2>3 DEF Replace, Without, RowsStay
    <3>3. papers[i].id_slug \notin SeedSlugs => ClaimsStay(i)
      BY <2>1, <3>1 DEF SeedSlugs, ClaimsStay
    <3> QED
      BY <3>2, <3>3
  <2>4. CASE OpenFile \/ FileLoaded \/ SeedDone
    BY <2>4 DEF OpenFile, FileLoaded, SeedDone, vars, tables, RowsStay, ClaimsStay
  <2>5. CASE SeedBlobs \/ SeedPaper \/ SeedCir
    <3>1. claims' = claims
      BY <2>5 DEF SeedBlobs, SeedPaper, SeedCir
    <3>2. RowsStay(i)
      BY <2>1, <2>2, <2>5 DEF SeedBlobs, SeedPaper, SeedCir, Loading, TypeOK, RowsStay
    <3> QED
      BY <3>1, <3>2 DEF ClaimsStay
  <2>6. CASE SeedClaim
    <3>1. Loading /\ UNCHANGED <<papers, cirs, sources, pdfs>> /\ papers[File.id] = SeedRow
      BY <1>1, <2>6 DEF SeedClaim, Loading, LoadedInv
    <3>2. PICK k \in left : claims' = [claims EXCEPT ![<<slug, k>>] = File]
      BY <2>6 DEF SeedClaim
    <3>3. SeedRow.id_slug = slug /\ SeedRow # None /\ File.id \in Ids
      BY <1>1, <3>1, RowType
    <3>4. slug \in SeedSlugs
      BY <2>2, <3>1, <3>3 DEF SeedSlugs, Stored
    <3>5. papers[i].id_slug \notin SeedSlugs => ClaimsStay(i)
      BY <2>1, <3>2, <3>4 DEF TypeOK, ClaimsStay
    <3> QED
      BY <3>1, <3>5 DEF RowsStay
  <2> QED
    BY <1>1, <2>3, <2>4, <2>5, <2>6 DEF Seed
<1>2. SeederBase /\ ApartInv /\ LoadedInv /\ [SeederNext]_rvars =>
        [Seed => \A i \in Stored \ SeedIds :
           RowsStay(i) /\ (papers[i].id_slug \notin SeedSlugs => ClaimsStay(i))]_rvars
  BY <1>1
<1> QED
  BY <1>2, ReseedStands, PTL DEF SeederSpec, CommunityIntact
=============================================================================
