--------------------------------- MODULE Reads ---------------------------------
(***************************************************************************)
(* Reads that take several looks at the store while the writers of module  *)
(* Annotations go on: the replication status of a claim                    *)
(* (claims/replication.py), a walk over GET /annotations (pagination.py),  *)
(* POST /snapshots (snapshots/router.py) and GET /stats/pulse              *)
(* (stats/router.py, cache.py). They are sync handlers: each runs in a     *)
(* threadpool thread and interleaves with the event loop's handlers        *)
(* between any two store calls. One read at a time.                        *)
(***************************************************************************)
EXTENDS Annotations

CONSTANTS
  Limit,   \* page size
  SnapIds, \* snapshot ids the server can mint
  TTL,     \* how long a cached pulse is served (60 s), in ticks
  Horizon, \* bound: the last tick
  MaxReads, \* bound: reads that begin, all of one kind (kinds share no state they write)
  Reading  \* which reads run: a subset of status, page, snapshot, pulse

ASSUME ReadsAssumption ==
  /\ Limit \in Nat \ {0} /\ TTL \in Nat \ {0}
  /\ {Horizon, MaxReads} \subseteq Nat
  /\ None \notin SnapIds \cup (Nat \X Nat)
  /\ None \notin [papers : SUBSET Papers, cirs : SUBSET Papers, claims : SUBSET Claim,
                  annotations : SUBSET Body]
  /\ Reading \subseteq {"status", "page", "snapshot", "pulse"}

VARIABLES
  rd,     \* the read under way, or None
  was,    \* history: statuses of its claim since a status read began
  fixed,  \* history: ... and since then a correction (supersedes, lift) was stored,
          \* or a paper that moves the claim's quorum
  clock,
  begun,  \* history: how many claims were stored when each tick began
  cache,  \* pulses by (papers, annotations) counts
  blobs,  \* snapshot tarballs
  latest, \* the latest snapshot's manifest
  opened  \* reads so far, by kind

reads == <<rd, cache, blobs, latest, opened>>
history == <<was, fixed, clock, begun>>
rdvars == <<avars, reads, history>>

\* find_paper_by_slug: the rows nothing of the slug revises, all of them if there
\* is none such; of these the latest.
Heads(same) == {p \in same : \A q \in same : q.previous_version # p.id}
HeadOf(same) ==
  LET among == IF Heads(same) = {} THEN same ELSE Heads(same)
  IN CHOOSE p \in among : \A q \in among : q.submitted_at <= p.submitted_at

\* quorum_for_claim: the topics of the paper the claim's slug names.
QuorumOf(c, rows) ==
  LET same == {p \in rows : p.id_slug = c.paper_id}
  IN Quorum(IF same = {} THEN {} ELSE HeadOf(same).topics)

StatusIn(c, table, rows) == Status(c, table, QuorumOf(c, rows))

ReadsInit ==
  /\ Init
  /\ rd = None /\ was = {} /\ fixed = FALSE
  /\ clock = 0 /\ begun = [t \in 0 .. Horizon |-> IF t = 0 THEN Cardinality(claims) ELSE 0]
  /\ cache = [k \in {} |-> None]
  /\ blobs = [i \in SnapIds |-> None] /\ latest = None
  /\ opened = [op \in Reading |-> 0]

Open(op) ==
  /\ rd = None /\ op \in Reading /\ opened[op] < MaxReads
  /\ \A other \in Reading \ {op} : opened[other] = 0
  /\ opened' = [opened EXCEPT ![op] = @ + 1]
In(op, step) == rd # None /\ rd.op = op /\ rd.step = step
Elsewhere == UNCHANGED <<avars, clock, begun>>
Unpublished == UNCHANGED <<cache, blobs, latest>>
Rest == rd # None /\ rd.step = "done" /\ rd' = None
        /\ Unpublished /\ Elsewhere

-----------------------------------------------------------------------------
(***************************************************************************)
(* derive_replication_status: it lists the annotations once for those      *)
(* about the claim, and again for each question it asks about one of them. *)
(***************************************************************************)
ReadRelevant ==
  /\ Open("status")
  /\ \E c \in claims :
       rd' = [op |-> "status", step |-> "retractions", claim |-> c, asked |-> None,
              retractions |-> OfType("claim_retraction", About(c, Table)),
              replications |-> OfType("replication", About(c, Table)),
              standing |-> {}, answer |-> None]
  /\ Unpublished /\ Elsewhere

AskSuperseded ==
  /\ In("status", "retractions")
  /\ \E a \in rd.retractions :
       rd' = IF Superseded(a, Table) THEN [rd EXCEPT !.retractions = @ \ {a}]
             ELSE [rd EXCEPT !.asked = a, !.step = "lifted"]
  /\ Unpublished /\ Elsewhere

AnswerRetracted == \* mutant: lifts are not looked for
  /\ In("status", "lifted")
  /\ rd' = [rd EXCEPT !.answer = "retracted", !.step = "done", !.asked = None]
  /\ Unpublished /\ Elsewhere

AskLifted ==
  /\ In("status", "lifted")
  /\ rd' = IF Lifted(rd.asked, Table)
           THEN [rd EXCEPT !.retractions = @ \ {rd.asked}, !.step = "retractions", !.asked = None]
           ELSE [rd EXCEPT !.answer = "retracted", !.step = "done", !.asked = None]
  /\ Unpublished /\ Elsewhere

AskReplication ==
  /\ In("status", "retractions") /\ rd.retractions = {}
  /\ \E a \in rd.replications :
       rd' = [rd EXCEPT !.replications = @ \ {a},
                        !.standing = IF Superseded(a, Table) THEN @ ELSE @ \cup {a}]
  /\ Unpublished /\ Elsewhere

Conclude ==
  /\ In("status", "retractions") /\ rd.retractions = {} /\ rd.replications = {}
  /\ rd' = [rd EXCEPT !.step = "done", !.answer =
              FromReplications(rd.standing, rd.claim.replication_status, QuorumOf(rd.claim, papers))]
  /\ Unpublished /\ Elsewhere

-----------------------------------------------------------------------------
(***************************************************************************)
(* GET /annotations page by page, newest first: paginate.                  *)
(***************************************************************************)
Key(i) == <<annotations[i].created_at, i>>
Below(k, anchor) == k[1] < anchor[1] \/ (k[1] = anchor[1] /\ k[2] < anchor[2])

AfterOrAt(anchor) == \* mutant: not strictly after
  {i \in Stored : anchor = None \/ Below(Key(i), anchor) \/ Key(i) = anchor}

\* Rows after the cursor's, of which a page is the first Limit.
After(anchor) == {i \in Stored : anchor = None \/ Below(Key(i), anchor)}
PageOf(rest) == {i \in rest : Cardinality({j \in rest : Below(Key(i), Key(j))}) < Limit}

OpenList ==
  /\ Open("page")
  /\ rd' = [op |-> "page", step |-> "next", anchor |-> None, start |-> Stored,
            shown |-> {}, twice |-> FALSE]
  /\ Unpublished /\ Elsewhere

ReadPage ==
  /\ In("page", "next")
  /\ LET rest == After(rd.anchor)
         page == PageOf(rest)
     IN rd' = [rd EXCEPT !.shown = @ \cup page,
                         !.twice = @ \/ page \cap rd.shown # {},
                         !.step = IF page = rest THEN "done" ELSE "next",
                         !.anchor = IF page = rest THEN None
                                    ELSE Key(CHOOSE i \in page : \A j \in page : j = i \/ Below(Key(i), Key(j)))]
  /\ Unpublished /\ Elsewhere

-----------------------------------------------------------------------------
(***************************************************************************)
(* POST /snapshots                                                         *)
(***************************************************************************)
OpenSnapshot ==
  /\ Open("snapshot")
  /\ \E i \in SnapIds :
       /\ blobs[i] = None
       /\ rd' = [op |-> "snapshot", step |-> "claims", id |-> i, papers |-> papers,
                 claims |-> {}, annotations |-> {}, cirs |-> {}, left |-> {}, counts |-> <<>>]
  /\ Unpublished /\ Elsewhere

ListClaims ==
  /\ In("snapshot", "claims")
  /\ rd' = [rd EXCEPT !.claims = claims, !.step = "annotations"]
  /\ Unpublished /\ Elsewhere

ListAnnotations ==
  /\ In("snapshot", "annotations")
  /\ rd' = [rd EXCEPT !.annotations = Table, !.step = "papers"]
  /\ Unpublished /\ Elsewhere

FirstPapers == \* mutant: the list of papers it already has
  /\ In("snapshot", "papers")
  /\ rd' = [rd EXCEPT !.left = rd.papers, !.step = "cirs"]
  /\ Unpublished /\ Elsewhere

ListPapers ==
  /\ In("snapshot", "papers")
  /\ rd' = [rd EXCEPT !.left = papers, !.step = "cirs"]
  /\ Unpublished /\ Elsewhere

GetCir ==
  /\ In("snapshot", "cirs")
  /\ \E p \in rd.left :
       rd' = [rd EXCEPT !.left = @ \ {p}, !.cirs = @ \cup ({p} \cap cirs)]
  /\ Unpublished /\ Elsewhere

\* The manifest's counts are taken after the tarball is made, by listing each
\* table once more.
CountRows ==
  /\ In("snapshot", "cirs") /\ rd.left = {} /\ Len(rd.counts) < 3
  /\ rd' = [rd EXCEPT !.counts = Append(@,
       <<Cardinality(papers), Cardinality(claims), Cardinality(Stored)>>[Len(@) + 1])]
  /\ Unpublished /\ Elsewhere

Manifest ==
  [snapshot_id |-> rd.id, papers |-> rd.counts[1],
   claims |-> rd.counts[2], annotations |-> rd.counts[3]]

SaveBlob ==
  /\ In("snapshot", "cirs") /\ Len(rd.counts) = 3
  /\ blobs' = [blobs EXCEPT ![rd.id] =
       [papers |-> rd.papers, claims |-> rd.claims, annotations |-> rd.annotations, cirs |-> rd.cirs]]
  /\ rd' = [op |-> "snapshot", step |-> "manifest", manifest |-> Manifest]
  /\ UNCHANGED <<cache, latest>> /\ Elsewhere

SetLatest ==
  /\ In("snapshot", "manifest")
  /\ latest' = rd.manifest /\ rd' = None
  /\ UNCHANGED <<cache, blobs>> /\ Elsewhere

-----------------------------------------------------------------------------
(***************************************************************************)
(* GET /stats/pulse through its cache. A pulse is its totals.              *)
(***************************************************************************)
OpenPulse ==
  /\ Open("pulse")
  /\ rd' = [op |-> "pulse", step |-> "lookup", papers |-> Cardinality(papers)]
  /\ Unpublished /\ Elsewhere

GoodTooLong(k) == k \in DOMAIN cache /\ clock - cache[k].at <= TTL \* mutant

Good(k) == k \in DOMAIN cache /\ clock - cache[k].at < TTL
\* The key is the two counts; the entry is stamped with the time of the lookup.
LookUp ==
  /\ In("pulse", "lookup")
  /\ LET k == <<rd.papers, Cardinality(Stored)>>
     IN rd' = [op |-> "pulse", step |-> IF Good(k) THEN "done" ELSE "papers",
               key |-> k, at |-> clock, papers |-> 0, claims |-> 0, annotations |-> 0,
               answer |-> IF Good(k) THEN cache[k].value ELSE None]
  /\ Unpublished /\ Elsewhere

\* _gather: three lists, one after the other.
Gather ==
  /\ rd # None /\ rd.op = "pulse"
  /\ \/ rd.step = "papers" /\ rd' = [rd EXCEPT !.papers = Cardinality(papers), !.step = "claims"]
     \/ rd.step = "claims" /\ rd' = [rd EXCEPT !.claims = Cardinality(claims), !.step = "annotations"]
     \/ rd.step = "annotations" /\ rd' = [rd EXCEPT !.annotations = Cardinality(Stored), !.step = "keep"]
  /\ Unpublished /\ Elsewhere

Keep ==
  /\ In("pulse", "keep")
  /\ LET value == [papers |-> rd.papers, claims |-> rd.claims, annotations |-> rd.annotations] IN
     /\ cache' = [k \in DOMAIN cache \cup {rd.key} |->
                   IF k = rd.key THEN [at |-> rd.at, value |-> value] ELSE cache[k]]
     /\ rd' = [rd EXCEPT !.step = "done", !.answer = value]
  /\ UNCHANGED <<blobs, latest>> /\ Elsewhere

-----------------------------------------------------------------------------
Read ==
  \/ ReadRelevant \/ OpenList \/ OpenSnapshot \/ OpenPulse
  \/ /\ \/ AskSuperseded \/ AskLifted \/ AskReplication \/ Conclude
        \/ ReadPage
        \/ ListClaims \/ ListAnnotations \/ ListPapers \/ GetCir \/ CountRows \/ SaveBlob \/ SetLatest
        \/ LookUp \/ Gather \/ Keep
        \/ Rest
     /\ UNCHANGED opened

\* Only pulses look at the clock: it starts with the first of them.
Tick ==
  /\ "pulse" \in Reading /\ opened["pulse"] > 0
  /\ clock < Horizon /\ clock' = clock + 1
  /\ begun' = [begun EXCEPT ![clock + 1] = Cardinality(claims)]
  /\ UNCHANGED <<avars, reads>>

\* The process dies: the threads and the cache with it.
Die ==
  /\ MayCrash /\ (req # None \/ rd # None)
  /\ req' = None /\ rd' = None /\ cache' = [k \in {} |-> None]
  /\ UNCHANGED <<corpus, idem, posts, replies, blobs, latest, opened, clock, begun>>

StatusRead(r) == r # None /\ r.op = "status"
Correction(row) == row.supersedes # None \/ row.lifts

Watch ==
  /\ was' = IF StatusRead(rd')
            THEN (IF StatusRead(rd) THEN was ELSE {}) \cup {StatusIn(rd'.claim, Table', papers')}
            ELSE {}
  /\ fixed' = (StatusRead(rd') /\
       \/ fixed
       \/ \E i \in Ids : annotations'[i] # annotations[i] /\ Correction(annotations'[i])
       \/ QuorumOf(rd'.claim, papers') # QuorumOf(rd'.claim, papers))

ReadsNext ==
  /\ \/ Read \/ Tick \/ Die
     \/ Write /\ UNCHANGED <<reads, clock, begun>>
  /\ Watch

ReadsSpec == ReadsInit /\ [][ReadsNext]_rdvars

-----------------------------------------------------------------------------
(***************************************************************************)
(* Properties.                                                             *)
(***************************************************************************)

\* A status is answered from several lists of the annotations. It is one the
\* claim really had at some moment of the read, as long as no annotation that
\* supersedes or lifts another, and no paper that moves its quorum, was stored
\* meanwhile.
StatusWasTrue ==
  StatusRead(rd) /\ rd.answer # None /\ ~fixed => rd.answer \in was

\* A new annotation that corrects no other: claims it is not about keep their
\* status, a retraction stays, and once a claim has a standing replication,
\* support never lowers its status and a contradiction never raises it.
StatusMonotone ==
  [][\A c \in claims, i \in Ids :
       LET row == annotations'[i]
           before == StatusIn(c, Table, papers)
           after == StatusIn(c, Table', papers')
       IN annotations[i] = None /\ row # None /\ ~Correction(row) =>
            /\ row.target.id # c.id \/ Retracted(c, Table) => after = before
            /\ Standing(c, Table) # {} /\ row.type = "replication"
               /\ ~Retracted(c, Table) /\ row.target.id = c.id =>
                 /\ row.outcome = "supports" => Rank(after) >= Rank(before)
                 /\ row.outcome = "contradicts" => Rank(after) <= Rank(before)]_annotations

\* A walk over the pages shows no row twice, and by its end every row that was
\* there at its start, whatever was posted between two pages. Needs careful
\* clients: a row posted again with another created_at would move.
PagesWhole ==
  rd # None /\ rd.op = "page" =>
    ~rd.twice /\ (rd.step = "done" => rd.start \subseteq rd.shown)

\* The tarball's parts are read one after the other, so it can hold claims of a
\* paper whose row it lacks; but never a claim, or an annotation on a claim,
\* without the CIR it belongs to, nor a reply without what it replies to. The
\* published manifest names a stored tarball and counts all it holds.
SnapshotWhole ==
  /\ \A i \in SnapIds : blobs[i] # None =>
       LET b == blobs[i]
           inside == UNION {p.claims : p \in b.cirs}
       IN /\ b.claims \subseteq inside
          /\ \A a \in b.annotations :
               /\ a.target.type = "claim" => \E c \in inside : c.id = a.target.id
               /\ a.in_reply_to # None => \E parent \in b.annotations : parent.id = a.in_reply_to
  /\ latest # None =>
       LET b == blobs[latest.snapshot_id]
       IN /\ b # None
          /\ Cardinality(b.papers) <= latest.papers /\ Cardinality(b.claims) <= latest.claims
          /\ Cardinality(b.annotations) <= latest.annotations

Answered == rd # None /\ rd.op = "pulse" /\ rd.step = "done"
Earliest(t) == IF t < 0 THEN 0 ELSE t

\* A pulse counts every paper and annotation there was when it was asked for,
\* and every claim there was TTL earlier.
PulseBounded ==
  Answered => /\ rd.answer.papers >= rd.key[1] /\ rd.answer.annotations >= rd.key[2]
              /\ rd.answer.claims >= begun[Earliest(rd.at - TTL + 1)]
=============================================================================
