------------------------------ MODULE Annotations ------------------------------
(***************************************************************************)
(* POST /annotations and POST /annotations/bulk                            *)
(* (src/src/rrxiv/server/annotations/router.py and threads.py), beside the *)
(* submissions that store the papers and claims they are about.            *)
(*                                                                         *)
(* The handlers are async and await only the body, before they first touch *)
(* the store: one at a time is between two of its writes (`req'), and what *)
(* it has committed is there for reader threads, and after a crash.        *)
(* Identities are the created_by the client sends, which the server keeps. *)
(***************************************************************************)
EXTENDS Replication

CONSTANTS
  ClientIds,   \* annotation ids clients choose
  MintedIds,   \* those the server mints for bodies without one
  Bodies,      \* what clients post one at a time: see Body
  Batches,     \* the annotation arrays of bulk requests
  BulkMax,     \* _BULK_MAX_PER_REQUEST (100)
  Papers,      \* papers with their claims: see Paper
  Seeded,      \* those stored at the start
  Tokens, Keys,
  MaxPosts,    \* bound: requests that begin
  Disciplined, \* TRUE: clients submit and post as Discipline says
  MayCrash     \* TRUE: the process can die between two writes

Ids == ClientIds \cup MintedIds
Segments == Seq(STRING)
Target == [type : {"paper", "claim", "section", "figure"}, id : Segments]
Body == [id : Ids \cup {None}, target : Target, type : STRING,
         in_reply_to : Ids \cup {None}, supersedes : Ids \cup {None},
         outcome : STRING, fresh : BOOLEAN, lifts : BOOLEAN,
         by : STRING, created_at : Nat]
Claim == [id : Segments, paper_id : Segments, replication_status : STRING]
Paper == [id : Segments, id_slug : Segments, previous_version : Segments \cup {None},
          submitted_at : Nat, topics : SUBSET Segments, claims : SUBSET Claim]

\* One row to an id.
Keyed(rows) == \A c, d \in rows : c.id = d.id => c = d

ASSUME AnnotationsAssumption ==
  /\ Ids \subseteq Nat /\ ClientIds \cap MintedIds = {}
  /\ Bodies \subseteq Body /\ \A b \in Bodies : b.id \notin MintedIds
  /\ \A batch \in Batches : \A n \in DOMAIN batch : batch[n].id \notin MintedIds
  /\ Batches \subseteq Seq(Body) /\ Papers \subseteq Paper /\ Seeded \subseteq Papers
  /\ Keyed(UNION {p.claims : p \in Seeded})
  /\ BulkMax \in Nat /\ MaxPosts \in Nat
  /\ {Disciplined, MayCrash} \subseteq BOOLEAN
  /\ None \notin Ids /\ None \notin Keys /\ None \notin Body /\ None \notin Segments
  /\ None \notin Bodies \cup Papers
  /\ None \notin [target : Target, in_reply_to : Ids \cup {None}]

VARIABLES
  papers,      \* paper rows
  cirs,        \* papers whose CIR is stored
  claims,      \* claim rows
  annotations, \* annotation rows by id
  idem,        \* idempotency entries by (token, key), submissions' included
  req,         \* the request between two writes, or None
  posts,       \* requests so far
  replies      \* history: answers to keyed POST /annotations

corpus == <<papers, cirs, claims, annotations>>
avars == <<corpus, idem, req, posts, replies>>

Row == {b \in Body : b.id # None}
Stored == {i \in Ids : annotations[i] # None}
Table == {annotations[i] : i \in Stored}

\* A submission between two writes, an annotation stored but not remembered, a
\* bulk request at an item with the ids of those it stored (None: refused).
Request ==
  [op : {"cir", "claims"}, token : Tokens, key : Keys \cup {None},
   paper : Papers, left : SUBSET UNION {p.claims : p \in Papers}]
  \cup [op : {"remember"}, token : Tokens, key : Keys, body : Bodies, row : Row]
  \cup [op : {"bulk"}, batch : Batches, results : Seq(Ids \cup {None})]

\* Submissions store no body hash.
Entry == [body : Bodies, response : Row] \cup [body : {None}, response : Papers]
ASSUME EntryAssumption ==
  None \notin [body : Bodies \cup {None}, response : Row \cup Papers] \cup Request

Reply == [token : Tokens, key : Keys, body : Bodies, response : Row \cup Papers]

TypeOK ==
  /\ papers \subseteq Papers /\ cirs \subseteq Papers
  /\ claims \subseteq UNION {p.claims : p \in Papers}
  /\ annotations \in [Ids -> Row \cup {None}]
  /\ \A i \in Stored : annotations[i].id = i
  /\ idem \in [Tokens \X Keys -> Entry \cup {None}]
  /\ req \in Request \cup {None}
  /\ posts \in 0 .. MaxPosts
  /\ replies \subseteq Reply

Init ==
  /\ papers = Seeded /\ cirs = Seeded
  /\ claims = UNION {p.claims : p \in Seeded}
  /\ annotations = [i \in Ids |-> None]
  /\ idem = [k \in Tokens \X Keys |-> None]
  /\ req = None /\ posts = 0 /\ replies = {}

\* One request at a time.
Begin == req = None /\ posts < MaxPosts /\ posts' = posts + 1

-----------------------------------------------------------------------------
(***************************************************************************)
(* What a post is refused for.                                             *)
(***************************************************************************)

\* A claim's id needs a colon and must be stored; sections and figures are not
\* looked up.
TargetFound(t) ==
  /\ t.type = "claim" => Len(t.id) > 1 /\ \E c \in claims : c.id = t.id
  /\ t.type = "paper" => \E p \in papers : p.id = t.id

\* The segment before the first colon, for anything that is not a paper.
PaperIdOfTarget(t) ==
  IF t.type = "paper" THEN t.id ELSE IF Len(t.id) > 1 THEN <<t.id[1]>> ELSE None

ReplyNotFoundOnly(b, id) == \* mutant: any stored annotation will do
  b.in_reply_to # None => annotations[b.in_reply_to] # None /\ b.in_reply_to # id

ReplyAccepted(b, id) ==
  b.in_reply_to # None =>
    /\ annotations[b.in_reply_to] # None
    /\ b.in_reply_to # id
    /\ LET t == annotations[b.in_reply_to].target
           new == PaperIdOfTarget(b.target)
           old == PaperIdOfTarget(t)
       IN /\ new # None /\ old # None => new = old
          /\ b.target.type = "claim" /\ t.type = "claim" => b.target.id = t.id

Valid(b, id) == TargetFound(b.target) /\ ReplyAccepted(b, id)

\* A body's own id, or one nobody has.
IdOf(b, id) == IF b.id # None THEN id = b.id ELSE id \in MintedIds \ Stored

RowOf(b, id) == [b EXCEPT !.id = id]

\* Careful clients: an id names one annotation, sent again unchanged at most,
\* and at most once in a batch.
Discipline(b) == Disciplined /\ b.id \in Stored => annotations[b.id] = b
DistinctIds(batch) ==
  Disciplined => \A n, m \in DOMAIN batch :
                   batch[n].id = batch[m].id => n = m \/ batch[n].id = None

-----------------------------------------------------------------------------
(***************************************************************************)
(* POST /annotations                                                       *)
(***************************************************************************)

Known(token, key) == key # None /\ idem[<<token, key>>] # None

\* add_annotation replaces a row that has the id. (A refused post changes nothing.)
Post(token, key, b) ==
  /\ Begin /\ ~Known(token, key) /\ Discipline(b)
  /\ \E id \in Ids :
       /\ IdOf(b, id) /\ Valid(b, id)
       /\ annotations' = [annotations EXCEPT ![id] = RowOf(b, id)]
       /\ req' = IF key = None THEN None
                 ELSE [op |-> "remember", token |-> token, key |-> key,
                       body |-> b, row |-> RowOf(b, id)]
  /\ UNCHANGED <<papers, cirs, claims, idem, replies>>

AnyBody(b, entry) == TRUE \* mutant: the stored body is not compared

SameBody(b, entry) == b = entry.body

\* A known key: the stored response, or 409 for another body.
Replayed(token, key, b) ==
  /\ Begin /\ Known(token, key)
  /\ LET entry == idem[<<token, key>>] IN
       /\ SameBody(b, entry)
       /\ replies' = replies \cup
            {[token |-> token, key |-> key, body |-> b, response |-> entry.response]}
  /\ UNCHANGED <<corpus, idem, req>>

Remember ==
  /\ req # None /\ req.op = "remember"
  /\ idem' = [idem EXCEPT ![<<req.token, req.key>>] = [body |-> req.body, response |-> req.row]]
  /\ replies' = replies \cup
       {[token |-> req.token, key |-> req.key, body |-> req.body, response |-> req.row]}
  /\ req' = None
  /\ UNCHANGED <<corpus, posts>>

-----------------------------------------------------------------------------
(***************************************************************************)
(* POST /annotations/bulk                                                  *)
(***************************************************************************)
Bulk(batch) ==
  /\ Begin /\ Len(batch) \in 1 .. BulkMax
  /\ \A n \in DOMAIN batch : Discipline(batch[n])
  /\ DistinctIds(batch)
  /\ Cardinality({n \in DOMAIN batch : batch[n].id = None}) <= Cardinality(MintedIds \ Stored)
  /\ req' = [op |-> "bulk", batch |-> batch, results |-> <<>>]
  /\ UNCHANGED <<corpus, idem, replies>>

Item == req.batch[Len(req.results) + 1]
InBulk == req # None /\ req.op = "bulk" /\ Len(req.results) < Len(req.batch)

BulkItemUnstored == \* mutant: a bad item voids the batch, but its results say otherwise
  /\ InBulk
  /\ \E id \in Ids :
       /\ IdOf(Item, id)
       /\ req' = [req EXCEPT !.results = Append(@, IF Valid(Item, id) THEN id ELSE None)]
       /\ annotations' = IF Valid(Item, id) /\ \A n \in DOMAIN req.results : req.results[n] # None
                         THEN [annotations EXCEPT ![id] = RowOf(Item, id)] ELSE annotations
  /\ UNCHANGED <<papers, cirs, claims, idem, posts, replies>>

\* Each item is checked against, and stored in, the corpus the earlier ones made.
BulkItem ==
  /\ InBulk
  /\ \E id \in Ids :
       /\ IdOf(Item, id)
       /\ IF Valid(Item, id)
          THEN /\ annotations' = [annotations EXCEPT ![id] = RowOf(Item, id)]
               /\ req' = [req EXCEPT !.results = Append(@, id)]
          ELSE /\ req' = [req EXCEPT !.results = Append(@, None)]
               /\ UNCHANGED annotations
  /\ UNCHANGED <<papers, cirs, claims, idem, posts, replies>>

BulkReply ==
  /\ req # None /\ req.op = "bulk" /\ Len(req.results) = Len(req.batch)
  /\ req' = None
  /\ UNCHANGED <<corpus, idem, posts, replies>>

-----------------------------------------------------------------------------
(***************************************************************************)
(* POST /submissions, as far as annotations and their readers can tell: its *)
(* commits in their order, and the idempotency entry in the same table.    *)
(***************************************************************************)
Submit(token, key, p) ==
  /\ Begin /\ ~Known(token, key) /\ p \notin papers
  /\ req' = [op |-> "cir", token |-> token, key |-> key, paper |-> p, left |-> p.claims]
  /\ papers' = papers \cup {p}
  /\ UNCHANGED <<cirs, claims, annotations, idem, replies>>

AddCir ==
  /\ req # None /\ req.op = "cir"
  /\ cirs' = cirs \cup {req.paper}
  /\ req' = [req EXCEPT !.op = "claims"]
  /\ UNCHANGED <<papers, claims, annotations, idem, posts, replies>>

\* add_claim replaces a row that has the id: a revision restates claims.
AddClaim ==
  /\ req # None /\ req.op = "claims"
  /\ \E c \in req.left :
       /\ claims' = {d \in claims : d.id # c.id} \cup {c}
       /\ req' = [req EXCEPT !.left = @ \ {c}]
  /\ UNCHANGED <<papers, cirs, annotations, idem, posts, replies>>

Submitted ==
  /\ req # None /\ req.op = "claims" /\ req.left = {}
  /\ idem' = IF req.key = None THEN idem
             ELSE [idem EXCEPT ![<<req.token, req.key>>] = [body |-> None, response |-> req.paper]]
  /\ req' = None
  /\ UNCHANGED <<corpus, posts, replies>>

-----------------------------------------------------------------------------
Crash ==
  /\ MayCrash /\ req # None /\ req' = None
  /\ UNCHANGED <<corpus, idem, posts, replies>>

Write ==
  \/ \E token \in Tokens, key \in Keys \cup {None} :
       \/ \E b \in Bodies : Post(token, key, b) \/ Replayed(token, key, b)
       \/ \E p \in Papers : Submit(token, key, p)
  \/ \E batch \in Batches : Bulk(batch)
  \/ Remember \/ BulkItem \/ BulkReply \/ AddCir \/ AddClaim \/ Submitted

Next == Write \/ Crash

Spec == Init /\ [][Next]_avars

-----------------------------------------------------------------------------
(***************************************************************************)
(* Properties.                                                             *)
(***************************************************************************)

\* The table seen as threads does what Threads says, through resent posts,
\* batches that fail in part and crashes: no row changes or moves, no reply
\* hangs in the air or on itself. Needs careful clients.
Discourse == INSTANCE Threads WITH
  posts <- [i \in Ids |-> IF annotations[i] = None THEN None
              ELSE [target |-> annotations[i].target,
                    in_reply_to |-> annotations[i].in_reply_to]],
  Targets <- Target
ImplementsThreads == Discourse!Spec

\* All answers to one key are one response, and it is the row of the body that
\* was sent, though submissions keep their entries in the same table.
AnswersAgree ==
  \A r, s \in replies :
     /\ r.token = s.token /\ r.key = s.key => r.response = s.response
     /\ r.response = RowOf(r.body, r.response.id)

\* "a partial success leaves the valid annotations in the store and surfaces
\* the failures per-index" (create_annotations_bulk): when the reply is sent, an
\* item is stored as sent when its result is 201, and not at all when it is not,
\* also when the batch is sent again after a crash in its middle.
BulkTruth ==
  req # None /\ req.op = "bulk" /\ Len(req.results) = Len(req.batch) =>
    \A n \in DOMAIN req.batch :
      LET b == req.batch[n]
          id == req.results[n]
      IN IF id # None THEN annotations[id] = RowOf(b, id)
         ELSE b.id # None => annotations[b.id] = None
=============================================================================
