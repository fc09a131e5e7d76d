----------------------------- MODULE DiscourseProofs -----------------------------
(***************************************************************************)
(* Proofs about Annotations, for any number of ids, bodies, batches,       *)
(* papers, keys and requests, and about the reads of Reads beside them.    *)
(***************************************************************************)
EXTENDS Reads, FiniteSetTheorems, WellFoundedInduction, TLAPS

-----------------------------------------------------------------------------
(***************************************************************************)
(* The functions of Replication: what one more annotation can do to the    *)
(* status of a claim, whatever annotations there are.                      *)
(***************************************************************************)

LEMMA QuorumType == ASSUME NEW topics PROVE Quorum(topics) \in Nat
<1> DEFINE hits == IF Rows(topics) # {} THEN Rows(topics) ELSE Rows(Families(topics))
<1>1. DOMAIN QuorumTable = 1 .. 4 /\ \A n \in 1 .. 4 : QuorumTable[n].quorum \in Nat
  BY DEF QuorumTable
<1>2. hits \subseteq 1 .. 4
  BY <1>1 DEF Rows
<1> HIDE DEF hits
<1>3. hits # {} => \E n \in hits : \A m \in hits : n <= m
  <2>1. \A n \in hits : n = 1 \/ n = 2 \/ n = 3 \/ n = 4
    BY <1>2
  <2>2. CASE 1 \in hits
    BY <2>1, <2>2
  <2>3. CASE 1 \notin hits /\ 2 \in hits
    BY <2>1, <2>3
  <2>4. CASE 1 \notin hits /\ 2 \notin hits /\ 3 \in hits
    BY <2>1, <2>4
  <2>5. CASE 1 \notin hits /\ 2 \notin hits /\ 3 \notin hits
    BY <2>1, <2>5
  <2> QED
    BY <2>2, <2>3, <2>4, <2>5
<1>4. hits # {} => (CHOOSE n \in hits : \A m \in hits : n <= m) \in 1 .. 4
  BY <1>2, <1>3
<1> QED
  BY <1>1, <1>4 DEF Quorum, hits

-----------------------------------------------------------------------------
Count(reps, outcome) == Cardinality({a \in reps : a.outcome = outcome})
Fresh(reps) == Cardinality({a \in reps : a.outcome = "supports" /\ a.fresh})

LEMMA OneMore ==
  ASSUME NEW reps, IsFiniteSet(reps), NEW row, row \notin reps, NEW S, NEW T, S \subseteq reps,
         T = S \/ T = S \cup {row}
  PROVE  /\ Cardinality(S) \in Nat
         /\ Cardinality(T) = IF row \in T THEN Cardinality(S) + 1 ELSE Cardinality(S)
<1>1. IsFiniteSet(S) /\ row \notin S
  BY FS_Subset
<1>2. Cardinality(S) \in Nat /\ Cardinality(S \cup {row}) = Cardinality(S) + 1
  BY <1>1, FS_CardinalityType, FS_AddElement
<1> QED
  BY <1>1, <1>2

LEMMA CountMore ==
  ASSUME NEW reps, IsFiniteSet(reps), NEW row, row \notin reps, NEW outcome
  PROVE  /\ Count(reps, outcome) \in Nat
         /\ Count(reps \cup {row}, outcome) =
              IF row.outcome = outcome THEN Count(reps, outcome) + 1 ELSE Count(reps, outcome)
<1> DEFINE S == {a \in reps : a.outcome = outcome}
           T == {a \in reps \cup {row} : a.outcome = outcome}
<1>1. T = (IF row.outcome = outcome THEN S \cup {row} ELSE S) /\ S \subseteq reps
  OBVIOUS
<1>2. row \in T <=> row.outcome = outcome
  OBVIOUS
<1> HIDE DEF S, T
<1>3. /\ Cardinality(S) \in Nat
      /\ Cardinality(T) = IF row \in T THEN Cardinality(S) + 1 ELSE Cardinality(S)
  BY <1>1, OneMore
<1> QED
  BY <1>2, <1>3 DEF Count, S, T

LEMMA FreshMore ==
  ASSUME NEW reps, IsFiniteSet(reps), NEW row, row \notin reps
  PROVE  /\ Fresh(reps) \in Nat /\ Fresh(reps \cup {row}) \in Nat
         /\ Fresh(reps) <= Fresh(reps \cup {row})
         /\ row.outcome # "supports" => Fresh(reps \cup {row}) = Fresh(reps)
<1> DEFINE S == {a \in reps : a.outcome = "supports" /\ a.fresh}
           T == {a \in reps \cup {row} : a.outcome = "supports" /\ a.fresh}
<1>1. (T = S \/ T = S \cup {row}) /\ S \subseteq reps
  OBVIOUS
<1>2. row.outcome # "supports" => row \notin T
  OBVIOUS
<1> HIDE DEF S, T
<1>3. /\ Cardinality(S) \in Nat
      /\ Cardinality(T) = IF row \in T THEN Cardinality(S) + 1 ELSE Cardinality(S)
  BY <1>1, OneMore
<1> QED
  BY <1>2, <1>3 DEF Fresh, S, T

-----------------------------------------------------------------------------
\* One replication more, among some: support never lowers the status that
\* derive_replication_status computes, a contradiction never raises it.
LEMMA OneReplicationMore ==
  ASSUME NEW reps, IsFiniteSet(reps), reps # {}, NEW row, row \notin reps,
         NEW authored, NEW quorum \in Nat
  PROVE  LET before == Rank(FromReplications(reps, authored, quorum))
             after == Rank(FromReplications(reps \cup {row}, authored, quorum))
         IN /\ row.outcome = "supports" => after >= before
            /\ row.outcome = "contradicts" => after <= before
<1> DEFINE more == reps \cup {row}
           Level(s, c, p, f) ==
             IF c > 0 /\ c >= s THEN 0
             ELSE IF f >= quorum THEN 3 ELSE IF s > 0 \/ p > 0 THEN 2 ELSE 1
           LevelOf(R) == Level(Count(R, "supports"), Count(R, "contradicts"),
                               Count(R, "partial"), Fresh(R))
<1>1. ASSUME NEW R, R # {}
      PROVE  Rank(FromReplications(R, authored, quorum)) = LevelOf(R)
  <2>1. FromReplications(R, authored, quorum) =
          IF Count(R, "contradicts") > 0 /\ Count(R, "contradicts") >= Count(R, "supports")
          THEN "contradicted"
          ELSE IF Fresh(R) >= quorum THEN "replicated"
          ELSE IF Count(R, "supports") > 0 \/ Count(R, "partial") > 0 THEN "partial"
          ELSE "untested"
    BY <1>1 DEF FromReplications, Count, Fresh
  <2> QED
    BY <2>1 DEF Rank
<1>2. /\ Rank(FromReplications(reps, authored, quorum)) = LevelOf(reps)
      /\ Rank(FromReplications(more, authored, quorum)) = LevelOf(more)
  <2>1. more # {}
    OBVIOUS
  <2> QED
    BY <1>1, <2>1
<1>3. \A outcome \in {"supports", "contradicts", "partial"} :
        /\ Count(reps, outcome) \in Nat
        /\ Count(more, outcome) =
             IF row.outcome = outcome THEN Count(reps, outcome) + 1 ELSE Count(reps, outcome)
  BY CountMore
<1>4. /\ Fresh(reps) \in Nat /\ Fresh(more) \in Nat /\ Fresh(reps) <= Fresh(more)
      /\ row.outcome # "supports" => Fresh(more) = Fresh(reps)
  BY FreshMore
<1> HIDE DEF more
<1>5. /\ row.outcome = "supports" => LevelOf(more) >= LevelOf(reps)
      /\ row.outcome = "contradicts" => LevelOf(more) <= LevelOf(reps)
  BY <1>3, <1>4
<1> QED
  BY <1>2, <1>5 DEF more

-----------------------------------------------------------------------------
(***************************************************************************)
(* One annotation more, which corrects none.                               *)
(***************************************************************************)

Plain(row) == row.supersedes = None /\ ~row.lifts

LEMMA PlainRow ==
  ASSUME NEW A, NEW row, Plain(row), \A a \in A \cup {row} : a.id # None
  PROVE  /\ \A a \in A \cup {row} : Superseded(a, A \cup {row}) <=> Superseded(a, A)
         /\ \A a : Lifted(a, A \cup {row}) <=> Lifted(a, A)
  BY DEF Plain, Superseded, Lifted

LEMMA OtherClaim ==
  ASSUME NEW A, NEW row, Plain(row), \A a \in A \cup {row} : a.id # None,
         NEW c, row.target.id # c.id, NEW quorum
  PROVE  Status(c, A \cup {row}, quorum) = Status(c, A, quorum)
<1>1. About(c, A \cup {row}) = About(c, A) /\ About(c, A) \subseteq A
  BY DEF About
<1>2. Retracted(c, A \cup {row}) <=> Retracted(c, A)
  BY <1>1, PlainRow DEF Retracted, OfType
<1>3. Standing(c, A \cup {row}) = Standing(c, A)
  BY <1>1, PlainRow DEF Standing, OfType
<1> QED
  BY <1>2, <1>3 DEF Status

LEMMA StaysRetracted ==
  ASSUME NEW A, NEW row, Plain(row), \A a \in A \cup {row} : a.id # None,
         NEW c, Retracted(c, A), NEW quorum
  PROVE  Status(c, A \cup {row}, quorum) = Status(c, A, quorum)
<1>1. PICK a \in OfType("claim_retraction", About(c, A)) : ~Superseded(a, A) /\ ~Lifted(a, A)
  BY DEF Retracted
<1>2. a \in A /\ a \in OfType("claim_retraction", About(c, A \cup {row}))
  BY <1>1 DEF OfType, About
<1>3. Retracted(c, A \cup {row})
  BY <1>1, <1>2, PlainRow DEF Retracted
<1> QED
  BY <1>3 DEF Status

LEMMA ReplicationMore ==
  ASSUME NEW A, IsFiniteSet(A), NEW row, row \notin A, Plain(row),
         \A a \in A \cup {row} : a.id # None,
         NEW c, ~Retracted(c, A), Standing(c, A) # {}, row.type = "replication", NEW quorum \in Nat
  PROVE  LET before == Rank(Status(c, A, quorum))
             after == Rank(Status(c, A \cup {row}, quorum))
         IN /\ row.outcome = "supports" => after >= before
            /\ row.outcome = "contradicts" => after <= before
<1> DEFINE reps == Standing(c, A)
           more == Standing(c, A \cup {row})
           authored == c.replication_status
<1>1. OfType("claim_retraction", About(c, A \cup {row})) = OfType("claim_retraction", About(c, A))
  BY DEF OfType, About
<1>2. OfType("claim_retraction", About(c, A)) \subseteq A
  BY DEF OfType, About
<1>3. ~Retracted(c, A \cup {row})
  BY <1>1, <1>2, PlainRow DEF Retracted
<1>4. reps \subseteq A /\ (more = reps \/ more = reps \cup {row})
  BY PlainRow DEF Standing, OfType, About
<1>5. IsFiniteSet(reps) /\ row \notin reps
  BY <1>4, FS_Subset
<1>6. /\ Status(c, A, quorum) = FromReplications(reps, authored, quorum)
      /\ Status(c, A \cup {row}, quorum) = FromReplications(more, authored, quorum)
  BY <1>3 DEF Status
<1>7. Rank(FromReplications(reps, authored, quorum)) \in Int
  <2>1. FromReplications(reps, authored, quorum) \in {"contradicted", "replicated", "partial", "untested"}
    BY DEF FromReplications
  <2> QED
    BY <2>1 DEF Rank
<1> HIDE DEF reps, more, authored
<1>8. CASE more = reps
  BY <1>6, <1>7, <1>8
<1>9. CASE more = reps \cup {row}
  <2>1. reps # {}
    BY DEF reps
  <2> QED
    BY <1>5, <1>6, <1>9, <2>1, OneReplicationMore
<1> QED
  BY <1>4, <1>8, <1>9

-----------------------------------------------------------------------------
(***************************************************************************)
(* Types.                                                                  *)
(***************************************************************************)

LEMMA RowOfType ==
  ASSUME NEW b \in Body, NEW i \in Ids
  PROVE  /\ RowOf(b, i) \in Row /\ RowOf(b, i).id = i
         /\ RowOf(b, i).target = b.target /\ RowOf(b, i).in_reply_to = b.in_reply_to
         /\ b.id = i => RowOf(b, i) = b
<1>1. None \notin Ids
  BY AnnotationsAssumption
<1> QED
  BY <1>1 DEF RowOf, Row, Body

LEMMA ItemsAreBodies ==
  ASSUME NEW batch \in Batches, NEW n \in DOMAIN batch
  PROVE  batch[n] \in Body /\ batch[n].id \notin MintedIds
<1>1. batch \in Seq(Body)
  BY AnnotationsAssumption
<1> QED
  BY <1>1, AnnotationsAssumption

LEMMA InitTypes == Init => TypeOK
<1>1. MaxPosts \in Nat /\ Seeded \subseteq Papers
  BY AnnotationsAssumption
<1> QED
  BY <1>1 DEF Init, TypeOK, Stored

\* Storing a row under its id.
LEMMA StoreTypes ==
  ASSUME TypeOK, NEW b \in Body, NEW i \in Ids,
         annotations' = [annotations EXCEPT ![i] = RowOf(b, i)]
  PROVE  /\ annotations' \in [Ids -> Row \cup {None}]
         /\ \A j \in Stored' : annotations'[j].id = j
<1>1. RowOf(b, i) \in Row /\ RowOf(b, i).id = i
  BY RowOfType
<1> QED
  BY <1>1 DEF TypeOK, Stored

LEMMA PostTypes ==
  ASSUME TypeOK, NEW token \in Tokens, NEW key \in Keys \cup {None}, NEW b \in Bodies,
         Post(token, key, b)
  PROVE  TypeOK'
<1>0. b \in Body /\ MaxPosts \in Nat
  BY AnnotationsAssumption
<1>1. PICK i \in Ids :
        /\ annotations' = [annotations EXCEPT ![i] = RowOf(b, i)]
        /\ req' = IF key = None THEN None
                  ELSE [op |-> "remember", token |-> token, key |-> key,
                        body |-> b, row |-> RowOf(b, i)]
  BY DEF Post
<1>2. RowOf(b, i) \in Row
  BY <1>0, RowOfType
<1>3. req' \in Request \cup {None}
  BY <1>1, <1>2 DEF Request
<1>4. posts' \in 0 .. MaxPosts
  BY <1>0 DEF TypeOK, Post, Begin
<1>5. UNCHANGED <<papers, cirs, claims, idem, replies>>
  BY DEF Post
<1> QED
  BY <1>0, <1>1, <1>3, <1>4, <1>5, StoreTypes DEF TypeOK

LEMMA ReplayedTypes ==
  ASSUME TypeOK, NEW token \in Tokens, NEW key \in Keys \cup {None}, NEW b \in Bodies,
         Replayed(token, key, b)
  PROVE  TypeOK'
<1>1. key \in Keys /\ idem[<<token, key>>] \in Entry
  BY DEF Replayed, Known, TypeOK
<1>2. [token |-> token, key |-> key, body |-> b, response |-> idem[<<token, key>>].response] \in Reply
  BY <1>1 DEF Reply, Entry
<1>3. replies' \subseteq Reply
  BY <1>2 DEF Replayed, TypeOK
<1>4. posts' \in 0 .. MaxPosts
  BY AnnotationsAssumption DEF TypeOK, Replayed, Begin
<1>5. UNCHANGED <<papers, cirs, claims, annotations, idem, req>>
  BY DEF Replayed, corpus
<1> QED
  BY <1>3, <1>4, <1>5 DEF TypeOK, Stored

LEMMA RememberTypes ==
  ASSUME TypeOK, Remember
  PROVE  TypeOK'
<1>1. /\ req.token \in Tokens /\ req.key \in Keys /\ req.body \in Bodies /\ req.row \in Row
  BY DEF Remember, TypeOK, Request
<1>2. [body |-> req.body, response |-> req.row] \in Entry
  BY <1>1 DEF Entry
<1>3. [token |-> req.token, key |-> req.key, body |-> req.body, response |-> req.row] \in Reply
  BY <1>1 DEF Reply
<1>4. idem' \in [Tokens \X Keys -> Entry \cup {None}]
  BY <1>1, <1>2 DEF Remember, TypeOK
<1>5. UNCHANGED <<papers, cirs, claims, annotations, posts>> /\ req' = None
  BY DEF Remember, corpus
<1>6. replies' \subseteq Reply
  BY <1>3 DEF Remember, TypeOK
<1> QED
  BY <1>4, <1>5, <1>6 DEF TypeOK, Stored

LEMMA BulkTypes ==
  ASSUME TypeOK, NEW batch \in Batches, Bulk(batch)
  PROVE  TypeOK'
<1>1. req' \in Request
  BY DEF Bulk, Request
<1>2. posts' \in 0 .. MaxPosts
  BY AnnotationsAssumption DEF TypeOK, Bulk, Begin
<1>3. UNCHANGED <<papers, cirs, claims, annotations, idem, replies>>
  BY DEF Bulk, corpus
<1> QED
  BY <1>1, <1>2, <1>3 DEF TypeOK, Stored

LEMMA BulkItemTypes ==
  ASSUME TypeOK, BulkItem
  PROVE  TypeOK'
<1>1. /\ req.batch \in Batches /\ req.results \in Seq(Ids \cup {None}) /\ req.op = "bulk"
      /\ Len(req.results) < Len(req.batch)
  BY DEF BulkItem, InBulk, TypeOK, Request
<1>2. req.batch \in Seq(Body)
  BY <1>1, AnnotationsAssumption
<1>3. Len(req.results) + 1 \in DOMAIN req.batch
  BY <1>1, <1>2
<1>4. Item \in Body
  BY <1>1, <1>3, ItemsAreBodies DEF Item
<1>5. PICK i \in Ids :
        IF Valid(Item, i)
        THEN /\ annotations' = [annotations EXCEPT ![i] = RowOf(Item, i)]
             /\ req' = [req EXCEPT !.results = Append(@, i)]
        ELSE /\ req' = [req EXCEPT !.results = Append(@, None)]
             /\ UNCHANGED annotations
  BY DEF BulkItem
<1>6. req = [op |-> "bulk", batch |-> req.batch, results |-> req.results]
  BY <1>1 DEF TypeOK, Request, BulkItem, InBulk
<1>7. req' \in Request
  <2>1. PICK r \in Ids \cup {None} : req' = [req EXCEPT !.results = Append(@, r)]
    BY <1>5
  <2>2. req' = [op |-> "bulk", batch |-> req.batch, results |-> Append(req.results, r)]
    BY <1>6, <2>1
  <2> QED
    BY <1>1, <2>2 DEF Request
<1>8. /\ annotations' \in [Ids -> Row \cup {None}]
      /\ \A j \in Stored' : annotations'[j].id = j
  <2>1. CASE Valid(Item, i)
    BY <2>1, <1>4, <1>5, StoreTypes
  <2>2. CASE ~Valid(Item, i)
    BY <2>2, <1>5 DEF TypeOK, Stored
  <2> QED
    BY <2>1, <2>2
<1>9. UNCHANGED <<papers, cirs, claims, idem, posts, replies>>
  BY DEF BulkItem
<1> QED
  BY <1>7, <1>8, <1>9 DEF TypeOK

\* Steps that only end a request, or forget it.
LEMMA EndTypes ==
  ASSUME TypeOK, BulkReply \/ Crash
  PROVE  TypeOK'
<1>1. req' = None /\ UNCHANGED <<papers, cirs, claims, annotations, idem, posts, replies>>
  BY DEF BulkReply, Crash, corpus
<1> QED
  BY <1>1 DEF TypeOK, Stored

LEMMA SubmissionTypes ==
  ASSUME TypeOK,
         \/ \E token \in Tokens, key \in Keys \cup {None}, p \in Papers : Submit(token, key, p)
         \/ AddCir \/ AddClaim \/ Submitted
  PROVE  TypeOK'
<1> DEFINE All == UNION {p.claims : p \in Papers}
<1>1. ASSUME NEW token \in Tokens, NEW key \in Keys \cup {None}, NEW p \in Papers, Submit(token, key, p)
      PROVE  TypeOK'
  <2>1. req' \in Request
    BY <1>1 DEF Submit, Request
  <2>2. posts' \in 0 .. MaxPosts
    BY <1>1, AnnotationsAssumption DEF TypeOK, Submit, Begin
  <2>3. papers' \subseteq Papers /\ UNCHANGED <<cirs, claims, annotations, idem, replies>>
    BY <1>1 DEF Submit, TypeOK
  <2> QED
    BY <2>1, <2>2, <2>3 DEF TypeOK, Stored
<1>2. ASSUME req # None, req.op \in {"cir", "claims"}
      PROVE  /\ req.token \in Tokens /\ req.key \in Keys \cup {None}
             /\ req.paper \in Papers /\ req.left \in SUBSET All
             /\ req = [op |-> req.op, token |-> req.token, key |-> req.key,
                       paper |-> req.paper, left |-> req.left]
  BY <1>2 DEF TypeOK, Request
<1>3. CASE AddCir
  <2>1. req' = [op |-> "claims", token |-> req.token, key |-> req.key,
                paper |-> req.paper, left |-> req.left]
    BY <1>2, <1>3 DEF AddCir
  <2>2. req' \in Request
    BY <1>2, <1>3, <2>1 DEF AddCir, Request
  <2>3. cirs' \subseteq Papers /\ UNCHANGED <<papers, claims, annotations, idem, posts, replies>>
    BY <1>2, <1>3 DEF AddCir, TypeOK
  <2> QED
    BY <2>2, <2>3 DEF TypeOK, Stored
<1>4. CASE AddClaim
  <2>1. PICK c \in req.left :
          /\ claims' = {d \in claims : d.id # c.id} \cup {c}
          /\ req' = [req EXCEPT !.left = @ \ {c}]
    BY <1>4 DEF AddClaim
  <2>2. req' = [op |-> req.op, token |-> req.token, key |-> req.key,
                paper |-> req.paper, left |-> req.left \ {c}]
    BY <1>2, <1>4, <2>1 DEF AddClaim
  <2>3. req' \in Request
    BY <1>2, <1>4, <2>2 DEF AddClaim, Request
  <2>4. claims' \subseteq All /\ UNCHANGED <<papers, cirs, annotations, idem, posts, replies>>
    BY <1>2, <1>4, <2>1 DEF AddClaim, TypeOK
  <2> QED
    BY <2>3, <2>4 DEF TypeOK, Stored
<1>5. CASE Submitted
  <2>1. /\ req.token \in Tokens /\ req.key \in Keys \cup {None} /\ req.paper \in Papers
    BY <1>2, <1>5 DEF Submitted
  <2>2. [body |-> None, response |-> req.paper] \in Entry
    BY <2>1 DEF Entry
  <2>3. idem' \in [Tokens \X Keys -> Entry \cup {None}]
    BY <1>5, <2>1, <2>2 DEF Submitted, TypeOK
  <2>4. req' = None /\ UNCHANGED <<papers, cirs, claims, annotations, posts, replies>>
    BY <1>5 DEF Submitted, corpus
  <2> QED
    BY <2>3, <2>4 DEF TypeOK, Stored
<1> QED
  BY <1>1, <1>3, <1>4, <1>5

LEMMA TypesInductive ==
  ASSUME TypeOK, [Next]_avars
  PROVE  TypeOK'
<1>1. CASE UNCHANGED avars
  BY <1>1 DEF TypeOK, Stored, avars, corpus
<1>2. CASE Next
  BY <1>2, PostTypes, ReplayedTypes, RememberTypes, BulkTypes, BulkItemTypes, EndTypes,
     SubmissionTypes DEF Next, Write
<1> QED
  BY <1>1, <1>2

\* The tables of annotations/router.py hold rows under their own ids, entries
\* and answers of their shapes, and requests only what their handlers carry.
THEOREM TypeCorrect == Spec => []TypeOK
  BY InitTypes, TypesInductive, PTL DEF Spec

-----------------------------------------------------------------------------
(***************************************************************************)
(* Idempotency keys.  An entry is written once: whoever writes one found   *)
(* none when its request began, and no other request ran since.            *)
(***************************************************************************)

Recorded(token, key, body, response) ==
  idem[<<token, key>>] = [body |-> body, response |-> response]

KeysInv ==
  /\ \A r \in replies : Recorded(r.token, r.key, r.body, r.response)
  /\ \A k \in Tokens \X Keys : idem[k] # None /\ idem[k].body # None =>
       idem[k].response = RowOf(idem[k].body, idem[k].response.id)
  /\ req # None /\ req.op \in {"remember", "cir", "claims"} /\ req.key # None =>
       idem[<<req.token, req.key>>] = None
  /\ req # None /\ req.op = "remember" => req.row = RowOf(req.body, req.row.id)

LEMMA KeysSafe == ASSUME TypeOK, KeysInv PROVE AnswersAgree
<1> SUFFICES ASSUME NEW r \in replies, NEW s \in replies
             PROVE  /\ r.token = s.token /\ r.key = s.key => r.response = s.response
                    /\ r.response = RowOf(r.body, r.response.id)
  BY DEF AnswersAgree
<1>1. r \in Reply /\ s \in Reply
  BY DEF TypeOK
<1>2. Recorded(r.token, r.key, r.body, r.response) /\ Recorded(s.token, s.key, s.body, s.response)
  BY DEF KeysInv
<1>3. r.token = s.token /\ r.key = s.key => r.response = s.response
  BY <1>2 DEF Recorded
<1>4. <<r.token, r.key>> \in Tokens \X Keys /\ r.body # None
  BY <1>1, AnnotationsAssumption DEF Reply
<1>5. idem[<<r.token, r.key>>] # None
  BY <1>1, <1>2, EntryAssumption DEF Recorded, Reply
<1>6. r.response = RowOf(r.body, r.response.id)
  BY <1>2, <1>4, <1>5 DEF KeysInv, Recorded
<1> QED
  BY <1>3, <1>6

\* A new entry, where there was none, disturbs no answer.
LEMMA NewEntry ==
  ASSUME TypeOK, KeysInv, NEW token \in Tokens, NEW key \in Keys, NEW e,
         idem[<<token, key>>] = None,
         idem' = [idem EXCEPT ![<<token, key>>] = e]
  PROVE  /\ idem'[<<token, key>>] = e
         /\ \A k \in Tokens \X Keys : k # <<token, key>> => idem'[k] = idem[k]
         /\ \A r \in replies : idem'[<<r.token, r.key>>] = [body |-> r.body, response |-> r.response]
<1>1. idem'[<<token, key>>] = e /\ \A k \in Tokens \X Keys : k # <<token, key>> => idem'[k] = idem[k]
  BY DEF TypeOK
<1>2. ASSUME NEW r \in replies
      PROVE  idem'[<<r.token, r.key>>] = [body |-> r.body, response |-> r.response]
  <2>1. r \in Reply /\ Recorded(r.token, r.key, r.body, r.response)
    BY DEF TypeOK, KeysInv
  <2>2. [body |-> r.body, response |-> r.response] # None
    BY <2>1, EntryAssumption DEF Reply
  <2> QED
    BY <1>1, <2>1, <2>2 DEF Recorded, Reply
<1> QED
  BY <1>1, <1>2

\* Steps that write no entry, send no answer, and at most begin a request.
LEMMA KeysKept ==
  ASSUME KeysInv, UNCHANGED <<idem, replies>>,
         req' # None /\ req'.op \in {"remember", "cir", "claims"} =>
           \/ /\ req # None /\ req.op \in {"cir", "claims"} /\ req'.op # "remember"
              /\ req'.token = req.token /\ req'.key = req.key
           \/ req' = req
           \/ /\ req'.key # None => idem[<<req'.token, req'.key>>] = None
              /\ req'.op = "remember" => req'.row = RowOf(req'.body, req'.row.id)
  PROVE  KeysInv'
<1>1. \A r \in replies' : idem'[<<r.token, r.key>>] = [body |-> r.body, response |-> r.response]
  BY DEF KeysInv, Recorded
<1>2. (\A k \in Tokens \X Keys : idem[k] # None /\ idem[k].body # None =>
         idem[k].response = RowOf(idem[k].body, idem[k].response.id))'
  BY DEF KeysInv, RowOf
<1>3. req' # None /\ req'.op \in {"remember", "cir", "claims"} /\ req'.key # None =>
        idem'[<<req'.token, req'.key>>] = None
  BY DEF KeysInv
<1>4. req' # None /\ req'.op = "remember" => req'.row = RowOf(req'.body, req'.row.id)
  BY DEF KeysInv
<1> QED
  BY <1>1, <1>2, <1>3, <1>4 DEF KeysInv, Recorded, RowOf

LEMMA RememberKeys ==
  ASSUME TypeOK, KeysInv, Remember
  PROVE  KeysInv'
<1> DEFINE token == req.token
           key == req.key
           e == [body |-> req.body, response |-> req.row]
<1>1. /\ token \in Tokens /\ key \in Keys /\ key # None /\ req.row \in Row
  BY AnnotationsAssumption DEF Remember, TypeOK, Request
<1>2. idem[<<token, key>>] = None /\ req.row = RowOf(req.body, req.row.id)
  BY <1>1 DEF Remember, KeysInv
<1>3. idem' = [idem EXCEPT ![<<token, key>>] = e]
  BY DEF Remember
<1>4. /\ idem'[<<token, key>>] = e
      /\ \A k \in Tokens \X Keys : k # <<token, key>> => idem'[k] = idem[k]
      /\ \A r \in replies : idem'[<<r.token, r.key>>] = [body |-> r.body, response |-> r.response]
  <2> HIDE DEF e, token, key
  <2> QED
    BY <1>1, <1>2, <1>3, NewEntry
<1>5. replies' = replies \cup
        {[token |-> token, key |-> key, body |-> req.body, response |-> req.row]}
  BY DEF Remember
<1>6. \A r \in replies' : idem'[<<r.token, r.key>>] = [body |-> r.body, response |-> r.response]
  <2> SUFFICES ASSUME NEW r \in replies'
               PROVE  idem'[<<r.token, r.key>>] = [body |-> r.body, response |-> r.response]
    OBVIOUS
  <2>1. CASE r \in replies
    BY <2>1, <1>4
  <2>2. CASE r = [token |-> token, key |-> key, body |-> req.body, response |-> req.row]
    BY <2>2, <1>4
  <2> QED
    BY <2>1, <2>2, <1>5
<1>7. (\A k \in Tokens \X Keys : idem[k] # None /\ idem[k].body # None =>
         idem[k].response = RowOf(idem[k].body, idem[k].response.id))'
  BY <1>2, <1>4 DEF KeysInv, Recorded, RowOf
<1>8. req' = None
  BY DEF Remember
<1> QED
  BY <1>6, <1>7, <1>8 DEF KeysInv, Recorded

LEMMA SubmittedKeys ==
  ASSUME TypeOK, KeysInv, Submitted
  PROVE  KeysInv'
<1>1. req' = None /\ replies' = replies
  BY DEF Submitted
<1>2. CASE req.key = None
  <2>1. idem' = idem
    BY <1>2 DEF Submitted
  <2> QED
    BY <1>1, <2>1, KeysKept
<1>3. CASE req.key # None
  <2> DEFINE token == req.token
             key == req.key
             e == [body |-> None, response |-> req.paper]
  <2>1. token \in Tokens /\ key \in Keys
    BY <1>3 DEF Submitted, TypeOK, Request
  <2>2. idem[<<token, key>>] = None
    BY <1>3 DEF Submitted, KeysInv
  <2>3. idem' = [idem EXCEPT ![<<token, key>>] = e]
    BY <1>3 DEF Submitted
  <2>4. /\ idem'[<<token, key>>] = e
        /\ \A k \in Tokens \X Keys : k # <<token, key>> => idem'[k] = idem[k]
        /\ \A r \in replies : idem'[<<r.token, r.key>>] = [body |-> r.body, response |-> r.response]
    <3> HIDE DEF e, token, key
    <3> QED
      BY <2>1, <2>2, <2>3, NewEntry
  <2>5. \A r \in replies' : idem'[<<r.token, r.key>>] = [body |-> r.body, response |-> r.response]
    BY <1>1, <2>4 DEF Recorded
  <2>6. (\A k \in Tokens \X Keys : idem[k] # None /\ idem[k].body # None =>
           idem[k].response = RowOf(idem[k].body, idem[k].response.id))'
    BY <2>4 DEF KeysInv, RowOf
  <2> QED
    BY <1>1, <2>5, <2>6 DEF KeysInv, Recorded
<1> QED
  BY <1>2, <1>3

LEMMA ReplayedKeys ==
  ASSUME TypeOK, KeysInv, NEW token \in Tokens, NEW key \in Keys \cup {None}, NEW b \in Bodies,
         Replayed(token, key, b)
  PROVE  KeysInv'
<1> DEFINE entry == idem[<<token, key>>]
           answer == [token |-> token, key |-> key, body |-> b, response |-> entry.response]
<1>1. key \in Keys /\ entry \in Entry /\ entry.body = b
  BY DEF Replayed, Known, TypeOK, SameBody
<1>2. replies' = replies \cup {answer} /\ UNCHANGED <<idem, req>>
  BY DEF Replayed
<1>3. entry = [body |-> b, response |-> entry.response]
  BY <1>1 DEF Entry
<1>4. \A r \in replies' : idem'[<<r.token, r.key>>] = [body |-> r.body, response |-> r.response]
  <2> SUFFICES ASSUME NEW r \in replies'
               PROVE  idem'[<<r.token, r.key>>] = [body |-> r.body, response |-> r.response]
    OBVIOUS
  <2>1. CASE r \in replies
    BY <2>1, <1>2 DEF KeysInv, Recorded
  <2>2. CASE r = answer
    BY <2>2, <1>2, <1>3
  <2> QED
    BY <2>1, <2>2, <1>2
<1> QED
  BY <1>2, <1>4 DEF KeysInv, Recorded, RowOf

LEMMA KeysInductive ==
  ASSUME TypeOK, KeysInv, [Next]_avars
  PROVE  KeysInv'
<1>1. ASSUME NEW token \in Tokens, NEW key \in Keys \cup {None}, NEW b \in Bodies,
             Post(token, key, b)
      PROVE  KeysInv'
  <2>1. PICK i \in Ids :
          req' = IF key = None THEN None
                 ELSE [op |-> "remember", token |-> token, key |-> key,
                       body |-> b, row |-> RowOf(b, i)]
    BY <1>1 DEF Post
  <2>2. b \in Body
    BY AnnotationsAssumption
  <2>3. RowOf(b, i).id = i
    BY <2>2, RowOfType
  <2>4. UNCHANGED <<idem, replies>> /\ ~Known(token, key)
    BY <1>1 DEF Post
  <2> QED
    BY <2>1, <2>3, <2>4, KeysKept DEF Known
<1>2. ASSUME NEW token \in Tokens, NEW key \in Keys \cup {None}, NEW p \in Papers,
             Submit(token, key, p)
      PROVE  KeysInv'
  <2>1. /\ req' = [op |-> "cir", token |-> token, key |-> key, paper |-> p, left |-> p.claims]
        /\ UNCHANGED <<idem, replies>> /\ ~Known(token, key)
    BY <1>2 DEF Submit
  <2> QED
    BY <2>1, KeysKept DEF Known
<1>3. CASE \E batch \in Batches : Bulk(batch)
  BY <1>3, KeysKept DEF Bulk
<1>4. ASSUME AddCir \/ AddClaim
      PROVE  KeysInv'
  <2>1. /\ req # None /\ req.op \in {"cir", "claims"} /\ req'.op = "claims"
        /\ req'.token = req.token /\ req'.key = req.key
    BY <1>4 DEF AddCir, AddClaim, TypeOK, Request
  <2>2. UNCHANGED <<idem, replies>>
    BY <1>4 DEF AddCir, AddClaim
  <2> QED
    BY <2>1, <2>2, KeysKept
<1>5. CASE BulkItem
  <2>1. req \in Request /\ req.op = "bulk" /\ UNCHANGED <<idem, replies>>
    BY <1>5 DEF BulkItem, InBulk, TypeOK
  <2>2. req'.op = "bulk"
    BY <1>5, <2>1 DEF BulkItem, Request
  <2> QED
    BY <2>1, <2>2, KeysKept
<1>6. CASE BulkReply \/ Crash
  <2>1. req' = None /\ UNCHANGED <<idem, replies>>
    BY <1>6 DEF BulkReply, Crash
  <2> QED
    BY <2>1, KeysKept
<1>7. CASE UNCHANGED avars
  BY <1>7, KeysKept DEF avars
<1> QED
  BY <1>1, <1>2, <1>3, <1>4, <1>5, <1>6, <1>7, ReplayedKeys, RememberKeys, SubmittedKeys
  DEF Next, Write

\* A key of POST /annotations always answers the same row, and the row of the
\* body that was sent, though submissions use the same table (router.py:336, 409).
THEOREM KeysAgree == Spec => []AnswersAgree
<1>1. Init => KeysInv
  BY DEF Init, KeysInv
<1> QED
  BY <1>1, InitTypes, TypesInductive, KeysInductive, KeysSafe, PTL DEF Spec

-----------------------------------------------------------------------------
(***************************************************************************)
(* Threads.  With careful clients the tables only grow: what a step stores *)
(* is a row where there was none, or the row that is there.                *)
(***************************************************************************)

\* What a bulk request knows of its batch: items to come are as their clients
\* know them, items done are as their results say.
BatchInv ==
  req # None /\ req.op = "bulk" =>
    /\ Len(req.results) <= Len(req.batch)
    /\ DistinctIds(req.batch)
    /\ \A n \in DOMAIN req.batch : n > Len(req.results) => Discipline(req.batch[n])
    /\ \A n \in DOMAIN req.results :
         LET b == req.batch[n]
             id == req.results[n]
         IN IF id # None
            THEN /\ annotations[id] = RowOf(b, id)
                 /\ IF b.id = None THEN id \in MintedIds ELSE id = b.id
            ELSE b.id # None => annotations[b.id] = None

\* Every row is still one that would be accepted.
RowsInv == \A i \in Stored : Valid(annotations[i], i)

Stores(i, b) ==
  /\ Valid(b, i) /\ (i \in Stored => annotations[i] = RowOf(b, i))
  /\ annotations' = [annotations EXCEPT ![i] = RowOf(b, i)]

\* A claim's row may be replaced by another of its id.
ClaimsStay == \A c \in claims : \E d \in claims' : d.id = c.id

Grows ==
  /\ papers \subseteq papers' /\ ClaimsStay
  /\ \/ annotations' = annotations
     \/ papers' = papers /\ \E i \in Ids, b \in Body : Stores(i, b)

LEMMA CarefulStore ==
  ASSUME TypeOK, Disciplined, NEW b \in Body, NEW i \in Ids, Discipline(b), IdOf(b, i)
  PROVE  i \in Stored => annotations[i] = RowOf(b, i)
  BY RowOfType DEF Discipline, IdOf

LEMMA BulkAt ==
  ASSUME TypeOK, InBulk
  PROVE  /\ req.batch \in Seq(Body) /\ req.batch \in Batches
         /\ req.results \in Seq(Ids \cup {None})
         /\ Len(req.results) + 1 \in DOMAIN req.batch
         /\ Item \in Body /\ Item.id \notin MintedIds
         /\ req = [op |-> "bulk", batch |-> req.batch, results |-> req.results]
<1>1. /\ req.batch \in Batches /\ req.results \in Seq(Ids \cup {None})
      /\ req = [op |-> "bulk", batch |-> req.batch, results |-> req.results]
  BY DEF InBulk, TypeOK, Request
<1>2. req.batch \in Seq(Body)
  BY <1>1, AnnotationsAssumption
<1>3. Len(req.results) + 1 \in DOMAIN req.batch
  BY <1>1, <1>2 DEF InBulk
<1> QED
  BY <1>1, <1>2, <1>3, ItemsAreBodies DEF Item

LEMMA StepGrows ==
  ASSUME TypeOK, Disciplined, BatchInv, [Next]_avars
  PROVE  Grows
<1>0. claims' = claims => ClaimsStay
  BY DEF ClaimsStay
<1>1. ASSUME NEW token \in Tokens, NEW key \in Keys \cup {None}, NEW b \in Bodies,
             Post(token, key, b)
      PROVE  Grows
  <2>1. PICK i \in Ids :
          /\ IdOf(b, i) /\ Valid(b, i)
          /\ annotations' = [annotations EXCEPT ![i] = RowOf(b, i)]
    BY <1>1 DEF Post
  <2>2. b \in Body
    BY AnnotationsAssumption
  <2>3. Discipline(b) /\ papers' = papers /\ claims' = claims
    BY <1>1 DEF Post
  <2>4. Stores(i, b)
    BY <2>1, <2>2, <2>3, CarefulStore DEF Stores
  <2> QED
    BY <1>0, <2>2, <2>3, <2>4 DEF Grows
<1>2. CASE BulkItem
  <2>1. PICK i \in Ids :
          /\ IdOf(Item, i)
          /\ \/ Valid(Item, i) /\ annotations' = [annotations EXCEPT ![i] = RowOf(Item, i)]
             \/ annotations' = annotations
    BY <1>2 DEF BulkItem
  <2>2. InBulk /\ papers' = papers /\ claims' = claims
    BY <1>2 DEF BulkItem
  <2>3. Item \in Body /\ Len(req.results) + 1 \in DOMAIN req.batch
        /\ req.results \in Seq(Ids \cup {None})
    BY <2>2, BulkAt
  <2>4. Discipline(Item)
    BY <2>2, <2>3 DEF BatchInv, InBulk, Item
  <2>5. i \in Stored => annotations[i] = RowOf(Item, i)
    BY <2>1, <2>3, <2>4, CarefulStore
  <2> QED
    BY <1>0, <2>1, <2>2, <2>3, <2>5 DEF Grows, Stores
<1>3. ASSUME UNCHANGED annotations, papers \subseteq papers', ClaimsStay
      PROVE  Grows
  BY <1>3 DEF Grows
<1>4. ASSUME NEW token \in Tokens, NEW key \in Keys \cup {None}, NEW b \in Bodies,
             Replayed(token, key, b)
      PROVE  Grows
  BY <1>0, <1>3, <1>4 DEF Replayed, corpus
<1>5. ASSUME NEW token \in Tokens, NEW key \in Keys \cup {None}, NEW p \in Papers,
             Submit(token, key, p)
      PROVE  Grows
  BY <1>0, <1>3, <1>5 DEF Submit
<1>6. CASE AddClaim
  <2>1. PICK c : claims' = {d \in claims : d.id # c.id} \cup {c}
    BY <1>6 DEF AddClaim
  <2>2. ClaimsStay
    BY <2>1 DEF ClaimsStay
  <2> QED
    BY <1>3, <1>6, <2>2 DEF AddClaim
<1>7. CASE Remember \/ BulkReply \/ AddCir \/ Submitted \/ Crash
           \/ \E batch \in Batches : Bulk(batch)
  BY <1>0, <1>3, <1>7 DEF Remember, BulkReply, AddCir, Submitted, Crash, Bulk, corpus
<1>8. CASE UNCHANGED avars
  BY <1>0, <1>3, <1>8 DEF avars, corpus
<1> QED
  BY <1>1, <1>2, <1>4, <1>5, <1>6, <1>7, <1>8 DEF Next, Write

LEMMA GrowsKeeps ==
  ASSUME TypeOK, Grows, NEW j \in Stored
  PROVE  annotations'[j] = annotations[j]
  BY DEF Grows, Stores, TypeOK, Stored

LEMMA ValidKept ==
  ASSUME TypeOK, Grows, NEW b \in Body, NEW i \in Ids, Valid(b, i)
  PROVE  Valid(b, i)'
<1>1. TargetFound(b.target)'
  BY DEF Valid, TargetFound, Grows, ClaimsStay
<1>2. b.in_reply_to # None => b.in_reply_to \in Stored
  BY DEF Valid, ReplyAccepted, Body, Stored
<1>3. b.in_reply_to # None => annotations'[b.in_reply_to] = annotations[b.in_reply_to]
  BY <1>2, GrowsKeeps
<1>4. ReplyAccepted(b, i)'
  BY <1>3 DEF Valid, ReplyAccepted, PaperIdOfTarget
<1> QED
  BY <1>1, <1>4 DEF Valid

LEMMA RowsKept ==
  ASSUME TypeOK, TypeOK', RowsInv, Grows
  PROVE  RowsInv'
<1> SUFFICES ASSUME NEW i \in Ids, annotations'[i] # None
             PROVE  Valid(annotations[i], i)'
  BY DEF RowsInv, Stored
<1>1. CASE i \in Stored
  <2>1. annotations'[i] = annotations[i] /\ annotations[i] \in Body
    BY <1>1, GrowsKeeps DEF TypeOK, Stored, Row
  <2>2. PICK row \in Body : row = annotations[i]
    BY <2>1
  <2>3. Valid(row, i)'
    BY <1>1, <2>2, ValidKept DEF RowsInv
  <2> QED
    BY <2>1, <2>2, <2>3
<1>2. CASE i \notin Stored
  <2>1. PICK b \in Body : Valid(b, i) /\ annotations'[i] = RowOf(b, i)
    <3>1. annotations[i] = None /\ annotations' # annotations
      BY <1>2 DEF Stored
    <3>2. PICK k \in Ids, c \in Body : Stores(k, c)
      BY <3>1 DEF Grows
    <3>3. k = i
      BY <3>1, <3>2 DEF Stores, TypeOK
    <3> QED
      BY <3>2, <3>3 DEF Stores, TypeOK
  <2>2. Valid(b, i)'
    BY <2>1, ValidKept
  <2>3. RowOf(b, i).target = b.target /\ RowOf(b, i).in_reply_to = b.in_reply_to
    BY RowOfType
  <2>4. annotations'[i].target = b.target /\ annotations'[i].in_reply_to = b.in_reply_to
    BY <2>1, <2>3
  <2> QED
    BY <2>2, <2>4 DEF Valid, ReplyAccepted, TargetFound, PaperIdOfTarget
<1> QED
  BY <1>1, <1>2

\* The id an item is stored under is no other item's.
LEMMA OwnId ==
  ASSUME TypeOK, Disciplined, BatchInv, InBulk, NEW i \in Ids, IdOf(Item, i),
         NEW n \in DOMAIN req.batch, n # Len(req.results) + 1, req.batch[n].id # None
  PROVE  req.batch[n].id # i
<1>1. req.batch[n].id \notin MintedIds
  BY BulkAt, ItemsAreBodies
<1>2. Item.id # None => req.batch[n].id # Item.id
  BY BulkAt DEF BatchInv, InBulk, DistinctIds, Item
<1> QED
  BY <1>1, <1>2 DEF IdOf

LEMMA BulkItemBatch ==
  ASSUME TypeOK, TypeOK', Disciplined, RowsInv, BatchInv, BulkItem
  PROVE  BatchInv'
<1> DEFINE m == Len(req.results) + 1
<1>1. PICK i \in Ids :
        /\ IdOf(Item, i)
        /\ IF Valid(Item, i)
           THEN /\ annotations' = [annotations EXCEPT ![i] = RowOf(Item, i)]
                /\ req' = [req EXCEPT !.results = Append(@, i)]
           ELSE /\ req' = [req EXCEPT !.results = Append(@, None)]
                /\ UNCHANGED annotations
  BY DEF BulkItem
<1>2. InBulk
  BY DEF BulkItem
<1>3. /\ req.batch \in Seq(Body) /\ req.results \in Seq(Ids \cup {None}) /\ m \in DOMAIN req.batch
      /\ Item \in Body /\ req = [op |-> "bulk", batch |-> req.batch, results |-> req.results]
      /\ Len(req.results) <= Len(req.batch)
  BY <1>2, BulkAt DEF BatchInv, InBulk
<1>4. PICK r \in Ids \cup {None} :
        /\ r = IF Valid(Item, i) THEN i ELSE None
        /\ req' = [op |-> "bulk", batch |-> req.batch, results |-> Append(req.results, r)]
  BY <1>1, <1>3
<1>5. /\ req'.batch = req.batch /\ Len(req'.results) = m /\ req'.results[m] = r
      /\ DOMAIN req'.results = 1 .. m
      /\ \A n \in DOMAIN req.results : req'.results[n] = req.results[n]
  BY <1>3, <1>4
<1>6. /\ annotations'[i] = IF Valid(Item, i) THEN RowOf(Item, i) ELSE annotations[i]
      /\ \A j \in Ids : j # i => annotations'[j] = annotations[j]
      /\ \A j \in Stored : annotations'[j] = annotations[j]
  <2>1. Grows
    BY StepGrows DEF Next, Write
  <2> QED
    BY <1>1, <2>1, GrowsKeeps DEF TypeOK
<1>7. Discipline(Item)
  BY <1>2, <1>3 DEF BatchInv, InBulk, Item
<1>8. ASSUME NEW n \in DOMAIN req.batch, n > m
      PROVE  Discipline(req.batch[n])'
  <2>1. Discipline(req.batch[n])
    BY <1>2, <1>3, <1>8 DEF BatchInv, InBulk
  <2>2. req.batch[n].id # None => req.batch[n].id # i
    BY <1>1, <1>2, <1>8, OwnId
  <2>3. req.batch[n].id \in Stored' => req.batch[n].id \in Stored
    BY <1>6, <2>2, AnnotationsAssumption DEF Stored
  <2> QED
    BY <1>5, <1>6, <2>1, <2>3 DEF Discipline
<1> DEFINE Done(n) ==
      LET b == req.batch[n]
          id == req'.results[n]
      IN IF id # None
         THEN /\ annotations'[id] = RowOf(b, id)
              /\ IF b.id = None THEN id \in MintedIds ELSE id = b.id
         ELSE b.id # None => annotations'[b.id] = None
<1>9. ASSUME NEW n \in DOMAIN req.results
      PROVE  Done(n)
  <2> DEFINE b == req.batch[n]
             id == req.results[n]
  <2>1. n \in DOMAIN req.batch /\ n # m /\ b \in Body /\ id \in Ids \cup {None}
    BY <1>3
  <2>2. /\ id # None => /\ annotations[id] = RowOf(b, id)
                        /\ IF b.id = None THEN id \in MintedIds ELSE id = b.id
        /\ id = None /\ b.id # None => annotations[b.id] = None
    BY <1>2 DEF BatchInv, InBulk
  <2>3. id # None => id \in Stored
    <3>1. id # None => RowOf(b, id) \in Body
      BY <2>1, RowOfType DEF Row
    <3> QED
      BY <2>1, <2>2, <3>1, AnnotationsAssumption DEF Stored
  <2>4. b.id # None => b.id # i /\ b.id \in Ids
    BY <1>1, <1>2, <2>1, OwnId DEF Body
  <2> HIDE DEF b, id
  <2>5. /\ id # None => annotations'[id] = RowOf(b, id)
        /\ id = None /\ b.id # None => annotations'[b.id] = None
    BY <1>6, <2>2, <2>3, <2>4
  <2> QED
    BY <1>5, <2>2, <2>5 DEF b, id
<1>10. Done(m)
  <2>1. CASE Valid(Item, i)
    <3>1. req'.results[m] = i /\ i # None
      BY <1>4, <1>5, <2>1, AnnotationsAssumption
    <3>2. annotations'[i] = RowOf(Item, i) /\ IF Item.id = None THEN i \in MintedIds ELSE i = Item.id
      BY <1>1, <1>6, <2>1 DEF IdOf
    <3> QED
      BY <3>1, <3>2 DEF Item
  <2>2. CASE ~Valid(Item, i)
    <3>1. req'.results[m] = None
      BY <1>4, <1>5, <2>2
    <3>2. Item.id # None => Item.id \notin Stored
      BY <1>1, <1>7, <2>2 DEF Discipline, RowsInv, IdOf
    <3>3. Item.id # None => annotations'[Item.id] = None
      BY <1>1, <1>3, <2>2, <3>2 DEF Stored, Body
    <3> QED
      BY <3>1, <3>3 DEF Item
  <2> QED
    BY <2>1, <2>2
<1>11. \A n \in DOMAIN req'.results : Done(n)
  <2>1. \A n \in 1 .. m : n = m \/ n \in DOMAIN req.results
    BY <1>3
  <2> QED
    BY <1>5, <1>9, <1>10, <2>1
<1>12. DistinctIds(req.batch)
  BY <1>2 DEF BatchInv, InBulk
<1>13. m <= Len(req.batch)
  BY <1>3
<1> QED
  BY <1>5, <1>8, <1>11, <1>12, <1>13 DEF BatchInv, RowOf, Discipline, DistinctIds, Stored

LEMMA BatchInductive ==
  ASSUME TypeOK, TypeOK', Disciplined, RowsInv, BatchInv, [Next]_avars
  PROVE  BatchInv'
<1>1. ASSUME NEW batch \in Batches, Bulk(batch)
      PROVE  BatchInv'
  <2>1. batch \in Seq(Body)
    BY AnnotationsAssumption
  <2>2. /\ req' = [op |-> "bulk", batch |-> batch, results |-> <<>>] /\ annotations' = annotations
        /\ DistinctIds(batch) /\ \A n \in DOMAIN batch : Discipline(batch[n])
    BY <1>1 DEF Bulk, corpus
  <2> QED
    BY <2>1, <2>2 DEF BatchInv, Discipline, Stored, DistinctIds
<1>2. ASSUME req' = None \/ req'.op # "bulk"
      PROVE  BatchInv'
  BY <1>2 DEF BatchInv
<1>3. ASSUME NEW token \in Tokens, NEW key \in Keys \cup {None}, NEW b \in Bodies,
             Post(token, key, b)
      PROVE  BatchInv'
  BY <1>2, <1>3 DEF Post
<1>4. ASSUME NEW token \in Tokens, NEW key \in Keys \cup {None}, NEW b \in Bodies,
             Replayed(token, key, b)
      PROVE  BatchInv'
  BY <1>2, <1>4 DEF Replayed, Begin
<1>5. ASSUME NEW token \in Tokens, NEW key \in Keys \cup {None}, NEW p \in Papers,
             Submit(token, key, p)
      PROVE  BatchInv'
  BY <1>2, <1>5 DEF Submit
<1>6. CASE AddCir \/ AddClaim
  <2>1. req'.op # "bulk"
    BY <1>6 DEF AddCir, AddClaim, TypeOK, Request
  <2> QED
    BY <1>2, <2>1
<1>7. CASE Remember \/ BulkReply \/ Submitted \/ Crash
  BY <1>2, <1>7 DEF Remember, BulkReply, Submitted, Crash
<1>8. CASE UNCHANGED avars
  BY <1>8 DEF avars, corpus, BatchInv, Discipline, DistinctIds, Stored
<1> QED
  BY <1>1, <1>3, <1>4, <1>5, <1>6, <1>7, <1>8, BulkItemBatch DEF Next, Write

\* What has been stored is what Threads lets be attached.
LEMMA StoreAttaches ==
  ASSUME TypeOK, NEW i \in Ids, NEW b \in Body, Stores(i, b)
  PROVE  [Discourse!Next]_(Discourse!vars)
<1> DEFINE seen(j) == IF annotations[j] = None THEN None
                      ELSE [target |-> annotations[j].target,
                            in_reply_to |-> annotations[j].in_reply_to]
           post == [target |-> b.target, in_reply_to |-> b.in_reply_to]
           old == [j \in Ids |-> seen(j)]
           new == [j \in Ids |-> seen(j)']
<1>1. RowOf(b, i) # None /\ RowOf(b, i).target = b.target /\ RowOf(b, i).in_reply_to = b.in_reply_to
  BY RowOfType, AnnotationsAssumption DEF Row
<1>2. post \in [target : Target, in_reply_to : Ids \cup {None}] /\ post # None
  BY AnnotationsAssumption DEF Body
<1>3. CASE i \in Stored
  <2>1. annotations' = annotations
    BY <1>3 DEF Stores, TypeOK
  <2> QED
    BY <2>1 DEF Discourse!vars
<1>4. CASE i \notin Stored
  <2>1. seen(i) = None /\ seen(i)' = post /\ \A j \in Ids : j # i => seen(j)' = seen(j)
    BY <1>1, <1>4 DEF Stores, TypeOK, Stored
  <2>2. new = [old EXCEPT ![i] = post] /\ new[i] = post /\ old[i] = None
    BY <2>1
  <2>3. b.in_reply_to # None =>
          /\ b.in_reply_to \in Ids /\ annotations[b.in_reply_to] # None
          /\ b.target.type = "claim" /\ annotations[b.in_reply_to].target.type = "claim" =>
               b.target.id = annotations[b.in_reply_to].target.id
    BY DEF Stores, Valid, ReplyAccepted, Body
  <2>4. b.in_reply_to # None =>
          /\ old[b.in_reply_to] # None
          /\ old[b.in_reply_to].target = annotations[b.in_reply_to].target
    <3>1. ASSUME b.in_reply_to # None
          PROVE  /\ annotations[b.in_reply_to] \in Body
                 /\ old[b.in_reply_to] = [target |-> annotations[b.in_reply_to].target,
                                          in_reply_to |-> annotations[b.in_reply_to].in_reply_to]
      BY <2>3, <3>1 DEF TypeOK, Row
    <3> QED
      BY <3>1, AnnotationsAssumption DEF Body
  <2>5. Discourse!Attach(i)
    BY <1>2, <2>2, <2>3, <2>4
    DEF Discourse!Attach, Discourse!Posted, Discourse!Post, Discourse!OneClaim
  <2> QED
    BY <2>5 DEF Discourse!Next
<1> QED
  BY <1>3, <1>4

CarefulInv == TypeOK /\ RowsInv /\ BatchInv

LEMMA CarefulInit == Init => CarefulInv
  BY InitTypes DEF Init, CarefulInv, RowsInv, BatchInv, Stored

LEMMA CarefulInductive ==
  ASSUME Disciplined, CarefulInv, [Next]_avars
  PROVE  CarefulInv' /\ [Discourse!Next]_(Discourse!vars)
<1>1. TypeOK /\ RowsInv /\ BatchInv /\ TypeOK' /\ Grows
  BY TypesInductive, StepGrows DEF CarefulInv
<1>2. RowsInv' /\ BatchInv'
  BY <1>1, RowsKept, BatchInductive
<1>3. CASE annotations' = annotations
  BY <1>1, <1>2, <1>3 DEF CarefulInv, Discourse!vars
<1>4. ASSUME NEW i \in Ids, NEW b \in Body, Stores(i, b)
      PROVE  [Discourse!Next]_(Discourse!vars)
  BY <1>1, <1>4, StoreAttaches
<1> QED
  BY <1>1, <1>2, <1>3, <1>4 DEF Grows, CarefulInv

LEMMA BatchSafe == ASSUME CarefulInv PROVE BulkTruth
<1> SUFFICES ASSUME req # None, req.op = "bulk", Len(req.results) = Len(req.batch),
                    NEW n \in DOMAIN req.batch
             PROVE  IF req.results[n] # None
                    THEN annotations[req.results[n]] = RowOf(req.batch[n], req.results[n])
                    ELSE req.batch[n].id # None => annotations[req.batch[n].id] = None
  BY DEF BulkTruth
<1>1. req.batch \in Seq(Body) /\ req.results \in Seq(Ids \cup {None})
  BY AnnotationsAssumption DEF CarefulInv, TypeOK, Request
<1>2. n \in DOMAIN req.results
  BY <1>1
<1> QED
  BY <1>2 DEF CarefulInv, BatchInv

\* For clients that name an annotation once, POST /annotations and its bulk form
\* implement Threads: rows never change, replies hang on what was there before
\* them, on the same claim when both are about claims.
THEOREM ThreadRefinement == ASSUME Disciplined PROVE Spec => ImplementsThreads
<1>1. Init => Discourse!Init
  BY DEF Init, Discourse!Init
<1> QED
  BY <1>1, CarefulInit, CarefulInductive, PTL DEF Spec, ImplementsThreads, Discourse!Spec

\* ... and a bulk reply tells the truth: 201 items are stored as sent, refused
\* ones are not stored, also when the batch is sent again after a crash.
THEOREM BatchTruth == ASSUME Disciplined PROVE Spec => []BulkTruth
  BY CarefulInit, CarefulInductive, BatchSafe, PTL DEF Spec

-----------------------------------------------------------------------------
(***************************************************************************)
(* Readers only read.                                                      *)
(***************************************************************************)

\* A step of a reader leaves what the writers have as it is.
LEMMA ReadStep == ASSUME [ReadsNext]_rdvars PROVE [Next]_avars
<1>1. CASE Read
  BY <1>1 DEF Read, ReadRelevant, OpenList, OpenSnapshot, OpenPulse, AskSuperseded, AskLifted,
     AskReplication, Conclude, ReadPage, ListClaims, ListAnnotations, ListPapers, GetCir, CountRows,
     SaveBlob, SetLatest, LookUp, Gather, Keep, Rest, Elsewhere
<1>2. CASE Tick
  BY <1>2 DEF Tick
<1>3. CASE Die
  <2>1. CASE req = None
    BY <1>3, <2>1 DEF Die, avars
  <2>2. CASE req # None
    BY <1>3, <2>2 DEF Die, Next, Crash
  <2> QED
    BY <2>1, <2>2
<1>4. CASE Write
  BY <1>4 DEF Next
<1>5. CASE UNCHANGED rdvars
  BY <1>5 DEF rdvars
<1> QED
  BY <1>1, <1>2, <1>3, <1>4, <1>5 DEF ReadsNext

\* Beside readers of every kind, and when the process dies, the writers behave
\* as they do alone: what is proved of Spec holds of ReadsSpec.
THEOREM ReadersOnlyRead == ReadsSpec => Spec
<1>1. ReadsInit => Init
  BY DEF ReadsInit
<1> QED
  BY <1>1, ReadStep, PTL DEF ReadsSpec, Spec

-----------------------------------------------------------------------------
(***************************************************************************)
(* Statuses.                                                               *)
(***************************************************************************)

LEMMA OneRowMore ==
  ASSUME TypeOK, Grows, NEW i \in Ids, annotations[i] = None, annotations'[i] # None
  PROVE  /\ papers' = papers /\ Table' = Table \cup {annotations'[i]}
         /\ annotations'[i] \notin Table
         /\ \A a \in Table \cup {annotations'[i]} : a.id # None
<1>1. PICK b \in Body :
        /\ papers' = papers
        /\ annotations' = [annotations EXCEPT ![i] = RowOf(b, i)]
  <2>1. annotations' # annotations
    OBVIOUS
  <2>2. PICK k \in Ids, b \in Body : papers' = papers /\ Stores(k, b)
    BY <2>1 DEF Grows
  <2>3. k = i
    BY <2>2 DEF Stores, TypeOK
  <2> QED
    BY <2>2, <2>3 DEF Stores
<1>2. annotations'[i] = RowOf(b, i) /\ RowOf(b, i).id = i
  BY <1>1, RowOfType DEF TypeOK
<1>3. Stored' = Stored \cup {i} /\ i \notin Stored
  BY <1>1 DEF Stored, TypeOK
<1>4. \A j \in Stored : annotations'[j] = annotations[j] /\ annotations[j].id = j
  BY <1>1, <1>3 DEF TypeOK, Stored
<1>5. Table' = Table \cup {annotations'[i]}
  BY <1>3, <1>4 DEF Table
<1>6. \A a \in Table : a.id # i /\ a.id # None
  BY <1>3, <1>4, AnnotationsAssumption DEF Table, Stored
<1> QED
  BY <1>1, <1>2, <1>5, <1>6, AnnotationsAssumption

LEMMA StatusStep ==
  ASSUME IsFiniteSet(Ids), TypeOK, Grows, NEW c \in claims, NEW i \in Ids,
         annotations[i] = None, annotations'[i] # None, ~Correction(annotations'[i])
  PROVE  LET row == annotations'[i]
             before == StatusIn(c, Table, papers)
             after == StatusIn(c, Table', papers')
         IN /\ row.target.id # c.id \/ Retracted(c, Table) => after = before
            /\ Standing(c, Table) # {} /\ row.type = "replication"
               /\ ~Retracted(c, Table) /\ row.target.id = c.id =>
                 /\ row.outcome = "supports" => Rank(after) >= Rank(before)
                 /\ row.outcome = "contradicts" => Rank(after) <= Rank(before)
<1>1. PICK A, B, row : A = Table /\ B = Table' /\ row = annotations'[i]
  OBVIOUS
<1>2. PICK quorum : quorum = QuorumOf(c, papers)
  OBVIOUS
<1>3. /\ papers' = papers /\ B = A \cup {row} /\ row \notin A /\ \A a \in A \cup {row} : a.id # None
  BY <1>1, OneRowMore
<1>4. Plain(row)
  BY <1>1 DEF Correction, Plain
<1>5. quorum \in Nat
  BY <1>2, QuorumType DEF QuorumOf
<1>6. IsFiniteSet(A)
  <2>1. IsFiniteSet(Stored)
    BY FS_Subset DEF Stored
  <2> DEFINE row_of == [j \in Stored |-> annotations[j]]
  <2>2. row_of \in Surjection(Stored, Table)
    BY DEF Surjection, Table
  <2> QED
    BY <1>1, <2>1, <2>2, FS_Surjection
<1>7. /\ StatusIn(c, Table, papers) = Status(c, A, quorum)
      /\ StatusIn(c, Table', papers') = Status(c, A \cup {row}, quorum)
  BY <1>1, <1>2, <1>3 DEF StatusIn
<1>8. row.target.id # c.id \/ Retracted(c, A) => Status(c, A \cup {row}, quorum) = Status(c, A, quorum)
  BY <1>3, <1>4, OtherClaim, StaysRetracted
<1>9. Standing(c, A) # {} /\ row.type = "replication" /\ ~Retracted(c, A) =>
        /\ row.outcome = "supports" =>
             Rank(Status(c, A \cup {row}, quorum)) >= Rank(Status(c, A, quorum))
        /\ row.outcome = "contradicts" =>
             Rank(Status(c, A \cup {row}, quorum)) <= Rank(Status(c, A, quorum))
  BY <1>3, <1>4, <1>5, <1>6, ReplicationMore
<1> QED
  BY <1>1, <1>7, <1>8, <1>9

\* A post that corrects no other never moves the status of a claim it is not
\* about, never undoes a retraction, and among standing replications support
\* never lowers a status and a contradiction never raises it.
THEOREM StatusesMonotone ==
  ASSUME Disciplined, IsFiniteSet(Ids) PROVE ReadsSpec => StatusMonotone
<1>1. CarefulInv /\ [Next]_avars => Grows /\ TypeOK
  BY StepGrows DEF CarefulInv
<1>2. Grows /\ TypeOK =>
        [\A c \in claims, i \in Ids :
           LET row == annotations'[i]
               before == StatusIn(c, Table, papers)
               after == StatusIn(c, Table', papers')
           IN annotations[i] = None /\ row # None /\ ~Correction(row) =>
                /\ row.target.id # c.id \/ Retracted(c, Table) => after = before
                /\ Standing(c, Table) # {} /\ row.type = "replication"
                   /\ ~Retracted(c, Table) /\ row.target.id = c.id =>
                     /\ row.outcome = "supports" => Rank(after) >= Rank(before)
                     /\ row.outcome = "contradicts" => Rank(after) <= Rank(before)]_annotations
  BY StatusStep
<1> QED
  BY <1>1, <1>2, CarefulInit, CarefulInductive, ReadersOnlyRead, PTL DEF Spec, StatusMonotone

-----------------------------------------------------------------------------
(***************************************************************************)
(* Reads beside any writers: what a read of several steps may conclude     *)
(* from tables that grow under it.                                         *)
(***************************************************************************)

LEMMA LeastOf ==
  ASSUME NEW S \in SUBSET Nat, S # {}
  PROVE  \E m \in S : \A k \in S : m <= k
<1> DEFINE R == OpToRel(<, Nat)
<1>1. PICK x \in S : \A y \in S : <<y, x>> \notin R
  <2>1. IsWellFoundedOn(R, Nat)
    BY NatLessThanWellFounded
  <2> HIDE DEF R
  <2> QED
    BY <2>1, WFMin
<1>2. ASSUME NEW y \in S PROVE x <= y
  <2>1. <<y, x>> \notin {p \in Nat \X Nat : p[1] < p[2]}
    BY <1>1 DEF OpToRel
  <2> QED
    BY <2>1
<1> QED
  BY <1>2

-----------------------------------------------------------------------------
(***************************************************************************)
(* What any client's writes do to the tables: rows are added, one at a     *)
(* time, and none is removed.                                              *)
(***************************************************************************)

Adds ==
  /\ papers' = papers \/ \E p : papers' = papers \cup {p}
  /\ claims' = claims \/ \E c : claims' = {d \in claims : d.id # c.id} \cup {c}
  /\ cirs \subseteq cirs'
  /\ \/ annotations' = annotations
     \/ \E i \in Ids, b \in Body :
          Valid(b, i) /\ annotations' = [annotations EXCEPT ![i] = RowOf(b, i)]

LEMMA StepAdds == ASSUME TypeOK, [Next]_avars PROVE Adds
<1>1. ASSUME NEW token \in Tokens, NEW key \in Keys \cup {None}, NEW b \in Bodies,
             Post(token, key, b)
      PROVE  Adds
  <2>1. b \in Body
    BY AnnotationsAssumption
  <2> QED
    BY <1>1, <2>1 DEF Post, Adds
<1>2. CASE BulkItem
  <2>1. Item \in Body
    BY <1>2, BulkAt DEF BulkItem
  <2>2. PICK i \in Ids :
          \/ Valid(Item, i) /\ annotations' = [annotations EXCEPT ![i] = RowOf(Item, i)]
          \/ annotations' = annotations
    BY <1>2 DEF BulkItem
  <2>3. UNCHANGED <<papers, cirs, claims>>
    BY <1>2 DEF BulkItem
  <2> QED
    BY <2>1, <2>2, <2>3 DEF Adds
<1>3. ASSUME NEW token \in Tokens, NEW key \in Keys \cup {None}, NEW b \in Bodies,
             Replayed(token, key, b)
      PROVE  Adds
  BY <1>3 DEF Replayed, corpus, Adds
<1>4. ASSUME NEW token \in Tokens, NEW key \in Keys \cup {None}, NEW p \in Papers,
             Submit(token, key, p)
      PROVE  Adds
  BY <1>4 DEF Submit, Adds
<1>5. CASE AddCir \/ AddClaim
  BY <1>5 DEF AddCir, AddClaim, Adds
<1>6. CASE Remember \/ BulkReply \/ Submitted \/ Crash \/ \E batch \in Batches : Bulk(batch)
  BY <1>6 DEF Remember, BulkReply, Submitted, Crash, Bulk, corpus, Adds
<1>7. CASE UNCHANGED avars
  BY <1>7 DEF avars, corpus, Adds
<1> QED
  BY <1>1, <1>2, <1>3, <1>4, <1>5, <1>6, <1>7 DEF Next, Write

\* One row more, or another row of the same id.
LEMMA StoredAdds ==
  ASSUME TypeOK, Adds
  PROVE  /\ Stored \subseteq Stored'
         /\ Stored' = Stored \/ \E i : Stored' = Stored \cup {i}
<1>1. ASSUME NEW i \in Ids, NEW b \in Body,
             annotations' = [annotations EXCEPT ![i] = RowOf(b, i)]
      PROVE  Stored' = Stored \cup {i}
  <2>1. RowOf(b, i) # None
    BY RowOfType, AnnotationsAssumption DEF Row
  <2> QED
    BY <1>1, <2>1 DEF Stored, TypeOK
<1> QED
  BY <1>1 DEF Adds, Stored

\* Tables that started finite are finite; claims keep one row to an id.
Small == IsFiniteSet(papers) /\ IsFiniteSet(claims) /\ IsFiniteSet(Stored) /\ Keyed(claims)

FiniteSeed == IsFiniteSet(Seeded) /\ IsFiniteSet(UNION {p.claims : p \in Seeded})

LEMMA SmallKept == ASSUME TypeOK, Small, Adds PROVE Small'
<1>1. ASSUME NEW S, NEW T, IsFiniteSet(S), T = S \/ \E x : T = S \cup {x}
      PROVE  IsFiniteSet(T)
  BY <1>1, FS_AddElement
<1>2. PICK A, B, C, A1, B1, C1 :
        /\ A = papers /\ B = claims /\ C = Stored
        /\ A1 = papers' /\ B1 = claims' /\ C1 = Stored'
  OBVIOUS
<1>3. /\ A1 = A \/ \E p : A1 = A \cup {p}
      /\ B1 = B \/ \E c : B1 = {d \in B : d.id # c.id} \cup {c}
      /\ C1 = C \/ \E p : C1 = C \cup {p}
  BY <1>2, StoredAdds DEF Adds
<1>4. IsFiniteSet(A) /\ IsFiniteSet(B) /\ IsFiniteSet(C)
  BY <1>2 DEF Small
<1>5. IsFiniteSet(A1) /\ IsFiniteSet(C1)
  BY <1>1, <1>3, <1>4
<1>6. Keyed(B)
  BY <1>2 DEF Small
<1>7. IsFiniteSet(B1) /\ Keyed(B1)
  <2>1. CASE B1 = B
    BY <1>4, <1>6, <2>1
  <2>2. ASSUME NEW c, B1 = {d \in B : d.id # c.id} \cup {c}
        PROVE  IsFiniteSet(B1) /\ Keyed(B1)
    <3>1. IsFiniteSet({d \in B : d.id # c.id})
      BY <1>4, FS_Subset
    <3>2. IsFiniteSet(B1)
      BY <2>2, <3>1, FS_AddElement
    <3>3. Keyed(B1)
      BY <1>6, <2>2 DEF Keyed
    <3> QED
      BY <3>2, <3>3
  <2> QED
    BY <1>3, <2>1, <2>2
<1> QED
  BY <1>2, <1>5, <1>7 DEF Small

\* A row that takes the place of the one with its id.
LEMMA Replaced ==
  ASSUME NEW B, IsFiniteSet(B), Keyed(B), NEW c
  PROVE  Cardinality(B) <= Cardinality({d \in B : d.id # c.id} \cup {c})
<1> DEFINE Others == {d \in B : d.id # c.id}
<1>1. IsFiniteSet(Others) /\ c \notin Others
  BY FS_Subset
<1>2. Others = B \/ \E e \in B : B = Others \cup {e} /\ e \notin Others
  <2>1. CASE \E e \in B : e.id = c.id
    BY <2>1 DEF Keyed
  <2>2. CASE ~\E e \in B : e.id = c.id
    BY <2>2
  <2> QED
    BY <2>1, <2>2
<1> HIDE DEF Others
<1>3. /\ Cardinality(Others) \in Nat
      /\ \A x : x \notin Others => Cardinality(Others \cup {x}) = Cardinality(Others) + 1
  BY <1>1, FS_AddElement, FS_CardinalityType
<1>4. Cardinality(Others \cup {c}) = Cardinality(Others) + 1
  BY <1>1, <1>3
<1>5. Cardinality(B) = Cardinality(Others) \/ Cardinality(B) = Cardinality(Others) + 1
  BY <1>2, <1>3
<1>6. Cardinality(B) <= Cardinality(Others \cup {c})
  BY <1>3, <1>4, <1>5
<1> QED
  BY <1>6 DEF Others

\* Counts of finite tables grow with them.
LEMMA CountsGrow ==
  ASSUME TypeOK, Small, Adds
  PROVE  /\ Cardinality(papers) \in Nat /\ Cardinality(papers') \in Nat
         /\ Cardinality(claims) \in Nat /\ Cardinality(claims') \in Nat
         /\ Cardinality(Stored) \in Nat /\ Cardinality(Stored') \in Nat
         /\ Cardinality(papers) <= Cardinality(papers')
         /\ Cardinality(claims) <= Cardinality(claims')
         /\ Cardinality(Stored) <= Cardinality(Stored')
<1>1. ASSUME NEW S, NEW T, IsFiniteSet(T), S \subseteq T
      PROVE  /\ Cardinality(S) \in Nat /\ Cardinality(T) \in Nat
             /\ Cardinality(S) <= Cardinality(T)
  BY <1>1, FS_CardinalityType, FS_Subset
<1>2. PICK A, B, C, A1, B1, C1 :
        /\ A = papers /\ B = claims /\ C = Stored
        /\ A1 = papers' /\ B1 = claims' /\ C1 = Stored'
  OBVIOUS
<1>3. IsFiniteSet(A1) /\ IsFiniteSet(B1) /\ IsFiniteSet(C1)
  BY <1>2, SmallKept DEF Small
<1>4. A \subseteq A1 /\ C \subseteq C1
  BY <1>2, StoredAdds DEF Adds
<1>6. /\ Cardinality(B) \in Nat /\ Cardinality(B1) \in Nat /\ Cardinality(B) <= Cardinality(B1)
  <2>1. IsFiniteSet(B) /\ Keyed(B)
    BY <1>2 DEF Small
  <2>2. CASE B1 = B
    BY <2>1, <2>2, FS_CardinalityType
  <2>3. ASSUME NEW c, B1 = {d \in B : d.id # c.id} \cup {c}
        PROVE  Cardinality(B) <= Cardinality(B1)
    BY <2>1, <2>3, Replaced
  <2>4. B1 = B \/ \E c : B1 = {d \in B : d.id # c.id} \cup {c}
    BY <1>2 DEF Adds
  <2> QED
    BY <1>3, <2>1, <2>2, <2>3, <2>4, FS_CardinalityType
<1>5. /\ Cardinality(A) \in Nat /\ Cardinality(A1) \in Nat /\ Cardinality(A) <= Cardinality(A1)
      /\ Cardinality(C) \in Nat /\ Cardinality(C1) \in Nat /\ Cardinality(C) <= Cardinality(C1)
  BY <1>1, <1>3, <1>4
<1> QED
  BY <1>2, <1>5, <1>6

-----------------------------------------------------------------------------
(***************************************************************************)
(* The order of a listing, and its pages.                                  *)
(***************************************************************************)

LEMMA Minimal ==
  ASSUME NEW K, IsFiniteSet(K), K # {}, NEW R,
         \A x, y, z \in K : <<x, y>> \in R /\ <<y, z>> \in R => <<x, z>> \in R,
         \A x \in K : <<x, x>> \notin R
  PROVE  \E k \in K : \A j \in K : <<j, k>> \notin R
<1> DEFINE Under(x) == {y \in K : <<y, x>> \in R}
           Sizes == {Cardinality(Under(x)) : x \in K}
<1>1. \A x \in K : IsFiniteSet(Under(x)) /\ Cardinality(Under(x)) \in Nat
  BY FS_Subset, FS_CardinalityType
<1> HIDE DEF Under
<1>2. Sizes \in SUBSET Nat /\ Sizes # {}
  BY <1>1
<1>3. PICK m \in Sizes : \A n \in Sizes : m <= n
  <2> HIDE DEF Sizes
  <2> QED
    BY <1>2, LeastOf
<1>4. PICK k \in K : m = Cardinality(Under(k))
  OBVIOUS
<1>5. ASSUME NEW j \in K, <<j, k>> \in R PROVE FALSE
  <2>1. Under(j) \subseteq Under(k) /\ j \in Under(k) /\ j \notin Under(j)
    BY <1>5 DEF Under
  <2>2. IsFiniteSet(Under(j)) /\ IsFiniteSet(Under(k))
    BY <1>1
  <2>3. m <= Cardinality(Under(j)) /\ Cardinality(Under(j)) \in Nat /\ Cardinality(Under(k)) \in Nat
    BY <1>1, <1>3
  <2>4. Cardinality(Under(j)) < Cardinality(Under(k))
    BY <2>1, <2>2, <2>3, FS_Subset
  <2> QED
    BY <1>4, <2>3, <2>4
<1> QED
  BY <1>5

LEMMA KeysOrdered ==
  ASSUME TypeOK, NEW i \in Stored, NEW j \in Stored
  PROVE  /\ Key(i) \in Nat \X Nat
         /\ ~Below(Key(i), Key(i))
         /\ i = j \/ Below(Key(i), Key(j)) \/ Below(Key(j), Key(i))
         /\ ~(Below(Key(i), Key(j)) /\ Below(Key(j), Key(i)))
         /\ \A anchor \in Nat \X Nat :
              Below(Key(i), Key(j)) /\ Below(Key(j), anchor) => Below(Key(i), anchor)
<1>1. annotations[i].created_at \in Nat /\ annotations[j].created_at \in Nat
  BY DEF TypeOK, Stored, Row, Body
<1>2. i \in Nat /\ j \in Nat
  BY AnnotationsAssumption DEF Stored
<1> QED
  BY <1>1, <1>2 DEF Key, Below

LEMMA LowestOf ==
  ASSUME TypeOK, NEW rows \in SUBSET Stored, IsFiniteSet(rows), rows # {}
  PROVE  \E l \in rows : \A j \in rows : j = l \/ Below(Key(l), Key(j))
<1> DEFINE R == {p \in rows \X rows : Below(Key(p[1]), Key(p[2]))}
<1>1. \A x, y \in rows : <<x, y>> \in R <=> Below(Key(x), Key(y))
  OBVIOUS
<1>2. \A x \in rows : Key(x) \in Nat \X Nat
  BY KeysOrdered
<1>3. \A x, y, z \in rows : Below(Key(x), Key(y)) /\ Below(Key(y), Key(z)) => Below(Key(x), Key(z))
  BY <1>2, KeysOrdered
<1>4. \A x \in rows : ~Below(Key(x), Key(x))
  BY KeysOrdered
<1> HIDE DEF R
<1>5. \A x, y, z \in rows : <<x, y>> \in R /\ <<y, z>> \in R => <<x, z>> \in R
  BY <1>1, <1>3
<1>6. \A x \in rows : <<x, x>> \notin R
  BY <1>1, <1>4
<1>7. PICK l \in rows : \A j \in rows : <<j, l>> \notin R
  BY <1>5, <1>6, Minimal
<1> QED
  BY <1>1, <1>7, KeysOrdered

LEMMA HighestOf ==
  ASSUME TypeOK, NEW rows \in SUBSET Stored, IsFiniteSet(rows), rows # {}
  PROVE  \E l \in rows : \A j \in rows : ~Below(Key(l), Key(j))
<1> DEFINE R == {p \in rows \X rows : Below(Key(p[2]), Key(p[1]))}
<1>1. \A x, y \in rows : <<x, y>> \in R <=> Below(Key(y), Key(x))
  OBVIOUS
<1>2. \A x \in rows : Key(x) \in Nat \X Nat
  BY KeysOrdered
<1>3. \A x, y, z \in rows : Below(Key(x), Key(y)) /\ Below(Key(y), Key(z)) => Below(Key(x), Key(z))
  BY <1>2, KeysOrdered
<1>4. \A x \in rows : ~Below(Key(x), Key(x))
  BY KeysOrdered
<1> HIDE DEF R
<1>5. /\ \A x, y, z \in rows : <<x, y>> \in R /\ <<y, z>> \in R => <<x, z>> \in R
      /\ \A x \in rows : <<x, x>> \notin R
  BY <1>1, <1>3, <1>4
<1>6. PICK l \in rows : \A j \in rows : <<j, l>> \notin R
  BY <1>5, Minimal
<1> QED
  BY <1>1, <1>6

\* A page that is not all that is left has a lowest row, below which is all
\* that it leaves.
LEMMA PageLowest ==
  ASSUME TypeOK, IsFiniteSet(Stored), NEW rest \in SUBSET Stored, PageOf(rest) # rest
  PROVE  \E l \in PageOf(rest) :
           /\ \A j \in PageOf(rest) : j = l \/ Below(Key(l), Key(j))
           /\ \A i \in rest \ PageOf(rest) : Below(Key(i), Key(l))
<1> DEFINE Over(i) == {j \in rest : Below(Key(i), Key(j))}
           page == PageOf(rest)
<1>1. page = {i \in rest : Cardinality(Over(i)) < Limit}
  BY DEF PageOf
<1>2. IsFiniteSet(rest) /\ IsFiniteSet(page) /\ rest # {} /\ page \subseteq rest
  BY <1>1, FS_Subset
<1>3. page # {}
  <2>1. PICK h \in rest : \A j \in rest : ~Below(Key(h), Key(j))
    BY <1>2, HighestOf
  <2>2. Over(h) = {}
    BY <2>1
  <2>3. Cardinality(Over(h)) = 0
    BY <2>2, FS_EmptySet
  <2> QED
    BY <1>1, <2>3, ReadsAssumption
<1> HIDE DEF page
<1>4. PICK l \in page : \A j \in page : j = l \/ Below(Key(l), Key(j))
  BY <1>2, <1>3, LowestOf
<1>5. ASSUME NEW i \in rest, i \notin page PROVE Below(Key(i), Key(l))
  <2>1. SUFFICES ASSUME Below(Key(l), Key(i)) PROVE FALSE
    BY <1>2, <1>4, <1>5, KeysOrdered
  <2>2. \A j \in rest : Key(j) \in Nat \X Nat
    BY KeysOrdered
  <2>3. Over(i) \subseteq Over(l)
    BY <1>2, <2>1, <2>2, KeysOrdered
  <2>4. IsFiniteSet(Over(l)) /\ IsFiniteSet(Over(i))
    BY <1>2, FS_Subset
  <2> HIDE DEF Over
  <2>5. /\ Cardinality(Over(i)) \in Nat /\ Cardinality(Over(l)) \in Nat
        /\ Cardinality(Over(i)) <= Cardinality(Over(l))
    BY <2>3, <2>4, FS_Subset, FS_CardinalityType
  <2>6. Limit \in Nat /\ Cardinality(Over(l)) < Limit /\ ~(Cardinality(Over(i)) < Limit)
    BY <1>1, <1>4, <1>5, ReadsAssumption
  <2> QED
    BY <2>5, <2>6
<1> QED
  BY <1>4, <1>5 DEF page

-----------------------------------------------------------------------------
(***************************************************************************)
(* What a read carries.                                                    *)
(***************************************************************************)
StatusReads ==
  [op : {"status"}, step : {"retractions", "lifted", "done"}, claim : Claim,
   asked : Row \cup {None}, retractions : SUBSET Row, replications : SUBSET Row,
   standing : SUBSET Row, answer : Statuses \cup {None}]
PageReads ==
  [op : {"page"}, step : {"next", "done"}, anchor : (Nat \X Nat) \cup {None},
   start : SUBSET Ids, shown : SUBSET Ids, twice : BOOLEAN]
SnapshotReads ==
  [op : {"snapshot"}, step : {"claims", "annotations", "papers", "cirs"}, id : SnapIds,
   papers : SUBSET Papers, claims : SUBSET Claim, annotations : SUBSET Row,
   cirs : SUBSET Papers, left : SUBSET Papers, counts : Seq(Nat)]
Manifests == [snapshot_id : SnapIds, papers : Nat, claims : Nat, annotations : Nat]
SavedReads == [op : {"snapshot"}, step : {"manifest"}, manifest : Manifests]
OpenPulses == [op : {"pulse"}, step : {"lookup"}, papers : Nat]
Totals == [papers : Nat, claims : Nat, annotations : Nat]
PulseReads ==
  [op : {"pulse"}, step : {"papers", "claims", "annotations", "keep", "done"},
   key : Nat \X Nat, at : Nat, papers : Nat, claims : Nat, annotations : Nat,
   answer : Totals \cup {None}]
Tarballs ==
  [papers : SUBSET Papers, claims : SUBSET Claim, annotations : SUBSET Row, cirs : SUBSET Papers]

ReadTypes ==
  /\ rd \in StatusReads \cup PageReads \cup SnapshotReads \cup SavedReads \cup OpenPulses
            \cup PulseReads \cup {None}
  /\ clock \in 0 .. Horizon /\ begun \in [0 .. Horizon -> Nat]
  /\ DOMAIN cache \subseteq Nat \X Nat
  /\ \A k \in DOMAIN cache : cache[k] \in [at : Nat, value : Totals]
  /\ blobs \in [SnapIds -> Tarballs \cup {None}]
  /\ latest \in Manifests \cup {None}

LEMMA TableType == ASSUME TypeOK PROVE Table \in SUBSET Row
  BY DEF TypeOK, Table, Stored

LEMMA ClaimsType == ASSUME TypeOK PROVE claims \subseteq Claim
<1>1. \A p \in Papers : p.claims \subseteq Claim
  BY AnnotationsAssumption DEF Paper
<1> QED
  BY <1>1 DEF TypeOK

LEMMA StatusType ==
  ASSUME NEW reps, NEW c \in Claim, NEW quorum
  PROVE  FromReplications(reps, c.replication_status, quorum) \in Statuses
  BY DEF FromReplications, Statuses

\* The records a status read goes through.
LEMMA StatusReadTypes ==
  ASSUME TypeOK, ReadTypes,
         ReadRelevant \/ AskSuperseded \/ AskLifted \/ AskReplication \/ Conclude
  PROVE  rd' \in StatusReads
<1>1. CASE ReadRelevant
  BY <1>1, TableType, ClaimsType DEF ReadRelevant, StatusReads, OfType, About
<1>2. ASSUME In("status", "retractions") \/ In("status", "lifted")
      PROVE  rd \in StatusReads
  BY <1>2 DEF In, ReadTypes, PageReads, SnapshotReads, SavedReads, OpenPulses, PulseReads
<1>3. CASE AskSuperseded
  BY <1>2, <1>3 DEF AskSuperseded, StatusReads
<1>4. CASE AskLifted
  <2>1. PICK lifted \in BOOLEAN : lifted = Lifted(rd.asked, Table)
    BY DEF Lifted
  <2>2. rd' = IF lifted
              THEN [rd EXCEPT !.retractions = @ \ {rd.asked}, !.step = "retractions", !.asked = None]
              ELSE [rd EXCEPT !.answer = "retracted", !.step = "done", !.asked = None]
    BY <1>4, <2>1 DEF AskLifted
  <2>3. rd \in StatusReads
    BY <1>2, <1>4 DEF AskLifted
  <2> QED
    BY <2>2, <2>3 DEF StatusReads, Statuses
<1>5. CASE AskReplication
  <2>1. PICK a \in rd.replications :
          rd' = [rd EXCEPT !.replications = @ \ {a},
                           !.standing = IF Superseded(a, Table) THEN @ ELSE @ \cup {a}]
    BY <1>5 DEF AskReplication
  <2>2. PICK standing : standing = IF Superseded(a, Table) THEN rd.standing ELSE rd.standing \cup {a}
    OBVIOUS
  <2>3. rd' = [rd EXCEPT !.replications = @ \ {a}, !.standing = standing]
    BY <2>1, <2>2
  <2>4. rd \in StatusReads
    BY <1>2, <1>5 DEF AskReplication
  <2>5. standing \in SUBSET Row
    BY <2>2, <2>4 DEF StatusReads
  <2> QED
    BY <2>3, <2>4, <2>5 DEF StatusReads
<1>6. CASE Conclude
  <2>1. PICK answer : answer = FromReplications(rd.standing, rd.claim.replication_status,
                                                QuorumOf(rd.claim, papers))
    OBVIOUS
  <2>2. answer \in Statuses
    BY <1>2, <1>6, <2>1, StatusType DEF Conclude, StatusReads
  <2>3. rd' = [rd EXCEPT !.step = "done", !.answer = answer]
    BY <1>6, <2>1 DEF Conclude
  <2> QED
    BY <1>2, <1>6, <2>2, <2>3 DEF Conclude, StatusReads
<1> QED
  BY <1>1, <1>3, <1>4, <1>5, <1>6

LEMMA PageReadTypes ==
  ASSUME TypeOK, ReadTypes, IsFiniteSet(Stored), OpenList \/ ReadPage
  PROVE  rd' \in PageReads
<1>1. CASE OpenList
  BY <1>1 DEF OpenList, PageReads, Stored
<1>2. CASE ReadPage
  <2>1. rd \in PageReads
    BY <1>2 DEF ReadPage, In, ReadTypes, StatusReads, SnapshotReads, SavedReads, OpenPulses, PulseReads
  <2>2. PICK rest, page : rest = After(rd.anchor) /\ page = PageOf(After(rd.anchor))
    OBVIOUS
  <2> DEFINE Lowest(i) == \A j \in page : j = i \/ Below(Key(i), Key(j))
             step == IF page = rest THEN "done" ELSE "next"
             anchor == IF page = rest THEN None ELSE Key(CHOOSE i \in page : Lowest(i))
  <2>3. rest \in SUBSET Stored /\ page \subseteq Ids
    BY <2>2 DEF After, PageOf, Stored
  <2>4. anchor \in (Nat \X Nat) \cup {None}
    <3>1. CASE page = rest
      BY <3>1
    <3>2. CASE page # rest
      <4>1. \E l \in page : Lowest(l)
        BY <2>2, <2>3, <3>2, PageLowest
      <4> HIDE DEF Lowest
      <4>2. (CHOOSE i \in page : Lowest(i)) \in page
        BY <4>1
      <4>3. page \subseteq Stored
        BY <2>2, <2>3 DEF PageOf
      <4> QED
        BY <3>2, <4>2, <4>3, KeysOrdered
    <3> QED
      BY <3>1, <3>2
  <2>5. rd' = [rd EXCEPT !.shown = @ \cup page, !.twice = @ \/ page \cap rd.shown # {},
                         !.step = step, !.anchor = anchor]
    BY <1>2, <2>2 DEF ReadPage
  <2>6. rd' = [op |-> "page", step |-> step, anchor |-> anchor, start |-> rd.start,
               shown |-> rd.shown \cup page, twice |-> rd.twice \/ page \cap rd.shown # {}]
    BY <2>1, <2>5 DEF PageReads
  <2> HIDE DEF anchor
  <2>7. (rd.twice \/ page \cap rd.shown # {}) \in BOOLEAN /\ step \in {"next", "done"}
    OBVIOUS
  <2> QED
    BY <2>1, <2>3, <2>4, <2>6, <2>7 DEF PageReads
<1> QED
  BY <1>1, <1>2

LEMMA ShortSeq ==
  ASSUME NEW s \in Seq(Nat), Len(s) < 3
  PROVE  Len(s) + 1 \in {1, 2, 3} /\ Len(s) \in {0, 1, 2}
<1>1. PICK n \in Nat : n = Len(s)
  OBVIOUS
<1>2. n = 0 \/ n = 1 \/ n = 2
  BY <1>1
<1>3. n + 1 \in {1, 2, 3} /\ n \in {0, 1, 2}
  BY <1>2
<1> QED
  BY <1>1, <1>3

LEMMA SnapshotReadTypes ==
  ASSUME TypeOK, ReadTypes, Small,
         \/ OpenSnapshot \/ ListClaims \/ ListAnnotations \/ ListPapers \/ GetCir \/ CountRows
         \/ SaveBlob \/ SetLatest
  PROVE  /\ rd' \in SnapshotReads \cup SavedReads \cup {None}
         /\ blobs' \in [SnapIds -> Tarballs \cup {None}] /\ latest' \in Manifests \cup {None}
<1>1. CASE OpenSnapshot
  BY <1>1 DEF OpenSnapshot, Unpublished, ReadTypes, SnapshotReads, TypeOK
<1>2. ASSUME rd # None, rd.op = "snapshot", rd.step # "manifest"
      PROVE  rd \in SnapshotReads
  BY <1>2 DEF ReadTypes, PageReads, StatusReads, SavedReads, OpenPulses, PulseReads
<1>3. CASE ListClaims
  BY <1>2, <1>3, ClaimsType DEF ListClaims, In, Unpublished, ReadTypes, SnapshotReads
<1>4. CASE ListAnnotations
  BY <1>2, <1>4, TableType DEF ListAnnotations, In, Unpublished, ReadTypes, SnapshotReads
<1>5. CASE ListPapers
  BY <1>2, <1>5 DEF ListPapers, In, Unpublished, ReadTypes, SnapshotReads, TypeOK
<1>6. CASE GetCir
  <2>1. PICK p \in rd.left : rd' = [rd EXCEPT !.left = @ \ {p}, !.cirs = @ \cup ({p} \cap cirs)]
    BY <1>6 DEF GetCir
  <2>2. rd \in SnapshotReads /\ UNCHANGED <<blobs, latest>>
    BY <1>2, <1>6 DEF GetCir, In, Unpublished
  <2> QED
    BY <2>1, <2>2 DEF ReadTypes, SnapshotReads, TypeOK
<1>9. CASE CountRows
  <2>4. In("snapshot", "cirs") /\ Len(rd.counts) < 3 /\ UNCHANGED <<blobs, latest>>
    BY <1>9 DEF CountRows, Unpublished
  <2>5. rd \in SnapshotReads
    BY <1>2, <2>4 DEF In
  <2>6. rd.counts \in Seq(Nat)
    BY <2>5 DEF SnapshotReads
  <2>1. Len(rd.counts) + 1 \in {1, 2, 3}
    BY <2>4, <2>6, ShortSeq
  <2>2. /\ Cardinality(papers) \in Nat /\ Cardinality(claims) \in Nat /\ Cardinality(Stored) \in Nat
    BY FS_CardinalityType DEF Small
  <2>9. <<Cardinality(papers), Cardinality(claims), Cardinality(Stored)>>[Len(rd.counts) + 1] \in Nat
    BY <2>1, <2>2
  <2>3. PICK n \in Nat : rd' = [rd EXCEPT !.counts = Append(@, n)]
    BY <1>9, <2>9 DEF CountRows
  <2>7. Append(rd.counts, n) \in Seq(Nat)
    BY <2>6
  <2>8. rd' \in SnapshotReads
    BY <2>3, <2>5, <2>7 DEF SnapshotReads
  <2> QED
    BY <2>4, <2>8 DEF ReadTypes
<1>7. CASE SaveBlob
  <2>1. rd \in SnapshotReads /\ Len(rd.counts) = 3
    BY <1>2, <1>7 DEF SaveBlob, In
  <2>2. [papers |-> rd.papers, claims |-> rd.claims, annotations |-> rd.annotations,
         cirs |-> rd.cirs] \in Tarballs
    BY <2>1 DEF SnapshotReads, Tarballs
  <2>3. rd.counts[1] \in Nat /\ rd.counts[2] \in Nat /\ rd.counts[3] \in Nat
    BY <2>1 DEF SnapshotReads
  <2>4. Manifest \in Manifests
    BY <2>1, <2>3 DEF Manifest, Manifests, SnapshotReads
  <2>5. rd' \in SavedReads
    BY <1>7, <2>4 DEF SaveBlob, SavedReads
  <2> QED
    BY <1>7, <2>2, <2>5 DEF SaveBlob, ReadTypes
<1>8. CASE SetLatest
  <2>1. rd \in SavedReads
    BY <1>8 DEF SetLatest, In, ReadTypes, PageReads, StatusReads, SnapshotReads, OpenPulses, PulseReads
  <2> QED
    BY <1>8, <2>1 DEF SetLatest, ReadTypes, SavedReads
<1> QED
  BY <1>1, <1>3, <1>4, <1>5, <1>6, <1>7, <1>8, <1>9

LEMMA PulseReadTypes ==
  ASSUME TypeOK, ReadTypes, Small, OpenPulse \/ LookUp \/ Gather \/ Keep
  PROVE  /\ rd' \in OpenPulses \cup PulseReads
         /\ DOMAIN cache' \subseteq Nat \X Nat
         /\ \A k \in DOMAIN cache' : cache'[k] \in [at : Nat, value : Totals]
<1>1. PICK m \in Nat, n \in Nat, o \in Nat :
        m = Cardinality(papers) /\ n = Cardinality(claims) /\ o = Cardinality(Stored)
  BY FS_CardinalityType DEF Small
<1>2. clock \in Nat
  BY ReadsAssumption DEF ReadTypes
<1>3. ASSUME rd # None, rd.op = "pulse"
      PROVE  rd \in OpenPulses \cup PulseReads
  BY <1>3 DEF ReadTypes, PageReads, StatusReads, SnapshotReads, SavedReads
<1>4. CASE OpenPulse
  BY <1>1, <1>4 DEF OpenPulse, Unpublished, ReadTypes, OpenPulses
<1>5. CASE LookUp
  <2>1. rd \in OpenPulses
    BY <1>3, <1>5 DEF LookUp, In, PulseReads
  <2>2. PICK k : k = <<rd.papers, o>>
    OBVIOUS
  <2>3. rd' = [op |-> "pulse", step |-> IF Good(k) THEN "done" ELSE "papers",
               key |-> k, at |-> clock, papers |-> 0, claims |-> 0, annotations |-> 0,
               answer |-> IF Good(k) THEN cache[k].value ELSE None]
    BY <1>1, <1>5, <2>2 DEF LookUp
  <2>4. k \in Nat \X Nat
    BY <2>1, <2>2 DEF OpenPulses
  <2>5. (IF Good(k) THEN cache[k].value ELSE None) \in Totals \cup {None}
    BY DEF Good, ReadTypes
  <2>6. rd' \in PulseReads
    BY <1>2, <2>3, <2>4, <2>5 DEF PulseReads
  <2> QED
    BY <1>5, <2>6 DEF LookUp, Unpublished, ReadTypes
<1>6. CASE Gather
  <2>1. rd \in PulseReads
    BY <1>3, <1>6 DEF Gather, OpenPulses
  <2>2. \/ rd' = [rd EXCEPT !.papers = m, !.step = "claims"]
        \/ rd' = [rd EXCEPT !.claims = n, !.step = "annotations"]
        \/ rd' = [rd EXCEPT !.annotations = o, !.step = "keep"]
    BY <1>1, <1>6 DEF Gather
  <2>3. rd' \in PulseReads
    BY <2>1, <2>2 DEF PulseReads
  <2> QED
    BY <1>6, <2>3 DEF Gather, Unpublished, ReadTypes
<1>7. CASE Keep
  <2>1. rd \in PulseReads
    BY <1>3, <1>7 DEF Keep, In, OpenPulses
  <2>2. PICK value \in Totals :
          value = [papers |-> rd.papers, claims |-> rd.claims, annotations |-> rd.annotations]
    BY <2>1 DEF PulseReads, Totals
  <2>3. /\ cache' = [k \in DOMAIN cache \cup {rd.key} |->
                       IF k = rd.key THEN [at |-> rd.at, value |-> value] ELSE cache[k]]
        /\ rd' = [rd EXCEPT !.step = "done", !.answer = value]
    BY <1>7, <2>2 DEF Keep
  <2>4. rd' \in PulseReads
    BY <2>1, <2>3 DEF PulseReads
  <2>5. [at |-> rd.at, value |-> value] \in [at : Nat, value : Totals] /\ rd.key \in Nat \X Nat
    BY <2>1 DEF PulseReads
  <2> QED
    BY <2>3, <2>4, <2>5 DEF ReadTypes
<1> QED
  BY <1>4, <1>5, <1>6, <1>7

LEMMA ReadTypesKept ==
  ASSUME TypeOK, ReadTypes, Small, [ReadsNext]_rdvars
  PROVE  ReadTypes'
<1> USE DEF Unpublished, Elsewhere
<1>1. CASE ReadRelevant \/ AskSuperseded \/ AskLifted \/ AskReplication \/ Conclude
  <2>1. UNCHANGED <<clock, begun, cache, blobs, latest>>
    BY <1>1 DEF ReadRelevant, AskSuperseded, AskLifted, AskReplication, Conclude
  <2> QED
    BY <1>1, <2>1, StatusReadTypes DEF ReadTypes
<1>2. CASE OpenList \/ ReadPage
  <2>1. UNCHANGED <<clock, begun, cache, blobs, latest>>
    BY <1>2 DEF OpenList, ReadPage
  <2> QED
    BY <1>2, <2>1, PageReadTypes DEF ReadTypes, Small
<1>3. CASE OpenSnapshot \/ ListClaims \/ ListAnnotations \/ ListPapers \/ GetCir
         \/ CountRows \/ SaveBlob \/ SetLatest
  <2>1. UNCHANGED <<clock, begun, cache>>
    BY <1>3 DEF OpenSnapshot, ListClaims, ListAnnotations, ListPapers, GetCir, CountRows,
       SaveBlob, SetLatest
  <2> QED
    BY <1>3, <2>1, SnapshotReadTypes DEF ReadTypes
<1>4. CASE OpenPulse \/ LookUp \/ Gather \/ Keep
  <2>1. UNCHANGED <<clock, begun, blobs, latest>>
    BY <1>4 DEF OpenPulse, LookUp, Gather, Keep
  <2> QED
    BY <1>4, <2>1, PulseReadTypes DEF ReadTypes
<1>5. CASE Rest
  BY <1>5 DEF Rest, ReadTypes
<1>6. CASE Tick
  <2>1. Cardinality(claims) \in Nat
    BY FS_CardinalityType DEF Small
  <2>2. clock' \in 0 .. Horizon /\ begun' \in [0 .. Horizon -> Nat]
    BY <1>6, <2>1, ReadsAssumption DEF Tick, ReadTypes
  <2>3. UNCHANGED <<rd, cache, blobs, latest>>
    BY <1>6 DEF Tick, reads
  <2> QED
    BY <2>2, <2>3 DEF ReadTypes
<1>7. CASE Die
  BY <1>7 DEF Die, ReadTypes
<1>8. CASE UNCHANGED <<reads, clock, begun>>
  BY <1>8 DEF reads, ReadTypes
<1> QED
  BY <1>1, <1>2, <1>3, <1>4, <1>5, <1>6, <1>7, <1>8 DEF ReadsNext, Read, rdvars, history

BaseInv == TypeOK /\ Small /\ ReadTypes

LEMMA BaseBegins == ASSUME FiniteSeed, ReadsInit PROVE BaseInv
<1>1. TypeOK
  BY InitTypes DEF ReadsInit
<1>2. Small
  <2>1. Stored = {}
    BY DEF ReadsInit, Init, Stored
  <2> QED
    BY <2>1, FS_EmptySet, AnnotationsAssumption DEF Small, FiniteSeed, ReadsInit, Init
<1>3. Cardinality(claims) \in Nat
  BY <1>2, FS_CardinalityType DEF Small
<1> QED
  BY <1>1, <1>2, <1>3, ReadsAssumption DEF BaseInv, ReadsInit, ReadTypes

LEMMA BaseKept ==
  ASSUME BaseInv, [ReadsNext]_rdvars
  PROVE  BaseInv' /\ Adds /\ [Next]_avars
<1>1. [Next]_avars
  BY ReadStep
<1> QED
  BY <1>1, TypesInductive, StepAdds, SmallKept, ReadTypesKept DEF BaseInv

-----------------------------------------------------------------------------
(***************************************************************************)
(* Pulses.                                                                 *)
(***************************************************************************)

\* As many claims as there were when tick t began, and the rows of the key.
Counts(value, key, t) ==
  value.papers >= key[1] /\ value.annotations >= key[2] /\ value.claims >= begun[t]

\* What a pulse knows at each step.
PulseKnows(r) ==
  /\ r.step = "lookup" => Cardinality(papers) >= r.papers
  /\ r.step # "lookup" => r.at <= clock
  /\ r.step \in {"papers", "claims", "annotations", "keep"} =>
       Cardinality(papers) >= r.key[1] /\ Cardinality(Stored) >= r.key[2]
  /\ r.step \in {"claims", "annotations", "keep"} => r.papers >= r.key[1]
  /\ r.step \in {"annotations", "keep"} => r.claims >= begun[r.at]
  /\ r.step = "keep" => r.annotations >= r.key[2]
  /\ r.step = "done" => Counts(r.answer, r.key, Earliest(r.at - TTL + 1))

PulseInv ==
  /\ \A s, t \in 0 .. clock : s <= t => begun[s] <= begun[t]
  /\ Cardinality(claims) >= begun[clock]
  /\ \A k \in DOMAIN cache : cache[k].at <= clock /\ Counts(cache[k].value, k, cache[k].at)
  /\ rd # None /\ rd.op = "pulse" => PulseKnows(rd)

\* What was true of a pulse stays so while tables grow and time goes by.
LEMMA KnowsKept ==
  ASSUME BaseInv, Adds, NEW r \in OpenPulses \cup PulseReads, PulseKnows(r),
         clock' \in Nat, clock' >= clock, \A t \in 0 .. clock : begun'[t] = begun[t]
  PROVE  PulseKnows(r)'
<1>1. clock \in Nat /\ TTL \in Nat \ {0}
  BY ReadsAssumption DEF BaseInv, ReadTypes
<1>2. r.step # "lookup" => /\ r \in PulseReads /\ r.at \in 0 .. clock
                           /\ Earliest(r.at - TTL + 1) \in 0 .. clock
  <2>1. r.step # "lookup" => r \in PulseReads
    BY DEF OpenPulses
  <2> QED
    BY <1>1, <2>1 DEF PulseKnows, PulseReads, Earliest
<1>3. /\ Cardinality(papers) \in Nat /\ Cardinality(papers') \in Nat
      /\ Cardinality(Stored) \in Nat /\ Cardinality(Stored') \in Nat
      /\ Cardinality(papers) <= Cardinality(papers') /\ Cardinality(Stored) <= Cardinality(Stored')
  BY CountsGrow DEF BaseInv
<1>4. /\ r.step = "lookup" => Cardinality(papers') >= r.papers
      /\ r.step \in {"papers", "claims", "annotations", "keep"} =>
           Cardinality(papers') >= r.key[1] /\ Cardinality(Stored') >= r.key[2]
  BY <1>2, <1>3 DEF PulseKnows, OpenPulses, PulseReads
<1>5. r.step # "lookup" => r.at <= clock'
  BY <1>1, <1>2
<1>6. r.step \in {"annotations", "keep"} => r.claims >= begun'[r.at]
  BY <1>2 DEF PulseKnows
<1>7. r.step = "done" => /\ r.answer.papers >= r.key[1] /\ r.answer.annotations >= r.key[2]
                         /\ r.answer.claims >= begun'[Earliest(r.at - TTL + 1)]
  BY <1>2 DEF PulseKnows, Counts
<1> QED
  BY <1>4, <1>5, <1>6, <1>7 DEF PulseKnows, Counts, Earliest

\* The ticks and the cache.
LEMMA CacheKept ==
  ASSUME BaseInv, BaseInv', Adds, PulseInv,
         \/ UNCHANGED <<clock, begun>>
         \/ clock' = clock + 1 /\ begun' = [begun EXCEPT ![clock + 1] = Cardinality(claims)]
  PROVE  /\ (\A s, t \in 0 .. clock : s <= t => begun[s] <= begun[t])'
         /\ Cardinality(claims') >= begun'[clock']
         /\ \A t \in 0 .. clock : begun'[t] = begun[t]
         /\ clock' \in Nat /\ clock' >= clock
         /\ \A k \in DOMAIN cache : \A entry : entry = cache[k] =>
              entry.at <= clock' /\ Counts(entry.value, k, entry.at)'
<1>1. /\ clock \in 0 .. Horizon /\ clock' \in 0 .. Horizon /\ Horizon \in Nat
      /\ begun \in [0 .. Horizon -> Nat] /\ begun' \in [0 .. Horizon -> Nat]
  BY ReadsAssumption DEF BaseInv, ReadTypes
<1>2. /\ Cardinality(claims) \in Nat /\ Cardinality(claims') \in Nat
      /\ Cardinality(claims) <= Cardinality(claims')
  BY CountsGrow DEF BaseInv
<1>3. \A t \in 0 .. clock : begun'[t] = begun[t]
  BY <1>1
<1>4. clock' \in Nat /\ clock' >= clock
  BY <1>1
<1>5. Cardinality(claims') >= begun'[clock']
  BY <1>1, <1>2 DEF PulseInv
<1>6. ASSUME NEW s \in 0 .. clock', NEW t \in 0 .. clock', s <= t
      PROVE  begun'[s] <= begun'[t]
  <2>1. CASE t \in 0 .. clock
    BY <1>1, <1>3, <1>6, <2>1 DEF PulseInv
  <2>2. CASE t = clock + 1 /\ clock' = clock + 1 /\ begun' = [begun EXCEPT ![clock + 1] = Cardinality(claims)]
    <3>1. begun[clock] <= Cardinality(claims) /\ clock + 1 \in 0 .. Horizon
      BY <1>1, <1>2, <2>2 DEF PulseInv
    <3>2. s \in 0 .. clock => begun[s] <= begun[clock]
      BY <1>1 DEF PulseInv
    <3> QED
      BY <1>1, <1>2, <1>3, <1>6, <2>2, <3>1, <3>2
  <2> QED
    BY <1>1, <1>6, <2>1, <2>2
<1>7. ASSUME NEW k \in DOMAIN cache, NEW entry, entry = cache[k]
      PROVE  entry.at <= clock' /\ Counts(entry.value, k, entry.at)'
  <2>1. entry.at \in 0 .. clock /\ Counts(entry.value, k, entry.at)
    BY <1>1, <1>7 DEF PulseInv, BaseInv, ReadTypes
  <2>2. Counts(entry.value, k, entry.at)'
    BY <1>3, <2>1 DEF Counts
  <2> QED
    BY <1>1, <1>4, <2>1, <2>2
<1> QED
  BY <1>3, <1>4, <1>5, <1>6, <1>7

\* Steps that leave the pulse under way, and the cache unless the process dies.
LEMMA PulseSteady ==
  ASSUME BaseInv, BaseInv', Adds, PulseInv,
         \/ UNCHANGED <<clock, begun>>
         \/ clock' = clock + 1 /\ begun' = [begun EXCEPT ![clock + 1] = Cardinality(claims)],
         cache' = cache \/ DOMAIN cache' = {},
         rd' # None /\ rd'.op = "pulse" => rd' = rd
  PROVE  PulseInv'
<1>1. ASSUME NEW r, r = rd, r # None, r.op = "pulse"
      PROVE  PulseKnows(r)'
  <2>1. r \in OpenPulses \cup PulseReads
    BY <1>1 DEF BaseInv, ReadTypes, StatusReads, PageReads, SnapshotReads, SavedReads
  <2>2. PulseKnows(r)
    BY <1>1 DEF PulseInv
  <2> QED
    BY <2>1, <2>2, CacheKept, KnowsKept
<1>2. (rd # None /\ rd.op = "pulse" => PulseKnows(rd))'
  <2>1. PICK r : r = rd
    OBVIOUS
  <2>2. rd' # None /\ rd'.op = "pulse" => r # None /\ r.op = "pulse" /\ rd' = r
    BY <2>1
  <2> QED
    BY <1>1, <2>1, <2>2
<1>3. (\A k \in DOMAIN cache : cache[k].at <= clock /\ Counts(cache[k].value, k, cache[k].at))'
  BY CacheKept
<1> QED
  BY <1>2, <1>3, CacheKept DEF PulseInv

LEMMA LookUpKnows ==
  ASSUME BaseInv, BaseInv', PulseInv, Adds, LookUp
  PROVE  PulseKnows(rd)'
<1>1. PICK P, S, k :
        /\ P \in Nat /\ S \in Nat
        /\ P = Cardinality(papers) /\ S = Cardinality(Stored) /\ k = <<rd.papers, S>>
  BY FS_CardinalityType DEF BaseInv, Small
<1>2. /\ clock \in Nat /\ TTL \in Nat \ {0} /\ rd.papers \in Nat /\ rd.papers <= P
      /\ begun \in [0 .. Horizon -> Nat] /\ clock \in 0 .. Horizon /\ Horizon \in Nat
  <2>1. rd \in OpenPulses /\ PulseKnows(rd) /\ rd.step = "lookup"
    BY DEF LookUp, In, BaseInv, ReadTypes, StatusReads, PageReads, SnapshotReads, SavedReads,
       PulseReads, PulseInv
  <2> QED
    BY <1>1, <2>1, ReadsAssumption DEF BaseInv, ReadTypes, OpenPulses, PulseKnows
<1>3. /\ UNCHANGED <<clock, begun, papers, annotations>>
      /\ rd'.step = IF Good(k) THEN "done" ELSE "papers"
      /\ rd'.key = k /\ rd'.at = clock
      /\ rd'.answer = IF Good(k) THEN cache[k].value ELSE None
  BY <1>1 DEF LookUp, Elsewhere, avars, corpus
<1>4. CASE Good(k)
  <2>1. PICK at \in Nat, value \in Totals : cache[k].at = at /\ cache[k].value = value
    BY <1>4 DEF Good, BaseInv, ReadTypes
  <2>2. at <= clock /\ clock - at < TTL /\ Counts(value, k, at)
    BY <1>4, <2>1 DEF Good, PulseInv
  <2>3. Earliest(clock - TTL + 1) \in 0 .. clock /\ Earliest(clock - TTL + 1) <= at
    BY <1>2, <2>1, <2>2 DEF Earliest
  <2>4. begun[Earliest(clock - TTL + 1)] <= begun[at]
    BY <2>1, <2>2, <2>3 DEF PulseInv
  <2>5. begun[Earliest(clock - TTL + 1)] \in Nat /\ begun[at] \in Nat /\ value.claims \in Nat
    BY <1>2, <2>1, <2>2, <2>3 DEF Totals
  <2>6. Counts(value, k, Earliest(clock - TTL + 1))
    BY <2>2, <2>4, <2>5 DEF Counts
  <2>7. rd'.step = "done" /\ rd'.answer = value
    BY <1>3, <1>4, <2>1
  <2> QED
    BY <1>2, <1>3, <2>6, <2>7 DEF PulseKnows, Counts, Earliest
<1>5. CASE ~Good(k)
  <2>1. Cardinality(papers') = P /\ Cardinality(Stored') = S
    BY <1>1, <1>3 DEF Stored
  <2>2. rd'.step = "papers" /\ k[1] = rd.papers /\ k[2] = S
    BY <1>1, <1>3, <1>5
  <2> QED
    BY <1>1, <1>2, <1>3, <2>1, <2>2 DEF PulseKnows
<1> QED
  BY <1>4, <1>5

LEMMA GatherKnows ==
  ASSUME BaseInv, BaseInv', PulseInv, Adds, Gather
  PROVE  PulseKnows(rd)'
<1>1. PICK P \in Nat, C \in Nat, S \in Nat :
        P = Cardinality(papers) /\ C = Cardinality(claims) /\ S = Cardinality(Stored)
  BY FS_CardinalityType DEF BaseInv, Small
<1>2. /\ rd \in PulseReads /\ PulseKnows(rd)
  BY DEF Gather, BaseInv, ReadTypes, StatusReads, PageReads, SnapshotReads, SavedReads, OpenPulses,
     PulseInv
<1>3. /\ UNCHANGED <<clock, begun, papers, annotations>>
      /\ \/ rd.step = "papers" /\ rd' = [rd EXCEPT !.papers = P, !.step = "claims"]
         \/ rd.step = "claims" /\ rd' = [rd EXCEPT !.claims = C, !.step = "annotations"]
         \/ rd.step = "annotations" /\ rd' = [rd EXCEPT !.annotations = S, !.step = "keep"]
  BY <1>1 DEF Gather, Elsewhere, avars, corpus
<1>4. /\ begun \in [0 .. Horizon -> Nat] /\ clock \in 0 .. Horizon /\ Horizon \in Nat
      /\ rd.at \in 0 .. clock /\ begun[rd.at] <= C
  <2>1. /\ begun \in [0 .. Horizon -> Nat] /\ clock \in 0 .. Horizon /\ Horizon \in Nat
        /\ rd.at \in 0 .. clock
    BY <1>2, <1>3, ReadsAssumption DEF BaseInv, ReadTypes, PulseReads, PulseKnows
  <2>2. begun[rd.at] <= begun[clock] /\ begun[clock] <= C
    BY <1>1, <2>1 DEF PulseInv
  <2>3. begun[rd.at] \in Nat /\ begun[clock] \in Nat
    BY <2>1
  <2> QED
    BY <1>1, <2>1, <2>2, <2>3
<1>5. Cardinality(papers') = P /\ Cardinality(Stored') = S
  BY <1>1, <1>3 DEF Stored
<1>6. P >= rd.key[1] /\ S >= rd.key[2] /\ rd.key \in Nat \X Nat
  BY <1>1, <1>2, <1>3 DEF PulseKnows, PulseReads
<1>7. CASE rd.step = "papers" /\ rd' = [rd EXCEPT !.papers = P, !.step = "claims"]
  BY <1>2, <1>3, <1>4, <1>5, <1>6, <1>7 DEF PulseKnows, PulseReads
<1>8. CASE rd.step = "claims" /\ rd' = [rd EXCEPT !.claims = C, !.step = "annotations"]
  BY <1>2, <1>3, <1>4, <1>5, <1>6, <1>8 DEF PulseKnows, PulseReads
<1>9. CASE rd.step = "annotations" /\ rd' = [rd EXCEPT !.annotations = S, !.step = "keep"]
  BY <1>2, <1>3, <1>4, <1>5, <1>6, <1>9 DEF PulseKnows, PulseReads
<1> QED
  BY <1>3, <1>7, <1>8, <1>9

LEMMA KeepKnows ==
  ASSUME BaseInv, BaseInv', PulseInv, Adds, Keep
  PROVE  PulseInv'
<1>1. rd \in PulseReads /\ PulseKnows(rd) /\ rd.step = "keep"
  BY DEF Keep, In, BaseInv, ReadTypes, StatusReads, PageReads, SnapshotReads, SavedReads, OpenPulses,
     PulseInv
<1>2. PICK value, at, key :
        /\ value = [papers |-> rd.papers, claims |-> rd.claims, annotations |-> rd.annotations]
        /\ at = rd.at /\ key = rd.key
  OBVIOUS
<1>3. /\ UNCHANGED <<clock, begun, claims>>
      /\ cache' = [k \in DOMAIN cache \cup {key} |-> IF k = key THEN [at |-> at, value |-> value] ELSE cache[k]]
      /\ rd' = [rd EXCEPT !.step = "done", !.answer = value]
  BY <1>2 DEF Keep, Elsewhere, avars, corpus
<1>4. /\ begun \in [0 .. Horizon -> Nat] /\ clock \in 0 .. Horizon /\ Horizon \in Nat
      /\ TTL \in Nat \ {0} /\ at \in 0 .. clock
  BY <1>1, <1>2, ReadsAssumption DEF BaseInv, ReadTypes, PulseReads, PulseKnows
<1>5. Counts(value, key, at) /\ value.claims \in Nat
  BY <1>1, <1>2 DEF Counts, PulseKnows, PulseReads
<1>6. Counts(value, key, Earliest(at - TTL + 1))
  <2>1. Earliest(at - TTL + 1) \in 0 .. clock /\ Earliest(at - TTL + 1) <= at
    BY <1>4 DEF Earliest
  <2>2. begun[Earliest(at - TTL + 1)] <= begun[at]
    BY <1>4, <2>1 DEF PulseInv
  <2>3. begun[Earliest(at - TTL + 1)] \in Nat /\ begun[at] \in Nat
    BY <1>4, <2>1
  <2> QED
    BY <1>5, <2>2, <2>3 DEF Counts
<1>7. PulseKnows(rd)'
  <2>1. rd'.step = "done" /\ rd'.answer = value /\ rd'.key = key /\ rd'.at = at
    BY <1>1, <1>2, <1>3 DEF PulseReads
  <2> QED
    BY <1>3, <1>4, <1>6, <2>1 DEF PulseKnows, Counts, Earliest
<1>8. (\A k \in DOMAIN cache : cache[k].at <= clock /\ Counts(cache[k].value, k, cache[k].at))'
  <2>1. ASSUME NEW k \in DOMAIN cache \cup {key}
        PROVE  cache'[k].at <= clock /\ Counts(cache'[k].value, k, cache'[k].at)
    <3>1. CASE k = key
      BY <1>3, <1>4, <1>5, <3>1
    <3>2. CASE k # key
      <4>1. k \in DOMAIN cache /\ cache'[k] = cache[k]
        BY <1>3, <3>2, <2>1
      <4> QED
        BY <4>1 DEF PulseInv
    <3> QED
      BY <3>1, <3>2
  <2> QED
    BY <1>3, <2>1 DEF Counts
<1> QED
  BY <1>3, <1>7, <1>8 DEF PulseInv

LEMMA PulseKept ==
  ASSUME BaseInv, PulseInv, [ReadsNext]_rdvars
  PROVE  PulseInv'
<1> USE DEF Unpublished, Elsewhere
<1>0. BaseInv' /\ Adds
  BY BaseKept
<1>1. CASE ReadRelevant \/ AskSuperseded \/ AskLifted \/ AskReplication \/ Conclude
  <2>1. UNCHANGED <<clock, begun, cache>>
    BY <1>1 DEF ReadRelevant, AskSuperseded, AskLifted, AskReplication, Conclude
  <2>2. rd'.op = "status"
    BY <1>1, StatusReadTypes DEF BaseInv, StatusReads
  <2> QED
    BY <1>0, <2>1, <2>2, PulseSteady
<1>2. CASE OpenList \/ ReadPage
  <2>1. UNCHANGED <<clock, begun, cache>>
    BY <1>2 DEF OpenList, ReadPage
  <2>2. rd'.op = "page"
    BY <1>2, PageReadTypes DEF BaseInv, Small, PageReads
  <2> QED
    BY <1>0, <2>1, <2>2, PulseSteady
<1>3. CASE OpenSnapshot \/ ListClaims \/ ListAnnotations \/ ListPapers \/ GetCir
         \/ CountRows \/ SaveBlob \/ SetLatest
  <2>1. UNCHANGED <<clock, begun, cache>>
    BY <1>3 DEF OpenSnapshot, ListClaims, ListAnnotations, ListPapers, GetCir, CountRows,
       SaveBlob, SetLatest
  <2>2. rd' = None \/ rd'.op = "snapshot"
    BY <1>3, SnapshotReadTypes DEF BaseInv, SnapshotReads, SavedReads
  <2> QED
    BY <1>0, <2>1, <2>2, PulseSteady
<1>4. CASE OpenPulse
  <2>1. UNCHANGED <<clock, begun, cache, papers, claims, annotations>>
    BY <1>4 DEF OpenPulse, avars, corpus
  <2>2. PulseKnows(rd)'
    <3>1. /\ Cardinality(papers) \in Nat /\ Cardinality(papers') = Cardinality(papers)
          /\ rd'.step = "lookup" /\ rd'.papers = Cardinality(papers)
      BY <1>4, <2>1, FS_CardinalityType DEF OpenPulse, BaseInv, Small
    <3> QED
      BY <3>1 DEF PulseKnows
  <2> QED
    BY <2>1, <2>2 DEF PulseInv, Counts
<1>5. CASE LookUp \/ Gather
  <2>1. UNCHANGED <<clock, begun, cache, claims>>
    BY <1>5 DEF LookUp, Gather, avars, corpus
  <2>2. PulseKnows(rd)'
    BY <1>0, <1>5, LookUpKnows, GatherKnows
  <2> QED
    BY <2>1, <2>2 DEF PulseInv, Counts
<1>6. CASE Keep
  BY <1>0, <1>6, KeepKnows
<1>7. CASE Rest
  BY <1>0, <1>7, PulseSteady DEF Rest
<1>8. CASE Tick
  BY <1>0, <1>8, PulseSteady DEF Tick, reads
<1>9. CASE Die
  BY <1>0, <1>9, PulseSteady DEF Die
<1>10. CASE UNCHANGED <<reads, clock, begun>>
  BY <1>0, <1>10, PulseSteady DEF reads
<1> QED
  BY <1>1, <1>2, <1>3, <1>4, <1>5, <1>6, <1>7, <1>8, <1>9, <1>10
  DEF ReadsNext, Read, rdvars, history

LEMMA PulseBegins == ASSUME BaseInv, ReadsInit PROVE PulseInv
<1>1. Cardinality(claims) \in Nat
  BY FS_CardinalityType DEF BaseInv, Small
<1>2. Horizon \in Nat /\ clock = 0 /\ begun[0] = Cardinality(claims) /\ DOMAIN cache = {} /\ rd = None
  BY ReadsAssumption DEF ReadsInit
<1> QED
  BY <1>1, <1>2 DEF PulseInv

\* Whatever is stored between its lists, and however old the cache entry it is answered
\* from: a pulse counts the papers and annotations there were when it was asked for, and
\* the claims there were TTL earlier.
THEOREM PulsesBounded == ASSUME FiniteSeed PROVE ReadsSpec => []PulseBounded
<1>1. ReadsInit => BaseInv /\ PulseInv
  BY BaseBegins, PulseBegins
<1>2. BaseInv /\ PulseInv /\ [ReadsNext]_rdvars => (BaseInv /\ PulseInv)'
  BY BaseKept, PulseKept
<1>3. BaseInv /\ PulseInv => PulseBounded
  BY DEF PulseInv, PulseKnows, Counts, PulseBounded, Answered
<1> QED
  BY <1>1, <1>2, <1>3, PTL DEF ReadsSpec

-----------------------------------------------------------------------------
(***************************************************************************)
(* Snapshots.                                                              *)
(***************************************************************************)

\* Every claim has its CIR, every annotation on a claim its claim, every reply what it
\* replies to. A submission under way stores the CIR before the claims.
HomeInv ==
  /\ cirs \subseteq papers
  /\ \A c \in claims : \E p \in cirs : c \in p.claims
  /\ \A i \in Stored :
       /\ annotations[i].target.type = "claim" => \E c \in claims : c.id = annotations[i].target.id
       /\ annotations[i].in_reply_to # None => annotations[i].in_reply_to \in Stored
  /\ req # None /\ req.op \in {"cir", "claims"} =>
       /\ req.paper \in papers /\ req.left \subseteq req.paper.claims
       /\ req.op = "claims" => req.paper \in cirs

\* An annotation stored, of a body that was accepted.
LEMMA HomeStore ==
  ASSUME TypeOK, HomeInv, Adds, claims' = claims
  PROVE  \A i \in Stored' :
           /\ annotations'[i].target.type = "claim" =>
                \E c \in claims' : c.id = annotations'[i].target.id
           /\ annotations'[i].in_reply_to # None => annotations'[i].in_reply_to \in Stored'
<1>1. Stored \subseteq Stored'
  BY StoredAdds
<1>2. ASSUME NEW i \in Stored', annotations'[i] = annotations[i]
      PROVE  /\ annotations[i].target.type = "claim" =>
                  \E c \in claims' : c.id = annotations[i].target.id
             /\ annotations[i].in_reply_to # None => annotations[i].in_reply_to \in Stored'
  <2>1. i \in Stored
    BY <1>2 DEF Stored
  <2> QED
    BY <1>1, <2>1 DEF HomeInv
<1>3. ASSUME NEW i \in Ids, NEW b \in Body, Valid(b, i),
             annotations' = [annotations EXCEPT ![i] = RowOf(b, i)], NEW j \in Stored'
      PROVE  /\ annotations'[j].target.type = "claim" =>
                  \E c \in claims' : c.id = annotations'[j].target.id
             /\ annotations'[j].in_reply_to # None => annotations'[j].in_reply_to \in Stored'
  <2>1. CASE j # i
    BY <1>2, <1>3, <2>1 DEF TypeOK, Stored
  <2>2. CASE j = i
    <3>1. annotations'[j].target = b.target /\ annotations'[j].in_reply_to = b.in_reply_to
      BY <1>3, <2>2, RowOfType DEF TypeOK
    <3>2. b.target.type = "claim" => \E c \in claims : c.id = b.target.id
      BY <1>3 DEF Valid, TargetFound
    <3>3. b.in_reply_to # None => b.in_reply_to \in Stored
      BY <1>3 DEF Valid, ReplyAccepted, Body, Stored
    <3> QED
      BY <1>1, <3>1, <3>2, <3>3
  <2> QED
    BY <2>1, <2>2
<1> QED
  BY <1>2, <1>3 DEF Adds

LEMMA HomeKept ==
  ASSUME TypeOK, HomeInv, [Next]_avars
  PROVE  HomeInv'
<1>0. Adds
  BY StepAdds
<1> DEFINE Housed == \A i \in Stored :
             /\ annotations[i].target.type = "claim" =>
                  \E c \in claims : c.id = annotations[i].target.id
             /\ annotations[i].in_reply_to # None => annotations[i].in_reply_to \in Stored
           ReqHome == req # None /\ req.op \in {"cir", "claims"} =>
             /\ req.paper \in papers /\ req.left \subseteq req.paper.claims
             /\ req.op = "claims" => req.paper \in cirs
<1>1. ASSUME UNCHANGED <<papers, cirs, claims>>, req' = None \/ req'.op \notin {"cir", "claims"} \/ req' = req
      PROVE  HomeInv'
  <2>1. Housed'
    BY <1>0, <1>1, HomeStore
  <2>2. ReqHome'
    BY <1>1 DEF HomeInv
  <2> QED
    BY <1>1, <2>1, <2>2 DEF HomeInv
<1>2. ASSUME NEW token \in Tokens, NEW key \in Keys \cup {None}, NEW b \in Bodies,
             Post(token, key, b)
      PROVE  HomeInv'
  <2>1. UNCHANGED <<papers, cirs, claims>> /\ (req' = None \/ req'.op = "remember")
    BY <1>2 DEF Post
  <2> QED
    BY <1>1, <2>1
<1>3. ASSUME NEW token \in Tokens, NEW key \in Keys \cup {None}, NEW b \in Bodies,
             Replayed(token, key, b)
      PROVE  HomeInv'
  BY <1>1, <1>3 DEF Replayed, corpus
<1>4. ASSUME NEW batch \in Batches, Bulk(batch)
      PROVE  HomeInv'
  BY <1>1, <1>4 DEF Bulk, corpus
<1>5. CASE BulkItem
  <2>1. InBulk /\ UNCHANGED <<papers, cirs, claims>>
    BY <1>5 DEF BulkItem
  <2>2. req'.op = "bulk"
    <3>1. PICK r : req' = [req EXCEPT !.results = Append(@, r)]
      BY <1>5 DEF BulkItem
    <3>2. req = [op |-> "bulk", batch |-> req.batch, results |-> req.results]
      BY <2>1, BulkAt
    <3> QED
      BY <3>1, <3>2
  <2> QED
    BY <1>1, <2>1, <2>2
<1>6. CASE Remember \/ BulkReply \/ Submitted \/ Crash
  BY <1>1, <1>6 DEF Remember, BulkReply, Submitted, Crash, corpus
<1>7. CASE UNCHANGED avars
  BY <1>1, <1>7 DEF avars, corpus
<1>8. ASSUME NEW token \in Tokens, NEW key \in Keys \cup {None}, NEW p \in Papers,
             Submit(token, key, p)
      PROVE  HomeInv'
  <2>1. /\ req' = [op |-> "cir", token |-> token, key |-> key, paper |-> p, left |-> p.claims]
        /\ papers' = papers \cup {p} /\ UNCHANGED <<cirs, claims, annotations>>
    BY <1>8 DEF Submit
  <2>2. Housed'
    BY <1>0, <2>1, HomeStore
  <2>3. ReqHome'
    BY <2>1
  <2> QED
    BY <2>1, <2>2, <2>3 DEF HomeInv
<1>9. ASSUME req # None, req.op \in {"cir", "claims"}
      PROVE  req = [op |-> req.op, token |-> req.token, key |-> req.key,
                    paper |-> req.paper, left |-> req.left]
  BY <1>9 DEF TypeOK, Request
<1>10. CASE AddCir
  <2>1. /\ req'.op = "claims" /\ req'.paper = req.paper /\ req'.left = req.left
        /\ cirs' = cirs \cup {req.paper} /\ UNCHANGED <<papers, claims, annotations>>
    BY <1>9, <1>10 DEF AddCir
  <2>2. Housed'
    BY <1>0, <2>1, HomeStore
  <2>3. ReqHome' /\ req.paper \in papers
    BY <1>10, <2>1 DEF HomeInv, AddCir
  <2> QED
    BY <2>1, <2>2, <2>3 DEF HomeInv
<1>11. CASE AddClaim
  <2>1. PICK c \in req.left :
          /\ claims' = {d \in claims : d.id # c.id} \cup {c}
          /\ req' = [req EXCEPT !.left = @ \ {c}]
    BY <1>11 DEF AddClaim
  <2>2. /\ req'.op = "claims" /\ req'.paper = req.paper /\ req'.left = req.left \ {c}
        /\ req # None /\ req.op = "claims" /\ UNCHANGED <<papers, cirs, annotations>>
    BY <1>9, <1>11, <2>1 DEF AddClaim
  <2>3. req.paper \in cirs /\ c \in req.paper.claims
    BY <2>1, <2>2 DEF HomeInv
  <2>4. ReqHome'
    BY <2>2 DEF HomeInv
  <2>5. Housed'
    BY <2>1, <2>2 DEF HomeInv, Stored
  <2> QED
    BY <2>1, <2>2, <2>3, <2>4, <2>5 DEF HomeInv
<1> QED
  BY <1>2, <1>3, <1>4, <1>5, <1>6, <1>7, <1>8, <1>10, <1>11 DEF Next, Write

\* The claim's CIR is in the tarball, or will be.
Home(c, r) == \E p \in cirs : c \in p.claims /\ (r.step = "cirs" => p \in r.left \cup r.cirs)

\* What was counted so far is no less than what is in the tarball.
Counted(r) ==
  /\ Len(r.counts) > 0 => Cardinality(r.papers) <= r.counts[1]
  /\ Len(r.counts) > 1 => Cardinality(r.claims) <= r.counts[2]
  /\ Len(r.counts) > 2 => Cardinality(r.annotations) <= r.counts[3]

SnapshotKnows(r) ==
  /\ blobs[r.id] = None
  /\ r.papers \subseteq papers
  /\ \A c \in r.claims : Home(c, r)
  /\ \A a \in r.annotations :
       /\ a.target.type = "claim" => \E c : c.id = a.target.id /\ Home(c, r)
       /\ a.in_reply_to # None => \E parent \in r.annotations : parent.id = a.in_reply_to
  /\ IsFiniteSet(r.claims) /\ Cardinality(r.claims) <= Cardinality(claims)
  /\ IsFiniteSet(r.annotations) /\ Cardinality(r.annotations) <= Cardinality(Stored)
  /\ r.counts # <<>> => r.step = "cirs" /\ r.left = {}
  /\ Counted(r)

\* The first half of SnapshotWhole, and the second, of one tarball and one manifest.
WholeTarball(b) ==
  /\ b.claims \subseteq UNION {p.claims : p \in b.cirs}
  /\ \A a \in b.annotations :
       /\ a.target.type = "claim" => \E c \in UNION {p.claims : p \in b.cirs} : c.id = a.target.id
       /\ a.in_reply_to # None => \E parent \in b.annotations : parent.id = a.in_reply_to

TrueManifest(m) ==
  LET b == blobs[m.snapshot_id]
  IN /\ b # None
     /\ Cardinality(b.papers) <= m.papers /\ Cardinality(b.claims) <= m.claims
     /\ Cardinality(b.annotations) <= m.annotations

SnapshotInv ==
  /\ HomeInv
  /\ \A i \in SnapIds : blobs[i] # None => WholeTarball(blobs[i])
  /\ latest # None => TrueManifest(latest)
  /\ rd # None /\ rd \in SnapshotReads => SnapshotKnows(rd)
  /\ rd # None /\ rd \in SavedReads => TrueManifest(rd.manifest)

LEMMA SnapshotFacts ==
  ASSUME rd # None, rd.op = "snapshot", ReadTypes
  PROVE  /\ rd.step # "manifest" => rd \in SnapshotReads
         /\ rd.step = "manifest" => rd \in SavedReads
  BY DEF ReadTypes, StatusReads, PageReads, OpenPulses, PulseReads, SavedReads, SnapshotReads

\* What a snapshot read holds stays so while tables grow.
LEMMA SnapshotKnowsKept ==
  ASSUME BaseInv, Adds, blobs' = blobs, NEW r, SnapshotKnows(r)
  PROVE  SnapshotKnows(r)'
<1>1. papers \subseteq papers' /\ cirs \subseteq cirs'
  BY DEF Adds
<1>2. \A c : Home(c, r) => Home(c, r)'
  BY <1>1 DEF Home
<1>3. /\ Cardinality(Stored) \in Nat /\ Cardinality(Stored') \in Nat
      /\ Cardinality(Stored) <= Cardinality(Stored')
      /\ Cardinality(claims) \in Nat /\ Cardinality(claims') \in Nat
      /\ Cardinality(claims) <= Cardinality(claims')
  BY CountsGrow DEF BaseInv
<1>4. Cardinality(r.annotations) \in Nat /\ Cardinality(r.claims) \in Nat
  BY FS_CardinalityType DEF SnapshotKnows
<1>5. \A a \in r.annotations :
        /\ a.target.type = "claim" => \E c : c.id = a.target.id /\ Home(c, r)'
        /\ a.in_reply_to # None => \E parent \in r.annotations : parent.id = a.in_reply_to
  BY <1>1, <1>2 DEF SnapshotKnows
<1>6. \A c \in r.claims : Home(c, r)'
  BY <1>2 DEF SnapshotKnows
<1> QED
  BY <1>1, <1>3, <1>4, <1>5, <1>6 DEF SnapshotKnows, Home, Counted

\* Steps that take no snapshot further.
LEMMA SnapshotSteady ==
  ASSUME BaseInv, Adds, SnapshotInv, HomeInv', UNCHANGED <<blobs, latest>>,
         rd' # None /\ rd' \in SnapshotReads \cup SavedReads => rd' = rd
  PROVE  SnapshotInv'
<1>1. ASSUME NEW r, r = rd, r # None, r \in SnapshotReads
      PROVE  SnapshotKnows(r)'
  BY <1>1, SnapshotKnowsKept DEF SnapshotInv
<1>2. (rd # None /\ rd \in SnapshotReads => SnapshotKnows(rd))'
  <2>1. PICK r : r = rd
    OBVIOUS
  <2>2. rd' # None /\ rd' \in SnapshotReads => r \in SnapshotReads /\ rd' = r
    BY <2>1 DEF SnapshotReads
  <2> QED
    BY <1>1, <2>1, <2>2
<1>3. (rd # None /\ rd \in SavedReads => TrueManifest(rd.manifest))'
  BY DEF SnapshotInv, TrueManifest, SavedReads
<1> QED
  BY <1>2, <1>3 DEF SnapshotInv, TrueManifest, WholeTarball

\* The annotations' table, as it is now.
LEMMA TableHolds ==
  ASSUME TypeOK, Small, HomeInv
  PROVE  /\ \A a \in Table :
              /\ a.target.type = "claim" => \E c \in claims : c.id = a.target.id
              /\ a.in_reply_to # None => \E parent \in Table : parent.id = a.in_reply_to
         /\ IsFiniteSet(Table) /\ Cardinality(Table) <= Cardinality(Stored)
<1>1. ASSUME NEW i \in Stored
      PROVE  /\ annotations[i].target.type = "claim" => \E c \in claims : c.id = annotations[i].target.id
             /\ annotations[i].in_reply_to # None =>
                  \E parent \in Table : parent.id = annotations[i].in_reply_to
  BY DEF HomeInv, Table, TypeOK
<1>2. IsFiniteSet(Table) /\ Cardinality(Table) <= Cardinality(Stored)
  <2> DEFINE row_of == [j \in Stored |-> annotations[j]]
  <2>1. row_of \in Surjection(Stored, Table)
    BY DEF Surjection, Table
  <2> QED
    BY <2>1, FS_Surjection DEF Small
<1> QED
  BY <1>1, <1>2 DEF Table

\* A step of the read before it saves: its record is all that changes.
LEMMA SnapshotReadStep ==
  ASSUME BaseInv, SnapshotInv, UNCHANGED <<avars, blobs, latest>>, rd' \in SnapshotReads,
         SnapshotKnows(rd')
  PROVE  SnapshotInv'
<1>1. SnapshotKnows(rd)'
  BY DEF SnapshotKnows, Counted, Home, avars, corpus, Stored
<1>2. HomeInv'
  BY DEF SnapshotInv, HomeInv, avars, corpus, Stored
<1>3. rd' \notin SavedReads
  BY DEF SnapshotReads, SavedReads
<1> QED
  BY <1>1, <1>2, <1>3 DEF SnapshotInv, TrueManifest, WholeTarball

LEMMA SnapshotSteps ==
  ASSUME BaseInv, SnapshotInv,
         OpenSnapshot \/ ListClaims \/ ListAnnotations \/ ListPapers \/ GetCir \/ CountRows
  PROVE  SnapshotInv'
<1>1. UNCHANGED <<avars, blobs, latest>>
  BY DEF OpenSnapshot, ListClaims, ListAnnotations, ListPapers, GetCir, CountRows, Unpublished, Elsewhere
<1>2. rd' \in SnapshotReads \cup SavedReads \cup {None}
  BY SnapshotReadTypes DEF BaseInv
<1>3. CASE OpenSnapshot
  <2>1. rd'.papers = papers /\ rd'.claims = {} /\ rd'.annotations = {} /\ blobs[rd'.id] = None
        /\ rd' \in SnapshotReads /\ rd'.counts = <<>> /\ Len(rd'.counts) = 0
    BY <1>3 DEF OpenSnapshot, BaseInv, TypeOK, SnapshotReads
  <2>2. IsFiniteSet({}) /\ Cardinality({}) = 0 /\ Cardinality(Stored) \in Nat /\ Cardinality(claims) \in Nat
    BY FS_EmptySet, FS_CardinalityType DEF BaseInv, Small
  <2>3. SnapshotKnows(rd')
    BY <2>1, <2>2 DEF SnapshotKnows, Counted
  <2> QED
    BY <1>1, <2>1, <2>3, SnapshotReadStep
<1>4. ASSUME rd # None, rd.op = "snapshot", rd.step # "manifest"
      PROVE  rd \in SnapshotReads /\ SnapshotKnows(rd) /\ HomeInv
  BY <1>4, SnapshotFacts DEF BaseInv, SnapshotInv
<1>5. CASE ListClaims
  <2>1. rd \in SnapshotReads /\ SnapshotKnows(rd) /\ HomeInv /\ rd.step = "claims"
    BY <1>4, <1>5 DEF ListClaims, In
  <2>2. rd' = [rd EXCEPT !.claims = claims, !.step = "annotations"]
    BY <1>5 DEF ListClaims
  <2>3. /\ rd' \in SnapshotReads /\ rd'.claims = claims /\ rd'.step = "annotations" /\ rd'.id = rd.id
        /\ rd'.papers = rd.papers /\ rd'.annotations = rd.annotations /\ rd'.counts = rd.counts
        /\ rd.counts = <<>> /\ Len(rd.counts) = 0
    BY <2>1, <2>2, ClaimsType DEF SnapshotReads, BaseInv, SnapshotKnows
  <2>4. \A c : Home(c, rd) => Home(c, rd')
    BY <2>3 DEF Home
  <2>5. \A c \in claims : Home(c, rd')
    BY <2>1, <2>3 DEF Home, HomeInv
  <2>7. IsFiniteSet(claims) /\ Cardinality(claims) \in Nat
    BY FS_CardinalityType DEF BaseInv, Small
  <2>6. SnapshotKnows(rd')
    BY <2>1, <2>3, <2>4, <2>5, <2>7 DEF SnapshotKnows, Counted
  <2> QED
    BY <1>1, <2>3, <2>6, SnapshotReadStep
<1>6. CASE ListAnnotations
  <2>1. rd \in SnapshotReads /\ SnapshotKnows(rd) /\ HomeInv /\ rd.step = "annotations"
    BY <1>4, <1>6 DEF ListAnnotations, In
  <2>2. rd' = [rd EXCEPT !.annotations = Table, !.step = "papers"]
    BY <1>6 DEF ListAnnotations
  <2>3. /\ rd' \in SnapshotReads /\ rd'.annotations = Table /\ rd'.step = "papers" /\ rd'.id = rd.id
        /\ rd'.papers = rd.papers /\ rd'.claims = rd.claims /\ rd'.counts = rd.counts
        /\ rd.counts = <<>> /\ Len(rd.counts) = 0
    BY <2>1, <2>2, TableType DEF SnapshotReads, BaseInv, SnapshotKnows
  <2>4. \A c \in claims : Home(c, rd')
    BY <2>1, <2>3 DEF Home, HomeInv
  <2>5. \A c \in rd'.claims : Home(c, rd')
    BY <2>1, <2>3 DEF SnapshotKnows, Home
  <2>6. SnapshotKnows(rd')
    BY <2>1, <2>3, <2>4, <2>5, TableHolds DEF SnapshotKnows, BaseInv, Counted
  <2> QED
    BY <1>1, <2>3, <2>6, SnapshotReadStep
<1>7. CASE ListPapers
  <2>1. rd \in SnapshotReads /\ SnapshotKnows(rd) /\ HomeInv /\ rd.step = "papers"
    BY <1>4, <1>7 DEF ListPapers, In
  <2>2. rd' = [rd EXCEPT !.left = papers, !.step = "cirs"]
    BY <1>7 DEF ListPapers
  <2>3. /\ rd' \in SnapshotReads /\ rd'.annotations = rd.annotations /\ rd'.left = papers
        /\ rd'.id = rd.id /\ rd'.papers = rd.papers /\ rd'.claims = rd.claims
        /\ rd'.counts = rd.counts /\ rd.counts = <<>> /\ Len(rd.counts) = 0
    BY <2>1, <2>2 DEF SnapshotReads, BaseInv, TypeOK, SnapshotKnows
  <2>4. \A c : Home(c, rd) => Home(c, rd')
    BY <2>1, <2>3 DEF Home, HomeInv
  <2>5. SnapshotKnows(rd')
    BY <2>1, <2>3, <2>4 DEF SnapshotKnows, Counted
  <2> QED
    BY <1>1, <2>3, <2>5, SnapshotReadStep
<1>8. CASE GetCir
  <2>1. rd \in SnapshotReads /\ SnapshotKnows(rd) /\ rd.step = "cirs"
    BY <1>4, <1>8 DEF GetCir, In
  <2>2. PICK p \in rd.left : rd' = [rd EXCEPT !.left = @ \ {p}, !.cirs = @ \cup ({p} \cap cirs)]
    BY <1>8 DEF GetCir
  <2>3. /\ rd' # None => rd' \in SnapshotReads
        /\ rd'.annotations = rd.annotations /\ rd'.left = rd.left \ {p}
        /\ rd'.cirs = rd.cirs \cup ({p} \cap cirs) /\ rd'.step = "cirs"
        /\ rd'.id = rd.id /\ rd'.papers = rd.papers /\ rd'.claims = rd.claims /\ rd' \in SnapshotReads
        /\ rd'.counts = rd.counts /\ rd.counts = <<>> /\ Len(rd.counts) = 0
    <3>1. cirs \subseteq Papers
      BY DEF BaseInv, TypeOK
    <3> QED
      BY <2>1, <2>2, <3>1 DEF SnapshotReads, SnapshotKnows
  <2>4. \A c : Home(c, rd) => Home(c, rd')
    BY <2>1, <2>3 DEF Home
  <2>5. SnapshotKnows(rd')
    BY <2>1, <2>3, <2>4 DEF SnapshotKnows, Counted
  <2> QED
    BY <1>1, <2>3, <2>5, SnapshotReadStep
<1>9. CASE CountRows
  <2>1. rd \in SnapshotReads /\ SnapshotKnows(rd) /\ rd.step = "cirs" /\ rd.left = {}
        /\ Len(rd.counts) \in {0, 1, 2}
    <3>1. In("snapshot", "cirs") /\ Len(rd.counts) < 3 /\ rd.left = {}
      BY <1>9 DEF CountRows
    <3>2. rd \in SnapshotReads /\ SnapshotKnows(rd) /\ rd.step = "cirs"
      BY <1>4, <3>1 DEF In
    <3>3. rd.counts \in Seq(Nat)
      BY <3>2 DEF SnapshotReads
    <3> QED
      BY <3>1, <3>2, <3>3, ShortSeq
  <2>2. PICK P, C, S : P = Cardinality(papers) /\ C = Cardinality(claims) /\ S = Cardinality(Stored)
    OBVIOUS
  <2>3. P \in Nat /\ C \in Nat /\ S \in Nat /\ Cardinality(rd.papers) <= P
    BY <2>1, <2>2, FS_CardinalityType, FS_Subset DEF BaseInv, Small, SnapshotKnows
  <2>4. Cardinality(rd.claims) <= C /\ Cardinality(rd.annotations) <= S
    BY <2>1, <2>2 DEF SnapshotKnows
  <2>12. PICK n : n = <<P, C, S>>[Len(rd.counts) + 1]
    OBVIOUS
  <2>13. /\ n \in Nat
         /\ n = IF Len(rd.counts) = 0 THEN P ELSE IF Len(rd.counts) = 1 THEN C ELSE S
    <3>1. PICK k : k = Len(rd.counts)
      OBVIOUS
    <3>2. k = 0 \/ k = 1 \/ k = 2
      BY <2>1, <3>1
    <3>3. n = <<P, C, S>>[k + 1]
      BY <2>12, <3>1
    <3>4. n = IF k = 0 THEN P ELSE IF k = 1 THEN C ELSE S
      BY <3>2, <3>3
    <3> QED
      BY <2>3, <3>1, <3>4
  <2>5. rd' = [rd EXCEPT !.counts = Append(@, n)]
    BY <1>9, <2>2, <2>12 DEF CountRows
  <2>7. rd.counts \in Seq(Nat)
    BY <2>1 DEF SnapshotReads
  <2>6. /\ rd' \in SnapshotReads /\ rd'.step = "cirs" /\ rd'.left = {} /\ rd'.id = rd.id
        /\ rd'.papers = rd.papers /\ rd'.claims = rd.claims /\ rd'.annotations = rd.annotations
        /\ rd'.cirs = rd.cirs
        /\ rd'.counts = Append(rd.counts, n)
    <3>1. Append(rd.counts, n) \in Seq(Nat)
      BY <2>7, <2>13
    <3> QED
      BY <2>1, <2>5, <3>1 DEF SnapshotReads
  <2>8. Counted(rd)
    BY <2>1 DEF SnapshotKnows
  <2>9. Counted(rd')
    BY <2>1, <2>3, <2>4, <2>6, <2>7, <2>8, <2>13, SMTT(40) DEF Counted
  <2>10. \A c : Home(c, rd) => Home(c, rd')
    BY <2>1, <2>6 DEF Home
  <2>11. SnapshotKnows(rd')
    BY <2>1, <2>6, <2>9, <2>10 DEF SnapshotKnows
  <2> QED
    BY <1>1, <2>6, <2>11, SnapshotReadStep
<1> QED
  BY <1>3, <1>5, <1>6, <1>7, <1>8, <1>9

LEMMA SavedWhole ==
  ASSUME BaseInv, SnapshotInv, SaveBlob
  PROVE  SnapshotInv'
<1>0. rd \in SnapshotReads /\ SnapshotKnows(rd) /\ rd.step = "cirs" /\ Len(rd.counts) = 3
  BY SnapshotFacts DEF SaveBlob, In, BaseInv, SnapshotInv
<1>1. rd \in SnapshotReads /\ SnapshotKnows(rd) /\ rd.step = "cirs" /\ rd.left = {}
  BY <1>0 DEF SnapshotKnows, SnapshotReads
<1>2. PICK b, m, id : /\ b = [papers |-> rd.papers, claims |-> rd.claims,
                              annotations |-> rd.annotations, cirs |-> rd.cirs]
                      /\ m = Manifest /\ id = rd.id
  OBVIOUS
<1>3. /\ blobs' = [blobs EXCEPT ![id] = b] /\ rd'.op = "snapshot" /\ rd'.step = "manifest"
      /\ rd'.manifest = m /\ UNCHANGED <<avars, latest>>
  BY <1>2 DEF SaveBlob, Elsewhere
<1>4. id \in SnapIds /\ blobs[id] = None /\ blobs'[id] = b /\ \A i \in SnapIds : i # id => blobs'[i] = blobs[i]
  BY <1>1, <1>2, <1>3 DEF SnapshotKnows, SnapshotReads, BaseInv, ReadTypes
<1>5. b # None
  <2>1. b \in [papers : SUBSET Papers, cirs : SUBSET Papers, claims : SUBSET Claim,
               annotations : SUBSET Body]
    BY <1>1, <1>2 DEF SnapshotReads, Row
  <2> QED
    BY <2>1, ReadsAssumption
<1>6. WholeTarball(b)
  <2>1. \A c : Home(c, rd) => c \in UNION {p.claims : p \in b.cirs}
    BY <1>1, <1>2 DEF Home
  <2> QED
    BY <1>1, <1>2, <2>1 DEF WholeTarball, SnapshotKnows
<1>7. /\ Cardinality(b.papers) <= m.papers /\ Cardinality(b.claims) <= m.claims
      /\ Cardinality(b.annotations) <= m.annotations /\ m.snapshot_id = id
  <2>1. Counted(rd)
    BY <1>1 DEF SnapshotKnows
  <2>2. m.papers = rd.counts[1] /\ m.claims = rd.counts[2]
        /\ m.annotations = rd.counts[3] /\ m.snapshot_id = id
    BY <1>2 DEF Manifest
  <2> QED
    BY <1>0, <1>2, <2>1, <2>2 DEF Counted
<1>8. \A i \in SnapIds : blobs'[i] # None => WholeTarball(blobs'[i])
  BY <1>4, <1>6 DEF SnapshotInv
<1>9. latest' # None => TrueManifest(latest)'
  <2>1. latest # None => latest.snapshot_id \in SnapIds /\ latest.snapshot_id # id
    BY <1>4 DEF SnapshotInv, TrueManifest, BaseInv, ReadTypes, Manifests
  <2> QED
    BY <1>3, <1>4, <2>1 DEF SnapshotInv, TrueManifest
<1>10. TrueManifest(rd.manifest)'
  BY <1>3, <1>4, <1>5, <1>7 DEF TrueManifest
<1>11. rd' \notin SnapshotReads
  BY <1>3 DEF SnapshotReads
<1>12. HomeInv'
  BY <1>3 DEF SnapshotInv, HomeInv, avars, corpus, Stored
<1> QED
  BY <1>8, <1>9, <1>10, <1>11, <1>12 DEF SnapshotInv, WholeTarball

LEMMA SnapshotKept ==
  ASSUME BaseInv, SnapshotInv, [ReadsNext]_rdvars
  PROVE  SnapshotInv'
<1> USE DEF Unpublished, Elsewhere
<1>0. Adds /\ HomeInv'
  BY BaseKept, HomeKept DEF BaseInv, SnapshotInv
<1>1. CASE ReadRelevant \/ AskSuperseded \/ AskLifted \/ AskReplication \/ Conclude
  <2>1. UNCHANGED <<blobs, latest>>
    BY <1>1 DEF ReadRelevant, AskSuperseded, AskLifted, AskReplication, Conclude
  <2>2. rd' \notin SnapshotReads \cup SavedReads
    BY <1>1, StatusReadTypes DEF BaseInv, StatusReads, SnapshotReads, SavedReads
  <2> QED
    BY <1>0, <2>1, <2>2, SnapshotSteady
<1>2. CASE OpenList \/ ReadPage
  <2>1. UNCHANGED <<blobs, latest>>
    BY <1>2 DEF OpenList, ReadPage
  <2>2. rd' \notin SnapshotReads \cup SavedReads
    BY <1>2, PageReadTypes DEF BaseInv, Small, PageReads, SnapshotReads, SavedReads
  <2> QED
    BY <1>0, <2>1, <2>2, SnapshotSteady
<1>3. CASE OpenPulse \/ LookUp \/ Gather \/ Keep
  <2>1. UNCHANGED <<blobs, latest>>
    BY <1>3 DEF OpenPulse, LookUp, Gather, Keep
  <2>2. rd' \notin SnapshotReads \cup SavedReads
    BY <1>3, PulseReadTypes DEF BaseInv, OpenPulses, PulseReads, SnapshotReads, SavedReads
  <2> QED
    BY <1>0, <2>1, <2>2, SnapshotSteady
<1>4. CASE OpenSnapshot \/ ListClaims \/ ListAnnotations \/ ListPapers \/ GetCir \/ CountRows
  BY <1>4, SnapshotSteps
<1>5. CASE SaveBlob
  BY <1>5, SavedWhole
<1>6. CASE SetLatest
  <2>1. rd \in SavedReads
    BY <1>6, SnapshotFacts DEF SetLatest, In, BaseInv
  <2>2. latest' = rd.manifest /\ rd' = None /\ blobs' = blobs
    BY <1>6 DEF SetLatest
  <2>3. rd # None /\ TrueManifest(rd.manifest)
    BY <1>6, <2>1 DEF SnapshotInv, SetLatest, In
  <2>4. (latest # None => TrueManifest(latest))'
    BY <2>2, <2>3 DEF TrueManifest
  <2>5. (\A i \in SnapIds : blobs[i] # None => WholeTarball(blobs[i]))'
    BY <2>2 DEF SnapshotInv, WholeTarball
  <2> QED
    BY <1>0, <2>2, <2>4, <2>5 DEF SnapshotInv
<1>7. CASE Rest
  BY <1>0, <1>7, SnapshotSteady DEF Rest
<1>8. CASE Tick
  BY <1>0, <1>8, SnapshotSteady DEF Tick, reads
<1>9. CASE Die
  BY <1>0, <1>9, SnapshotSteady DEF Die
<1>10. CASE UNCHANGED <<reads, clock, begun>>
  BY <1>0, <1>10, SnapshotSteady DEF reads
<1> QED
  BY <1>1, <1>2, <1>3, <1>4, <1>5, <1>6, <1>7, <1>8, <1>9, <1>10
  DEF ReadsNext, Read, rdvars, history

LEMMA SnapshotBegins ==
  ReadsInit => SnapshotInv
<1> SUFFICES ASSUME ReadsInit
             PROVE  SnapshotInv
  OBVIOUS
<1>1. /\ Stored = {} /\ req = None /\ cirs = Seeded /\ papers = Seeded
      /\ claims = UNION {p.claims : p \in Seeded}
  BY DEF ReadsInit, Init, Stored
<1>2. rd = None /\ latest = None /\ \A i \in SnapIds : blobs[i] = None
  BY DEF ReadsInit
<1>3. HomeInv
  BY <1>1 DEF HomeInv
<1> QED
  BY <1>2, <1>3 DEF SnapshotInv

\* A snapshot taken while papers, claims and annotations are being written holds
\* the CIR of every claim in it and of every claim it has an annotation on, and
\* what every reply in it replies to; the latest manifest names a stored tarball
\* and its counts cover what is in it.
THEOREM SnapshotsWhole ==
  ASSUME FiniteSeed
  PROVE  ReadsSpec => []SnapshotWhole
<1>1. ReadsInit => BaseInv /\ SnapshotInv
  BY BaseBegins, SnapshotBegins
<1>2. BaseInv /\ SnapshotInv /\ [ReadsNext]_rdvars => (BaseInv /\ SnapshotInv)'
  BY BaseKept, SnapshotKept
<1>3. SnapshotInv => SnapshotWhole
  BY DEF SnapshotInv, SnapshotWhole, WholeTarball, TrueManifest
<1> QED
  BY <1>1, <1>2, <1>3, PTL DEF ReadsSpec
-----------------------------------------------------------------------------
(***************************************************************************)
(* Pages, of tables whose rows do not change.                              *)
(***************************************************************************)

\* All that was shown is above the cursor, all that is owed below it.
PageKnows(r) ==
  /\ ~r.twice /\ r.start \subseteq Stored /\ r.shown \subseteq Stored
  /\ r.step = "next" =>
       /\ r.anchor = None => r.shown = {}
       /\ r.anchor # None => /\ \A i \in r.shown : ~Below(Key(i), r.anchor)
                             /\ \A i \in r.start \ r.shown : Below(Key(i), r.anchor)
  /\ r.step = "done" => r.start \subseteq r.shown

PageInv == rd # None /\ rd.op = "page" => PageKnows(rd)

LEMMA PageFacts ==
  ASSUME rd # None, rd.op = "page", ReadTypes
  PROVE  rd \in PageReads
  BY DEF ReadTypes, StatusReads, PageReads, OpenPulses, PulseReads, SavedReads, SnapshotReads

LEMMA PageKnowsKept ==
  ASSUME TypeOK, Grows, Adds, NEW r, PageKnows(r)
  PROVE  PageKnows(r)'
<1>1. Stored \subseteq Stored'
  BY StoredAdds
<1>2. \A i \in Stored : Key(i)' = Key(i)
  BY GrowsKeeps DEF Key
<1>3. \A i \in Stored : Below(Key(i), r.anchor)' <=> Below(Key(i), r.anchor)
  BY <1>2 DEF Below
<1> QED
  BY <1>1, <1>3 DEF PageKnows

\* One page: what it shows, and what it leaves below its lowest row.
LEMMA NextPage ==
  ASSUME TypeOK, IsFiniteSet(Stored), NEW r \in PageReads, PageKnows(r), r.step = "next",
         NEW page, page = PageOf(After(r.anchor)), NEW l \in page,
         \A j \in page : j = l \/ Below(Key(l), Key(j)), page # After(r.anchor)
  PROVE  /\ \A i \in r.shown \cup page : ~Below(Key(i), Key(l))
         /\ \A i \in r.start \ (r.shown \cup page) : Below(Key(i), Key(l))
<1> DEFINE rest == After(r.anchor)
<1>1. rest \subseteq Stored /\ page \subseteq rest
  BY DEF After, PageOf
<1>2. PICK low \in page :
        /\ \A j \in page : j = low \/ Below(Key(low), Key(j))
        /\ \A i \in rest \ page : Below(Key(i), Key(low))
  BY <1>1, PageLowest
<1>3. low = l
  BY <1>1, <1>2, KeysOrdered
<1>4. ASSUME NEW i \in r.shown PROVE ~Below(Key(i), Key(l))
  <2>1. r.anchor # None /\ i \in Stored /\ l \in Stored
    BY <1>1, <1>4 DEF PageKnows
  <2>2. r.anchor \in Nat \X Nat /\ ~Below(Key(i), r.anchor) /\ Below(Key(l), r.anchor)
    BY <1>4, <2>1, <1>1 DEF PageReads, PageKnows, After
  <2> QED
    BY <2>1, <2>2, KeysOrdered
<1>5. ASSUME NEW i \in page PROVE ~Below(Key(i), Key(l))
  BY <1>1, <1>5, KeysOrdered
<1>6. ASSUME NEW i \in r.start, i \notin r.shown PROVE i \in rest
  BY <1>6 DEF PageKnows, After
<1> QED
  BY <1>2, <1>3, <1>4, <1>5, <1>6

LEMMA PageRead ==
  ASSUME BaseInv, PageInv, ReadPage
  PROVE  PageKnows(rd')
<1>1. rd \in PageReads /\ PageKnows(rd) /\ rd.step = "next"
  BY PageFacts DEF ReadPage, In, BaseInv, PageInv
<1>2. PICK rest, page : rest = After(rd.anchor) /\ page = PageOf(rest)
  OBVIOUS
<1> DEFINE Lowest(i) == \A j \in page : j = i \/ Below(Key(i), Key(j))
           low == CHOOSE i \in page : Lowest(i)
<1>3. rest \subseteq Stored /\ page \subseteq rest
  BY <1>2 DEF After, PageOf
<1>4. rd' = [rd EXCEPT !.shown = @ \cup page, !.twice = @ \/ page \cap rd.shown # {},
                       !.step = IF page = rest THEN "done" ELSE "next",
                       !.anchor = IF page = rest THEN None ELSE Key(low)]
  BY <1>2 DEF ReadPage
<1>5. /\ rd'.shown = rd.shown \cup page /\ rd'.start = rd.start
      /\ rd'.step = (IF page = rest THEN "done" ELSE "next")
      /\ rd'.anchor = (IF page = rest THEN None ELSE Key(low))
      /\ page \cap rd.shown = {} => rd'.twice = rd.twice
  <2> HIDE DEF low
  <2> QED
    BY <1>1, <1>4 DEF PageReads
<1>6. page \cap rd.shown = {}
  BY <1>1, <1>2, <1>3 DEF PageKnows, After
<1>7. \A i \in rd.start \ rd.shown : i \in rest
  BY <1>1, <1>2 DEF PageKnows, After
<1>8. CASE page = rest
  BY <1>1, <1>3, <1>5, <1>6, <1>7, <1>8 DEF PageKnows
<1>9. CASE page # rest
  <2>1. \E l \in page : Lowest(l)
    BY <1>2, <1>3, <1>9, PageLowest DEF BaseInv, Small
  <2> HIDE DEF Lowest
  <2>2. low \in page /\ Lowest(low)
    BY <2>1
  <2> HIDE DEF low
  <2>3. /\ \A i \in rd.shown \cup page : ~Below(Key(i), Key(low))
        /\ \A i \in rd.start \ (rd.shown \cup page) : Below(Key(i), Key(low))
    BY <1>1, <1>2, <1>9, <2>2, NextPage DEF BaseInv, Small, Lowest
  <2>4. Key(low) # None
    BY <1>3, <2>2, KeysOrdered, ReadsAssumption DEF BaseInv
  <2> QED
    BY <1>1, <1>3, <1>5, <1>6, <1>9, <2>3, <2>4 DEF PageKnows
<1> QED
  BY <1>8, <1>9

LEMMA PageKept ==
  ASSUME Disciplined, CarefulInv, BaseInv, PageInv, [ReadsNext]_rdvars
  PROVE  PageInv'
<1> USE DEF Unpublished, Elsewhere
<1>0. Adds /\ Grows /\ TypeOK
  BY BaseKept, StepGrows DEF CarefulInv
<1>1. ASSUME rd' = None \/ rd'.op # "page" \/ rd' = rd
      PROVE  PageInv'
  <2>1. PICK r : r = rd
    OBVIOUS
  <2>2. r # None /\ r.op = "page" => PageKnows(r)'
    BY <1>0, <2>1, PageKnowsKept DEF PageInv
  <2> QED
    BY <1>1, <2>1, <2>2 DEF PageInv
<1>2. CASE ReadRelevant \/ AskSuperseded \/ AskLifted \/ AskReplication \/ Conclude
  <2>1. rd' \in StatusReads
    BY <1>2, StatusReadTypes DEF BaseInv
  <2> QED
    BY <1>1, <2>1 DEF StatusReads
<1>3. CASE OpenPulse \/ LookUp \/ Gather \/ Keep
  <2>1. rd' \in OpenPulses \cup PulseReads
    BY <1>3, PulseReadTypes DEF BaseInv
  <2> QED
    BY <1>1, <2>1 DEF OpenPulses, PulseReads
<1>4. CASE OpenSnapshot \/ ListClaims \/ ListAnnotations \/ ListPapers \/ GetCir
         \/ CountRows \/ SaveBlob \/ SetLatest
  <2>1. rd' \in SnapshotReads \cup SavedReads \cup {None}
    BY <1>4, SnapshotReadTypes DEF BaseInv
  <2> QED
    BY <1>1, <2>1 DEF SnapshotReads, SavedReads
<1>5. CASE OpenList \/ ReadPage
  <2>1. UNCHANGED avars
    BY <1>5 DEF OpenList, ReadPage
  <2>2. PageKnows(rd')
    BY <1>5, PageRead DEF OpenList, PageKnows
  <2>3. PageKnows(rd)'
    <3>1. Stored' = Stored /\ \A i : Key(i)' = Key(i)
      BY <2>1 DEF avars, corpus, Stored, Key
    <3> QED
      BY <2>2, <3>1 DEF PageKnows, Below
  <2> QED
    BY <2>3 DEF PageInv
<1>6. CASE Rest \/ Tick \/ Die \/ UNCHANGED <<reads, clock, begun>>
  BY <1>1, <1>6 DEF Rest, Tick, Die, reads
<1> QED
  BY <1>2, <1>3, <1>4, <1>5, <1>6 DEF ReadsNext, Read, rdvars, history

\* A walk over the annotations page by page, whatever is posted between two
\* pages, shows no row twice and by its end every row there was at its start.
THEOREM WalksWhole ==
  ASSUME Disciplined, FiniteSeed
  PROVE  ReadsSpec => []PagesWhole
<1>1. ReadsInit => CarefulInv /\ BaseInv /\ PageInv
  BY BaseBegins, CarefulInit DEF ReadsInit, PageInv
<1>2. CarefulInv /\ BaseInv /\ PageInv /\ [ReadsNext]_rdvars => (CarefulInv /\ BaseInv /\ PageInv)'
  BY BaseKept, CarefulInductive, PageKept
<1>3. PageInv => PagesWhole
  BY DEF PageInv, PagesWhole, PageKnows
<1> QED
  BY <1>1, <1>2, <1>3, PTL DEF ReadsSpec
-----------------------------------------------------------------------------
(***************************************************************************)
(* Statuses read from several lists.  While no correction is stored, the   *)
(* later lists answer for the rows A of the first as A itself would.       *)
(***************************************************************************)

Asks(r, A) ==
  LET Retractions == OfType("claim_retraction", About(r.claim, A))
      Replications == OfType("replication", About(r.claim, A))
  IN /\ A \subseteq Table
     /\ \A a \in A : /\ Superseded(a, Table) => Superseded(a, A)
                     /\ Lifted(a, Table) => Lifted(a, A)
     /\ r.retractions \subseteq Retractions /\ r.replications \subseteq Replications
     /\ \A a \in Retractions \ r.retractions : Superseded(a, A) \/ Lifted(a, A)
     /\ r.standing = {a \in Replications \ r.replications : ~Superseded(a, A)}
     /\ r.step = "lifted" => r.asked \in r.retractions /\ ~Superseded(r.asked, A)

StatusInv ==
  StatusRead(rd) /\ ~fixed =>
    /\ rd.step = "done" => rd.answer \in was
    /\ rd.step # "done" =>
         /\ rd.answer = None
         /\ \E A : Asks(rd, A) /\ Status(rd.claim, A, QuorumOf(rd.claim, papers)) \in was

LEMMA StatusFacts ==
  ASSUME rd # None, rd.op = "status", ReadTypes
  PROVE  rd \in StatusReads
  BY DEF ReadTypes, StatusReads, PageReads, OpenPulses, PulseReads, SavedReads, SnapshotReads

\* A row that corrects none changes no answer about the rows there were.
LEMMA PlainGrowth ==
  ASSUME TypeOK, Grows,
         \A i \in Ids : annotations'[i] # annotations[i] => ~Correction(annotations'[i])
  PROVE  /\ Table \subseteq Table'
         /\ \A a \in Table : /\ Superseded(a, Table') => Superseded(a, Table)
                             /\ Lifted(a, Table') => Lifted(a, Table)
<1>1. CASE annotations' = annotations
  BY <1>1 DEF Table, Stored
<1>2. CASE annotations' # annotations
  <2>1. PICK i \in Ids, b \in Body : Stores(i, b)
    BY <1>2 DEF Grows
  <2>2. annotations[i] = None /\ annotations'[i] # None /\ ~Correction(annotations'[i])
    <3>1. i \notin Stored
      <4>1. i \in Stored => annotations' = annotations
        BY <2>1 DEF Stores, TypeOK
      <4> QED
        BY <1>2, <4>1
    <3>2. annotations'[i] = RowOf(b, i) /\ RowOf(b, i) \in Row
      BY <2>1, RowOfType DEF Stores, TypeOK
    <3>3. annotations'[i] # None
      BY <3>2, AnnotationsAssumption DEF Row
    <3> QED
      BY <3>1, <3>3 DEF Stored
  <2>3. PICK A, B, row : A = Table /\ B = Table' /\ row = annotations'[i]
    OBVIOUS
  <2>4. B = A \cup {row} /\ \A a \in A \cup {row} : a.id # None
    BY <2>2, <2>3, OneRowMore
  <2>5. Plain(row)
    BY <2>2, <2>3 DEF Correction, Plain
  <2>6. \A a \in A : Superseded(a, B) <=> Superseded(a, A)
    BY <2>4, <2>5, PlainRow
  <2>7. \A a \in A : Lifted(a, B) <=> Lifted(a, A)
    BY <2>4, <2>5, PlainRow
  <2> QED
    BY <2>3, <2>4, <2>6, <2>7
<1> QED
  BY <1>1, <1>2

\* What Watch records of a status read that goes on.
LEMMA Watched ==
  ASSUME Watch, StatusRead(rd), StatusRead(rd'), ~fixed', rd'.claim = rd.claim
  PROVE  /\ ~fixed /\ was \subseteq was'
         /\ \A i \in Ids : annotations'[i] # annotations[i] => ~Correction(annotations'[i])
         /\ QuorumOf(rd.claim, papers') = QuorumOf(rd.claim, papers)
  BY DEF Watch

LEMMA AsksKept ==
  ASSUME TypeOK, Grows, NEW r, NEW A, Asks(r, A),
         \A i \in Ids : annotations'[i] # annotations[i] => ~Correction(annotations'[i])
  PROVE  Asks(r, A)'
<1>1. /\ Table \subseteq Table'
      /\ \A a \in Table : /\ Superseded(a, Table') => Superseded(a, Table)
                          /\ Lifted(a, Table') => Lifted(a, Table)
  BY PlainGrowth
<1> QED
  BY <1>1 DEF Asks, Superseded, Lifted

LEMMA StatusSteady ==
  ASSUME TypeOK, Grows, Watch, StatusInv, StatusRead(rd') => rd' = rd
  PROVE  StatusInv'
<1> SUFFICES ASSUME StatusRead(rd'), ~fixed'
             PROVE  /\ rd'.step = "done" => rd'.answer \in was'
                    /\ rd'.step # "done" =>
                         /\ rd'.answer = None
                         /\ \E A : Asks(rd, A)' /\ Status(rd'.claim, A, QuorumOf(rd'.claim, papers')) \in was'
  BY DEF StatusInv, StatusRead
<1>1. rd' = rd /\ StatusRead(rd)
  OBVIOUS
<1>2. /\ ~fixed /\ was \subseteq was'
      /\ \A i \in Ids : annotations'[i] # annotations[i] => ~Correction(annotations'[i])
      /\ QuorumOf(rd.claim, papers') = QuorumOf(rd.claim, papers)
  BY <1>1, Watched
<1>3. CASE rd.step = "done"
  BY <1>1, <1>2, <1>3 DEF StatusInv
<1>4. CASE rd.step # "done"
  <2>1. PICK A : Asks(rd, A) /\ Status(rd.claim, A, QuorumOf(rd.claim, papers)) \in was
    BY <1>1, <1>2, <1>4 DEF StatusInv
  <2>2. PICK r : r = rd
    OBVIOUS
  <2>3. Asks(r, A)'
    BY <1>2, <2>1, <2>2, AsksKept
  <2>4. Asks(rd, A)'
    BY <1>1, <2>2, <2>3 DEF Asks
  <2> QED
    BY <1>1, <1>2, <1>4, <2>1, <2>4 DEF StatusInv
<1> QED
  BY <1>3, <1>4
\* A step of the read itself, that leaves it another question to ask.
LEMMA NextQuestion ==
  ASSUME UNCHANGED avars, Watch, StatusRead(rd), StatusRead(rd'), ~fixed',
         rd'.claim = rd.claim, rd'.step # "done", rd'.answer = None,
         NEW A, Status(rd.claim, A, QuorumOf(rd.claim, papers)) \in was,
         NEW r, r = rd', Asks(r, A)
  PROVE  StatusInv'
<1>1. was \subseteq was' /\ QuorumOf(rd.claim, papers') = QuorumOf(rd.claim, papers)
  BY Watched
<1>2. Asks(rd, A)'
  BY DEF Asks, avars, corpus, Table, Stored
<1>3. Status(rd'.claim, A, QuorumOf(rd'.claim, papers')) \in was'
  BY <1>1
<1> QED
  BY <1>2, <1>3 DEF StatusInv

LEMMA FirstQuestion ==
  ASSUME BaseInv, ReadRelevant, Watch
  PROVE  StatusInv'
<1>1. PICK T, c : /\ T = Table /\ c \in claims
                  /\ rd' = [op |-> "status", step |-> "retractions", claim |-> c, asked |-> None,
                            retractions |-> OfType("claim_retraction", About(c, T)),
                            replications |-> OfType("replication", About(c, T)),
                            standing |-> {}, answer |-> None]
  BY DEF ReadRelevant
<1> SUFFICES ASSUME StatusRead(rd'), ~fixed' PROVE StatusInv'
  BY DEF StatusInv, StatusRead
<1>2. /\ UNCHANGED <<annotations, papers>> /\ rd'.claim = c /\ rd'.step = "retractions"
      /\ rd'.answer = None /\ rd'.standing = {}
      /\ rd'.retractions = OfType("claim_retraction", About(c, T))
      /\ rd'.replications = OfType("replication", About(c, T))
  BY <1>1 DEF ReadRelevant, Elsewhere, avars, corpus
<1>3. Table' = T
  BY <1>1, <1>2 DEF Table, Stored
<1>4. Asks(rd, T)'
  BY <1>2, <1>3 DEF Asks
<1>5. Status(c, T, QuorumOf(c, papers')) \in was'
  BY <1>2, <1>3 DEF Watch, StatusIn
<1> QED
  BY <1>2, <1>4, <1>5 DEF StatusInv

LEMMA Questions ==
  ASSUME BaseInv, StatusInv, Watch,
         AskSuperseded \/ AskLifted \/ AskReplication \/ Conclude
  PROVE  StatusInv'
<1> SUFFICES ASSUME StatusRead(rd'), ~fixed' PROVE StatusInv'
  BY DEF StatusInv, StatusRead
<1>1. rd \in StatusReads /\ StatusRead(rd) /\ rd.step # "done" /\ UNCHANGED avars
  BY StatusFacts DEF AskSuperseded, AskLifted, AskReplication, Conclude, In, BaseInv, StatusRead, Elsewhere
<1>2. PICK r, T, c : r = rd' /\ T = Table /\ c = rd.claim
  OBVIOUS
<1>3. r.claim = c
  <2>1. CASE AskSuperseded
    BY <1>1, <1>2, <2>1 DEF AskSuperseded, StatusReads
  <2>2. CASE AskLifted
    BY <1>1, <1>2, <2>2 DEF AskLifted, StatusReads
  <2>3. CASE AskReplication
    BY <1>1, <1>2, <2>3 DEF AskReplication, StatusReads
  <2>4. CASE Conclude
    BY <1>1, <1>2, <2>4 DEF Conclude, StatusReads
  <2> QED
    BY <2>1, <2>2, <2>3, <2>4
<1>4. ~fixed /\ was \subseteq was'
  BY <1>1, <1>2, <1>3, Watched
<1>5. PICK A : Asks(rd, A) /\ Status(c, A, QuorumOf(c, papers)) \in was /\ rd.answer = None
  BY <1>1, <1>2, <1>4 DEF StatusInv
<1> DEFINE Retractions == OfType("claim_retraction", About(c, A))
           Replications == OfType("replication", About(c, A))
<1>6. /\ A \subseteq T
      /\ \A a \in A : /\ Superseded(a, T) <=> Superseded(a, A)
                      /\ Lifted(a, T) <=> Lifted(a, A)
      /\ rd.retractions \subseteq Retractions /\ rd.replications \subseteq Replications
      /\ \A a \in Retractions \ rd.retractions : Superseded(a, A) \/ Lifted(a, A)
      /\ rd.standing = {a \in Replications \ rd.replications : ~Superseded(a, A)}
      /\ rd.step = "lifted" => rd.asked \in rd.retractions /\ ~Superseded(rd.asked, A)
      /\ Retractions \subseteq A /\ Replications \subseteq A
  BY <1>2, <1>5 DEF Asks, Superseded, Lifted, OfType, About
<1>7. ASSUME r.step # "done", r.answer = None,
             /\ r.retractions \subseteq Retractions /\ r.replications \subseteq Replications
             /\ \A a \in Retractions \ r.retractions : Superseded(a, A) \/ Lifted(a, A)
             /\ r.standing = {a \in Replications \ r.replications : ~Superseded(a, A)}
             /\ r.step = "lifted" => r.asked \in r.retractions /\ ~Superseded(r.asked, A)
      PROVE  StatusInv'
  <2>1. Asks(r, A)
    BY <1>2, <1>3, <1>6, <1>7 DEF Asks
  <2> QED
    BY <1>1, <1>2, <1>3, <1>5, <1>7, <2>1, NextQuestion
<1>8. ASSUME r.step = "done", r.answer \in was
      PROVE  StatusInv'
  BY <1>2, <1>4, <1>8 DEF StatusInv
<1> HIDE DEF Retractions, Replications
<1>9. CASE AskSuperseded
  <2>1. PICK a \in rd.retractions :
          r = IF Superseded(a, T) THEN [rd EXCEPT !.retractions = @ \ {a}]
              ELSE [rd EXCEPT !.asked = a, !.step = "lifted"]
    BY <1>2, <1>9 DEF AskSuperseded
  <2>2. a \in A /\ rd.step = "retractions"
    BY <1>6, <1>9 DEF AskSuperseded, In
  <2>3. CASE Superseded(a, T)
    <3>1. /\ r.step = rd.step /\ r.answer = None /\ r.retractions = rd.retractions \ {a}
          /\ r.replications = rd.replications /\ r.standing = rd.standing
      BY <1>1, <1>5, <2>1, <2>3 DEF StatusReads
    <3>2. Superseded(a, A)
      BY <1>6, <2>2, <2>3
    <3> QED
      BY <1>6, <1>7, <2>2, <3>1, <3>2
  <2>4. CASE ~Superseded(a, T)
    <3>1. /\ r.step = "lifted" /\ r.answer = None /\ r.retractions = rd.retractions
          /\ r.replications = rd.replications /\ r.standing = rd.standing /\ r.asked = a
      BY <1>1, <1>5, <2>1, <2>4 DEF StatusReads
    <3>2. ~Superseded(a, A)
      BY <1>6, <2>2, <2>4
    <3> QED
      BY <1>6, <1>7, <2>1, <2>2, <3>1, <3>2
  <2> QED
    BY <2>3, <2>4
<1>10. CASE AskLifted
  <2>1. r = IF Lifted(rd.asked, T)
            THEN [rd EXCEPT !.retractions = @ \ {rd.asked}, !.step = "retractions", !.asked = None]
            ELSE [rd EXCEPT !.answer = "retracted", !.step = "done", !.asked = None]
    BY <1>2, <1>10 DEF AskLifted
  <2>2. rd.asked \in rd.retractions /\ rd.asked \in A /\ ~Superseded(rd.asked, A)
    BY <1>6, <1>10 DEF AskLifted, In
  <2>3. CASE Lifted(rd.asked, T)
    <3>1. /\ r.step = "retractions" /\ r.answer = None
          /\ r.retractions = rd.retractions \ {rd.asked}
          /\ r.replications = rd.replications /\ r.standing = rd.standing
      BY <1>1, <1>5, <2>1, <2>3 DEF StatusReads
    <3>2. Lifted(rd.asked, A)
      BY <1>6, <2>2, <2>3
    <3> QED
      BY <1>6, <1>7, <3>1, <3>2
  <2>4. CASE ~Lifted(rd.asked, T)
    <3>1. r.step = "done" /\ r.answer = "retracted"
      BY <1>1, <2>1, <2>4 DEF StatusReads
    <3>2. Retracted(c, A)
      BY <1>6, <2>2, <2>4 DEF Retracted, Retractions
    <3> QED
      BY <1>5, <1>8, <3>1, <3>2 DEF Status
  <2> QED
    BY <2>3, <2>4
<1>11. CASE AskReplication
  <2>1. PICK a \in rd.replications :
          r = [rd EXCEPT !.replications = @ \ {a},
                         !.standing = IF Superseded(a, T) THEN @ ELSE @ \cup {a}]
    BY <1>2, <1>11 DEF AskReplication
  <2>2. a \in A /\ a \in Replications /\ rd.step = "retractions"
    BY <1>6, <1>11 DEF AskReplication, In
  <2>3. PICK standing : standing = IF Superseded(a, T) THEN rd.standing ELSE rd.standing \cup {a}
    OBVIOUS
  <2>4. r = [rd EXCEPT !.replications = @ \ {a}, !.standing = standing]
    BY <2>1, <2>3
  <2>5. /\ r.step = rd.step /\ r.answer = None /\ r.retractions = rd.retractions
        /\ r.replications = rd.replications \ {a} /\ r.standing = standing
    BY <1>1, <1>5, <2>4 DEF StatusReads
  <2>6. standing = {b \in Replications \ (rd.replications \ {a}) : ~Superseded(b, A)}
    <3>1. Superseded(a, T) <=> Superseded(a, A)
      BY <1>6, <2>2
    <3> QED
      BY <1>6, <2>1, <2>2, <2>3, <3>1
  <2> QED
    BY <1>6, <1>7, <2>2, <2>5, <2>6
<1>12. CASE Conclude
  <2>1. PICK answer : answer = FromReplications(rd.standing, c.replication_status, QuorumOf(c, papers))
    OBVIOUS
  <2>2. r = [rd EXCEPT !.step = "done", !.answer = answer] /\ rd.retractions = {} /\ rd.replications = {}
    BY <1>2, <1>12, <2>1 DEF Conclude
  <2>3. r.step = "done" /\ r.answer = answer
    BY <1>1, <2>2 DEF StatusReads
  <2>4. ~Retracted(c, A)
    BY <1>6, <2>2 DEF Retracted, Retractions
  <2>5. rd.standing = Standing(c, A)
    BY <1>6, <2>2 DEF Standing, Replications
  <2> QED
    BY <1>5, <1>8, <2>1, <2>3, <2>4, <2>5 DEF Status
<1> QED
  BY <1>9, <1>10, <1>11, <1>12
LEMMA StatusKept ==
  ASSUME Disciplined, CarefulInv, BaseInv, StatusInv, [ReadsNext]_rdvars
  PROVE  StatusInv'
<1> USE DEF Unpublished, Elsewhere
<1>0. Grows /\ TypeOK
  BY BaseKept, StepGrows DEF CarefulInv
<1>1. CASE UNCHANGED rdvars
  <2>1. Table' = Table /\ UNCHANGED <<rd, was, fixed, papers>>
    BY <1>1 DEF rdvars, avars, corpus, reads, history, Table, Stored
  <2>2. UNCHANGED StatusIn(rd.claim, Table, papers)
    BY <2>1
  <2>3. \A A : QuorumOf(rd'.claim, papers') = QuorumOf(rd.claim, papers) /\ (Asks(rd, A)' <=> Asks(rd, A))
    BY <2>1 DEF Asks
  <2> QED
    BY <2>1, <2>3 DEF StatusInv, StatusRead
<1>2. CASE ReadsNext
  <2>0. Watch
    BY <1>2 DEF ReadsNext
  <2>1. ASSUME rd' = None \/ rd'.op # "status" \/ rd' = rd
        PROVE  StatusInv'
    BY <1>0, <2>0, <2>1, StatusSteady DEF StatusRead
  <2>2. CASE ReadRelevant \/ AskSuperseded \/ AskLifted \/ AskReplication \/ Conclude
    BY <2>0, <2>2, FirstQuestion, Questions
  <2>3. CASE OpenPulse \/ LookUp \/ Gather \/ Keep
    <3>1. rd' \in OpenPulses \cup PulseReads
      BY <2>3, PulseReadTypes DEF BaseInv
    <3> QED
      BY <2>1, <3>1 DEF OpenPulses, PulseReads
  <2>4. CASE OpenSnapshot \/ ListClaims \/ ListAnnotations \/ ListPapers \/ GetCir
         \/ CountRows \/ SaveBlob \/ SetLatest
    <3>1. rd' \in SnapshotReads \cup SavedReads \cup {None}
      BY <2>4, SnapshotReadTypes DEF BaseInv
    <3> QED
      BY <2>1, <3>1 DEF SnapshotReads, SavedReads
  <2>5. CASE OpenList \/ ReadPage
    <3>1. rd' \in PageReads
      BY <2>5, PageReadTypes DEF BaseInv, Small
    <3> QED
      BY <2>1, <3>1 DEF PageReads
  <2>6. CASE Rest \/ Tick \/ Die \/ UNCHANGED <<reads, clock, begun>>
    BY <2>1, <2>6 DEF Rest, Tick, Die, reads
  <2> QED
    BY <1>2, <2>2, <2>3, <2>4, <2>5, <2>6 DEF ReadsNext, Read
<1> QED
  BY <1>1, <1>2

\* A status answered from several looks at the annotations is one the claim had
\* at a moment of the read, unless a correction was stored, or its quorum moved,
\* meanwhile.
THEOREM StatusesTrue ==
  ASSUME Disciplined, FiniteSeed
  PROVE  ReadsSpec => []StatusWasTrue
<1>1. ReadsInit => CarefulInv /\ BaseInv /\ StatusInv
  BY BaseBegins, CarefulInit DEF ReadsInit, StatusInv, StatusRead
<1>2. CarefulInv /\ BaseInv /\ StatusInv /\ [ReadsNext]_rdvars => (CarefulInv /\ BaseInv /\ StatusInv)'
  BY BaseKept, CarefulInductive, StatusKept
<1>3. StatusInv => StatusWasTrue
  BY DEF StatusInv, StatusWasTrue
<1> QED
  BY <1>1, <1>2, <1>3, PTL DEF ReadsSpec
=============================================================================
