--------------------------- MODULE SubmissionsProofs ---------------------------
(***************************************************************************)
(* Proofs about Submissions, for every value of its constants.             *)
(***************************************************************************)
EXTENDS Submissions, FiniteSetTheorems, FunctionTheorems, WellFoundedInduction, TLAPS

\* Induction without a predicate parameter: a set of numbers has a least element, a
\* finite one a greatest.
LEMMA LeastOf ==
  ASSUME NEW S \in SUBSET Nat, S # {}
  PROVE  \E m \in S : \A k \in S : m <= k
<1> DEFINE R == OpToRel(<, Nat)
<1>1. PICK x \in S : \A y \in S : <<y, x>> \notin R
  <2>1. IsWellFoundedOn(R, Nat)
    BY NatLessThanWellFounded
  <2> HIDE DEF R
  <2> QED
    BY <2>1, WFMin
<1>2. ASSUME NEW y \in S PROVE x <= y
  <2>1. <<y, x>> \notin {p \in Nat \X Nat : p[1] < p[2]}
    BY <1>1 DEF OpToRel
  <2>2. ~(y < x)
    BY <2>1
  <2> QED
    BY <2>2
<1> QED
  BY <1>2

LEMMA GreatestOf ==
  ASSUME NEW S \in SUBSET Nat, IsFiniteSet(S), S # {}
  PROVE  \E m \in S : \A k \in S : k <= m
<1> DEFINE Unbounded == {T \in SUBSET S : T # {} /\ \A m \in T : \E k \in T : k > m}
           R == StrictSubsetOrdering(S)
<1>1. SUFFICES ASSUME Unbounded # {} PROVE FALSE
  OBVIOUS
<1>2. Unbounded \subseteq FiniteSubsetsOf(S)
  BY FS_FiniteSubsetsOfFinite
<1>3. PICK T \in Unbounded : \A U \in Unbounded : <<U, T>> \notin R
  <2>1. IsWellFoundedOn(R, FiniteSubsetsOf(S))
    BY FS_StrictSubsetOrderingWellFounded
  <2> HIDE DEF R, Unbounded
  <2> QED
    BY <1>1, <1>2, <2>1, WFMin
<1>4. PICK x \in T : TRUE
  OBVIOUS
<1>5. T \ {x} \in Unbounded
  OBVIOUS
<1> QED
  BY <1>3, <1>5 DEF StrictSubsetOrdering

\* What the program counter says about the request being persisted.
StageInv ==
  /\ pc = "note" => job.req.previous_version # None
  /\ pc = "remember" => job.req.key # None

-----------------------------------------------------------------------------
(***************************************************************************)
(* Type correctness.                                                       *)
(***************************************************************************)

\* The job Begin makes is a well-formed one.
LEMMA BeginTypes ==
  ASSUME TypeOK, NEW token \in Tokens, NEW key \in Keys \cup {None},
         NEW up \in Uploads, NEW prev \in Ids \cup {None},
         Begin(token, key, up, prev)
  PROVE  TypeOK' /\ StageInv'
<1>1. up \in Upload
  BY ConstantsAssumption DEF ConstantsAssumption
<1>2. PICK id \in Ids, s \in Slugs :
        /\ AssignedId(up, prev, id)
        /\ minted' = IF KeepsCirId(up, prev) THEN minted ELSE minted \cup {id}
        /\ job' = [req |-> [token |-> token, key |-> key, upload |-> up,
                            previous_version |-> prev],
                   paper_id |-> id,
                   row |-> [id_slug |-> s, upload |-> up,
                            previous_version |->
                              IF prev # None THEN prev ELSE up.previous_version],
                   todo |-> up.labels]
  BY DEF Begin
<1>3. up.previous_version \in Ids \cup {None} /\ up.labels \in SUBSET Labels
  BY <1>1 DEF Upload
<1>4. job' \in Job
  BY <1>2, <1>3 DEF Job, Request, PaperRow
<1>5. minted' \subseteq Uuids
  BY <1>2 DEF TypeOK, AssignedId
<1>6. pc' = "source" /\ UNCHANGED <<tables, writes, replies>>
  BY DEF Begin
<1> QED
  BY <1>4, <1>5, <1>6 DEF TypeOK, StageInv, Stages, tables

LEMMA PersistTypes ==
  ASSUME TypeOK, StageInv, Persist
  PROVE  TypeOK' /\ StageInv'
<1>1. pc \in Stages /\ job \in Job
  BY DEF TypeOK, Persist, SaveSource, SavePdf, AddPaper, AddCir, AddClaim,
         ClaimsDone, AddNote, AddIdempotency, Respond, Goto
<1>2. /\ job.paper_id \in Ids /\ job.row \in PaperRow /\ job.todo \in SUBSET Labels
      /\ job.row.id_slug \in Slugs
      /\ job.req.token \in Tokens /\ job.req.key \in Keys \cup {None}
      /\ job.req.upload \in Uploads /\ job.req.previous_version \in Ids \cup {None}
  BY <1>1 DEF Job, Request, PaperRow
<1>3. CASE SaveSource
  BY <1>1, <1>2, <1>3 DEF TypeOK, StageInv, SaveSource, Goto, Stages
<1>4. CASE SavePdf
  BY <1>1, <1>2, <1>4 DEF TypeOK, StageInv, SavePdf, Goto, Stages
<1>5. CASE AddPaper
  <2>1. writes' \subseteq Write
    BY <1>2, <1>5 DEF TypeOK, AddPaper, Write
  <2> QED
    BY <1>1, <1>2, <1>5, <2>1 DEF TypeOK, StageInv, AddPaper, Goto, Stages
<1>6. CASE AddCir
  BY <1>1, <1>2, <1>6 DEF TypeOK, StageInv, AddCir, Goto, Stages
<1>7. CASE AddClaim
  <2>1. PICK l \in job.todo :
          /\ claims' = [claims EXCEPT ![<<job.row.id_slug, l>>] = job.req.upload]
          /\ job' = [job EXCEPT !.todo = @ \ {l}]
    BY <1>7 DEF AddClaim
  <2>2. job' \in Job
    BY <1>1, <1>2, <2>1 DEF Job
  <2>3. claims' \in [Slugs \X Labels -> Uploads \cup {None}]
    BY <1>2, <2>1 DEF TypeOK
  <2> QED
    BY <1>1, <1>7, <2>2, <2>3 DEF TypeOK, StageInv, AddClaim
<1>8. CASE ClaimsDone
  BY <1>1, <1>2, <1>8
  DEF TypeOK, StageInv, ClaimsDone, Goto, Stages, AfterClaims, AfterNote, tables
<1>9. CASE AddNote
  <2>1. CreatedBy(job.req.token) \in Tokens \cup {"unknown"}
    BY <1>2 DEF CreatedBy
  <2>2. job.req.previous_version \in Ids
    BY <1>2, <1>9 DEF StageInv, AddNote, Goto
  <2>3. notes' \subseteq Note
    BY <1>2, <1>9, <2>1, <2>2 DEF TypeOK, AddNote, Note
  <2> QED
    BY <1>1, <1>9, <2>3 DEF TypeOK, StageInv, AddNote, Goto, Stages, AfterNote
<1>10. CASE AddIdempotency
  <2>1. ResponseOf(job) \in Response
    BY <1>2 DEF ResponseOf, Response
  <2>2. job.req.key \in Keys
    BY <1>2, <1>10 DEF StageInv, AddIdempotency, Goto
  <2>3. idem' \in [Tokens \X Keys -> Response \cup {None}]
    BY <1>2, <1>10, <2>1, <2>2 DEF TypeOK, AddIdempotency
  <2> QED
    BY <1>1, <1>10, <2>3 DEF TypeOK, StageInv, AddIdempotency, Goto, Stages
<1>11. CASE Respond
  <2>1. ResponseOf(job) \in Response
    BY <1>2 DEF ResponseOf, Response
  <2>2. replies' \subseteq Reply
    BY <1>2, <1>11, <2>1 DEF TypeOK, Respond, Reply
  <2> QED
    BY <1>11, <2>2 DEF TypeOK, StageInv, Respond, tables
<1> QED
  BY <1>3, <1>4, <1>5, <1>6, <1>7, <1>8, <1>9, <1>10, <1>11 DEF Persist

LEMMA ReplayTypes ==
  ASSUME TypeOK, StageInv, NEW token \in Tokens, NEW key \in Keys \cup {None},
         NEW up \in Uploads, NEW prev \in Ids \cup {None},
         Replay(token, key, up, prev)
  PROVE  TypeOK' /\ StageInv'
<1>1. key \in Keys /\ idem[<<token, key>>] # None
  BY DEF Replay, Cached
<1>2. idem[<<token, key>>] \in Response
  BY <1>1 DEF TypeOK
<1>3. replies' \subseteq Reply
  BY <1>1, <1>2 DEF TypeOK, Replay, Reply
<1> QED
  BY <1>3 DEF TypeOK, StageInv, Replay, tables

LEMMA TypesInductive == TypeOK /\ StageInv /\ [Next]_vars => TypeOK' /\ StageInv'
<1> SUFFICES ASSUME TypeOK, StageInv, [Next]_vars PROVE TypeOK' /\ StageInv'
  OBVIOUS
<1>1. ASSUME NEW token \in Tokens, NEW key \in Keys \cup {None}, NEW up \in Uploads,
             NEW prev \in Ids \cup {None},
             Begin(token, key, up, prev) \/ Replay(token, key, up, prev)
      PROVE  TypeOK' /\ StageInv'
  BY <1>1, BeginTypes, ReplayTypes
<1>2. CASE Persist
  BY <1>2, PersistTypes
<1>3. CASE Crash
  BY <1>3 DEF TypeOK, StageInv, Crash, tables
<1>4. CASE UNCHANGED vars
  BY <1>4 DEF TypeOK, StageInv, vars, tables
<1> QED
  BY <1>1, <1>2, <1>3, <1>4 DEF Next

LEMMA Types == Spec => [](TypeOK /\ StageInv)
<1>1. Init => TypeOK /\ StageInv
  BY DEF Init, TypeOK, StageInv
<1> QED
  BY <1>1, TypesInductive, PTL DEF Spec

\* Every row, blob, annotation and reply has its type in every reachable state.
THEOREM TypeCorrect == Spec => []TypeOK
  BY Types, PTL

-----------------------------------------------------------------------------
(***************************************************************************)
(* Replies to one key agree: an idempotency entry is written once, before  *)
(* the first reply, and never changed.                                     *)
(***************************************************************************)

KeyInv ==
  /\ pc \in Stages \ {"reply"} /\ job.req.key # None =>
       idem[<<job.req.token, job.req.key>>] = None
  /\ pc = "reply" /\ job.req.key # None =>
       idem[<<job.req.token, job.req.key>>] = ResponseOf(job)
  /\ \A r \in replies : r.key # None => idem[<<r.token, r.key>>] = r.response

LEMMA KeyInductive ==
  TypeOK /\ StageInv /\ KeyInv /\ [Next]_vars => KeyInv'
<1> SUFFICES ASSUME TypeOK, StageInv, KeyInv, [Next]_vars PROVE KeyInv'
  OBVIOUS
<1>1. ASSUME NEW token \in Tokens, NEW key \in Keys \cup {None}, NEW up \in Uploads,
             NEW prev \in Ids \cup {None}, Begin(token, key, up, prev)
      PROVE  KeyInv'
  <2>1. job'.req = [token |-> token, key |-> key, upload |-> up,
                    previous_version |-> prev]
    BY <1>1 DEF Begin
  <2>2. key # None => idem[<<token, key>>] = None
    BY <1>1 DEF Begin, Cached
  <2>3. pc' = "source" /\ idem' = idem /\ replies' = replies
    BY <1>1 DEF Begin, tables
  <2> QED
    BY <2>1, <2>2, <2>3 DEF KeyInv
<1>2. ASSUME NEW token \in Tokens, NEW key \in Keys \cup {None}, NEW up \in Uploads,
             NEW prev \in Ids \cup {None}, Replay(token, key, up, prev)
      PROVE  KeyInv'
  BY <1>2 DEF KeyInv, Replay, ResponseOf, tables
<1>3. CASE Persist
  <2>1. CASE SaveSource
    BY <2>1 DEF KeyInv, SaveSource, Goto, Stages
  <2>2. CASE SavePdf
    BY <2>2 DEF KeyInv, SavePdf, Goto, Stages
  <2>3. CASE AddPaper
    BY <2>3 DEF KeyInv, AddPaper, Goto, Stages
  <2>4. CASE AddCir
    BY <2>4 DEF KeyInv, AddCir, Goto, Stages
  <2>5. CASE AddClaim
    <3>1. job'.req = job.req /\ pc = "claims" /\ UNCHANGED <<pc, idem, replies>>
      BY <2>5 DEF AddClaim, TypeOK, Job
    <3> QED
      BY <3>1 DEF KeyInv, Stages
  <2>6. CASE ClaimsDone
    <3>1. pc = "claims" /\ UNCHANGED <<job, idem, replies>>
      BY <2>6 DEF ClaimsDone, Goto, tables
    <3>2. pc' = "reply" => job.req.key = None
      BY <2>6 DEF ClaimsDone, Goto, AfterClaims, AfterNote
    <3> QED
      BY <3>1, <3>2 DEF KeyInv, Stages
  <2>7. CASE AddNote
    BY <2>7 DEF KeyInv, AddNote, Goto, AfterNote, Stages
  <2>8. CASE AddIdempotency
    <3>1. pc = "remember" /\ pc' = "reply" /\ UNCHANGED <<job, replies>>
      BY <2>8 DEF AddIdempotency, Goto
    <3>2. job.req.token \in Tokens /\ job.req.key \in Keys
      BY <3>1 DEF TypeOK, StageInv, Stages, Job, Request
    <3>3. idem[<<job.req.token, job.req.key>>] = None
      BY <3>1, <3>2 DEF KeyInv, StageInv, Stages
    <3>4. idem'[<<job.req.token, job.req.key>>] = ResponseOf(job)
      BY <2>8, <3>2 DEF AddIdempotency, TypeOK
    <3>5. ASSUME NEW r \in replies, r.key # None
          PROVE  idem'[<<r.token, r.key>>] = r.response
      <4>1. r.response \in Response /\ r.token \in Tokens /\ r.key \in Keys
        BY <3>5 DEF TypeOK, Reply
      <4>2. r.response # None
        BY <4>1, ConstantsAssumption DEF ConstantsAssumption
      <4>3. <<r.token, r.key>> # <<job.req.token, job.req.key>>
        BY <3>3, <3>5, <4>2 DEF KeyInv
      <4> QED
        BY <2>8, <3>5, <4>1, <4>3 DEF AddIdempotency, KeyInv, TypeOK
    <3> QED
      BY <3>1, <3>4, <3>5 DEF KeyInv, Stages, ResponseOf
  <2>9. CASE Respond
    BY <2>9 DEF KeyInv, Respond, Stages, tables
  <2> QED
    BY <1>3, <2>1, <2>2, <2>3, <2>4, <2>5, <2>6, <2>7, <2>8, <2>9 DEF Persist
<1>4. CASE Crash
  BY <1>4 DEF KeyInv, Crash, Stages, tables
<1>5. CASE UNCHANGED vars
  BY <1>5 DEF KeyInv, ResponseOf, vars, tables
<1> QED
  BY <1>1, <1>2, <1>3, <1>4, <1>5 DEF Next

LEMMA EntriesKept == Spec => [](TypeOK /\ StageInv /\ KeyInv)
<1>1. Init => KeyInv
  BY DEF Init, KeyInv, Stages
<1> QED
  BY <1>1, KeyInductive, Types, PTL DEF Spec

\* A key is answered with one paper, whatever is resent and wherever a crash
\* falls. Holds of any client.
THEOREM ReplyAgreement == Spec => []RepliesAgree
<1>1. TypeOK /\ KeyInv => RepliesAgree
  BY DEF KeyInv, RepliesAgree
<1> QED
  BY <1>1, EntriesKept, PTL

-----------------------------------------------------------------------------
(***************************************************************************)
(* One key, one paper row, between two crashes: a row written under a key  *)
(* is the one of the key's entry, or that of the submission under way,     *)
(* which found no entry when it began (KeyInv).                            *)
(***************************************************************************)

PastPaper == {"cir", "claims", "note", "remember", "reply"}

WriteInv ==
  \A w \in writes :
    LET entry == idem[<<w.token, w.key>>]
    IN IF entry = None
       THEN /\ pc \in PastPaper
            /\ job.req.token = w.token /\ job.req.key = w.key /\ job.paper_id = w.paper_id
       ELSE entry.paper_id = w.paper_id

\* Steps that write neither rows nor entries and keep the job, past its row.
LEMMA WriteKept ==
  ASSUME TypeOK, WriteInv, UNCHANGED <<writes, idem>>,
         pc \in PastPaper => pc' \in PastPaper /\ job'.req = job.req /\ job'.paper_id = job.paper_id
  PROVE  WriteInv'
BY DEF WriteInv

LEMMA WriteInductive ==
  TypeOK /\ StageInv /\ KeyInv /\ WriteInv /\ [Next]_vars => WriteInv'
<1> SUFFICES ASSUME TypeOK, StageInv, KeyInv, WriteInv, [Next]_vars PROVE WriteInv'
  OBVIOUS
<1>1. ASSUME NEW token \in Tokens, NEW key \in Keys \cup {None}, NEW up \in Uploads,
             NEW prev \in Ids \cup {None}, Begin(token, key, up, prev)
      PROVE  WriteInv'
  BY <1>1, WriteKept DEF Begin, PastPaper, tables
<1>2. ASSUME NEW token \in Tokens, NEW key \in Keys \cup {None}, NEW up \in Uploads,
             NEW prev \in Ids \cup {None}, Replay(token, key, up, prev)
      PROVE  WriteInv'
  BY <1>2, WriteKept DEF Replay, tables
<1>3. CASE Persist
  <2>1. CASE SaveSource
    BY <2>1, WriteKept DEF SaveSource, Goto, PastPaper
  <2>2. CASE SavePdf
    BY <2>2, WriteKept DEF SavePdf, Goto, PastPaper
  <2>3. CASE AddPaper
    <3>1. pc = "paper" /\ pc' = "cir" /\ UNCHANGED <<job, idem>>
      BY <2>3 DEF AddPaper, Goto
    <3>2. \A w \in writes : idem[<<w.token, w.key>>] # None
      BY <3>1 DEF WriteInv, PastPaper
    <3>3. ASSUME NEW w \in writes', w \notin writes
          PROVE  /\ w.token = job.req.token /\ w.key = job.req.key
                 /\ w.paper_id = job.paper_id /\ job.req.key # None
      BY <2>3, <3>3 DEF AddPaper
    <3>4. job.req.key # None => idem[<<job.req.token, job.req.key>>] = None
      BY <3>1 DEF KeyInv, Stages
    <3> QED
      BY <3>1, <3>2, <3>3, <3>4 DEF WriteInv, PastPaper
  <2>4. CASE AddCir
    BY <2>4, WriteKept DEF AddCir, Goto, PastPaper
  <2>5. CASE AddClaim
    <3>1. pc = "claims" /\ job \in Job
      BY <2>5 DEF AddClaim, TypeOK
    <3>2. job'.req = job.req /\ job'.paper_id = job.paper_id
      BY <2>5, <3>1 DEF AddClaim, Job
    <3> QED
      BY <2>5, <3>2, WriteKept DEF AddClaim
  <2>6. CASE ClaimsDone
    BY <2>6, WriteKept DEF ClaimsDone, Goto, AfterClaims, AfterNote, PastPaper, tables
  <2>7. CASE AddNote
    BY <2>7, WriteKept DEF AddNote, Goto, AfterNote, PastPaper
  <2>8. CASE AddIdempotency
    <3>1. pc = "remember" /\ pc' = "reply" /\ UNCHANGED <<job, writes>>
      BY <2>8 DEF AddIdempotency, Goto
    <3>2. job.req.token \in Tokens /\ job.req.key \in Keys
      BY <3>1 DEF TypeOK, StageInv, Stages, Job, Request
    <3>3. idem' = [idem EXCEPT ![<<job.req.token, job.req.key>>] = ResponseOf(job)]
      BY <2>8 DEF AddIdempotency
    <3>4. ResponseOf(job).paper_id = job.paper_id /\ ResponseOf(job) \in Response
      BY <3>1 DEF ResponseOf, Response, TypeOK, Stages, Job, PaperRow
    <3>5. ResponseOf(job) # None
      BY <3>4, ConstantsAssumption DEF ConstantsAssumption
    <3>6. idem[<<job.req.token, job.req.key>>] = None
      BY <3>1, <3>2 DEF KeyInv, StageInv, Stages
    <3>7. ASSUME NEW w \in writes
          PROVE  /\ idem'[<<w.token, w.key>>] # None
                 /\ idem'[<<w.token, w.key>>].paper_id = w.paper_id
      <4>1. w.token \in Tokens /\ w.key \in Keys
        BY DEF TypeOK, Write
      <4>2. CASE w.token = job.req.token /\ w.key = job.req.key
        BY <3>2, <3>3, <3>4, <3>5, <3>6, <4>1, <4>2 DEF WriteInv, TypeOK
      <4>3. CASE <<w.token, w.key>> # <<job.req.token, job.req.key>>
        BY <3>2, <3>3, <4>1, <4>3 DEF WriteInv, TypeOK
      <4> QED
        BY <4>2, <4>3
    <3> QED
      BY <3>1, <3>7 DEF WriteInv
  <2>9. CASE Respond
    <3>1. ASSUME NEW w \in writes PROVE idem[<<w.token, w.key>>] # None
      <4>1. w.token \in Tokens /\ w.key \in Keys /\ w.key # None
        BY ConstantsAssumption DEF ConstantsAssumption, TypeOK, Write
      <4>2. job.req.token = w.token /\ job.req.key = w.key => idem[<<w.token, w.key>>] # None
        <5>1. pc = "reply" /\ job \in Job
          BY <2>9 DEF Respond, TypeOK
        <5>2. ResponseOf(job) \in Response
          BY <5>1 DEF ResponseOf, Response, Job, PaperRow
        <5> QED
          BY <4>1, <5>1, <5>2, ConstantsAssumption DEF ConstantsAssumption, KeyInv
      <4> QED
        BY <4>2 DEF WriteInv
    <3> QED
      BY <2>9, <3>1 DEF Respond, WriteInv, tables
  <2> QED
    BY <1>3, <2>1, <2>2, <2>3, <2>4, <2>5, <2>6, <2>7, <2>8, <2>9 DEF Persist
<1>4. CASE Crash
  BY <1>4 DEF Crash, WriteInv
<1>5. CASE UNCHANGED vars
  BY <1>5, WriteKept DEF vars, tables
<1> QED
  BY <1>1, <1>2, <1>3, <1>4, <1>5 DEF Next

\* Between two starts of the server no key stores two papers, whatever is resent
\* while the first attempt is under way or after it. Holds of any client.
THEOREM OneWrite == Spec => []OneWritePerKey
<1>1. Init => WriteInv
  BY DEF Init, WriteInv
<1>2. TypeOK /\ WriteInv => OneWritePerKey
  BY DEF WriteInv, OneWritePerKey
<1> QED
  BY <1>1, <1>2, WriteInductive, EntriesKept, PTL DEF Spec

-----------------------------------------------------------------------------
(***************************************************************************)
(* Lineages, when clients are careful. A row that is about to be written   *)
(* is the one already there or has an id no stored row knows, so no stored *)
(* version changes and no predecessor pointer can close a cycle.           *)
(***************************************************************************)

\* The predecessor of a row is stored under the row's slug.
Linked(row) ==
  row.previous_version # None =>
    /\ row.previous_version \in Stored
    /\ papers[row.previous_version].id_slug = row.id_slug

LineageInv ==
  /\ Stored \cap Uuids \subseteq minted
  /\ \A i \in Stored : Linked(papers[i])
  /\ pc \in {"source", "pdf", "paper"} =>
       /\ job.paper_id \in Uuids => job.paper_id \in minted
       /\ Linked(job.row)
       /\ job.paper_id \in Stored => papers[job.paper_id] = job.row

LEMMA BeginFits ==
  ASSUME Disciplined, TypeOK, LineageInv,
         NEW token \in Tokens, NEW key \in Keys \cup {None}, NEW up \in Uploads,
         NEW prev \in Ids \cup {None}, Begin(token, key, up, prev)
  PROVE  LineageInv'
<1>1. PICK id \in Ids, s \in Slugs :
        /\ AssignedId(up, prev, id)
        /\ AssignedSlug(up, prev, s)
        /\ minted' = IF KeepsCirId(up, prev) THEN minted ELSE minted \cup {id}
        /\ job' = [req |-> [token |-> token, key |-> key, upload |-> up,
                            previous_version |-> prev],
                   paper_id |-> id,
                   row |-> [id_slug |-> s, upload |-> up,
                            previous_version |->
                              IF prev # None THEN prev ELSE up.previous_version],
                   todo |-> up.labels]
  BY DEF Begin
<1>2. papers' = papers
  BY DEF Begin, tables
<1>3. Discipline(token, key, up, prev) /\ Authored(up) /\ (prev # None => prev \in Stored)
  BY DEF Begin, Accepted
<1>4. /\ job'.paper_id = id /\ job'.row.id_slug = s /\ job'.row.upload = up
      /\ job'.row.previous_version = prev
  BY <1>1, <1>3 DEF Discipline
<1>5. prev # None => s = papers[prev].id_slug
  BY <1>1, <1>3 DEF AssignedSlug, Discipline
<1>6. Linked(job'.row)
  BY <1>3, <1>4, <1>5 DEF Linked
<1>7. CASE KeepsCirId(up, prev)
  <2>1. id = up.id /\ minted' = minted /\ prev # None
    BY <1>1, <1>7 DEF AssignedId, KeepsCirId
  <2>2. id \in Uuids => id \in minted
    BY <1>3, <2>1 DEF Authored, LineageInv
  <2>3. id \in Stored => papers[id] = job'.row
    <3> SUFFICES ASSUME id \in Stored PROVE papers[id] = job'.row
      OBVIOUS
    <3>1. papers[id].upload = up /\ papers[id].previous_version = prev
      BY <1>3, <1>7, <2>1 DEF Discipline, KeepsCirId
    <3>2. papers[id].id_slug = s
      BY <1>5, <2>1, <3>1 DEF LineageInv, Linked
    <3>3. papers[id] \in PaperRow
      BY DEF Stored, TypeOK
    <3>4. job'.row = [id_slug |-> s, upload |-> up, previous_version |-> prev]
      BY <1>1, <1>3 DEF Discipline
    <3> QED
      BY <3>1, <3>2, <3>3, <3>4 DEF PaperRow
  <2> QED
    BY <1>2, <1>4, <1>6, <2>1, <2>2, <2>3 DEF LineageInv, Linked, Stored
<1>8. CASE ~KeepsCirId(up, prev)
  <2>1. id \in Uuids \ minted /\ minted' = minted \cup {id}
    BY <1>1, <1>8 DEF AssignedId
  <2>2. id \notin Stored
    BY <2>1 DEF LineageInv
  <2> QED
    BY <1>2, <1>4, <1>6, <2>1, <2>2 DEF LineageInv, Linked, Stored
<1> QED
  BY <1>7, <1>8

\* Writing a row that fits changes no stored row.
LEMMA AddPaperFits ==
  ASSUME TypeOK, LineageInv, AddPaper
  PROVE  /\ LineageInv'
         /\ \A i \in Stored : papers'[i] = papers[i]
         /\ Stored' = Stored \cup {job.paper_id}
<1>1. /\ pc = "paper" /\ pc' = "cir" /\ UNCHANGED <<minted, job>>
      /\ papers' = [papers EXCEPT ![job.paper_id] = job.row]
  BY DEF AddPaper, Goto
<1>2. job.paper_id \in Ids /\ job.row \in PaperRow
  BY <1>1 DEF TypeOK, Job
<1>3. \A i \in Ids : papers'[i] = IF i = job.paper_id THEN job.row ELSE papers[i]
  BY <1>1 DEF TypeOK
<1>4. job.row # None
  BY <1>2, ConstantsAssumption DEF ConstantsAssumption
<1>5. Stored' = Stored \cup {job.paper_id}
  BY <1>2, <1>3, <1>4 DEF Stored
<1>6. \A i \in Stored : papers'[i] = papers[i]
  BY <1>1, <1>3 DEF LineageInv, Stored
<1>7. ASSUME NEW i \in Stored' PROVE Linked(papers[i])'
  <2>1. i \in Ids /\ papers'[i] = IF i = job.paper_id THEN job.row ELSE papers[i]
    BY <1>3 DEF Stored
  <2>2. Linked(papers'[i])
    BY <1>1, <1>5, <2>1 DEF LineageInv
  <2> QED
    BY <1>5, <1>6, <2>2 DEF Linked
<1>8. Stored' \cap Uuids \subseteq minted'
  BY <1>1, <1>5 DEF LineageInv
<1> QED
  BY <1>1, <1>5, <1>6, <1>7, <1>8 DEF LineageInv

\* Any other step leaves the rows alone.
LEMMA OtherFits ==
  ASSUME TypeOK, LineageInv, [Next]_vars, ~AddPaper,
         \A token \in Tokens, key \in Keys \cup {None}, up \in Uploads,
            prev \in Ids \cup {None} : ~Begin(token, key, up, prev)
  PROVE  LineageInv' /\ papers' = papers
<1>1. papers' = papers /\ minted' = minted
  BY DEF Next, Persist, Replay, SaveSource, SavePdf, AddCir, AddClaim, ClaimsDone,
         AddNote, AddIdempotency, Respond, Crash, vars, tables
<1>2. pc' \in {"source", "pdf", "paper"} =>
        pc \in {"source", "pdf", "paper"} /\ job' = job
  <2>1. CASE Persist
    BY <2>1 DEF Persist, SaveSource, SavePdf, AddCir, AddClaim, ClaimsDone,
                AddNote, AddIdempotency, Respond, Goto, AfterClaims, AfterNote
  <2> QED
    BY <2>1 DEF Next, Replay, Crash, vars
<1> QED
  BY <1>1, <1>2 DEF LineageInv, Linked, Stored

LEMMA Fits ==
  ASSUME Disciplined
  PROVE  Spec => [](TypeOK /\ LineageInv)
<1>1. Init => LineageInv
  BY DEF Init, LineageInv, Stored
<1>2. TypeOK /\ LineageInv /\ [Next]_vars => LineageInv'
  BY BeginFits, AddPaperFits, OtherFits
<1> QED
  BY <1>1, <1>2, TypeCorrect, PTL DEF Spec

\* A stored version is never changed, by a later submission, a resent one or one
\* cut short by a crash, as long as clients are careful.
THEOREM Immutability ==
  ASSUME Disciplined
  PROVE  Spec => VersionsImmutable
<1>1. TypeOK /\ LineageInv /\ [Next]_vars
      => [\A i \in Stored : papers'[i] = papers[i]]_papers
  <2>1. ASSUME NEW token \in Tokens, NEW key \in Keys \cup {None}, NEW up \in Uploads,
               NEW prev \in Ids \cup {None}, Begin(token, key, up, prev)
        PROVE  papers' = papers
    BY <2>1 DEF Begin, tables
  <2> QED
    BY <2>1, AddPaperFits, OtherFits
<1> QED
  BY <1>1, Fits, PTL DEF Spec, VersionsImmutable

-----------------------------------------------------------------------------
(***************************************************************************)
(* Refinement: the rows evolve as Lineages says.                           *)
(***************************************************************************)

\* The month's counter has not passed what SLUG_PATTERN matches.
MonthFits == \A i \in Stored : papers[i].id_slug <= SlugLimit

\* A paper about to be stored without a predecessor has the slug that is next.
FreshInv ==
  pc \in {"source", "pdf", "paper"} /\ job.paper_id \notin Stored /\ job.row.previous_version = None
    => IsNextSlug(job.row.id_slug)

LEMMA FreshInductive ==
  ASSUME Disciplined, TypeOK, LineageInv, FreshInv, [Next]_vars
  PROVE  FreshInv'
<1>1. ASSUME NEW token \in Tokens, NEW key \in Keys \cup {None}, NEW up \in Uploads,
             NEW prev \in Ids \cup {None}, Begin(token, key, up, prev)
      PROVE  FreshInv'
  <2>1. PICK s \in Slugs : /\ AssignedSlug(up, prev, s)
                           /\ job'.row = [id_slug |-> s, upload |-> up,
                                previous_version |-> IF prev # None THEN prev ELSE up.previous_version]
    BY <1>1 DEF Begin
  <2>2. Discipline(token, key, up, prev)
    BY <1>1 DEF Begin, Accepted
  <2>3. job'.row.previous_version = None => IsNextSlug(job'.row.id_slug)
    BY <2>1, <2>2 DEF Discipline, AssignedSlug
  <2>4. papers' = papers
    BY <1>1 DEF Begin, tables
  <2> QED
    BY <2>3, <2>4 DEF FreshInv, IsNextSlug, Counters, Stored
<1>2. CASE AddPaper
  BY <1>2 DEF AddPaper, Goto, FreshInv
<1>3. ASSUME \A token \in Tokens, key \in Keys \cup {None}, up \in Uploads,
                prev \in Ids \cup {None} : ~Begin(token, key, up, prev),
             ~AddPaper
      PROVE  FreshInv'
  <2>1. papers' = papers
    BY <1>3, OtherFits
  <2>2. pc' \in {"source", "pdf", "paper"} =>
          pc \in {"source", "pdf", "paper"} /\ job' = job
    <3>1. CASE Persist
      BY <1>3, <3>1 DEF Persist, SaveSource, SavePdf, AddCir, AddClaim, ClaimsDone,
                  AddNote, AddIdempotency, Respond, Goto, AfterClaims, AfterNote
    <3> QED
      BY <1>3, <3>1 DEF Next, Replay, Crash, vars
  <2> QED
    BY <2>1, <2>2 DEF FreshInv, IsNextSlug, Counters, Stored
<1> QED
  BY <1>1, <1>2, <1>3

\* A new row is a publication or a revision; a row written again changes nothing.
LEMMA AddPaperRefines ==
  ASSUME TypeOK, LineageInv, FreshInv, MonthFits, AddPaper
  PROVE  [Registry!Next]_Versioned
<1> DEFINE new == job.paper_id
           row == job.row
<1>1. /\ \A i \in Stored : papers'[i] = papers[i]
      /\ Stored' = Stored \cup {new}
  BY AddPaperFits
<1>2. pc = "paper" /\ papers' = [papers EXCEPT ![new] = row]
  BY DEF AddPaper, Goto
<1>3. new \in Ids /\ row \in PaperRow /\ row # None /\ papers \in [Ids -> PaperRow \cup {None}]
  BY <1>2, ConstantsAssumption DEF ConstantsAssumption, TypeOK, Job, Stages
<1>4. papers' \in [Ids -> PaperRow \cup {None}]
  BY <1>2, <1>3
<1>5. CASE new \in Stored
  <2>1. papers' = papers
    BY <1>1, <1>2, <1>3, <1>5 DEF Stored
  <2> QED
    BY <2>1 DEF Versioned
<1>6. CASE new \notin Stored
  <2> DEFINE seen == [id_slug |-> row.id_slug, previous_version |-> row.previous_version]
  <2>1. Versioned' = [Versioned EXCEPT ![new] = seen]
    <3>1. \A i \in Ids : papers'[i] = IF i = new THEN row ELSE papers[i]
      BY <1>2, <1>3
    <3>2. Versioned'[new] = seen /\ \A i \in Ids \ {new} : Versioned'[i] = Versioned[i]
      BY <1>3, <3>1 DEF Versioned
    <3>3. new \in DOMAIN Versioned /\ DOMAIN Versioned = Ids /\ DOMAIN Versioned' = Ids
      BY <1>3 DEF Versioned
    <3>4. Versioned = [i \in Ids |-> Versioned[i]] /\ Versioned' = [i \in Ids |-> Versioned'[i]]
      BY DEF Versioned
    <3> HIDE DEF seen
    <3> QED
      BY <3>2, <3>3, <3>4
  <2>2. \A i \in Ids : Versioned[i] # None <=> i \in Stored
    <3>1. ASSUME NEW i \in Stored PROVE Versioned[i] # None
      <4>1. papers[i] \in PaperRow
        BY <1>3 DEF Stored
      <4>2. Versioned[i] = [id_slug |-> papers[i].id_slug, previous_version |-> papers[i].previous_version]
        BY DEF Versioned, Stored
      <4>3. Versioned[i] \in Registry!Version
        BY <4>1, <4>2 DEF Registry!Version, PaperRow
      <4> QED
        BY <4>3, ConstantsAssumption DEF ConstantsAssumption, Registry!Version
    <3> QED
      BY <3>1 DEF Versioned, Stored
  <2>3. Registry!Known = Stored
    BY <2>2 DEF Registry!Known, Stored
  <2>4. CASE row.previous_version = None
    <3>1. IsNextSlug(row.id_slug)
      BY <1>2, <1>6, <2>4 DEF FreshInv
    <3>2. row.id_slug \notin Registry!Taken
      <4>1. ASSUME NEW i \in Stored PROVE Versioned[i].id_slug < row.id_slug
        <5>1. papers[i].id_slug \in Counters
          BY <1>3, ConstantsAssumption DEF ConstantsAssumption, MonthFits, Counters, Stored, PaperRow, Slugs
        <5>2. Versioned[i].id_slug = papers[i].id_slug
          BY DEF Versioned, Stored
        <5> QED
          BY <3>1, <5>1, <5>2 DEF IsNextSlug
      <4>2. row.id_slug \in Nat
        BY <1>3, ConstantsAssumption DEF ConstantsAssumption, PaperRow, Slugs
      <4> QED
        BY <2>3, <4>1, <4>2 DEF Registry!Taken
    <3>3. Registry!Publish(new, row.id_slug)
      BY <1>3, <1>6, <2>1, <2>3, <2>4, <3>2 DEF Registry!Publish
    <3>4. row.id_slug \in Slugs
      BY <1>3 DEF PaperRow
    <3> QED
      BY <1>3, <3>3, <3>4 DEF Registry!Next
  <2>5. CASE row.previous_version # None
    <3> DEFINE p == row.previous_version
    <3>1. p \in Stored /\ papers[p].id_slug = row.id_slug
      BY <1>2, <2>5 DEF LineageInv, Linked
    <3>2. Versioned[p].id_slug = row.id_slug
      BY <3>1 DEF Versioned, Stored
    <3>3. Registry!Revise(new, p)
      BY <1>3, <1>6, <2>1, <2>3, <3>1, <3>2 DEF Registry!Revise
    <3> QED
      BY <1>3, <3>1, <3>3 DEF Registry!Next, Stored
  <2> QED
    BY <2>4, <2>5
<1> QED
  BY <1>5, <1>6

\* Careful clients, and any number of submissions, retries and crashes in a month that
\* stays within its five digits, use the corpus as Lineages promises.
THEOREM LineageRefinement ==
  ASSUME Disciplined
  PROVE  Spec /\ []MonthFits => ImplementsLineages
<1>1. Init => FreshInv /\ Registry!Init
  BY DEF Init, FreshInv, Registry!Init, Versioned
<1>2. TypeOK /\ LineageInv /\ FreshInv /\ [Next]_vars => FreshInv'
  BY FreshInductive
<1>3. TypeOK /\ LineageInv /\ FreshInv /\ MonthFits /\ [Next]_vars => [Registry!Next]_Versioned
  <2>1. ASSUME papers' = papers PROVE Versioned' = Versioned
    BY <2>1 DEF Versioned
  <2>2. ASSUME NEW token \in Tokens, NEW key \in Keys \cup {None}, NEW up \in Uploads,
               NEW prev \in Ids \cup {None}, Begin(token, key, up, prev)
        PROVE  papers' = papers
    BY <2>2 DEF Begin, tables
  <2> QED
    BY <2>1, <2>2, AddPaperRefines, OtherFits
<1> QED
  BY <1>1, <1>2, <1>3, Fits, PTL DEF Spec, ImplementsLineages, Registry!Spec

\* No counter is left out below one that is taken, so that a month fits as many papers as
\* it has counters.
GaplessInv ==
  \A i \in Stored : papers[i].id_slug = 1 \/ \E j \in Stored : papers[j].id_slug = papers[i].id_slug - 1

LEMMA GaplessInductive ==
  ASSUME TypeOK, LineageInv, FreshInv, GaplessInv, AddPaper
  PROVE  GaplessInv'
<1> DEFINE new == job.paper_id
           row == job.row
<1>1. /\ \A i \in Stored : papers'[i] = papers[i]
      /\ Stored' = Stored \cup {new}
  BY AddPaperFits
<1>2. pc = "paper" /\ papers'[new] = row /\ row \in PaperRow
  BY DEF AddPaper, Goto, TypeOK, Job, Stages
<1>3. CASE new \in Stored
  BY <1>1, <1>3 DEF GaplessInv
<1>4. CASE new \notin Stored /\ row.previous_version = None
  <2>1. IsNextSlug(row.id_slug) /\ row.id_slug \in Int
    BY <1>2, <1>4 DEF FreshInv, PaperRow, Slugs
  <2>2. row.id_slug = 1 \/ \E j \in Stored : papers[j].id_slug = row.id_slug - 1
    BY <2>1 DEF IsNextSlug, Counters
  <2> QED
    BY <1>1, <1>2, <2>2 DEF GaplessInv
<1>5. CASE row.previous_version # None
  <2>1. row.previous_version \in Stored /\ papers[row.previous_version].id_slug = row.id_slug
    BY <1>2, <1>5 DEF LineageInv, Linked
  <2>2. row.id_slug = 1 \/ \E j \in Stored : papers[j].id_slug = row.id_slug - 1
    BY <2>1 DEF GaplessInv
  <2> QED
    BY <1>1, <1>2, <2>2 DEF GaplessInv
<1> QED
  BY <1>3, <1>4, <1>5

LEMMA GaplessFits ==
  ASSUME TypeOK, GaplessInv, Cardinality(Ids) <= SlugLimit
  PROVE  MonthFits
<1> DEFINE Taken == {papers[i].id_slug : i \in Stored}
<1>1. SlugLimit \in Nat /\ IsFiniteSet(Ids)
  BY ConstantsAssumption DEF ConstantsAssumption
<1>2. \A i \in Stored : papers[i].id_slug \in 1 .. SlugLimit + 1
  BY DEF TypeOK, Stored, PaperRow, Slugs
<1>3. \A n \in Taken : n \in Int /\ (n = 1 \/ n - 1 \in Taken)
  BY <1>1, <1>2 DEF GaplessInv
<1>4. IsFiniteSet(Stored) /\ Cardinality(Stored) <= Cardinality(Ids)
  BY <1>1, FS_Subset DEF Stored
<1>5. IsFiniteSet(Taken) /\ Cardinality(Taken) <= Cardinality(Stored)
  <2> DEFINE slug == [i \in Stored |-> papers[i].id_slug]
  <2>1. slug \in Surjection(Stored, Taken)
    BY DEF Surjection
  <2> HIDE DEF slug, Taken
  <2> QED
    BY <1>4, <2>1, FS_Surjection
<1>6. ASSUME SlugLimit + 1 \in Taken PROVE FALSE
  <2> DEFINE Gaps == {k \in 0 .. SlugLimit : SlugLimit + 1 - k \notin Taken}
  <2>1. Gaps = {}
    <3> SUFFICES ASSUME Gaps # {} PROVE FALSE
      OBVIOUS
    <3>1. Gaps \in SUBSET Nat
      BY <1>1
    <3>2. PICK k \in Gaps : \A j \in Gaps : k <= j
      <4> HIDE DEF Gaps
      <4> QED
        BY <3>1, LeastOf
    <3>3. k # 0 /\ k - 1 \notin Gaps
      BY <1>1, <1>6, <3>2
    <3>4. SlugLimit + 2 - k \in Taken
      BY <1>1, <3>3
    <3>5. SlugLimit + 2 - k # 1 /\ (SlugLimit + 2 - k) - 1 = SlugLimit + 1 - k
      BY <1>1
    <3> QED
      BY <1>3, <3>4, <3>5
  <2>2. 1 .. SlugLimit + 1 \subseteq Taken
    <3>1. ASSUME NEW n \in 1 .. SlugLimit + 1 PROVE n \in Taken
      <4>1. SlugLimit + 1 - n \in 0 .. SlugLimit /\ SlugLimit + 1 - (SlugLimit + 1 - n) = n
        BY <1>1
      <4> QED
        BY <2>1, <4>1
    <3> QED
      BY <3>1
  <2>3. Cardinality(1 .. SlugLimit + 1) = SlugLimit + 1
    BY <1>1, FS_Interval
  <2>4. Cardinality(1 .. SlugLimit + 1) <= Cardinality(Taken)
    <3> HIDE DEF Taken
    <3> QED
      BY <1>5, <2>2, FS_Subset
  <2>5. Cardinality(Taken) \in Nat /\ Cardinality(Stored) \in Nat /\ Cardinality(Ids) \in Nat
    <3> HIDE DEF Taken
    <3> QED
      BY <1>1, <1>4, <1>5, FS_CardinalityType
  <2> QED
    BY <1>1, <1>4, <1>5, <2>3, <2>4, <2>5
<1> QED
  BY <1>1, <1>2, <1>6 DEF MonthFits

\* ... which a month does that has no more ids than its counter has values.
THEOREM MonthOfPapers ==
  ASSUME Disciplined, Cardinality(Ids) <= SlugLimit
  PROVE  Spec => ImplementsLineages
<1>1. Init => FreshInv /\ GaplessInv
  BY DEF Init, FreshInv, GaplessInv, Stored
<1>2. TypeOK /\ LineageInv /\ FreshInv /\ GaplessInv /\ [Next]_vars => FreshInv' /\ GaplessInv'
  <2>1. ASSUME papers' = papers, GaplessInv PROVE GaplessInv'
    BY <2>1 DEF GaplessInv, Stored
  <2>2. ASSUME NEW token \in Tokens, NEW key \in Keys \cup {None}, NEW up \in Uploads,
               NEW prev \in Ids \cup {None}, Begin(token, key, up, prev)
        PROVE  papers' = papers
    BY <2>2 DEF Begin, tables
  <2> QED
    BY <2>1, <2>2, FreshInductive, GaplessInductive, OtherFits
<1>3. TypeOK /\ GaplessInv => MonthFits
  BY GaplessFits
<1> QED
  BY <1>1, <1>2, <1>3, Fits, LineageRefinement, PTL DEF Spec

LEMMA NoCycleInductive ==
  ASSUME Disciplined, TypeOK, LineageInv, NoCycle, [Next]_vars
  PROVE  NoCycle'
<1>1. CASE AddPaper
  <2> DEFINE new == job.paper_id
  <2>1. /\ \A i \in Stored : papers'[i] = papers[i]
        /\ Stored' = Stored \cup {new}
    BY <1>1, AddPaperFits
  <2>2. new \in Ids /\ papers'[new] = job.row /\ Linked(job.row)
        /\ (new \in Stored => papers[new] = job.row)
    BY <1>1 DEF AddPaper, Goto, TypeOK, Job, LineageInv
  <2>3. \A i \in Stored : papers[i].previous_version \in Stored \cup {None}
    BY DEF LineageInv, Linked
  <2>4. None \notin Stored'
    BY ConstantsAssumption DEF ConstantsAssumption, Stored
  <2> SUFFICES ASSUME NEW S \in (SUBSET Stored') \ {{}}
               PROVE  \E i \in S : papers'[i].previous_version \notin S
    BY DEF NoCycle
  <2>5. CASE S \subseteq Stored
    BY <2>1, <2>5 DEF NoCycle
  <2>6. CASE new \in S /\ new \notin Stored
    <3>1. CASE S = {new}
      BY <2>2, <2>4, <2>6, <3>1 DEF Linked
    <3>2. CASE S # {new}
      <4>1. S \ {new} \in (SUBSET Stored) \ {{}}
        BY <2>1, <2>6, <3>2
      <4>2. PICK i \in S \ {new} : papers[i].previous_version \notin S \ {new}
        BY <4>1 DEF NoCycle
      <4>3. papers[i].previous_version # new
        BY <2>1, <2>3, <2>4, <2>6, <4>1, <4>2
      <4> QED
        BY <2>1, <4>1, <4>2, <4>3
    <3> QED
      BY <3>1, <3>2
  <2> QED
    BY <2>1, <2>5, <2>6
<1>2. ASSUME papers' = papers PROVE NoCycle'
  BY <1>2 DEF NoCycle, Stored
<1>3. ASSUME NEW token \in Tokens, NEW key \in Keys \cup {None}, NEW up \in Uploads,
             NEW prev \in Ids \cup {None}, Begin(token, key, up, prev)
      PROVE  papers' = papers
  BY <1>3 DEF Begin, tables
<1> QED
  BY <1>1, <1>2, <1>3, OtherFits

\* No version is its own ancestor, for any number of papers, as long as clients
\* are careful.
THEOREM Acyclicity ==
  ASSUME Disciplined
  PROVE  Spec => []NoCycle
<1>1. Init => NoCycle
  BY DEF Init, NoCycle, Stored
<1>2. TypeOK /\ LineageInv /\ NoCycle /\ [Next]_vars => NoCycle'
  BY NoCycleInductive
<1> QED
  BY <1>1, <1>2, Fits, PTL DEF Spec

-----------------------------------------------------------------------------
(***************************************************************************)
(* What was acknowledged stays stored. What a submission has written so    *)
(* far is its own (JobInv); what an idempotency entry or a reply names is  *)
(* complete (RecordedInv), and no later submission, which is a head of its *)
(* lineage while it is written, takes it back.                             *)
(***************************************************************************)

JobInv ==
  pc \in Stages =>
    /\ job.row.upload = job.req.upload /\ job.row.previous_version = job.req.previous_version
    /\ job.paper_id \notin Superseded(Stored)
    /\ pc # "source" => sources[job.paper_id] = job.req.upload
    /\ pc \notin {"source", "pdf"} /\ job.req.upload.pdf => pdfs[job.paper_id] = job.req.upload
    /\ pc \in PastPaper => papers[job.paper_id] = job.row
    /\ pc \in PastPaper \ {"cir"} => cirs[job.paper_id] = job.row
    /\ pc \in {"source", "pdf", "paper", "cir"} => job.todo = job.req.upload.labels
    /\ pc = "claims" =>
         \A l \in job.req.upload.labels \ job.todo : claims[<<job.row.id_slug, l>>] = job.req.upload
    /\ pc \in {"note", "remember", "reply"} =>
         \A l \in job.req.upload.labels : claims[<<job.row.id_slug, l>>] = job.req.upload
    /\ pc \in {"remember", "reply"} /\ job.req.upload.summary /\ job.req.previous_version # None =>
         \E n \in notes : n.target_id = job.paper_id

\* A response names a paper all of whose parts are stored.
Recorded(response) ==
  LET id  == response.paper_id
      row == papers[id]
  IN /\ row # None /\ row.id_slug = response.id_slug
     /\ cirs[id] = row /\ sources[id] = row.upload
     /\ row.upload.pdf => pdfs[id] = row.upload
     /\ \A l \in row.upload.labels :
          /\ claims[<<row.id_slug, l>>] # None
          /\ Heads(row.id_slug) = {id} => claims[<<row.id_slug, l>>] = row.upload
     /\ row.upload.summary /\ row.previous_version # None => \E n \in notes : n.target_id = id

RecordedInv ==
  /\ \A k \in Tokens \X Keys : idem[k] # None => Recorded(idem[k])
  /\ \A r \in replies : Recorded(r.response)

\* The row being added is no stored row's predecessor.
LEMMA AddPaperHeads ==
  ASSUME TypeOK, LineageInv, JobInv, AddPaper
  PROVE  job.paper_id \notin Superseded(Stored)'
<1>1. /\ \A i \in Stored : papers'[i] = papers[i]
      /\ Stored' = Stored \cup {job.paper_id}
  BY AddPaperFits
<1>2. /\ pc = "paper" /\ papers'[job.paper_id] = job.row /\ job.paper_id \in Ids
      /\ job.paper_id \notin Superseded(Stored) /\ Linked(job.row)
      /\ job.paper_id \in Stored => papers[job.paper_id] = job.row
  BY DEF AddPaper, Goto, TypeOK, Job, JobInv, LineageInv, Stages
<1>3. job.row.previous_version # job.paper_id
  <2> SUFFICES ASSUME job.row.previous_version = job.paper_id PROVE FALSE
    OBVIOUS
  <2>1. job.paper_id # None
    BY <1>2, ConstantsAssumption DEF ConstantsAssumption
  <2>2. job.paper_id \in Stored
    BY <1>2, <2>1 DEF Linked
  <2> QED
    BY <1>2, <2>1, <2>2 DEF Superseded
<1>4. ASSUME NEW i \in Stored' PROVE papers'[i].previous_version # job.paper_id
  <2>1. job.paper_id # None
    BY <1>2, ConstantsAssumption DEF ConstantsAssumption
  <2> QED
    BY <1>1, <1>2, <1>3, <2>1 DEF Superseded
<1> QED
  BY <1>4 DEF Superseded

\* Recorded(ResponseOf(job)) once the job is done.
LEMMA DoneIsRecorded ==
  ASSUME TypeOK, JobInv, pc \in {"remember", "reply"}
  PROVE  Recorded(ResponseOf(job))
<1>1. /\ pc \in Stages /\ pc \in PastPaper \ {"cir"} /\ pc # "source" /\ pc \notin {"source", "pdf"}
      /\ pc \in {"note", "remember", "reply"} /\ job \in Job
  BY DEF Stages, PastPaper, TypeOK
<1>2. job.row \in PaperRow /\ job.row # None /\ job.row.upload \in Uploads /\ None \notin Uploads
  BY <1>1, ConstantsAssumption DEF ConstantsAssumption, Job, PaperRow
<1> QED
  BY <1>1, <1>2 DEF JobInv, Recorded, ResponseOf

\* An acknowledged paper that is its slug's only head was so before the step.
LEMMA HeadsGrow ==
  ASSUME TypeOK, LineageInv, JobInv, AddPaper, NEW i \in Stored, NEW slug \in Slugs,
         Heads(slug)' = {i}
  PROVE  Heads(slug) = {i}
<1>1. /\ \A j \in Stored : papers'[j] = papers[j]
      /\ Stored' = Stored \cup {job.paper_id}
      /\ job.paper_id \notin Superseded(Stored)'
  BY AddPaperFits, AddPaperHeads
<1>2. papers'[job.paper_id] = job.row /\ job.paper_id \in Ids
  BY DEF AddPaper, Goto, TypeOK, Job
<1>3. CASE job.paper_id \in Stored
  BY <1>1, <1>3 DEF Heads, Candidates, Superseded
<1>4. CASE job.paper_id \notin Stored /\ job.row.id_slug = slug
  <2>1. job.paper_id \in Heads(slug)'
    BY <1>1, <1>2, <1>4 DEF Heads, Candidates, Superseded
  <2> QED
    BY <1>4, <2>1
<1>5. CASE job.paper_id \notin Stored /\ job.row.id_slug # slug
  <2>1. Candidates(slug)' = Candidates(slug)
    BY <1>1, <1>2, <1>5 DEF Candidates
  <2>2. \A j \in Candidates(slug) : papers'[j] = papers[j]
    BY <1>1 DEF Candidates
  <2>3. Superseded(Candidates(slug))' = Superseded(Candidates(slug))
    BY <2>1, <2>2 DEF Superseded
  <2> QED
    BY <2>1, <2>3 DEF Heads
<1> QED
  BY <1>3, <1>4, <1>5

LEMMA RecordedKept ==
  ASSUME TypeOK, LineageInv, JobInv, Persist, NEW response \in Response, Recorded(response)
  PROVE  Recorded(response)'
<1> DEFINE i == response.paper_id
           row == papers[i]
<1>1. pc \in Stages /\ job \in Job
  BY DEF TypeOK, Persist, SaveSource, SavePdf, AddPaper, AddCir, AddClaim,
         ClaimsDone, AddNote, AddIdempotency, Respond, Goto
<1>2. /\ job.paper_id \in Ids /\ job.row \in PaperRow
      /\ job.row.id_slug \in Slugs /\ job.req.upload \in Uploads
      /\ job.req.upload # None /\ job.todo \subseteq Labels
  BY <1>1, ConstantsAssumption DEF ConstantsAssumption, Job, Request, PaperRow
<1>3. i \in Stored /\ row \in PaperRow /\ row.id_slug \in Slugs /\ row.upload.labels \subseteq Labels
  BY ConstantsAssumption DEF ConstantsAssumption, Response, Recorded, Stored, TypeOK, PaperRow, Upload
<1>4. ASSUME papers' = papers PROVE \A s \in Slugs : Heads(s)' = Heads(s)
  BY <1>4 DEF Heads, Candidates, Superseded, Stored
\* The job writes to the paper only what is there.
<1>5. ASSUME i = job.paper_id, pc \in {"source", "pdf", "paper"} \cup PastPaper
      PROVE  row = job.row /\ row.upload = job.req.upload
  BY <1>1, <1>3, <1>5 DEF LineageInv, JobInv, PastPaper
<1>6. CASE SaveSource
  <2>1. /\ pc = "source" /\ UNCHANGED <<papers, cirs, pdfs, claims, notes>>
        /\ sources' = [sources EXCEPT ![job.paper_id] = job.req.upload]
    BY <1>6 DEF SaveSource, Goto
  <2>2. sources'[i] = row.upload
    BY <1>2, <1>3, <1>5, <2>1 DEF Recorded, TypeOK, Stored
  <2> QED
    BY <1>3, <1>4, <2>1, <2>2 DEF Recorded
<1>7. CASE SavePdf
  <2>1. /\ pc = "pdf" /\ UNCHANGED <<papers, cirs, sources, claims, notes>>
        /\ pdfs' = [pdfs EXCEPT ![job.paper_id] = job.req.upload]
    BY <1>7 DEF SavePdf, Goto
  <2>2. row.upload.pdf => pdfs'[i] = row.upload
    BY <1>2, <1>3, <1>5, <2>1 DEF Recorded, TypeOK, Stored
  <2> QED
    BY <1>3, <1>4, <2>1, <2>2 DEF Recorded
<1>8. CASE AddPaper
  <2>1. papers'[i] = row /\ UNCHANGED <<cirs, sources, pdfs, claims, notes>>
    BY <1>3, <1>8, AddPaperFits DEF AddPaper
  <2>2. PICK slug \in Slugs : slug = row.id_slug
    BY <1>3
  <2>3. Heads(slug)' = {i} => Heads(slug) = {i}
    BY <1>3, <1>8, HeadsGrow
  <2> QED
    BY <2>1, <2>2, <2>3 DEF Recorded
<1>9. CASE AddCir
  <2>1. /\ pc = "cir" /\ UNCHANGED <<papers, sources, pdfs, claims, notes>>
        /\ cirs' = [cirs EXCEPT ![job.paper_id] = job.row]
    BY <1>9 DEF AddCir, Goto
  <2>2. cirs'[i] = row
    BY <1>2, <1>3, <1>5, <2>1 DEF Recorded, TypeOK, Stored, PastPaper
  <2> QED
    BY <1>3, <1>4, <2>1, <2>2 DEF Recorded
<1>10. CASE AddClaim
  <2>1. PICK l \in job.todo : claims' = [claims EXCEPT ![<<job.row.id_slug, l>>] = job.req.upload]
    BY <1>10 DEF AddClaim
  <2>2. pc = "claims" /\ UNCHANGED <<papers, cirs, sources, pdfs, notes>>
    BY <1>10 DEF AddClaim
  <2>3. ASSUME Heads(row.id_slug) = {i}, job.row.id_slug = row.id_slug
        PROVE  job.req.upload = row.upload
    <3>1. job.paper_id \in Heads(row.id_slug)
      BY <1>1, <1>2, <2>2, <2>3, ConstantsAssumption
      DEF ConstantsAssumption, JobInv, PastPaper, Heads, Candidates, Superseded, Stored
    <3> QED
      BY <1>5, <2>2, <2>3, <3>1 DEF PastPaper
  <2>4. ASSUME NEW k \in row.upload.labels
        PROVE  /\ claims'[<<row.id_slug, k>>] # None
               /\ Heads(row.id_slug) = {i} => claims'[<<row.id_slug, k>>] = row.upload
    <3>1. <<row.id_slug, k>> \in Slugs \X Labels
      BY <1>3
    <3>2. CASE <<row.id_slug, k>> = <<job.row.id_slug, l>>
      BY <1>2, <2>1, <2>3, <3>1, <3>2 DEF TypeOK
    <3>3. CASE <<row.id_slug, k>> # <<job.row.id_slug, l>>
      BY <2>1, <3>1, <3>3 DEF TypeOK, Recorded
    <3> QED
      BY <3>2, <3>3
  <2> QED
    BY <1>3, <1>4, <2>2, <2>4 DEF Recorded
<1>11. CASE AddNote
  BY <1>3, <1>4, <1>11 DEF Recorded, AddNote
<1>12. CASE ClaimsDone \/ AddIdempotency \/ Respond
  BY <1>3, <1>4, <1>12 DEF Recorded, ClaimsDone, AddIdempotency, Respond, tables
<1> QED
  BY <1>6, <1>7, <1>8, <1>9, <1>10, <1>11, <1>12 DEF Persist

LEMMA BeginOwn ==
  ASSUME Disciplined, TypeOK, LineageInv,
         NEW token \in Tokens, NEW key \in Keys \cup {None}, NEW up \in Uploads,
         NEW prev \in Ids \cup {None}, Begin(token, key, up, prev)
  PROVE  JobInv'
<1>1. PICK id \in Ids, s \in Slugs :
        /\ AssignedId(up, prev, id)
        /\ job' = [req |-> [token |-> token, key |-> key, upload |-> up,
                            previous_version |-> prev],
                   paper_id |-> id,
                   row |-> [id_slug |-> s, upload |-> up,
                            previous_version |->
                              IF prev # None THEN prev ELSE up.previous_version],
                   todo |-> up.labels]
  BY DEF Begin
<1>2. pc' = "source" /\ papers' = papers
  BY DEF Begin, tables
<1>3. Discipline(token, key, up, prev)
  BY DEF Begin, Accepted
<1>4. job'.paper_id = id /\ job'.row.upload = job'.req.upload
      /\ job'.row.previous_version = job'.req.previous_version
      /\ job'.todo = job'.req.upload.labels
  BY <1>1, <1>3 DEF Discipline
<1>5. id \notin Superseded(Stored)
  <2>1. \A i \in Stored : papers[i].previous_version \in Stored \cup {None}
    BY DEF LineageInv, Linked
  <2>2. CASE id \notin Stored
    BY <2>1, <2>2 DEF Superseded
  <2>3. CASE id \in Stored
    <3>1. KeepsCirId(up, prev) /\ id = up.id
      BY <1>1, <2>3 DEF AssignedId, LineageInv
    <3> QED
      BY <1>3, <2>3, <3>1 DEF Discipline, KeepsCirId
  <2> QED
    BY <2>2, <2>3
<1>6. Superseded(Stored)' = Superseded(Stored)
  BY <1>2 DEF Superseded, Stored
<1> QED
  BY <1>2, <1>4, <1>5, <1>6 DEF JobInv, Stages, PastPaper

LEMMA PersistOwn ==
  ASSUME TypeOK, StageInv, LineageInv, JobInv, Persist
  PROVE  JobInv'
<1>1. pc \in Stages /\ job \in Job
  BY DEF TypeOK, Persist, SaveSource, SavePdf, AddPaper, AddCir, AddClaim,
         ClaimsDone, AddNote, AddIdempotency, Respond, Goto
<1>2. /\ job.paper_id \in Ids /\ job.row \in PaperRow /\ job.todo \in SUBSET Labels
      /\ job.row.id_slug \in Slugs /\ job.req.upload \in Uploads
      /\ job.req.upload.labels \subseteq Labels
  BY <1>1, ConstantsAssumption DEF ConstantsAssumption, Job, Request, PaperRow, Upload
<1>3. ASSUME papers' = papers PROVE Superseded(Stored)' = Superseded(Stored)
  BY <1>3 DEF Superseded, Stored
<1>4. CASE SaveSource
  BY <1>1, <1>2, <1>3, <1>4 DEF JobInv, TypeOK, SaveSource, Goto, Stages, PastPaper
<1>5. CASE SavePdf
  BY <1>1, <1>2, <1>3, <1>5 DEF JobInv, TypeOK, SavePdf, Goto, Stages, PastPaper
<1>6. CASE AddPaper
  BY <1>1, <1>2, <1>6, AddPaperHeads DEF JobInv, TypeOK, AddPaper, Goto, Stages, PastPaper
<1>7. CASE AddCir
  <2>1. pc = "cir" /\ pc' = "claims" /\ cirs' = [cirs EXCEPT ![job.paper_id] = job.row]
        /\ UNCHANGED <<papers, sources, pdfs, claims, notes, job>>
    BY <1>7 DEF AddCir, Goto
  <2> QED
    BY <1>1, <1>2, <1>3, <2>1 DEF JobInv, TypeOK, Stages, PastPaper
<1>8. CASE AddClaim
  <2>1. PICK l \in job.todo :
          /\ claims' = [claims EXCEPT ![<<job.row.id_slug, l>>] = job.req.upload]
          /\ job' = [job EXCEPT !.todo = @ \ {l}]
    BY <1>8 DEF AddClaim
  <2>2. /\ pc = "claims" /\ pc' = pc /\ UNCHANGED <<papers, cirs, sources, pdfs, notes>>
        /\ job'.req = job.req /\ job'.row = job.row /\ job'.paper_id = job.paper_id
        /\ job'.todo = job.todo \ {l}
    BY <1>1, <1>8, <2>1 DEF AddClaim, Job
  <2>3. \A k \in job.req.upload.labels \ job'.todo :
          claims'[<<job.row.id_slug, k>>] = job.req.upload
    BY <1>1, <1>2, <2>1, <2>2 DEF JobInv, TypeOK
  <2> QED
    BY <1>1, <1>3, <2>2, <2>3 DEF JobInv, PastPaper
<1>9. CASE ClaimsDone
  BY <1>1, <1>3, <1>9 DEF JobInv, ClaimsDone, Goto, AfterClaims, AfterNote, tables, Stages, PastPaper
<1>10. CASE AddNote
  <2> DEFINE note == [target_id |-> job.paper_id, previous_version_id |-> job.req.previous_version,
                      created_by |-> CreatedBy(job.req.token), submitter |-> job.req.token]
  <2>1. note \in notes' /\ note.target_id = job.paper_id
    BY <1>10 DEF AddNote
  <2> HIDE DEF note
  <2> QED
    BY <1>1, <1>3, <1>10, <2>1 DEF JobInv, AddNote, Goto, AfterNote, Stages, PastPaper
<1>11. CASE AddIdempotency
  BY <1>1, <1>3, <1>11 DEF JobInv, AddIdempotency, Goto, Stages, PastPaper
<1>12. CASE Respond
  BY <1>12 DEF JobInv, Respond, Stages
<1> QED
  BY <1>4, <1>5, <1>6, <1>7, <1>8, <1>9, <1>10, <1>11, <1>12 DEF Persist

LEMMA OwnInductive ==
  ASSUME Disciplined, TypeOK, StageInv, LineageInv, JobInv, [Next]_vars
  PROVE  JobInv'
<1>1. ASSUME NEW token \in Tokens, NEW key \in Keys \cup {None}, NEW up \in Uploads,
             NEW prev \in Ids \cup {None}, Replay(token, key, up, prev)
      PROVE  JobInv'
  BY <1>1 DEF JobInv, Replay, Stages
<1>2. CASE Crash
  BY <1>2 DEF JobInv, Crash, Stages
<1>3. CASE UNCHANGED vars
  BY <1>3 DEF JobInv, Superseded, Stored, vars, tables
<1> QED
  BY <1>1, <1>2, <1>3, BeginOwn, PersistOwn DEF Next

LEMMA RecordedInductive ==
  ASSUME TypeOK, StageInv, LineageInv, JobInv, RecordedInv, [Next]_vars
  PROVE  RecordedInv'
<1>1. \A k \in Tokens \X Keys : idem[k] # None => idem[k] \in Response
  BY DEF TypeOK
<1>2. \A r \in replies : r.response \in Response
  BY DEF TypeOK, Reply
<1>3. CASE Persist
  <2>1. \A response \in Response : Recorded(response) => Recorded(response)'
    BY <1>3, RecordedKept
  <2>2. CASE AddIdempotency
    <3>1. /\ pc = "remember" /\ replies' = replies
          /\ idem' = [idem EXCEPT ![<<job.req.token, job.req.key>>] = ResponseOf(job)]
      BY <2>2 DEF AddIdempotency, Goto
    <3>2. ResponseOf(job) \in Response /\ Recorded(ResponseOf(job))
      BY <3>1, DoneIsRecorded DEF ResponseOf, Response, TypeOK, Job, PaperRow, Stages
    <3>3. ASSUME NEW k \in Tokens \X Keys, idem'[k] # None PROVE Recorded(idem[k])'
      <4>1. PICK response : response = idem'[k]
        OBVIOUS
      <4>2. response = ResponseOf(job) \/ (response = idem[k] /\ idem[k] # None)
        BY <3>1, <3>3, <4>1 DEF TypeOK
      <4>3. response \in Response /\ Recorded(response)
        BY <1>1, <3>2, <4>2 DEF RecordedInv
      <4>4. Recorded(response)'
        BY <2>1, <4>3
      <4> QED
        BY <4>1, <4>4 DEF Recorded
    <3>4. ASSUME NEW r \in replies PROVE Recorded(r.response)'
      BY <1>2, <2>1 DEF RecordedInv
    <3> QED
      BY <3>1, <3>3, <3>4 DEF RecordedInv
  <2>3. CASE Respond
    <3>1. /\ pc = "reply" /\ idem' = idem
          /\ \A r \in replies' : r \in replies \/ r.response = ResponseOf(job)
      BY <2>3 DEF Respond, tables
    <3>2. ResponseOf(job) \in Response /\ Recorded(ResponseOf(job))
      BY <3>1, DoneIsRecorded DEF ResponseOf, Response, TypeOK, Job, PaperRow, Stages
    <3>3. ASSUME NEW r \in replies' PROVE Recorded(r.response)'
      <4>1. r.response \in Response /\ Recorded(r.response)
        BY <1>2, <3>1, <3>2 DEF RecordedInv
      <4> QED
        BY <2>1, <4>1
    <3>4. ASSUME NEW k \in Tokens \X Keys, idem'[k] # None PROVE Recorded(idem[k])'
      <4>1. PICK response : response = idem[k]
        OBVIOUS
      <4>2. Recorded(response)'
        BY <1>1, <2>1, <3>1, <3>4, <4>1 DEF RecordedInv
      <4> QED
        BY <3>1, <4>1, <4>2 DEF Recorded
    <3> QED
      BY <3>3, <3>4 DEF RecordedInv
  <2>4. CASE ~AddIdempotency /\ ~Respond
    <3>1. idem' = idem /\ replies' = replies
      BY <1>3, <2>4 DEF Persist, SaveSource, SavePdf, AddPaper, AddCir, AddClaim, ClaimsDone,
                        AddNote, tables
    <3>2. ASSUME NEW k \in Tokens \X Keys, idem'[k] # None PROVE Recorded(idem[k])'
      <4>1. PICK response : response = idem[k]
        OBVIOUS
      <4>2. Recorded(response)'
        BY <1>1, <2>1, <3>1, <3>2, <4>1 DEF RecordedInv
      <4> QED
        BY <3>1, <4>1, <4>2 DEF Recorded
    <3>3. ASSUME NEW r \in replies PROVE Recorded(r.response)'
      BY <1>2, <2>1 DEF RecordedInv
    <3> QED
      BY <3>1, <3>2, <3>3 DEF RecordedInv
  <2> QED
    BY <2>2, <2>3, <2>4
<1>4. ASSUME UNCHANGED tables, \A r \in replies' : r \in replies \/ \E k \in Tokens \X Keys :
                                 idem[k] # None /\ r.response = idem[k]
      PROVE  RecordedInv'
  BY <1>4 DEF RecordedInv, Recorded, Heads, Candidates, Superseded, Stored, tables
<1>5. ASSUME NEW token \in Tokens, NEW key \in Keys \cup {None}, NEW up \in Uploads,
             NEW prev \in Ids \cup {None},
             Begin(token, key, up, prev) \/ Replay(token, key, up, prev)
      PROVE  RecordedInv'
  BY <1>4, <1>5 DEF Begin, Replay, Cached
<1>6. CASE Crash
  BY <1>4, <1>6 DEF Crash
<1>7. CASE UNCHANGED vars
  BY <1>4, <1>7 DEF vars
<1> QED
  BY <1>3, <1>5, <1>6, <1>7 DEF Next

-----------------------------------------------------------------------------
(***************************************************************************)
(* What readers make of an acyclic lineage: it has a head, and a page of   *)
(* versions reaches its root.                                              *)
(***************************************************************************)

\* If every paper of a slug were superseded by one of them, previous_version would map
\* them onto themselves.
LEMMA HeadExists ==
  ASSUME NoCycle, NEW slug \in Slugs, Candidates(slug) # {}
  PROVE  Heads(slug) # {}
<1> DEFINE C == Candidates(slug)
           P == {papers[i].previous_version : i \in C}
           prev == [i \in C |-> papers[i].previous_version]
<1>1. SUFFICES ASSUME C \subseteq P PROVE FALSE
  BY DEF Heads, Superseded
<1>2. IsFiniteSet(C) /\ C \subseteq Stored
  BY ConstantsAssumption, FS_Subset DEF ConstantsAssumption, Candidates, Stored
<1>3. IsFiniteSet(P) /\ Cardinality(P) <= Cardinality(C)
  <2>1. prev \in Surjection(C, P)
    BY DEF Surjection
  <2> HIDE DEF prev, C, P
  <2> QED
    BY <1>2, <2>1, FS_Surjection
<1>4. P = C
  <2> HIDE DEF C, P
  <2>1. Cardinality(C) <= Cardinality(P) /\ (Cardinality(P) = Cardinality(C) => P = C)
    BY <1>1, <1>3, FS_Subset
  <2>2. Cardinality(C) \in Nat /\ Cardinality(P) \in Nat
    BY <1>2, <1>3, FS_CardinalityType
  <2> QED
    BY <1>3, <2>1, <2>2
<1>5. C \in (SUBSET Stored) \ {{}}
  BY <1>2
<1>6. \A i \in C : papers[i].previous_version \in C
  BY <1>4
<1> HIDE DEF C, P
<1> QED
  BY <1>5, <1>6 DEF NoCycle

LEMMA NewestExists ==
  ASSUME TypeOK, NEW S \in SUBSET Stored, S # {}
  PROVE  Newest(S) # {} /\ Newest(S) \subseteq S
<1> DEFINE T == {papers[i].upload.submitted_at : i \in S}
           at == [i \in S |-> papers[i].upload.submitted_at]
<1>1. IsFiniteSet(S)
  BY ConstantsAssumption, FS_Subset DEF ConstantsAssumption, Stored
<1>2. T \in SUBSET Nat
  BY ConstantsAssumption DEF ConstantsAssumption, TypeOK, Stored, PaperRow, Upload
<1>3. IsFiniteSet(T)
  <2>1. at \in Surjection(S, T)
    BY DEF Surjection
  <2> HIDE DEF at, T
  <2> QED
    BY <1>1, <2>1, FS_Surjection
<1>4. PICK t \in T : \A u \in T : u <= t
  <2>1. T # {}
    OBVIOUS
  <2> HIDE DEF T
  <2> QED
    BY <1>2, <1>3, <2>1, GreatestOf
<1> QED
  BY <1>4 DEF Newest

LEMMA LookupListed ==
  ASSUME TypeOK, LineageInv, NoCycle, NEW i \in Stored
  PROVE  /\ SlugLookup(papers[i].id_slug) # {}
         /\ SlugLookup(papers[i].id_slug) \subseteq Listing
<1> DEFINE slug == papers[i].id_slug
<1>1. slug \in Slugs /\ i \in Candidates(slug)
  BY DEF TypeOK, Stored, PaperRow, Candidates
<1>2. Heads(slug) # {} /\ Heads(slug) \subseteq Stored
  BY <1>1, HeadExists DEF Heads, Candidates
<1>3. Newest(Heads(slug)) # {} /\ Newest(Heads(slug)) \subseteq Heads(slug)
  BY <1>2, NewestExists
<1>4. Heads(slug) \subseteq Listing
  <2> SUFFICES ASSUME NEW h \in Heads(slug), NEW j \in Stored, papers[j].previous_version = h
               PROVE  FALSE
    BY <1>2 DEF Listing, Superseded
  <2>1. h \in Ids /\ h # None /\ papers[h].id_slug = slug
    BY ConstantsAssumption DEF ConstantsAssumption, Heads, Candidates, Stored
  <2>2. papers[j].id_slug = slug
    BY <2>1 DEF LineageInv, Linked
  <2> QED
    BY <2>1, <2>2 DEF Heads, Candidates, Superseded
<1> QED
  BY <1>2, <1>3, <1>4 DEF SlugLookup

\* Versions of one slug, each the predecessor of the one before it, none twice.
IsChain(chain, slug) ==
  /\ chain \in Seq(Ids) /\ Len(chain) > 0
  /\ \A k \in 1 .. Len(chain) : chain[k] \in Stored /\ papers[chain[k]].id_slug = slug
  /\ \A k \in 1 .. Len(chain) - 1 : papers[chain[k]].previous_version = chain[k + 1]
  /\ \A k, j \in 1 .. Len(chain) : chain[k] = chain[j] => k = j
AtRoot(chain) == papers[chain[Len(chain)]].previous_version = None

LEMMA OlderChain ==
  ASSUME LineageInv, NoCycle, NEW slug, NEW chain, IsChain(chain, slug)
  PROVE  /\ IsChain(Older(chain), slug)
         /\ IF AtRoot(chain) THEN Older(chain) = chain ELSE Len(Older(chain)) = Len(chain) + 1
<1> DEFINE last == Len(chain)
           prev == papers[chain[last]].previous_version
<1>1. last \in Nat /\ last > 0 /\ DOMAIN chain = 1 .. last /\ chain[last] \in Stored
  BY DEF IsChain
<1>2. CASE prev = None
  <2>1. prev \notin Stored
    BY <1>2, ConstantsAssumption DEF ConstantsAssumption, Stored
  <2>2. Older(chain) = chain
    BY <2>1 DEF Older
  <2> QED
    BY <1>2, <2>2 DEF AtRoot
<1>3. CASE prev # None
  <2>1. prev \in Stored /\ papers[prev].id_slug = slug
    BY <1>1, <1>3 DEF LineageInv, Linked, IsChain
  <2>2. ASSUME NEW k \in 1 .. last, chain[k] = prev PROVE FALSE
    <3> DEFINE S == {chain[j] : j \in k .. last}
    <3>1. S \in (SUBSET Stored) \ {{}}
      <4>1. \A j \in k .. last : j \in 1 .. last /\ chain[j] \in Stored
        BY <1>1 DEF IsChain
      <4>2. k \in k .. last
        BY <1>1
      <4> QED
        BY <4>1, <4>2
    <3>2. \A j \in k .. last : papers[chain[j]].previous_version \in S
      <4>1. ASSUME NEW j \in k .. last, j # last PROVE papers[chain[j]].previous_version \in S
        <5>1. j \in 1 .. last - 1 /\ j + 1 \in k .. last
          <6>1. last \in Nat /\ k \in 1 .. last /\ j \in k .. last /\ j # last
            BY <1>1, <4>1
          <6> HIDE DEF last
          <6> QED
            BY <6>1
        <5>2. papers[chain[j]].previous_version = chain[j + 1]
          BY <5>1 DEF IsChain
        <5> QED
          BY <5>1, <5>2
      <4>2. chain[k] \in S
        BY <1>1
      <4> QED
        BY <2>2, <4>1, <4>2
    <3> QED
      BY <3>1, <3>2 DEF NoCycle
  <2>3. Older(chain) = Append(chain, prev)
    BY <1>1, <2>1, <2>2 DEF Older
  <2> DEFINE longer == Append(chain, prev)
  <2>4. /\ longer \in Seq(Ids) /\ Len(longer) = last + 1 /\ longer[last + 1] = prev
        /\ \A k \in 1 .. last : longer[k] = chain[k]
    BY <1>1, <2>1 DEF IsChain, Stored
  <2>5. \A k \in 1 .. last + 1 : longer[k] \in Stored /\ papers[longer[k]].id_slug = slug
    BY <1>1, <2>1, <2>4 DEF IsChain
  <2>6. \A k \in 1 .. last : papers[longer[k]].previous_version = longer[k + 1]
    <3>1. ASSUME NEW k \in 1 .. last - 1
          PROVE  papers[longer[k]].previous_version = longer[k + 1]
      BY <1>1, <2>4 DEF IsChain
    <3> QED
      BY <1>1, <2>4, <3>1
  <2>7. \A k, j \in 1 .. last + 1 : longer[k] = longer[j] => k = j
    BY <1>1, <2>2, <2>4 DEF IsChain
  <2>8. IsChain(longer, slug)
    BY <1>1, <2>4, <2>5, <2>6, <2>7 DEF IsChain
  <2> QED
    BY <1>1, <1>3, <2>3, <2>4, <2>8 DEF AtRoot
<1> QED
  BY <1>2, <1>3

\* The recursion of Versions defines a function.
LEMMA WalkExists ==
  ASSUME NEW id, NEW N \in Nat
  PROVE  \E walk : walk = [n \in 0 .. N |-> IF n = 0 THEN <<id>> ELSE Older(walk[n - 1])]
<1> DEFINE Ends(m) == \E walk : walk = [n \in 0 .. m |-> IF n = 0 THEN <<id>> ELSE Older(walk[n - 1])]
           Fails == {m \in 0 .. N : ~Ends(m)}
<1> SUFFICES ASSUME Fails # {} PROVE FALSE
  <2>1. N \notin Fails => Ends(N)
    OBVIOUS
  <2> HIDE DEF Fails
  <2> QED
    BY <2>1
<1>1. PICK m \in Fails : \A k \in Fails : m <= k
  <2>1. Fails \in SUBSET Nat
    OBVIOUS
  <2> HIDE DEF Fails
  <2> QED
    BY <2>1, LeastOf
<1>2. CASE m = 0
  <2> DEFINE walk == [n \in 0 .. 0 |-> <<id>>]
  <2>1. walk = [n \in 0 .. 0 |-> IF n = 0 THEN <<id>> ELSE Older(walk[n - 1])]
    OBVIOUS
  <2> QED
    BY <1>1, <1>2, <2>1
<1>3. CASE m # 0
  <2>1. m \in Nat /\ m - 1 \in 0 .. N /\ m - 1 \notin Fails
    BY <1>1, <1>3
  <2>2. PICK walk : walk = [n \in 0 .. m - 1 |-> IF n = 0 THEN <<id>> ELSE Older(walk[n - 1])]
    BY <2>1
  <2> DEFINE further == [n \in 0 .. m |-> IF n = m THEN Older(walk[m - 1]) ELSE walk[n]]
  <2>3. \A n \in 0 .. m - 1 : further[n] = walk[n]
    BY <2>1
  <2>4. \A n \in 0 .. m : further[n] = IF n = 0 THEN <<id>> ELSE Older(further[n - 1])
    <3>1. ASSUME NEW n \in 0 .. m - 1
          PROVE  further[n] = IF n = 0 THEN <<id>> ELSE Older(further[n - 1])
      <4>1. further[n] = IF n = 0 THEN <<id>> ELSE Older(walk[n - 1])
        <5>1. walk[n] = IF n = 0 THEN <<id>> ELSE Older(walk[n - 1])
          BY <2>2
        <5> HIDE DEF further
        <5> QED
          BY <2>3, <5>1
      <4>2. n # 0 => further[n - 1] = walk[n - 1]
        BY <2>1, <2>3
      <4> QED
        BY <4>1, <4>2
    <3>2. further[m] = Older(further[m - 1])
      BY <2>1, <2>3
    <3>3. \A n \in 0 .. m : n \in 0 .. m - 1 \/ n = m
      BY <2>1
    <3>4. further[m] = IF m = 0 THEN <<id>> ELSE Older(further[m - 1])
      BY <1>3, <3>2
    <3> HIDE DEF further
    <3> QED
      BY <3>1, <3>3, <3>4
  <2>5. further = [n \in 0 .. m |-> IF n = 0 THEN <<id>> ELSE Older(further[n - 1])]
    BY <2>4
  <2> HIDE DEF further
  <2> QED
    BY <1>1, <2>5
<1> QED
  BY <1>2, <1>3

\* The page of versions of a stored paper is a chain of its slug down to the root.
LEMMA VersionsReachRoot ==
  ASSUME TypeOK, LineageInv, NoCycle, NEW i \in Stored
  PROVE  IsChain(Versions(i), papers[i].id_slug) /\ AtRoot(Versions(i))
<1> DEFINE N == Cardinality(Ids)
           slug == papers[i].id_slug
<1>1. IsFiniteSet(Ids) /\ N \in Nat
  BY ConstantsAssumption, FS_CardinalityType DEF ConstantsAssumption
<1>2. PICK walk : /\ walk = [n \in 0 .. N |-> IF n = 0 THEN <<i>> ELSE Older(walk[n - 1])]
                  /\ Versions(i) = walk[N]
  BY <1>1, WalkExists DEF Versions
<1> DEFINE Right(n) == IsChain(walk[n], slug) /\ (AtRoot(walk[n]) \/ Len(walk[n]) = n + 1)
           Wrong == {n \in 0 .. N : ~Right(n)}
<1>3. Wrong = {}
  <2> SUFFICES ASSUME Wrong # {} PROVE FALSE
    OBVIOUS
  <2>1. PICK n \in Wrong : \A k \in Wrong : n <= k
    <3>1. Wrong \in SUBSET Nat
      BY <1>1
    <3> HIDE DEF Wrong
    <3> QED
      BY <3>1, LeastOf
  <2>2. CASE n = 0
    <3>1. walk[n] = <<i>>
      BY <1>1, <1>2, <2>2
    <3>2. IsChain(<<i>>, slug) /\ Len(<<i>>) = 1
      BY DEF IsChain, Stored
    <3> QED
      BY <2>1, <2>2, <3>1, <3>2
  <2>3. CASE n # 0
    <3>1. n \in Nat /\ n - 1 \in 0 .. N /\ Right(n - 1)
      BY <1>1, <2>1, <2>3
    <3>2. walk[n] = Older(walk[n - 1])
      BY <1>1, <1>2, <2>1, <2>3
    <3>3. /\ IsChain(walk[n], slug)
          /\ IF AtRoot(walk[n - 1]) THEN walk[n] = walk[n - 1] ELSE Len(walk[n]) = Len(walk[n - 1]) + 1
      BY <3>1, <3>2, OlderChain
    <3>4. Right(n)
      BY <3>1, <3>3
    <3> QED
      BY <2>1, <3>4
  <2> QED
    BY <2>2, <2>3
<1>4. Right(N)
  BY <1>1, <1>3
<1>5. ASSUME Len(walk[N]) = N + 1 PROVE FALSE
  <2> DEFINE Places == 1 .. N + 1
  <2>1. walk[N] \in Injection(Places, Ids)
    BY <1>4, <1>5 DEF IsChain, Injection, IsInjective
  <2>2. Cardinality(Places) = N + 1
    <3> HIDE DEF N
    <3> QED
      BY <1>1, FS_Interval
  <2>3. Cardinality(Places) <= Cardinality(Ids)
    <3>1. PICK f : f \in Injection(Places, Ids)
      BY <2>1
    <3> HIDE DEF Places, N
    <3> QED
      BY <1>1, <3>1, FS_Injection
  <2> QED
    BY <1>1, <2>2, <2>3
<1> QED
  BY <1>2, <1>4, <1>5

LEMMA RecordedIsDurable ==
  TypeOK /\ LineageInv /\ NoCycle /\ RecordedInv => AckedIsDurable
<1> SUFFICES ASSUME TypeOK, LineageInv, NoCycle, RecordedInv PROVE AckedIsDurable
  OBVIOUS
<1>1. ASSUME NEW r \in replies
      PROVE  LET id  == r.response.paper_id
                 row == papers[id]
             IN /\ row # None /\ row.id_slug = r.response.id_slug
                /\ cirs[id] = row /\ sources[id] = row.upload
                /\ row.upload.pdf => pdfs[id] = row.upload
                /\ \A l \in row.upload.labels :
                     LET claim == claims[<<row.id_slug, l>>]
                     IN claim # None /\ (Heads(row.id_slug) = {id} => claim = row.upload)
                /\ row.upload.summary /\ row.previous_version # None =>
                     \E n \in notes : n.target_id = id
  <2>1. Recorded(r.response)
    BY DEF RecordedInv
  <2> QED
    BY <2>1 DEF Recorded
<1>2. ASSUME NEW r \in replies PROVE r.response.paper_id \in Stored
  BY <1>1 DEF TypeOK, Reply, Response, Stored
<1>3. ASSUME NEW i \in Stored
      PROVE  LET chain == Versions(i) IN
               /\ papers[chain[Len(chain)]].previous_version = None
               /\ \A k \in DOMAIN chain : papers[chain[k]] # None /\ papers[chain[k]].id_slug = papers[i].id_slug
               /\ Cardinality(DOMAIN chain) = Cardinality({chain[k] : k \in DOMAIN chain})
  <2>1. PICK chain : chain = Versions(i)
    OBVIOUS
  <2>2. IsChain(chain, papers[i].id_slug) /\ AtRoot(chain)
    BY <2>1, VersionsReachRoot
  <2> DEFINE Named == {chain[k] : k \in DOMAIN chain}
             Places == DOMAIN chain
  <2>3. Places = 1 .. Len(chain) /\ Len(chain) \in Nat
    BY <2>2 DEF IsChain
  <2>4. Cardinality(Places) = Cardinality(Named)
    <3>1. chain \in Bijection(Places, Named)
      BY <2>2, <2>3 DEF IsChain, Bijection, Injection, IsInjective, Surjection
    <3>2. IsFiniteSet(Places)
      BY <2>3, FS_Interval
    <3> HIDE DEF Places, Named
    <3> QED
      BY <3>1, <3>2, FS_Bijection DEF ExistsBijection
  <2> QED
    BY <2>1, <2>2, <2>3, <2>4 DEF IsChain, AtRoot, Stored
<1> QED
  BY <1>1, <1>2, <1>3, LookupListed DEF AckedIsDurable

\* A 201 is sent only for a submission that is completely stored, and nothing takes
\* any part of it back: no later revision, no resent request, no crash at any write;
\* its slug leads to a listed paper and its page of versions to the lineage's root.
THEOREM Durability ==
  ASSUME Disciplined
  PROVE  Spec => []AckedIsDurable
<1>1. Init => JobInv /\ RecordedInv
  BY DEF Init, JobInv, RecordedInv, Stages
<1>2. TypeOK /\ StageInv /\ LineageInv /\ JobInv /\ RecordedInv /\ [Next]_vars => JobInv' /\ RecordedInv'
  BY OwnInductive, RecordedInductive
<1>3. Spec => [](JobInv /\ RecordedInv)
  BY <1>1, <1>2, Types, Fits, PTL DEF Spec
<1> QED
  BY <1>3, Types, Fits, Acyclicity, RecordedIsDurable, PTL
=============================================================================
