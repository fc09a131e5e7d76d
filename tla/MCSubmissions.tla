----------------------------- MODULE MCSubmissions -----------------------------
(***************************************************************************)
(* Small instances of Submissions. The uploads are the documents an author *)
(* has: a first submission, a revision whose CIR has an id of its own, and *)
(* CIRs that reuse an id.                                                  *)
(***************************************************************************)
EXTENDS Submissions

CONSTANTS u1, u2, f1, c1, c2

Doc(doc, id, labels, pdf, summary, at) ==
  [doc |-> doc, id |-> id, id_slug |-> None, previous_version |-> None,
   labels |-> labels, pdf |-> pdf, summary |-> summary, submitted_at |-> at]

First == Doc("first", None, {c1, c2}, TRUE, FALSE, 1)
Revised == Doc("revised", f1, {c1}, FALSE, TRUE, 2)
\* made from GET /papers/u1/cir, so it carries u1's id and slug
Downloaded == [Doc("downloaded", u1, {c2}, FALSE, FALSE, 2) EXCEPT !.id_slug = 1]

HonestUploads == {First, Revised, Downloaded}

\* rrxiv parse gives every version of main.tex the id "main"
SecondDraft == Doc("second", f1, {c1}, FALSE, FALSE, 2)
ThirdDraft == Doc("third", f1, {c1}, FALSE, FALSE, 3)
DraftUploads == {First, SecondDraft, ThirdDraft}
=============================================================================
