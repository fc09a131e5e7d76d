-------------------------------- MODULE MCReseed --------------------------------
(***************************************************************************)
(* A small instance of Reseed: two seed files, one without blobs and       *)
(* without a slug, and a community author with a paper.                    *)
(***************************************************************************)
EXTENDS Reseed

CONSTANTS u1, u2, f1, f2, c1, c2

Doc(doc, id, id_slug, labels, pdf, at_time) ==
  [doc |-> doc, id |-> id, id_slug |-> id_slug, previous_version |-> None,
   labels |-> labels, pdf |-> pdf, summary |-> FALSE, submitted_at |-> at_time]

Paper == Doc("paper", None, None, {c1, c2}, TRUE, 2)
TwoSeeds == <<Doc("seed1", f1, 1, {c1}, TRUE, 1), Doc("seed2", f2, None, {c1}, FALSE, 1)>>

AllUploads == {Paper, TwoSeeds[1], TwoSeeds[2]}
=============================================================================
