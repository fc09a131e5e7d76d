--------------------------------- MODULE MCReads ---------------------------------
(***************************************************************************)
(* Small instances of Annotations and Reads: a seeded paper with a claim,  *)
(* a revision of it to submit, and annotations that reply to, supersede    *)
(* and lift each other.                                                    *)
(***************************************************************************)
EXTENDS Reads

OldClaim == [id |-> <<"rrxiv", "2605.1", "c1">>, paper_id |-> <<"rrxiv", "2605.1">>,
             replication_status |-> "untested"]
\* The revision restates it, with a status outside the five, and adds another.
Restated == [OldClaim EXCEPT !.replication_status = "accepted"]
NewClaim == [id |-> <<"rrxiv", "2605.1", "c2">>, paper_id |-> <<"rrxiv", "2605.1">>,
             replication_status |-> "replicated"]
Old == [id |-> <<"u1">>, id_slug |-> <<"rrxiv", "2605.1">>, previous_version |-> None,
        submitted_at |-> 1, topics |-> {<<"math", "HO">>}, claims |-> {OldClaim}]
Revised == [id |-> <<"u2">>, id_slug |-> <<"rrxiv", "2605.1">>, previous_version |-> <<"u1">>,
            submitted_at |-> 2, topics |-> {<<"ml">>}, claims |-> {Restated, NewClaim}]

Note(id, claim, type, reply, supersedes, outcome, lifts, at) ==
  [id |-> id, target |-> [type |-> "claim", id |-> claim.id], type |-> type,
   in_reply_to |-> reply, supersedes |-> supersedes, outcome |-> outcome,
   fresh |-> TRUE, lifts |-> lifts, by |-> "author", created_at |-> at]

Supports == Note(None, OldClaim, "replication", None, None, "supports", FALSE, 2)
Contradicts == Note(1, OldClaim, "replication", None, None, "contradicts", FALSE, 1)
Retraction == Note(2, OldClaim, "claim_retraction", None, None, "", FALSE, 2)
Lift == Note(3, OldClaim, "comment", 2, None, "", TRUE, 1)
Retraction2 == Note(4, OldClaim, "claim_retraction", None, 2, "", FALSE, 2)
OnNew == Note(5, NewClaim, "replication", None, None, "supports", FALSE, 3)
ReplyOnNew == Note(3, NewClaim, "comment", 1, None, "", FALSE, 3)

AllPapers == {Old, Revised}
OldPaper == {Old}

Posts == {Supports, Retraction, Lift, Retraction2, OnNew}
OneBatch == {<<Lift, Retraction>>, <<Contradicts, ReplyOnNew>>}
=============================================================================
