------------------------------ MODULE Replication ------------------------------
(***************************************************************************)
(* The replication status the server derives for a claim on every read     *)
(* (src/src/rrxiv/server/claims/replication.py), as a function of the      *)
(* annotations A stored at that moment.                                    *)
(*                                                                         *)
(* Ids of papers and claims are the sequences of their colon-separated     *)
(* segments, topics those of their dot-separated ones.                     *)
(***************************************************************************)
EXTENDS Integers, Sequences, FiniteSets

CONSTANT None

-----------------------------------------------------------------------------
\* _QUORUM_TABLE.
QuorumTable == <<
  [tags |-> {<<"math">>, <<"cs", "formal-verification">>}, quorum |-> 1],
  [tags |-> {<<"crypto">>, <<"cs", "algorithms">>, <<"cs", "systems">>, <<"cs", "crypto">>}, quorum |-> 2],
  [tags |-> {<<"ml">>, <<"rl">>, <<"cs", "nlp">>, <<"cs", "cv">>, <<"cs", "lg">>,
             <<"physics", "experimental">>, <<"chem", "experimental">>, <<"bio", "experimental">>}, quorum |-> 3],
  [tags |-> {<<"psychology">>, <<"social-sci">>, <<"economics">>, <<"econ">>}, quorum |-> 5]>>

Families(topics) == {<<Head(t)>> : t \in {u \in topics : Len(u) > 1}}

Rows(topics) == {n \in DOMAIN QuorumTable : QuorumTable[n].tags \cap topics # {}}

\* Exact topics before families, the first row that matches, 3 when none does.
Quorum(topics) ==
  LET hits == IF Rows(topics) # {} THEN Rows(topics) ELSE Rows(Families(topics))
  IN IF hits = {} THEN 3
     ELSE QuorumTable[CHOOSE n \in hits : \A m \in hits : n <= m].quorum

-----------------------------------------------------------------------------
Superseded(a, A) == \E b \in A : b.supersedes = a.id

\* A comment in reply to it, with lifts_retraction, from the same identity.
Lifted(a, A) ==
  \E b \in A : b.in_reply_to = a.id /\ b.type = "comment" /\ b.lifts /\ b.by = a.by

AboutOwner(c, A) == {a \in A : Head(a.target.id) = Head(c.id)} \* mutant: all of the server

About(c, A) == {a \in A : a.target.id = c.id}
OfType(type, A) == {a \in A : a.type = type}

Retracted(c, A) ==
  \E a \in OfType("claim_retraction", About(c, A)) : ~Superseded(a, A) /\ ~Lifted(a, A)

Standing(c, A) == {a \in OfType("replication", About(c, A)) : ~Superseded(a, A)}

Statuses == {"untested", "partial", "replicated", "contradicted", "retracted"}

\* The rule once the retractions are out of the way: without replications the
\* authored status, if it is one.
FromReplications(reps, authored, quorum) ==
  LET N(outcome) == Cardinality({a \in reps : a.outcome = outcome})
      independent == Cardinality({a \in reps : a.outcome = "supports" /\ a.fresh})
  IN CASE reps = {} -> IF authored \in Statuses THEN authored ELSE "untested"
       [] reps # {} /\ N("contradicts") > 0 /\ N("contradicts") >= N("supports") -> "contradicted"
       [] OTHER -> IF independent >= quorum THEN "replicated"
                   ELSE IF N("supports") > 0 \/ N("partial") > 0 THEN "partial"
                   ELSE "untested"

Status(c, A, quorum) ==
  IF Retracted(c, A) THEN "retracted"
  ELSE FromReplications(Standing(c, A), c.replication_status, quorum)

\* The order of the statuses replications lead to; properties speak of it.
Rank(status) ==
  CASE status = "contradicted" -> 0 [] status = "untested" -> 1
    [] status = "partial" -> 2 [] status = "replicated" -> 3

=============================================================================
