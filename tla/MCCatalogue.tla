------------------------------ MODULE MCCatalogue ------------------------------
(***************************************************************************)
(* A small instance of Catalogue: a paper of an author, her agent and      *)
(* somebody whose handle and ORCID iD are neither, its revision with other *)
(* topics, another model without a pin and one claim more, annotations of  *)
(* several weeks, one visit of the seeder; keys, codes and tokens apart.   *)
(***************************************************************************)
EXTENDS Catalogue

Slug == <<"rrxiv", "2605.1">>
C1 == Slug \o <<"claim", "c1">>
C2 == Slug \o <<"claim", "c2">>
Elsewhere == <<"rrxiv", "2604.7", "claim", "c9">>

Edges(depends_on, extends) ==
  [depends_on |-> depends_on, supports |-> << >>, contradicts |-> << >>, extends |-> extends]
ClaimRow(id, edges) ==
  [id |-> id, paper_id |-> Slug, replication_status |-> "untested", edges |-> edges]

Claude == [release_pin |-> "claude-1", name |-> "Claude", family |-> "claude"]
Claude2 == [Claude EXCEPT !.release_pin = "claude-2"]
Llama == [release_pin |-> None, name |-> "Llama", family |-> "llama"]
Ann == [name |-> "Ann", orcid |-> "0000-1", agent_handle |-> None, is_agent |-> FALSE, role |-> "human", models |-> {}]
Bot == [name |-> "bot", orcid |-> "0000-1", agent_handle |-> "agent:bot", is_agent |-> TRUE, role |-> "agent",
        models |-> {Claude}]
Eve == [name |-> "Eve", orcid |-> "none", agent_handle |-> "eve", is_agent |-> FALSE, role |-> "human", models |-> {}]

InSmallLetters == [Ann |-> "ann", Eve |-> "eve", Claude |-> "claude", Llama |-> "llama"]
LowerOf(name) == IF name \in DOMAIN InSmallLetters THEN InSmallLetters[name] ELSE name

PaperRow(id, prev, topics, authors, at) ==
  [id |-> id, id_slug |-> Slug, previous_version |-> prev, topics |-> topics,
   authors |-> authors, submitted_at |-> at]
First == [row |-> PaperRow(<<"u1">>, None, {<<"math">>}, <<Ann, Bot, Eve>>, 0),
          claims |-> <<ClaimRow(C1, Edges(<< >>, << >>))>>]
Second == [row |-> PaperRow(<<"u2">>, <<"u1">>, {<<"ml">>}, <<Ann, [Bot EXCEPT !.models = {Claude2, Llama}], [Eve EXCEPT !.name = "eve"]>>, 3),
           claims |-> <<ClaimRow(C1, Edges(<< >>, << >>)), ClaimRow(C2, Edges(<<C1>>, <<Elsewhere>>))>>]

Note(id, target, type, outcome, by, at) ==
  [id |-> id, target |-> target, type |-> type, in_reply_to |-> None, supersedes |-> None,
   outcome |-> outcome, fresh |-> TRUE, lifts |-> FALSE, retracts |-> FALSE, by |-> by, created_at |-> at]
OnC1 == [type |-> "claim", id |-> C1]
OnFirst == [type |-> "paper", id |-> <<"u1">>]

Submit(paper) == [op |-> "submit", at |-> paper.row.submitted_at, paper |-> paper]
Annotate(row) == [op |-> "annotate", at |-> row.created_at, row |-> row]
View(n, at) == [op |-> "view", at |-> at, claim |-> C1, n |-> n]

CorpusRequests ==
  {Submit(First), Submit(Second), View(1, 0), View(2, 3),
   Annotate(Note("a1", OnFirst, "comment", "", <<"orcid", "0000-1">>, 0)),
   Annotate(Note("a2", OnC1, "replication", "supports", <<"orcid", "0000-2">>, 3)),
   Annotate(Note("a3", OnC1, "replication", "contradicts", <<"agent", "agent:bot">>, 52)),
   Annotate(Note("a4", [type |-> "claim", id |-> C2], "claim_retraction", "", <<"orcid", "0000-1">>, 59)),
   [op |-> "reset", at |-> 3, paper |-> First],
   [op |-> "reseed", at |-> 52, paper |-> First]}

IdentityRequests ==
  {[op |-> "issue", at |-> 0, table |-> "orcid_keys", key |-> "k1", row |-> [orcid_id |-> "0000-1", revoked_at |-> None]],
   [op |-> "revoke", at |-> 0, key |-> "k1", now |-> 1], [op |-> "revoke", at |-> 0, key |-> "k1", now |-> 2],
   [op |-> "issue", at |-> 0, table |-> "paste_codes", key |-> "p1", row |-> [identity |-> "0000-1", consumed |-> FALSE]],
   [op |-> "redeem", at |-> 0, key |-> "p1", token |-> "t1"], [op |-> "redeem", at |-> 0, key |-> "p1", token |-> "t2"],
   [op |-> "logout", at |-> 0, key |-> "t1"]}

AllRequests == CorpusRequests \cup IdentityRequests
SomeDays == {0, 3, 52, 59}
SomeExcluded == {"0000-2"}
SomeHandles == {"agent:bot"}
SomeOrcids == {"0000-1", "0000-2"}
=============================================================================
