------------------------------- MODULE MCPipeline -------------------------------
(* Small papers for module Pipeline. *)
EXTENDS Pipeline

Pid == <<"my-paper">>
Slug == <<"rrxiv", "2605.00001">>
Person(name) == "name" :> name

FrontOf(id) == [authors |-> <<"ann">>, id |-> id, records |-> <<>>, bib |-> {"k1"},
              meta |-> [authors |-> <<>>, id_slug |-> <<>>]]
One(lines) == [files |-> [f \in {"main"} |-> lines], flat |-> FALSE, piped |-> TRUE, front |-> FrontOf(Pid)]

ClaimA == Env("claim", <<"prop", "a">>, "A")
ClaimB == Env("claim", <<"prop", "b">>, "B")
ClaimC == Env("claim", <<"c">>, "C")
Bare == Env("claim", <<>>, "U")
ProofA == Env("evidence", <<"ev", "a">>, "proves A")
ProofB == Env("evidence", <<"ev", "b">>, "proves B")
Proof == Env("evidence", <<>>, "proves")
ScopeA == [Env("scope", <<"def", "a">>, "S") EXCEPT !.title = "definition"]
Remark == Env("remark", <<"post", "1">>, "R")
Hidden == [Bare EXCEPT !.wrapped = TRUE]
Keyed == [ClaimC EXCEPT !.keys = <<[key |-> "type", eq |-> TRUE, value |-> "empirical"],
                                   [key |-> "confidence", eq |-> TRUE, value |-> "0.5"]>>]
Mistyped == [ClaimC EXCEPT !.keys = <<[key |-> "tpye", eq |-> TRUE, value |-> "empirical"]>>]
Fig(dir, name, b) == [dir |-> dir, name |-> name, figure |-> b]
Illustrated == [ProofB EXCEPT !.figs = <<Fig("figures", "one", FALSE), Fig("fig", "two", FALSE), Fig("fig", "figure", TRUE)>>]

\* Any three lines out of these, and any four environments that pair.
Pieces == {ClaimA, ClaimB, Bare, ProofA, ScopeA, Remark, Hidden, Text,
           Edge("depends_on", <<"a">>, <<"b">>), Edge("supports", <<"prop", "b">>, <<"def", "a">>),
           Edge("extends", <<"b">>, <<"post", "1">>), Edge("contradicts", <<"a">>, <<"other", "claim", "x">>)}
Triples == {s \in Pieces \X Pieces \X Pieces : s[1] # s[2] /\ s[2] # s[3] /\ s[1] # s[3]}
Claims == {ClaimA, ClaimB, Bare}
Proofs == {ProofA, ProofB, Proof}
Paired == {<<c>> \o s : c \in Claims, s \in (Claims \cup Proofs) \X (Claims \cup Proofs) \X Proofs}

\* Every graph on three claims, one of them hanging over to another paper.
Ends == <<<<"a">>, <<"b">>, <<"c">>>>
Arcs == [n \in 1 .. 9 |-> Edge("depends_on", Ends[((n - 1) \div 3) + 1], Ends[((n - 1) % 3) + 1])]
Graphs3 == {SelectSeq(Arcs, LAMBDA e : e \in G) : G \in SUBSET ToSet(Arcs)}
Linked == {<<ClaimA, ClaimB, ClaimC, Edge("depends_on", <<"a">>, <<"other", "claim", "x">>)>> \o g : g \in Graphs3}

\* Papers of several files, as they are and flattened.
Files(main, one, two) == [f \in {"main", "one", "two"} |-> IF f = "main" THEN main ELSE IF f = "one" THEN one ELSE two]
Several ==
  {[One(<<>>) EXCEPT !.files = fs, !.flat = b] : b \in BOOLEAN,
     fs \in {Files(<<Text, Input("one", FALSE), Input("two", FALSE)>>, <<ClaimA, Text, ProofA>>, <<Text, ClaimB, Proof>>),
             Files(<<Input("one", FALSE), ClaimC, Proof>>, <<Text, ClaimA, Input("two", FALSE), ProofA>>, <<ClaimB, ProofB>>),
             Files(<<Input("one", FALSE)>>, <<Input("gone", FALSE), ClaimA, Proof, Input("gone", FALSE)>>, <<>>),
             Files(<<Input("one", TRUE), ClaimC, Input("gone", FALSE)>>, <<ClaimA, ClaimB>>, <<Input("two", FALSE)>>),
             Files(<<ClaimA, ClaimB, Edge("depends_on", <<"a">>, <<"b">>), Input("one", TRUE)>>,
                   <<Text, Env("claim", <<"lem", "a">>, "D")>>, <<>>),
             Files(<<Text, Figure, Input("one", FALSE), ClaimC>>, <<Text, Figure, ClaimA, Figure, ClaimB>>, <<>>),
             Files(<<ClaimC, Input("one", FALSE), Bare>>, <<ClaimA, Input("one", FALSE), ClaimB>>, <<>>)}}

Odd ==
  {One(<<Keyed, Proof, ClaimB, Illustrated>>), One(<<Mistyped, Proof>>), One(<<Bare, [Bare EXCEPT !.numbered = FALSE]>>),
   One(<<Env("claim", <<"claim", "2">>, "A"), Bare>>),
   One(<<ClaimA, ClaimB, Edge("supports", Pid \o <<"prop", "a">>, Pid \o <<"prop", "b">>)>>),
   [One(<<Input("gone", FALSE), ClaimA>>) EXCEPT !.flat = TRUE],
   One(<<Heading("intro"), LabelNode(<<"sec", "intro">>), Cite("k1"), Cite("k2"), BibItem("k2"), Heading("end"), ClaimA>>),
   [One(<<ClaimA, ClaimB, Edge("depends_on", <<"prop", "a">>, <<"prop", "b">>)>>) EXCEPT !.piped = FALSE]}

\* One paper by different people.
Meta(people, slug) == [authors |-> people, id_slug |-> slug]
People ==
  {[One(<<ClaimA>>) EXCEPT !.front = [FrontOf(<<>>) EXCEPT !.authors = a, !.records = r, !.meta = m]] :
     a \in {<<>>, <<"ann", "bob", "ann">>, <<"bob", "">>},
     r \in {<<>>,
            <<Person("ann") @@ ("orcid" :> "o1") @@ ("role" :> "author"), Person("ann") @@ ("role" :> "editor")>>,
            <<Person("agent") @@ ("handle" :> "h") @@ ("model_slug" :> "m1"), "orcid" :> "o9">>},
     m \in {Meta(<<>>, <<>>),
            Meta(<<Person("bob") @@ ("role" :> "lead"), Person("eve")>>, Slug),
            Meta(<<Person("ann") @@ ("orcid" :> "o2") @@ ("junk" :> "x"), "role" :> "lost">>, <<>>),
            Meta(<<Person("agent") @@ ("provenance" :> ("model_slug" :> "m2"))>>, <<>>)}}

MCSources ==
  {One(s) : s \in Triples} \cup {One(s) : s \in Paired} \cup {One(s) : s \in Linked}
    \cup Several \cup Odd \cup People

\* Two claims whose markers fired too early, and a paper whose included file includes
\* what is not there.
Unstepped == {One(<<[Bare EXCEPT !.numbered = FALSE], [Bare EXCEPT !.numbered = FALSE, !.text = "V"], ClaimA>>)}
Unresolved == {[One(<<>>) EXCEPT !.files = Files(<<Input("one", FALSE)>>, <<Input("gone", FALSE), ClaimA, Proof>>, <<>>), !.flat = TRUE]}

\* A revision of a paper whose \rrxivid is, like those of the seed papers, another
\* slug than it is given.
Rebased ==
  {[One(<<ClaimA, ClaimB, Edge("depends_on", <<"a">>, <<"b">>)>>) EXCEPT !.front = FrontOf(id)] : id \in {Pid, <<"rrxiv", "2605.00004">>}}
=============================================================================
