------------------------------ MODULE Manuscripts ------------------------------
(***************************************************************************)
(* A paper's LaTeX source as the parser reads it: the files inlined into   *)
(* one text and what the walker picks out of it (src/src/rrxiv/parser/     *)
(* tex.py).                                                                *)
(*                                                                         *)
(* A file is a sequence of nodes, one a line.  A semantic environment is   *)
(* one node, with the label, the \input references and the optional        *)
(* argument found inside it; `wrapped' says that it stands inside an       *)
(* environment that is neither document nor semantic, `numbered' that its  *)
(* marker fires after LaTeX has stepped the counter.  A label is the       *)
(* sequence of its colon-separated segments, <<>> where there is none.     *)
(***************************************************************************)
EXTENDS Naturals, Sequences, SequencesExt

CONSTANTS
  MaxDepth,     \* how deep \input is followed (16)
  LabelWindow   \* how many nodes after a heading its label is looked for in (12)

ASSUME WindowAssumption == MaxDepth \in Nat /\ LabelWindow \in Nat

\* TEX_ENV_NAMES by the names of their sidecar markers (rrxivremark is remark).
Kinds == {"claim", "evidence", "observation", "scope", "openquestion", "remark"}

Text == [k |-> "text"]
Figure == [k |-> "figure"]                                       \* \input{figures/...}
Input(file, off) == [k |-> "input", file |-> file, off |-> off]  \* off: after a %
Env(env, label, text) ==
  [k |-> "env", env |-> env, label |-> label, text |-> text, title |-> "none",
   keys |-> <<>>, figs |-> <<>>, wrapped |-> FALSE, numbered |-> TRUE]
Edge(kind, source, target) == [k |-> "edge", kind |-> kind, source |-> source, target |-> target]
Heading(title) == [k |-> "section", title |-> title]
LabelNode(label) == [k |-> "label", label |-> label]
Cite(key) == [k |-> "cite", key |-> key]
BibItem(key) == [k |-> "bibitem", key |-> key]

\* A line of a text put together from files: the author's, or one that flatten-tex or
\* the parser wrote: its marks, a comment where nothing was read, and the rest of the
\* line a directive stood on.
Place(file, line) == [mark |-> "line", file |-> file, line |-> line]
Mark(mark, file) == [mark |-> mark, file |-> file, line |-> 0]

\* Places of a sequence in order, and what stands there.
InOrder(S) == [n \in 1 .. Cardinality(S) |-> CHOOSE i \in S : Cardinality({j \in S : j <= i}) = n]
Picked(s, S) == [n \in 1 .. Cardinality(S) |-> s[InOrder(S)[n]]]

\* A number as it stands in an id.
Numeral(n) == ToString(n)

-----------------------------------------------------------------------------
\* scripts/flatten-tex.py, of which the repository has only the output: each
\* inlined file between two marks, a mark before what it does not inline (what is not
\* there, what is being inlined, a figure).
FlattenTex(files) ==
  LET flat[v \in [file : DOMAIN files, seen : SUBSET DOMAIN files]] ==
        FlattenSeq([n \in DOMAIN files[v.file] |->
          LET x == files[v.file][n]
              within == v.seen \cup {v.file}
          IN IF x.k \notin {"input", "figure"} THEN <<Place(v.file, n)>>
             ELSE IF x.k = "input" /\ x.file \in DOMAIN files \ within
             THEN <<Mark("inlined", x.file)>> \o flat[[file |-> x.file, seen |-> within]] \o <<Mark("end", x.file)>>
             ELSE <<Mark("missing", v.file), Place(v.file, n)>>])
  IN flat[[file |-> "main", seen |-> {}]]

AsPlaces(files, f) == [n \in DOMAIN files[f] |-> Place(f, n)]

\* The file a paper is parsed from, tex_path: main.tex, or, with flat, what flatten-tex
\* made of it.
RawText(paper) == IF paper.flat THEN FlattenTex(paper.files) ELSE AsPlaces(paper.files, "main")

\* A directive after a % is replaced like any other: the first line of the
\* file lands in the comment, the others do not.
CommentOut(lines) == IF lines = <<>> THEN <<>> ELSE <<Mark("comment", "main")>> \o Tail(lines)

\* A line of a text, and in the place of a directive (not a figure's) what it names: a
\* comment where nothing is read. Both end in a newline, and the line's own follows.
Resolved(files, p, Read(_)) ==
  LET x == files[p.file][p.line]
      got == IF x.file \in DOMAIN files THEN Read(x.file) ELSE <<Mark("comment", p.file)>>
  IN IF p.mark # "line" \/ x.k # "input" THEN <<p>>
     ELSE (IF x.off THEN CommentOut(got) ELSE got) \o <<Mark("rest", p.file)>>

ReadTexResolvingInputs(paper) ==
  LET files == paper.files
      read[v \in [depth : 1 .. MaxDepth + 1, file : DOMAIN files, seen : SUBSET DOMAIN files]] ==
        IF v.depth > MaxDepth \/ v.file \in v.seen THEN <<Mark("comment", v.file)>>
        ELSE LET Read(f) == read[[depth |-> v.depth + 1, file |-> f, seen |-> v.seen \cup {v.file}]]
             IN FlattenSeq([n \in DOMAIN files[v.file] |-> Resolved(files, Place(v.file, n), Read)])
      Read(f) == read[[depth |-> 1, file |-> f, seen |-> IF paper.flat THEN {} ELSE {"main"}]]
  IN FlattenSeq([n \in DOMAIN RawText(paper) |-> Resolved(files, RawText(paper)[n], Read)])

\* What LaTeX typesets, and so what rrxiv.cls writes markers about.
Typeset(files) ==
  LET set[v \in [file : DOMAIN files, seen : SUBSET DOMAIN files]] ==
        FlattenSeq([n \in DOMAIN files[v.file] |->
          LET x == files[v.file][n]
              within == v.seen \cup {v.file}
          IN IF x.k # "input" THEN <<x>>
             ELSE IF ~x.off /\ x.file \in DOMAIN files \ within
             THEN set[[file |-> x.file, seen |-> within]] ELSE <<>>])
  IN set[[file |-> "main", seen |-> {}]]

\* The text it is parsed from: parse_tex_file resolves the inputs of either.
Body(paper) == ReadTexResolvingInputs(paper)

Nodes(paper) ==
  [i \in DOMAIN Body(paper) |->
     LET p == Body(paper)[i]
         x == paper.files[p.file][p.line]
     IN IF p.mark = "line" /\ x.k # "input" THEN x ELSE Text]

-----------------------------------------------------------------------------
(* The walker *)

\* _walk: it enters the document environment only, so that an environment
\* inside another is not seen. By their places.
Environments(nodes) == {i \in DOMAIN nodes : nodes[i].k = "env" /\ ~nodes[i].wrapped}

OfKind(nodes, kinds) == InOrder({i \in Environments(nodes) : nodes[i].env \in kinds})

\* The first label in the nodes after a heading, whatever it labels.
SectionLabel(nodes, i) ==
  LET near == {j \in i + 1 .. i + LabelWindow : j \in DOMAIN nodes /\ nodes[j].k = "label"}
  IN IF near = {} THEN <<>> ELSE nodes[Min(near)].label

\* _build_sections.
Sections(nodes) ==
  LET heads == InOrder({i \in DOMAIN nodes : nodes[i].k = "section"})
  IN [n \in DOMAIN heads |->
        [id |-> IF SectionLabel(nodes, heads[n]) # <<>> THEN SectionLabel(nodes, heads[n])
                ELSE <<"sec", Numeral(n - 1)>>,
         title |-> nodes[heads[n]].title]]

\* _scan_cites_in_nodes: at any depth.
CitedKeys(nodes) == {nodes[i].key : i \in {j \in DOMAIN nodes : nodes[j].k = "cite"}}

\* parse_thebibliography reads main.tex itself, without its inputs.
InlineKeys(files) == {n.key : n \in {x \in ToSet(files["main"]) : x.k = "bibitem"}}
=============================================================================
